----------------------------- MODULE MCBridges ------------------------------
EXTENDS Bridges

Opt(letter, arg) == [letter |-> letter, arg |-> arg]

\* Command lines: no delay, a bare one of 10, one of 2 after another and with
\* every other option, one that wraps to 0, and three that are refused.
MCArguments ==
  {[options |-> <<>>, operands |-> 1],
   [options |-> <<Opt("d", <<>>), Opt("B", -2)>>, operands |-> 2],
   [options |-> <<Opt("d", <<7>>), Opt("L", <<>>), Opt("H", "on"), Opt("v", <<>>),
                  Opt("s", "ttyUSB1"), Opt("t", "tun1"), Opt("a", "host"),
                  Opt("p", "60001"), Opt("d", <<2>>)>>, operands |-> 1],
   [options |-> <<Opt("d", <<65536>>)>>, operands |-> 1],
   [options |-> <<Opt("T", <<>>), Opt("d", <<1>>)>>, operands |-> 1],
   [options |-> <<Opt("d", <<4>>)>>, operands |-> 0],
   [options |-> <<Opt("B", 300), Opt("d", <<3>>)>>, operands |-> 1]}
=============================================================================
