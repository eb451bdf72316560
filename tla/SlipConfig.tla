----------------------------- MODULE SlipConfig -----------------------------
(* slip-config.c: what the native border router's command line does to the   *)
(* delay between packets, and what it refuses.  An option is a letter and,   *)
(* where it has one, an argument; numbers are what atoi() makes of them.     *)
EXTENDS Integers, Sequences

Bauds == {9600, 19200, 38400, 57600, 115200, 921600}

\* An optional argument is a sequence of one number, or of none.
Given(arg, default) == IF arg = <<>> THEN default ELSE arg[1]

\* Mutant: without the cast.
SetDelayUncast(arg) == Given(arg, 10)

UInt16 == 65536

\* -d: 10, or the argument cast to uint16_t.
SetDelay(arg) == Given(arg, 10) % UInt16

\* -D and -T are in the list of getopt() but have no case: like -h and an
\* unknown letter they end the program with the usage.
Letters == {"B", "H", "L", "s", "t", "a", "p", "d", "v"}

\* Where an option was used for the last time, if it was.
LastUse(options, letter) ==
  {i \in DOMAIN options :
     options[i].letter = letter /\ \A j \in DOMAIN options :
                                     options[j].letter = letter => j <= i}

\* The argument the getopt loop leaves: every use of an option overwrites it.
LastArg(options, letter) == options[CHOOSE i \in LastUse(options, letter) : TRUE].arg

Basedelay(options) ==
  IF LastUse(options, "d") = {} THEN 0 ELSE SetDelay(LastArg(options, "d"))

\* What slip_config_handle_arguments() refuses by printing the usage: a letter
\* without a case, too few or too many operands, a rate it does not know (-2
\* keeps the default).
Refused(options, operands) ==
  \/ \E i \in DOMAIN options : options[i].letter \notin Letters
  \/ operands \notin {1, 2}
  \/ /\ LastUse(options, "B") # {}
     /\ LastArg(options, "B") \notin Bauds \cup {-2}
=============================================================================
