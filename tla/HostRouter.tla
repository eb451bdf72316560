----------------------------- MODULE HostRouter -----------------------------
(* The start-up and the commands of the native border router:                *)
(* border_router_process asks the slip-radio for its MAC address once a      *)
(* second until it has one, then sets the prefix and becomes RPL root;       *)
(* border_router_cmd_handler() serves commands from the radio and from       *)
(* stdin, told apart by command_context.  The radio's side is the command    *)
(* handlers of slip-radio.c and, on a Sky mote, slip-radio-cc2420.c.  The    *)
(* line between them may lose messages and delays them at will.              *)
EXTENDS Integers, Sequences

CONSTANTS
  RadioMac,     \* the address of the slip-radio
  UserMac,      \* an address a user might type
  Channels,     \* the radio channels, 11 to 26 in IEEE 802.15.4
  Commands,     \* what the user types
  LineCap,      \* bound on the messages under way each way (model only)
  MaxLosses,    \* bound on the messages lost (model only)
  MaxVersion    \* bound on the RPL version (model only)

ASSUME MacsAssumption == RadioMac # UserMac /\ "none" \notin {RadioMac, UserMac}
ASSUME HostRouterAssumption ==
  /\ Channels \subseteq 11..26 /\ Channels # {}
  /\ LineCap \in Nat \ {0, 1} /\ MaxLosses \in Nat /\ MaxVersion \in Nat
ASSUME CommandsAssumption == \A c \in Commands : c.cmd = "?C" => c = [cmd |-> "?C"]

NoAddress == "none"

VARIABLES
  pc,              \* where border_router_process is
  mac_set,
  lladdr,          \* uip_lladdr
  addr,            \* the interface id of the global address, if there is one
  root,            \* this node is the root of the RPL instance
  rplFull,         \* history: rpl_set_root() has returned NULL
  version,         \* the version of its DODAG
  valid_prefix,    \* the prefix argument parses
  command_context,
  channel,         \* the radio's channel
  toRadio, toHost, \* messages on the line
  losses           \* history: messages lost

boot == <<pc, mac_set, lladdr, addr, root, rplFull, version>>
line == <<toRadio, toHost, losses>>
vars == <<boot, valid_prefix, command_context, channel, line>>

Macs == {RadioMac, UserMac, NoAddress}
RadioBound == [cmd : {"?M", "?C"}] \cup [cmd : {"!C"}, chan : Channels]
HostBound ==
  [cmd : {"!M"}, mac : {RadioMac}] \cup [cmd : {"!C"}, chan : Channels]

TypeOK ==
  /\ pc \in {"start", "wait", "serve", "exit"}
  /\ mac_set \in BOOLEAN
  /\ lladdr \in Macs
  /\ addr \in Macs
  /\ root \in BOOLEAN /\ rplFull \in BOOLEAN
  /\ version \in 0..MaxVersion
  /\ valid_prefix \in BOOLEAN
  /\ command_context \in {"stdio", "radio"}
  /\ channel \in Channels
  /\ toRadio \in Seq(RadioBound) /\ Len(toRadio) <= LineCap
  /\ toHost \in Seq(HostBound) /\ Len(toHost) <= LineCap
  /\ losses \in 0..MaxLosses

Init ==
  /\ pc = "start" /\ mac_set = FALSE
  /\ lladdr = NoAddress /\ addr = NoAddress
  /\ root = FALSE /\ rplFull = FALSE /\ version = 0
  /\ valid_prefix \in BOOLEAN
  /\ command_context = "stdio"
  /\ channel \in Channels
  /\ toRadio = <<>> /\ toHost = <<>> /\ losses = 0
-----------------------------------------------------------------------------
\* write_to_slip() of a request.
Post(m) == Len(toRadio) < LineCap /\ toRadio' = Append(toRadio, m)

\* The same for what the user types; the bound on the line leaves a place for
\* the process's own request.
PostForUser(m) == Len(toRadio) < LineCap - 1 /\ Post(m)

\* request_mac() and the timer of one second that the process then waits for.
RequestMac ==
  /\ pc' = "wait"
  /\ Post([cmd |-> "?M"])
  /\ UNCHANGED <<mac_set, lladdr, addr, root, rplFull, version>>

\* set_prefix_64(): a global address made from the link-layer one, and the
\* root of a new DODAG if RPL has room for one.
SetPrefix ==
  /\ pc' = "serve"
  /\ addr' = lladdr
  /\ \/ root' = TRUE /\ UNCHANGED rplFull
     \/ rplFull' = TRUE /\ UNCHANGED root
  /\ UNCHANGED <<mac_set, lladdr, version, toRadio>>

\* border_router_process starts: SLIP is up, no address yet.
Boot ==
  /\ pc = "start"
  /\ RequestMac
  /\ UNCHANGED <<valid_prefix, command_context, channel, toHost, losses>>

\* Mutant: the address is asked for only once.
TimerExpiresAskedOnce ==
  /\ pc = "wait"
  /\ mac_set
  /\ \/ valid_prefix /\ SetPrefix
     \/ ~valid_prefix /\ pc' = "exit"
        /\ UNCHANGED <<mac_set, lladdr, addr, root, rplFull, version, toRadio>>
  /\ UNCHANGED <<valid_prefix, command_context, channel, toHost, losses>>

\* The timer of the start-up loop expires: ask again, or go on.
TimerExpires ==
  /\ pc = "wait"
  /\ \/ ~mac_set /\ RequestMac
     \/ mac_set /\ valid_prefix /\ SetPrefix
     \/ mac_set /\ ~valid_prefix /\ pc' = "exit"
        /\ UNCHANGED <<mac_set, lladdr, addr, root, rplFull, version, toRadio>>
  /\ UNCHANGED <<valid_prefix, command_context, channel, toHost, losses>>

\* border_router_set_mac(): takes the address and starts the address tables
\* and RPL afresh.
SetMac(mac) ==
  /\ lladdr' = mac
  /\ addr' = NoAddress
  /\ root' = FALSE
  /\ version' = 0
  /\ mac_set' = TRUE
  /\ UNCHANGED <<pc, rplFull, toRadio>>

\* rpl_repair_root(): a new version of the DODAG, if this node is its root.
RepairRoot ==
  /\ version' = IF root /\ version < MaxVersion THEN version + 1 ELSE version
  /\ UNCHANGED <<pc, mac_set, lladdr, addr, root, rplFull, toRadio>>

\* Mutant: an address is taken from the user as well.
HandleAnyContext(m, context) ==
  /\ command_context' = context
  /\ CASE m.cmd = "!M" -> SetMac(m.mac)
       [] m.cmd = "!G" /\ context = "stdio" -> RepairRoot
       [] m.cmd = "?C" /\ context = "stdio" -> PostForUser(m) /\ UNCHANGED boot
       [] OTHER -> UNCHANGED <<boot, toRadio>>

\* border_router_cmd_handler(): each command is served in one context only;
\* the others ("!C" and "!D" of the radio, "?M" and "?S" of the user) print or
\* keep data for display.
Handle(m, context) ==
  /\ command_context' = context
  /\ CASE m.cmd = "!M" /\ context = "radio" -> SetMac(m.mac)
       [] m.cmd = "!G" /\ context = "stdio" -> RepairRoot
       [] m.cmd = "?C" /\ context = "stdio" -> PostForUser(m) /\ UNCHANGED boot
       [] OTHER -> UNCHANGED <<boot, toRadio>>

Running == pc \notin {"start", "exit"}

\* serial_input() passes a command of the radio to the handler.
FromRadio ==
  /\ Running
  /\ toHost # <<>>
  /\ toHost' = Tail(toHost)
  /\ Handle(Head(toHost), "radio")
  /\ UNCHANGED <<valid_prefix, channel, losses>>

\* border_router_cmd_process passes a line of stdin to the handler.
FromUser(c) ==
  /\ Running
  /\ Handle(c, "stdio")
  /\ UNCHANGED <<valid_prefix, channel, toHost, losses>>

\* Mutant: the radio answers before it has an address.
AnswerTooEarly(m) ==
  IF m.cmd = "?M" THEN <<[cmd |-> "!M", mac |-> NoAddress]>> ELSE <<>>

\* What the radio's command handlers answer to a request.
Answer(m) ==
  CASE m.cmd = "?M" -> <<[cmd |-> "!M", mac |-> RadioMac]>>
    [] m.cmd = "?C" -> <<[cmd |-> "!C", chan |-> channel]>>
    [] OTHER -> <<>>

\* The radio's command handlers.
RadioHandles ==
  LET m == Head(toRadio)
      answer == Answer(m)
  IN
  /\ toRadio # <<>>
  /\ Len(toHost) + Len(answer) <= LineCap
  /\ toRadio' = Tail(toRadio)
  /\ toHost' = toHost \o answer
  /\ channel' = IF m.cmd = "!C" THEN m.chan ELSE channel
  /\ UNCHANGED <<boot, valid_prefix, command_context, losses>>

LoseRequest ==
  /\ losses < MaxLosses
  /\ toRadio # <<>>
  /\ toRadio' = Tail(toRadio)
  /\ losses' = losses + 1
  /\ UNCHANGED <<boot, valid_prefix, command_context, channel, toHost>>

LoseAnswer ==
  /\ losses < MaxLosses
  /\ toHost # <<>>
  /\ toHost' = Tail(toHost)
  /\ losses' = losses + 1
  /\ UNCHANGED <<boot, valid_prefix, command_context, channel, toRadio>>

Next ==
  \/ Boot \/ TimerExpires
  \/ FromRadio
  \/ \E c \in Commands : FromUser(c)
  \/ RadioHandles
  \/ LoseRequest \/ LoseAnswer

Spec == Init /\ [][Next]_vars

\* Contiki runs the process and its timer and serves the line; the radio
\* handles what arrives.
FairSpec ==
  /\ Spec
  /\ WF_vars(Boot) /\ WF_vars(TimerExpires)
  /\ WF_vars(FromRadio) /\ WF_vars(RadioHandles)
-----------------------------------------------------------------------------
(* Properties *)

\* A root has an address made from the radio's MAC address, never from none
\* and never from one typed by the user.
RootHasRadioAddress ==
  root => mac_set /\ lladdr = RadioMac /\ addr = lladdr

\* "The native border router also acts as a RPL Root and handles the routing
\* and maintains the RPL network": once it serves it stays the root RPL made it.
RootMaintained == pc = "serve" => root \/ rplFull

\* Whatever requests and answers are lost, a router with a valid prefix ends
\* up serving, as root unless rpl_set_root() returned NULL.
EventuallyServing == valid_prefix => <>(pc = "serve" /\ (root \/ rplFull))
=============================================================================
