--------------------------- MODULE EmbeddedRouter ---------------------------
(* border-router.c and slip-bridge.c of the embedded border router.  Its     *)
(* process keeps the radio off and asks the host for a prefix every second;  *)
(* slip_input_callback() looks at every message from the serial line before  *)
(* the stack does, sets the prefix and remembers the sender; a click of the  *)
(* user button repairs the DODAG.  The host answers "?P" with "!P".          *)
EXTENDS RplInterface, ButtonDriver

CONSTANTS
  Prefixes,     \* prefixes the host may send
  MaxRequests,  \* requests the host may have to answer (model only)
  MaxLosses     \* bound on the messages the line loses (model only)

ASSUME EmbeddedAssumption ==
  /\ MaxRequests \in Nat \ {0} /\ MaxLosses \in Nat
  /\ "none" \notin Prefixes
  /\ {"none", "other", "command", "short"} \cap (Nodes \cup {Host}) = {}

VARIABLES
  pc,           \* where border_router_process is
  et,           \* ticks left of its timer
  prefix_set,
  radio,        \* NETSTACK_MAC is on
  dag,          \* the prefix of the DODAG this router is the root of, or "none"
  rplFull,      \* history: rpl_set_root() has returned NULL
  last_sender,  \* an address, or "other" for bytes that are nobody's address
  requests,     \* "?P" messages that the host has not answered
  repairs,      \* history: global repairs
  losses,       \* history: messages lost on the line
  lastIn,       \* history: source of the last packet from the line, "command" if
                \* a command came last, "short" if it held no source
  misheld       \* history: output() held back a packet that lastIn does not explain

routerVars == <<pc, et, prefix_set, radio, dag, rplFull, last_sender, requests,
                repairs, losses, lastIn, misheld>>

NoPrefix == "none"
Command(letter, prefix) == [kind |-> letter, prefix |-> prefix]
Commands == {Command("!P", p) : p \in Prefixes} \cup
            {Command("?M", NoPrefix), Command("short", NoPrefix)}

RouterTypeOK ==
  /\ pc \in {"boot", "pause", "ask", "serve"}
  /\ et \in 0..DEBOUNCE_DURATION
  /\ prefix_set \in BOOLEAN /\ radio \in BOOLEAN
  /\ dag \in Prefixes \cup {NoPrefix} /\ rplFull \in BOOLEAN
  /\ last_sender \in Addresses \cup {"other"}
  /\ requests \in 0..MaxRequests
  /\ repairs \in Nat /\ losses \in 0..MaxLosses
  /\ lastIn \in Addresses \cup {"none", "command", "short"} /\ misheld \in BOOLEAN

\* The bridge is up before the process; until then the radio is on.
RouterInit ==
  /\ pc = "boot" /\ et = 0
  /\ prefix_set = FALSE /\ radio = TRUE /\ dag = NoPrefix
  /\ rplFull = FALSE
  /\ last_sender = "other"
  /\ requests = 0 /\ repairs = 0 /\ losses = 0
  /\ lastIn = "none" /\ misheld = FALSE
-----------------------------------------------------------------------------
(* border_router_process *)

\* The process starts, turns the radio off and lets others run.
BootRouter ==
  /\ pc = "boot"
  /\ prefix_set' = FALSE
  /\ radio' = FALSE
  /\ pc' = "pause"
  /\ UNCHANGED <<interface, buttonVars, et, dag, rplFull, last_sender, requests,
                 repairs, losses, lastIn, misheld>>

\* Mutant: the request is not repeated.
RequestPrefixOnce == requests' = IF pc = "pause" THEN requests + 1 ELSE requests

\* request_prefix(); the line holds so many.
RequestPrefix == requests' = IF requests < MaxRequests THEN requests + 1 ELSE requests

\* Mutant: one request is thought to be enough.
AskOrServeAtOnce ==
  IF prefix_set \/ pc = "ask"
  THEN pc' = "serve" /\ radio' = TRUE /\ UNCHANGED <<et, requests>>
  ELSE pc' = "ask" /\ et' = DEBOUNCE_DURATION /\ RequestPrefix /\ UNCHANGED radio

\* The loop that asks once a second until the prefix is there, and the radio
\* turned on behind it.
AskOrServe ==
  IF prefix_set
  THEN pc' = "serve" /\ radio' = TRUE /\ UNCHANGED <<et, requests>>
  ELSE pc' = "ask" /\ et' = DEBOUNCE_DURATION /\ RequestPrefix /\ UNCHANGED radio

\* After the pause the button is activated.
Activate ==
  /\ pc = "pause"
  /\ AskOrServe
  /\ UNCHANGED <<interface, buttonVars, prefix_set, dag, rplFull, last_sender, repairs,
                 losses, lastIn, misheld>>

TimerExpired ==
  /\ pc = "ask" /\ et = 0
  /\ AskOrServe
  /\ UNCHANGED <<interface, buttonVars, prefix_set, dag, rplFull, last_sender, repairs,
                 losses, lastIn, misheld>>

Active == pc \in {"ask", "serve"}

\* sensors_process broadcasts the event of the button; while the process waits
\* for its timer it looks at no other.
SensorsEvent ==
  /\ changed
  /\ changed' = FALSE
  /\ repairs' = IF pc = "serve" THEN repairs + 1 ELSE repairs
  /\ UNCHANGED <<interface, finger, settle, debouncetimer, press_duration,
                 press_counter, press_event_counter, clicks, taken, sinceEdge, pc,
                 et, prefix_set, radio, dag, rplFull, last_sender, requests, losses,
                 lastIn, misheld>>
-----------------------------------------------------------------------------
(* slip-bridge.c *)

\* output(): a packet with the source of the last message is taken for that
\* message and dropped.
SlipOutput(p, sender, last) ==
  IF sender = p.src
  THEN misheld' = (misheld \/ last \notin {p.src, "short"}) /\ UNCHANGED outbound
  ELSE outbound' = outbound \cup {p} /\ UNCHANGED misheld

\* The prefix counts as set before RPL is asked to make this router a root, and
\* also when it has no room for a DODAG.
set_prefix_64(prefix) ==
  /\ prefix_set' = TRUE
  /\ \/ dag' = prefix /\ UNCHANGED rplFull
     \/ rplFull' = TRUE /\ UNCHANGED dag

\* Mutant: only packets leave their sender behind, not commands.
SlipCommandKeepsSender(m) ==
  /\ IF m.kind = "!P"
     THEN set_prefix_64(m.prefix)
     ELSE UNCHANGED <<prefix_set, dag, rplFull>>
  /\ outbound' = IF m.kind = "?M" THEN outbound \cup {[kind |-> "!M"]} ELSE outbound
  /\ lastIn' = "command"
  /\ UNCHANGED <<misheld, last_sender>>

\* slip_input_callback() with a command, which the stack never sees.  The
\* sender is copied all the same: its first two bytes are the prefix's fourth
\* word, or digits of the answer, and make nobody's address of it.  Behind an
\* unknown command, or what noise makes on the line, the buffer still holds
\* the packet before, whoever sent it and wherever it came from.
SlipCommand(m) ==
  /\ IF m.kind = "!P"
     THEN set_prefix_64(m.prefix)
     ELSE UNCHANGED <<prefix_set, dag, rplFull>>
  /\ outbound' = IF m.kind = "?M" THEN outbound \cup {[kind |-> "!M"]} ELSE outbound
  /\ last_sender' \in IF m.kind = "short" THEN Addresses \cup {"other"} ELSE {"other"}
  /\ lastIn' = IF m.kind = "short" THEN "short" ELSE "command"
  /\ UNCHANGED misheld

\* The same with a packet, which then goes through the stack.
SlipPacket(p) ==
  /\ last_sender' = p.src
  /\ lastIn' = p.src
  /\ IF p.routed THEN UNCHANGED <<outbound, misheld>> ELSE SlipOutput(p, p.src, p.src)
  /\ UNCHANGED <<prefix_set, dag, rplFull>>

SlipInput ==
  /\ inbound # <<>>
  /\ inbound' = Tail(inbound)
  /\ IF Head(inbound).kind = "packet"
     THEN SlipPacket(Head(inbound)) ELSE SlipCommand(Head(inbound))
  /\ UNCHANGED <<inputs, buttonVars, pc, et, radio, requests, repairs, losses>>

\* A packet of a node for an address outside reaches the router.
RouterFromMesh(src) ==
  /\ pc = "serve" /\ radio /\ inputs < MaxInputs
  /\ inputs' = inputs + 1
  /\ SlipOutput(Packet("mesh", src, FALSE), last_sender, lastIn)
  /\ UNCHANGED <<inbound, buttonVars, pc, et, prefix_set, radio, dag, rplFull,
                 last_sender, requests, repairs, losses, lastIn>>
-----------------------------------------------------------------------------
(* The host, the line and time *)

Answer(prefix) ==
  /\ requests > 0 /\ Len(inbound) < LineSize
  /\ requests' = requests - 1
  /\ inbound' = Append(inbound, Command("!P", prefix))
  /\ UNCHANGED <<outbound, inputs, buttonVars, pc, et, prefix_set, radio, dag,
                 rplFull, last_sender, repairs, losses, lastIn, misheld>>

\* The host sends a command unasked.
SendCommand(c) ==
  /\ inputs < MaxInputs /\ Len(inbound) < LineSize
  /\ inputs' = inputs + 1
  /\ inbound' = Append(inbound, c)
  /\ UNCHANGED <<outbound, buttonVars, routerVars>>

LoseRequest ==
  /\ losses < MaxLosses /\ requests > 0
  /\ losses' = losses + 1
  /\ requests' = requests - 1
  /\ UNCHANGED <<interface, buttonVars, pc, et, prefix_set, radio, dag, rplFull,
                 last_sender, repairs, lastIn, misheld>>

LoseMessage ==
  /\ losses < MaxLosses /\ inbound # <<>>
  /\ losses' = losses + 1
  /\ inbound' = Tail(inbound)
  /\ UNCHANGED <<outbound, inputs, buttonVars, pc, et, prefix_set, radio, dag,
                 rplFull, last_sender, requests, repairs, lastIn, misheld>>

RouterTick ==
  /\ ButtonTick
  /\ et' = OneLess(et)
  /\ UNCHANGED <<interface, pc, prefix_set, radio, dag, rplFull, last_sender, requests,
                 repairs, losses, lastIn, misheld>>

RouterNext ==
  \/ BootRouter \/ Activate \/ TimerExpired \/ SensorsEvent \/ RouterTick
  \/ SlipInput
  \/ \E src \in Nodes : RouterFromMesh(src)
  \/ \E prefix \in Prefixes : Answer(prefix)
  \/ \E c \in Commands : SendCommand(c)
  \/ LoseRequest \/ LoseMessage
  \/ /\ inputs < MaxInputs /\ inputs' = inputs + 1
     /\ Press(Active)
     /\ UNCHANGED <<inbound, outbound, routerVars>>
  \/ (LetGo(Active) \/ Bounce(Active) \/ DurationExceeded)
     /\ UNCHANGED <<interface, routerVars>>
  \/ \E src \in Addresses, routed \in BOOLEAN :
       Outside(src, routed) /\ UNCHANGED <<buttonVars, routerVars>>
=============================================================================
