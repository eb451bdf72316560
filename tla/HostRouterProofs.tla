-------------------------- MODULE HostRouterProofs --------------------------
(* Theorems about HostRouter: whatever is lost, repeated, late or typed, for *)
(* every line capacity, set of channels and set of user commands.            *)
EXTENDS HostRouter, TLAPS

\* A root has an address of the radio only because every address ever taken is
\* the radio's, and because what SetMac undoes it undoes together.
RouterInv ==
  /\ TypeOK
  /\ mac_set => lladdr = RadioMac
  /\ RootHasRadioAddress

\* The part of RouterInv that the address, the prefix and the root make up.
BootInv ==
  /\ pc \in {"start", "wait", "serve", "exit"}
  /\ mac_set \in BOOLEAN /\ lladdr \in Macs /\ addr \in Macs
  /\ root \in BOOLEAN /\ rplFull \in BOOLEAN /\ version \in 0..MaxVersion
  /\ mac_set => lladdr = RadioMac
  /\ RootHasRadioAddress

\* The part that the line makes up.
LineInv ==
  /\ toRadio \in Seq(RadioBound) /\ Len(toRadio) <= LineCap
  /\ toHost \in Seq(HostBound) /\ Len(toHost) <= LineCap

LEMMA RouterInvSplits ==
  RouterInv <=> /\ BootInv /\ LineInv
                /\ valid_prefix \in BOOLEAN /\ command_context \in {"stdio", "radio"}
                /\ channel \in Channels /\ losses \in 0..MaxLosses
BY DEF RouterInv, TypeOK, BootInv, LineInv

\* A request posted stays within the line's capacity.
LEMMA PostKeepsLine ==
  ASSUME LineInv, NEW m \in RadioBound, Post(m)
  PROVE  toRadio' \in Seq(RadioBound) /\ Len(toRadio') <= LineCap
BY HostRouterAssumption DEF LineInv, Post

\* Only an address from the radio reaches SetMac, and only a complete command
\* reaches the line.
LEMMA HandleKeeps ==
  ASSUME BootInv, LineInv, NEW m, NEW context \in {"stdio", "radio"},
         context = "radio" => m \in HostBound,
         context = "stdio" => m \in Commands,
         Handle(m, context)
  PROVE  /\ BootInv'
         /\ toRadio' \in Seq(RadioBound) /\ Len(toRadio') <= LineCap
         /\ command_context' \in {"stdio", "radio"}
<1>0. command_context' \in {"stdio", "radio"}
  BY DEF Handle
<1>1. CASE m.cmd = "!M" /\ context = "radio"
  <2>1. SetMac(m.mac)
    BY <1>1 DEF Handle
  <2>2. m.mac = RadioMac
    BY <1>1 DEF HostBound
  <2>3. /\ pc' = pc /\ toRadio' = toRadio
        /\ mac_set' = TRUE /\ root' = FALSE /\ version' = 0 /\ rplFull' = rplFull
        /\ lladdr' = RadioMac /\ addr' = NoAddress
    BY <2>1, <2>2 DEF SetMac
  <2>4. lladdr' \in Macs /\ addr' \in Macs
    BY <2>3 DEF Macs
  <2>5. version' \in 0..MaxVersion
    BY <2>3, HostRouterAssumption
  <2>6. BootInv'
    BY <2>3, <2>4, <2>5 DEF BootInv, RootHasRadioAddress
  <2> QED BY <1>0, <2>3, <2>6 DEF LineInv
<1>2. CASE m.cmd = "!G" /\ context = "stdio"
  <2>1. RepairRoot
    BY <1>2 DEF Handle
  <2> QED BY <1>0, <2>1, HostRouterAssumption
          DEF RepairRoot, BootInv, LineInv, RootHasRadioAddress
<1>3. CASE m.cmd = "?C" /\ context = "stdio"
  <2>1. Post(m) /\ UNCHANGED boot
    BY <1>3 DEF Handle, PostForUser
  <2>2. m \in RadioBound
    BY <1>3, CommandsAssumption DEF RadioBound
  <2>3. toRadio' \in Seq(RadioBound) /\ Len(toRadio') <= LineCap
    BY <2>1, <2>2, PostKeepsLine
  <2>4. BootInv'
    BY <2>1 DEF boot, BootInv, RootHasRadioAddress
  <2> QED BY <1>0, <2>3, <2>4
<1>4. CASE /\ ~(m.cmd = "!M" /\ context = "radio")
           /\ ~(m.cmd = "!G" /\ context = "stdio")
           /\ ~(m.cmd = "?C" /\ context = "stdio")
  <2>1. UNCHANGED <<boot, toRadio>>
    BY <1>4 DEF Handle
  <2> QED BY <1>0, <2>1 DEF boot, BootInv, LineInv, RootHasRadioAddress
<1> QED BY <1>1, <1>2, <1>3, <1>4

LEMMA InitEstablishesRouterInv == Init => RouterInv
<1> SUFFICES ASSUME Init PROVE RouterInv
  OBVIOUS
<1>1. toRadio = <<>> /\ toHost = <<>> /\ 0 <= LineCap
  BY HostRouterAssumption DEF Init
<1>2. LineInv
  BY <1>1 DEF LineInv
<1>3. BootInv
  <2>1. 0 \in 0..MaxVersion
    BY HostRouterAssumption
  <2> QED BY <2>1 DEF Init, BootInv, Macs, RootHasRadioAddress
<1>4. 0 \in 0..MaxLosses
  BY HostRouterAssumption
<1> QED BY <1>2, <1>3, <1>4, RouterInvSplits DEF Init

LEMMA NextKeepsRouterInv ==
  ASSUME RouterInv, [Next]_vars
  PROVE  RouterInv'
<1> USE DEF RadioBound
<1>0. BootInv /\ LineInv /\ channel \in Channels
  BY RouterInvSplits
<1>1. CASE Boot
  <2>1. BootInv'
    BY <1>0, <1>1 DEF Boot, RequestMac, BootInv, RootHasRadioAddress
  <2>2. LineInv'
    BY <1>0, <1>1, PostKeepsLine DEF Boot, RequestMac, LineInv
  <2> QED BY <1>1, <2>1, <2>2 DEF Boot, RouterInv, TypeOK, BootInv, LineInv
<1>2. CASE TimerExpires
  <2>1. CASE ~mac_set /\ RequestMac
    <3>1. LineInv' /\ BootInv'
      BY <1>0, <1>2, <2>1, PostKeepsLine
         DEF TimerExpires, RequestMac, LineInv, BootInv, RootHasRadioAddress
    <3> QED BY <1>2, <3>1 DEF TimerExpires, RouterInv, TypeOK, BootInv, LineInv
  <2>2. CASE mac_set /\ SetPrefix
    <3>1. LineInv' /\ BootInv'
      BY <1>0, <1>2, <2>2
         DEF TimerExpires, SetPrefix, LineInv, BootInv, RootHasRadioAddress
    <3> QED BY <1>2, <3>1 DEF TimerExpires, RouterInv, TypeOK, BootInv, LineInv
  <2>3. CASE pc' = "exit" /\ UNCHANGED <<mac_set, lladdr, addr, root, rplFull, version, toRadio>>
    BY <1>2, <2>3 DEF TimerExpires, RouterInv, TypeOK, RootHasRadioAddress
  <2> QED BY <1>2, <2>1, <2>2, <2>3 DEF TimerExpires
<1>3. CASE FromRadio
  <2>1. Head(toHost) \in HostBound /\ Tail(toHost) \in Seq(HostBound)
        /\ Len(Tail(toHost)) <= LineCap
    BY <1>0, <1>3, HostRouterAssumption DEF FromRadio, LineInv
  <2>2. /\ BootInv'
        /\ toRadio' \in Seq(RadioBound) /\ Len(toRadio') <= LineCap
        /\ command_context' \in {"stdio", "radio"}
    BY <1>0, <1>3, <2>1, HandleKeeps DEF FromRadio
  <2> QED BY <1>3, <2>1, <2>2 DEF FromRadio, RouterInv, TypeOK, BootInv
<1>4. ASSUME NEW c \in Commands, FromUser(c)
      PROVE  RouterInv'
  <2>1. /\ BootInv'
        /\ toRadio' \in Seq(RadioBound) /\ Len(toRadio') <= LineCap
        /\ command_context' \in {"stdio", "radio"}
    BY <1>0, <1>4, HandleKeeps DEF FromUser
  <2> QED BY <1>4, <2>1 DEF FromUser, RouterInv, TypeOK, BootInv
<1>5. CASE RadioHandles
  <2> DEFINE m == Head(toRadio)
             answer == Answer(m)
  <2>1. m \in RadioBound /\ Tail(toRadio) \in Seq(RadioBound)
        /\ Len(Tail(toRadio)) <= LineCap
    BY <1>0, <1>5, HostRouterAssumption DEF RadioHandles, LineInv
  <2>2. answer \in Seq(HostBound)
    <3>1. [cmd |-> "!M", mac |-> RadioMac] \in HostBound
          /\ [cmd |-> "!C", chan |-> channel] \in HostBound
      BY <1>0 DEF HostBound
    <3> QED BY <3>1 DEF Answer
  <2>3. channel' \in Channels
    BY <1>0, <1>5, <2>1 DEF RadioHandles
  <2> HIDE DEF answer
  <2>4. toHost' = toHost \o answer /\ Len(toHost) + Len(answer) <= LineCap
    BY <1>5 DEF RadioHandles, answer
  <2>5. toHost' \in Seq(HostBound) /\ Len(toHost') <= LineCap
    BY <1>0, <2>2, <2>4 DEF LineInv
  <2> QED BY <1>5, <2>1, <2>3, <2>5
          DEF RadioHandles, RouterInv, TypeOK, boot, RootHasRadioAddress
<1>6. CASE LoseRequest
  <2>1. Tail(toRadio) \in Seq(RadioBound) /\ Len(Tail(toRadio)) <= LineCap
    BY <1>0, <1>6, HostRouterAssumption DEF LoseRequest, LineInv
  <2>2. losses' \in 0..MaxLosses
    BY <1>6, HostRouterAssumption DEF LoseRequest, RouterInv, TypeOK
  <2> QED BY <1>6, <2>1, <2>2 DEF LoseRequest, RouterInv, TypeOK, boot, RootHasRadioAddress
<1>7. CASE LoseAnswer
  <2>1. Tail(toHost) \in Seq(HostBound) /\ Len(Tail(toHost)) <= LineCap
    BY <1>0, <1>7, HostRouterAssumption DEF LoseAnswer, LineInv
  <2>2. losses' \in 0..MaxLosses
    BY <1>7, HostRouterAssumption DEF LoseAnswer, RouterInv, TypeOK
  <2> QED BY <1>7, <2>1, <2>2 DEF LoseAnswer, RouterInv, TypeOK, boot, RootHasRadioAddress
<1>8. CASE UNCHANGED vars
  BY <1>8 DEF vars, boot, line, RouterInv, TypeOK, RootHasRadioAddress
<1> QED BY <1>1, <1>2, <1>3, <1>4, <1>5, <1>6, <1>7, <1>8 DEF Next

\* The router's state keeps its types: no message is under way that a handler
\* does not know (border_router_cmd_handler, slip_radio_cmd_handler).
THEOREM RouterTypeCorrect == Spec => []TypeOK
<1>1. RouterInv => TypeOK
  BY DEF RouterInv
<1> QED BY InitEstablishesRouterInv, NextKeepsRouterInv, <1>1, PTL DEF Spec

\* A root has an address made from the radio's, however often the request was
\* repeated and whatever the user typed (border_router_set_mac, set_prefix_64).
THEOREM RootAddressRight == Spec => []RootHasRadioAddress
<1>1. RouterInv => RootHasRadioAddress
  BY DEF RouterInv
<1> QED BY InitEstablishesRouterInv, NextKeepsRouterInv, <1>1, PTL DEF Spec
=============================================================================
