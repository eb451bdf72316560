--------------------------- MODULE BridgesProofs ----------------------------
(* Theorems about the bridges of both border routers, for every command      *)
(* line, delay, debounce time, set of addresses and prefixes.                *)
EXTENDS Bridges, SequenceTheorems, TLAPS

\* What can wait outside: packets, and commands for the embedded router.
Messages ==
  {Packet("outside", src, routed) : src \in Addresses, routed \in BOOLEAN} \cup Commands

InterfaceInv ==
  /\ inbound \in Seq(Messages) /\ Len(inbound) <= LineSize
  /\ inputs \in 0..MaxInputs

-----------------------------------------------------------------------------
(* The button *)

\* How often the finger went down or up.
Moves == IF finger THEN 2 * clicks - 1 ELSE 2 * clicks

\* A move of the finger gives one edge at most: while the contacts bounce the
\* debounce time of an edge that counted lasts on, and only a move that found
\* the debounce time of the one before still running may give its edge later.
EdgesCounted == taken + (IF debouncetimer < settle THEN 1 ELSE 0) <= Moves

\* The duration count and the part of a duration that has run fit into the time
\* since the last edge.
DurationBehind ==
  \/ press_counter = -1 /\ press_event_counter = 0
  \/ /\ press_counter >= 0
     /\ press_event_counter * press_duration + press_duration - press_counter <= sinceEdge

ButtonInv == ButtonTypeOK /\ EdgesCounted /\ DurationBehind

-----------------------------------------------------------------------------
(* The embedded router *)

\* A prefix makes a DODAG root if RPL has room, and only a prefix turns the radio
\* on again.
RootInv ==
  /\ prefix_set => dag \in Prefixes \/ rplFull
  /\ pc # "boot" /\ radio => prefix_set

\* The sender remembered is that of the last message from the line, or nobody.
SenderInv ==
  /\ last_sender = "other" \/ lastIn \in {last_sender, "short"}
  /\ misheld = FALSE

RepairsCounted == repairs + (IF changed THEN 1 ELSE 0) <= taken

RouterInv == RouterTypeOK /\ RootInv /\ SenderInv /\ RepairsCounted

OnlyMeshOut == \A p \in outbound : p.kind = "packet" => p.from = "mesh"

-----------------------------------------------------------------------------
(* The tunnel *)

\* Unless the clock was set, handle_fd() sees no more time than has passed, and
\* gives the delay up only when it is over.
DelayInv ==
  ~stepped =>
    /\ Elapsed >= 0
    /\ gap = MaxGap \/ Elapsed <= gap
    /\ delaymsec = 0 => \/ slip_config_basedelay = 0
                        \/ gap = MaxGap \/ gap > slip_config_basedelay

BridgesInv ==
  /\ build \in {"native", "embedded"}
  /\ InterfaceInv
  /\ TunTypeOK /\ ButtonInv /\ RouterInv
  /\ build = "embedded" => OnlyMeshOut
-----------------------------------------------------------------------------
(* Products: the duration count times the duration *)

LEMMA NextMultiple ==
  ASSUME NEW n \in Nat, NEW d \in Nat
  PROVE  n * d \in Nat /\ (n + 1) * d = n * d + d
OBVIOUS

LEMMA MultipleFits ==
  ASSUME NEW k \in Nat, NEW n \in 0..(k - 1), NEW d \in Nat
  PROVE  n * d + d <= k * d
<1>1. PICK m \in Nat : k = n + 1 + m
  <2>1. k - n - 1 \in Nat /\ k = n + 1 + (k - n - 1)
    OBVIOUS
  <2> QED BY <2>1
<1>2. k * d = n * d + d + m * d
  BY <1>1
<1>3. m * d \in Nat /\ n * d \in Nat
  BY NextMultiple
<1> QED BY <1>2, <1>3

-----------------------------------------------------------------------------
(* The button *)
LEMMA MaxSinceType ==
  ASSUME ButtonTypeOK
  PROVE  /\ MaxSince \in Nat
         /\ press_duration \in Nat /\ press_event_counter \in Nat
         /\ press_event_counter * press_duration \in Nat
         /\ press_event_counter * press_duration + press_duration <= MaxSince
<1>1. Counters \in Nat /\ press_duration \in Nat
      /\ press_event_counter \in 0..(Counters - 1) /\ press_event_counter \in Nat
  BY ButtonAssumption DEF ButtonTypeOK
<1> QED BY <1>1, NextMultiple, MultipleFits DEF MaxSince

\* An edge is dropped, or its debounce time starts from nothing.
LEMMA InterruptCases ==
  ASSUME ButtonTypeOK, finger' \in BOOLEAN, NEW active \in BOOLEAN, Interrupt(active)
  PROVE  \/ EdgeDropped
         \/ debouncetimer = 0 /\ \E pressed \in BOOLEAN : EdgeTaken(pressed)
<1>1. PICK pressed \in (IF settle' > 0 THEN BOOLEAN ELSE {finger'}) :
        IF active THEN Callback(pressed) ELSE EdgeDropped
  BY DEF Interrupt
<1>2. pressed \in BOOLEAN
  OBVIOUS
<1>3. debouncetimer > 0 \/ debouncetimer = 0
  BY ButtonAssumption DEF ButtonTypeOK
<1> QED BY <1>1, <1>2, <1>3 DEF Callback

\* A move of the finger or a bounce of the contacts that move left.
LEMMA InterruptKeepsButton ==
  ASSUME ButtonInv, NEW active \in BOOLEAN, Interrupt(active),
         press_duration' = press_duration,
         finger' \in BOOLEAN, settle' \in 0..Settle, clicks' \in 0..MaxClicks,
         \/ Moves' = Moves + 1
         \/ Moves' = Moves /\ settle' = settle /\ settle > 0
  PROVE  /\ ButtonInv'
         /\ \/ changed' = changed /\ taken' = taken
            \/ changed' = TRUE /\ taken' = taken + 1
<1> DEFINE n == press_event_counter
           d == press_duration
<1>0. /\ ButtonTypeOK /\ EdgesCounted /\ DurationBehind
      /\ taken \in Nat /\ debouncetimer \in Nat /\ settle \in Nat /\ settle' \in Nat
      /\ DEBOUNCE_DURATION \in Nat \ {0} /\ Settle \in Nat /\ Settle < DEBOUNCE_DURATION
      /\ Counters \in Nat \ {0}
  BY ButtonAssumption DEF ButtonInv, ButtonTypeOK
<1>1. Moves \in Int /\ Moves' \in Int
  <2>1. clicks \in Nat /\ clicks' \in Nat
    BY <1>0, ButtonAssumption DEF ButtonTypeOK
  <2> QED BY <2>1 DEF Moves
<1>2. MaxSince \in Nat /\ MaxSince' = MaxSince
  BY <1>0, MaxSinceType DEF MaxSince
<1>3. CASE EdgeDropped
  <2>1. ButtonTypeOK'
    BY <1>0, <1>2, <1>3 DEF ButtonTypeOK, EdgeDropped
  <2>2. EdgesCounted'
    BY <1>0, <1>1, <1>3 DEF EdgesCounted, EdgeDropped
  <2>3. DurationBehind'
    BY <1>0, <1>3 DEF DurationBehind, EdgeDropped
  <2> QED BY <2>1, <2>2, <2>3, <1>3 DEF ButtonInv, EdgeDropped
<1>4. ASSUME debouncetimer = 0, NEW pressed \in BOOLEAN, EdgeTaken(pressed)
      PROVE  ButtonInv' /\ changed' = TRUE /\ taken' = taken + 1
  <2>1. /\ debouncetimer' = DEBOUNCE_DURATION /\ changed' = TRUE
        /\ taken' = taken + 1 /\ sinceEdge' = 0
    BY <1>4 DEF EdgeTaken
  <2>2. EdgesCounted'
    <3>1. ~(debouncetimer' < settle')
      BY <1>0, <2>1
    <3>2. taken + 1 <= Moves'
      BY <1>0, <1>1, <1>4 DEF EdgesCounted
    <3> QED BY <2>1, <3>1, <3>2, <1>0 DEF EdgesCounted
  <2>3. /\ d \in Durations /\ d \in Nat /\ n \in 0..(Counters - 1)
        /\ press_counter \in -1..d
    BY <1>0, ButtonAssumption DEF ButtonTypeOK
  <2>4. CASE d = 0
    <3>1. press_counter' = press_counter /\ n' = n
      BY <1>4, <2>4 DEF EdgeTaken
    <3>2. DurationBehind'
      BY <1>0, <2>1, <2>3, <2>4, <3>1 DEF DurationBehind
    <3>3. ButtonTypeOK'
      BY <1>0, <1>2, <2>1, <3>1 DEF ButtonTypeOK
    <3> QED BY <2>1, <2>2, <3>2, <3>3 DEF ButtonInv
  <2>5. CASE d # 0
    <3>1. n' = 0 /\ press_counter' = IF pressed THEN d ELSE -1
      BY <1>4, <2>5 DEF EdgeTaken
    <3>2. DurationBehind'
      BY <2>1, <2>3, <3>1 DEF DurationBehind
    <3>3. ButtonTypeOK'
      <4>1. press_counter' \in -1..d /\ n' \in 0..(Counters - 1)
        BY <1>0, <2>3, <3>1
      <4> QED BY <1>0, <1>2, <2>1, <4>1 DEF ButtonTypeOK
    <3> QED BY <2>1, <2>2, <3>2, <3>3 DEF ButtonInv
  <2> QED BY <2>4, <2>5
<1> QED BY <1>0, <1>3, <1>4, InterruptCases

LEMMA TickKeepsButton ==
  ASSUME ButtonInv, ButtonTick
  PROVE  ButtonInv'
<1> DEFINE n == press_event_counter
           d == press_duration
<1>1. /\ settle \in 0..Settle /\ debouncetimer \in 0..DEBOUNCE_DURATION
      /\ d \in Nat /\ press_counter \in -1..d
      /\ sinceEdge \in 0..MaxSince /\ MaxSince \in Nat
      /\ Settle \in Nat /\ DEBOUNCE_DURATION \in Nat /\ taken \in Nat
      /\ n * d \in Nat /\ n * d + d <= MaxSince
  BY MaxSinceType, ButtonAssumption DEF ButtonInv, ButtonTypeOK
<1>2. /\ settle' = OneLess(settle) /\ debouncetimer' = OneLess(debouncetimer)
      /\ press_counter' = OneLess(press_counter)
      /\ sinceEdge' = IF sinceEdge < MaxSince THEN sinceEdge + 1 ELSE sinceEdge
      /\ n' = n /\ d' = d /\ finger' = finger /\ clicks' = clicks
      /\ taken' = taken /\ changed' = changed /\ MaxSince' = MaxSince
  BY DEF ButtonTick, MaxSince
<1>3. ButtonTypeOK'
  <2>1. /\ settle' \in 0..Settle /\ debouncetimer' \in 0..DEBOUNCE_DURATION
        /\ press_counter' \in -1..d /\ sinceEdge' \in 0..MaxSince
    BY <1>1, <1>2 DEF OneLess
  <2> QED BY <1>2, <2>1 DEF ButtonInv, ButtonTypeOK
<1>4. EdgesCounted'
  <2>1. debouncetimer' < settle' => debouncetimer < settle
    BY <1>1, <1>2 DEF OneLess
  <2>2. Moves \in Int /\ Moves' = Moves
    <3>1. clicks \in Nat
      BY ButtonAssumption DEF ButtonInv, ButtonTypeOK
    <3> QED BY <1>2, <3>1 DEF Moves
  <2> QED BY <1>1, <1>2, <2>1, <2>2 DEF ButtonInv, EdgesCounted
<1>5. DurationBehind'
  <2>1. CASE press_counter = -1 /\ n = 0
    BY <1>2, <2>1 DEF DurationBehind, OneLess
  <2>2. CASE press_counter >= 0 /\ n * d + d - press_counter <= sinceEdge
    <3>1. press_counter' >= 0 /\ n * d + d - press_counter' <= sinceEdge'
      BY <1>1, <1>2, <2>2 DEF OneLess
    <3> QED BY <1>2, <3>1 DEF DurationBehind
  <2> QED BY <2>1, <2>2 DEF ButtonInv, DurationBehind
<1> QED BY <1>3, <1>4, <1>5 DEF ButtonInv

LEMMA DurationKeepsButton ==
  ASSUME ButtonInv, DurationExceeded
  PROVE  ButtonInv' /\ changed' = changed /\ taken' = taken
<1> DEFINE n == press_event_counter
           d == press_duration
<1>1. /\ d \in Nat /\ n \in 0..(Counters - 1) /\ Counters \in Nat \ {0}
      /\ sinceEdge \in Nat /\ n * d \in Nat /\ n * d + d <= sinceEdge
  <2>1. n * d \in Nat /\ MaxSince \in Nat
    BY MaxSinceType DEF ButtonInv
  <2> QED BY <2>1, ButtonAssumption
          DEF ButtonInv, ButtonTypeOK, DurationExceeded, DurationBehind
<1>2. n' = (n + 1) % Counters /\ press_counter' = d /\ d' = d /\ sinceEdge' = sinceEdge
  BY DEF DurationExceeded
<1>3. (n' = n + 1 /\ n + 1 \in 0..(Counters - 1)) \/ n' = 0
  BY <1>1, <1>2
<1>4. n' * d + d - d <= sinceEdge
  <2>1. CASE n' = n + 1
    <3>1. (n + 1) * d = n * d + d
      BY <1>1, NextMultiple
    <3> QED BY <1>1, <2>1, <3>1
  <2>2. CASE n' = 0
    BY <1>1, <2>2
  <2> QED BY <1>3, <2>1, <2>2
<1>5. DurationBehind'
  BY <1>1, <1>2, <1>4 DEF DurationBehind
<1>6. ButtonTypeOK'
  <2>1. n' \in 0..(Counters - 1) /\ press_counter' \in -1..d
    BY <1>1, <1>2, <1>3
  <2> QED BY <2>1, <1>2 DEF ButtonInv, ButtonTypeOK, DurationExceeded, MaxSince
<1>7. EdgesCounted'
  BY DEF ButtonInv, EdgesCounted, DurationExceeded, Moves
<1> QED BY <1>5, <1>6, <1>7 DEF ButtonInv, DurationExceeded

-----------------------------------------------------------------------------
(* The embedded router *)

EmbeddedInv == InterfaceInv /\ ButtonInv /\ RouterInv /\ OnlyMeshOut

LEMMA MessageCases ==
  ASSUME NEW m \in Messages
  PROVE  \/ /\ m.kind = "packet" /\ m.src \in Addresses
            /\ m = Packet("outside", m.src, m.routed)
         \/ /\ m.kind \in {"!P", "?M", "short"}
            /\ m.kind = "!P" => m.prefix \in Prefixes
BY DEF Messages, Packet, Commands, Command

\* A message taken or lost leaves messages behind, one that is added fits.
LEMMA LineKept ==
  ASSUME InterfaceInv
  PROVE  /\ inbound # <<>> => /\ Head(inbound) \in Messages
                              /\ Tail(inbound) \in Seq(Messages)
                              /\ Len(Tail(inbound)) <= LineSize
         /\ \A m \in Messages : Len(inbound) < LineSize =>
              /\ Append(inbound, m) \in Seq(Messages)
              /\ Len(Append(inbound, m)) <= LineSize
         /\ inputs < MaxInputs => inputs + 1 \in 0..MaxInputs
<1>1. inbound \in Seq(Messages) /\ Len(inbound) \in Nat /\ Len(inbound) <= LineSize
      /\ LineSize \in Nat /\ MaxInputs \in Nat /\ inputs \in 0..MaxInputs
  BY LineAssumption, LenProperties DEF InterfaceInv
<1>2. ASSUME inbound # <<>>
      PROVE  /\ Head(inbound) \in Messages /\ Tail(inbound) \in Seq(Messages)
             /\ Len(Tail(inbound)) <= LineSize
  BY <1>1, <1>2, HeadTailProperties
<1>3. ASSUME NEW m \in Messages, Len(inbound) < LineSize
      PROVE  Append(inbound, m) \in Seq(Messages) /\ Len(Append(inbound, m)) <= LineSize
  BY <1>1, <1>3, AppendProperties
<1> QED BY <1>1, <1>2, <1>3

\* output() holds back an echo and nothing else.
LEMMA OutputKeepsRouter ==
  ASSUME misheld = FALSE, OnlyMeshOut, NEW p, NEW sender, NEW last,
         SlipOutput(p, sender, last),
         sender = p.src => last \in {p.src, "short"},
         sender = p.src \/ p.from = "mesh"
  PROVE  misheld' = FALSE /\ OnlyMeshOut'
BY DEF SlipOutput, OnlyMeshOut

LEMMA UnchangedKeeps ==
  /\ InterfaceInv /\ UNCHANGED <<inbound, inputs>> => InterfaceInv'
  /\ ButtonInv /\ UNCHANGED buttonVars => ButtonInv'
  /\ RouterInv /\ UNCHANGED <<routerVars, changed, taken>> => RouterInv'
  /\ OnlyMeshOut /\ UNCHANGED outbound => OnlyMeshOut'
<1>1. InterfaceInv /\ UNCHANGED <<inbound, inputs>> => InterfaceInv'
  BY DEF InterfaceInv
<1>2. ButtonInv /\ UNCHANGED buttonVars => ButtonInv'
  BY DEF ButtonInv, ButtonTypeOK, EdgesCounted, DurationBehind, Moves, MaxSince, buttonVars
<1>3. RouterInv /\ UNCHANGED <<routerVars, changed, taken>> => RouterInv'
  BY DEF RouterInv, RouterTypeOK, RootInv, SenderInv, RepairsCounted, routerVars
<1>4. OnlyMeshOut /\ UNCHANGED outbound => OnlyMeshOut'
  BY DEF OnlyMeshOut
<1> QED BY <1>1, <1>2, <1>3, <1>4

LEMMA SlipInputKeeps ==
  ASSUME EmbeddedInv, SlipInput
  PROVE  EmbeddedInv'
<1> DEFINE m == Head(inbound)
<1>1. m \in Messages /\ Tail(inbound) \in Seq(Messages) /\ Len(Tail(inbound)) <= LineSize
  BY LineKept DEF EmbeddedInv, SlipInput
<1>2. InterfaceInv'
  BY <1>1 DEF EmbeddedInv, InterfaceInv, SlipInput
<1>3. ButtonInv'
  BY UnchangedKeeps DEF EmbeddedInv, SlipInput
<1>4. RouterInv' /\ OnlyMeshOut'
  <2>1. /\ RouterTypeOK /\ RootInv /\ SenderInv /\ RepairsCounted /\ OnlyMeshOut
        /\ UNCHANGED <<pc, et, radio, requests, repairs, losses, changed, taken>>
    BY DEF EmbeddedInv, RouterInv, SlipInput, buttonVars
  <2>2. RepairsCounted'
    BY <2>1 DEF RepairsCounted
  <2> HIDE DEF m
  <2>3. CASE m.kind = "packet"
    <3>1. SlipPacket(m)
      BY <2>3 DEF SlipInput, m
    <3>2. m.src \in Addresses
      BY <1>1, <2>3, MessageCases
    <3>3. misheld' = FALSE /\ OnlyMeshOut'
      <4>1. CASE m.routed
        BY <2>1, <3>1, <4>1 DEF SlipPacket, OnlyMeshOut, SenderInv
      <4>2. CASE ~m.routed
        BY <2>1, <3>1, <4>2, OutputKeepsRouter DEF SlipPacket, SenderInv
      <4> QED BY <4>1, <4>2
    <3>4. RouterTypeOK' /\ RootInv' /\ SenderInv'
      <4>1. /\ last_sender' = m.src /\ lastIn' = m.src
            /\ prefix_set' = prefix_set /\ dag' = dag /\ rplFull' = rplFull
        BY <3>1 DEF SlipPacket
      <4> QED BY <2>1, <3>2, <3>3, <4>1 DEF RouterTypeOK, RootInv, SenderInv
    <3> QED BY <2>2, <3>3, <3>4 DEF RouterInv
  <2>4. CASE m.kind # "packet"
    <3>1. SlipCommand(m)
      BY <2>4 DEF SlipInput, m
    <3>2. m.kind = "!P" => m.prefix \in Prefixes
      BY <1>1, <2>4, MessageCases
    <3>3. OnlyMeshOut'
      <4>1. "!M" # "packet"
        OBVIOUS
      <4> QED BY <2>1, <3>1, <4>1 DEF SlipCommand, OnlyMeshOut
    <3>4. /\ prefix_set' \in BOOLEAN /\ dag' \in Prefixes \cup {NoPrefix}
          /\ rplFull' \in BOOLEAN
          /\ prefix_set' => dag' \in Prefixes \/ rplFull'
          /\ prefix_set => prefix_set'
      BY <2>1, <3>1, <3>2 DEF SlipCommand, set_prefix_64, RouterTypeOK, RootInv
    <3>5. RootInv'
      BY <2>1, <3>4 DEF RootInv
    <3>6. /\ last_sender' \in Addresses \cup {"other"}
          /\ lastIn' \in {"command", "short"}
          /\ last_sender' = "other" \/ lastIn' = "short"
          /\ misheld' = misheld
      BY <3>1 DEF SlipCommand
    <3>7. RouterTypeOK'
      BY <2>1, <3>4, <3>6 DEF RouterTypeOK
    <3>8. SenderInv'
      BY <2>1, <3>6 DEF SenderInv
    <3> QED BY <2>2, <3>3, <3>5, <3>7, <3>8 DEF RouterInv
  <2> QED BY <2>3, <2>4
<1> QED BY <1>2, <1>3, <1>4 DEF EmbeddedInv

\* The process: it boots, asks, and turns the radio on with the prefix.
LEMMA ProcessKeeps ==
  ASSUME EmbeddedInv, BootRouter \/ Activate \/ TimerExpired
  PROVE  EmbeddedInv'
<1>1. UNCHANGED <<interface, buttonVars, changed, taken>>
  BY DEF BootRouter, Activate, TimerExpired, buttonVars
<1>2. InterfaceInv' /\ ButtonInv' /\ OnlyMeshOut'
  BY <1>1, UnchangedKeeps DEF EmbeddedInv, interface
<1>3. RouterInv'
  <2>1. RouterTypeOK /\ RootInv /\ SenderInv /\ RepairsCounted
    BY DEF EmbeddedInv, RouterInv
  <2>2. SenderInv' /\ RepairsCounted'
    BY <1>1, <2>1 DEF SenderInv, RepairsCounted, BootRouter, Activate, TimerExpired
  <2>3. CASE BootRouter
    BY <2>1, <2>2, <2>3 DEF BootRouter, RouterInv, RouterTypeOK, RootInv
  <2>4. CASE Activate \/ TimerExpired
    <3>1. AskOrServe /\ UNCHANGED <<prefix_set, dag, rplFull, last_sender, repairs, losses,
                                    lastIn, misheld>>
      BY <2>4 DEF Activate, TimerExpired
    <3>2. /\ DEBOUNCE_DURATION \in 0..DEBOUNCE_DURATION
          /\ requests \in Nat /\ requests <= MaxRequests /\ MaxRequests \in Nat
      BY <2>1, ButtonAssumption, EmbeddedAssumption DEF RouterTypeOK
    <3>3. requests' \in 0..MaxRequests
      BY <3>1, <3>2 DEF AskOrServe, RequestPrefix
    <3>4. /\ pc' \in {"ask", "serve"} /\ radio' \in BOOLEAN
          /\ et' \in 0..DEBOUNCE_DURATION
          /\ radio' => prefix_set \/ radio
      BY <2>1, <3>1, <3>2 DEF AskOrServe, RouterTypeOK
    <3>5. RouterTypeOK'
      BY <2>1, <3>1, <3>3, <3>4 DEF RouterTypeOK
    <3>6. RootInv'
      <4>1. pc # "boot"
        BY <2>4 DEF Activate, TimerExpired
      <4> QED BY <2>1, <3>1, <3>4, <4>1 DEF RootInv
    <3> QED BY <2>2, <3>5, <3>6 DEF RouterInv
  <2> QED BY <2>3, <2>4
<1> QED BY <1>2, <1>3 DEF EmbeddedInv

\* The event of the button is taken for one repair at most.
LEMMA EventKeeps ==
  ASSUME EmbeddedInv, SensorsEvent
  PROVE  EmbeddedInv'
<1>1. InterfaceInv' /\ OnlyMeshOut'
  BY UnchangedKeeps DEF EmbeddedInv, SensorsEvent, interface
<1>2. ButtonInv'
  BY DEF EmbeddedInv, ButtonInv, ButtonTypeOK, EdgesCounted, DurationBehind, Moves,
         MaxSince, SensorsEvent
<1>3. RouterInv'
  <2>1. repairs \in Nat /\ taken \in Nat /\ changed = TRUE
    BY DEF EmbeddedInv, RouterInv, RouterTypeOK, ButtonInv, ButtonTypeOK, SensorsEvent
  <2>2. RepairsCounted'
    BY <2>1 DEF EmbeddedInv, RouterInv, RepairsCounted, SensorsEvent
  <2>3. repairs' \in Nat
    BY <2>1 DEF SensorsEvent
  <2> QED BY <2>2, <2>3
          DEF EmbeddedInv, RouterInv, RouterTypeOK, RootInv, SenderInv, SensorsEvent
<1> QED BY <1>1, <1>2, <1>3 DEF EmbeddedInv

LEMMA RouterTickKeeps ==
  ASSUME EmbeddedInv, RouterTick
  PROVE  EmbeddedInv'
<1>1. InterfaceInv' /\ OnlyMeshOut'
  BY UnchangedKeeps DEF EmbeddedInv, RouterTick, interface
<1>2. ButtonInv'
  BY TickKeepsButton DEF EmbeddedInv, RouterTick
<1>3. RouterInv'
  <2>1. et' \in 0..DEBOUNCE_DURATION
    BY ButtonAssumption DEF EmbeddedInv, RouterInv, RouterTypeOK, RouterTick, OneLess
  <2> QED BY <2>1 DEF EmbeddedInv, RouterInv, RouterTypeOK, RootInv, SenderInv,
                      RepairsCounted, RouterTick, ButtonTick
<1> QED BY <1>1, <1>2, <1>3 DEF EmbeddedInv

\* A node's packet is held back only behind a message that may have been its own.
LEMMA FromMeshKeeps ==
  ASSUME EmbeddedInv, NEW src \in Nodes, RouterFromMesh(src)
  PROVE  EmbeddedInv'
<1> DEFINE p == Packet("mesh", src, FALSE)
<1>1. /\ SlipOutput(p, last_sender, lastIn)
      /\ UNCHANGED <<inbound, buttonVars, pc, et, prefix_set, radio, dag, rplFull, last_sender,
                     requests, repairs, losses, lastIn>>
      /\ inputs < MaxInputs /\ inputs' = inputs + 1
  BY DEF RouterFromMesh
<1>2. p.src = src /\ p.from = "mesh" /\ src # "other"
  BY EmbeddedAssumption DEF Packet
<1> HIDE DEF p
<1>3. misheld' = FALSE /\ OnlyMeshOut'
  BY <1>1, <1>2, OutputKeepsRouter DEF EmbeddedInv, RouterInv, SenderInv
<1>4. InterfaceInv'
  BY <1>1, LineKept DEF EmbeddedInv, InterfaceInv
<1>5. ButtonInv'
  BY <1>1, UnchangedKeeps DEF EmbeddedInv
<1>6. RouterInv'
  BY <1>1, <1>3 DEF EmbeddedInv, RouterInv, RouterTypeOK, RootInv, SenderInv,
                    RepairsCounted, buttonVars
<1> QED BY <1>3, <1>4, <1>5, <1>6 DEF EmbeddedInv

\* The host answers or sends a command; the line loses what it carries.
LEMMA HostKeeps ==
  ASSUME EmbeddedInv,
         \/ \E prefix \in Prefixes : Answer(prefix)
         \/ \E c \in Commands : SendCommand(c)
         \/ LoseRequest \/ LoseMessage
  PROVE  EmbeddedInv'
<1>1. UNCHANGED <<outbound, buttonVars, pc, et, prefix_set, radio, dag, rplFull, last_sender,
                  repairs, lastIn, misheld>>
  BY DEF Answer, SendCommand, LoseRequest, LoseMessage, routerVars, interface
<1>2. ButtonInv' /\ OnlyMeshOut'
  BY <1>1, UnchangedKeeps DEF EmbeddedInv
<1>3. requests' \in 0..MaxRequests /\ losses' \in 0..MaxLosses
  <2>1. /\ requests \in 0..MaxRequests /\ losses \in 0..MaxLosses
        /\ MaxRequests \in Nat /\ MaxLosses \in Nat
    BY EmbeddedAssumption DEF EmbeddedInv, RouterInv, RouterTypeOK
  <2>2. /\ requests' = requests \/ (requests > 0 /\ requests' = requests - 1)
        /\ losses' = losses \/ (losses < MaxLosses /\ losses' = losses + 1)
    BY DEF Answer, SendCommand, LoseRequest, LoseMessage, routerVars
  <2> QED BY <2>1, <2>2
<1>4. RouterInv'
  BY <1>1, <1>3 DEF EmbeddedInv, RouterInv, RouterTypeOK, RootInv, SenderInv,
                    RepairsCounted, buttonVars
<1>5. InterfaceInv'
  <2>1. \A prefix \in Prefixes : Command("!P", prefix) \in Messages
    BY DEF Messages, Commands
  <2>2. Commands \subseteq Messages
    BY DEF Messages
  <2>3. ASSUME NEW prefix \in Prefixes, Answer(prefix)
        PROVE  InterfaceInv'
    BY <2>1, <2>3, LineKept DEF EmbeddedInv, InterfaceInv, Answer
  <2>4. ASSUME NEW c \in Commands, SendCommand(c)
        PROVE  InterfaceInv'
    BY <2>2, <2>4, LineKept DEF EmbeddedInv, InterfaceInv, SendCommand
  <2>5. CASE LoseRequest
    BY <2>5, UnchangedKeeps DEF EmbeddedInv, LoseRequest, interface
  <2>6. CASE LoseMessage
    BY <2>6, LineKept DEF EmbeddedInv, InterfaceInv, LoseMessage
  <2> QED BY <2>3, <2>4, <2>5, <2>6
<1> QED BY <1>2, <1>4, <1>5 DEF EmbeddedInv

\* A click counts as one input; the contacts bounce and the duration timer runs.
LEMMA ClickKeeps ==
  ASSUME EmbeddedInv,
         \/ /\ inputs < MaxInputs /\ inputs' = inputs + 1
            /\ Press(Active)
            /\ UNCHANGED <<inbound, outbound, routerVars>>
         \/ (LetGo(Active) \/ Bounce(Active) \/ DurationExceeded)
            /\ UNCHANGED <<interface, routerVars>>
  PROVE  EmbeddedInv'
<1>1. InterfaceInv' /\ OnlyMeshOut'
  BY LineKept, UnchangedKeeps DEF EmbeddedInv, InterfaceInv, interface
<1>2. /\ Settle \in Nat /\ settle \in 0..Settle /\ Settle \in 0..Settle
      /\ finger \in BOOLEAN /\ clicks \in 0..MaxClicks /\ MaxClicks \in Nat
      /\ clicks \in Nat /\ Active \in BOOLEAN
  BY ButtonAssumption DEF EmbeddedInv, ButtonInv, ButtonTypeOK, Active
<1>3. /\ ButtonInv'
      /\ \/ changed' = changed /\ taken' = taken
         \/ changed' = TRUE /\ taken' = taken + 1
  <2>1. CASE Press(Active)
    <3>1. /\ finger = FALSE /\ finger' = TRUE /\ settle' = Settle
          /\ clicks < MaxClicks /\ clicks' = clicks + 1
          /\ press_duration' = press_duration /\ Interrupt(Active)
      BY <1>2, <2>1 DEF Press
    <3>2. clicks' \in 0..MaxClicks /\ settle' \in 0..Settle /\ finger' \in BOOLEAN
      BY <1>2, <3>1
    <3>3. Moves' = Moves + 1
      BY <1>2, <3>1 DEF Moves
    <3> QED BY <1>2, <3>1, <3>2, <3>3, InterruptKeepsButton DEF EmbeddedInv
  <2>2. CASE LetGo(Active)
    <3>1. /\ finger = TRUE /\ finger' = FALSE /\ settle' = Settle
          /\ clicks' = clicks
          /\ press_duration' = press_duration /\ Interrupt(Active)
      BY <1>2, <2>2 DEF LetGo
    <3>2. clicks' \in 0..MaxClicks /\ settle' \in 0..Settle /\ finger' \in BOOLEAN
      BY <1>2, <3>1
    <3>3. Moves' = Moves + 1
      BY <1>2, <3>1 DEF Moves
    <3> QED BY <1>2, <3>1, <3>2, <3>3, InterruptKeepsButton DEF EmbeddedInv
  <2>3. CASE Bounce(Active)
    <3>1. /\ finger' = finger /\ settle' = settle /\ settle > 0 /\ clicks' = clicks
          /\ press_duration' = press_duration /\ Interrupt(Active)
      BY <2>3 DEF Bounce
    <3>2. Moves' = Moves
      BY <3>1 DEF Moves
    <3> QED BY <1>2, <3>1, <3>2, InterruptKeepsButton DEF EmbeddedInv
  <2>4. CASE DurationExceeded
    BY <2>4, DurationKeepsButton DEF EmbeddedInv
  <2> QED BY <2>1, <2>2, <2>3, <2>4
<1>4. RouterInv'
  <2>1. UNCHANGED routerVars
    OBVIOUS
  <2>2. RepairsCounted'
    <3>1. repairs \in Nat /\ taken \in Nat /\ changed \in BOOLEAN
      BY DEF EmbeddedInv, RouterInv, RouterTypeOK, ButtonInv, ButtonTypeOK
    <3> QED BY <1>3, <2>1, <3>1 DEF EmbeddedInv, RouterInv, RepairsCounted, routerVars
  <2> QED BY <2>1, <2>2
          DEF EmbeddedInv, RouterInv, RouterTypeOK, RootInv, SenderInv, routerVars
<1> QED BY <1>1, <1>3, <1>4 DEF EmbeddedInv

\* A packet arrives from outside.
LEMMA OutsideKeeps ==
  ASSUME InterfaceInv, NEW src \in Addresses, NEW routed \in BOOLEAN, Outside(src, routed)
  PROVE  InterfaceInv'
<1>1. Packet("outside", src, routed) \in Messages
  BY DEF Messages
<1> QED BY <1>1, LineKept DEF InterfaceInv, Outside

LEMMA RouterNextKeeps ==
  ASSUME EmbeddedInv, RouterNext
  PROVE  EmbeddedInv'
<1>1. ASSUME NEW src \in Addresses, NEW routed \in BOOLEAN,
             Outside(src, routed), UNCHANGED <<buttonVars, routerVars>>
      PROVE  EmbeddedInv'
  <2>1. InterfaceInv'
    BY <1>1, OutsideKeeps DEF EmbeddedInv
  <2> QED BY <1>1, <2>1, UnchangedKeeps DEF EmbeddedInv, Outside, buttonVars
<1> QED BY <1>1, ProcessKeeps, EventKeeps, RouterTickKeeps, SlipInputKeeps,
           FromMeshKeeps, HostKeeps, ClickKeeps DEF RouterNext

-----------------------------------------------------------------------------
(* The tunnel *)

LEMMA SetDelayType ==
  ASSUME NEW arg \in Seq(Int)
  PROVE  SetDelay(arg) \in 0..(UInt16 - 1)
<1>1. UInt16 \in Nat \ {0}
  BY DEF UInt16
<1>2. Given(arg, 10) \in Int
  <2>1. arg # <<>> => arg[1] \in Int
    BY HeadTailProperties
  <2> QED BY <2>1 DEF Given
<1> QED BY <1>1, <1>2 DEF SetDelay

\* The delay of a command line is a uint16_t.
LEMMA BasedelayType ==
  ASSUME NEW a \in Arguments
  PROVE  Basedelay(a.options) \in 0..(UInt16 - 1)
<1>1. ASSUME LastUse(a.options, "d") # {}
      PROVE  SetDelay(LastArg(a.options, "d")) \in 0..(UInt16 - 1)
  <2> DEFINE i == CHOOSE k \in LastUse(a.options, "d") : TRUE
  <2>1. i \in LastUse(a.options, "d")
    BY <1>1
  <2>2. a.options[i].arg \in Seq(Int)
    BY <2>1, ArgumentsAssumption DEF LastUse
  <2>3. LastArg(a.options, "d") = a.options[i].arg
    BY DEF LastArg
  <2> QED BY <2>2, <2>3, SetDelayType
<1>2. 0 \in 0..(UInt16 - 1)
  BY DEF UInt16
<1> QED BY <1>1, <1>2 DEF Basedelay

\* The clock's arithmetic: one more second, and what the bounds are.
LEMMA Seconds ==
  /\ \A s \in Int : s * Second \in Int /\ (s + 1) * Second = s * Second + Second
  /\ 0 * Second = 0
  /\ MaxGap \in Nat
<1>1. Second \in Nat \ {0} /\ MaxSec \in Nat \ {0}
  BY ClockAssumption
<1>2. \A s \in Int : s * Second \in Int /\ (s + 1) * Second = s * Second + Second
  BY <1>1
<1>3. MaxSec * Second \in Nat
  BY <1>1, NextMultiple
<1> QED BY <1>1, <1>2, <1>3 DEF MaxGap

LEMMA ClockFacts ==
  ASSUME TunTypeOK
  PROVE  /\ Second \in Nat \ {0} /\ MaxSec \in Nat /\ MaxSets \in Nat
         /\ UInt16 \in Nat
         /\ clock.sec \in -1..MaxSec /\ clock.msec \in 0..(Second - 1)
         /\ slip_config_basedelay \in 0..(UInt16 - 1)
         /\ delaymsec \in Nat /\ delaystartmsec \in Nat /\ gap \in Nat
         /\ clock.sec * Second \in Int /\ Elapsed \in Int
<1>1. /\ Second \in Nat \ {0} /\ MaxSec \in Nat /\ MaxSets \in Nat
      /\ UInt16 \in Nat
  BY ClockAssumption DEF UInt16
<1>2. clock.sec \in -1..MaxSec /\ clock.msec \in 0..(Second - 1)
  BY DEF TunTypeOK, Clock
<1>3. /\ slip_config_basedelay \in 0..(UInt16 - 1)
      /\ delaymsec \in Nat /\ delaystartmsec \in Nat /\ gap \in Nat
  BY <1>1, Seconds DEF TunTypeOK
<1>4. clock.sec * Second \in Int
  BY <1>1, <1>2, Seconds
<1>5. Elapsed \in Int
  BY <1>1, <1>2, <1>3, <1>4 DEF Elapsed
<1> QED BY <1>1, <1>2, <1>3, <1>4, <1>5

\* A millisecond is one more at most for what handle_fd() sees.
LEMMA TunTickKeeps ==
  ASSUME TunTypeOK, DelayInv, TunTick
  PROVE  TunTypeOK' /\ DelayInv'
<1>0. /\ Second \in Nat \ {0} /\ MaxSec \in Nat /\ MaxGap \in Nat /\ gap \in 0..MaxGap
      /\ clock.sec \in -1..MaxSec /\ clock.msec \in 0..(Second - 1)
      /\ delaystartmsec \in Nat /\ slip_config_basedelay \in Nat
      /\ clock.sec * Second \in Int /\ Elapsed \in Int
      /\ (clock.sec + 1) * Second = clock.sec * Second + Second
  <2>1. /\ Second \in Nat \ {0} /\ MaxSec \in Nat
        /\ clock.sec \in -1..MaxSec /\ clock.msec \in 0..(Second - 1)
        /\ delaystartmsec \in Nat /\ slip_config_basedelay \in Nat
        /\ clock.sec * Second \in Int /\ Elapsed \in Int
    BY ClockFacts
  <2>2. MaxGap \in Nat /\ gap \in 0..MaxGap
    BY Seconds DEF TunTypeOK
  <2>3. (clock.sec + 1) * Second = clock.sec * Second + Second
    BY <2>1, Seconds
  <2> QED BY <2>1, <2>2, <2>3
<1>1. UNCHANGED <<running, slip_config_basedelay, delaymsec, delaystartmsec, sets, stepped>>
  BY DEF TunTick
<1>2. gap' \in 0..MaxGap /\ (gap' = MaxGap \/ gap' = gap + 1) /\ gap' >= gap
  <2>1. gap' = IF gap < MaxGap THEN gap + 1 ELSE gap
    BY DEF TunTick
  <2> QED BY <1>0, <2>1
<1>3. clock' \in Clock /\ (Elapsed' = Elapsed \/ Elapsed' = Elapsed + 1)
  <2>1. CASE clock.msec < Second - 1
    <3>1. clock' = [clock EXCEPT !.msec = @ + 1]
      BY <2>1 DEF TunTick
    <3>2. clock \in Clock /\ clock.msec + 1 \in 0..(Second - 1)
      BY <1>0, <2>1 DEF TunTypeOK
    <3>3. clock' \in Clock /\ clock'.sec = clock.sec /\ clock'.msec = clock.msec + 1
      BY <3>1, <3>2 DEF Clock
    <3> QED BY <1>0, <1>1, <3>3 DEF Elapsed
  <2>2. CASE ~(clock.msec < Second - 1) /\ clock.sec < MaxSec
    <3>1. clock' = [sec |-> clock.sec + 1, msec |-> 0]
      BY <2>2 DEF TunTick
    <3>2. clock.sec + 1 \in -1..MaxSec /\ 0 \in 0..(Second - 1)
      BY <1>0, <2>2
    <3>3. clock' \in Clock /\ clock'.sec = clock.sec + 1 /\ clock'.msec = 0
      BY <3>1, <3>2 DEF Clock
    <3>4. clock.msec = Second - 1
      BY <1>0, <2>2
    <3>5. clock'.sec * Second = clock.sec * Second + Second
      BY <1>0, <3>3
    <3> QED BY <1>0, <1>1, <3>3, <3>4, <3>5 DEF Elapsed
  <2>3. CASE ~(clock.msec < Second - 1) /\ ~(clock.sec < MaxSec)
    <3>1. clock' = clock
      BY <2>3 DEF TunTick
    <3> QED BY <1>1, <3>1 DEF Elapsed, TunTypeOK
  <2> QED BY <2>1, <2>2, <2>3
<1>4. TunTypeOK'
  BY <1>1, <1>2, <1>3 DEF TunTypeOK, MaxGap, Clock
<1>5. DelayInv'
  <2>1. MaxGap' = MaxGap
    BY DEF MaxGap
  <2>2. SUFFICES ASSUME ~stepped
                 PROVE  /\ Elapsed' >= 0
                        /\ gap' = MaxGap \/ Elapsed' <= gap'
                        /\ delaymsec = 0 => \/ slip_config_basedelay = 0
                                            \/ gap' = MaxGap
                                            \/ gap' > slip_config_basedelay
    BY <1>1, <2>1 DEF DelayInv
  <2>3. /\ Elapsed >= 0
        /\ gap = MaxGap \/ Elapsed <= gap
        /\ delaymsec = 0 => \/ slip_config_basedelay = 0
                            \/ gap = MaxGap \/ gap > slip_config_basedelay
    BY <2>2 DEF DelayInv
  <2>4. gap' = MaxGap \/ Elapsed' <= gap'
    BY <1>0, <1>2, <1>3, <2>3
  <2>5. Elapsed' >= 0
    BY <1>0, <1>3, <2>3
  <2>6. delaymsec = 0 => \/ slip_config_basedelay = 0
                         \/ gap' = MaxGap \/ gap' > slip_config_basedelay
    BY <1>0, <1>2, <2>3
  <2> QED BY <2>4, <2>5, <2>6
<1> QED BY <1>4, <1>5

\* handle_fd() gives the delay up when it is over; a read starts the next one.
LEMMA HandleFdKeeps ==
  ASSUME InterfaceInv, TunTypeOK, DelayInv, HandleFd
  PROVE  InterfaceInv' /\ TunTypeOK' /\ DelayInv'
<1>0. /\ Second \in Nat \ {0} /\ MaxGap \in Nat /\ gap \in 0..MaxGap
      /\ clock.sec \in -1..MaxSec /\ clock.msec \in 0..(Second - 1)
      /\ delaystartmsec \in Nat /\ slip_config_basedelay \in Nat /\ delaymsec \in Nat
      /\ MaxSec \in Nat /\ 0 * Second = 0 /\ Elapsed \in Int /\ MaxGap' = MaxGap
  BY ClockFacts, Seconds DEF TunTypeOK, MaxGap
<1>1. CASE DelayLeft = 0 /\ inbound # <<>> /\ ReadPacket
  <2>1. /\ inbound' = Tail(inbound) /\ inputs' = inputs
        /\ delaymsec' = slip_config_basedelay /\ delaystartmsec' = clock.msec
        /\ clock' = [clock EXCEPT !.sec = 0] /\ gap' = 0 /\ stepped' = FALSE
        /\ slip_config_basedelay' = slip_config_basedelay /\ sets' = sets
        /\ running' \in {running, FALSE}
    BY <1>1 DEF ReadPacket, TunForward, TunOutput
  <2>2. InterfaceInv'
    BY <1>1, <2>1, LineKept DEF InterfaceInv
  <2>3. clock' \in Clock /\ clock'.sec = 0 /\ clock'.msec = clock.msec
    BY <1>0, <2>1 DEF TunTypeOK, Clock
  <2>4. TunTypeOK'
    <3>1. running' \in BOOLEAN /\ sets \in 0..MaxSets
      BY <2>1 DEF TunTypeOK
    <3>2. slip_config_basedelay \in 0..(UInt16 - 1)
      BY DEF TunTypeOK
    <3>3. delaymsec' \in {0, slip_config_basedelay'} /\ gap' \in 0..MaxGap'
      BY <1>0, <2>1
    <3> QED BY <1>0, <2>1, <2>3, <3>1, <3>2, <3>3 DEF TunTypeOK
  <2>5. Elapsed' = 0
    BY <1>0, <2>1, <2>3 DEF Elapsed
  <2>6. DelayInv'
    BY <1>0, <2>1, <2>5 DEF DelayInv
  <2> QED BY <2>2, <2>4, <2>6
<1>2. CASE (DelayLeft = 0 /\ inbound # <<>> /\ ReadFails)
           \/ (/\ delaymsec' = DelayLeft
               /\ UNCHANGED <<interface, running, slip_config_basedelay,
                              delaystartmsec, clock, gap, sets, stepped>>)
  <2>1. /\ interface' = interface /\ running' \in {running, FALSE}
        /\ delaymsec' = DelayLeft
        /\ UNCHANGED <<slip_config_basedelay, delaystartmsec, clock, gap, sets, stepped>>
    BY <1>2 DEF ReadFails
  <2>2. InterfaceInv'
    BY <2>1, UnchangedKeeps DEF interface
  <2>3. TunTypeOK'
    <3>1. delaymsec' \in {0, slip_config_basedelay}
      BY <2>1 DEF DelayLeft, TunTypeOK
    <3> QED BY <1>0, <2>1, <3>1 DEF TunTypeOK, Clock
  <2>4. Elapsed' = Elapsed
    BY <2>1 DEF Elapsed
  <2>5. ~stepped /\ delaymsec # 0 /\ delaymsec' = 0
          => gap = MaxGap \/ gap > slip_config_basedelay
    <3>1. delaymsec # 0 => delaymsec = slip_config_basedelay
      BY DEF TunTypeOK
    <3>2. delaymsec # 0 /\ delaymsec' = 0 => Elapsed < 0 \/ Elapsed > delaymsec
      BY <2>1 DEF DelayLeft, DelayOver
    <3> QED BY <1>0, <3>1, <3>2 DEF DelayInv
  <2>6. DelayInv'
    BY <1>0, <2>1, <2>4, <2>5 DEF DelayInv
  <2> QED BY <2>2, <2>3, <2>6
<1> QED BY <1>1, <1>2 DEF HandleFd

LEMMA TunNextKeeps ==
  ASSUME InterfaceInv, TunTypeOK, DelayInv, TunNext
  PROVE  InterfaceInv' /\ TunTypeOK' /\ DelayInv'
<1>1. CASE TunTick
  BY <1>1, TunTickKeeps, UnchangedKeeps DEF TunTick, interface
<1>2. CASE ClockSet
  <2>1. sets + 1 \in 0..MaxSets
    BY <1>2, ClockFacts DEF ClockSet, TunTypeOK
  <2>2. TunTypeOK' /\ DelayInv'
    BY <1>2, <2>1 DEF ClockSet, TunTypeOK, DelayInv, Clock, MaxGap
  <2> QED BY <1>2, <2>2, UnchangedKeeps DEF ClockSet, interface
<1>3. ASSUME NEW src \in Nodes, TunFromMesh(src)
      PROVE  InterfaceInv' /\ TunTypeOK' /\ DelayInv'
  <2>1. /\ inbound' = inbound /\ inputs < MaxInputs /\ inputs' = inputs + 1
        /\ running' \in {running, FALSE}
        /\ UNCHANGED <<slip_config_basedelay, delaymsec, delaystartmsec, clock, gap,
                       sets, stepped>>
    BY <1>3 DEF TunFromMesh, TunOutput
  <2>2. InterfaceInv'
    BY <2>1, LineKept DEF InterfaceInv
  <2> QED BY <2>1, <2>2 DEF TunTypeOK, DelayInv, Elapsed, Clock, MaxGap
<1>4. ASSUME NEW routed \in BOOLEAN, Outside(Host, routed), UNCHANGED tunVars
      PROVE  InterfaceInv' /\ TunTypeOK' /\ DelayInv'
  <2>1. InterfaceInv'
    BY <1>4, OutsideKeeps DEF Addresses
  <2> QED BY <1>4, <2>1 DEF tunVars, TunTypeOK, DelayInv, Elapsed, Clock, MaxGap
<1> QED BY <1>1, <1>2, <1>3, <1>4, HandleFdKeeps DEF TunNext

-----------------------------------------------------------------------------
(* Both routers *)

LEMMA InitEstablishesBridgesInv == Init => BridgesInv /\ DelayInv
<1> SUFFICES ASSUME Init
             PROVE  BridgesInv /\ DelayInv
  OBVIOUS
<1>1. InterfaceInv
  <2>1. /\ inbound = <<>> /\ inputs = 0 /\ LineSize \in Nat /\ MaxInputs \in Nat
    BY LineAssumption DEF Init
  <2>2. <<>> \in Seq(Messages) /\ Len(<<>>) = 0
    BY EmptySeq
  <2> QED BY <2>1, <2>2 DEF InterfaceInv
<1>2. TunTypeOK /\ DelayInv
  <2>1. slip_config_basedelay \in 0..(UInt16 - 1)
    BY BasedelayType DEF Init, TunInit
  <2>2. /\ running = TRUE /\ delaymsec = 0 /\ delaystartmsec = 0
        /\ clock = [sec |-> 0, msec |-> 0] /\ gap = MaxGap /\ sets = 0
        /\ stepped = FALSE
    BY DEF Init, TunInit
  <2>3. clock \in Clock /\ clock.sec = 0 /\ clock.msec = 0
    BY <2>2, ClockAssumption DEF Clock
  <2>4. TunTypeOK
    <3>1. MaxGap \in Nat /\ MaxSets \in Nat /\ Second \in Nat \ {0}
      BY Seconds, ClockAssumption
    <3>2. running \in BOOLEAN /\ stepped \in BOOLEAN
      BY <2>2
    <3>3. /\ delaymsec \in {0, slip_config_basedelay} /\ delaystartmsec \in 0..(Second - 1)
          /\ gap \in 0..MaxGap /\ sets \in 0..MaxSets
      BY <2>2, <3>1
    <3> QED BY <2>1, <2>3, <3>2, <3>3 DEF TunTypeOK
  <2>5. Elapsed = 0
    BY <2>2, <2>3, Seconds DEF Elapsed
  <2> QED BY <2>2, <2>4, <2>5 DEF DelayInv
<1>3. ButtonInv
  <2>1. /\ finger = FALSE /\ settle = 0 /\ debouncetimer = 0
        /\ press_duration \in Durations
        /\ press_counter = -1 /\ press_event_counter = 0
        /\ changed = FALSE /\ clicks = 0 /\ taken = 0 /\ sinceEdge = 0
    BY DEF Init, ButtonInit
  <2>2. /\ DEBOUNCE_DURATION \in Nat /\ Settle \in Nat /\ MaxClicks \in Nat
        /\ Counters \in Nat \ {0} /\ press_duration \in Nat
    BY <2>1, ButtonAssumption
  <2>3. MaxSince \in Nat
    <3>1. Counters * press_duration \in Nat
      BY <2>2, NextMultiple
    <3> QED BY <2>2, <3>1 DEF MaxSince
  <2>4. ButtonTypeOK
    <3>1. finger \in BOOLEAN /\ changed \in BOOLEAN
      BY <2>1
    <3>2. /\ settle \in 0..Settle /\ debouncetimer \in 0..DEBOUNCE_DURATION
          /\ press_counter \in -1..press_duration
          /\ press_event_counter \in 0..(Counters - 1)
          /\ clicks \in 0..MaxClicks /\ taken \in Nat /\ sinceEdge \in 0..MaxSince
      BY <2>1, <2>2, <2>3
    <3> QED BY <2>1, <3>1, <3>2 DEF ButtonTypeOK
  <2>5. EdgesCounted
    BY <2>1 DEF EdgesCounted, Moves
  <2>6. DurationBehind
    BY <2>1 DEF DurationBehind
  <2> QED BY <2>4, <2>5, <2>6 DEF ButtonInv
<1>4. RouterInv
  <2>1. /\ pc = "boot" /\ et = 0 /\ prefix_set = FALSE /\ radio = TRUE /\ dag = NoPrefix
        /\ rplFull = FALSE
        /\ last_sender = "other" /\ requests = 0 /\ repairs = 0 /\ losses = 0
        /\ lastIn = "none" /\ misheld = FALSE /\ changed = FALSE /\ taken = 0
    BY DEF Init, RouterInit, ButtonInit
  <2>2. /\ DEBOUNCE_DURATION \in Nat /\ MaxRequests \in Nat /\ MaxLosses \in Nat
    BY ButtonAssumption, EmbeddedAssumption
  <2>3. RouterTypeOK
    <3>1. prefix_set \in BOOLEAN /\ radio \in BOOLEAN /\ misheld \in BOOLEAN
      BY <2>1
    <3>2. /\ et \in 0..DEBOUNCE_DURATION /\ requests \in 0..MaxRequests
          /\ repairs \in Nat /\ losses \in 0..MaxLosses
      BY <2>1, <2>2
    <3> QED BY <2>1, <3>1, <3>2 DEF RouterTypeOK
  <2> QED BY <2>1, <2>3 DEF RouterInv, RootInv, SenderInv, RepairsCounted
<1>5. OnlyMeshOut
  BY DEF Init, OnlyMeshOut
<1> QED BY <1>1, <1>2, <1>3, <1>4, <1>5 DEF BridgesInv, Init

LEMMA NextKeepsBridgesInv == BridgesInv /\ DelayInv /\ [Next]_vars => BridgesInv' /\ DelayInv'
<1> SUFFICES ASSUME BridgesInv, DelayInv, [Next]_vars
             PROVE  BridgesInv' /\ DelayInv'
  OBVIOUS
<1>1. /\ build \in {"native", "embedded"}
      /\ InterfaceInv /\ TunTypeOK /\ ButtonInv /\ RouterInv
      /\ build = "embedded" => OnlyMeshOut
  BY DEF BridgesInv
<1>2. UNCHANGED tunVars => TunTypeOK' /\ DelayInv'
  BY <1>1 DEF tunVars, TunTypeOK, DelayInv, Elapsed, Clock, MaxGap
<1>3. UNCHANGED buttonVars /\ UNCHANGED routerVars => ButtonInv' /\ RouterInv'
  <2>1. UNCHANGED buttonVars => UNCHANGED <<changed, taken>>
    BY DEF buttonVars
  <2> QED BY <1>1, <2>1, UnchangedKeeps
<1>4. CASE Native
  <2>1. build' = build /\ build # "embedded" /\ ButtonInv' /\ RouterInv'
    BY <1>3, <1>4 DEF Native
  <2>2. InterfaceInv' /\ TunTypeOK' /\ DelayInv'
    BY <1>1, <1>4, TunNextKeeps DEF Native
  <2> QED BY <1>1, <2>1, <2>2 DEF BridgesInv
<1>5. CASE Embedded
  <2>1. build' = build /\ build = "embedded" /\ TunTypeOK' /\ DelayInv'
    BY <1>2, <1>5 DEF Embedded
  <2>2. EmbeddedInv'
    BY <1>1, <1>5, RouterNextKeeps DEF Embedded, EmbeddedInv
  <2> QED BY <1>1, <2>1, <2>2 DEF BridgesInv, EmbeddedInv
<1>6. CASE UNCHANGED vars
  <2>1. /\ UNCHANGED <<build, inbound, outbound, inputs>>
        /\ UNCHANGED tunVars /\ UNCHANGED buttonVars /\ UNCHANGED routerVars
    BY <1>6 DEF vars, interface
  <2> QED BY <1>1, <1>2, <1>3, <2>1, UnchangedKeeps DEF BridgesInv
<1> QED BY <1>4, <1>5, <1>6 DEF Next

LEMMA BridgesInvariant == Spec => [](BridgesInv /\ DelayInv)
BY InitEstablishesBridgesInv, NextKeepsBridgesInv, PTL DEF Spec

\* The bridges' state keeps its types in either build: the line and the tunnel
\* hold no more than they can, the button's counters stay in their ranges, and
\* a delay is a uint16_t (slip_config_handle_arguments, callback,
\* slip_input_callback).
THEOREM BridgesTypeCorrect == Spec => []TypeOK
<1>1. BridgesInv => TypeOK
  BY DEF BridgesInv, InterfaceInv, ButtonInv, RouterInv, TypeOK
<1> QED BY BridgesInvariant, <1>1, PTL

\* The radio is on before the embedded router's process starts; from then on it is
\* on only with a prefix, and for the root of a DODAG unless rpl_set_root() has
\* returned NULL (border_router_process, set_prefix_64).
THEOREM RadioOffUntilRoot == Spec => []RadioOnlyForRoot
<1>1. BridgesInv => RadioOnlyForRoot
  BY EmbeddedAssumption DEF BridgesInv, RouterInv, RootInv, RadioOnlyForRoot, NoPrefix
<1> QED BY BridgesInvariant, <1>1, PTL

\* The embedded router never sends a packet back over the line it came from.  It
\* holds back the packets, echoes and fresh ones, of the sender it remembers: the
\* source of the last packet over the line or, after a message too short to hold
\* one, of any older packet (output).
THEOREM EchoesDropped == Spec => []OnlyEchoesDropped
<1>1. BridgesInv => OnlyEchoesDropped
  BY DEF BridgesInv, RouterInv, SenderInv, OnlyMeshOut, OnlyEchoesDropped
<1> QED BY BridgesInvariant, <1>1, PTL

\* Two events at most for a click, however long the contacts bounce within the
\* debounce time, and a duration count that the time bears out (callback,
\* duration_exceeded_callback).
THEOREM ClicksAreCounted == Spec => []ClicksCounted
<1>1. BridgesInv => ClicksCounted
  <2> SUFFICES ASSUME BridgesInv
               PROVE  ClicksCounted
    OBVIOUS
  <2> DEFINE n == press_event_counter
             d == press_duration
  <2>1. /\ ButtonTypeOK /\ EdgesCounted /\ DurationBehind /\ RepairsCounted
        /\ repairs \in Nat
    BY DEF BridgesInv, ButtonInv, RouterInv, RouterTypeOK
  <2>2. repairs <= taken
    <3>1. taken \in Nat
      BY <2>1 DEF ButtonTypeOK
    <3> QED BY <2>1, <3>1 DEF RepairsCounted
  <2>3. taken <= 2 * clicks
    <3>1. taken \in Nat /\ clicks \in Nat
      BY <2>1, ButtonAssumption DEF ButtonTypeOK
    <3>2. taken <= Moves
      BY <2>1, <3>1 DEF EdgesCounted, Moves
    <3> QED BY <3>1, <3>2 DEF Moves
  <2>4. n * d <= sinceEdge
    <3>1. /\ d \in Nat /\ n \in Nat /\ n * d \in Nat /\ MaxSince \in Nat
      BY <2>1, MaxSinceType
    <3>2. sinceEdge \in Nat /\ press_counter \in -1..d
      BY <2>1, <3>1 DEF ButtonTypeOK
    <3>3. n = 0 => n * d = 0
      BY <3>1
    <3> QED BY <2>1, <3>1, <3>2, <3>3 DEF DurationBehind
  <2> QED BY <2>2, <2>3, <2>4 DEF ClicksCounted
<1> QED BY BridgesInvariant, <1>1, PTL

\* The clock of the model does not stand still before the longest delay of a
\* command line is over.
DelaysMeasured ==
  \A a \in Arguments : \/ Refused(a.options, a.operands)
                       \/ Basedelay(a.options) < MaxGap

\* The native router reads two packets from the tunnel more than the delay
\* apart, unless the clock was set in between (handle_fd).
THEOREM TunnelIsSpaced == ASSUME DelaysMeasured PROVE Spec => TunnelSpaced
<1> DEFINE Measured == slip_config_basedelay < MaxGap
           Spaced == build = "native" /\ Len(inbound') < Len(inbound)
                       => \/ slip_config_basedelay = 0 \/ stepped
                          \/ gap > slip_config_basedelay
<1>1. Init => Measured
  BY DelaysMeasured DEF Init, TunInit, DelaysMeasured
<1>2. Measured /\ [Next]_vars => Measured'
  <2>1. [Next]_vars => slip_config_basedelay' = slip_config_basedelay
    BY DEF vars, tunVars, Next, Native, Embedded, TunNext, HandleFd, ReadPacket,
           ReadFails, TunTick, ClockSet, TunFromMesh
  <2>2. MaxGap' = MaxGap
    BY DEF MaxGap
  <2> QED BY <2>1, <2>2
<1>3. BridgesInv /\ DelayInv /\ Measured /\ [Next]_vars => [Spaced]_vars
  <2> SUFFICES ASSUME BridgesInv, DelayInv, Measured, Next, build = "native",
                      Len(inbound') < Len(inbound), slip_config_basedelay # 0, ~stepped
               PROVE  gap > slip_config_basedelay
    OBVIOUS
  <2>1. TunNext /\ InterfaceInv /\ TunTypeOK
    BY DEF Next, Native, Embedded, BridgesInv
  <2>2. DelayLeft = 0
    <3>1. Len(inbound) \in Nat
      BY <2>1, LenProperties DEF InterfaceInv
    <3>2. inbound' # inbound
      BY <3>1
    <3>3. ~TunTick /\ ~ClockSet /\ \A src \in Nodes : ~TunFromMesh(src)
      BY <3>2 DEF TunTick, ClockSet, TunFromMesh, interface
    <3>4. ASSUME NEW routed \in BOOLEAN, Outside(Host, routed)
          PROVE  FALSE
      <4>1. /\ inbound' = Append(inbound, Packet("outside", Host, routed))
            /\ inbound \in Seq(Messages)
        BY <2>1, <3>4 DEF Outside, InterfaceInv
      <4>2. Packet("outside", Host, routed) \in Messages
        BY DEF Messages, Addresses
      <4>3. Len(inbound') = Len(inbound) + 1
        BY <4>1, <4>2, AppendProperties
      <4> QED BY <3>1, <4>3
    <3>5. HandleFd
      BY <2>1, <3>3, <3>4 DEF TunNext
    <3> QED BY <3>2, <3>5 DEF HandleFd, interface
  <2>3. /\ gap \in Nat /\ Elapsed \in Int /\ slip_config_basedelay \in Nat
        /\ delaymsec \in Nat /\ MaxGap \in Nat
    <3>1. /\ gap \in Nat /\ Elapsed \in Int /\ delaymsec \in Nat
          /\ slip_config_basedelay \in 0..(UInt16 - 1)
      BY <2>1, ClockFacts
    <3> QED BY <3>1, Seconds
  <2>4. CASE delaymsec = 0
    BY <2>3, <2>4 DEF DelayInv
  <2>5. CASE delaymsec # 0
    <3>1. Elapsed < 0 \/ Elapsed > delaymsec
      BY <2>2, <2>5 DEF DelayLeft, DelayOver
    <3>2. delaymsec = slip_config_basedelay
      BY <2>1, <2>5 DEF TunTypeOK
    <3> QED BY <2>3, <3>1, <3>2 DEF DelayInv
  <2> QED BY <2>4, <2>5
<1> QED BY BridgesInvariant, <1>1, <1>2, <1>3, PTL DEF Spec, TunnelSpaced
=============================================================================
