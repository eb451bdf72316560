--------------------------- MODULE RadioSessions ---------------------------
(* How the host learns what became of a packet it gave to the radio.         *)
(* border-router-rdc.c keeps the sender's callback in a ring of slots and    *)
(* sends the slot's index, the session id, with the packet ("!S"); the       *)
(* radio, slip-radio.c, keeps the id in a ring of its own until its MAC      *)
(* layer has sent the packet and reports it back ("!R"), and the host calls  *)
(* the callback of that slot.  Neither ring checks that the slot it takes is *)
(* free, and nothing limits how many packets are under way.  The two         *)
(* directions of the line are queues of messages (what SlipSender and        *)
(* SerialInput implement).  A message has neither length nor checksum, so    *)
(* that one that lost bytes is lost as a whole, when they make it unknown to *)
(* the receiver, or taken with another session id or other contents.  The    *)
(* MAC layer finishes packets in any order.                                  *)
EXTENDS Integers, Sequences, FiniteSets, SequencesExt

CONSTANTS
  HostSlots,   \* MAX_CALLBACKS, 16 in the code
  RadioSlots,  \* the length of packet_ids, 16 in the code
  StrayIds,    \* what a message that lost bytes can have in its session id's place
  Faults,      \* what the line does: nothing, "lost", "damaged"
  MaxPackets   \* bound on the packets given to send_packet() (model only)

ASSUME SlotsAssumption == HostSlots \in 1..256 /\ RadioSlots \in Nat \ {0}
ASSUME SessionsAssumption ==
  /\ MaxPackets \in Nat /\ Faults \subseteq {"lost", "damaged"}
  /\ StrayIds \subseteq 0..255

VARIABLES
  callbacks, callback_pos,   \* the host's ring: the packet each slot is for
  packet_ids, packet_pos,    \* the radio's ring: the session id in each slot
  toRadio,   \* "!S" messages on the line
  mac,       \* packets handed to the radio's MAC layer, with their ring slot
  toHost,    \* "!R" messages on the line
  sent,      \* number of packets given to send_packet() so far
  posted,    \* history: those of them that went on the line
  called,    \* history: for every callback made, the packet it belonged to (none
             \* if the slot was never used), the packet the report was about, and
             \* how many were posted since
  spoiled    \* history: packets whose command or report the line spoiled

hostVars == <<callbacks, callback_pos, sent, posted, called>>
radioVars == <<packet_ids, packet_pos, mac>>
vars == <<hostVars, radioVars, toRadio, toHost, spoiled>>

HostSlot == 0..(HostSlots - 1)
RadioSlot == 0..(RadioSlots - 1)
Pkt == 1..MaxPackets
NoPacket == 0    \* a slot that was never used: its callback is null
Ids == HostSlot \cup StrayIds

TypeOK ==
  /\ callbacks \in [HostSlot -> Pkt \cup {NoPacket}]
  /\ callback_pos \in HostSlot
  /\ packet_ids \in [RadioSlot -> Ids]
  /\ packet_pos \in RadioSlot
  /\ toRadio \in Seq([sid : Ids, pkt : Pkt])
  /\ mac \in Seq([slot : RadioSlot, pkt : Pkt])
  /\ toHost \in Seq([sid : Ids, pkt : Pkt])
  /\ sent \in 0..MaxPackets
  /\ posted \subseteq 1..sent
  /\ called \in Seq([owner : Pkt \cup {NoPacket}, about : Pkt, behind : 0..MaxPackets])
  /\ spoiled \subseteq posted

Init ==
  /\ callbacks = [s \in HostSlot |-> NoPacket] /\ callback_pos = 0
  /\ packet_ids = [s \in RadioSlot |-> 0] /\ packet_pos = 0
  /\ toRadio = <<>> /\ mac = <<>> /\ toHost = <<>>
  /\ sent = 0 /\ posted = {} /\ called = <<>>
  /\ spoiled = {}
-----------------------------------------------------------------------------
\* Mutant: the ring wraps one slot late.
SendPacketWrapsLate ==
  LET k == sent + 1 IN
  /\ sent < MaxPackets
  /\ sent' = k
  /\ posted' = posted \cup {k}
  /\ callbacks' = [callbacks EXCEPT ![callback_pos] = k]
  /\ callback_pos' = (callback_pos + 1) % (HostSlots + 1)
  /\ toRadio' = Append(toRadio, [sid |-> callback_pos, pkt |-> k])
  /\ UNCHANGED <<radioVars, toHost, called, spoiled>>

\* send_packet(): the callback goes into the next slot, whatever is there.
SendPacket ==
  LET k == sent + 1 IN
  /\ sent < MaxPackets
  /\ sent' = k
  /\ posted' = posted \cup {k}
  /\ callbacks' = [callbacks EXCEPT ![callback_pos] = k]
  /\ callback_pos' = (callback_pos + 1) % HostSlots
  /\ toRadio' = Append(toRadio, [sid |-> callback_pos, pkt |-> k])
  /\ UNCHANGED <<radioVars, toHost, called, spoiled>>

\* Mutant: the packet is sent after its failure was reported.
SendFailsButSends ==
  LET k == sent + 1 IN
  /\ sent < MaxPackets
  /\ sent' = k
  /\ posted' = posted \cup {k}
  /\ called' = Append(called, [owner |-> k, about |-> k, behind |-> 0])
  /\ callbacks' = [callbacks EXCEPT ![callback_pos] = k]
  /\ callback_pos' = (callback_pos + 1) % HostSlots
  /\ toRadio' = Append(toRadio, [sid |-> callback_pos, pkt |-> k])
  /\ UNCHANGED <<radioVars, toHost, spoiled>>

\* send_packet(): no room for the headers or the attributes; the callback is
\* made at once with MAC_TX_ERR_FATAL.
SendFails ==
  LET k == sent + 1 IN
  /\ sent < MaxPackets
  /\ sent' = k
  /\ called' = Append(called, [owner |-> k, about |-> k, behind |-> 0])
  /\ UNCHANGED <<callbacks, callback_pos, posted, radioVars, toRadio, toHost, spoiled>>

\* Mutant: every packet uses the same slot.
RadioSendsSameSlot ==
  LET m == Head(toRadio) IN
  /\ toRadio # <<>>
  /\ toRadio' = Tail(toRadio)
  /\ packet_ids' = [packet_ids EXCEPT ![packet_pos] = m.sid]
  /\ mac' = Append(mac, [slot |-> packet_pos, pkt |-> m.pkt])
  /\ UNCHANGED <<hostVars, packet_pos, toHost, spoiled>>

\* slip_radio_cmd_handler(), "!S": the packet goes to the MAC layer with a
\* pointer to the slot that holds its session id.
RadioSends ==
  LET m == Head(toRadio) IN
  /\ toRadio # <<>>
  /\ toRadio' = Tail(toRadio)
  /\ packet_ids' = [packet_ids EXCEPT ![packet_pos] = m.sid]
  /\ mac' = Append(mac, [slot |-> packet_pos, pkt |-> m.pkt])
  /\ packet_pos' = (packet_pos + 1) % RadioSlots
  /\ UNCHANGED <<hostVars, toHost, spoiled>>

\* The same with attributes that do not parse, as only a message that lost
\* bytes has: the slot is written, but neither kept nor reported.
RadioRejects ==
  LET m == Head(toRadio) IN
  /\ toRadio # <<>>
  /\ m.pkt \in spoiled
  /\ toRadio' = Tail(toRadio)
  /\ packet_ids' = [packet_ids EXCEPT ![packet_pos] = m.sid]
  /\ UNCHANGED <<hostVars, packet_pos, mac, toHost, spoiled>>

\* The radio's packet_sent(): the MAC layer is done with a packet, and the
\* session id is read through the pointer it was given.
MacDone(i) ==
  /\ i \in DOMAIN mac
  /\ mac' = RemoveAt(mac, i)
  /\ toHost' = Append(toHost, [sid |-> packet_ids[mac[i].slot], pkt |-> mac[i].pkt])
  /\ UNCHANGED <<hostVars, packet_ids, packet_pos, toRadio, spoiled>>

\* How many packets were posted after packet k.
Behind(k) == Cardinality({p \in posted : p > k})

\* Mutant: the check of the session id leaves the last slot out.
HostReportLastSlot ==
  LET r == Head(toHost) IN
  /\ toHost # <<>>
  /\ toHost' = Tail(toHost)
  /\ called' = IF r.sid < HostSlots - 1
               THEN Append(called, [owner |-> callbacks[r.sid], about |-> r.pkt,
                                    behind |-> Behind(r.pkt)])
               ELSE called
  /\ UNCHANGED <<callbacks, callback_pos, sent, posted, radioVars, toRadio, spoiled>>

\* border_router_cmd_handler(), "!R", and the host's packet_sent().
HostReport ==
  LET r == Head(toHost) IN
  /\ toHost # <<>>
  /\ toHost' = Tail(toHost)
  /\ called' = IF r.sid < HostSlots
               THEN Append(called, [owner |-> callbacks[r.sid], about |-> r.pkt,
                                    behind |-> Behind(r.pkt)])
               ELSE called
  /\ UNCHANGED <<callbacks, callback_pos, sent, posted, radioVars, toRadio, spoiled>>

\* The bytes lost are in the message's first two, or all of it.
LoseCommand ==
  /\ "lost" \in Faults
  /\ toRadio # <<>>
  /\ toRadio' = Tail(toRadio)
  /\ spoiled' = spoiled \cup {Head(toRadio).pkt}
  /\ UNCHANGED <<hostVars, radioVars, toHost>>

LoseReport ==
  /\ "lost" \in Faults
  /\ toHost # <<>>
  /\ toHost' = Tail(toHost)
  /\ spoiled' = spoiled \cup {Head(toHost).pkt}
  /\ UNCHANGED <<hostVars, radioVars, toRadio>>

\* Any others: in the session id's place is what follows it, or the id itself
\* when a later byte was lost.
SpoilCommand ==
  /\ "damaged" \in Faults
  /\ toRadio # <<>>
  /\ \E id \in StrayIds \cup {Head(toRadio).sid} : toRadio' = [toRadio EXCEPT ![1].sid = id]
  /\ spoiled' = spoiled \cup {Head(toRadio).pkt}
  /\ UNCHANGED <<hostVars, radioVars, toHost>>

SpoilReport ==
  /\ "damaged" \in Faults
  /\ toHost # <<>>
  /\ \E id \in StrayIds \cup {Head(toHost).sid} : toHost' = [toHost EXCEPT ![1].sid = id]
  /\ spoiled' = spoiled \cup {Head(toHost).pkt}
  /\ UNCHANGED <<hostVars, radioVars, toRadio>>

Next ==
  \/ SendPacket \/ SendFails
  \/ RadioSends \/ RadioRejects
  \/ \E i \in 1..MaxPackets : MacDone(i)
  \/ HostReport
  \/ LoseCommand \/ LoseReport
  \/ SpoilCommand \/ SpoilReport

Spec == Init /\ [][Next]_vars

\* The line delivers, the radio's MAC layer finishes the packet it has had
\* longest and both command handlers run.
FairSpec ==
  /\ Spec
  /\ WF_vars(RadioSends) /\ WF_vars(MacDone(1)) /\ WF_vars(HostReport)
-----------------------------------------------------------------------------
(* Properties *)

Calls == {called[i] : i \in DOMAIN called}

\* Both rings are longer than the packets posted since the one called back.
InTime(c) == c.behind < HostSlots /\ c.behind < RadioSlots

\* No packet is reported twice, and a report reaches the callback of the packet
\* it is about, through both rings, in whatever order the MAC layer finishes and
\* whatever the line does to other packets, session ids included, as long as
\* fewer packets than a ring has slots were posted after it.  A packet whose own
\* messages lost bytes may be reported to another one's callback: the code
\* cannot tell.
RightCallback ==
  \A i \in DOMAIN called :
    /\ \A j \in DOMAIN called : called[j].about = called[i].about => i = j
    /\ InTime(called[i]) /\ called[i].about \notin spoiled =>
         called[i].owner = called[i].about

\* Every packet is reported unless the line spoiled its own messages: the loss
\* of one does not hold back another.  The session id of another may take its
\* place in the radio's ring once it is as many packets old.
EveryPacketReported ==
  \A k \in Pkt :
    sent >= k ~> \/ k \in spoiled \cup {c.about : c \in Calls}
                 \/ spoiled # {} /\ Behind(k) >= RadioSlots
=============================================================================
