------------------------ MODULE RadioSessionsProofs ------------------------
(* Theorems about the two rings, for every length of each, any number of     *)
(* packets, whatever the line spoils and every id that leaves in a message.  *)
EXTENDS RadioSessions, FiniteSetTheorems, SequenceTheorems, TLAPS

\* How many slots of a ring of n were taken after slot s, when pos is the next.
Age(pos, s, n) == IF s < pos THEN pos - 1 - s ELSE pos - 1 - s + n

Commands == [sid : Ids, pkt : Pkt]
Frames == [slot : RadioSlot, pkt : Pkt]
Callbacks == [owner : Pkt \cup {NoPacket}, about : Pkt, behind : 0..MaxPackets]

\* The packets in the queues, and those called back.
Packets(s) == {s[i].pkt : i \in DOMAIN s}
Abouts == {called[i].about : i \in DOMAIN called}

\* The packets posted after k, and those of them that left the line.
Later(k) == {p \in posted : p > k}
Passed(k) == Later(k) \ Packets(toRadio)

\* The line spared k, and fewer packets than either ring has slots were posted
\* after it.
Timely(k) == k \notin spoiled /\ Behind(k) < HostSlots /\ Behind(k) < RadioSlots

\* The session id is that of the slot packet k has its callback in.
Finds(sid, k) == sid \in HostSlot /\ callbacks[sid] = k

InOrder(s) == \A i, j \in DOMAIN s : i < j => s[i].pkt < s[j].pkt
Distinct(s) == \A i, j \in DOMAIN s : s[i].pkt = s[j].pkt => i = j

TypeInv ==
  /\ callbacks \in [HostSlot -> Pkt \cup {NoPacket}] /\ callback_pos \in HostSlot
  /\ packet_ids \in [RadioSlot -> Ids] /\ packet_pos \in RadioSlot
  /\ toRadio \in Seq(Commands) /\ mac \in Seq(Frames) /\ toHost \in Seq(Commands)
  /\ sent \in 0..MaxPackets
  /\ posted \subseteq 1..sent
  /\ called \in Seq(Callbacks)

\* Where the packets are: posted once, in one place at a time, on the line in
\* the order they were posted and before the radio in the end.
PlaceInv ==
  /\ Packets(toRadio) \subseteq posted /\ Packets(mac) \subseteq posted
  /\ Packets(toHost) \subseteq posted /\ Abouts \subseteq 1..sent
  /\ InOrder(toRadio)
  /\ \A k \in Packets(mac), m \in Packets(toRadio) : k < m
  /\ Distinct(mac) /\ Distinct(toHost)
  /\ \A i, j \in DOMAIN called : called[i].about = called[j].about => i = j
  /\ Packets(toHost) \cap (Packets(mac) \cup Packets(toRadio)) = {}
  /\ Abouts \cap (Packets(toHost) \cup Packets(mac) \cup Packets(toRadio)) = {}

\* A slot of a ring is taken again only after all the others.
RingInv ==
  /\ \A s \in HostSlot :
       callbacks[s] # NoPacket =>
         /\ callbacks[s] \in posted
         /\ Behind(callbacks[s]) >= Age(callback_pos, s, HostSlots)
  /\ \A i \in DOMAIN mac :
       Cardinality(Passed(mac[i].pkt)) >= Age(packet_pos, mac[i].slot, RadioSlots)

\* The session id finds the packet's callback while it is early enough.
SessionInv ==
  /\ \A i \in DOMAIN toRadio :
       Timely(toRadio[i].pkt) => Finds(toRadio[i].sid, toRadio[i].pkt)
  /\ \A i \in DOMAIN mac :
       Timely(mac[i].pkt) => Finds(packet_ids[mac[i].slot], mac[i].pkt)
  /\ \A i \in DOMAIN toHost :
       Timely(toHost[i].pkt) => Finds(toHost[i].sid, toHost[i].pkt)
  /\ \A i \in DOMAIN called :
       InTime(called[i]) /\ called[i].about \notin spoiled =>
         called[i].owner = called[i].about

SessionsInv == TypeInv /\ PlaceInv /\ RingInv /\ SessionInv

\* What the line spoiled had been posted.
AllInv == SessionsInv /\ spoiled \subseteq posted
-----------------------------------------------------------------------------
(* Rings, queues and sets of packets *)

\* Taking the next slot of a ring makes every other slot one older.
LEMMA AgeFacts ==
  ASSUME NEW n \in Nat \ {0}, NEW pos \in 0..(n - 1)
  PROVE  /\ (pos + 1) % n \in 0..(n - 1)
         /\ Age(pos, pos, n) = n - 1
         /\ Age((pos + 1) % n, pos, n) = 0
         /\ \A s \in 0..(n - 1) :
              /\ Age(pos, s, n) \in Nat
              /\ s # pos => Age((pos + 1) % n, s, n) = Age(pos, s, n) + 1
<1>1. CASE pos = n - 1
  <2>1. (pos + 1) % n = 0
    BY <1>1
  <2> QED BY <1>1, <2>1 DEF Age
<1>2. CASE pos # n - 1
  <2>1. (pos + 1) % n = pos + 1
    BY <1>2
  <2> QED BY <1>2, <2>1 DEF Age
<1> QED BY <1>1, <1>2

LEMMA Appended ==
  ASSUME NEW S, NEW s \in Seq(S), NEW e \in S
  PROVE  /\ Append(s, e) \in Seq(S)
         /\ Packets(Append(s, e)) = Packets(s) \cup {e.pkt}
         /\ Distinct(s) /\ e.pkt \notin Packets(s) => Distinct(Append(s, e))
         /\ InOrder(s) /\ (\A k \in Packets(s) : k < e.pkt) => InOrder(Append(s, e))
         /\ \A i \in DOMAIN Append(s, e) :
              Append(s, e)[i] = e \/ \E j \in DOMAIN s : Append(s, e)[i] = s[j]
<1> DEFINE t == Append(s, e)
           n == Len(s)
<1>1. /\ n \in Nat /\ DOMAIN s = 1..n
      /\ t \in Seq(S) /\ DOMAIN t = 1..(n + 1)
      /\ \A i \in 1..n : t[i] = s[i]
      /\ t[n + 1] = e
  BY AppendProperties, LenProperties
<1> HIDE DEF t, n
<1>2. /\ \A i \in DOMAIN t : (i \in DOMAIN s /\ t[i] = s[i]) \/ (i = n + 1 /\ t[i] = e)
      /\ \A i \in DOMAIN s : i \in DOMAIN t /\ t[i] = s[i] /\ i < n + 1
      /\ n + 1 \in DOMAIN t
  BY <1>1
<1>3. Packets(t) = Packets(s) \cup {e.pkt}
  BY <1>1, <1>2 DEF Packets
<1>4. ASSUME Distinct(s), e.pkt \notin Packets(s)
      PROVE  Distinct(t)
  BY <1>2, <1>4 DEF Distinct, Packets
<1>5. ASSUME InOrder(s), \A k \in Packets(s) : k < e.pkt
      PROVE  InOrder(t)
  <2> SUFFICES ASSUME NEW i \in DOMAIN t, NEW j \in DOMAIN t, i < j
               PROVE  t[i].pkt < t[j].pkt
    BY DEF InOrder
  <2>1. i \in DOMAIN s /\ t[i] = s[i]
    BY <1>1
  <2>2. CASE j \in DOMAIN s
    BY <1>2, <1>5, <2>1, <2>2 DEF InOrder
  <2>3. CASE j = n + 1
    BY <1>1, <1>5, <2>1, <2>3 DEF Packets
  <2> QED BY <1>2, <2>2, <2>3
<1> QED BY <1>1, <1>2, <1>3, <1>4, <1>5 DEF t

LEMMA Popped ==
  ASSUME NEW S, NEW s \in Seq(S), s # <<>>
  PROVE  /\ Head(s) \in S /\ Tail(s) \in Seq(S)
         /\ Packets(s) = Packets(Tail(s)) \cup {Head(s).pkt}
         /\ Distinct(s) => Distinct(Tail(s)) /\ Head(s).pkt \notin Packets(Tail(s))
         /\ InOrder(s) => InOrder(Tail(s)) /\ \A k \in Packets(Tail(s)) : Head(s).pkt < k
         /\ \E j \in DOMAIN s : Head(s) = s[j]
         /\ \A i \in DOMAIN Tail(s) : \E j \in DOMAIN s : Tail(s)[i] = s[j]
<1> DEFINE t == Tail(s)
           n == Len(s)
<1>1. /\ n \in Nat /\ DOMAIN s = 1..n /\ n > 0 /\ Head(s) = s[1] /\ s[1] \in S
  BY EmptySeq, LenProperties, HeadTailProperties
<1>2. /\ t \in Seq(S) /\ Len(t) = n - 1 /\ DOMAIN t = 1..(n - 1)
      /\ \A i \in 1..(n - 1) : t[i] = s[i + 1]
  BY HeadTailProperties, LenProperties
<1> HIDE DEF t, n
<1>3. \A i \in DOMAIN t : i + 1 \in DOMAIN s /\ t[i] = s[i + 1] /\ 1 < i + 1
  BY <1>1, <1>2
<1>4. 1 \in DOMAIN s /\ \A j \in DOMAIN s : j = 1 \/ (j - 1 \in DOMAIN t /\ t[j - 1] = s[j])
  BY <1>1, <1>2
<1>5. Packets(s) = Packets(t) \cup {Head(s).pkt}
  BY <1>1, <1>3, <1>4 DEF Packets
<1>6. ASSUME Distinct(s)
      PROVE  Distinct(t) /\ Head(s).pkt \notin Packets(t)
  <2>1. ASSUME NEW i \in DOMAIN t, NEW j \in DOMAIN t, t[i].pkt = t[j].pkt
        PROVE  i = j
    <3>1. i + 1 = j + 1
      BY <1>3, <1>6, <2>1 DEF Distinct
    <3> QED BY <1>2, <3>1
  <2>2. ASSUME NEW i \in DOMAIN t
        PROVE  t[i].pkt # s[1].pkt
    <3>1. i + 1 # 1 /\ i + 1 \in DOMAIN s /\ t[i] = s[i + 1]
      BY <1>2, <1>3
    <3> QED BY <1>4, <1>6, <3>1 DEF Distinct
  <2> QED BY <1>1, <2>1, <2>2 DEF Distinct, Packets
<1>7. ASSUME InOrder(s)
      PROVE  InOrder(t) /\ \A k \in Packets(t) : Head(s).pkt < k
  <2>1. ASSUME NEW i \in DOMAIN t, NEW j \in DOMAIN t, i < j
        PROVE  t[i].pkt < t[j].pkt
    <3>1. i + 1 < j + 1
      BY <1>2, <2>1
    <3> QED BY <1>3, <1>7, <3>1 DEF InOrder
  <2>2. \A i \in DOMAIN t : s[1].pkt < t[i].pkt
    BY <1>3, <1>4, <1>7 DEF InOrder
  <2> QED BY <1>1, <2>1, <2>2 DEF InOrder, Packets
<1>8. \A i \in DOMAIN t : \E j \in DOMAIN s : t[i] = s[j]
  BY <1>3
<1>9. \E j \in DOMAIN s : Head(s) = s[j]
  BY <1>1, <1>4
<1> QED BY <1>1, <1>2, <1>5, <1>6, <1>7, <1>8, <1>9 DEF t

\* What RemoveAt leaves of a queue.
LEMMA Removed ==
  ASSUME NEW S, NEW s \in Seq(S), NEW i \in DOMAIN s, Distinct(s)
  PROVE  /\ RemoveAt(s, i) \in Seq(S)
         /\ Distinct(RemoveAt(s, i))
         /\ Packets(RemoveAt(s, i)) = Packets(s) \ {s[i].pkt}
         /\ \A k \in DOMAIN RemoveAt(s, i) : \E j \in DOMAIN s : RemoveAt(s, i)[k] = s[j]
<1> DEFINE n == Len(s)
           a == SubSeq(s, 1, i - 1)
           b == SubSeq(s, i + 1, n)
           t == a \o b
           at(k) == IF k < i THEN k ELSE k + 1
<1>1. n \in Nat /\ DOMAIN s = 1..n /\ i \in 1..n /\ \A k \in 1..n : s[k] \in S
  BY LenProperties, ElementOfSeq
<1>2. /\ a \in Seq(S) /\ Len(a) = i - 1 /\ \A k \in 1..(i - 1) : a[k] = s[k]
  <2> HIDE DEF n
  <2>1. i - 1 \in 0..n /\ \A k \in 1..(i - 1) : k \in 1..n
    BY <1>1
  <2> QED BY <1>1, <2>1
<1>3. /\ b \in Seq(S) /\ Len(b) = n - i /\ \A k \in 1..(n - i) : b[k] = s[k + i]
  <2> HIDE DEF n
  <2> DEFINE m == i + 1
  <2>1. m \in 1..(n + 1) /\ n \in (m - 1)..n /\ \A k \in m..n : s[k] \in S
    BY <1>1
  <2> HIDE DEF m
  <2>2. /\ SubSeq(s, m, n) \in Seq(S)
        /\ Len(SubSeq(s, m, n)) = IF m <= n THEN n - m + 1 ELSE 0
        /\ \A k \in 1..(n - m + 1) : SubSeq(s, m, n)[k] = s[m + k - 1]
    BY <2>1, SubSeqProperties
  <2>3. \A k \in 1..(n - i) : k \in 1..(n - m + 1) /\ m + k - 1 = k + i
    BY <1>1 DEF m
  <2>4. (IF m <= n THEN n - m + 1 ELSE 0) = n - i
    BY <1>1 DEF m
  <2> QED BY <2>2, <2>3, <2>4 DEF m
<1> HIDE DEF a, b, n
<1>4. /\ t \in Seq(S) /\ Len(t) = Len(a) + Len(b)
      /\ \A k \in 1..(Len(a) + Len(b)) :
            t[k] = IF k <= Len(a) THEN a[k] ELSE b[k - Len(a)]
  BY <1>2, <1>3, ConcatProperties
<1> HIDE DEF t
<1>5. t \in Seq(S) /\ DOMAIN t = 1..(n - 1)
  BY <1>1, <1>2, <1>3, <1>4, LenProperties
<1>6. ASSUME NEW k \in 1..(n - 1)
      PROVE  t[k] = s[at(k)] /\ at(k) \in 1..n /\ at(k) # i
  <2>1. k \in 1..(Len(a) + Len(b))
    BY <1>1, <1>2, <1>3
  <2>2. CASE k < i
    BY <1>1, <1>2, <1>3, <1>4, <2>1, <2>2
  <2>3. CASE ~(k < i)
    <3>1. k - (i - 1) \in 1..(n - i) /\ ~(k <= Len(a)) /\ (k - (i - 1)) + i = k + 1
      BY <1>1, <1>2, <2>3
    <3>2. t[k] = b[k - (i - 1)]
      BY <1>2, <1>4, <2>1, <3>1
    <3> DEFINE l == k - (i - 1)
    <3> HIDE DEF l
    <3>3. b[l] = s[l + i]
      BY <1>3, <3>1 DEF l
    <3>4. l + i = k + 1 /\ at(k) = k + 1
      BY <2>3, <3>1 DEF l
    <3>5. k + 1 \in 1..n /\ k + 1 # i
      BY <1>1, <2>3
    <3> QED BY <3>2, <3>3, <3>4, <3>5 DEF l
  <2> QED BY <2>2, <2>3
<1>7. ASSUME NEW j \in 1..n, j # i
      PROVE  \E k \in 1..(n - 1) : at(k) = j
  <2>1. CASE j < i
    BY <1>1, <2>1
  <2>2. CASE j > i
    <3>1. j - 1 \in 1..(n - 1) /\ at(j - 1) = j
      BY <1>1, <2>2
    <3> QED BY <3>1
  <2> QED BY <1>1, <1>7, <2>1, <2>2
<1>8. \A k, l \in 1..(n - 1) : at(k) = at(l) => k = l
  BY <1>1
<1> HIDE DEF at
<1>9. Distinct(t)
  BY <1>1, <1>5, <1>6, <1>8 DEF Distinct
<1>10. Packets(t) = Packets(s) \ {s[i].pkt}
  <2>1. ASSUME NEW k \in 1..(n - 1)
        PROVE  t[k].pkt \in Packets(s) \ {s[i].pkt}
    BY <1>1, <1>6 DEF Packets, Distinct
  <2>2. ASSUME NEW j \in 1..n, s[j].pkt # s[i].pkt
        PROVE  \E k \in 1..(n - 1) : t[k].pkt = s[j].pkt
    BY <1>6, <1>7, <2>2
  <2> QED BY <1>1, <1>5, <2>1, <2>2 DEF Packets
<1>11. \A k \in DOMAIN t : \E j \in DOMAIN s : t[k] = s[j]
  BY <1>1, <1>5, <1>6
<1>12. RemoveAt(s, i) = t
  BY DEF RemoveAt, t, a, b, n
<1> QED BY <1>5, <1>9, <1>10, <1>11, <1>12

\* Sets of posted packets are finite.
LEMMA LaterFacts ==
  ASSUME TypeInv, NEW k
  PROVE  /\ Behind(k) = Cardinality(Later(k)) /\ Behind(k) \in 0..MaxPackets
         /\ IsFiniteSet(Later(k))
         /\ \A T \in SUBSET Later(k) :
              /\ IsFiniteSet(T) /\ Cardinality(T) \in Nat
              /\ Cardinality(T) <= Behind(k)
<1>1. sent \in 0..MaxPackets /\ posted \subseteq 1..sent /\ MaxPackets \in Nat
  BY SessionsAssumption DEF TypeInv
<1>2. IsFiniteSet(1..sent) /\ Cardinality(1..sent) = sent
  BY <1>1, FS_Interval
<1>3. Later(k) \in SUBSET (1..sent)
  BY <1>1 DEF Later
<1>4. IsFiniteSet(Later(k)) /\ Cardinality(Later(k)) <= sent
  BY <1>2, <1>3, FS_Subset
<1>5. Cardinality(Later(k)) \in Nat
  BY <1>4, FS_CardinalityType
<1>6. Behind(k) = Cardinality(Later(k))
  BY DEF Behind, Later
<1>7. \A T \in SUBSET Later(k) :
        /\ IsFiniteSet(T) /\ Cardinality(T) \in Nat
        /\ Cardinality(T) <= Cardinality(Later(k))
  BY <1>4, FS_Subset, FS_CardinalityType
<1> QED BY <1>1, <1>4, <1>5, <1>6, <1>7

\* A packet that is posted comes after all the others.
LEMMA OneMoreBehind ==
  ASSUME TypeInv, sent' = sent + 1, posted' = posted \cup {sent + 1}
  PROVE  /\ \A k \in 1..sent : Behind(k)' = Behind(k) + 1
         /\ \A k \in 1..sent : Later(k)' = Later(k) \cup {sent + 1}
         /\ \A k : Behind(k)' \in Nat
<1>1. sent \in Nat /\ posted \subseteq 1..sent /\ sent + 1 \notin posted
  BY SessionsAssumption DEF TypeInv
<1>2. ASSUME NEW k \in 1..sent
      PROVE  Later(k)' = Later(k) \cup {sent + 1}
  BY <1>1 DEF Later
<1>3. ASSUME NEW k \in 1..sent
      PROVE  Behind(k)' = Behind(k) + 1
  <2>1. IsFiniteSet(Later(k)) /\ Behind(k) = Cardinality(Later(k))
    BY LaterFacts
  <2>2. sent + 1 \notin Later(k)
    BY <1>1 DEF Later
  <2>3. Cardinality(Later(k) \cup {sent + 1}) = Cardinality(Later(k)) + 1
    BY <2>1, <2>2, FS_AddElement
  <2>4. Behind(k)' = Cardinality(Later(k)')
    BY DEF Behind, Later
  <2> QED BY <1>2, <2>1, <2>3, <2>4
<1>4. ASSUME NEW k
      PROVE  Behind(k)' \in Nat
  <2>1. IsFiniteSet(1..(sent + 1))
    BY <1>1, FS_Interval
  <2>2. {p \in posted' : p > k} \in SUBSET (1..(sent + 1))
    <3>1. \A p \in 1..sent : p \in 1..(sent + 1)
      BY <1>1
    <3>2. sent + 1 \in 1..(sent + 1)
      BY <1>1
    <3>3. posted' \subseteq 1..(sent + 1)
      BY <1>1, <3>1, <3>2, Zenon
    <3> QED BY <3>3
  <2>3. Cardinality({p \in posted' : p > k}) \in Nat
    BY <2>1, <2>2, FS_Subset, FS_CardinalityType
  <2> QED BY <2>3 DEF Behind
<1> QED BY <1>2, <1>3, <1>4

\* What counts for the packets while none is posted.
LEMMA NoneBehind ==
  ASSUME posted' = posted, spoiled \subseteq spoiled'
  PROVE  \A k : Behind(k)' = Behind(k) /\ Later(k)' = Later(k) /\ (Timely(k)' => Timely(k))
BY DEF Behind, Later, Timely

\* The first packet on the line leaves it, for the radio or for good.
LEMMA LeavesLine ==
  ASSUME TypeInv, PlaceInv, toRadio # <<>>, toRadio' = Tail(toRadio), posted' = posted
  PROVE  LET m == Head(toRadio).pkt IN
         /\ \A k \in posted :
              Cardinality(Passed(k)') \in Nat /\ Cardinality(Passed(k)') >= Cardinality(Passed(k))
         /\ \A k \in posted :
              k < m => /\ Cardinality(Passed(k)') = Cardinality(Passed(k)) + 1
                       /\ Behind(k) >= Cardinality(Passed(k)) + 1
<1> DEFINE m == Head(toRadio).pkt
<1>1. /\ toRadio \in Seq(Commands) /\ posted \subseteq 1..sent /\ sent \in Nat
      /\ Packets(toRadio) \subseteq posted /\ InOrder(toRadio)
  BY SessionsAssumption DEF TypeInv, PlaceInv
<1>2. /\ Packets(toRadio) = Packets(Tail(toRadio)) \cup {m}
      /\ \A k \in Packets(Tail(toRadio)) : m < k
  BY <1>1, Popped
<1> HIDE DEF m
<1>3. m \in posted /\ m \in Nat /\ m \notin Packets(Tail(toRadio))
  <2>1. m \in posted
    BY <1>1, <1>2
  <2>2. m \in Nat /\ ~(m < m)
    BY <1>1, <2>1
  <2> QED BY <1>2, <2>1, <2>2
<1>4. Packets(toRadio)' = Packets(Tail(toRadio))
  OBVIOUS
<1>5. ASSUME NEW k \in posted
      PROVE  /\ Cardinality(Passed(k)') \in Nat
             /\ Cardinality(Passed(k)') >= Cardinality(Passed(k))
             /\ k < m => /\ Cardinality(Passed(k)') = Cardinality(Passed(k)) + 1
                         /\ Behind(k) >= Cardinality(Passed(k)) + 1
  <2>1. /\ IsFiniteSet(Passed(k)) /\ Cardinality(Passed(k)) \in Nat
        /\ Passed(k) \subseteq Later(k)
    BY LaterFacts DEF Passed
  <2>2. Passed(k)' = Later(k) \ Packets(Tail(toRadio))
    BY <1>4 DEF Passed, Later
  <2>3. CASE k < m
    <3>1. m \in Later(k) /\ m \notin Passed(k)
      BY <1>2, <1>3, <2>3 DEF Later, Passed
    <3>2. Passed(k)' = Passed(k) \cup {m}
      BY <1>2, <1>3, <2>2, <3>1 DEF Passed
    <3>3. Cardinality(Passed(k) \cup {m}) = Cardinality(Passed(k)) + 1
      BY <2>1, <3>1, FS_AddElement
    <3>4. Passed(k) \cup {m} \subseteq Later(k)
      BY <2>1, <3>1
    <3>5. Cardinality(Passed(k) \cup {m}) <= Behind(k) /\ Behind(k) \in Int
      BY <3>4, LaterFacts
    <3> QED BY <2>1, <3>2, <3>3, <3>5
  <2>4. CASE ~(k < m)
    <3>1. m \notin Later(k)
      BY <1>1, <1>3, <2>4 DEF Later
    <3>2. Passed(k)' = Passed(k)
      BY <1>2, <2>2, <3>1 DEF Passed
    <3> QED BY <2>1, <2>4, <3>2
  <2> QED BY <2>3, <2>4
<1> QED BY <1>5 DEF m
-----------------------------------------------------------------------------
(* The invariant *)

LEMMA InitSessions == Init => SessionsInv
<1> SUFFICES ASSUME Init PROVE SessionsInv
  OBVIOUS
<1>1. /\ callbacks = [s \in HostSlot |-> NoPacket] /\ callback_pos = 0
      /\ packet_ids = [s \in RadioSlot |-> 0] /\ packet_pos = 0
      /\ toRadio = <<>> /\ mac = <<>> /\ toHost = <<>> /\ called = <<>>
      /\ sent = 0 /\ posted = {}
  BY DEF Init
<1>2. 0 \in HostSlot /\ 0 \in RadioSlot /\ 0 \in Ids
  BY SlotsAssumption DEF HostSlot, RadioSlot, Ids
<1>3. 0 \in 0..MaxPackets
  BY SessionsAssumption
<1>4. TypeInv
  BY <1>1, <1>2, <1>3 DEF TypeInv
<1>5. PlaceInv
  BY <1>1 DEF PlaceInv, Packets, Abouts, InOrder, Distinct
<1>6. RingInv
  BY <1>1 DEF RingInv
<1>7. SessionInv
  BY <1>1 DEF SessionInv
<1> QED BY <1>4, <1>5, <1>6, <1>7 DEF SessionsInv

LEMMA SendPacketKeeps ==
  ASSUME SessionsInv, SendPacket
  PROVE  SessionsInv'
<1> DEFINE k == sent + 1
           e == [sid |-> callback_pos, pkt |-> k]
<1>0. TypeInv /\ PlaceInv /\ RingInv /\ SessionInv
  BY DEF SessionsInv
<1>1. /\ sent < MaxPackets /\ sent' = k /\ posted' = posted \cup {k}
      /\ callbacks' = [callbacks EXCEPT ![callback_pos] = k]
      /\ callback_pos' = (callback_pos + 1) % HostSlots
      /\ toRadio' = Append(toRadio, e)
      /\ packet_ids' = packet_ids /\ packet_pos' = packet_pos /\ mac' = mac
      /\ toHost' = toHost /\ called' = called /\ spoiled' = spoiled
  BY DEF SendPacket, radioVars
<1>2. /\ HostSlots \in Nat \ {0} /\ MaxPackets \in Nat
      /\ sent \in 0..MaxPackets /\ posted \subseteq 1..sent
      /\ callback_pos \in 0..(HostSlots - 1)
      /\ toRadio \in Seq(Commands)
      /\ callbacks \in [HostSlot -> Pkt \cup {NoPacket}] /\ callback_pos \in HostSlot
  BY <1>0, SlotsAssumption, SessionsAssumption DEF TypeInv, HostSlot
<1>3. k \in Pkt /\ k \in 0..MaxPackets /\ \A p \in 1..sent : p < k /\ p \in 1..k
  BY <1>1, <1>2 DEF Pkt
<1>4. e \in Commands /\ e.pkt = k /\ e.sid = callback_pos
  BY <1>2, <1>3 DEF Commands, Ids
<1>5. /\ \A p \in 1..sent : Behind(p)' = Behind(p) + 1
      /\ \A p \in 1..sent : Later(p)' = Later(p) \cup {k}
      /\ \A p : Behind(p)' \in Nat
  BY <1>0, <1>1, OneMoreBehind
<1> HIDE DEF k, e
<1>6. /\ Append(toRadio, e) \in Seq(Commands)
      /\ Packets(Append(toRadio, e)) = Packets(toRadio) \cup {k}
      /\ InOrder(toRadio) /\ (\A p \in Packets(toRadio) : p < k)
           => InOrder(Append(toRadio, e))
      /\ \A i \in DOMAIN Append(toRadio, e) :
           Append(toRadio, e)[i] = e \/ \E j \in DOMAIN toRadio : Append(toRadio, e)[i] = toRadio[j]
  BY <1>2, <1>4, Appended
<1>7. TypeInv'
  <2>1. (callback_pos + 1) % HostSlots \in HostSlot
    BY <1>2, AgeFacts DEF HostSlot
  <2>2. [callbacks EXCEPT ![callback_pos] = k] \in [HostSlot -> Pkt \cup {NoPacket}]
    BY <1>2, <1>3
  <2>3. posted' \subseteq 1..sent'
    <3>1. k \in 1..k
      BY <1>3 DEF Pkt
    <3> QED BY <1>1, <1>2, <1>3, <3>1
  <2> QED BY <1>0, <1>1, <1>3, <1>6, <2>1, <2>2, <2>3 DEF TypeInv
<1>8. PlaceInv'
  <2>1. /\ Packets(toRadio) \subseteq posted /\ Packets(mac) \subseteq posted
        /\ Packets(toHost) \subseteq posted /\ Abouts \subseteq 1..sent
        /\ InOrder(toRadio)
    BY <1>0 DEF PlaceInv
  <2>2. \A p \in posted : p < k
    BY <1>2, <1>3
  <2>3. k \notin posted /\ k \notin 1..sent
    BY <1>2, <2>2 DEF k
  <2>4. /\ Packets(toRadio') = Packets(toRadio) \cup {k} /\ InOrder(toRadio')
    BY <1>1, <1>6, <2>1, <2>2
  <2>5. Packets(mac') = Packets(mac) /\ Packets(toHost') = Packets(toHost) /\ Abouts' = Abouts
    BY <1>1 DEF Abouts
  <2>6. /\ Packets(toRadio') \subseteq posted' /\ Packets(mac') \subseteq posted'
        /\ Packets(toHost') \subseteq posted' /\ Abouts' \subseteq 1..sent'
    BY <1>1, <1>3, <2>1, <2>4, <2>5
  <2>7. \A a \in Packets(mac'), m \in Packets(toRadio') : a < m
    BY <1>0, <2>1, <2>2, <2>4, <2>5 DEF PlaceInv
  <2>8. /\ Packets(toHost') \cap (Packets(mac') \cup Packets(toRadio')) = {}
        /\ Abouts' \cap (Packets(toHost') \cup Packets(mac') \cup Packets(toRadio')) = {}
    BY <1>0, <2>1, <2>3, <2>4, <2>5 DEF PlaceInv
  <2>9. Distinct(mac') /\ Distinct(toHost')
    BY <1>0, <1>1 DEF PlaceInv
  <2>10. \A i, j \in DOMAIN called' : called'[i].about = called'[j].about => i = j
    BY <1>0, <1>1 DEF PlaceInv
  <2> QED BY <2>4, <2>6, <2>7, <2>8, <2>9, <2>10 DEF PlaceInv
<1>9. ASSUME NEW s \in HostSlot, callbacks[s] # NoPacket
      PROVE  callbacks[s] \in 1..sent /\ Behind(callbacks[s]) >= Age(callback_pos, s, HostSlots)
  BY <1>0, <1>2, <1>9 DEF RingInv
<1>10. RingInv'
  <2>1. ASSUME NEW s \in HostSlot, callbacks'[s] # NoPacket
        PROVE  /\ callbacks'[s] \in posted'
               /\ Behind(callbacks[s])' >= Age(callback_pos', s, HostSlots)
    <3>1. CASE s = callback_pos
      <4>1. callbacks'[s] = k /\ Age(callback_pos', s, HostSlots) = 0
        BY <1>1, <1>2, <3>1, AgeFacts
      <4>2. PICK q : q = k
        OBVIOUS
      <4>3. Behind(q)' \in Nat
        BY <1>5
      <4>4. Behind(callbacks[s])' = Behind(q)'
        BY <4>1, <4>2 DEF Behind
      <4> QED BY <1>1, <4>1, <4>3, <4>4
    <3>2. CASE s # callback_pos
      <4>1. callbacks'[s] = callbacks[s]
        BY <1>1, <1>2, <3>2
      <4>2. /\ Age(callback_pos', s, HostSlots) = Age(callback_pos, s, HostSlots) + 1
            /\ Age(callback_pos, s, HostSlots) \in Nat
        BY <1>1, <1>2, <3>2, AgeFacts DEF HostSlot
      <4> DEFINE p == callbacks[s]
      <4>3. /\ p \in 1..sent /\ p \in posted /\ Behind(p) >= Age(callback_pos, s, HostSlots)
        BY <1>0, <1>9, <2>1, <4>1 DEF RingInv
      <4>4. PICK q \in 1..sent : q = p
        BY <4>3
      <4>5. Behind(q)' = Behind(q) + 1 /\ Behind(q) \in Int
        BY <1>0, <1>5, LaterFacts
      <4>6. Behind(q)' >= Age(callback_pos', s, HostSlots)
        BY <4>2, <4>3, <4>4, <4>5
      <4>7. Behind(callbacks[s])' = Behind(q)'
        BY <4>1, <4>4 DEF Behind
      <4> QED BY <1>1, <4>1, <4>3, <4>6, <4>7
    <3> QED BY <3>1, <3>2
  <2>2. ASSUME NEW i \in DOMAIN mac'
        PROVE  Cardinality(Passed(mac[i].pkt)') >= Age(packet_pos', mac'[i].slot, RadioSlots)
    <3> DEFINE p == mac[i].pkt
    <3>1. p \in 1..sent /\ p \in posted
      BY <1>0, <1>1, <1>2, <2>2 DEF PlaceInv, Packets
    <3>2. PICK q \in 1..sent : q = p
      BY <3>1
    <3>3. Passed(q)' = Passed(q)
      <4>1. Later(q)' = Later(q) \cup {k} /\ Packets(toRadio') = Packets(toRadio) \cup {k}
        BY <1>1, <1>5, <1>6
      <4>2. k \notin Later(q)
        BY <1>2, <1>3 DEF Later
      <4> QED BY <4>1, <4>2 DEF Passed
    <3>4. Cardinality(Passed(q)) >= Age(packet_pos, mac[i].slot, RadioSlots)
      BY <1>0, <1>1, <2>2, <3>2 DEF RingInv
    <3> QED BY <1>1, <3>2, <3>3, <3>4 DEF Passed, Later
  <2> QED BY <2>1, <2>2 DEF RingInv
<1>11. ASSUME NEW p \in 1..sent, NEW s, Timely(p) => Finds(s, p)
       PROVE  Timely(p)' => s \in HostSlot /\ callbacks'[s] = p
  <2> SUFFICES ASSUME Timely(p)' PROVE s \in HostSlot /\ callbacks'[s] = p
    OBVIOUS
  <2>1. Behind(p)' = Behind(p) + 1 /\ Behind(p) \in Int
    BY <1>0, <1>5, LaterFacts
  <2>2. Behind(p)' < HostSlots /\ Behind(p)' < RadioSlots /\ p \notin spoiled
    BY <1>1 DEF Timely
  <2>3. Timely(p)
    BY <1>2, <2>1, <2>2, SlotsAssumption DEF Timely
  <2>4. s \in HostSlot /\ callbacks[s] = p /\ p # NoPacket
    BY <1>2, <1>11, <2>3 DEF NoPacket, Finds
  <2>5. s # callback_pos
    <3>1. CASE s = callback_pos
      <4>1. Behind(p) >= HostSlots - 1
        BY <1>2, <1>9, <2>4, <3>1, AgeFacts
      <4> QED BY <1>2, <2>1, <2>2, <4>1
    <3> QED BY <3>1
  <2> QED BY <1>1, <1>2, <2>4, <2>5
<1>12. SessionInv'
  <2>1. ASSUME NEW i \in DOMAIN toRadio'
        PROVE  Timely(toRadio[i].pkt)' => Finds(toRadio[i].sid, toRadio[i].pkt)'
    <3>1. CASE toRadio'[i] = e
      BY <1>1, <1>2, <1>4, <3>1 DEF Finds
    <3>2. CASE \E j \in DOMAIN toRadio : toRadio'[i] = toRadio[j]
      <4>1. PICK j \in DOMAIN toRadio : toRadio'[i] = toRadio[j]
        BY <3>2
      <4>2. /\ toRadio[j].pkt \in 1..sent
            /\ Timely(toRadio[j].pkt) => Finds(toRadio[j].sid, toRadio[j].pkt)
        <5>1. toRadio[j] \in Commands
          BY <1>2, ElementOfSeq, LenProperties
        <5> QED BY <1>0, <1>2, <5>1 DEF SessionInv, PlaceInv, Packets, Commands
      <4>3. PICK p \in 1..sent : p = toRadio[j].pkt
        BY <4>2
      <4>4. PICK s : s = toRadio[j].sid
        OBVIOUS
      <4>5. Timely(p)' => s \in HostSlot /\ callbacks'[s] = p
        BY <1>11, <4>2, <4>3, <4>4
      <4> QED BY <4>1, <4>3, <4>4, <4>5 DEF Timely, Behind, Finds
    <3> QED BY <1>1, <1>6, <3>1, <3>2
  <2>2. ASSUME NEW i \in DOMAIN mac'
        PROVE  Timely(mac[i].pkt)' => Finds(packet_ids[mac[i].slot], mac[i].pkt)'
    <3>1. /\ mac[i].pkt \in 1..sent
          /\ Timely(mac[i].pkt) => Finds(packet_ids[mac[i].slot], mac[i].pkt)
      <4>1. mac[i] \in Frames /\ packet_ids \in [RadioSlot -> Ids]
        BY <1>0, <1>1, ElementOfSeq, LenProperties DEF TypeInv
      <4> QED BY <1>0, <1>1, <1>2, <4>1 DEF SessionInv, PlaceInv, Packets, Frames
    <3>2. PICK p \in 1..sent : p = mac[i].pkt
      BY <3>1
    <3>3. PICK s : s = packet_ids[mac[i].slot]
      OBVIOUS
    <3>4. Timely(p)' => s \in HostSlot /\ callbacks'[s] = p
      BY <1>11, <3>1, <3>2, <3>3
    <3> QED BY <1>1, <3>2, <3>3, <3>4 DEF Timely, Behind, Finds
  <2>3. ASSUME NEW i \in DOMAIN toHost'
        PROVE  Timely(toHost[i].pkt)' => Finds(toHost[i].sid, toHost[i].pkt)'
    <3>1. /\ toHost[i].pkt \in 1..sent
          /\ Timely(toHost[i].pkt) => Finds(toHost[i].sid, toHost[i].pkt)
      <4>1. toHost[i] \in Commands
        BY <1>0, <1>1, ElementOfSeq, LenProperties DEF TypeInv
      <4> QED BY <1>0, <1>1, <1>2, <4>1 DEF SessionInv, PlaceInv, Packets, Commands
    <3>2. PICK p \in 1..sent : p = toHost[i].pkt
      BY <3>1
    <3>3. PICK s : s = toHost[i].sid
      OBVIOUS
    <3>4. Timely(p)' => s \in HostSlot /\ callbacks'[s] = p
      BY <1>11, <3>1, <3>2, <3>3
    <3> QED BY <1>1, <3>2, <3>3, <3>4 DEF Timely, Behind, Finds
  <2>4. \A i \in DOMAIN called' :
          InTime(called'[i]) /\ called'[i].about \notin spoiled' =>
            called'[i].owner = called'[i].about
    BY <1>0, <1>1 DEF SessionInv, InTime
  <2> QED BY <2>1, <2>2, <2>3, <2>4 DEF SessionInv, InTime
<1> QED BY <1>7, <1>8, <1>10, <1>12 DEF SessionsInv

\* A callback is made for a packet that had none.
LEMMA CallMade ==
  ASSUME TypeInv, PlaceInv, SessionInv, NEW c \in Callbacks, spoiled \subseteq spoiled',
         called' = Append(called, c), c.about \notin Abouts,
         InTime(c) /\ c.about \notin spoiled => c.owner = c.about
  PROVE  /\ called' \in Seq(Callbacks)
         /\ Abouts' = Abouts \cup {c.about}
         /\ \A i, j \in DOMAIN called' : called'[i].about = called'[j].about => i = j
         /\ \A i \in DOMAIN called' :
              InTime(called'[i]) /\ called'[i].about \notin spoiled' =>
             called'[i].owner = called'[i].about
<1> DEFINE n == Len(called)
           t == Append(called, c)
<1>1. /\ n \in Nat /\ DOMAIN called = 1..n
      /\ t \in Seq(Callbacks) /\ DOMAIN t = 1..(n + 1)
      /\ \A i \in 1..n : t[i] = called[i]
      /\ t[n + 1] = c
  BY AppendProperties, LenProperties DEF TypeInv
<1>2. called' = t
  OBVIOUS
<1> HIDE DEF t, n
<1>3. /\ \A i \in DOMAIN t : (i \in DOMAIN called /\ t[i] = called[i]) \/ (i = n + 1 /\ t[i] = c)
      /\ \A i \in DOMAIN called : i \in DOMAIN t /\ t[i] = called[i]
      /\ n + 1 \in DOMAIN t
  BY <1>1
<1>4. {t[i].about : i \in DOMAIN t} = Abouts \cup {c.about}
  BY <1>1, <1>3 DEF Abouts
<1>5. \A i, j \in DOMAIN t : t[i].about = t[j].about => i = j
  BY <1>3 DEF PlaceInv, Abouts
<1>6. \A i \in DOMAIN t : InTime(t[i]) /\ t[i].about \notin spoiled' => t[i].owner = t[i].about
  <2> SUFFICES ASSUME NEW i \in DOMAIN t, InTime(t[i]), t[i].about \notin spoiled'
               PROVE  t[i].owner = t[i].about
    OBVIOUS
  <2>1. CASE i \in DOMAIN called /\ t[i] = called[i]
    BY <2>1 DEF SessionInv
  <2>2. CASE t[i] = c
    BY <2>2
  <2> QED BY <1>3, <2>1, <2>2
<1>7. Abouts' = {t[i].about : i \in DOMAIN t}
  BY <1>2 DEF Abouts
<1> QED BY <1>1, <1>2, <1>4, <1>5, <1>6, <1>7

LEMMA SendFailsKeeps ==
  ASSUME SessionsInv, SendFails
  PROVE  SessionsInv'
<1> DEFINE k == sent + 1
           c == [owner |-> k, about |-> k, behind |-> 0]
<1>0. TypeInv /\ PlaceInv /\ RingInv /\ SessionInv
  BY DEF SessionsInv
<1>1. /\ sent < MaxPackets /\ sent' = k /\ called' = Append(called, c)
      /\ UNCHANGED <<callbacks, callback_pos, posted, packet_ids, packet_pos, mac,
                     toRadio, toHost, spoiled>>
  BY DEF SendFails, radioVars
<1>2. MaxPackets \in Nat /\ sent \in 0..MaxPackets /\ posted \subseteq 1..sent
  BY <1>0, SessionsAssumption DEF TypeInv
<1>3. k \in Pkt /\ k \in 0..MaxPackets /\ k \in 1..k /\ \A p \in 1..sent : p < k /\ p \in 1..k
  BY <1>1, <1>2 DEF Pkt
<1>4. c \in Callbacks /\ c.about = k /\ c.owner = k
  BY <1>2, <1>3 DEF Callbacks
<1> HIDE DEF k, c
<1>5. k \notin 1..sent
  BY <1>2 DEF k
<1>6. Abouts \subseteq 1..sent /\ k \notin Abouts
  BY <1>0, <1>5 DEF PlaceInv
<1>7. /\ called' \in Seq(Callbacks)
      /\ Abouts' = Abouts \cup {k}
      /\ \A i, j \in DOMAIN called' : called'[i].about = called'[j].about => i = j
      /\ \A i \in DOMAIN called' :
          InTime(called'[i]) /\ called'[i].about \notin spoiled' =>
            called'[i].owner = called'[i].about
  BY <1>0, <1>1, <1>4, <1>6, CallMade
<1>8. TypeInv'
  <2>1. posted' \subseteq 1..sent'
    BY <1>1, <1>2, <1>3
  <2> QED BY <1>0, <1>1, <1>3, <1>7, <2>1 DEF TypeInv
<1>9. PlaceInv'
  <2>1. /\ Packets(toRadio) \subseteq posted /\ Packets(mac) \subseteq posted
        /\ Packets(toHost) \subseteq posted
        /\ Abouts \cap (Packets(toHost) \cup Packets(mac) \cup Packets(toRadio)) = {}
    BY <1>0 DEF PlaceInv
  <2>2. Abouts' \subseteq 1..sent'
    BY <1>1, <1>3, <1>6, <1>7
  <2>3. Abouts' \cap (Packets(toHost) \cup Packets(mac) \cup Packets(toRadio)) = {}
    BY <1>2, <1>5, <1>7, <2>1
  <2>4. /\ Packets(toRadio') = Packets(toRadio) /\ Packets(mac') = Packets(mac)
        /\ Packets(toHost') = Packets(toHost)
        /\ InOrder(toRadio') = InOrder(toRadio) /\ Distinct(mac') = Distinct(mac)
        /\ Distinct(toHost') = Distinct(toHost)
    BY <1>1
  <2> QED BY <1>0, <1>1, <1>7, <2>2, <2>3, <2>4 DEF PlaceInv
<1>10. RingInv'
  BY <1>0, <1>1 DEF RingInv, Behind, Passed, Later
<1>11. SessionInv'
  BY <1>0, <1>1, <1>7 DEF SessionInv, Timely, Behind, Finds, InTime
<1> QED BY <1>8, <1>9, <1>10, <1>11 DEF SessionsInv

\* A packet that leaves the line for good, and the slot it left behind in the
\* radio's ring: the next slot to be taken, so that no packet that is still
\* early enough depends on it.
LEMMA LeavesForGood ==
  ASSUME SessionsInv, toRadio # <<>>, toRadio' = Tail(toRadio), spoiled \subseteq spoiled',
         UNCHANGED <<callbacks, callback_pos, sent, posted, called, packet_pos, mac, toHost>>,
         packet_ids' = packet_ids
           \/ packet_ids' = [packet_ids EXCEPT ![packet_pos] = Head(toRadio).sid]
  PROVE  /\ SessionsInv'
         /\ Head(toRadio) \in Commands /\ Head(toRadio).pkt \in posted
<1> DEFINE h == Head(toRadio)
           m == h.pkt
<1>0. TypeInv /\ PlaceInv /\ RingInv /\ SessionInv
  BY DEF SessionsInv
<1>1. /\ toRadio \in Seq(Commands) /\ posted \subseteq 1..sent
      /\ Packets(toRadio) \subseteq posted /\ InOrder(toRadio)
      /\ RadioSlots \in Nat \ {0} /\ packet_pos \in 0..(RadioSlots - 1)
      /\ packet_ids \in [RadioSlot -> Ids] /\ packet_pos \in RadioSlot
      /\ mac \in Seq(Frames)
  BY <1>0, SlotsAssumption DEF TypeInv, PlaceInv, RadioSlot
<1>2. /\ h \in Commands /\ Tail(toRadio) \in Seq(Commands)
      /\ Packets(toRadio) = Packets(Tail(toRadio)) \cup {m}
      /\ InOrder(Tail(toRadio))
      /\ \A i \in DOMAIN Tail(toRadio) : \E j \in DOMAIN toRadio : Tail(toRadio)[i] = toRadio[j]
  BY <1>1, Popped
<1>3. m \in posted
  BY <1>1, <1>2
<1>4. /\ \A p \in posted :
           Cardinality(Passed(p)') \in Nat /\ Cardinality(Passed(p)') >= Cardinality(Passed(p))
      /\ \A p \in posted : p < m => Behind(p) >= Cardinality(Passed(p)) + 1
  BY <1>0, LeavesLine
<1> HIDE DEF h, m
<1>5. TypeInv'
  <2>1. packet_ids' \in [RadioSlot -> Ids]
    BY <1>1, <1>2 DEF h, Commands
  <2> QED BY <1>0, <1>2, <2>1 DEF TypeInv
<1>6. PlaceInv'
  <2>1. Packets(toRadio') \subseteq Packets(toRadio) /\ InOrder(toRadio')
    BY <1>2
  <2>2. Abouts' = Abouts
    BY DEF Abouts
  <2>3. Packets(mac') = Packets(mac) /\ Packets(toHost') = Packets(toHost)
    OBVIOUS
  <2>4. /\ Packets(toRadio') \subseteq posted'
        /\ \A a \in Packets(mac'), b \in Packets(toRadio') : a < b
        /\ Packets(toHost') \cap (Packets(mac') \cup Packets(toRadio')) = {}
        /\ Abouts' \cap (Packets(toHost') \cup Packets(mac') \cup Packets(toRadio')) = {}
    BY <1>0, <2>1, <2>2, <2>3 DEF PlaceInv
  <2> QED BY <1>0, <2>1, <2>2, <2>4 DEF PlaceInv
<1>7. RingInv'
  <2>1. \A s \in HostSlot :
          callbacks'[s] # NoPacket =>
            /\ callbacks'[s] \in posted'
            /\ Behind(callbacks[s])' >= Age(callback_pos', s, HostSlots)
    BY <1>0 DEF RingInv, Behind
  <2>2. ASSUME NEW i \in DOMAIN mac'
        PROVE  Cardinality(Passed(mac[i].pkt)') >= Age(packet_pos', mac'[i].slot, RadioSlots)
    <3>1. mac[i].pkt \in posted /\ mac[i] \in Frames
      BY <1>0, <1>1, <2>2, ElementOfSeq, LenProperties DEF PlaceInv, Packets
    <3>2. PICK p \in posted : p = mac[i].pkt
      BY <3>1
    <3>3. Cardinality(Passed(p)) >= Age(packet_pos, mac[i].slot, RadioSlots)
      BY <1>0, <2>2, <3>2 DEF RingInv
    <3>4. Cardinality(Passed(p)') >= Age(packet_pos, mac[i].slot, RadioSlots)
      <4>1. Age(packet_pos, mac[i].slot, RadioSlots) \in Nat
        BY <1>1, <3>1, AgeFacts DEF Frames, RadioSlot
      <4>2. Cardinality(Passed(p)) \in Nat
        BY <1>0, LaterFacts DEF Passed
      <4>3. Cardinality(Passed(p)') \in Nat /\ Cardinality(Passed(p)') >= Cardinality(Passed(p))
        BY <1>4
      <4> QED BY <3>3, <4>1, <4>2, <4>3
    <3>5. Passed(mac[i].pkt)' = Passed(p)'
      BY <3>2 DEF Passed, Later
    <3> QED BY <3>4, <3>5
  <2> QED BY <2>1, <2>2 DEF RingInv
<1>8. SessionInv'
  <2>1. \A i \in DOMAIN toRadio' :
          Timely(toRadio[i].pkt)' => Finds(toRadio[i].sid, toRadio[i].pkt)'
    BY <1>0, <1>2 DEF SessionInv, Timely, Behind, Finds
  <2>2. ASSUME NEW i \in DOMAIN mac'
        PROVE  Timely(mac[i].pkt)' => Finds(packet_ids[mac[i].slot], mac[i].pkt)'
    <3>1. mac[i].pkt \in posted /\ mac[i] \in Frames
      BY <1>0, <1>1, <2>2, ElementOfSeq, LenProperties DEF PlaceInv, Packets
    <3>2. mac[i].pkt < m
      BY <1>0, <1>2, <2>2 DEF PlaceInv, Packets
    <3>3. Timely(mac[i].pkt)' => Timely(mac[i].pkt)
      BY DEF Timely, Behind
    <3>4. CASE mac[i].slot # packet_pos \/ packet_ids' = packet_ids
      <4>1. packet_ids'[mac'[i].slot] = packet_ids[mac[i].slot]
        BY <1>1, <3>1, <3>4 DEF Frames
      <4>2. Timely(mac[i].pkt) => Finds(packet_ids[mac[i].slot], mac[i].pkt)
        BY <1>0, <2>2 DEF SessionInv
      <4> QED BY <3>3, <4>1, <4>2 DEF Finds
    <3>5. CASE mac[i].slot = packet_pos
      <4>1. Cardinality(Passed(mac[i].pkt)) >= RadioSlots - 1
        BY <1>0, <1>1, <2>2, <3>5, AgeFacts DEF RingInv
      <4>2. Behind(mac[i].pkt) >= Cardinality(Passed(mac[i].pkt)) + 1
        BY <1>4, <3>1, <3>2
      <4>3. Behind(mac[i].pkt) \in Int /\ Cardinality(Passed(mac[i].pkt)) \in Nat
        BY <1>0, LaterFacts DEF Passed
      <4>4. ~Timely(mac[i].pkt)
        BY <1>1, <4>1, <4>2, <4>3 DEF Timely
      <4> QED BY <3>3, <4>4
    <3> QED BY <3>4, <3>5
  <2>3. \A i \in DOMAIN toHost' :
          Timely(toHost[i].pkt)' => Finds(toHost[i].sid, toHost[i].pkt)'
    BY <1>0 DEF SessionInv, Timely, Behind, Finds
  <2>4. \A i \in DOMAIN called' :
          InTime(called'[i]) /\ called'[i].about \notin spoiled' =>
            called'[i].owner = called'[i].about
    BY <1>0 DEF SessionInv, InTime
  <2> QED BY <2>1, <2>2, <2>3, <2>4 DEF SessionInv, InTime
<1> QED BY <1>2, <1>3, <1>5, <1>6, <1>7, <1>8 DEF SessionsInv, h, m

LEMMA RadioSendsKeeps ==
  ASSUME SessionsInv, RadioSends
  PROVE  SessionsInv'
<1> DEFINE h == Head(toRadio)
           m == h.pkt
           f == [slot |-> packet_pos, pkt |-> m]
<1>0. TypeInv /\ PlaceInv /\ RingInv /\ SessionInv
  BY DEF SessionsInv
<1>1. /\ toRadio # <<>> /\ toRadio' = Tail(toRadio)
      /\ packet_ids' = [packet_ids EXCEPT ![packet_pos] = h.sid]
      /\ mac' = Append(mac, f)
      /\ packet_pos' = (packet_pos + 1) % RadioSlots
      /\ UNCHANGED <<callbacks, callback_pos, sent, posted, called, toHost, spoiled>>
  BY DEF RadioSends, hostVars
<1>2. /\ toRadio \in Seq(Commands) /\ posted \subseteq 1..sent
      /\ Packets(toRadio) \subseteq posted /\ InOrder(toRadio)
      /\ RadioSlots \in Nat \ {0} /\ packet_pos \in 0..(RadioSlots - 1)
      /\ packet_ids \in [RadioSlot -> Ids] /\ packet_pos \in RadioSlot
      /\ mac \in Seq(Frames) /\ sent \in Nat
  BY <1>0, SlotsAssumption, SessionsAssumption DEF TypeInv, PlaceInv, RadioSlot
<1>3. /\ h \in Commands /\ Tail(toRadio) \in Seq(Commands)
      /\ Packets(toRadio) = Packets(Tail(toRadio)) \cup {m}
      /\ InOrder(Tail(toRadio)) /\ \A k \in Packets(Tail(toRadio)) : m < k
      /\ \E j \in DOMAIN toRadio : h = toRadio[j]
      /\ \A i \in DOMAIN Tail(toRadio) : \E j \in DOMAIN toRadio : Tail(toRadio)[i] = toRadio[j]
  BY <1>1, <1>2, Popped
<1>4. /\ \A p \in posted :
           Cardinality(Passed(p)') \in Nat /\ Cardinality(Passed(p)') >= Cardinality(Passed(p))
      /\ \A p \in posted :
           p < m => /\ Cardinality(Passed(p)') = Cardinality(Passed(p)) + 1
                    /\ Behind(p) >= Cardinality(Passed(p)) + 1
  BY <1>0, <1>1, LeavesLine
<1>5. m \in posted /\ m \in Pkt /\ h.sid \in Ids /\ f \in Frames
  BY <1>2, <1>3 DEF Commands, Frames
<1>6. f.pkt = m /\ f.slot = packet_pos
  OBVIOUS
<1> HIDE DEF h, m, f
<1>7. ~(m < m) /\ m \notin Packets(Tail(toRadio)) /\ \A k \in Packets(mac) : k < m /\ k # m
  <2>1. ~(m < m)
    BY <1>2, <1>5
  <2>2. \A k \in Packets(mac) : k < m
    BY <1>0, <1>3 DEF PlaceInv
  <2> QED BY <1>3, <2>1, <2>2
<1>8. /\ mac' \in Seq(Frames)
      /\ Packets(mac') = Packets(mac) \cup {m}
      /\ Distinct(mac')
      /\ \A i \in DOMAIN mac' : mac'[i] = f \/ \E j \in DOMAIN mac : mac'[i] = mac[j]
  <2> DEFINE t == Append(mac, f)
  <2>1. /\ t \in Seq(Frames)
        /\ Packets(t) = Packets(mac) \cup {m}
        /\ Distinct(mac) /\ m \notin Packets(mac) => Distinct(t)
        /\ \A i \in DOMAIN t : t[i] = f \/ \E j \in DOMAIN mac : t[i] = mac[j]
    BY <1>2, <1>5, <1>6, Appended
  <2> HIDE DEF t
  <2>2. mac' = t
    BY <1>1 DEF t
  <2>3. Distinct(mac) /\ m \notin Packets(mac)
    BY <1>0, <1>7 DEF PlaceInv
  <2> QED BY <2>1, <2>2, <2>3
<1>9. TypeInv'
  <2>1. packet_ids' \in [RadioSlot -> Ids]
    BY <1>1, <1>2, <1>5
  <2>2. packet_pos' \in RadioSlot
    BY <1>1, <1>2, AgeFacts DEF RadioSlot
  <2> QED BY <1>0, <1>1, <1>3, <1>8, <2>1, <2>2 DEF TypeInv
<1>10. PlaceInv'
  <2>1. Packets(toRadio') = Packets(Tail(toRadio)) /\ InOrder(toRadio')
    BY <1>1, <1>3
  <2>2. Abouts' = Abouts /\ Packets(toHost') = Packets(toHost)
    BY <1>1 DEF Abouts
  <2>3. /\ Packets(toRadio') \subseteq posted' /\ Packets(mac') \subseteq posted'
        /\ Packets(toHost') \subseteq posted'
    BY <1>0, <1>1, <1>3, <1>5, <1>8, <2>1, <2>2 DEF PlaceInv
  <2>4. \A a \in Packets(mac'), b \in Packets(toRadio') : a < b
    BY <1>0, <1>3, <1>8, <2>1 DEF PlaceInv
  <2>5. /\ Packets(toHost') \cap (Packets(mac') \cup Packets(toRadio')) = {}
        /\ Abouts' \cap (Packets(toHost') \cup Packets(mac') \cup Packets(toRadio')) = {}
    BY <1>0, <1>3, <1>8, <2>1, <2>2 DEF PlaceInv
  <2>6. /\ Distinct(toHost') /\ Abouts' \subseteq 1..sent'
        /\ \A i, j \in DOMAIN called' : called'[i].about = called'[j].about => i = j
    BY <1>0, <1>1, <2>2 DEF PlaceInv
  <2> QED BY <1>8, <2>1, <2>3, <2>4, <2>5, <2>6 DEF PlaceInv
\* What holds of a packet already with the radio, by the slot it has.
<1>11. ASSUME NEW j \in DOMAIN mac
       PROVE  /\ mac[j] \in Frames /\ mac[j].pkt \in posted /\ mac[j].pkt < m
              /\ Cardinality(Passed(mac[j].pkt)) \in Nat
              /\ Cardinality(Passed(mac[j].pkt)) >= Age(packet_pos, mac[j].slot, RadioSlots)
              /\ Behind(mac[j].pkt) \in Int
  <2>1. mac[j] \in Frames /\ mac[j].pkt \in Packets(mac)
    BY <1>2, ElementOfSeq, LenProperties DEF Packets
  <2> QED BY <1>0, <1>7, <2>1, LaterFacts DEF PlaceInv, RingInv, Passed
<1>12. RingInv'
  <2>1. \A s \in HostSlot :
          callbacks'[s] # NoPacket =>
            /\ callbacks'[s] \in posted'
            /\ Behind(callbacks[s])' >= Age(callback_pos', s, HostSlots)
    BY <1>0, <1>1 DEF RingInv, Behind
  <2>2. ASSUME NEW i \in DOMAIN mac'
        PROVE  Cardinality(Passed(mac[i].pkt)') >= Age(packet_pos', mac'[i].slot, RadioSlots)
    <3>1. PICK p : p = mac'[i].pkt
      OBVIOUS
    <3>2. Passed(mac[i].pkt)' = Passed(p)'
      BY <3>1 DEF Passed, Later
    <3>3. CASE mac'[i] = f
      <4>1. Age(packet_pos', mac'[i].slot, RadioSlots) = 0
        BY <1>1, <1>2, <1>6, <3>3, AgeFacts
      <4>2. p = m
        BY <1>6, <3>1, <3>3
      <4>3. Cardinality(Passed(p)') \in Nat
        BY <1>4, <1>5, <4>2
      <4> QED BY <3>2, <4>1, <4>3
    <3>4. CASE \E j \in DOMAIN mac : mac'[i] = mac[j]
      <4>1. PICK j \in DOMAIN mac : mac'[i] = mac[j]
        BY <3>4
      <4>2. p \in posted /\ p < m /\ p = mac[j].pkt
        BY <1>11, <3>1, <4>1
      <4>3. Cardinality(Passed(p)') = Cardinality(Passed(p)) + 1
        BY <1>4, <4>2
      <4>4. mac[j].slot \in 0..(RadioSlots - 1)
        BY <1>11 DEF Frames, RadioSlot
      <4>5. \/ mac[j].slot = packet_pos /\ Age(packet_pos', mac[j].slot, RadioSlots) = 0
            \/ Age(packet_pos', mac[j].slot, RadioSlots) = Age(packet_pos, mac[j].slot, RadioSlots) + 1
        BY <1>1, <1>2, <4>4, AgeFacts
      <4>6. Age(packet_pos, mac[j].slot, RadioSlots) \in Nat
        BY <1>2, <4>4, AgeFacts
      <4>7. Cardinality(Passed(p)) \in Nat
            /\ Cardinality(Passed(p)) >= Age(packet_pos, mac[j].slot, RadioSlots)
        BY <1>11, <4>2
      <4>8. Cardinality(Passed(p)') >= Age(packet_pos', mac[j].slot, RadioSlots)
        BY <4>3, <4>5, <4>6, <4>7
      <4> QED BY <3>2, <4>1, <4>8
    <3> QED BY <1>8, <3>3, <3>4
  <2> QED BY <2>1, <2>2 DEF RingInv
<1>13. SessionInv'
  <2>1. \A i \in DOMAIN toRadio' :
          Timely(toRadio[i].pkt)' => Finds(toRadio[i].sid, toRadio[i].pkt)'
    BY <1>0, <1>1, <1>3 DEF SessionInv, Timely, Behind, Finds
  <2>2. ASSUME NEW i \in DOMAIN mac'
        PROVE  Timely(mac[i].pkt)' => Finds(packet_ids[mac[i].slot], mac[i].pkt)'
    <3>1. PICK p : p = mac'[i].pkt
      OBVIOUS
    <3>2. Timely(mac[i].pkt)' = Timely(p)
      BY <1>1, <3>1 DEF Timely, Behind
    <3>3. CASE mac'[i] = f
      <4>1. packet_ids'[mac'[i].slot] = h.sid /\ p = m
        BY <1>1, <1>2, <1>6, <3>1, <3>3
      <4>2. Timely(m) => Finds(h.sid, m)
        BY <1>0, <1>3 DEF SessionInv, m
      <4> QED BY <1>1, <3>1, <3>2, <4>1, <4>2 DEF Finds
    <3>4. CASE \E j \in DOMAIN mac : mac'[i] = mac[j]
      <4>1. PICK j \in DOMAIN mac : mac'[i] = mac[j]
        BY <3>4
      <4>2. p = mac[j].pkt
        BY <3>1, <4>1
      <4>3. CASE mac[j].slot # packet_pos
        <5>1. packet_ids'[mac'[i].slot] = packet_ids[mac[j].slot]
          BY <1>1, <1>2, <1>11, <4>1, <4>3 DEF Frames
        <5>2. Timely(p) => Finds(packet_ids[mac[j].slot], p)
          BY <1>0, <4>2 DEF SessionInv
        <5> QED BY <1>1, <3>1, <3>2, <5>1, <5>2 DEF Finds
      <4>4. CASE mac[j].slot = packet_pos
        <5>1. Cardinality(Passed(p)) >= RadioSlots - 1
          BY <1>2, <1>11, <4>2, <4>4, AgeFacts
        <5>2. Behind(p) >= Cardinality(Passed(p)) + 1 /\ Behind(p) \in Int
              /\ Cardinality(Passed(p)) \in Nat
          BY <1>4, <1>11, <4>2
        <5>3. ~Timely(p)
          BY <1>2, <5>1, <5>2 DEF Timely
        <5> QED BY <3>2, <5>3
      <4> QED BY <4>3, <4>4
    <3> QED BY <1>8, <3>3, <3>4
  <2>3. \A i \in DOMAIN toHost' :
          Timely(toHost[i].pkt)' => Finds(toHost[i].sid, toHost[i].pkt)'
    BY <1>0, <1>1 DEF SessionInv, Timely, Behind, Finds
  <2>4. \A i \in DOMAIN called' :
          InTime(called'[i]) /\ called'[i].about \notin spoiled' =>
            called'[i].owner = called'[i].about
    BY <1>0, <1>1 DEF SessionInv, InTime
  <2> QED BY <2>1, <2>2, <2>3, <2>4 DEF SessionInv, InTime
<1> QED BY <1>9, <1>10, <1>12, <1>13 DEF SessionsInv

LEMMA MacDoneKeeps ==
  ASSUME SessionsInv, NEW i, MacDone(i)
  PROVE  SessionsInv'
<1> DEFINE f == mac[i]
           r == [sid |-> packet_ids[f.slot], pkt |-> f.pkt]
           rest == RemoveAt(mac, i)
           t == Append(toHost, r)
<1>0. TypeInv /\ PlaceInv /\ RingInv /\ SessionInv
  BY DEF SessionsInv
<1>1. /\ i \in DOMAIN mac
      /\ mac' = rest /\ toHost' = t
      /\ UNCHANGED <<callbacks, callback_pos, sent, posted, called, packet_ids, packet_pos,
                     toRadio, spoiled>>
  BY DEF MacDone, hostVars
<1>2. /\ mac \in Seq(Frames) /\ toHost \in Seq(Commands) /\ packet_ids \in [RadioSlot -> Ids]
      /\ Distinct(mac) /\ Distinct(toHost)
      /\ Packets(toHost) \cap (Packets(mac) \cup Packets(toRadio)) = {}
  BY <1>0 DEF TypeInv, PlaceInv
<1>3. f \in Frames /\ f.pkt \in Packets(mac)
  BY <1>1, <1>2, ElementOfSeq, LenProperties DEF Packets
<1>4. r \in Commands /\ r.pkt = f.pkt /\ r.sid = packet_ids[f.slot]
  BY <1>2, <1>3 DEF Commands, Frames
<1>5. /\ rest \in Seq(Frames) /\ Distinct(rest)
      /\ Packets(rest) = Packets(mac) \ {f.pkt}
      /\ \A k \in DOMAIN rest : \E j \in DOMAIN mac : rest[k] = mac[j]
  BY <1>1, <1>2, Removed
<1> HIDE DEF r
<1>6. /\ t \in Seq(Commands)
      /\ Packets(t) = Packets(toHost) \cup {f.pkt}
      /\ Distinct(toHost) /\ f.pkt \notin Packets(toHost) => Distinct(t)
      /\ \A k \in DOMAIN t : t[k] = r \/ \E j \in DOMAIN toHost : t[k] = toHost[j]
  BY <1>2, <1>4, Appended
<1> HIDE DEF f, rest, t
<1>7. f.pkt \notin Packets(toHost) /\ f.pkt \notin Packets(toRadio)
      /\ f.pkt \notin Abouts
  <2>1. \A m \in Packets(toRadio) : f.pkt < m
    BY <1>0, <1>3 DEF PlaceInv
  <2>2. f.pkt \in Int /\ ~(f.pkt < f.pkt)
    BY <1>3 DEF Frames, Pkt
  <2> QED BY <1>0, <1>3, <2>1, <2>2 DEF PlaceInv
<1>8. TypeInv'
  BY <1>0, <1>1, <1>5, <1>6 DEF TypeInv
<1>9. PlaceInv'
  <2>1. /\ Packets(mac') = Packets(mac) \ {f.pkt} /\ Distinct(mac')
        /\ Packets(toHost') = Packets(toHost) \cup {f.pkt} /\ Distinct(toHost')
        /\ Packets(toRadio') = Packets(toRadio) /\ InOrder(toRadio') = InOrder(toRadio)
    BY <1>1, <1>2, <1>5, <1>6, <1>7
  <2>2. Abouts' = Abouts
    BY <1>1 DEF Abouts
  <2>3. /\ Packets(mac') \subseteq posted' /\ Packets(toHost') \subseteq posted'
        /\ Packets(toRadio') \subseteq posted' /\ Abouts' \subseteq 1..sent'
        /\ \A a \in Packets(mac'), b \in Packets(toRadio') : a < b
    BY <1>0, <1>1, <1>3, <2>1, <2>2 DEF PlaceInv
  <2>4. /\ Packets(toHost') \cap (Packets(mac') \cup Packets(toRadio')) = {}
        /\ Abouts' \cap (Packets(toHost') \cup Packets(mac') \cup Packets(toRadio')) = {}
    BY <1>0, <1>7, <2>1, <2>2 DEF PlaceInv
  <2>5. \A k, j \in DOMAIN called' : called'[k].about = called'[j].about => k = j
    BY <1>0, <1>1 DEF PlaceInv
  <2>6. InOrder(toRadio')
    BY <1>0, <2>1 DEF PlaceInv
  <2> QED BY <2>1, <2>3, <2>4, <2>5, <2>6 DEF PlaceInv
<1>10. RingInv'
  <2>1. \A s \in HostSlot :
          callbacks'[s] # NoPacket =>
            /\ callbacks'[s] \in posted'
            /\ Behind(callbacks[s])' >= Age(callback_pos', s, HostSlots)
    BY <1>0, <1>1 DEF RingInv, Behind
  <2>2. ASSUME NEW k \in DOMAIN mac'
        PROVE  Cardinality(Passed(mac[k].pkt)') >= Age(packet_pos', mac'[k].slot, RadioSlots)
    <3>1. PICK j \in DOMAIN mac : mac'[k] = mac[j]
      BY <1>1, <1>5
    <3>2. Passed(mac[k].pkt)' = Passed(mac[j].pkt)
      BY <1>1, <3>1 DEF Passed, Later
    <3> QED BY <1>0, <1>1, <3>1, <3>2 DEF RingInv
  <2> QED BY <2>1, <2>2 DEF RingInv
<1>11. SessionInv'
  <2>1. \A k \in DOMAIN toRadio' :
          Timely(toRadio[k].pkt)' => Finds(toRadio[k].sid, toRadio[k].pkt)'
    BY <1>0, <1>1 DEF SessionInv, Timely, Behind, Finds
  <2>2. ASSUME NEW k \in DOMAIN mac'
        PROVE  Timely(mac[k].pkt)' => Finds(packet_ids[mac[k].slot], mac[k].pkt)'
    <3>1. PICK j \in DOMAIN mac : mac'[k] = mac[j]
      BY <1>1, <1>5
    <3>2. Timely(mac[k].pkt)' = Timely(mac[j].pkt)
      BY <1>1, <3>1 DEF Timely, Behind
    <3> QED BY <1>0, <1>1, <3>1, <3>2 DEF SessionInv, Finds
  <2>3. ASSUME NEW k \in DOMAIN toHost'
        PROVE  Timely(toHost[k].pkt)' => Finds(toHost[k].sid, toHost[k].pkt)'
    <3>1. CASE toHost'[k] = r
      <4>1. Timely(toHost[k].pkt)' = Timely(f.pkt)
        BY <1>1, <1>4, <3>1 DEF Timely, Behind
      <4>2. Timely(f.pkt) => Finds(packet_ids[f.slot], f.pkt)
        BY <1>0, <1>1 DEF SessionInv, f
      <4> QED BY <1>1, <1>4, <3>1, <4>1, <4>2 DEF Finds
    <3>2. CASE \E j \in DOMAIN toHost : toHost'[k] = toHost[j]
      <4>1. PICK j \in DOMAIN toHost : toHost'[k] = toHost[j]
        BY <3>2
      <4>2. Timely(toHost[k].pkt)' = Timely(toHost[j].pkt)
        BY <1>1, <4>1 DEF Timely, Behind
      <4> QED BY <1>0, <1>1, <4>1, <4>2 DEF SessionInv, Finds
    <3> QED BY <1>1, <1>6, <3>1, <3>2
  <2>4. \A k \in DOMAIN called' :
          InTime(called'[k]) /\ called'[k].about \notin spoiled' =>
            called'[k].owner = called'[k].about
    BY <1>0, <1>1 DEF SessionInv, InTime
  <2> QED BY <2>1, <2>2, <2>3, <2>4 DEF SessionInv, InTime
<1> QED BY <1>8, <1>9, <1>10, <1>11 DEF SessionsInv

\* A report leaves the line, with its callback or without one.
LEMMA ReportLeaves ==
  ASSUME SessionsInv, toHost # <<>>, toHost' = Tail(toHost), spoiled \subseteq spoiled',
         UNCHANGED <<callbacks, callback_pos, sent, posted, packet_ids, packet_pos, mac,
                     toRadio>>,
         \/ called' = called
         \/ /\ Head(toHost).sid \in HostSlot
            /\ called' = Append(called, [owner |-> callbacks[Head(toHost).sid],
                                         about |-> Head(toHost).pkt,
                                         behind |-> Behind(Head(toHost).pkt)])
  PROVE  SessionsInv' /\ Head(toHost).pkt \in posted
<1> DEFINE r == Head(toHost)
           m == r.pkt
           c == [owner |-> callbacks[r.sid], about |-> m, behind |-> Behind(m)]
<1>0. TypeInv /\ PlaceInv /\ RingInv /\ SessionInv
  BY DEF SessionsInv
<1>1. /\ toHost \in Seq(Commands) /\ Packets(toHost) \subseteq posted /\ Distinct(toHost)
      /\ callbacks \in [HostSlot -> Pkt \cup {NoPacket}]
  BY <1>0 DEF TypeInv, PlaceInv
<1>2. /\ r \in Commands /\ Tail(toHost) \in Seq(Commands)
      /\ Packets(toHost) = Packets(Tail(toHost)) \cup {m}
      /\ Distinct(Tail(toHost)) /\ m \notin Packets(Tail(toHost))
      /\ \E j \in DOMAIN toHost : r = toHost[j]
      /\ \A i \in DOMAIN Tail(toHost) : \E j \in DOMAIN toHost : Tail(toHost)[i] = toHost[j]
  BY <1>1, Popped
<1>3. m \in posted /\ m \in Packets(toHost) /\ m \in Pkt
  BY <1>1, <1>2 DEF Commands
<1>4. Timely(m) => Finds(r.sid, m)
  BY <1>0, <1>2 DEF SessionInv
<1>5. /\ c.about = m /\ c.owner = callbacks[r.sid]
      /\ r.sid \in HostSlot => c \in Callbacks
      /\ InTime(c) /\ c.about \notin spoiled => c.owner = c.about
  <2>1. Behind(m) \in 0..MaxPackets
    BY <1>0, LaterFacts
  <2>2. r.sid \in HostSlot => c \in Callbacks
    BY <1>1, <1>3, <2>1 DEF Callbacks
  <2>3. InTime(c) /\ c.about \notin spoiled => Timely(m)
    BY DEF InTime, Timely
  <2> QED BY <1>4, <2>2, <2>3 DEF Finds
<1>6. m \notin Abouts
  BY <1>0, <1>3 DEF PlaceInv
<1> HIDE DEF m
<1>7. /\ called' \in Seq(Callbacks)
      /\ Abouts' \subseteq Abouts \cup {m}
      /\ \A i, j \in DOMAIN called' : called'[i].about = called'[j].about => i = j
      /\ \A i \in DOMAIN called' :
           InTime(called'[i]) /\ called'[i].about \notin spoiled' =>
             called'[i].owner = called'[i].about
  <2>1. CASE called' = called
    BY <1>0, <2>1 DEF TypeInv, PlaceInv, SessionInv, Abouts
  <2>2. CASE r.sid \in HostSlot /\ called' = Append(called, c)
    <3> HIDE DEF c
    <3> QED BY <1>0, <1>5, <1>6, <2>2, CallMade
  <2> QED BY <2>1, <2>2 DEF m
<1> HIDE DEF c, r
<1>8. TypeInv'
  BY <1>0, <1>2, <1>7 DEF TypeInv
<1>9. PlaceInv'
  <2>1. /\ Packets(toHost') = Packets(Tail(toHost)) /\ Distinct(toHost')
        /\ Packets(mac') = Packets(mac) /\ Packets(toRadio') = Packets(toRadio)
    BY <1>2
  <2>2. /\ Packets(toHost') \cap (Packets(mac') \cup Packets(toRadio')) = {}
        /\ Packets(toHost') \subseteq posted' /\ Abouts' \subseteq 1..sent'
    <3>1. m \in 1..sent
      BY <1>0, <1>3 DEF TypeInv
    <3> QED BY <1>0, <1>2, <1>7, <2>1, <3>1 DEF PlaceInv
  <2>3. Abouts' \cap (Packets(toHost') \cup Packets(mac') \cup Packets(toRadio')) = {}
    <3>1. m \notin Packets(toHost') /\ m \notin Packets(mac) /\ m \notin Packets(toRadio)
      BY <1>0, <1>2, <1>3, <2>1 DEF PlaceInv
    <3> QED BY <1>0, <1>2, <1>7, <2>1, <3>1 DEF PlaceInv
  <2> QED BY <1>0, <1>7, <2>1, <2>2, <2>3 DEF PlaceInv
<1>10. RingInv'
  BY <1>0 DEF RingInv, Behind, Passed, Later
<1>11. SessionInv'
  <2>1. \A k \in DOMAIN toRadio' :
          Timely(toRadio[k].pkt)' => Finds(toRadio[k].sid, toRadio[k].pkt)'
    BY <1>0 DEF SessionInv, Timely, Behind, Finds
  <2>2. \A k \in DOMAIN mac' :
          Timely(mac[k].pkt)' => Finds(packet_ids[mac[k].slot], mac[k].pkt)'
    BY <1>0 DEF SessionInv, Timely, Behind, Finds
  <2>3. ASSUME NEW k \in DOMAIN toHost'
        PROVE  Timely(toHost[k].pkt)' => Finds(toHost[k].sid, toHost[k].pkt)'
    <3>1. PICK j \in DOMAIN toHost : toHost'[k] = toHost[j]
      BY <1>2
    <3>2. Timely(toHost[k].pkt)' => Timely(toHost[j].pkt)
      BY <3>1 DEF Timely, Behind
    <3> QED BY <1>0, <3>1, <3>2 DEF SessionInv, Finds
  <2> QED BY <1>7, <2>1, <2>2, <2>3 DEF SessionInv, InTime
<1> QED BY <1>3, <1>8, <1>9, <1>10, <1>11 DEF SessionsInv, m, r

\* A message that lost bytes keeps its place, and the packet it is about.
LEMMA OneIdChanged ==
  ASSUME NEW s \in Seq(Commands), s # <<>>, NEW id \in Ids
  PROVE  LET t == [s EXCEPT ![1].sid = id] IN
         /\ t \in Seq(Commands) /\ Packets(t) = Packets(s)
         /\ Distinct(s) => Distinct(t)
         /\ InOrder(s) => InOrder(t)
         /\ Head(s) \in Commands /\ Head(s).pkt \in Packets(s)
         /\ DOMAIN t = DOMAIN s
         /\ \A i \in DOMAIN s : t[i].pkt = Head(s).pkt \/ t[i] = s[i]
<1> DEFINE n == Len(s)
           e == [s[1] EXCEPT !.sid = id]
           t == [s EXCEPT ![1] = e]
<1>1. /\ n \in Nat /\ n > 0 /\ s \in [1..n -> Commands] /\ DOMAIN s = 1..n
      /\ Head(s) = s[1] /\ s[1] \in Commands /\ 1 \in 1..n
  BY EmptySeq, LenProperties, HeadTailProperties
<1>2. e \in Commands /\ e.pkt = s[1].pkt
  BY <1>1 DEF Commands
<1> HIDE DEF n, e
<1>3. t \in [1..n -> Commands] /\ t[1] = e /\ \A i \in 1..n : i # 1 => t[i] = s[i]
  BY <1>1, <1>2
<1>4. t \in Seq(Commands) /\ DOMAIN t = 1..n
  BY <1>1, <1>3, SeqDef
<1> HIDE DEF t
<1>5. \A i \in 1..n : t[i].pkt = s[i].pkt /\ (t[i].pkt = s[1].pkt \/ t[i] = s[i])
  BY <1>2, <1>3
<1>6. Packets(t) = Packets(s)
  BY <1>1, <1>4, <1>5 DEF Packets
<1>7. (Distinct(s) => Distinct(t)) /\ (InOrder(s) => InOrder(t))
  BY <1>1, <1>4, <1>5 DEF Distinct, InOrder
<1>8. Head(s).pkt \in Packets(s)
  BY <1>1 DEF Packets
<1>9. [s EXCEPT ![1].sid = id] = t
  BY DEF t, e
<1> QED BY <1>1, <1>4, <1>5, <1>6, <1>7, <1>8, <1>9

\* Where the packets and the rings are does not depend on session ids, and of a
\* spoiled packet nothing is said.
LEMMA SpoilCommandKeeps ==
  ASSUME SessionsInv, SpoilCommand
  PROVE  SessionsInv' /\ Head(toRadio).pkt \in posted
<1> DEFINE m == Head(toRadio).pkt
<1>0. TypeInv /\ PlaceInv /\ RingInv /\ SessionInv
  BY DEF SessionsInv
<1>1. /\ toRadio # <<>> /\ toRadio \in Seq(Commands) /\ spoiled' = spoiled \cup {m}
      /\ UNCHANGED <<callbacks, callback_pos, sent, posted, called, packet_ids, packet_pos,
                     mac, toHost>>
  BY <1>0 DEF SpoilCommand, TypeInv, hostVars, radioVars
<1>2. PICK id \in Ids : toRadio' = [toRadio EXCEPT ![1].sid = id]
  <2>1. PICK id \in StrayIds \cup {Head(toRadio).sid} :
          toRadio' = [toRadio EXCEPT ![1].sid = id]
    BY DEF SpoilCommand
  <2>2. Head(toRadio) \in Commands
    BY <1>1, HeadTailProperties
  <2> QED BY <2>1, <2>2 DEF Commands, Ids
<1>3. /\ toRadio' \in Seq(Commands) /\ Packets(toRadio') = Packets(toRadio)
      /\ InOrder(toRadio) => InOrder(toRadio')
      /\ m \in Packets(toRadio) /\ DOMAIN toRadio' = DOMAIN toRadio
      /\ \A i \in DOMAIN toRadio : toRadio'[i].pkt = m \/ toRadio'[i] = toRadio[i]
  BY <1>1, <1>2, OneIdChanged
<1> HIDE DEF m
<1>4. TypeInv'
  BY <1>0, <1>1, <1>3 DEF TypeInv
<1>5. PlaceInv'
  <2>1. Abouts' = Abouts
    BY <1>1 DEF Abouts
  <2> QED BY <1>0, <1>1, <1>3, <2>1 DEF PlaceInv
<1>6. RingInv'
  BY <1>0, <1>1, <1>3 DEF RingInv, Behind, Passed, Later
<1>7. SessionInv'
  <2>1. ASSUME NEW i \in DOMAIN toRadio'
        PROVE  Timely(toRadio[i].pkt)' => Finds(toRadio[i].sid, toRadio[i].pkt)'
    <3>1. CASE toRadio'[i].pkt = m
      BY <1>1, <3>1 DEF Timely
    <3>2. CASE toRadio'[i] = toRadio[i]
      BY <1>0, <1>1, <1>3, <3>2 DEF SessionInv, Timely, Behind, Finds
    <3> QED BY <1>3, <3>1, <3>2
  <2>2. \A i \in DOMAIN mac' :
          Timely(mac[i].pkt)' => Finds(packet_ids[mac[i].slot], mac[i].pkt)'
    BY <1>0, <1>1 DEF SessionInv, Timely, Behind, Finds
  <2>3. \A i \in DOMAIN toHost' :
          Timely(toHost[i].pkt)' => Finds(toHost[i].sid, toHost[i].pkt)'
    BY <1>0, <1>1 DEF SessionInv, Timely, Behind, Finds
  <2>4. \A i \in DOMAIN called' :
          InTime(called'[i]) /\ called'[i].about \notin spoiled' =>
            called'[i].owner = called'[i].about
    BY <1>0, <1>1 DEF SessionInv, InTime
  <2> QED BY <2>1, <2>2, <2>3, <2>4 DEF SessionInv, InTime
<1>8. m \in posted
  BY <1>0, <1>3 DEF PlaceInv
<1> QED BY <1>4, <1>5, <1>6, <1>7, <1>8 DEF SessionsInv, m

LEMMA SpoilReportKeeps ==
  ASSUME SessionsInv, SpoilReport
  PROVE  SessionsInv' /\ Head(toHost).pkt \in posted
<1> DEFINE m == Head(toHost).pkt
<1>0. TypeInv /\ PlaceInv /\ RingInv /\ SessionInv
  BY DEF SessionsInv
<1>1. /\ toHost # <<>> /\ toHost \in Seq(Commands) /\ spoiled' = spoiled \cup {m}
      /\ UNCHANGED <<callbacks, callback_pos, sent, posted, called, packet_ids, packet_pos,
                     mac, toRadio>>
  BY <1>0 DEF SpoilReport, TypeInv, hostVars, radioVars
<1>2. PICK id \in Ids : toHost' = [toHost EXCEPT ![1].sid = id]
  <2>1. PICK id \in StrayIds \cup {Head(toHost).sid} :
          toHost' = [toHost EXCEPT ![1].sid = id]
    BY DEF SpoilReport
  <2>2. Head(toHost) \in Commands
    BY <1>1, HeadTailProperties
  <2> QED BY <2>1, <2>2 DEF Commands, Ids
<1>3. /\ toHost' \in Seq(Commands) /\ Packets(toHost') = Packets(toHost)
      /\ Distinct(toHost) => Distinct(toHost')
      /\ m \in Packets(toHost) /\ DOMAIN toHost' = DOMAIN toHost
      /\ \A i \in DOMAIN toHost : toHost'[i].pkt = m \/ toHost'[i] = toHost[i]
  BY <1>1, <1>2, OneIdChanged
<1> HIDE DEF m
<1>4. TypeInv'
  BY <1>0, <1>1, <1>3 DEF TypeInv
<1>5. PlaceInv'
  <2>1. Abouts' = Abouts
    BY <1>1 DEF Abouts
  <2> QED BY <1>0, <1>1, <1>3, <2>1 DEF PlaceInv
<1>6. RingInv'
  BY <1>0, <1>1 DEF RingInv, Behind, Passed, Later
<1>7. SessionInv'
  <2>1. \A i \in DOMAIN toRadio' :
          Timely(toRadio[i].pkt)' => Finds(toRadio[i].sid, toRadio[i].pkt)'
    BY <1>0, <1>1 DEF SessionInv, Timely, Behind, Finds
  <2>2. \A i \in DOMAIN mac' :
          Timely(mac[i].pkt)' => Finds(packet_ids[mac[i].slot], mac[i].pkt)'
    BY <1>0, <1>1 DEF SessionInv, Timely, Behind, Finds
  <2>3. ASSUME NEW i \in DOMAIN toHost'
        PROVE  Timely(toHost[i].pkt)' => Finds(toHost[i].sid, toHost[i].pkt)'
    <3>1. CASE toHost'[i].pkt = m
      BY <1>1, <3>1 DEF Timely
    <3>2. CASE toHost'[i] = toHost[i]
      BY <1>0, <1>1, <1>3, <3>2 DEF SessionInv, Timely, Behind, Finds
    <3> QED BY <1>3, <3>1, <3>2
  <2>4. \A i \in DOMAIN called' :
          InTime(called'[i]) /\ called'[i].about \notin spoiled' =>
            called'[i].owner = called'[i].about
    BY <1>0, <1>1 DEF SessionInv, InTime
  <2> QED BY <2>1, <2>2, <2>3, <2>4 DEF SessionInv, InTime
<1>8. m \in posted
  BY <1>0, <1>3 DEF PlaceInv
<1> QED BY <1>4, <1>5, <1>6, <1>7, <1>8 DEF SessionsInv, m

LEMMA NextSessions ==
  AllInv /\ [Next]_vars => AllInv'
<1> SUFFICES ASSUME SessionsInv, spoiled \subseteq posted, [Next]_vars
             PROVE  SessionsInv' /\ spoiled' \subseteq posted'
  BY DEF AllInv
<1>1. CASE SendPacket
  BY <1>1, SendPacketKeeps DEF SendPacket
<1>2. CASE SendFails
  BY <1>2, SendFailsKeeps DEF SendFails
<1>3. CASE RadioSends
  BY <1>3, RadioSendsKeeps DEF RadioSends, hostVars
<1>4. ASSUME NEW i, MacDone(i)
      PROVE  SessionsInv' /\ spoiled' \subseteq posted'
  BY <1>4, MacDoneKeeps DEF MacDone, hostVars
<1>5. CASE RadioRejects
  <2>1. /\ toRadio # <<>> /\ toRadio' = Tail(toRadio)
        /\ packet_ids' = [packet_ids EXCEPT ![packet_pos] = Head(toRadio).sid]
        /\ UNCHANGED <<callbacks, callback_pos, sent, posted, called, packet_pos, mac, toHost,
                       spoiled>>
    BY <1>5 DEF RadioRejects, hostVars
  <2>2. SessionsInv' /\ Head(toRadio).pkt \in posted
    BY <2>1, LeavesForGood
  <2> QED BY <2>1, <2>2
<1>6. CASE LoseCommand
  <2>1. /\ toRadio # <<>> /\ toRadio' = Tail(toRadio) /\ packet_ids' = packet_ids
        /\ UNCHANGED <<callbacks, callback_pos, sent, posted, called, packet_pos, mac, toHost>>
        /\ spoiled' = spoiled \cup {Head(toRadio).pkt}
    BY <1>6 DEF LoseCommand, hostVars, radioVars
  <2>2. SessionsInv' /\ Head(toRadio).pkt \in posted
    BY <2>1, LeavesForGood
  <2> QED BY <2>1, <2>2
<1>7. CASE HostReport
  <2>1. /\ toHost # <<>> /\ toHost' = Tail(toHost)
        /\ UNCHANGED <<callbacks, callback_pos, sent, posted, packet_ids, packet_pos, mac,
                       toRadio>>
        /\ called' = IF Head(toHost).sid < HostSlots
                     THEN Append(called, [owner |-> callbacks[Head(toHost).sid],
                                          about |-> Head(toHost).pkt,
                                          behind |-> Behind(Head(toHost).pkt)])
                     ELSE called
        /\ spoiled' = spoiled
    BY <1>7 DEF HostReport, radioVars
  <2>2. Head(toHost).sid \in Ids
    <3>1. toHost \in Seq(Commands)
      BY DEF SessionsInv, TypeInv
    <3>2. Head(toHost) \in Commands
      BY <2>1, <3>1, Popped
    <3> QED BY <3>2 DEF Commands
  <2>3. Head(toHost).sid < HostSlots => Head(toHost).sid \in HostSlot
    <3>1. \A i \in Ids : i < HostSlots => i \in HostSlot
      BY SlotsAssumption, SessionsAssumption DEF Ids, HostSlot
    <3>2. PICK i \in Ids : i = Head(toHost).sid
      BY <2>2
    <3> QED BY <3>1, <3>2, Zenon
  <2>4. CASE Head(toHost).sid < HostSlots
    BY <2>1, <2>3, <2>4, ReportLeaves
  <2>5. CASE ~(Head(toHost).sid < HostSlots)
    BY <2>1, <2>5, ReportLeaves
  <2> QED BY <2>4, <2>5
<1>8. CASE LoseReport
  <2>1. /\ toHost # <<>> /\ toHost' = Tail(toHost)
        /\ UNCHANGED <<callbacks, callback_pos, sent, posted, packet_ids, packet_pos, mac,
                       toRadio>>
        /\ called' = called
        /\ spoiled' = spoiled \cup {Head(toHost).pkt}
    BY <1>8 DEF LoseReport, hostVars, radioVars
  <2>2. SessionsInv' /\ Head(toHost).pkt \in posted
    BY <2>1, ReportLeaves
  <2> QED BY <2>1, <2>2
<1>9. CASE SpoilCommand
  <2>1. spoiled' = spoiled \cup {Head(toRadio).pkt} /\ posted' = posted
    BY <1>9 DEF SpoilCommand, hostVars
  <2> QED BY <1>9, <2>1, SpoilCommandKeeps
<1>10. CASE SpoilReport
  <2>1. spoiled' = spoiled \cup {Head(toHost).pkt} /\ posted' = posted
    BY <1>10 DEF SpoilReport, hostVars
  <2> QED BY <1>10, <2>1, SpoilReportKeeps
<1>11. CASE UNCHANGED vars
  <2>1. UNCHANGED <<callbacks, callback_pos, packet_ids, packet_pos, toRadio, mac, toHost,
                    sent, posted, called, spoiled>>
    BY <1>11 DEF vars, hostVars, radioVars
  <2>2. TypeInv' /\ PlaceInv'
    BY <2>1 DEF SessionsInv, TypeInv, PlaceInv, Abouts
  <2>3. RingInv'
    BY <2>1 DEF SessionsInv, RingInv, Behind, Passed, Later
  <2>4. SessionInv'
    BY <2>1 DEF SessionsInv, SessionInv, Timely, Behind, Finds, InTime
  <2> QED BY <2>1, <2>2, <2>3, <2>4 DEF SessionsInv
<1> QED BY <1>1, <1>2, <1>3, <1>4, <1>5, <1>6, <1>7, <1>8, <1>9, <1>10, <1>11 DEF Next

LEMMA SessionsInvariant == Spec => []AllInv
<1>1. Init => AllInv
  BY InitSessions DEF Init, AllInv
<1> QED BY <1>1, NextSessions, PTL DEF Spec
-----------------------------------------------------------------------------
(* Theorems *)

\* Session ids and ring positions stay within both rings, whatever their
\* lengths, and the line loses only what was posted.
THEOREM SessionsTypeCorrect == Spec => []TypeOK
<1>1. AllInv => TypeOK
  BY DEF AllInv, SessionsInv, TypeInv, TypeOK, Commands, Frames, Callbacks
<1> QED BY <1>1, SessionsInvariant, PTL

\* packet_sent() of the host is called with the callback of the packet the
\* radio reports on, and for no packet twice, unless the line took bytes of the
\* packet's own messages, or as many packets as the shorter ring has slots were
\* posted after it: for rings of any two lengths, reports in any order, and
\* other packets' messages lost or with any session id.
THEOREM RightCallbackIsMade == Spec => []RightCallback
<1>1. AllInv => RightCallback
  <2> SUFFICES ASSUME SessionsInv, NEW i \in DOMAIN called
               PROVE  /\ \A j \in DOMAIN called : called[j].about = called[i].about => i = j
                      /\ InTime(called[i]) /\ called[i].about \notin spoiled =>
                           called[i].owner = called[i].about
    BY DEF RightCallback, AllInv
  <2>1. InTime(called[i]) /\ called[i].about \notin spoiled =>
          called[i].owner = called[i].about
    BY DEF SessionsInv, SessionInv
  <2>2. \A j \in DOMAIN called : called[j].about = called[i].about => i = j
    BY DEF SessionsInv, PlaceInv
  <2> QED BY <2>1, <2>2
<1> QED BY <1>1, SessionsInvariant, PTL
=============================================================================
