-------------------------- MODULE SlipSenderProofs --------------------------
(* Theorems about SlipSender, for every buffer size, delay and set of        *)
(* packets.                                                                  *)
EXTENDS SlipSender, FiniteSetTheorems, WellFoundedInduction, SequenceTheorems, TLAPS

(* Natural numbers and sequences *)

\* Every nonempty set of natural numbers has a least element: what replaces
\* induction over loop indexes in the proofs.
LEMMA LeastNat ==
  ASSUME NEW T \in SUBSET Nat, T # {}
  PROVE  \E x \in T : \A y \in T : x <= y
<1> DEFINE X == {0..x : x \in T}
<1>1. X \subseteq FiniteSubsetsOf(Nat)
  <2> SUFFICES ASSUME NEW x \in T PROVE 0..x \in FiniteSubsetsOf(Nat)
    OBVIOUS
  <2>1. IsFiniteSet(0..x)
    BY FS_Interval
  <2> QED BY <2>1 DEF FiniteSubsetsOf
<1>2. X # {}
  OBVIOUS
<1>3. \E A \in X : \A B \in X : <<B, A>> \notin StrictSubsetOrdering(Nat)
  <2> HIDE DEF X
  <2> QED BY <1>1, <1>2, FS_StrictSubsetOrderingWellFounded, WFMin
<1>4. PICK x \in T : \A y \in T : <<0..y, 0..x>> \notin StrictSubsetOrdering(Nat)
  BY <1>3
<1>5. ASSUME NEW y \in T, y < x
      PROVE  FALSE
  <2>1. 0..y \subseteq 0..x /\ x \in 0..x /\ x \notin 0..y
    BY <1>5
  <2>2. <<0..y, 0..x>> \in StrictSubsetOrdering(Nat)
    BY <2>1 DEF StrictSubsetOrdering
  <2> QED BY <1>4, <2>2
<1> QED BY <1>5

\* Appending to a sequence appends to its suffixes.
LEMMA SuffixOfConcat ==
  ASSUME NEW S, NEW s \in Seq(S), NEW t \in Seq(S), NEW b \in 0..Len(s)
  PROVE  SubSeq(s \o t, b + 1, Len(s \o t)) = SubSeq(s, b + 1, Len(s)) \o t
<1> DEFINE st == s \o t
           u == SubSeq(st, b + 1, Len(st))
           w == SubSeq(s, b + 1, Len(s))
           n == Len(s)
           m == Len(t)
<1>1. n \in Nat /\ m \in Nat
  BY LenProperties
<1>2. /\ st \in Seq(S) /\ Len(st) = n + m
      /\ \A i \in 1..(n + m) : st[i] = IF i <= n THEN s[i] ELSE t[i - n]
  BY ConcatProperties
<1>3. /\ w \in Seq(S) /\ Len(w) = n - b
      /\ \A i \in 1..(n - b) : w[i] = s[i + b]
  BY <1>1
<1> HIDE DEF st, w, n, m
<1>4. /\ u \in Seq(S) /\ Len(u) = n + m - b
      /\ \A i \in 1..(n + m - b) : u[i] = st[i + b]
  BY <1>1, <1>2 DEF n
<1> DEFINE wt == w \o t
<1>5. /\ wt \in Seq(S) /\ Len(wt) = Len(w) + Len(t)
      /\ \A i \in 1..(Len(w) + Len(t)) :
            wt[i] = IF i <= Len(w) THEN w[i] ELSE t[i - Len(w)]
  BY <1>3, ConcatProperties
<1> HIDE DEF u, wt
<1>6. \A i \in 1..(n + m - b) : u[i] = wt[i]
  <2> SUFFICES ASSUME NEW i \in 1..(n + m - b)
               PROVE  u[i] = wt[i]
    OBVIOUS
  <2>1. b \in Nat /\ b <= n
    BY DEF n
  <2>2. i + b \in 1..(n + m) /\ i \in 1..(Len(w) + Len(t))
    <3>1. i \in Nat /\ i >= 1 /\ i <= n + m - b
      BY <1>1, <2>1
    <3>2. Len(w) + Len(t) = n + m - b
      BY <1>1, <1>3, <2>1 DEF m
    <3> QED BY <3>1, <3>2, <1>1, <2>1
  <2>3. CASE i <= n - b
    <3>1. i \in 1..(n - b) /\ i <= Len(w)
      BY <2>1, <2>3, <1>1, <1>3
    <3>2. u[i] = s[i + b]
      BY <2>1, <2>2, <2>3, <1>1, <1>2, <1>4
    <3>3. wt[i] = s[i + b]
      BY <2>2, <3>1, <1>3, <1>5
    <3> QED BY <3>2, <3>3
  <2>4. CASE i > n - b
    <3>1. u[i] = t[i + b - n]
      BY <2>1, <2>2, <2>4, <1>1, <1>2, <1>4
    <3>2. wt[i] = t[i - (n - b)]
      BY <2>1, <2>2, <2>4, <1>1, <1>3, <1>5
    <3>3. i + b - n = i - (n - b)
      BY <1>1, <2>1
    <3> QED BY <3>1, <3>2, <3>3
  <2> QED BY <2>1, <2>3, <2>4, <1>1
<1>7. Len(u) = Len(wt)
  BY <1>1, <1>3, <1>4, <1>5 DEF n, m
<1>8. u = wt
  BY <1>4, <1>5, <1>6, <1>7, SeqEqual
<1> QED BY <1>8 DEF u, wt, st, w

\* A suffix of a sequence, cut in two anywhere.
LEMMA SplitSuffix ==
  ASSUME NEW S, NEW s \in Seq(S), NEW b \in 0..Len(s), NEW e \in b..Len(s)
  PROVE  /\ SubSeq(s, b + 1, e) \in Seq(S)
         /\ SubSeq(s, e + 1, Len(s)) \in Seq(S)
         /\ SubSeq(s, b + 1, e) \o SubSeq(s, e + 1, Len(s)) = SubSeq(s, b + 1, Len(s))
<1> DEFINE n == Len(s)
           m == b + 1
<1>1. n \in Nat /\ m \in 1..(n + 1) /\ e \in (m - 1)..n /\ n \in e..n
  BY LenProperties
<1>2. \A i \in 1..n : s[i] \in S
  BY ElementOfSeq
<1>3. SubSeq(s, m, e) \in Seq(S) /\ SubSeq(s, e + 1, n) \in Seq(S)
  <2>1. \A i \in m..e : s[i] \in S
    BY <1>1, <1>2
  <2>2. \A i \in (e + 1)..n : s[i] \in S
    BY <1>1, <1>2
  <2> QED BY <1>1, <2>1, <2>2, SubSeqProperties
<1> HIDE DEF m
<1>4. SubSeq(s, m, e) \o SubSeq(s, e + 1, Len(s)) = SubSeq(s, m, Len(s))
  BY <1>1, ConcatAdjacentSubSeq
<1> QED BY <1>3, <1>4 DEF m
-----------------------------------------------------------------------------
(* What escaping guarantees, for every packet *)

LEMMA EndIsByte == SLIP_END \in Byte
BY DEF SLIP_END, Byte

\* An escaped packet holds no SLIP_END and is at least as long as the packet
\* (the loop of write_to_serial and of slip_send_packet).
LEMMA EscapeHidesEnd ==
  ASSUME NEW p \in Packet
  PROVE  /\ Escape(p) \in Seq(Byte \ {SLIP_END})
         /\ Len(Escape(p)) >= Len(p)
<1>1. IsFiniteSet(1..Len(p))
  BY FS_Interval DEF Packet
<1>2. IsFiniteSet(SpecialUpTo(p, Len(p)))
  BY <1>1, FS_Subset DEF SpecialUpTo
<1>3. Cardinality(SpecialUpTo(p, Len(p))) \in Nat
  BY <1>2, FS_CardinalityType
<1>4. EscapedLen(p) \in Nat /\ EscapedLen(p) >= Len(p)
  BY <1>3 DEF EscapedLen, Packet
<1> DEFINE StartsAt(k) == {i \in DOMAIN p : EscapedAt(p, i) = k}
           First(c) == IF c \in Special THEN SLIP_ESC ELSE c
           At(k) == IF StartsAt(k) # {}
                    THEN First(p[CHOOSE i \in StartsAt(k) : TRUE])
                    ELSE EscapeCode(p[CHOOSE i \in StartsAt(k - 1) : TRUE])
<1>5. ASSUME NEW k \in 1..EscapedLen(p)
      PROVE  At(k) \in Byte \ {SLIP_END}
  <2>1. CASE StartsAt(k) # {}
    <3>1. PICK i \in DOMAIN p : (CHOOSE j \in StartsAt(k) : TRUE) = i
      BY <2>1
    <3>2. p[i] \in Byte
      BY DEF Packet
    <3>3. At(k) = First(p[i])
      BY <2>1, <3>1
    <3>4. First(p[i]) \in Byte \ {SLIP_END}
      BY <3>2 DEF Byte, Special, SLIP_END, SLIP_ESC
    <3> QED BY <3>3, <3>4
  <2>2. CASE StartsAt(k) = {}
    BY <2>2 DEF EscapeCode, Byte, SLIP_END, SLIP_ESC_END, SLIP_ESC_ESC
  <2> QED BY <2>1, <2>2
<1>6. Escape(p) = [k \in 1..EscapedLen(p) |-> At(k)]
  BY DEF Escape
<1>7. [k \in 1..EscapedLen(p) |-> At(k)] \in [1..EscapedLen(p) -> Byte \ {SLIP_END}]
  BY <1>5
<1> HIDE DEF At
<1>8. Escape(p) \in Seq(Byte \ {SLIP_END})
  BY <1>4, <1>6, <1>7
<1>9. Len(Escape(p)) = EscapedLen(p)
  BY <1>4, <1>6, <1>7, <1>8
<1> QED BY <1>4, <1>8, <1>9
-----------------------------------------------------------------------------
(* Frames and the buffer *)

\* A queued frame: some bytes other than SLIP_END, then SLIP_END.
IsFrame(f) ==
  /\ f \in Seq(Byte)
  /\ Len(f) >= 2
  /\ f[Len(f)] = SLIP_END
  /\ \A i \in 1..(Len(f) - 1) : f[i] # SLIP_END

\* write_to_serial() queues a frame for every packet the callers pass.
LEMMA WriteToSerialIsFrame ==
  ASSUME NEW p \in Payloads
  PROVE  IsFrame(WriteToSerial(p))
<1>1. p \in Packet /\ p # <<>>
  BY PayloadsAssumption
<1>2. Len(p) >= 1
  BY <1>1 DEF Packet
<1> DEFINE e == Escape(p)
<1>3. e \in Seq(Byte \ {SLIP_END}) /\ Len(e) >= 1
  BY <1>1, <1>2, EscapeHidesEnd DEF Packet
<1> HIDE DEF e
<1>4. SLIP_END \in Byte
  BY DEF SLIP_END, Byte
<1>5. IsFrame(e \o <<SLIP_END>>)
  BY <1>3, <1>4 DEF IsFrame
<1> QED BY <1>5 DEF WriteToSerial, e
\* The search loop of slip_flushbuf finds the first SLIP_END behind the first
\* byte when there is one.
LEMMA NextPacketEndIsFirst ==
  ASSUME NEW buf \in Seq(Byte), LaterEnds(buf) # {}
  PROVE  /\ NextPacketEnd(buf) \in LaterEnds(buf)
         /\ \A j \in LaterEnds(buf) : NextPacketEnd(buf) <= j
<1>1. LaterEnds(buf) \subseteq Nat
  BY DEF LaterEnds
<1>2. \E i \in LaterEnds(buf) : \A j \in LaterEnds(buf) : i <= j
  BY <1>1, LeastNat
<1> QED BY <1>2 DEF NextPacketEnd

\* memcpy in ascending order moves the rest of the buffer down unchanged.
LEMMA AscendingMove ==
  ASSUME NEW buf \in Seq(Byte), NEW k \in 1..Len(buf)
  PROVE  MovedDown(buf, k, "ascending") = SubSeq(buf, k + 1, Len(buf))
<1> DEFINE m == MovedDown(buf, k, "ascending")
           n == Len(buf) - k
<1>1. m = [i \in 1..n |-> buf[i + k]]
  BY DEF MovedDown
<1>2. n \in Nat
  OBVIOUS
<1>3. \A i \in 1..n : buf[i + k] \in Byte
  OBVIOUS
<1>4. m \in Seq(Byte) /\ Len(m) = n /\ \A i \in 1..n : m[i] = buf[i + k]
  BY <1>1, <1>2, <1>3
<1> DEFINE t == SubSeq(buf, k + 1, Len(buf))
<1>5. t \in Seq(Byte) /\ Len(t) = n /\ \A i \in 1..n : t[i] = buf[i + k]
  OBVIOUS
<1> HIDE DEF m, t
<1>6. m = t
  BY <1>4, <1>5, SeqEqual
<1> QED BY <1>6 DEF m, t

LEMMA InitEstablishesSenderInv == Init => SenderInv
<1> SUFFICES ASSUME Init PROVE SenderInv
  OBVIOUS
<1>1. /\ slip_buf \in Seq(Byte) /\ queued \in Seq(Byte) /\ wire \in Seq(Byte)
      /\ Len(slip_buf) = 1 /\ slip_buf[1] = SLIP_END
  BY EndIsByte DEF Init
<1>2. TypeOK
  <2>1. /\ slip_begin = 0 /\ slip_packet_end = 1 /\ slip_packet_count = 1
        /\ send_delay_timer = 0 /\ idle = SendDelay
    BY DEF Init
  <2>2. running \in BOOLEAN /\ followed \in BOOLEAN
    BY DEF Init
  <2>3. /\ slip_end <= BufSize /\ slip_begin \in Nat /\ slip_packet_end \in Nat
        /\ slip_packet_count \in Int /\ send_delay_timer \in 0..SendDelay
        /\ idle \in 0..SendDelay
    BY <1>1, <2>1, SizesAssumption DEF slip_end
  <2> QED BY <1>1, <2>2, <2>3 DEF TypeOK
<1>3. NeverStranded /\ FirstPacketDelimited /\ BufferShape
  BY <1>1 DEF Init, NeverStranded, FirstPacketDelimited, BufferShape, slip_end, slip_empty
<1> QED BY <1>2, <1>3 DEF SenderInv

\* write_to_slip() keeps the buffer well formed.
LEMMA WriteToSlipKeepsSenderInv ==
  ASSUME SenderInv, NEW p \in Payloads, WriteToSlip(p)
  PROVE  SenderInv'
<1> DEFINE f == WriteToSerial(p)
<1>1. IsFrame(f)
  BY WriteToSerialIsFrame
<1> HIDE DEF f
<1>2. slip_buf \in Seq(Byte) /\ f \in Seq(Byte)
  BY <1>1 DEF SenderInv, TypeOK, IsFrame
<1>3. slip_buf' = slip_buf \o f
  BY DEF WriteToSlip, f
<1>4. /\ slip_buf' \in Seq(Byte)
      /\ Len(slip_buf') = Len(slip_buf) + Len(f)
      /\ \A i \in 1..(Len(slip_buf) + Len(f)) :
           slip_buf'[i] = IF i <= Len(slip_buf) THEN slip_buf[i] ELSE f[i - Len(slip_buf)]
  BY <1>2, <1>3, ConcatProperties
<1>5. slip_packet_end' = IF slip_packet_end = 0 THEN Len(slip_buf) + Len(f) ELSE slip_packet_end
  BY DEF WriteToSlip, f, slip_empty, slip_end
<1>6. slip_begin' = slip_begin /\ Len(slip_buf) + Len(f) <= BufSize
  BY DEF WriteToSlip, f, slip_end
<1>7. TypeOK'
  <2>1. queued' \in Seq(Byte)
    BY <1>2 DEF WriteToSlip, f, SenderInv, TypeOK
  <2>2. slip_packet_end' \in Nat
    BY <1>2, <1>5 DEF SenderInv, TypeOK
  <2> QED BY <1>4, <1>6, <2>1, <2>2 DEF WriteToSlip, SenderInv, TypeOK, slip_end
<1>8. NeverStranded'
  BY <1>2, <1>1, <1>5 DEF NeverStranded, slip_empty, slip_end, SenderInv, TypeOK, IsFrame
<1>9. FirstPacketDelimited'
  <2>1. CASE slip_packet_end = 0
    <3>1. Len(slip_buf) = 0 /\ slip_begin = 0
      BY <2>1, <1>2 DEF SenderInv, NeverStranded, BufferShape, slip_empty, slip_end
    <3> QED BY <3>1, <2>1, <1>1, <1>2, <1>4, <1>5, <1>6
            DEF FirstPacketDelimited, slip_empty, slip_end, IsFrame
  <2>2. CASE slip_packet_end # 0
    BY <2>2, <1>2, <1>4, <1>5, <1>6
       DEF SenderInv, TypeOK, FirstPacketDelimited, slip_empty, slip_end
  <2> QED BY <2>1, <2>2
<1>10. BufferShape'
  <2>1. (slip_empty => slip_begin = 0)'
    BY <1>8, <1>4, <1>1, <1>2 DEF NeverStranded, slip_end, IsFrame
  <2>2. slip_buf'[Len(slip_buf')] = SLIP_END
    BY <1>1, <1>2, <1>4 DEF IsFrame
  <2>3. ASSUME NEW i \in 1..(Len(slip_buf') - 1), slip_buf'[i] = SLIP_END,
               slip_buf'[i + 1] = SLIP_END
        PROVE  FALSE
    <3>1. CASE i + 1 <= Len(slip_buf)
      BY <3>1, <2>3, <1>2, <1>4 DEF SenderInv, BufferShape, slip_end
    <3>2. CASE i = Len(slip_buf)
      <4>1. 1 \in 1..(Len(f) - 1) /\ Len(slip_buf) + 1 \in 1..(Len(slip_buf) + Len(f))
        BY <1>1, <1>2 DEF IsFrame
      <4>2. slip_buf'[Len(slip_buf) + 1] = f[1]
        BY <4>1, <1>2, <1>4
      <4> QED BY <3>2, <2>3, <4>1, <4>2, <1>1 DEF IsFrame
    <3>3. CASE i > Len(slip_buf)
      <4> DEFINE j == i - Len(slip_buf)
      <4>1. j \in 1..(Len(f) - 1) /\ i \in 1..(Len(slip_buf) + Len(f))
        BY <3>3, <1>1, <1>2, <1>4 DEF IsFrame
      <4>2. slip_buf'[i] = f[j]
        BY <3>3, <4>1, <1>2, <1>4
      <4> QED BY <2>3, <4>1, <4>2, <1>1 DEF IsFrame
    <3> QED BY <3>1, <3>2, <3>3, <1>2
  <2> QED BY <2>1, <2>2, <2>3 DEF BufferShape, slip_end
<1> QED BY <1>7, <1>8, <1>9, <1>10 DEF SenderInv

\* A partial write only moves slip_begin inside the first packet.
LEMMA FlushPartKeepsSenderInv ==
  ASSUME SenderInv, NEW n \in 1..BufSize, FlushPart(n)
  PROVE  SenderInv'
<1>1. /\ slip_buf' = slip_buf /\ slip_packet_end' = slip_packet_end
      /\ slip_begin' = slip_begin + n /\ slip_begin + n < slip_packet_end
      /\ slip_packet_end # 0 /\ slip_packet_end' # 0
  BY DEF FlushPart, WantsToWrite, slip_empty
<1>2. wire' \in Seq(Byte)
  <2>1. \A i \in (slip_begin + 1)..(slip_begin + n) : slip_buf[i] \in Byte
    BY <1>1, SizesAssumption
       DEF SenderInv, TypeOK, FirstPacketDelimited, slip_empty, slip_end
  <2>2. SubSeq(slip_buf, slip_begin + 1, slip_begin + n) \in Seq(Byte)
    BY <2>1, SubSeqProperties, SizesAssumption DEF SenderInv, TypeOK
  <2> QED BY <2>2 DEF FlushPart, SenderInv, TypeOK
<1>3. TypeOK'
  BY <1>1, <1>2, SizesAssumption DEF FlushPart, SenderInv, TypeOK, slip_end
<1>4. NeverStranded' /\ BufferShape'
  BY <1>1 DEF SenderInv, NeverStranded, BufferShape, slip_empty, slip_end
<1>5. FirstPacketDelimited'
  BY <1>1, SizesAssumption
     DEF SenderInv, TypeOK, FirstPacketDelimited, slip_empty, slip_end
<1> QED BY <1>3, <1>4, <1>5 DEF SenderInv

\* Completing a packet moves the rest down and finds the end of the next one.
LEMMA FlushLastKeepsSenderInv ==
  ASSUME SenderInv, FlushLast("ascending")
  PROVE  SenderInv'
<1> DEFINE k == slip_packet_end
           n == Len(slip_buf) - k
           rest == SubSeq(slip_buf, k + 1, Len(slip_buf))
<1>1. /\ slip_buf \in Seq(Byte) /\ k \in 1..Len(slip_buf)
      /\ slip_begin \in Nat /\ slip_begin < k /\ slip_buf[k] = SLIP_END
  BY DEF FlushLast, WantsToWrite, SenderInv, TypeOK, FirstPacketDelimited,
         slip_empty, slip_end
<1>2. slip_buf' = rest /\ slip_packet_end' = NextPacketEnd(rest) /\ slip_begin' = 0
  BY <1>1, AscendingMove DEF FlushLast
<1>3. /\ rest \in Seq(Byte) /\ Len(rest) = n /\ n \in Nat
      /\ \A i \in 1..n : rest[i] = slip_buf[i + k]
  BY <1>1
<1>4. wire' \in Seq(Byte)
  <2>1. \A i \in (slip_begin + 1)..k : slip_buf[i] \in Byte
    BY <1>1
  <2>2. SubSeq(slip_buf, slip_begin + 1, k) \in Seq(Byte)
    BY <1>1, <2>1, SubSeqProperties
  <2> QED BY <2>2 DEF FlushLast, SenderInv, TypeOK
<1>5. slip_begin' = 0 /\ Len(slip_buf') <= BufSize
  BY <1>1, <1>2, <1>3, SizesAssumption DEF SenderInv, TypeOK, slip_end
<1>6. /\ slip_packet_count' \in Int /\ send_delay_timer' \in 0..SendDelay
      /\ running' \in BOOLEAN /\ queued' \in Seq(Byte) /\ idle' \in 0..SendDelay
      /\ followed' \in BOOLEAN
  BY SizesAssumption DEF FlushLast, SenderInv, TypeOK
<1>7. \A i \in 1..(n - 1) : ~(rest[i] = SLIP_END /\ rest[i + 1] = SLIP_END)
  BY <1>1, <1>3 DEF SenderInv, BufferShape, slip_end
<1> HIDE DEF n, rest
<1>8. CASE n = 0
  <2>1. LaterEnds(rest) = {}
    BY <1>8, <1>3 DEF LaterEnds
  <2>2. slip_packet_end' = 0 /\ Len(slip_buf') = 0
    BY <2>1, <1>2, <1>3, <1>8 DEF NextPacketEnd
  <2>3. TypeOK'
    BY <2>2, <1>2, <1>3, <1>4, <1>5, <1>6 DEF TypeOK, slip_end
  <2> QED BY <2>2, <2>3, <1>5
          DEF SenderInv, NeverStranded, FirstPacketDelimited, BufferShape, slip_empty, slip_end
<1>9. CASE n > 0
  <2>1. rest[n] = SLIP_END
    BY <1>9, <1>1, <1>3 DEF n, SenderInv, BufferShape, slip_end
  <2>2. rest[1] # SLIP_END
    <3>1. k \in 1..(Len(slip_buf) - 1) /\ rest[1] = slip_buf[k + 1]
      BY <1>9, <1>1, <1>3 DEF n
    <3> QED BY <3>1, <1>1 DEF SenderInv, BufferShape, slip_end
  <2>3. n \in LaterEnds(rest)
    BY <2>1, <2>2, <1>9, <1>3 DEF LaterEnds
  <2> DEFINE e == NextPacketEnd(rest)
  <2>4. e \in LaterEnds(rest) /\ \A j \in LaterEnds(rest) : e <= j
    BY <2>3, <1>3, NextPacketEndIsFirst
  <2> HIDE DEF e
  <2>5. e \in 2..n /\ rest[e] = SLIP_END
    BY <2>4, <1>3 DEF LaterEnds
  <2>6. \A i \in 1..(e - 1) : rest[i] # SLIP_END
    <3> SUFFICES ASSUME NEW i \in 1..(e - 1), rest[i] = SLIP_END PROVE FALSE
      OBVIOUS
    <3>1. i # 1
      BY <2>2
    <3>2. i \in LaterEnds(rest)
      BY <3>1, <2>5, <1>3 DEF LaterEnds
    <3>3. e <= i
      BY <3>2, <2>4
    <3> QED BY <3>3, <2>5
  <2>7. slip_buf' = rest /\ slip_packet_end' = e
    BY <1>2 DEF e
  <2>8. TypeOK'
    BY <2>5, <2>7, <1>3, <1>4, <1>5, <1>6 DEF TypeOK, slip_end
  <2>9. NeverStranded' /\ FirstPacketDelimited'
    BY <2>5, <2>6, <2>7, <1>3, <1>5
       DEF NeverStranded, FirstPacketDelimited, slip_empty, slip_end
  <2>10. BufferShape'
    BY <2>1, <2>7, <1>3, <1>5, <1>7 DEF BufferShape, slip_end
  <2> QED BY <2>8, <2>9, <2>10 DEF SenderInv
<1> QED BY <1>3, <1>8, <1>9

\* Every step keeps the buffer well formed when memcpy copies upwards.
LEMMA NextKeepsSenderInv ==
  ASSUME OverlapCopies = {"ascending"}, SenderInv, [Next]_vars
  PROVE  SenderInv'
<1>1. ASSUME NEW p \in Payloads, WriteToSlip(p) PROVE SenderInv'
  BY <1>1, WriteToSlipKeepsSenderInv
<1>2. ASSUME NEW n \in 1..BufSize, FlushPart(n) PROVE SenderInv'
  BY <1>2, FlushPartKeepsSenderInv
<1>3. ASSUME NEW how \in OverlapCopies, FlushLast(how) PROVE SenderInv'
  BY <1>3, FlushLastKeepsSenderInv
<1>4. ASSUME \/ \E p \in Payloads : Overflow(p)
             \/ FlushError
             \/ UNCHANGED vars
      PROVE  SenderInv'
  <2>1. bufVars' = bufVars /\ running' \in BOOLEAN /\ queued' = queued /\ wire' = wire
        /\ send_delay_timer' = send_delay_timer /\ idle' = idle /\ followed' = followed
    BY <1>4 DEF Overflow, FlushError, vars, history, bufVars, SenderInv, TypeOK
  <2> QED BY <2>1 DEF bufVars, SenderInv, TypeOK, NeverStranded, FirstPacketDelimited,
                      BufferShape, slip_empty, slip_end
<1>5. ASSUME Tick PROVE SenderInv'
  <2>1. bufVars' = bufVars /\ running' = running /\ queued' = queued /\ wire' = wire
        /\ send_delay_timer' \in 0..SendDelay /\ idle' \in 0..SendDelay /\ followed' = followed
    BY <1>5, SizesAssumption DEF Tick, SenderInv, TypeOK
  <2> QED BY <2>1 DEF bufVars, SenderInv, TypeOK, NeverStranded, FirstPacketDelimited,
                      BufferShape, slip_empty, slip_end
<1> QED BY <1>1, <1>2, <1>3, <1>4, <1>5 DEF Next, Flush

\* The types of the sender's state hold throughout (for memcpy copying
\* upwards, as in all that follows).
THEOREM TypeCorrect ==
  ASSUME OverlapCopies = {"ascending"}
  PROVE  Spec => []TypeOK
<1>1. Init => SenderInv
  BY InitEstablishesSenderInv
<1>2. SenderInv /\ [Next]_vars => SenderInv'
  BY NextKeepsSenderInv
<1>3. SenderInv => TypeOK
  BY DEF SenderInv
<1> QED BY <1>1, <1>2, <1>3, PTL DEF Spec

\* Buffered bytes always belong to a known packet, so they are never left
\* waiting for the next packet (slip_empty, slip_flushbuf).
THEOREM BytesNeverStranded ==
  ASSUME OverlapCopies = {"ascending"}
  PROVE  Spec => [](NeverStranded /\ FirstPacketDelimited)
<1>1. Init => SenderInv
  BY InitEstablishesSenderInv
<1>2. SenderInv /\ [Next]_vars => SenderInv'
  BY NextKeepsSenderInv
<1>3. SenderInv => NeverStranded /\ FirstPacketDelimited
  BY DEF SenderInv
<1> QED BY <1>1, <1>2, <1>3, PTL DEF Spec
-----------------------------------------------------------------------------
\* The bytes of the buffer that are still to be written.
Unwritten == SubSeq(slip_buf, slip_begin + 1, slip_end)

LEMMA InitStreamIntact == Init => StreamIntact
<1> SUFFICES ASSUME Init PROVE StreamIntact
  OBVIOUS
<1>1. slip_buf \in Seq(Byte) /\ Len(slip_buf) = 1
  BY EndIsByte DEF Init
<1>2. SubSeq(slip_buf, 1, Len(slip_buf)) = slip_buf
  BY <1>1, SubSeqFull
<1>3. slip_begin + 1 = 1 /\ wire = <<>> /\ queued = slip_buf
  BY DEF Init
<1>4. <<>> \o slip_buf = slip_buf
  BY <1>1, ConcatEmptySeq
<1> QED BY <1>2, <1>3, <1>4 DEF StreamIntact, slip_end

LEMMA WriteToSlipKeepsStream ==
  ASSUME SenderInv, StreamIntact, NEW p \in Payloads, WriteToSlip(p)
  PROVE  StreamIntact'
<1> DEFINE f == WriteToSerial(p)
           u == Unwritten
<1>1. /\ f \in Seq(Byte) /\ slip_buf \in Seq(Byte) /\ wire \in Seq(Byte)
      /\ slip_begin \in 0..Len(slip_buf)
  BY WriteToSerialIsFrame
     DEF IsFrame, SenderInv, TypeOK, FirstPacketDelimited, BufferShape, slip_empty, slip_end
<1>2. slip_buf' = slip_buf \o f /\ queued' = queued \o f
      /\ slip_begin' = slip_begin /\ wire' = wire
  BY DEF WriteToSlip
<1>3. SubSeq(slip_buf \o f, slip_begin + 1, Len(slip_buf \o f)) = u \o f
  BY <1>1, SuffixOfConcat DEF Unwritten, slip_end
<1>4. u \in Seq(Byte)
  BY <1>1 DEF Unwritten, slip_end
<1>5. wire \o u = queued
  BY DEF StreamIntact, Unwritten
<1> HIDE DEF f, u
<1>6. (wire \o u) \o f = wire \o (u \o f)
  <2>1. wire \in Seq(Byte) /\ u \in Seq(Byte) /\ f \in Seq(Byte)
    BY <1>1, <1>4
  <2> QED BY <2>1, ConcatAssociative
<1>7. wire \o (u \o f) = queued \o f
  BY <1>5, <1>6, Zenon
<1> QED BY <1>2, <1>3, <1>7 DEF StreamIntact, slip_end

\* A write of the bytes up to position e leaves those behind e to write.
LEMMA WrittenAndLeft ==
  ASSUME SenderInv, StreamIntact, NEW e \in slip_begin..Len(slip_buf)
  PROVE  (wire \o SubSeq(slip_buf, slip_begin + 1, e)) \o SubSeq(slip_buf, e + 1, Len(slip_buf))
           = queued
<1> DEFINE a == SubSeq(slip_buf, slip_begin + 1, e)
           z == SubSeq(slip_buf, e + 1, Len(slip_buf))
<1>1. /\ slip_buf \in Seq(Byte) /\ wire \in Seq(Byte)
      /\ slip_begin \in 0..Len(slip_buf) /\ Len(slip_buf) \in Nat /\ e \in Nat
  BY DEF SenderInv, TypeOK, FirstPacketDelimited, BufferShape, slip_empty, slip_end
<1>2. a \o z = Unwritten /\ a \in Seq(Byte) /\ z \in Seq(Byte)
  BY <1>1, SplitSuffix DEF Unwritten, slip_end
<1>3. wire \o Unwritten = queued
  BY DEF StreamIntact, Unwritten
<1> HIDE DEF a, z
<1>4. (wire \o a) \o z = wire \o (a \o z)
  <2>1. wire \in Seq(Byte) /\ a \in Seq(Byte) /\ z \in Seq(Byte)
    BY <1>1, <1>2
  <2> QED BY <2>1, ConcatAssociative
<1>5. (wire \o a) \o z = queued
  BY <1>2, <1>3, <1>4
<1> QED BY <1>5 DEF a, z

\* Whatever is queued is written or still buffered, byte for byte.
THEOREM StreamNeverBroken ==
  ASSUME OverlapCopies = {"ascending"}
  PROVE  Spec => []StreamIntact
<1> DEFINE Inv == SenderInv /\ StreamIntact
<1>1. Init => Inv
  BY InitEstablishesSenderInv, InitStreamIntact
<1>2. Inv /\ [Next]_vars => Inv'
  <2> SUFFICES ASSUME Inv, [Next]_vars PROVE StreamIntact'
    BY NextKeepsSenderInv
  <2>1. ASSUME NEW p \in Payloads, WriteToSlip(p) PROVE StreamIntact'
    BY <2>1, WriteToSlipKeepsStream
  <2>2. ASSUME NEW n \in 1..BufSize, FlushPart(n) PROVE StreamIntact'
    <3>1. /\ slip_begin + n \in slip_begin..Len(slip_buf)
          /\ slip_begin \in Nat
      BY <2>2, SizesAssumption
         DEF FlushPart, WantsToWrite, slip_empty, SenderInv, TypeOK,
             FirstPacketDelimited, slip_end
    <3>2. (wire \o SubSeq(slip_buf, slip_begin + 1, slip_begin + n))
            \o SubSeq(slip_buf, slip_begin + n + 1, Len(slip_buf)) = queued
      BY <3>1, WrittenAndLeft
    <3> QED BY <2>2, <3>2 DEF FlushPart, StreamIntact, slip_end
  <2>3. ASSUME NEW how \in OverlapCopies, FlushLast(how) PROVE StreamIntact'
    <3> DEFINE rest == SubSeq(slip_buf, slip_packet_end + 1, Len(slip_buf))
    <3>1. /\ slip_packet_end \in slip_begin..Len(slip_buf)
          /\ slip_packet_end \in 1..Len(slip_buf)
          /\ slip_buf \in Seq(Byte)
      BY <2>3 DEF FlushLast, WantsToWrite, slip_empty, SenderInv, TypeOK,
                  FirstPacketDelimited, slip_end
    <3>2. slip_buf' = rest /\ slip_begin' = 0 /\ queued' = queued
          /\ wire' = wire \o SubSeq(slip_buf, slip_begin + 1, slip_packet_end)
      BY <2>3, <3>1, AscendingMove DEF FlushLast
    <3>3. wire' \o rest = queued
      BY <3>1, <3>2, WrittenAndLeft
    <3>4. SubSeq(rest, 1, Len(rest)) = rest
      <4>1. \A i \in (slip_packet_end + 1)..Len(slip_buf) : slip_buf[i] \in Byte
        BY <3>1
      <4>2. rest \in Seq(Byte)
        BY <3>1, <4>1, SubSeqProperties
      <4> QED BY <4>2, SubSeqFull
    <3> HIDE DEF rest
    <3>5. slip_begin' + 1 = 1
      BY <3>2
    <3> QED BY <3>2, <3>3, <3>4, <3>5 DEF StreamIntact, slip_end
  <2>4. ASSUME \/ \E p \in Payloads : Overflow(p)
               \/ FlushError
               \/ Tick
               \/ UNCHANGED vars
        PROVE  StreamIntact'
    <3>1. bufVars' = bufVars /\ queued' = queued /\ wire' = wire
      BY <2>4 DEF Overflow, FlushError, Tick, vars, history
    <3> QED BY <3>1 DEF bufVars, StreamIntact, slip_end
  <2> QED BY <2>1, <2>2, <2>3, <2>4 DEF Next, Flush
<1>3. Inv => StreamIntact
  OBVIOUS
<1> QED BY <1>1, <1>2, <1>3, PTL DEF Spec
-----------------------------------------------------------------------------
\* A packet queued behind another one waits for the delay (send_delay_timer,
\* set_fd).
THEOREM PacketsKeepTheirDistance ==
  ASSUME OverlapCopies = {"ascending"}
  PROVE  Spec => QueuedPacketsSpaced
<1> DEFINE Inv == SenderInv /\ DelayCovered
<1>1. Init => Inv
  BY InitEstablishesSenderInv DEF Init, DelayCovered
<1>2. Inv /\ [Next]_vars => Inv'
  <2> SUFFICES ASSUME Inv, [Next]_vars PROVE DelayCovered'
    BY NextKeepsSenderInv
  <2>1. ASSUME NEW how \in OverlapCopies, FlushLast(how) PROVE DelayCovered'
    <3>1. idle' = 0 /\ (followed' => send_delay_timer' = SendDelay)
      BY <2>1, Zenon DEF FlushLast
    <3> QED BY <3>1, SizesAssumption DEF DelayCovered
  <2>2. CASE Tick
    BY <2>2, SizesAssumption DEF Tick, DelayCovered, SenderInv, TypeOK
  <2>3. ASSUME \/ \E p \in Payloads : WriteToSlip(p) \/ Overflow(p)
               \/ \E n \in 1..BufSize : FlushPart(n)
               \/ FlushError
               \/ UNCHANGED vars
        PROVE  DelayCovered'
    <3>1. idle' = idle /\ followed' = followed /\ send_delay_timer' = send_delay_timer
      BY <2>3 DEF WriteToSlip, Overflow, FlushPart, FlushError, vars, history
    <3> QED BY <3>1 DEF DelayCovered
  <2> QED BY <2>1, <2>2, <2>3 DEF Next, Flush
<1>3. Inv /\ [Next]_vars
        => [wire' # wire /\ slip_begin = 0 /\ followed => idle >= SendDelay]_vars
  <2> SUFFICES ASSUME Inv, Next, wire' # wire, followed PROVE idle >= SendDelay
    BY DEF vars, history
  <2>1. send_delay_timer = 0
    BY DEF Next, Flush, FlushPart, FlushLast, WantsToWrite, WriteToSlip, Overflow,
           FlushError, Tick, history
  <2> QED BY <2>1, SizesAssumption DEF DelayCovered, SenderInv, TypeOK
<1> QED BY <1>1, <1>2, <1>3, PTL DEF Spec, QueuedPacketsSpaced
-----------------------------------------------------------------------------
LEMMA EndsFinite ==
  ASSUME NEW buf \in Seq(Byte)
  PROVE  IsFiniteSet(Ends(buf)) /\ Cardinality(Ends(buf)) \in Nat
<1>1. IsFiniteSet(1..Len(buf))
  BY FS_Interval
<1>2. IsFiniteSet(Ends(buf))
  BY <1>1, FS_Subset DEF Ends
<1> QED BY <1>2, FS_CardinalityType

\* A packet appended brings one SLIP_END.
LEMMA OneMoreEnd ==
  ASSUME NEW buf \in Seq(Byte), NEW f, IsFrame(f)
  PROVE  Cardinality(Ends(buf \o f)) = Cardinality(Ends(buf)) + 1
<1> DEFINE n == Len(buf) + Len(f)
<1>1. f \in Seq(Byte) /\ Len(f) \in Nat /\ Len(buf) \in Nat
  BY DEF IsFrame
<1>2. /\ Len(buf \o f) = n
      /\ \A i \in 1..n : (buf \o f)[i] = IF i <= Len(buf) THEN buf[i] ELSE f[i - Len(buf)]
  BY <1>1, ConcatProperties
<1>3. Ends(buf \o f) = Ends(buf) \cup {n}
  <2>1. ASSUME NEW i \in 1..n, i <= Len(buf)
        PROVE  i \in Ends(buf \o f) <=> i \in Ends(buf)
    BY <2>1, <1>1, <1>2 DEF Ends
  <2>2. ASSUME NEW i \in 1..n, i > Len(buf)
        PROVE  i \in Ends(buf \o f) <=> i = n
    <3>1. i - Len(buf) \in 1..Len(f) /\ (buf \o f)[i] = f[i - Len(buf)]
      BY <2>2, <1>1, <1>2
    <3>2. f[i - Len(buf)] = SLIP_END <=> i - Len(buf) = Len(f)
      BY <3>1, <1>1 DEF IsFrame
    <3> QED BY <2>2, <3>1, <3>2, <1>1, <1>2 DEF Ends
  <2>3. n \in 1..n /\ n > Len(buf)
    BY <1>1 DEF IsFrame
  <2>4. Ends(buf \o f) \subseteq 1..n /\ Ends(buf) \subseteq 1..n
        /\ \A i \in Ends(buf) : i <= Len(buf)
    BY <1>1, <1>2 DEF Ends
  <2> QED BY <2>1, <2>2, <2>3, <2>4, <1>1
<1>4. n \notin Ends(buf)
  BY <1>1 DEF IsFrame, Ends
<1> QED BY <1>3, <1>4, EndsFinite, FS_AddElement

\* Moving the first packet out takes one SLIP_END away.
LEMMA OneEndLess ==
  ASSUME NEW buf \in Seq(Byte), NEW k \in 1..Len(buf), buf[k] = SLIP_END,
         \A i \in 1..(k - 1) : buf[i] # SLIP_END
  PROVE  Cardinality(Ends(SubSeq(buf, k + 1, Len(buf)))) = Cardinality(Ends(buf)) - 1
<1> DEFINE rest == SubSeq(buf, k + 1, Len(buf))
           n == Len(buf) - k
           later == Ends(buf) \ {k}
           up == [i \in Ends(rest) |-> i + k]
<1>1. rest \in Seq(Byte) /\ Len(rest) = n /\ \A i \in 1..n : rest[i] = buf[i + k]
  OBVIOUS
<1> HIDE DEF rest
<1>2. \A i \in Ends(rest) : i \in 1..n /\ i + k \in later
  BY <1>1 DEF Ends
<1>3. \A j \in later : j - k \in Ends(rest)
  <2> SUFFICES ASSUME NEW j \in later PROVE j - k \in Ends(rest)
    OBVIOUS
  <2>1. j \in 1..Len(buf) /\ buf[j] = SLIP_END /\ j > k
    BY DEF Ends
  <2> QED BY <2>1, <1>1 DEF Ends
<1>4. up \in [Ends(rest) -> later]
  BY <1>2
<1>5. \A i, j \in Ends(rest) : up[i] = up[j] => i = j
  BY <1>2
<1>6. \A j \in later : \E i \in Ends(rest) : up[i] = j
  <2> SUFFICES ASSUME NEW j \in later PROVE up[j - k] = j /\ j - k \in Ends(rest)
    OBVIOUS
  <2> QED BY <1>3 DEF Ends
<1> HIDE DEF up, later
<1>7. up \in Bijection(Ends(rest), later)
  BY <1>4, <1>5, <1>6 DEF Bijection, Injection, Surjection, IsInjective
<1>8. Cardinality(later) = Cardinality(Ends(rest))
  BY <1>1, <1>7, EndsFinite, FS_Bijection DEF ExistsBijection
<1>9. Cardinality(later) = Cardinality(Ends(buf)) - 1
  <2>1. k \in Ends(buf)
    BY DEF Ends
  <2> QED BY <2>1, EndsFinite, FS_RemoveElement DEF later
<1> QED BY <1>8, <1>9 DEF rest

LEMMA CountKept ==
  ASSUME OverlapCopies = {"ascending"}, SenderInv, CountsPackets, [Next]_vars
  PROVE  CountsPackets'
<1>1. slip_buf \in Seq(Byte) /\ slip_packet_count = Cardinality(Ends(slip_buf))
  BY DEF SenderInv, TypeOK, CountsPackets, Ends, slip_end
<1>2. ASSUME NEW p \in Payloads, WriteToSlip(p) PROVE CountsPackets'
  <2>1. /\ slip_buf' = slip_buf \o WriteToSerial(p)
        /\ slip_packet_count' = slip_packet_count + 1
    BY <1>2 DEF WriteToSlip
  <2>2. Cardinality(Ends(slip_buf')) = Cardinality(Ends(slip_buf)) + 1
    BY <1>1, <2>1, WriteToSerialIsFrame, OneMoreEnd
  <2> QED BY <1>1, <2>1, <2>2 DEF CountsPackets, Ends, slip_end
<1>3. ASSUME NEW how \in OverlapCopies, FlushLast(how) PROVE CountsPackets'
  <2>1. /\ slip_packet_end \in 1..Len(slip_buf)
        /\ slip_buf[slip_packet_end] = SLIP_END
        /\ \A i \in 1..(slip_packet_end - 1) : slip_buf[i] # SLIP_END
    BY <1>3 DEF FlushLast, WantsToWrite, SenderInv, TypeOK, FirstPacketDelimited,
                slip_empty, slip_end
  <2>2. /\ slip_buf' = SubSeq(slip_buf, slip_packet_end + 1, Len(slip_buf))
        /\ slip_packet_count' = slip_packet_count - 1
    BY <1>1, <1>3, <2>1, AscendingMove DEF FlushLast
  <2>3. Cardinality(Ends(slip_buf')) = Cardinality(Ends(slip_buf)) - 1
    BY <1>1, <2>1, <2>2, OneEndLess
  <2> QED BY <1>1, <2>2, <2>3 DEF CountsPackets, Ends, slip_end
<1>4. ASSUME \/ \E p \in Payloads : Overflow(p)
             \/ \E n \in 1..BufSize : FlushPart(n)
             \/ FlushError
             \/ Tick
             \/ UNCHANGED vars
      PROVE  CountsPackets'
  <2>1. slip_buf' = slip_buf /\ slip_packet_count' = slip_packet_count
    BY <1>4 DEF Overflow, FlushPart, FlushError, Tick, vars, bufVars
  <2> QED BY <2>1 DEF CountsPackets, slip_end
<1> QED BY <1>2, <1>3, <1>4 DEF Next, Flush

\* The indexes and the count agree with the bytes in slip_buf, whatever
\* write() takes and whenever packets are queued (slip_send, slip_flushbuf).
THEOREM IndexesAgree ==
  ASSUME OverlapCopies = {"ascending"}
  PROVE  Spec => []IndexesConsistent
<1> DEFINE Inv == SenderInv /\ CountsPackets
<1>1. Init => Inv
  <2> SUFFICES ASSUME Init PROVE CountsPackets
    BY InitEstablishesSenderInv
  <2>1. slip_buf = <<SLIP_END>> /\ slip_packet_count = 1
    BY DEF Init
  <2>2. {i \in 1..Len(slip_buf) : slip_buf[i] = SLIP_END} = {1}
    BY <2>1
  <2> QED BY <2>1, <2>2, FS_Singleton DEF CountsPackets, Ends
<1>2. Inv /\ [Next]_vars => Inv'
  BY NextKeepsSenderInv, CountKept
<1>3. Inv => IndexesConsistent
  BY DEF SenderInv, IndexesConsistent
<1> QED BY <1>1, <1>2, <1>3, PTL DEF Spec
-----------------------------------------------------------------------------
(* The frames of a byte sequence *)

\* e lists the SLIP_ENDs of a byte sequence in order.  That there is such a list
\* is not proved for every sequence, which takes induction, but for those that
\* the sender makes.
Enumerates(e, bytes) ==
  /\ e \in Seq(Nat)
  /\ \A k, l \in 1..Len(e) : k < l => e[k] < e[l]
  /\ \A k \in 1..Len(e) : e[k] \in Ends(bytes)
  /\ \A i \in Ends(bytes) : \E k \in 1..Len(e) : e[k] = i

\* The first n numbers of the list are counted.
LEMMA ListCounts ==
  ASSUME NEW e \in Seq(Nat), \A k, l \in 1..Len(e) : k < l => e[k] < e[l],
         NEW n \in 0..Len(e)
  PROVE  Cardinality({e[k] : k \in 1..n}) = n
<1> DEFINE f == [k \in 1..n |-> e[k]]
           T == {e[k] : k \in 1..n}
<1>0. Len(e) \in Nat /\ n \in Nat
  BY LenProperties
<1>1. \A k, l \in 1..n : f[k] = f[l] => k = l
  <2> SUFFICES ASSUME NEW k \in 1..n, NEW l \in 1..n, f[k] = f[l], k # l PROVE FALSE
    OBVIOUS
  <2>1. k \in 1..Len(e) /\ l \in 1..Len(e) /\ e[k] = e[l] /\ e[k] \in Nat
    BY <1>0
  <2>2. e[k] < e[l] \/ e[l] < e[k]
    BY <2>1
  <2> QED BY <2>1, <2>2
<1>2. f \in Bijection(1..n, T)
  <2>1. f \in [1..n -> T]
    OBVIOUS
  <2>2. \A t \in T : \E k \in 1..n : f[k] = t
    OBVIOUS
  <2> HIDE DEF f, T
  <2> QED BY <1>1, <2>1, <2>2 DEF Bijection, Injection, Surjection, IsInjective
<1> HIDE DEF f
<1>3. ExistsBijection(1..n, T)
  BY <1>2 DEF ExistsBijection
<1> HIDE DEF T
<1>4. Cardinality(T) = n
  BY <1>0, <1>3, FS_CountingElements
<1> QED BY <1>4 DEF T

LEMMA EndsListed ==
  ASSUME NEW bytes \in Seq(Byte), NEW e, Enumerates(e, bytes)
  PROVE  /\ Cardinality(Ends(bytes)) = Len(e)
         /\ \A k \in 1..Len(e) : NthEnd(bytes, k) = e[k]
<1> DEFINE Upto(i) == {j \in Ends(bytes) : j <= i}
<1>0. e \in Seq(Nat) /\ Len(e) \in Nat /\ \A k, l \in 1..Len(e) : k < l => e[k] < e[l]
  BY LenProperties DEF Enumerates
<1>1. ASSUME NEW k \in 1..Len(e) PROVE Cardinality(Upto(e[k])) = k
  <2>1. Upto(e[k]) = {e[l] : l \in 1..k}
    <3>1. ASSUME NEW j \in Upto(e[k]) PROVE \E l \in 1..k : j = e[l]
      <4>1. PICK l \in 1..Len(e) : e[l] = j
        BY DEF Enumerates
      <4>2. ~(k < l)
        <5>1. e[l] <= e[k] /\ e[l] \in Nat /\ e[k] \in Nat
          BY <1>0, <4>1
        <5> QED BY <1>0, <5>1
      <4> QED BY <4>1, <4>2
    <3>2. ASSUME NEW l \in 1..k PROVE e[l] \in Upto(e[k])
      <4>1. l \in 1..Len(e) /\ e[l] \in Ends(bytes) /\ e[l] \in Nat /\ e[k] \in Nat
        BY <1>0 DEF Enumerates
      <4>2. e[l] <= e[k]
        BY <1>0, <4>1
      <4> QED BY <4>1, <4>2
    <3> QED BY <3>1, <3>2
  <2>2. k \in 0..Len(e)
    OBVIOUS
  <2>3. Cardinality({e[l] : l \in 1..k}) = k
    BY <1>0, <2>2, ListCounts
  <2> QED BY <2>1, <2>3
<1>2. Cardinality(Ends(bytes)) = Len(e)
  <2>1. Ends(bytes) = {e[l] : l \in 1..Len(e)}
    BY DEF Enumerates
  <2>2. Len(e) \in 0..Len(e)
    BY <1>0
  <2>3. Cardinality({e[l] : l \in 1..Len(e)}) = Len(e)
    BY <1>0, <2>2, ListCounts
  <2> QED BY <2>1, <2>3
<1>3. ASSUME NEW k \in 1..Len(e) PROVE NthEnd(bytes, k) = e[k]
  <2>1. e[k] \in Ends(bytes) /\ Cardinality(Upto(e[k])) = k
    BY <1>1 DEF Enumerates
  <2>2. ASSUME NEW i \in Ends(bytes), Cardinality(Upto(i)) = k PROVE i = e[k]
    <3>1. PICK l \in 1..Len(e) : e[l] = i
      BY DEF Enumerates
    <3>2. Cardinality(Upto(e[l])) = l
      BY <1>1
    <3> QED BY <2>2, <3>1, <3>2
  <2> QED BY <2>1, <2>2 DEF NthEnd
<1> QED BY <1>2, <1>3

\* Where the frame k starts, less one.
Before(e, k) == IF k = 1 THEN 0 ELSE e[k - 1]

LEMMA FramesListed ==
  ASSUME NEW bytes \in Seq(Byte), NEW e, Enumerates(e, bytes)
  PROVE  FramesOf(bytes) = [k \in 1..Len(e) |-> SubSeq(bytes, Before(e, k) + 1, e[k])]
<1>1. Cardinality(Ends(bytes)) = Len(e) /\ \A k \in 1..Len(e) : NthEnd(bytes, k) = e[k]
  BY EndsListed
<1>2. Len(e) \in Nat
  BY LenProperties DEF Enumerates
<1>3. ASSUME NEW k \in 1..Len(e)
      PROVE  SubSeq(bytes, (IF k = 1 THEN 0 ELSE NthEnd(bytes, k - 1)) + 1, NthEnd(bytes, k))
               = SubSeq(bytes, Before(e, k) + 1, e[k])
  <2>1. CASE k = 1
    BY <1>1, <2>1 DEF Before
  <2>2. CASE k # 1
    <3>1. k - 1 \in 1..Len(e)
      BY <1>2, <2>2
    <3> QED BY <1>1, <2>2, <3>1 DEF Before
  <2> QED BY <2>1, <2>2
<1> QED BY <1>1, <1>3 DEF FramesOf

\* The bounds of a frame.
LEMMA FrameBounds ==
  ASSUME NEW bytes \in Seq(Byte), NEW e, Enumerates(e, bytes), NEW k \in 1..Len(e)
  PROVE  /\ Before(e, k) + 1 \in 1..Len(bytes) /\ e[k] \in 1..Len(bytes)
         /\ Before(e, k) \in Nat /\ Before(e, k) < e[k]
<1>1. e[k] \in 1..Len(bytes) /\ Len(bytes) \in Nat /\ Len(e) \in Nat
  BY LenProperties DEF Enumerates, Ends
<1>2. CASE k = 1
  BY <1>1, <1>2 DEF Before
<1>3. CASE k # 1
  <2>1. k - 1 \in 1..Len(e) /\ k - 1 < k
    BY <1>1, <1>3
  <2>2. e[k - 1] \in 1..Len(bytes) /\ e[k - 1] < e[k]
    BY <2>1 DEF Enumerates, Ends
  <2> QED BY <1>1, <1>3, <2>2 DEF Before
<1> QED BY <1>2, <1>3

\* Bytes without a SLIP_END add no frame.
LEMMA PartAdded ==
  ASSUME NEW b \in Seq(Byte), NEW f \in Seq(Byte), \A i \in 1..Len(f) : f[i] # SLIP_END,
         NEW e, Enumerates(e, b)
  PROVE  FramesOf(b \o f) = FramesOf(b)
<1> DEFINE g == b \o f
<1>1. /\ g \in Seq(Byte) /\ Len(g) = Len(b) + Len(f) /\ Len(b) \in Nat /\ Len(f) \in Nat
      /\ \A i \in 1..(Len(b) + Len(f)) : g[i] = IF i <= Len(b) THEN b[i] ELSE f[i - Len(b)]
  BY ConcatProperties, LenProperties
<1>2. ASSUME NEW m \in 1..Len(b), NEW n \in 1..Len(b) PROVE SubSeq(g, m, n) = SubSeq(b, m, n)
  BY SubSeqOfConcat1
<1> HIDE DEF g
<1>3. Ends(g) = Ends(b)
  <2>1. ASSUME NEW i \in Ends(g) PROVE i \in Ends(b)
    <3>1. i \in 1..Len(g) /\ g[i] = SLIP_END
      BY DEF Ends
    <3>2. i <= Len(b)
      <4> SUFFICES ASSUME ~(i <= Len(b)) PROVE FALSE
        OBVIOUS
      <4>1. i - Len(b) \in 1..Len(f) /\ g[i] = f[i - Len(b)]
        BY <1>1, <3>1
      <4> QED BY <3>1, <4>1
    <3> QED BY <1>1, <3>1, <3>2 DEF Ends
  <2>2. ASSUME NEW i \in Ends(b) PROVE i \in Ends(g)
    BY <1>1 DEF Ends
  <2> QED BY <2>1, <2>2
<1>4. Enumerates(e, g)
  BY <1>3 DEF Enumerates
<1>5. FramesOf(g) = [k \in 1..Len(e) |-> SubSeq(g, Before(e, k) + 1, e[k])]
  BY <1>1, <1>4, FramesListed
<1>6. FramesOf(b) = [k \in 1..Len(e) |-> SubSeq(b, Before(e, k) + 1, e[k])]
  BY FramesListed
<1>7. \A k \in 1..Len(e) : SubSeq(g, Before(e, k) + 1, e[k]) = SubSeq(b, Before(e, k) + 1, e[k])
  BY <1>2, FrameBounds
<1>8. FramesOf(g) = FramesOf(b)
  BY <1>5, <1>6, <1>7
<1> QED BY <1>8 DEF g

\* A sequence of whole frames, and one frame; the first byte sent, a SLIP_END
\* alone, is one too.
Whole(b) == b = <<>> \/ b[Len(b)] = SLIP_END
OneFrame(f) ==
  /\ f \in Seq(Byte) /\ f # <<>> /\ f[Len(f)] = SLIP_END
  /\ \A i \in 1..(Len(f) - 1) : f[i] # SLIP_END

LEMMA EndsOfWhole ==
  ASSUME NEW b \in Seq(Byte), Whole(b), NEW e, Enumerates(e, b)
  PROVE  Before(e, Len(e) + 1) = Len(b) /\ \A k \in 1..Len(e) : e[k] <= Len(b)
<1>0. e \in Seq(Nat) /\ Len(e) \in Nat /\ Len(b) \in Nat
  BY LenProperties DEF Enumerates
<1>1. \A k \in 1..Len(e) : e[k] \in 1..Len(b)
  BY DEF Enumerates, Ends
<1>2. CASE b = <<>>
  <2>1. Len(b) = 0
    BY <1>2
  <2>2. Len(e) = 0
    <3> SUFFICES ASSUME Len(e) # 0 PROVE FALSE
      OBVIOUS
    <3>1. 1 \in 1..Len(e)
      BY <1>0
    <3> QED BY <1>1, <2>1, <3>1
  <2> QED BY <2>1, <2>2 DEF Before
<1>3. CASE b # <<>>
  <2>1. Len(b) \in 1..Len(b) /\ b[Len(b)] = SLIP_END
    BY <1>3, <1>0, EmptySeq DEF Whole
  <2>2. PICK k \in 1..Len(e) : e[k] = Len(b)
    BY <2>1 DEF Enumerates, Ends
  <2>3. k = Len(e)
    <3> SUFFICES ASSUME k < Len(e) PROVE FALSE
      BY <1>0
    <3>1. Len(e) \in 1..Len(e)
      BY <1>0
    <3>2. e[k] < e[Len(e)]
      BY <3>1 DEF Enumerates
    <3> QED BY <1>0, <1>1, <2>2, <3>1, <3>2
  <2>4. Len(e) + 1 # 1 /\ Len(e) + 1 - 1 = Len(e)
    BY <1>0, <2>2
  <2> QED BY <1>1, <2>2, <2>3, <2>4 DEF Before
<1> QED BY <1>2, <1>3

\* A frame behind whole frames is one more.
LEMMA FrameAdded ==
  ASSUME NEW b \in Seq(Byte), Whole(b), NEW e, Enumerates(e, b), NEW f, OneFrame(f)
  PROVE  /\ FramesOf(b \o f) = Append(FramesOf(b), f)
         /\ Enumerates(Append(e, Len(b) + Len(f)), b \o f)
         /\ Whole(b \o f)
<1> DEFINE g == b \o f
           t == Len(b) + Len(f)
           d == Append(e, t)
<1>1. f \in Seq(Byte) /\ Len(f) \in Nat \ {0} /\ Len(b) \in Nat /\ e \in Seq(Nat) /\ Len(e) \in Nat
  BY EmptySeq, LenProperties DEF OneFrame, Enumerates
<1>2. /\ g \in Seq(Byte) /\ Len(g) = t
      /\ \A i \in 1..t : g[i] = IF i <= Len(b) THEN b[i] ELSE f[i - Len(b)]
  BY <1>1, ConcatProperties
<1>3. ASSUME NEW m \in 1..Len(b), NEW n \in 1..Len(b) PROVE SubSeq(g, m, n) = SubSeq(b, m, n)
  BY <1>1, SubSeqOfConcat1
<1>4. SubSeq(g, Len(b) + 1, t) = f
  <2> DEFINE m == Len(b) + 1
  <2>1. m \in Len(b) + 1..Len(b) + Len(f) /\ t \in Len(b) + 1..Len(b) + Len(f)
        /\ m - Len(b) = 1 /\ t - Len(b) = Len(f)
    BY <1>1
  <2> HIDE DEF m, t
  <2>2. SubSeq(g, m, t) = SubSeq(f, m - Len(b), t - Len(b))
    BY <1>1, <2>1, SubSeqOfConcat2
  <2>3. SubSeq(f, 1, Len(f)) = f
    BY <1>1, SubSeqFull
  <2> QED BY <2>1, <2>2, <2>3 DEF m
<1> HIDE DEF g
<1>5. Ends(g) = Ends(b) \cup {t}
  <2>1. ASSUME NEW i \in Ends(g) PROVE i \in Ends(b) \/ i = t
    <3>1. i \in 1..t /\ g[i] = SLIP_END
      BY <1>2 DEF Ends
    <3>2. CASE i <= Len(b)
      BY <1>1, <1>2, <3>1, <3>2 DEF Ends
    <3>3. CASE ~(i <= Len(b))
      <4>1. i - Len(b) \in 1..Len(f) /\ f[i - Len(b)] = SLIP_END
        BY <1>1, <1>2, <3>1, <3>3
      <4>2. ~(i - Len(b) \in 1..(Len(f) - 1))
        BY <4>1 DEF OneFrame
      <4>3. i - Len(b) = Len(f)
        BY <1>1, <4>1, <4>2
      <4> QED BY <1>1, <3>1, <4>3
    <3> QED BY <3>2, <3>3
  <2>2. ASSUME NEW i \in Ends(b) PROVE i \in Ends(g)
    BY <1>1, <1>2 DEF Ends
  <2>3. t \in Ends(g)
    <3>1. t \in 1..t /\ ~(t <= Len(b)) /\ t - Len(b) = Len(f)
      BY <1>1
    <3>2. g[t] = f[Len(f)]
      BY <1>2, <3>1
    <3> QED BY <1>2, <3>1, <3>2 DEF Ends, OneFrame
  <2> QED BY <2>1, <2>2, <2>3
<1>6. /\ d \in Seq(Nat) /\ Len(d) = Len(e) + 1 /\ d[Len(e) + 1] = t
      /\ \A k \in 1..Len(e) : d[k] = e[k]
  BY <1>1, AppendProperties
<1>7. t \in Nat /\ \A k \in 1..Len(e) : e[k] \in Nat /\ e[k] < t
  <2>1. \A k \in 1..Len(e) : e[k] \in Nat /\ e[k] <= Len(b)
    BY <1>1, EndsOfWhole
  <2> QED BY <1>1, <2>1
<1> HIDE DEF d, t
<1>8. Enumerates(d, g)
  <2>1. ASSUME NEW k \in 1..Len(d), NEW l \in 1..Len(d), k < l PROVE d[k] < d[l]
    <3>1. k \in 1..Len(e) /\ d[k] = e[k]
      BY <1>1, <1>6, <2>1
    <3>2. CASE l = Len(e) + 1
      BY <1>6, <1>7, <3>1, <3>2
    <3>3. CASE l # Len(e) + 1
      <4>1. l \in 1..Len(e) /\ d[l] = e[l]
        BY <1>1, <1>6, <3>3
      <4> QED BY <2>1, <3>1, <4>1 DEF Enumerates
    <3> QED BY <3>2, <3>3
  <2>2. \A k \in 1..Len(d) : k \in 1..Len(e) \/ k = Len(e) + 1
    BY <1>1, <1>6
  <2>3. \A k \in 1..Len(d) : d[k] \in Ends(g)
    BY <1>5, <1>6, <2>2 DEF Enumerates
  <2>4. ASSUME NEW i \in Ends(g) PROVE \E k \in 1..Len(d) : d[k] = i
    <3>1. \A k \in 1..Len(e) : k \in 1..Len(d)
      BY <1>1, <1>6
    <3>2. Len(e) + 1 \in 1..Len(d)
      BY <1>1, <1>6
    <3> QED BY <1>5, <1>6, <3>1, <3>2 DEF Enumerates
  <2> QED BY <1>6, <2>1, <2>3, <2>4 DEF Enumerates
<1>9. FramesOf(g) = Append(FramesOf(b), f)
  <2> DEFINE fs == FramesOf(b)
             gs == FramesOf(g)
             hs == Append(fs, f)
  <2>1. fs = [k \in 1..Len(e) |-> SubSeq(b, Before(e, k) + 1, e[k])]
    BY FramesListed
  <2>2. gs = [k \in 1..Len(d) |-> SubSeq(g, Before(d, k) + 1, d[k])]
    BY <1>2, <1>8, FramesListed
  <2>3. ASSUME NEW k \in 1..Len(e) PROVE gs[k] = fs[k] /\ fs[k] \in Seq(Byte)
    <3>1. k \in 1..Len(d) /\ d[k] = e[k]
      BY <1>1, <1>6
    <3>2. Before(d, k) = Before(e, k)
      <4>1. k # 1 => k - 1 \in 1..Len(e)
        BY <1>1
      <4> QED BY <1>6, <4>1 DEF Before
    <3>3. Before(e, k) + 1 \in 1..Len(b) /\ e[k] \in 1..Len(b) /\ Before(e, k) + 1 \in Nat \ {0}
          /\ e[k] \in Nat /\ e[k] <= Len(b)
      BY <1>1, FrameBounds
    <3>4. SubSeq(g, Before(e, k) + 1, e[k]) = SubSeq(b, Before(e, k) + 1, e[k])
      BY <1>3, <3>3
    <3>5. SubSeq(b, Before(e, k) + 1, e[k]) \in Seq(Byte)
      <4>1. \A i \in (Before(e, k) + 1)..e[k] : b[i] \in Byte
        BY <1>1, <3>3, ElementOfSeq
      <4> QED BY <3>3, <4>1, SubSeqProperties
    <3> QED BY <2>1, <2>2, <3>1, <3>2, <3>4, <3>5
  <2>4. gs[Len(e) + 1] = f
    <3>1. Before(d, Len(e) + 1) = Len(b)
      <4>1. Len(e) + 1 # 1 => Len(e) + 1 - 1 \in 1..Len(e)
        BY <1>1
      <4>2. Before(d, Len(e) + 1) = Before(e, Len(e) + 1)
        BY <1>6, <4>1 DEF Before
      <4> QED BY <4>2, EndsOfWhole
    <3>2. Len(e) + 1 \in 1..Len(d)
      BY <1>1, <1>6
    <3>3. gs[Len(e) + 1] = SubSeq(g, Before(d, Len(e) + 1) + 1, d[Len(e) + 1])
      BY <2>2, <3>2
    <3> QED BY <1>4, <1>6, <3>1, <3>3 DEF t
  <2> HIDE DEF gs
  <2>5. fs \in Seq(Seq(Byte)) /\ Len(fs) = Len(e)
    BY <1>1, <2>1, <2>3
  <2>6. gs \in Seq(Seq(Byte)) /\ Len(gs) = Len(e) + 1
    <3>1. \A k \in 1..Len(d) : gs[k] \in Seq(Byte)
      <4>1. \A k \in 1..Len(d) : k \in 1..Len(e) \/ k = Len(e) + 1
        BY <1>1, <1>6
      <4> QED BY <1>1, <2>3, <2>4, <4>1
    <3>2. Len(d) \in Nat
      BY <1>1, <1>6
    <3>3. gs \in [1..Len(d) -> Seq(Byte)]
      BY <2>2, <3>1
    <3> QED BY <1>6, <3>2, <3>3
  <2> HIDE DEF fs
  <2>7. /\ hs \in Seq(Seq(Byte)) /\ Len(hs) = Len(e) + 1 /\ hs[Len(e) + 1] = f
        /\ \A k \in 1..Len(e) : hs[k] = fs[k]
    <3>1. /\ Append(fs, f) \in Seq(Seq(Byte)) /\ Len(Append(fs, f)) = Len(fs) + 1
          /\ Append(fs, f)[Len(fs) + 1] = f
          /\ \A k \in 1..Len(fs) : Append(fs, f)[k] = fs[k]
      BY <1>1, <2>5, AppendProperties
    <3> QED BY <2>5, <3>1
  <2> HIDE DEF hs
  <2>8. \A k \in 1..(Len(e) + 1) : gs[k] = hs[k]
    <3>1. \A k \in 1..(Len(e) + 1) : k \in 1..Len(e) \/ k = Len(e) + 1
      BY <1>1
    <3> QED BY <2>3, <2>4, <2>7, <3>1
  <2>9. gs = hs
    BY <2>6, <2>7, <2>8, SeqEqual
  <2> QED BY <2>9 DEF gs, hs, fs
<1>10. Whole(g)
  <2>1. t \in 1..t /\ ~(t <= Len(b)) /\ t - Len(b) = Len(f)
    BY <1>1 DEF t
  <2> QED BY <1>2, <2>1 DEF Whole, OneFrame
<1> QED BY <1>8, <1>9, <1>10 DEF g, d, t

\* Taking the first frame away leaves the others.
LEMMA FrameDropped ==
  ASSUME NEW f, OneFrame(f), NEW r \in Seq(Byte), NEW e, Enumerates(e, f \o r)
  PROVE  /\ \E d : Enumerates(d, r)
         /\ FramesOf(f \o r) # <<>>
         /\ Head(FramesOf(f \o r)) = f
         /\ Tail(FramesOf(f \o r)) = FramesOf(r)
<1> DEFINE g == f \o r
           n == Len(f)
           d == [k \in 1..(Len(e) - 1) |-> e[k + 1] - n]
<1>1. f \in Seq(Byte) /\ n \in Nat \ {0} /\ Len(r) \in Nat
  BY EmptySeq, LenProperties DEF OneFrame
<1>2. /\ g \in Seq(Byte) /\ Len(g) = n + Len(r)
      /\ \A i \in 1..(n + Len(r)) : g[i] = IF i <= n THEN f[i] ELSE r[i - n]
  BY <1>1, ConcatProperties
<1>3. SubSeq(g, 1, n) = f
  <2>1. 1 \in 1..n /\ n \in 1..n
    BY <1>1
  <2>2. SubSeq(g, 1, n) = SubSeq(f, 1, n)
    BY <1>1, <2>1, SubSeqOfConcat1
  <2> QED BY <1>1, <2>2, SubSeqFull
<1>4. ASSUME NEW m \in (n + 1)..(n + Len(r)), NEW l \in (n + 1)..(n + Len(r))
      PROVE  SubSeq(g, m, l) = SubSeq(r, m - n, l - n)
  BY <1>1, SubSeqOfConcat2
<1>5. Enumerates(e, g)
  OBVIOUS
<1> HIDE DEF g, n
<1>6. /\ e \in Seq(Nat) /\ Len(e) \in Nat
      /\ \A k, l \in 1..Len(e) : k < l => e[k] < e[l]
      /\ \A k \in 1..Len(e) : e[k] \in Ends(g)
      /\ \A i \in Ends(g) : \E k \in 1..Len(e) : e[k] = i
  BY <1>5, LenProperties DEF Enumerates
<1>7. n \in Ends(g) /\ \A i \in Ends(g) : i \in Nat /\ i >= n
  <2>1. n \in Ends(g)
    BY <1>1, <1>2 DEF Ends, OneFrame, n
  <2>2. ASSUME NEW i \in Ends(g) PROVE i \in Nat /\ i >= n
    <3>1. i \in 1..(n + Len(r)) /\ g[i] = SLIP_END
      BY <1>2 DEF Ends
    <3>2. ~(i \in 1..(n - 1))
      <4> SUFFICES ASSUME i \in 1..(n - 1) PROVE FALSE
        OBVIOUS
      <4>1. g[i] = f[i] /\ f[i] # SLIP_END
        BY <1>1, <1>2, <3>1 DEF OneFrame, n
      <4> QED BY <3>1, <4>1
    <3> QED BY <1>1, <3>1, <3>2
  <2> QED BY <2>1, <2>2
<1>8. Len(e) >= 1 /\ e[1] = n
  <2>1. PICK k \in 1..Len(e) : e[k] = n
    BY <1>6, <1>7
  <2>2. 1 \in 1..Len(e)
    BY <1>6, <2>1
  <2>3. ~(1 < k)
    <3> SUFFICES ASSUME 1 < k PROVE FALSE
      OBVIOUS
    <3>1. e[1] < n
      BY <1>6, <2>1, <2>2
    <3>2. e[1] \in Nat /\ e[1] >= n
      BY <1>6, <1>7, <2>2
    <3> QED BY <1>1, <3>1, <3>2
  <2> QED BY <1>6, <2>1, <2>2, <2>3
<1>9. ASSUME NEW k \in 2..Len(e)
      PROVE  /\ e[k] \in (n + 1)..(n + Len(r)) /\ e[k] - n \in Ends(r)
             /\ e[k] \in Nat
  <2>1. k \in 1..Len(e) /\ 1 \in 1..Len(e) /\ 1 < k
    BY <1>6
  <2>2. e[1] < e[k] /\ e[k] \in Ends(g)
    BY <1>6, <2>1
  <2>3. e[k] \in (n + 1)..(n + Len(r)) /\ g[e[k]] = SLIP_END
    BY <1>1, <1>2, <1>8, <2>2 DEF Ends
  <2>4. r[e[k] - n] = SLIP_END
    BY <1>1, <1>2, <2>3
  <2> QED BY <1>1, <2>3, <2>4 DEF Ends
<1>10. /\ d \in Seq(Nat) /\ Len(d) = Len(e) - 1
       /\ \A k \in 1..(Len(e) - 1) : d[k] = e[k + 1] - n
  <2>1. Len(e) - 1 \in Nat
    BY <1>6, <1>8
  <2>2. \A k \in 1..(Len(e) - 1) : e[k + 1] - n \in Nat
    <3> SUFFICES ASSUME NEW k \in 1..(Len(e) - 1) PROVE e[k + 1] - n \in Nat
      OBVIOUS
    <3>1. k + 1 \in 2..Len(e)
      BY <1>6
    <3> QED BY <1>1, <1>9, <3>1
  <2> DEFINE m == Len(e) - 1
  <2>3. d \in [1..m -> Nat] /\ \A k \in 1..m : d[k] = e[k + 1] - n
    BY <2>2
  <2> HIDE DEF d, m
  <2>4. d \in Seq(Nat) /\ Len(d) = m
    BY <2>1, <2>3 DEF m
  <2> QED BY <2>3, <2>4 DEF m
<1> HIDE DEF d
<1>11. Enumerates(d, r)
  <2>1. ASSUME NEW k \in 1..Len(d), NEW l \in 1..Len(d), k < l PROVE d[k] < d[l]
    <3>1. k + 1 \in 1..Len(e) /\ l + 1 \in 1..Len(e) /\ k + 1 < l + 1
          /\ k + 1 \in 2..Len(e) /\ l + 1 \in 2..Len(e)
      BY <1>6, <1>10, <2>1
    <3>2. e[k + 1] < e[l + 1]
      BY <1>6, <3>1
    <3>3. d[k] = e[k + 1] - n /\ d[l] = e[l + 1] - n
      BY <1>10
    <3>4. e[k + 1] \in Nat /\ e[l + 1] \in Nat
      BY <1>9, <3>1
    <3> QED BY <1>1, <3>2, <3>3, <3>4
  <2>2. ASSUME NEW k \in 1..Len(d) PROVE d[k] \in Ends(r)
    <3>1. k + 1 \in 2..Len(e) /\ d[k] = e[k + 1] - n
      BY <1>6, <1>10
    <3> QED BY <1>9, <3>1
  <2>3. ASSUME NEW i \in Ends(r) PROVE \E k \in 1..Len(d) : d[k] = i
    <3>1. i \in 1..Len(r) /\ r[i] = SLIP_END
      BY DEF Ends
    <3> DEFINE m == i + n
    <3>2. m \in 1..(n + Len(r)) /\ ~(m <= n) /\ m - n = i
      BY <1>1, <3>1
    <3> HIDE DEF m
    <3>3. m \in Ends(g)
      <4>1. g[m] = r[m - n]
        BY <1>2, <3>2
      <4> QED BY <1>2, <3>1, <3>2, <4>1 DEF Ends
    <3>4. PICK k \in 1..Len(e) : e[k] = m
      BY <1>6, <3>3
    <3>5. k # 1
      BY <1>8, <3>2, <3>4, <1>1
    <3>6. PICK l \in 1..Len(d) : l + 1 = k
      <4>1. k - 1 \in 1..Len(d) /\ k - 1 + 1 = k
        BY <1>6, <1>10, <3>5
      <4> QED BY <4>1
    <3>7. d[l] = e[k] - n
      BY <1>10, <3>6
    <3> QED BY <3>2, <3>4, <3>7
  <2> QED BY <1>10, <2>1, <2>2, <2>3 DEF Enumerates
<1> DEFINE gs == FramesOf(g)
           rs == FramesOf(r)
<1>12. gs = [k \in 1..Len(e) |-> SubSeq(g, Before(e, k) + 1, e[k])]
  BY <1>2, <1>5, FramesListed
<1>13. rs = [k \in 1..Len(d) |-> SubSeq(r, Before(d, k) + 1, d[k])]
  BY <1>11, FramesListed
<1>14. gs[1] = f
  <2>1. 1 \in 1..Len(e) /\ Before(e, 1) + 1 = 1
    BY <1>6, <1>8 DEF Before
  <2> QED BY <1>3, <1>8, <1>12, <2>1
<1>15. ASSUME NEW k \in 1..Len(d) PROVE gs[k + 1] = rs[k] /\ rs[k] \in Seq(Byte)
  <2>1. k + 1 \in 1..Len(e) /\ k + 1 \in 2..Len(e) /\ k + 1 # 1 /\ k + 1 - 1 = k
    BY <1>6, <1>10
  <2>2. Before(e, k + 1) = e[k] /\ e[k] \in Nat
    BY <1>6, <2>1 DEF Before
  <2>3. Before(d, k) = e[k] - n /\ d[k] = e[k + 1] - n
    <3>1. CASE k = 1
      BY <1>1, <1>8, <1>10, <3>1 DEF Before
    <3>2. CASE k # 1
      <4>1. k - 1 \in 1..(Len(e) - 1) /\ k - 1 + 1 = k
        BY <1>10, <3>2
      <4>2. d[k - 1] = e[k] - n
        BY <1>10, <4>1
      <4> QED BY <1>10, <3>2, <4>2 DEF Before
    <3> QED BY <3>1, <3>2
  <2> DEFINE b == Before(d, k)
             t == d[k]
  <2>4. b + 1 \in 1..Len(r) /\ t \in 1..Len(r) /\ b \in Nat /\ b < t
    BY <1>11, FrameBounds
  <2>5. e[k] + 1 = n + (b + 1) /\ e[k + 1] = n + t
    <3>1. e[k + 1] \in Nat
      BY <1>9, <2>1
    <3> QED BY <1>1, <2>2, <2>3, <3>1
  <2>6. gs[k + 1] = SubSeq(g, e[k] + 1, e[k + 1])
    BY <1>12, <2>1, <2>2
  <2>7. rs[k] = SubSeq(r, b + 1, t)
    BY <1>13
  <2> HIDE DEF b, t
  <2>8. SubSeq(g, n + (b + 1), n + t) = SubSeq(r, b + 1, t)
    <3> DEFINE m == n + (b + 1)
               l == n + t
    <3>1. m \in (n + 1)..(n + Len(r)) /\ l \in (n + 1)..(n + Len(r))
          /\ m - n = b + 1 /\ l - n = t
      BY <1>1, <2>4
    <3> HIDE DEF m, l
    <3>2. SubSeq(g, m, l) = SubSeq(r, m - n, l - n)
      BY <1>4, <3>1
    <3> QED BY <3>1, <3>2 DEF m, l
  <2>9. SubSeq(r, b + 1, t) \in Seq(Byte)
    <3>1. \A i \in (b + 1)..t : r[i] \in Byte
      BY <1>1, <2>4, ElementOfSeq
    <3>2. b + 1 \in Int /\ t \in Int
      BY <2>4
    <3> QED BY <3>1, <3>2, SubSeqProperties
  <2> HIDE DEF gs, rs
  <2> QED BY <2>5, <2>6, <2>7, <2>8, <2>9
<1>16. rs \in Seq(Seq(Byte)) /\ Len(rs) = Len(d) /\ Len(d) \in Nat
  <2>1. \A k \in 1..Len(d) : rs[k] \in Seq(Byte)
    BY <1>15
  <2>2. Len(d) \in Nat
    BY <1>6, <1>8, <1>10
  <2>3. rs \in [1..Len(d) -> Seq(Byte)]
    BY <1>13, <2>1
  <2> QED BY <2>2, <2>3
<1>17. gs \in Seq(Seq(Byte)) /\ Len(gs) = Len(e)
  <2>1. ASSUME NEW k \in 1..Len(e) PROVE gs[k] \in Seq(Byte)
    <3>1. CASE k = 1
      BY <1>1, <1>14, <3>1
    <3>2. CASE k # 1
      <4>1. k - 1 \in 1..Len(d) /\ k - 1 + 1 = k
        BY <1>6, <1>10, <3>2
      <4>2. gs[k - 1 + 1] = rs[k - 1] /\ rs[k - 1] \in Seq(Byte)
        BY <1>15, <4>1
      <4> QED BY <4>1, <4>2
    <3> QED BY <3>1, <3>2
  <2>2. gs \in [1..Len(e) -> Seq(Byte)]
    BY <1>12, <2>1
  <2> DEFINE m == Len(e)
  <2> HIDE DEF gs, m
  <2>3. m \in Nat /\ gs \in [1..m -> Seq(Byte)]
    BY <1>6, <2>2 DEF m
  <2>4. gs \in Seq(Seq(Byte)) /\ Len(gs) = m
    BY <2>3
  <2> QED BY <2>4 DEF m
<1> HIDE DEF gs, rs
<1>18. gs # <<>> /\ Head(gs) = f
  BY <1>6, <1>8, <1>14, <1>17
<1>19. Tail(gs) = rs
  <2> DEFINE u == Tail(gs)
  <2>1. /\ u \in Seq(Seq(Byte)) /\ Len(u) = Len(gs) - 1
        /\ \A i \in 1..Len(u) : u[i] = gs[i + 1]
    BY <1>17, <1>18, HeadTailProperties
  <2> HIDE DEF u
  <2>2. Len(u) = Len(rs) /\ \A i \in 1..Len(u) : u[i] = rs[i]
    BY <1>10, <1>15, <1>16, <1>17, <2>1
  <2>3. u = rs
    BY <1>16, <2>1, <2>2, SeqEqual
  <2> QED BY <2>3 DEF u
<1> QED BY <1>11, <1>18, <1>19 DEF g, gs, rs
-----------------------------------------------------------------------------
(* The sender implements a queue of frames *)

\* What makes the frames of slip_buf and of wire countable: their SLIP_ENDs are
\* listed, and wire is whole frames followed by what is written of the first
\* frame in slip_buf.
Listed(bytes) == \E e : Enumerates(e, bytes)
Written == SubSeq(slip_buf, 1, slip_begin)
CutInv ==
  /\ Listed(slip_buf)
  /\ \E w \in Seq(Byte) : Whole(w) /\ Listed(w) /\ wire = w \o Written

\* The parts of the first n bytes of the buffer.
LEMMA Prefix ==
  ASSUME NEW b \in Seq(Byte), NEW n \in 0..Len(b)
  PROVE  /\ SubSeq(b, 1, n) \in Seq(Byte) /\ Len(SubSeq(b, 1, n)) = n
         /\ \A i \in 1..n : SubSeq(b, 1, n)[i] = b[i]
<1>1. n \in Nat /\ Len(b) \in Nat
  BY LenProperties
<1>2. \A i \in 1..n : b[i] \in Byte
  BY <1>1, ElementOfSeq
<1> QED BY <1>1, <1>2, SubSeqProperties

LEMMA NoBytesListed ==
  /\ <<>> \in Seq(Byte) /\ Whole(<<>>) /\ Enumerates(<<>>, <<>>) /\ FramesOf(<<>>) = <<>>
<1>1. <<>> \in Seq(Byte) /\ <<>> \in Seq(Nat) /\ Len(<<>>) = 0
  OBVIOUS
<1>2. Ends(<<>>) = {}
  BY <1>1 DEF Ends
<1>3. Enumerates(<<>>, <<>>)
  BY <1>1, <1>2 DEF Enumerates
<1>4. FramesOf(<<>>) = <<>>
  <2> DEFINE b == <<>>
             e == <<>>
  <2>1. b \in Seq(Byte) /\ Enumerates(e, b) /\ Len(e) = 0
    BY <1>1, <1>3
  <2> HIDE DEF b, e
  <2>2. FramesOf(b) = [k \in 1..Len(e) |-> SubSeq(b, Before(e, k) + 1, e[k])]
    BY <2>1, FramesListed
  <2>3. FramesOf(b) = <<>>
    BY <2>1, <2>2
  <2> QED BY <2>3 DEF b
<1> QED BY <1>1, <1>3, <1>4 DEF Whole

LEMMA InitCut ==
  ASSUME Init
  PROVE  CutInv /\ FramesOf(slip_buf) = <<<<SLIP_END>>>> /\ FramesOf(wire) = <<>>
<1> DEFINE f == <<SLIP_END>>
<1>1. f \in Seq(Byte) /\ Len(f) = 1 /\ f[1] = SLIP_END
  BY EndIsByte
<1>2. slip_buf = f /\ slip_begin = 0 /\ wire = <<>>
  BY DEF Init
<1> HIDE DEF f
<1>3. OneFrame(f)
  <2>1. f # <<>> /\ f[Len(f)] = SLIP_END
    BY <1>1
  <2>2. \A i \in 1..(Len(f) - 1) : f[i] # SLIP_END
    BY <1>1
  <2> QED BY <1>1, <2>1, <2>2 DEF OneFrame
<1>4. <<>> \o f = f
  BY <1>1, ConcatEmptySeq
<1>5. /\ FramesOf(f) = Append(FramesOf(<<>>), f)
      /\ Enumerates(Append(<<>>, Len(<<>>) + Len(f)), f)
  BY <1>3, <1>4, NoBytesListed, FrameAdded
<1>6. FramesOf(f) = <<f>>
  <2>1. FramesOf(f) = Append(<<>>, f)
    BY <1>5, NoBytesListed
  <2> QED BY <2>1
<1>7. Written = <<>>
  BY <1>2 DEF Written
<1>8. wire = <<>> \o Written
  BY <1>2, <1>7, NoBytesListed, ConcatEmptySeq
<1>9. CutInv
  <2>1. Listed(slip_buf)
    BY <1>2, <1>5 DEF Listed
  <2>2. Listed(<<>>)
    BY NoBytesListed DEF Listed
  <2> QED BY <1>8, <2>1, <2>2, NoBytesListed DEF CutInv
<1> QED BY <1>2, <1>6, <1>9, NoBytesListed DEF f

LEMMA BufferWhole ==
  ASSUME SenderInv
  PROVE  /\ slip_buf \in Seq(Byte) /\ Whole(slip_buf) /\ slip_begin \in 0..Len(slip_buf)
         /\ Len(slip_buf) \in Nat
<1>1. slip_buf \in Seq(Byte) /\ Len(slip_buf) \in Nat
  BY LenProperties DEF SenderInv, TypeOK
<1>2. slip_begin \in 0..Len(slip_buf)
  BY <1>1 DEF SenderInv, TypeOK, FirstPacketDelimited, BufferShape, slip_empty, slip_end
<1>3. Whole(slip_buf)
  BY <1>1, EmptySeq DEF SenderInv, BufferShape, slip_end, Whole
<1> QED BY <1>1, <1>2, <1>3

\* A packet queued is a frame accepted.
LEMMA WriteToSlipAccepts ==
  ASSUME SenderInv, CutInv, NEW p \in Payloads, WriteToSlip(p)
  PROVE  /\ CutInv'
         /\ FramesOf(slip_buf') = Append(FramesOf(slip_buf), WriteToSerial(p))
<1> DEFINE f == WriteToSerial(p)
<1>1. OneFrame(f) /\ f \in Seq(Byte)
  <2>1. IsFrame(f)
    BY WriteToSerialIsFrame
  <2> HIDE DEF f
  <2> QED BY <2>1, EmptySeq DEF IsFrame, OneFrame
<1>2. slip_buf' = slip_buf \o f /\ slip_begin' = slip_begin /\ wire' = wire
  BY DEF WriteToSlip
<1> HIDE DEF f
<1>3. PICK e : Enumerates(e, slip_buf)
  BY DEF CutInv, Listed
<1>4. /\ FramesOf(slip_buf \o f) = Append(FramesOf(slip_buf), f)
      /\ Enumerates(Append(e, Len(slip_buf) + Len(f)), slip_buf \o f)
  BY <1>1, <1>3, BufferWhole, FrameAdded
<1>5. Written' = Written
  <2>1. SubSeq(slip_buf \o f, 1, slip_begin) = SubSeq(slip_buf, 1, slip_begin)
    <3>1. CASE slip_begin = 0
      BY <3>1, SubSeqEmpty
    <3>2. CASE slip_begin # 0
      <4>1. 1 \in 1..Len(slip_buf) /\ slip_begin \in 1..Len(slip_buf)
        BY <3>2, BufferWhole
      <4> QED BY <1>1, <4>1, BufferWhole, SubSeqOfConcat1
    <3> QED BY <3>1, <3>2
  <2> QED BY <1>2, <2>1 DEF Written
<1>6. CutInv'
  <2>1. Listed(slip_buf')
    BY <1>2, <1>4 DEF Listed
  <2>2. PICK w \in Seq(Byte) : Whole(w) /\ Listed(w) /\ wire = w \o Written
    BY DEF CutInv
  <2>3. wire' = w \o Written'
    BY <1>2, <1>5, <2>2
  <2> QED BY <2>1, <2>2, <2>3 DEF CutInv
<1> QED BY <1>2, <1>4, <1>6 DEF f

\* Part of the first frame completes none.
LEMMA PartOfFrame ==
  ASSUME SenderInv, NEW w \in Seq(Byte), Listed(w), ~slip_empty, NEW n \in 0..(slip_packet_end - 1)
  PROVE  FramesOf(w \o SubSeq(slip_buf, 1, n)) = FramesOf(w)
<1> DEFINE f == SubSeq(slip_buf, 1, n)
<1>1. n \in 0..Len(slip_buf) /\ \A i \in 1..n : slip_buf[i] # SLIP_END
  BY BufferWhole DEF SenderInv, TypeOK, FirstPacketDelimited, slip_end
<1>2. f \in Seq(Byte) /\ Len(f) = n /\ \A i \in 1..n : f[i] = slip_buf[i]
  BY <1>1, BufferWhole, Prefix
<1> HIDE DEF f
<1>3. \A i \in 1..Len(f) : f[i] # SLIP_END
  BY <1>1, <1>2
<1>4. PICK e : Enumerates(e, w)
  BY DEF Listed
<1>5. FramesOf(w \o f) = FramesOf(w)
  BY <1>2, <1>3, <1>4, PartAdded
<1> QED BY <1>5 DEF f

\* A partial write completes no frame.
LEMMA FlushPartDelivers ==
  ASSUME SenderInv, CutInv, NEW n \in 1..BufSize, FlushPart(n)
  PROVE  CutInv' /\ FramesOf(wire') = FramesOf(wire)
<1> DEFINE m == slip_begin + n
           a == SubSeq(slip_buf, slip_begin + 1, m)
           z == SubSeq(slip_buf, 1, m)
<1>1. /\ m \in 0..(slip_packet_end - 1) /\ m \in slip_begin..Len(slip_buf)
      /\ slip_begin \in 0..(slip_packet_end - 1) /\ ~slip_empty
      /\ slip_begin \in 0..Len(slip_buf) /\ m \in 0..Len(slip_buf) /\ m \in Nat
  <2>1. slip_begin \in Nat /\ n \in Nat /\ slip_packet_end \in Nat
        /\ slip_packet_end <= Len(slip_buf) /\ Len(slip_buf) \in Nat
        /\ slip_begin < slip_packet_end /\ m < slip_packet_end /\ ~slip_empty
    BY BufferWhole, SizesAssumption
       DEF FlushPart, WantsToWrite, SenderInv, TypeOK, FirstPacketDelimited, slip_end
  <2> QED BY <2>1
<1>2. slip_buf' = slip_buf /\ slip_begin' = m /\ wire' = wire \o a
  BY DEF FlushPart
<1>3. PICK w \in Seq(Byte) : Whole(w) /\ Listed(w) /\ wire = w \o Written
  BY DEF CutInv
<1> HIDE DEF m
<1>4. Written \o a = z /\ Written \in Seq(Byte) /\ a \in Seq(Byte)
  <2>1. a \in Seq(Byte)
    BY <1>1, BufferWhole, SplitSuffix
  <2>2. Written \in Seq(Byte)
    BY BufferWhole, Prefix DEF Written
  <2>3. 1 \in 1..(Len(slip_buf) + 1) /\ slip_begin \in (1 - 1)..Len(slip_buf)
        /\ m \in slip_begin..Len(slip_buf)
    BY <1>1, BufferWhole
  <2>4. SubSeq(slip_buf, 1, slip_begin) \o SubSeq(slip_buf, slip_begin + 1, m)
          = SubSeq(slip_buf, 1, m)
    BY <2>3, BufferWhole, ConcatAdjacentSubSeq
  <2> QED BY <2>1, <2>2, <2>4 DEF Written
<1> HIDE DEF a
<1>5. wire' = w \o z
  <2> DEFINE b == Written
  <2>0. w \in Seq(Byte) /\ b \in Seq(Byte) /\ a \in Seq(Byte)
    BY <1>4
  <2> HIDE DEF b
  <2>1. (w \o b) \o a = w \o (b \o a)
    BY <2>0, ConcatAssociative
  <2> QED BY <1>2, <1>3, <1>4, <2>1 DEF b
<1>6. FramesOf(wire') = FramesOf(w) /\ FramesOf(wire) = FramesOf(w)
  BY <1>1, <1>3, <1>5, PartOfFrame DEF Written
<1>7. Written' = z
  BY <1>2 DEF Written
<1>8. CutInv'
  BY <1>2, <1>3, <1>5, <1>7 DEF CutInv
<1> QED BY <1>6, <1>8

\* Completing a packet delivers the first frame.
LEMMA FlushLastDelivers ==
  ASSUME SenderInv, CutInv, FlushLast("ascending")
  PROVE  /\ CutInv'
         /\ FramesOf(slip_buf) # <<>>
         /\ FramesOf(slip_buf') = Tail(FramesOf(slip_buf))
         /\ FramesOf(wire') = Append(FramesOf(wire), Head(FramesOf(slip_buf)))
<1> DEFINE k == slip_packet_end
           f == SubSeq(slip_buf, 1, k)
           a == SubSeq(slip_buf, slip_begin + 1, k)
           rest == SubSeq(slip_buf, k + 1, Len(slip_buf))
<1>1. /\ k \in 1..Len(slip_buf) /\ k \in 0..Len(slip_buf) /\ k \in slip_begin..Len(slip_buf)
      /\ slip_begin \in 0..(k - 1) /\ ~slip_empty /\ slip_begin \in 0..Len(slip_buf)
      /\ slip_buf[k] = SLIP_END /\ \A i \in 1..(k - 1) : slip_buf[i] # SLIP_END
  <2>1. /\ slip_begin \in Nat /\ k \in Nat /\ k <= Len(slip_buf) /\ Len(slip_buf) \in Nat
        /\ slip_begin < k /\ ~slip_empty
        /\ slip_buf[k] = SLIP_END /\ \A i \in 1..(k - 1) : slip_buf[i] # SLIP_END
    BY BufferWhole
       DEF FlushLast, WantsToWrite, SenderInv, TypeOK, FirstPacketDelimited, slip_end
  <2> HIDE DEF k
  <2> QED BY <2>1
<1>2. slip_buf' = rest /\ slip_begin' = 0 /\ wire' = wire \o a
  BY <1>1, BufferWhole, AscendingMove DEF FlushLast
<1>3. OneFrame(f) /\ f \in Seq(Byte)
  <2>1. f \in Seq(Byte) /\ Len(f) = k /\ \A i \in 1..k : f[i] = slip_buf[i]
    BY <1>1, BufferWhole, Prefix
  <2> HIDE DEF f, k
  <2>2. f # <<>> /\ f[Len(f)] = SLIP_END
    BY <1>1, <2>1, EmptySeq
  <2>3. \A i \in 1..(Len(f) - 1) : f[i] # SLIP_END
    BY <1>1, <2>1
  <2> QED BY <2>1, <2>2, <2>3 DEF OneFrame
<1> HIDE DEF k
<1>4. slip_buf = f \o rest /\ rest \in Seq(Byte)
  <2>1. 1 \in 1..(Len(slip_buf) + 1) /\ k \in (1 - 1)..Len(slip_buf)
        /\ Len(slip_buf) \in k..Len(slip_buf) /\ k \in k..Len(slip_buf)
    BY <1>1, BufferWhole
  <2>2. SubSeq(slip_buf, 1, k) \o SubSeq(slip_buf, k + 1, Len(slip_buf))
          = SubSeq(slip_buf, 1, Len(slip_buf))
    BY <2>1, BufferWhole, ConcatAdjacentSubSeq
  <2>3. SubSeq(slip_buf, 1, Len(slip_buf)) = slip_buf
    BY BufferWhole, SubSeqFull
  <2>4. rest \in Seq(Byte)
    BY <1>1, <2>1, BufferWhole, SplitSuffix
  <2> QED BY <2>2, <2>3, <2>4
<1>5. Written \o a = f /\ Written \in Seq(Byte) /\ a \in Seq(Byte)
  <2>1. a \in Seq(Byte)
    BY <1>1, BufferWhole, SplitSuffix
  <2>2. Written \in Seq(Byte)
    BY BufferWhole, Prefix DEF Written
  <2>3. 1 \in 1..(Len(slip_buf) + 1) /\ slip_begin \in (1 - 1)..Len(slip_buf)
        /\ k \in slip_begin..Len(slip_buf)
    BY <1>1, BufferWhole
  <2>4. SubSeq(slip_buf, 1, slip_begin) \o SubSeq(slip_buf, slip_begin + 1, k)
          = SubSeq(slip_buf, 1, k)
    BY <2>3, BufferWhole, ConcatAdjacentSubSeq
  <2> QED BY <2>1, <2>2, <2>4 DEF Written
<1> HIDE DEF f, a, rest
<1>6. PICK w \in Seq(Byte) : Whole(w) /\ Listed(w) /\ wire = w \o Written
  BY DEF CutInv
<1>7. wire' = w \o f
  <2> DEFINE b == Written
  <2>0. w \in Seq(Byte) /\ b \in Seq(Byte) /\ a \in Seq(Byte)
    BY <1>5
  <2> HIDE DEF b
  <2>1. (w \o b) \o a = w \o (b \o a)
    BY <2>0, ConcatAssociative
  <2> QED BY <1>2, <1>5, <1>6, <2>1 DEF b
<1>8. FramesOf(wire) = FramesOf(w)
  BY <1>1, <1>6, PartOfFrame DEF Written, k
<1>9. PICK e : Enumerates(e, w)
  BY <1>6 DEF Listed
<1>10. /\ FramesOf(w \o f) = Append(FramesOf(w), f)
       /\ Enumerates(Append(e, Len(w) + Len(f)), w \o f)
       /\ Whole(w \o f)
  BY <1>3, <1>6, <1>9, FrameAdded
<1>11. PICK d : Enumerates(d, f \o rest)
  BY <1>4 DEF CutInv, Listed
<1>12. /\ \E c : Enumerates(c, rest)
       /\ FramesOf(f \o rest) # <<>>
       /\ Head(FramesOf(f \o rest)) = f
       /\ Tail(FramesOf(f \o rest)) = FramesOf(rest)
  BY <1>3, <1>4, <1>11, FrameDropped
<1>13. CutInv'
  <2>1. Listed(slip_buf')
    BY <1>2, <1>12 DEF Listed
  <2>2. w \o f \in Seq(Byte)
    BY <1>3, ConcatProperties
  <2>3. Written' = <<>>
    BY <1>2 DEF Written
  <2>4. wire' = (w \o f) \o Written'
    BY <1>7, <2>2, <2>3, ConcatEmptySeq
  <2>5. Listed(w \o f)
    BY <1>10 DEF Listed
  <2> QED BY <1>10, <2>1, <2>2, <2>4, <2>5 DEF CutInv
<1> QED BY <1>2, <1>4, <1>7, <1>8, <1>10, <1>12, <1>13

\* Every step of the sender is a step of the queue, or none.
LEMMA NextKeepsCut ==
  ASSUME OverlapCopies = {"ascending"}, SenderInv, CutInv, [Next]_vars
  PROVE  CutInv' /\ [Queue!Next]_(Queue!vars)
<1> DEFINE Refined == CutInv' /\ [Queue!Next]_(Queue!vars)
<1>1. ASSUME NEW p \in Payloads, WriteToSlip(p) PROVE Refined
  <2>1. CutInv' /\ FramesOf(slip_buf') = Append(FramesOf(slip_buf), WriteToSerial(p))
    BY <1>1, WriteToSlipAccepts
  <2>2. running /\ running' = running /\ wire' = wire
    BY <1>1 DEF WriteToSlip
  <2>3. Queue!Accept(WriteToSerial(p))
    BY <2>1, <2>2 DEF Queue!Accept
  <2> QED BY <2>1, <2>3 DEF Queue!Next
<1>2. ASSUME NEW n \in 1..BufSize, FlushPart(n) PROVE Refined
  <2>1. CutInv' /\ FramesOf(wire') = FramesOf(wire)
    BY <1>2, FlushPartDelivers
  <2>2. running' = running /\ slip_buf' = slip_buf
    BY <1>2 DEF FlushPart
  <2> QED BY <2>1, <2>2 DEF Queue!vars
<1>3. ASSUME NEW how \in OverlapCopies, FlushLast(how) PROVE Refined
  <2>1. FlushLast("ascending")
    BY <1>3
  <2>2. /\ CutInv'
        /\ FramesOf(slip_buf) # <<>>
        /\ FramesOf(slip_buf') = Tail(FramesOf(slip_buf))
        /\ FramesOf(wire') = Append(FramesOf(wire), Head(FramesOf(slip_buf)))
    BY <2>1, FlushLastDelivers
  <2>3. running /\ running' = running
    BY <2>1 DEF FlushLast
  <2>4. Queue!Deliver
    BY <2>2, <2>3 DEF Queue!Deliver
  <2> QED BY <2>2, <2>4 DEF Queue!Next
<1>4. ASSUME FlushError \/ \E p \in Payloads : Overflow(p) PROVE Refined
  <2>1. running /\ running' = FALSE /\ slip_buf' = slip_buf /\ slip_begin' = slip_begin
        /\ wire' = wire
    BY <1>4 DEF FlushError, Overflow, bufVars, history
  <2>2. Queue!Stop
    BY <2>1 DEF Queue!Stop
  <2>3. CutInv'
    BY <2>1 DEF CutInv, Written
  <2> QED BY <2>2, <2>3 DEF Queue!Next
<1>5. ASSUME Tick \/ UNCHANGED vars PROVE Refined
  <2>1. running' = running /\ slip_buf' = slip_buf /\ slip_begin' = slip_begin /\ wire' = wire
    BY <1>5 DEF Tick, vars, bufVars, history
  <2>2. CutInv'
    BY <2>1 DEF CutInv, Written
  <2> QED BY <2>1, <2>2 DEF Queue!vars
<1> QED BY <1>1, <1>2, <1>3, <1>4, <1>5 DEF Next, Flush

\* Whatever write() takes at a time and whenever packets are queued, the frames
\* of the line are those queued, whole, once and in order: the buffer of
\* slip-dev.c implements FrameQueue (slip_send, slip_flushbuf).
THEOREM ImplementsQueue ==
  ASSUME OverlapCopies = {"ascending"}
  PROVE  Spec => ImplementsFrameQueue
<1> DEFINE Inv == SenderInv /\ CutInv
<1>1. Init => Inv /\ Queue!Init
  <2> SUFFICES ASSUME Init PROVE CutInv /\ Queue!Init
    BY InitEstablishesSenderInv
  <2>1. CutInv /\ FramesOf(slip_buf) = <<<<SLIP_END>>>> /\ FramesOf(wire) = <<>>
    BY InitCut
  <2>2. running = TRUE
    BY DEF Init
  <2> QED BY <2>1, <2>2 DEF Queue!Init
<1>2. Inv /\ [Next]_vars => Inv' /\ [Queue!Next]_(Queue!vars)
  BY NextKeepsSenderInv, NextKeepsCut
<1> QED BY <1>1, <1>2, PTL DEF Spec, ImplementsFrameQueue, Queue!Spec
=============================================================================
