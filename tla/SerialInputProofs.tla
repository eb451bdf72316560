------------------------- MODULE SerialInputProofs -------------------------
(* Type correctness and the bound on inbuf, for every buffer size, verbosity *)
(* and set of payloads; and, for all payloads that inbuf can hold, the order *)
(* of what is handed on and what one byte the line loses makes of it.        *)
EXTENDS SerialInput, FiniteSetTheorems, SequenceTheorems, WellFoundedInduction,
        TLAPS

Upcalls == [kind : Kinds, data : Packet]

InputInv ==
  /\ line \in Seq(Byte)
  /\ inslip \in Seq(Byte)
  /\ inbuf \in Seq(Byte)
  /\ inCall \in BOOLEAN
  /\ upcalls \in Seq(Upcalls)
  /\ framed \in Seq(Payloads)
  /\ losses \in 0..MaxLosses
  /\ running \in BOOLEAN
  /\ BufferBound

\* An escaped packet, and what the radio writes for a packet, are bytes.
LEMMA EscapeType ==
  ASSUME NEW p \in Packet
  PROVE  Escape(p) \in Seq(Byte) /\ Len(Escape(p)) = EscapedLen(p) /\ EscapedLen(p) \in Nat
<1>1. SLIP_END \in Byte /\ SLIP_ESC \in Byte /\ SLIP_ESC_END \in Byte /\ SLIP_ESC_ESC \in Byte
  BY DEF Byte, SLIP_END, SLIP_ESC, SLIP_ESC_END, SLIP_ESC_ESC
<1>2. EscapedLen(p) \in Nat
  <2>1. IsFiniteSet(1..Len(p)) /\ Len(p) \in Nat
    BY FS_Interval DEF Packet
  <2>2. Cardinality(SpecialUpTo(p, Len(p))) \in Nat
    BY <2>1, FS_Subset, FS_CardinalityType DEF SpecialUpTo
  <2> QED BY <2>1, <2>2 DEF EscapedLen
<1> DEFINE StartsAt(k) == {i \in DOMAIN p : EscapedAt(p, i) = k}
           First(c) == IF c \in Special THEN SLIP_ESC ELSE c
           At(k) == IF StartsAt(k) # {}
                    THEN First(p[CHOOSE i \in StartsAt(k) : TRUE])
                    ELSE EscapeCode(p[CHOOSE i \in StartsAt(k - 1) : TRUE])
<1>3. ASSUME NEW k \in 1..EscapedLen(p)
      PROVE  At(k) \in Byte
  <2>1. CASE StartsAt(k) # {}
    <3>1. (CHOOSE i \in StartsAt(k) : TRUE) \in DOMAIN p
      BY <2>1
    <3>2. \A i \in DOMAIN p : p[i] \in Byte
      BY DEF Packet
    <3> QED BY <1>1, <2>1, <3>1, <3>2
  <2>2. CASE StartsAt(k) = {}
    BY <1>1, <2>2 DEF EscapeCode
  <2> QED BY <2>1, <2>2
<1>4. Escape(p) = [k \in 1..EscapedLen(p) |-> At(k)]
  BY DEF Escape
<1> HIDE DEF At
<1>5. Escape(p) \in [1..EscapedLen(p) -> Byte]
  BY <1>3, <1>4
<1> QED BY <1>2, <1>5

LEMMA SentAreBytes ==
  ASSUME NEW p \in Packet
  PROVE  SlipSendPacket(p) \in Seq(Byte)
<1>1. <<SLIP_END>> \in Seq(Byte)
  BY DEF SLIP_END, Byte
<1>2. <<SLIP_END>> \o Escape(p) \in Seq(Byte)
  BY <1>1, EscapeType, ConcatProperties
<1> QED BY <1>1, <1>2, ConcatProperties DEF SlipSendPacket

\* What is handed on are parts of the buffer, each as one of the kinds.
LEMMA DispatchType ==
  ASSUME NEW s \in Seq(Byte), s # <<>>
  PROVE  Dispatch(s) \in Seq(Upcalls)
<1>1. s \in Packet /\ Tail(s) \in Packet
  BY DEF Packet
<1>2. \A k \in Kinds, d \in Packet : <<[kind |-> k, data |-> d]>> \in Seq(Upcalls)
  BY DEF Upcalls
<1>3. <<>> \in Seq(Upcalls)
  OBVIOUS
<1>4. {"command", "debug", "text", "packet"} \subseteq Kinds
  BY DEF Kinds
<1> HIDE DEF Sensible
<1>5. CASE s[1] = 33
  BY <1>1, <1>2, <1>4, <1>5 DEF Dispatch
<1>6. CASE s[1] = 63
  BY <1>3, <1>6 DEF Dispatch
<1>7. CASE s[1] = 13
  <2>1. Dispatch(s) = <<[kind |-> "debug", data |-> Tail(s)]>>
    BY <1>7 DEF Dispatch
  <2> QED BY <1>1, <1>2, <1>4, <2>1
<1>8. CASE s[1] \notin {33, 63, 13} /\ Sensible(s)
  BY <1>1, <1>2, <1>4, <1>8 DEF Dispatch
<1>9. CASE s[1] \notin {33, 63, 13} /\ ~Sensible(s)
  BY <1>1, <1>2, <1>4, <1>9 DEF Dispatch
<1> QED BY <1>5, <1>6, <1>7, <1>8, <1>9

\* Storing a byte adds it or empties the buffer (echo of a text line).
LEMMA StoreBounds ==
  ASSUME NEW buf \in Seq(Byte), NEW c \in Byte
  PROVE  Store(buf, c) \in Seq(Byte) /\ Len(Store(buf, c)) <= Len(buf) + 1
<1>1. Append(buf, c) \in Seq(Byte) /\ Len(Append(buf, c)) = Len(buf) + 1
  OBVIOUS
<1>2. <<>> \in Seq(Byte) /\ Len(<<>>) = 0 /\ Len(buf) \in Nat
  OBVIOUS
<1> QED BY <1>1, <1>2 DEF Store

\* The size check leaves room for a byte.
LEMMA DropLargeMakesRoom ==
  ASSUME NEW buf \in Seq(Byte)
  PROVE  DropLarge(buf) \in Seq(Byte) /\ Len(DropLarge(buf)) < BufSize
<1>1. <<>> \in Seq(Byte) /\ Len(<<>>) = 0 /\ Len(buf) \in Nat
  OBVIOUS
<1> QED BY <1>1, InputSizesAssumption DEF DropLarge

\* One turn of the loop that starts with room for a byte ends within bounds.
LEMMA ReadStaysInBounds ==
  ASSUME InputInv, NEW buf \in Seq(Byte), Len(buf) < BufSize, Read(buf)
  PROVE  /\ inslip' \in Seq(Byte) /\ inbuf' \in Seq(Byte) /\ inCall' \in BOOLEAN
         /\ BufferBound'
<1>1. inslip \in Seq(Byte) /\ BufSize \in Nat \ {0} /\ Len(buf) \in Nat
  BY InputSizesAssumption DEF InputInv
<1>2. CASE inslip # <<>> /\ Head(inslip) = SLIP_END /\ inbuf' = <<>>
           /\ inslip' = Tail(inslip) /\ inCall' = TRUE
  BY <1>1, <1>2 DEF BufferBound, inbufptr
<1>3. CASE Len(inslip) >= 2 /\ inbuf' = Store(buf, Unescape(inslip[2]))
           /\ inslip' = Tail(Tail(inslip)) /\ inCall' = TRUE
  <2> DEFINE n == Len(inslip)
             c == inslip[2]
  <2>1. n \in Nat /\ n >= 2
    BY <1>1, <1>3
  <2>2. c \in Byte
    BY <2>1, <1>1
  <2>3. c \in Byte /\ Unescape(c) \in Byte
    <3> HIDE DEF c
    <3> QED BY <2>2 DEF Unescape, Byte, SLIP_ESC_END, SLIP_ESC_ESC, SLIP_END, SLIP_ESC
  <2>4. inbuf' \in Seq(Byte) /\ Len(inbuf') <= Len(buf) + 1
    BY <2>3, <1>3, StoreBounds
  <2>5. inslip' \in Seq(Byte)
    <3>1. inslip # <<>> /\ Tail(inslip) \in Seq(Byte) /\ Len(Tail(inslip)) = n - 1
      BY <1>1, <2>1
    <3>2. Tail(inslip) # <<>>
      <4>1. Len(Tail(inslip)) # 0 /\ Len(<<>>) = 0
        BY <3>1, <2>1
      <4> QED BY <4>1
    <3>3. Tail(Tail(inslip)) \in Seq(Byte)
      BY <3>1, <3>2
    <3> QED BY <3>3, <1>3
  <2>6. Len(inbuf') \in Nat
    BY <2>4
  <2> QED BY <2>4, <2>5, <2>6, <1>1, <1>3 DEF BufferBound, inbufptr
<1>4. CASE inslip' = inslip /\ inbuf' = buf /\ inCall' = FALSE
  <2>1. inbuf' = buf /\ inslip' = inslip /\ inCall' = FALSE
    BY <1>4
  <2>2. Len(inbuf') < BufSize /\ Len(inbuf') \in Nat
    BY <2>1, <1>1
  <2>3. BufferBound'
    BY <2>2, <1>1 DEF BufferBound, inbufptr
  <2> QED BY <2>1, <2>3, <1>1
<1>5. CASE inslip # <<>> /\ inbuf' = Store(buf, Head(inslip))
           /\ inslip' = Tail(inslip) /\ inCall' = TRUE
  <2>1. Head(inslip) \in Byte /\ inslip' \in Seq(Byte)
    BY <1>1, <1>5
  <2>2. inbuf' \in Seq(Byte) /\ Len(inbuf') <= Len(buf) + 1
    BY <2>1, <1>5, StoreBounds
  <2>3. Len(inbuf') \in Nat
    BY <2>2
  <2> QED BY <2>1, <2>2, <2>3, <1>1, <1>5 DEF BufferBound, inbufptr
<1> QED BY <1>2, <1>3, <1>4, <1>5 DEF Read

\* What it hands on is added to what was handed on before.
LEMMA ReadHandsOn ==
  ASSUME InputInv, NEW buf \in Seq(Byte), Read(buf)
  PROVE  upcalls' \in Seq(Upcalls)
<1>1. upcalls \in Seq(Upcalls)
  BY DEF InputInv
<1>2. buf # <<>> => Dispatch(buf) \in Seq(Upcalls)
  BY DispatchType
<1>3. upcalls' = upcalls \/ (buf # <<>> /\ upcalls' = upcalls \o Dispatch(buf))
  BY Zenon DEF Read
<1> QED BY <1>1, <1>2, <1>3, ConcatProperties

LEMMA InputInvariant == Spec => []InputInv
<1>1. Init => InputInv
  <2> SUFFICES ASSUME Init PROVE InputInv
    OBVIOUS
  <2>1. line \in Seq(Byte) /\ inslip \in Seq(Byte) /\ inbuf \in Seq(Byte) /\ Len(inbuf) = 0
    BY DEF Init
  <2>2. inCall = FALSE /\ running = TRUE /\ BufSize \in Nat \ {0}
    BY InputSizesAssumption DEF Init
  <2>3. BufferBound
    BY <2>1, <2>2 DEF BufferBound, inbufptr
  <2>4. upcalls \in Seq(Upcalls) /\ framed \in Seq(Payloads) /\ losses \in 0..MaxLosses
    BY InputSizesAssumption DEF Init
  <2> QED BY <2>1, <2>2, <2>3, <2>4 DEF InputInv
<1>2. InputInv /\ [Next]_vars => InputInv'
  <2> SUFFICES ASSUME InputInv, [Next]_vars PROVE InputInv'
    OBVIOUS
  <2>1. CASE EnterCall
    <3>1. /\ inbuf \in Seq(Byte) /\ Len(inbuf) < BufSize /\ Read(inbuf)
          /\ UNCHANGED <<line, framed, losses, running>>
      BY <2>1 DEF EnterCall, InputInv, BufferBound, inbufptr
    <3> QED BY <3>1, ReadStaysInBounds, ReadHandsOn DEF InputInv
  <2>2. CASE ReadMore
    <3>1. DropLarge(inbuf) \in Seq(Byte) /\ Len(DropLarge(inbuf)) < BufSize
      BY DropLargeMakesRoom DEF InputInv
    <3>2. Read(DropLarge(inbuf)) /\ UNCHANGED <<line, framed, losses, running>>
      BY <2>2 DEF ReadMore
    <3> QED BY <3>1, <3>2, ReadStaysInBounds, ReadHandsOn DEF InputInv
  <2>3. CASE LeaveCall
    <3>1. DropLarge(inbuf) \in Seq(Byte) /\ Len(DropLarge(inbuf)) < BufSize
      BY DropLargeMakesRoom DEF InputInv
    <3>2. Len(DropLarge(inbuf)) \in Nat
      BY <3>1
    <3>3. /\ inbuf' = DropLarge(inbuf) /\ inCall' = FALSE
          /\ UNCHANGED <<line, inslip, upcalls, framed, losses, running>>
      BY <2>3 DEF LeaveCall
    <3>4. BufferBound'
      BY <3>1, <3>2, <3>3, InputSizesAssumption DEF BufferBound, inbufptr
    <3> QED BY <3>1, <3>3, <3>4 DEF InputInv
  <2>4. CASE HangUp
    BY <2>4 DEF HangUp, InputInv, BufferBound, inbufptr
  <2>5. ASSUME NEW p \in Payloads, RadioWrites(p) PROVE InputInv'
    <3>1. SlipSendPacket(p) \in Seq(Byte)
      BY InputPayloadsAssumption, SentAreBytes
    <3>2. line' \in Seq(Byte) /\ framed' \in Seq(Payloads)
      BY <2>5, <3>1, ConcatProperties, AppendProperties DEF RadioWrites, InputInv
    <3> QED BY <2>5, <3>2 DEF RadioWrites, InputInv, BufferBound, inbufptr
  <2>6. CASE Arrive
    <3>1. line \in Seq(Byte) /\ line # <<>> /\ inslip \in Seq(Byte)
      BY <2>6 DEF Arrive, InputInv
    <3>2. Head(line) \in Byte /\ Tail(line) \in Seq(Byte)
      BY <3>1
    <3> QED BY <2>6, <3>1, <3>2 DEF Arrive, InputInv, BufferBound, inbufptr
  <2>7. CASE LoseByte
    <3>1. losses' \in 0..MaxLosses
      BY <2>7, InputSizesAssumption DEF LoseByte, InputInv
    <3>2. line' \in Seq(Byte)
      BY <2>7 DEF LoseByte, InputInv
    <3> QED BY <2>7, <3>1, <3>2 DEF LoseByte, InputInv, BufferBound, inbufptr
  <2>8. CASE UNCHANGED vars
    BY <2>8 DEF vars, InputInv, BufferBound, inbufptr
  <2> QED BY <2>1, <2>2, <2>3, <2>4, <2>5, <2>6, <2>7, <2>8 DEF Next
<1> QED BY <1>1, <1>2, PTL DEF Spec

\* The bytes on the line, in the socket and in inbuf, and what the upcalls are
\* given, have the types the model gives them.
THEOREM InputTypeCorrect == Spec => []TypeOK
<1>1. InputInv => TypeOK
  BY DEF InputInv, TypeOK, Upcalls
<1> QED BY <1>1, InputInvariant, PTL

\* serial_input() never writes past inbuf and never returns with a full one,
\* which is what makes its unchecked first read safe.
THEOREM InputBufferSafe == Spec => []BufferBound
<1>1. InputInv => BufferBound
  BY DEF InputInv
<1> QED BY <1>1, InputInvariant, PTL
-----------------------------------------------------------------------------
(* Induction on numbers, for sets, and what FlattenSeq computes *)

\* Every nonempty set of natural numbers has a least element.
LEMMA LeastNumber ==
  ASSUME NEW T \in SUBSET Nat, T # {}
  PROVE  \E x \in T : \A y \in T : x <= y
<1> DEFINE X == {0..x : x \in T}
<1>1. X \subseteq FiniteSubsetsOf(Nat)
  <2> SUFFICES ASSUME NEW x \in T PROVE 0..x \in FiniteSubsetsOf(Nat)
    OBVIOUS
  <2>1. IsFiniteSet(0..x)
    BY FS_Interval
  <2> QED BY <2>1 DEF FiniteSubsetsOf
<1>2. X # {}
  OBVIOUS
<1>3. \E A \in X : \A B \in X : <<B, A>> \notin StrictSubsetOrdering(Nat)
  <2> HIDE DEF X
  <2> QED BY <1>1, <1>2, FS_StrictSubsetOrderingWellFounded, WFMin
<1>4. PICK x \in T : \A y \in T : <<0..y, 0..x>> \notin StrictSubsetOrdering(Nat)
  BY <1>3
<1>5. ASSUME NEW y \in T, y < x
      PROVE  FALSE
  <2>1. 0..y \subseteq 0..x /\ x \in 0..x /\ x \notin 0..y
    BY <1>5
  <2>2. <<0..y, 0..x>> \in StrictSubsetOrdering(Nat)
    BY <2>1 DEF StrictSubsetOrdering
  <2> QED BY <1>4, <2>2
<1> QED BY <1>5

\* Induction, for a set of numbers.
LEMMA AllNumbers ==
  ASSUME NEW T \in SUBSET Nat, 0 \in T, \A n \in T : n + 1 \in T
  PROVE  T = Nat
<1> SUFFICES ASSUME Nat \ T # {} PROVE FALSE
  OBVIOUS
<1>1. PICK x \in Nat \ T : \A y \in Nat \ T : x <= y
  BY LeastNumber
<1>2. x - 1 \in Nat /\ ~(x <= x - 1) /\ x - 1 + 1 = x
  BY <1>1
<1>3. x - 1 \in T
  BY <1>1, <1>2
<1> QED BY <1>1, <1>2, <1>3

\* Concatenating again in another order.
Groups(a, b, c) == (a \o b) \o c = a \o (b \o c)

LEMMA Group ==
  ASSUME NEW S, NEW a \in Seq(S), NEW b \in Seq(S), NEW c \in Seq(S)
  PROVE  Groups(a, b, c)
BY ConcatAssociative DEF Groups

\* The concatenation of a sequence of sequences, step by step.
Steps(ss, n, h) ==
  h = [i \in 1..n |-> IF i = 1 THEN ss[i] ELSE h[i - 1] \o ss[i]]

LEMMA StepsExist ==
  ASSUME NEW ss, NEW n \in Nat
  PROVE  \E h : Steps(ss, n, h)
<1> DEFINE T == {m \in Nat : \E h : Steps(ss, m, h)}
<1>1. 0 \in T
  <2>1. Steps(ss, 0, [i \in 1..0 |-> ss[i]])
    BY DEF Steps
  <2> QED BY <2>1
<1>2. ASSUME NEW m \in T PROVE m + 1 \in T
  <2>1. PICK h : Steps(ss, m, h)
    OBVIOUS
  <2> DEFINE x == IF m = 0 THEN ss[m + 1] ELSE h[m] \o ss[m + 1]
             g == [i \in 1..(m + 1) |-> IF i = m + 1 THEN x ELSE h[i]]
  <2>2. \A i \in 1..m : h[i] = IF i = 1 THEN ss[i] ELSE h[i - 1] \o ss[i]
    BY <2>1 DEF Steps
  <2>3. m \in Nat
    OBVIOUS
  <2>4. ASSUME NEW i \in 1..(m + 1)
        PROVE  (IF i = m + 1 THEN x ELSE h[i]) = IF i = 1 THEN ss[i] ELSE g[i - 1] \o ss[i]
    <3>1. CASE i = m + 1
      <4>1. CASE m = 0
        BY <3>1, <4>1
      <4>2. CASE m # 0
        <5>1. i # 1 /\ i - 1 = m /\ m \in 1..(m + 1) /\ m # m + 1
          BY <2>3, <3>1, <4>2
        <5>2. g[m] = h[m]
          BY <5>1
        <5> QED BY <3>1, <4>2, <5>1, <5>2
      <4> QED BY <4>1, <4>2
    <3>2. CASE i # m + 1
      <4>1. i \in 1..m
        BY <2>3, <3>2
      <4>2. i # 1 => i - 1 \in 1..(m + 1) /\ i - 1 # m + 1
        BY <2>3, <4>1
      <4>3. i # 1 => g[i - 1] = h[i - 1]
        BY <4>2
      <4> QED BY <2>2, <3>2, <4>1, <4>3
    <3> QED BY <3>1, <3>2
  <2>5. g = [i \in 1..(m + 1) |-> IF i = 1 THEN ss[i] ELSE g[i - 1] \o ss[i]]
    BY <2>4
  <2>6. Steps(ss, m + 1, g)
    BY <2>5 DEF Steps
  <2> QED BY <2>3, <2>6
<1> HIDE DEF T
<1>3. T = Nat
  BY <1>1, <1>2, AllNumbers DEF T
<1> QED BY <1>3 DEF T

LEMMA FlattenSteps ==
  ASSUME NEW ss, Len(ss) \in Nat \ {0}
  PROVE  \E h : Steps(ss, Len(ss), h) /\ FlattenSeq(ss) = h[Len(ss)]
<1> DEFINE h == CHOOSE h : Steps(ss, Len(ss), h)
<1>1. Steps(ss, Len(ss), h)
  BY StepsExist
<1>2. FlattenSeq(ss) = h[Len(ss)]
  BY DEF FlattenSeq, Steps
<1> QED BY <1>1, <1>2

\* Appending to the sequence appends to the concatenation.
LEMMA FlattenAppend ==
  ASSUME NEW S, NEW ss \in Seq(Seq(S)), NEW x \in Seq(S)
  PROVE  /\ FlattenSeq(ss) \in Seq(S)
         /\ FlattenSeq(Append(ss, x)) = FlattenSeq(ss) \o x
<1> DEFINE n == Len(ss)
           tt == Append(ss, x)
<1>1. n \in Nat /\ \A i \in 1..n : ss[i] \in Seq(S)
  BY LenProperties, ElementOfSeq
<1>2. Len(tt) = n + 1 /\ tt[n + 1] = x /\ \A i \in 1..n : tt[i] = ss[i]
  BY AppendProperties
<1> HIDE DEF tt
<1>3. Len(tt) \in Nat \ {0}
  BY <1>1, <1>2
<1>4. PICK h : Steps(tt, Len(tt), h) /\ FlattenSeq(tt) = h[Len(tt)]
  BY <1>3, FlattenSteps
<1>5. h = [i \in 1..(n + 1) |-> IF i = 1 THEN tt[i] ELSE h[i - 1] \o tt[i]]
  BY <1>2, <1>4 DEF Steps
<1>6. CASE n = 0
  <2>1. FlattenSeq(ss) = <<>>
    BY <1>6, EmptySeq DEF FlattenSeq
  <2>2. h[1] = x
    BY <1>2, <1>5, <1>6
  <2> QED BY <1>2, <1>4, <1>6, <2>1, <2>2, ConcatEmptySeq DEF tt
<1>7. CASE n # 0
  <2>1. n \in Nat \ {0}
    BY <1>1, <1>7
  <2>2. PICK g : Steps(ss, n, g) /\ FlattenSeq(ss) = g[n]
    BY <2>1, FlattenSteps
  <2>3. g = [i \in 1..n |-> IF i = 1 THEN ss[i] ELSE g[i - 1] \o ss[i]]
    BY <2>2 DEF Steps
  <2> DEFINE T == {m \in Nat : m \in 1..n => g[m] = h[m] /\ g[m] \in Seq(S)}
  <2>4. 0 \in T
    OBVIOUS
  <2>5. ASSUME NEW m \in T PROVE m + 1 \in T
    <3> SUFFICES ASSUME m + 1 \in 1..n PROVE g[m + 1] = h[m + 1] /\ g[m + 1] \in Seq(S)
      OBVIOUS
    <3>1. m \in Nat /\ m + 1 \in 1..(n + 1) /\ ss[m + 1] = tt[m + 1] /\ ss[m + 1] \in Seq(S)
      BY <1>1, <1>2
    <3>2. CASE m = 0
      BY <1>5, <2>3, <3>1, <3>2
    <3>3. CASE m # 0
      <4> DEFINE k == m + 1
      <4>1. m \in 1..n /\ k \in 1..n /\ k \in 1..(n + 1) /\ k # 1 /\ k - 1 = m
        BY <1>1, <3>1, <3>3
      <4>2. g[m] = h[m] /\ g[m] \in Seq(S)
        BY <4>1
      <4> HIDE DEF k
      <4>3. g[k] = g[m] \o ss[k]
        BY <2>3, <4>1
      <4>4. h[k] = h[m] \o tt[k]
        BY <1>5, <4>1
      <4>5. ss[k] = tt[k] /\ ss[k] \in Seq(S)
        BY <3>1 DEF k
      <4>6. g[m] \o ss[k] \in Seq(S)
        BY <4>2, <4>5, ConcatProperties
      <4>7. g[k] = h[k] /\ g[k] \in Seq(S)
        BY <4>2, <4>3, <4>4, <4>5, <4>6
      <4> QED BY <4>7 DEF k
    <3> QED BY <3>2, <3>3
  <2> HIDE DEF T
  <2>6. T = Nat
    BY <2>4, <2>5, AllNumbers DEF T
  <2>7. g[n] = h[n] /\ g[n] \in Seq(S)
    <3>1. n \in 1..n
      BY <2>1
    <3> QED BY <1>1, <2>6, <3>1 DEF T
  <2>8. h[n + 1] = h[n] \o x
    <3> DEFINE k == n + 1
    <3>1. k \in 1..(n + 1) /\ k # 1 /\ k - 1 = n
      BY <2>1
    <3> HIDE DEF k
    <3>2. h[k] = h[n] \o tt[k]
      BY <1>5, <3>1
    <3> QED BY <1>2, <3>2 DEF k
  <2> QED BY <1>2, <1>4, <2>2, <2>7, <2>8 DEF tt
<1> QED BY <1>6, <1>7

\* The concatenation starts with the first of the sequences.
LEMMA FlattenTail ==
  ASSUME NEW S, NEW ss \in Seq(Seq(S)), ss # <<>>
  PROVE  FlattenSeq(ss) = Head(ss) \o FlattenSeq(Tail(ss))
<1> DEFINE T == {m \in Nat : \A tt \in Seq(Seq(S)) :
                   Len(tt) = m + 1 => FlattenSeq(tt) = Head(tt) \o FlattenSeq(Tail(tt))}
<1>1. ASSUME NEW tt \in Seq(Seq(S)), tt # <<>>
      PROVE  \E uu \in Seq(Seq(S)), x \in Seq(S) :
               /\ tt = Append(uu, x) /\ Len(tt) = Len(uu) + 1 /\ Len(uu) \in Nat
               /\ FlattenSeq(tt) = FlattenSeq(uu) \o x
  <2>1. PICK uu \in Seq(Seq(S)), x \in Seq(S) : tt = Append(uu, x)
    BY <1>1, SequenceEmptyOrAppend
  <2>2. FlattenSeq(tt) = FlattenSeq(uu) \o x /\ Len(tt) = Len(uu) + 1 /\ Len(uu) \in Nat
    BY <2>1, FlattenAppend, AppendProperties, LenProperties
  <2> QED BY <2>1, <2>2
<1>2. FlattenSeq(<<>>) = <<>>
  BY DEF FlattenSeq
<1>3. 0 \in T
  <2> SUFFICES ASSUME NEW tt \in Seq(Seq(S)), Len(tt) = 1
               PROVE  FlattenSeq(tt) = Head(tt) \o FlattenSeq(Tail(tt))
    OBVIOUS
  <2>0. tt # <<>>
    <3>1. Len(tt) # 0 /\ Len(<<>>) = 0
      OBVIOUS
    <3> QED BY <3>1
  <2>1. PICK uu \in Seq(Seq(S)), x \in Seq(S) :
          /\ tt = Append(uu, x) /\ Len(tt) = Len(uu) + 1 /\ Len(uu) \in Nat
          /\ FlattenSeq(tt) = FlattenSeq(uu) \o x
    BY <1>1, <2>0
  <2>2. uu = <<>>
    BY <2>1, EmptySeq
  <2>3. Head(tt) = x /\ Tail(tt) = <<>>
    BY <2>1, <2>2, HeadTailAppend
  <2> QED BY <1>2, <2>1, <2>2, <2>3, ConcatEmptySeq
<1>4. ASSUME NEW m \in T PROVE m + 1 \in T
  <2> SUFFICES ASSUME NEW tt \in Seq(Seq(S)), Len(tt) = m + 1 + 1
               PROVE  FlattenSeq(tt) = Head(tt) \o FlattenSeq(Tail(tt))
    OBVIOUS
  <2>0. m \in Nat /\ tt # <<>>
    <3>1. m \in Nat
      OBVIOUS
    <3> QED BY <3>1, EmptySeq
  <2>1. PICK uu \in Seq(Seq(S)), x \in Seq(S) :
          /\ tt = Append(uu, x) /\ Len(tt) = Len(uu) + 1 /\ Len(uu) \in Nat
          /\ FlattenSeq(tt) = FlattenSeq(uu) \o x
    BY <1>1, <2>0
  <2>2. Len(uu) = m + 1 /\ uu # <<>>
    BY <2>0, <2>1
  <2>3. FlattenSeq(uu) = Head(uu) \o FlattenSeq(Tail(uu))
    BY <2>2
  <2>4. Head(tt) = Head(uu) /\ Tail(tt) = Append(Tail(uu), x)
    BY <2>1, <2>2, HeadTailAppend
  <2>5. Head(uu) \in Seq(S) /\ Tail(uu) \in Seq(Seq(S))
    BY <2>2, HeadTailProperties
  <2>6. FlattenSeq(Tail(tt)) = FlattenSeq(Tail(uu)) \o x /\ FlattenSeq(Tail(uu)) \in Seq(S)
    BY <2>4, <2>5, FlattenAppend
  <2> DEFINE a == Head(uu)
             b == FlattenSeq(Tail(uu))
  <2>7. a \in Seq(S) /\ b \in Seq(S) /\ x \in Seq(S)
    BY <2>5, <2>6
  <2> HIDE DEF a, b
  <2> HIDE DEF T
  <2>8. (a \o b) \o x = a \o (b \o x)
    <3>1. Groups(a, b, x)
      BY ONLY <2>7, Group
    <3> QED BY <3>1 DEF Groups
  <2> QED BY <2>1, <2>3, <2>4, <2>6, <2>8 DEF a, b
<1> HIDE DEF T
<1>5. T = Nat
  BY <1>3, <1>4, AllNumbers DEF T
<1>6. Len(ss) - 1 \in Nat /\ Len(ss) = Len(ss) - 1 + 1
  BY EmptySeq, LenProperties
<1> QED BY <1>5, <1>6 DEF T
-----------------------------------------------------------------------------
(* Where the escaped bytes are *)

\* The escaped bytes of a packet follow each other: two for a special byte, one
\* for any other.
LEMMA EscapedAtNext ==
  ASSUME NEW p \in Packet, NEW i \in 1..Len(p)
  PROVE  /\ EscapedAt(p, i) \in Nat \ {0}
         /\ EscapedAt(p, i + 1) = EscapedAt(p, i) + (IF p[i] \in Special THEN 2 ELSE 1)
<1>1. i \in Nat /\ i >= 1 /\ Len(p) \in Nat
  BY LenProperties DEF Packet
<1> DEFINE A == SpecialUpTo(p, i - 1)
           B == SpecialUpTo(p, i)
<1>2. IsFiniteSet(A)
  <2>1. i - 1 \in Int /\ A \subseteq 1..(i - 1)
    BY <1>1 DEF SpecialUpTo
  <2>2. IsFiniteSet(1..(i - 1))
    BY <2>1, FS_Interval
  <2> QED BY <2>1, <2>2, FS_Subset
<1>3. Cardinality(A) \in Nat
  BY <1>2, FS_CardinalityType
<1>4. i \notin A
  BY <1>1 DEF SpecialUpTo
<1>5. CASE p[i] \in Special
  <2>1. B = A \cup {i}
    BY <1>1, <1>5 DEF SpecialUpTo
  <2>2. Cardinality(B) = Cardinality(A) + 1
    <3> HIDE DEF A, B
    <3> QED BY <1>2, <1>4, <2>1, FS_AddElement
  <2>3. i + 1 - 1 = i
    BY <1>1
  <2> QED BY <1>1, <1>3, <1>5, <2>2, <2>3 DEF EscapedAt
<1>6. CASE p[i] \notin Special
  <2>1. B = A
    BY <1>1, <1>6 DEF SpecialUpTo
  <2>3. i + 1 - 1 = i
    BY <1>1
  <2> QED BY <1>1, <1>3, <1>6, <2>1, <2>3 DEF EscapedAt
<1> QED BY <1>5, <1>6

\* A later byte is escaped to a later place.
LEMMA EscapedAtGrows ==
  ASSUME NEW p \in Packet, NEW i \in 1..(Len(p) + 1), NEW j \in 1..(Len(p) + 1), i < j
  PROVE  EscapedAt(p, i) + (j - i) <= EscapedAt(p, j) /\ EscapedAt(p, j) \in Nat
<1>1. i \in Nat /\ j \in Nat /\ Len(p) \in Nat
  BY LenProperties DEF Packet
<1> DEFINE A == SpecialUpTo(p, i - 1)
           B == SpecialUpTo(p, j - 1)
<1>2. IsFiniteSet(B) /\ A \subseteq B
  <2>1. IsFiniteSet(1..(j - 1)) /\ B \subseteq 1..(j - 1)
    BY <1>1, FS_Interval DEF SpecialUpTo
  <2>2. A \subseteq B
    BY <1>1 DEF SpecialUpTo
  <2> QED BY <2>1, <2>2, FS_Subset
<1> HIDE DEF A, B
<1>3. Cardinality(A) <= Cardinality(B) /\ Cardinality(A) \in Nat /\ Cardinality(B) \in Nat
  BY <1>2, FS_Subset, FS_CardinalityType
<1> QED BY <1>1, <1>3 DEF EscapedAt, A, B

\* The bytes of an escaped packet.
LEMMA EscapedByte ==
  ASSUME NEW p \in Packet, NEW i \in 1..Len(p)
  PROVE  LET k == EscapedAt(p, i) IN
         /\ k \in 1..EscapedLen(p)
         /\ p[i] \notin Special => Escape(p)[k] = p[i]
         /\ p[i] \in Special =>
              /\ k + 1 \in 1..EscapedLen(p)
              /\ Escape(p)[k] = SLIP_ESC /\ Escape(p)[k + 1] = EscapeCode(p[i])
<1> DEFINE k == EscapedAt(p, i)
           StartsAt(m) == {j \in DOMAIN p : EscapedAt(p, j) = m}
           First(c) == IF c \in Special THEN SLIP_ESC ELSE c
           Start(m) == CHOOSE j \in StartsAt(m) : TRUE
           At(m) == IF StartsAt(m) # {} THEN First(p[Start(m)])
                    ELSE EscapeCode(p[Start(m - 1)])
<1>0. DOMAIN p = 1..Len(p)
  BY LenProperties DEF Packet
<1>1. i \in Nat /\ Len(p) \in Nat /\ i \in 1..(Len(p) + 1) /\ i + 1 \in 1..(Len(p) + 1)
  BY LenProperties DEF Packet
<1>2. Escape(p) = [m \in 1..EscapedLen(p) |-> At(m)]
  BY DEF Escape
<1>3. EscapedLen(p) = EscapedAt(p, Len(p) + 1) - 1
  <2>1. Cardinality(SpecialUpTo(p, Len(p))) \in Nat
    <3>1. IsFiniteSet(1..Len(p)) /\ SpecialUpTo(p, Len(p)) \subseteq 1..Len(p)
      BY <1>1, FS_Interval DEF SpecialUpTo
    <3> QED BY <3>1, FS_Subset, FS_CardinalityType
  <2>2. Len(p) + 1 - 1 = Len(p)
    BY <1>1
  <2> QED BY <1>1, <2>1, <2>2 DEF EscapedLen, EscapedAt
<1> DEFINE n == EscapedAt(p, i + 1)
           z == EscapedAt(p, Len(p) + 1)
<1>4. k \in Nat \ {0} /\ n = k + (IF p[i] \in Special THEN 2 ELSE 1)
  BY EscapedAtNext
<1>5. n <= z /\ z \in Nat
  <2>1. CASE i = Len(p)
    BY <1>4, <2>1
  <2>2. CASE i # Len(p)
    <3> DEFINE a == i + 1
               b == Len(p) + 1
    <3>1. a \in 1..(Len(p) + 1) /\ b \in 1..(Len(p) + 1) /\ a < b /\ a \in Nat /\ b \in Nat
      BY <1>1, <2>2
    <3>2. n \in Nat
      BY <1>4
    <3>3. n = EscapedAt(p, a) /\ z = EscapedAt(p, b)
      OBVIOUS
    <3> HIDE DEF a, b, n, z
    <3>4. EscapedAt(p, a) + (b - a) <= EscapedAt(p, b) /\ EscapedAt(p, b) \in Nat
      BY <3>1, EscapedAtGrows
    <3> QED BY <3>1, <3>2, <3>3, <3>4
  <2> QED BY <2>1, <2>2
<1>6. k \in 1..EscapedLen(p) /\ (p[i] \in Special => k + 1 \in 1..EscapedLen(p))
  <2> HIDE DEF k, n, z
  <2> QED BY <1>3, <1>4, <1>5 DEF z
<1>7. StartsAt(k) = {i}
  <2> SUFFICES ASSUME NEW j \in 1..Len(p), EscapedAt(p, j) = k, j # i PROVE FALSE
    BY <1>0
  <2>1. j \in 1..(Len(p) + 1) /\ j \in Nat
    BY <1>1
  <2>2. CASE i < j
    <3>1. EscapedAt(p, i) + (j - i) <= EscapedAt(p, j)
      BY <1>1, <2>1, <2>2, EscapedAtGrows
    <3> QED BY <1>1, <1>4, <2>1, <2>2, <3>1
  <2>3. CASE j < i
    <3>1. EscapedAt(p, j) + (i - j) <= EscapedAt(p, i)
      BY <1>1, <2>1, <2>3, EscapedAtGrows
    <3> QED BY <1>1, <1>4, <2>1, <2>3, <3>1
  <2> QED BY <1>1, <2>1, <2>2, <2>3
<1>8. ASSUME p[i] \in Special PROVE StartsAt(k + 1) = {}
  <2> SUFFICES ASSUME NEW j \in 1..Len(p), EscapedAt(p, j) = k + 1 PROVE FALSE
    BY <1>0
  <2>1. j \in 1..(Len(p) + 1) /\ j \in Nat
    BY <1>1
  <2>2. CASE i + 1 < j
    <3>1. EscapedAt(p, i + 1) + (j - (i + 1)) <= EscapedAt(p, j)
      BY <1>1, <2>1, <2>2, EscapedAtGrows
    <3>2. EscapedAt(p, i + 1) = k + 2
      BY <1>4, <1>8
    <3> QED BY <1>1, <1>4, <2>1, <2>2, <3>1, <3>2
  <2>3. CASE j < i
    <3>1. EscapedAt(p, j) + (i - j) <= EscapedAt(p, i)
      BY <1>1, <2>1, <2>3, EscapedAtGrows
    <3> QED BY <1>1, <1>4, <2>1, <2>3, <3>1
  <2>4. CASE j = i
    BY <1>4, <2>4
  <2>5. CASE j = i + 1
    BY <1>4, <1>8, <2>5
  <2> QED BY <1>1, <2>1, <2>2, <2>3, <2>4, <2>5
<1>9. At(k) = First(p[i])
  <2>1. Start(k) = i
    BY <1>7
  <2> HIDE DEF Start
  <2> QED BY <1>7, <2>1
<1>10. ASSUME p[i] \in Special, NEW l, l = k + 1 PROVE At(l) = EscapeCode(p[i])
  <2>1. l - 1 = k
    BY <1>4, <1>10
  <2>2. Start(k) = i
    BY <1>7
  <2>3. StartsAt(l) = {}
    BY <1>8, <1>10
  <2>4. \A m : StartsAt(m) = {} => At(m) = EscapeCode(p[Start(m - 1)])
    OBVIOUS
  <2> HIDE DEF k, StartsAt, First, Start, At
  <2>5. At(l) = EscapeCode(p[Start(l - 1)])
    BY <2>3, <2>4
  <2> QED BY <2>1, <2>2, <2>5
<1> HIDE DEF At, k
<1>11. \A m \in 1..EscapedLen(p) : Escape(p)[m] = At(m)
  BY <1>2
<1> QED BY <1>6, <1>9, <1>10, <1>11 DEF k

-----------------------------------------------------------------------------
(* What is on the line and what is handed on for a sequence of payloads *)

\* What gives a sequence over S for everything in P.
Listings(P, S) == [P -> Seq(S)]

FlatMap(F, ps) == FlattenSeq([k \in DOMAIN ps |-> F[ps[k]]])

LEMMA FlatMapEmpty ==
  ASSUME NEW F
  PROVE  FlatMap(F, <<>>) = <<>>
<1>1. [k \in DOMAIN <<>> |-> F[<<>>[k]]] = <<>>
  OBVIOUS
<1>2. FlattenSeq(<<>>) = <<>>
  BY DEF FlattenSeq
<1> QED BY <1>1, <1>2 DEF FlatMap

LEMMA FlatMapAppend ==
  ASSUME NEW S, NEW P, NEW F \in Listings(P, S), NEW ps \in Seq(P), NEW p \in P
  PROVE  /\ FlatMap(F, ps) \in Seq(S)
         /\ FlatMap(F, Append(ps, p)) = FlatMap(F, ps) \o F[p]
<1>0. F \in [P -> Seq(S)]
  BY DEF Listings
<1> DEFINE m == [k \in DOMAIN ps |-> F[ps[k]]]
           qs == Append(ps, p)
           l == [k \in DOMAIN qs |-> F[qs[k]]]
           n == Len(ps)
<1>1. n \in Nat /\ DOMAIN ps = 1..n /\ \A k \in 1..n : ps[k] \in P
  BY LenProperties, ElementOfSeq
<1>2. /\ qs \in Seq(P) /\ Len(qs) = n + 1 /\ qs[n + 1] = p /\ \A k \in 1..n : qs[k] = ps[k]
      /\ DOMAIN qs = 1..(n + 1)
  BY AppendProperties, LenProperties
<1> HIDE DEF qs, n
<1>3. m \in Seq(Seq(S)) /\ Len(m) = n /\ \A k \in 1..n : m[k] = F[ps[k]]
  <2>1. m \in [1..n -> Seq(S)] /\ \A k \in 1..n : m[k] = F[ps[k]]
    BY <1>0, <1>1
  <2> HIDE DEF m
  <2> QED BY <1>1, <2>1
<1>4. l \in Seq(Seq(S)) /\ Len(l) = n + 1 /\ l[n + 1] = F[p] /\ \A k \in 1..n : l[k] = F[ps[k]]
  <2>1. \A k \in 1..(n + 1) : qs[k] \in P
    BY <1>2, ElementOfSeq
  <2>2. l \in [1..(n + 1) -> Seq(S)] /\ \A k \in 1..(n + 1) : l[k] = F[qs[k]]
    BY <1>0, <1>2, <2>1
  <2>3. n + 1 \in 1..(n + 1) /\ \A k \in 1..n : k \in 1..(n + 1)
    BY <1>1
  <2> DEFINE u == n + 1
  <2>4. u \in Nat
    BY <1>1
  <2> HIDE DEF l, u
  <2>5. l \in [1..u -> Seq(S)]
    BY <2>2 DEF u
  <2>6. l \in Seq(Seq(S)) /\ Len(l) = u
    BY <2>4, <2>5
  <2> QED BY <1>2, <2>2, <2>3, <2>6 DEF u
<1> HIDE DEF m, l
<1>5. F[p] \in Seq(S)
  BY <1>0
<1> DEFINE a == Append(m, F[p])
<1>6. /\ a \in Seq(Seq(S)) /\ Len(a) = Len(m) + 1 /\ a[Len(m) + 1] = F[p]
      /\ \A k \in 1..Len(m) : a[k] = m[k]
  BY <1>3, <1>5, AppendProperties
<1> HIDE DEF a
<1>7. \A k \in 1..(n + 1) : l[k] = a[k]
  <2>1. \A k \in 1..(n + 1) : k \in 1..n \/ k = n + 1
    BY <1>1
  <2> QED BY <1>3, <1>4, <1>6, <2>1
<1>8. l = a
  BY <1>3, <1>4, <1>6, <1>7, SeqEqual
<1>9. FlattenSeq(m) \in Seq(S) /\ FlattenSeq(a) = FlattenSeq(m) \o F[p]
  BY <1>3, <1>5, FlattenAppend DEF a
<1> QED BY <1>8, <1>9 DEF FlatMap, m, l, qs

LEMMA FlatMapTail ==
  ASSUME NEW S, NEW P, NEW F \in Listings(P, S), NEW ps \in Seq(P), ps # <<>>
  PROVE  FlatMap(F, ps) = F[Head(ps)] \o FlatMap(F, Tail(ps))
<1>0. F \in [P -> Seq(S)]
  BY DEF Listings
<1> DEFINE m == [k \in DOMAIN ps |-> F[ps[k]]]
           qs == Tail(ps)
           l == [k \in DOMAIN qs |-> F[qs[k]]]
           n == Len(ps)
<1>1. n \in Nat \ {0} /\ DOMAIN ps = 1..n /\ \A k \in 1..n : ps[k] \in P
  BY LenProperties, ElementOfSeq, EmptySeq
<1>2. /\ qs \in Seq(P) /\ Len(qs) = n - 1 /\ \A k \in 1..(n - 1) : qs[k] = ps[k + 1]
      /\ DOMAIN qs = 1..(n - 1)
  BY HeadTailProperties, LenProperties
<1> HIDE DEF qs, n
<1>3. m \in Seq(Seq(S)) /\ Len(m) = n /\ \A k \in 1..n : m[k] = F[ps[k]]
  <2>1. m \in [1..n -> Seq(S)] /\ \A k \in 1..n : m[k] = F[ps[k]]
    BY <1>0, <1>1
  <2> HIDE DEF m
  <2> QED BY <1>1, <2>1
<1>4. l \in Seq(Seq(S)) /\ Len(l) = n - 1 /\ \A k \in 1..(n - 1) : l[k] = F[qs[k]]
  <2> DEFINE u == n - 1
  <2>1. u \in Nat /\ \A k \in 1..u : qs[k] \in P
    BY <1>1, <1>2, ElementOfSeq
  <2> HIDE DEF u
  <2>2. l \in [1..u -> Seq(S)] /\ \A k \in 1..u : l[k] = F[qs[k]]
    BY <1>0, <1>2, <2>1 DEF u
  <2> HIDE DEF l
  <2>3. l \in Seq(Seq(S)) /\ Len(l) = u
    BY <2>1, <2>2
  <2> QED BY <2>2, <2>3 DEF u
<1> HIDE DEF m, l
<1>5. m # <<>>
  BY <1>1, <1>3, EmptySeq
<1>6. Head(m) = F[Head(ps)]
  <2>1. Head(m) = m[1] /\ Head(ps) = ps[1] /\ 1 \in 1..n
    BY <1>1
  <2> QED BY <1>3, <2>1
<1>7. Tail(m) = l
  <2> DEFINE t == Tail(m)
  <2>1. t \in Seq(Seq(S)) /\ Len(t) = n - 1 /\ \A k \in 1..(n - 1) : t[k] = m[k + 1]
    BY <1>3, <1>5, HeadTailProperties
  <2> HIDE DEF t
  <2>2. ASSUME NEW k \in 1..(n - 1) PROVE t[k] = l[k]
    <3> DEFINE j == k + 1
    <3>1. j \in 1..n
      BY <1>1
    <3> HIDE DEF j
    <3>2. m[j] = F[ps[j]]
      BY <1>3, <3>1
    <3>3. t[k] = m[j] /\ qs[k] = ps[j]
      BY <1>2, <2>1 DEF j
    <3> QED BY <1>4, <3>2, <3>3
  <2>3. t = l
    BY <1>4, <2>1, <2>2, SeqEqual
  <2> QED BY <2>3 DEF t
<1>8. FlattenSeq(m) = Head(m) \o FlattenSeq(Tail(m))
  BY <1>3, <1>5, FlattenTail
<1> QED BY <1>6, <1>7, <1>8 DEF FlatMap, m, l, qs

\* The first byte of a sequence.
LEMMA FirstByte ==
  ASSUME NEW S, NEW c \in S, NEW x \in Seq(S)
  PROVE  <<c>> \o x \in Seq(S) /\ <<c>> \o x # <<>> /\ Head(<<c>> \o x) = c /\ Tail(<<c>> \o x) = x
<1> DEFINE y == <<c>> \o x
<1>1. <<c>> \in Seq(S) /\ Len(<<c>>) = 1 /\ <<c>>[1] = c /\ Len(x) \in Nat
  BY LenProperties
<1>2. /\ y \in Seq(S) /\ Len(y) = 1 + Len(x)
      /\ \A i \in 1..(1 + Len(x)) : y[i] = IF i <= 1 THEN <<c>>[i] ELSE x[i - 1]
  BY <1>1, ConcatProperties
<1> HIDE DEF y
<1>3. y # <<>>
  BY <1>1, <1>2, EmptySeq
<1>4. Head(y) = c
  BY <1>1, <1>2, <1>3
<1>5. Tail(y) = x
  <2> DEFINE t == Tail(y)
  <2>1. t \in Seq(S) /\ Len(t) = Len(x) /\ \A i \in 1..Len(x) : t[i] = y[i + 1]
    BY <1>1, <1>2, <1>3, HeadTailProperties
  <2> HIDE DEF t
  <2>2. ASSUME NEW i \in 1..Len(x) PROVE t[i] = x[i]
    <3> DEFINE j == i + 1
    <3>1. j \in 1..(1 + Len(x)) /\ ~(j <= 1) /\ j - 1 = i
      BY <1>1
    <3> HIDE DEF j
    <3>2. y[j] = x[i]
      BY <1>2, <3>1
    <3> QED BY <2>1, <3>2 DEF j
  <2>3. t = x
    BY <2>1, <2>2, SeqEqual
  <2> QED BY <2>3 DEF t
<1> QED BY <1>2, <1>3, <1>4, <1>5 DEF y

LEMMA HeadThenTail ==
  ASSUME NEW S, NEW s \in Seq(S), s # <<>>
  PROVE  s = <<Head(s)>> \o Tail(s)
<1>1. Len(s) \in Nat \ {0}
  BY EmptySeq
<1>2. 1 \in 1..Len(s) /\ Len(s) \in 1..Len(s) /\ 1 + 1 = 2
  BY <1>1
<1>3. SubSeq(s, 1, Len(s)) = <<s[1]>> \o SubSeq(s, 1 + 1, Len(s))
  BY <1>2, SubSeqRecursiveFirst
<1>4. SubSeq(s, 1, Len(s)) = s /\ Tail(s) = SubSeq(s, 2, Len(s)) /\ Head(s) = s[1]
  BY SubSeqFull, TailIsSubSeq
<1> QED BY <1>2, <1>3, <1>4

LEMMA FirstOfConcat ==
  ASSUME NEW S, NEW s \in Seq(S), s # <<>>, NEW t \in Seq(S)
  PROVE  Head(s \o t) = Head(s) /\ Tail(s \o t) = Tail(s) \o t
<1> DEFINE c == Head(s)
           x == Tail(s)
<1>1. c \in S /\ x \in Seq(S) /\ <<c>> \in Seq(S)
  BY HeadTailProperties
<1>2. s = <<c>> \o x
  BY HeadThenTail
<1> HIDE DEF c, x
<1>3. s \o t = <<c>> \o (x \o t)
  <2>1. Groups(<<c>>, x, t)
    BY <1>1, Group
  <2> QED BY <1>2, <2>1 DEF Groups
<1>4. x \o t \in Seq(S)
  BY <1>1, ConcatProperties
<1>5. Head(s \o t) = c /\ Tail(s \o t) = x \o t
  BY <1>1, <1>3, <1>4, FirstByte
<1> QED BY <1>5 DEF c, x

-----------------------------------------------------------------------------
(* What is left of an escaped packet when some of its bytes were read *)

\* What is still to be read of the frame when i bytes of its packet were.
Rest(p, i) == SubSeq(Escape(p), EscapedAt(p, i + 1), EscapedLen(p)) \o <<SLIP_END>>

LEMMA EscapedEnds ==
  ASSUME NEW p \in Packet
  PROVE  EscapedAt(p, 1) = 1 /\ EscapedAt(p, Len(p) + 1) = EscapedLen(p) + 1
<1>1. Len(p) \in Nat /\ EscapedLen(p) \in Nat
  BY LenProperties, EscapeType DEF Packet
<1>2. Cardinality(SpecialUpTo(p, Len(p))) \in Nat
  <2>1. IsFiniteSet(1..Len(p)) /\ SpecialUpTo(p, Len(p)) \subseteq 1..Len(p)
    BY <1>1, FS_Interval DEF SpecialUpTo
  <2> QED BY <2>1, FS_Subset, FS_CardinalityType
<1>3. SpecialUpTo(p, 1 - 1) = {}
  BY DEF SpecialUpTo
<1>4. Cardinality({}) = 0
  BY FS_EmptySet
<1>5. Len(p) + 1 - 1 = Len(p)
  BY <1>1
<1>6. EscapedAt(p, 1) = 1
  BY <1>3, <1>4 DEF EscapedAt
<1>7. EscapedAt(p, Len(p) + 1) = EscapedLen(p) + 1
  BY <1>1, <1>2, <1>5 DEF EscapedAt, EscapedLen
<1> QED BY <1>6, <1>7

LEMMA PartType ==
  ASSUME NEW p \in Packet, NEW i \in 0..Len(p)
  PROVE  SubSeq(Escape(p), EscapedAt(p, i + 1), EscapedLen(p)) \in Seq(Byte)
<1>1. Escape(p) \in Seq(Byte) /\ Len(Escape(p)) = EscapedLen(p) /\ EscapedLen(p) \in Nat
  BY EscapeType
<1>2. EscapedAt(p, i + 1) \in Nat \ {0}
  <2>1. i \in Nat /\ Len(p) \in Nat
    BY LenProperties DEF Packet
  <2>2. CASE i = Len(p)
    BY <1>1, <2>2, EscapedEnds
  <2>3. CASE i # Len(p)
    <3>1. i + 1 \in 1..Len(p)
      BY <2>1, <2>3
    <3> QED BY <3>1, EscapedAtNext
  <2> QED BY <2>2, <2>3
<1>3. \A k \in EscapedAt(p, i + 1)..EscapedLen(p) : Escape(p)[k] \in Byte
  BY <1>1, <1>2, ElementOfSeq
<1> QED BY <1>1, <1>2, <1>3, SubSeqProperties

LEMMA RestType ==
  ASSUME NEW p \in Packet, NEW i \in 0..Len(p)
  PROVE  Rest(p, i) \in Seq(Byte)
<1>1. <<SLIP_END>> \in Seq(Byte)
  BY DEF SLIP_END, Byte
<1> QED BY <1>1, PartType, ConcatProperties DEF Rest

\* A frame is a SLIP_END and the rest of it.
LEMMA FrameIsRest ==
  ASSUME NEW p \in Packet
  PROVE  SlipSendPacket(p) = <<SLIP_END>> \o Rest(p, 0)
<1>1. Escape(p) \in Seq(Byte) /\ Len(Escape(p)) = EscapedLen(p)
  BY EscapeType
<1>2. SubSeq(Escape(p), 1, EscapedLen(p)) = Escape(p)
  BY <1>1, SubSeqFull
<1>3. Rest(p, 0) = Escape(p) \o <<SLIP_END>>
  <2>1. EscapedAt(p, 0 + 1) = 1
    BY EscapedEnds
  <2> QED BY <1>2, <2>1 DEF Rest
<1>4. <<SLIP_END>> \in Seq(Byte)
  BY DEF SLIP_END, Byte
<1> DEFINE a == <<SLIP_END>>
           b == Escape(p)
<1>5. a \in Seq(Byte) /\ b \in Seq(Byte)
  BY <1>1, <1>4
<1> HIDE DEF a, b
<1>6. (a \o b) \o a = a \o (b \o a)
  <2>1. Groups(a, b, a)
    BY <1>5, Group
  <2> QED BY <2>1 DEF Groups
<1> QED BY <1>3, <1>6 DEF a, b, SlipSendPacket

\* Reading on: the SLIP_END is left when the packet is read; a special byte
\* takes two, any other byte one.
LEMMA RestOfAll ==
  ASSUME NEW p \in Packet
  PROVE  Rest(p, Len(p)) = <<SLIP_END>> \o <<>>
<1>1. EscapedLen(p) \in Nat
  BY EscapeType
<1>2. SubSeq(Escape(p), EscapedLen(p) + 1, EscapedLen(p)) = <<>>
  BY <1>1, SubSeqEmpty
<1>3. Rest(p, Len(p)) = <<>> \o <<SLIP_END>>
  BY <1>2, EscapedEnds DEF Rest
<1>4. <<SLIP_END>> \in Seq(Byte)
  BY DEF SLIP_END, Byte
<1>5. <<>> \o <<SLIP_END>> = <<SLIP_END>> /\ <<SLIP_END>> \o <<>> = <<SLIP_END>>
  BY <1>4, ConcatEmptySeq
<1> QED BY <1>3, <1>5

LEMMA RestNext ==
  ASSUME NEW p \in Packet, NEW i \in 1..Len(p)
  PROVE  /\ p[i] \notin Special => Rest(p, i - 1) = <<p[i]>> \o Rest(p, i)
         /\ p[i] \in Special =>
              Rest(p, i - 1) = <<SLIP_ESC>> \o (<<EscapeCode(p[i])>> \o Rest(p, i))
<1> DEFINE k == EscapedAt(p, i)
           n == EscapedAt(p, i + 1)
           e == Escape(p)
           l == EscapedLen(p)
           a == SubSeq(e, k, l)
           z == SubSeq(e, n, l)
           w == <<SLIP_END>>
<1>1. e \in Seq(Byte) /\ Len(e) = l /\ l \in Nat
  BY EscapeType
<1>2. k \in Nat \ {0} /\ n = k + (IF p[i] \in Special THEN 2 ELSE 1)
  BY EscapedAtNext
<1>3. /\ k \in 1..l
      /\ p[i] \notin Special => e[k] = p[i]
      /\ p[i] \in Special => k + 1 \in 1..l /\ e[k] = SLIP_ESC /\ e[k + 1] = EscapeCode(p[i])
  BY EscapedByte
<1>4. Rest(p, i - 1) = a \o w /\ Rest(p, i) = z \o w
  <2>1. i - 1 + 1 = i
    OBVIOUS
  <2> QED BY <2>1 DEF Rest
<1>5. w \in Seq(Byte) /\ SLIP_ESC \in Byte
  BY DEF SLIP_END, SLIP_ESC, Byte
<1> HIDE DEF e, k, n, l, w
<1>6. \A m \in 1..(l + 2) : SubSeq(e, m, l) \in Seq(Byte)
  <2> SUFFICES ASSUME NEW m \in 1..(l + 2) PROVE SubSeq(e, m, l) \in Seq(Byte)
    OBVIOUS
  <2>1. \A j \in m..l : e[j] \in Byte
    BY <1>1, ElementOfSeq
  <2> QED BY <1>1, <2>1, SubSeqProperties
<1>7. a \in Seq(Byte) /\ z \in Seq(Byte) /\ SubSeq(e, k + 1, l) \in Seq(Byte)
  <2>1. k \in 1..(l + 2) /\ n \in 1..(l + 2) /\ k + 1 \in 1..(l + 2)
    BY <1>1, <1>2, <1>3
  <2> QED BY <1>6, <2>1
<1>8. \A m \in 1..l : SubSeq(e, m, l) = <<e[m]>> \o SubSeq(e, m + 1, l)
  <2> SUFFICES ASSUME NEW m \in 1..l PROVE SubSeq(e, m, l) = <<e[m]>> \o SubSeq(e, m + 1, l)
    OBVIOUS
  <2>1. m \in 1..Len(e) /\ l \in m..Len(e)
    BY <1>1
  <2> QED BY <1>1, <2>1, SubSeqRecursiveFirst
<1>9. \A m \in 1..l : e[m] \in Byte
  BY <1>1, ElementOfSeq
<1>10. ASSUME NEW c \in Byte, NEW x \in Seq(Byte)
       PROVE  (<<c>> \o x) \o w = <<c>> \o (x \o w)
  <2>1. <<c>> \in Seq(Byte)
    OBVIOUS
  <2>2. Groups(<<c>>, x, w)
    BY <1>5, <2>1, Group
  <2> QED BY <2>2 DEF Groups
<1>11. CASE p[i] \notin Special
  <2>1. n = k + 1 /\ e[k] = p[i]
    BY <1>2, <1>3, <1>11
  <2>2. a = <<p[i]>> \o z
    BY <1>3, <1>8, <2>1
  <2>3. p[i] \in Byte
    BY <1>3, <1>9, <2>1
  <2> HIDE DEF a, z
  <2>4. (<<p[i]>> \o z) \o w = <<p[i]>> \o (z \o w)
    BY <1>7, <1>10, <2>3
  <2> QED BY <1>4, <1>11, <2>2, <2>4
<1>12. CASE p[i] \in Special
  <2> DEFINE c == EscapeCode(p[i])
             y == SubSeq(e, k + 1, l)
  <2>1. n = k + 1 + 1 /\ e[k] = SLIP_ESC /\ e[k + 1] = c /\ k + 1 \in 1..l
    BY <1>2, <1>3, <1>12
  <2>2. a = <<SLIP_ESC>> \o y
    BY <1>3, <1>8, <2>1
  <2>3. y = <<c>> \o z
    <3> DEFINE j == k + 1
    <3>1. j \in 1..l /\ j + 1 = n /\ e[j] = c
      BY <2>1
    <3> HIDE DEF j, c
    <3>2. SubSeq(e, j, l) = <<e[j]>> \o SubSeq(e, j + 1, l)
      BY <1>8, <3>1
    <3> QED BY <3>1, <3>2 DEF j
  <2>4. c \in Byte
    BY <1>9, <2>1
  <2>5. y \in Seq(Byte)
    BY <1>7
  <2> HIDE DEF a, z, c, y
  <2>6. (<<SLIP_ESC>> \o y) \o w = <<SLIP_ESC>> \o (y \o w)
    BY <1>5, <1>10, <2>5
  <2>7. (<<c>> \o z) \o w = <<c>> \o (z \o w)
    BY <1>7, <1>10, <2>4
  <2> QED BY <1>4, <1>12, <2>2, <2>3, <2>6, <2>7 DEF c
<1> QED BY <1>11, <1>12
-----------------------------------------------------------------------------
(* What is still to be read, and what a turn of the loop makes of it *)

\* A packet that inbuf holds and of which none is taken for a line to print while
\* it is being read.
ReadWhole(p) ==
  /\ Len(p) < BufSize
  /\ Verbose >= 2 /\ Verbose # 4 =>
       \A i \in 1..Len(p) : p[i] = 10 => ~Sensible(SubSeq(p, 1, i))

Framed == [p \in Payloads |-> SlipSendPacket(p)]
Handed == [p \in Payloads |-> Dispatch(p)]
Frames(ps) == FlatMap(Framed, ps)
Due(ps) == FlatMap(Handed, ps)
Unread == inslip \o line

\* With the bytes u still to be read, b in inbuf and ups handed on, serial_input()
\* is between two whole frames, or has read i bytes of p; all of them make what
\* is handed on be all.
Between(u, b, ups, all, ps) ==
  /\ b = <<>>
  /\ u = Frames(ps)
  /\ all = ups \o Due(ps)
Within(u, b, ups, all, ps, p, i) ==
  /\ b = SubSeq(p, 1, i)
  /\ u = Rest(p, i) \o Frames(ps)
  /\ all = ups \o (Dispatch(p) \o Due(ps))
Whole(u, b, ups, all) ==
  \E ps \in Seq(Payloads) :
    \/ Between(u, b, ups, all, ps)
    \/ \E p \in Payloads : \E i \in 0..Len(p) : Within(u, b, ups, all, ps, p, i)

\* A turn of the loop makes v of u, c of b and vps of ups.
Turn(u, v, b, c, ups, vps) ==
  \/ /\ u # <<>> /\ Head(u) = SLIP_END /\ v = Tail(u)
     /\ c = <<>> /\ vps = IF b = <<>> THEN ups ELSE ups \o Dispatch(b)
  \/ /\ u # <<>> /\ Head(u) = SLIP_ESC /\ Tail(u) # <<>> /\ v = Tail(Tail(u))
     /\ c = Store(b, Unescape(Head(Tail(u)))) /\ vps = ups
  \/ v = u /\ c = b /\ vps = ups
  \/ /\ u # <<>> /\ Head(u) \notin Special /\ v = Tail(u)
     /\ c = Store(b, Head(u)) /\ vps = ups

LEMMA PayloadFacts ==
  ASSUME NEW p \in Payloads
  PROVE  /\ p \in Packet /\ p \in Seq(Byte) /\ p # <<>> /\ Len(p) \in Nat \ {0}
         /\ Dispatch(p) \in Seq(Upcalls) /\ SlipSendPacket(p) \in Seq(Byte)
<1>1. p \in Packet /\ p \in Seq(Byte) /\ p # <<>>
  BY InputPayloadsAssumption DEF Packet
<1>2. Len(p) \in Nat \ {0}
  BY <1>1, EmptySeq
<1> QED BY <1>1, <1>2, DispatchType, SentAreBytes

LEMMA FramedHanded == Framed \in Listings(Payloads, Byte) /\ Handed \in Listings(Payloads, Upcalls)
BY PayloadFacts DEF Framed, Handed, Listings

\* Another payload, and the first of some.
LEMMA OneMorePayload ==
  ASSUME NEW ps \in Seq(Payloads), NEW p \in Payloads
  PROVE  /\ Frames(ps) \in Seq(Byte) /\ Due(ps) \in Seq(Upcalls)
         /\ Frames(Append(ps, p)) = Frames(ps) \o SlipSendPacket(p)
         /\ Due(Append(ps, p)) = Due(ps) \o Dispatch(p)
<1>1. Framed[p] = SlipSendPacket(p) /\ Handed[p] = Dispatch(p)
  BY DEF Framed, Handed
<1>2. /\ FlatMap(Framed, ps) \in Seq(Byte)
      /\ FlatMap(Framed, Append(ps, p)) = FlatMap(Framed, ps) \o Framed[p]
  BY FramedHanded, FlatMapAppend
<1>3. /\ FlatMap(Handed, ps) \in Seq(Upcalls)
      /\ FlatMap(Handed, Append(ps, p)) = FlatMap(Handed, ps) \o Handed[p]
  BY FramedHanded, FlatMapAppend
<1> QED BY <1>1, <1>2, <1>3 DEF Frames, Due

LEMMA PayloadsTyped ==
  ASSUME NEW ps \in Seq(Payloads)
  PROVE  Frames(ps) \in Seq(Byte) /\ Due(ps) \in Seq(Upcalls)
<1>1. CASE ps = <<>>
  BY <1>1, FlatMapEmpty, EmptySeq DEF Frames, Due
<1>2. CASE ps # <<>>
  <2>1. Head(ps) \in Payloads
    BY <1>2, HeadTailProperties
  <2> QED BY <2>1, OneMorePayload
<1> QED BY <1>1, <1>2

LEMMA FirstPayload ==
  ASSUME NEW ps \in Seq(Payloads), ps # <<>>
  PROVE  /\ Head(ps) \in Payloads /\ Tail(ps) \in Seq(Payloads)
         /\ Frames(ps) = SlipSendPacket(Head(ps)) \o Frames(Tail(ps))
         /\ Due(ps) = Dispatch(Head(ps)) \o Due(Tail(ps))
<1>1. Head(ps) \in Payloads /\ Tail(ps) \in Seq(Payloads)
  BY HeadTailProperties
<1>2. Framed[Head(ps)] = SlipSendPacket(Head(ps)) /\ Handed[Head(ps)] = Dispatch(Head(ps))
  BY <1>1 DEF Framed, Handed
<1>3. FlatMap(Framed, ps) = Framed[Head(ps)] \o FlatMap(Framed, Tail(ps))
  BY FramedHanded, FlatMapTail
<1>4. FlatMap(Handed, ps) = Handed[Head(ps)] \o FlatMap(Handed, Tail(ps))
  BY FramedHanded, FlatMapTail
<1> QED BY <1>1, <1>2, <1>3, <1>4 DEF Frames, Due

LEMMA ExpectedIsDue ==
  ASSUME NEW fs \in Seq(Payloads)
  PROVE  FlattenSeq([k \in DOMAIN fs |-> Dispatch(fs[k])]) = Due(fs)
<1>1. \A k \in DOMAIN fs : fs[k] \in Payloads
  BY LenProperties, ElementOfSeq
<1>2. [k \in DOMAIN fs |-> Dispatch(fs[k])] = [k \in DOMAIN fs |-> Handed[fs[k]]]
  BY <1>1 DEF Handed
<1> QED BY <1>2 DEF Due, FlatMap

\* The next byte of a packet makes inbuf hold one more of it.
LEMMA StoreNext ==
  ASSUME NEW p \in Payloads, ReadWhole(p), NEW i \in 1..Len(p)
  PROVE  Store(SubSeq(p, 1, i - 1), p[i]) = SubSeq(p, 1, i)
<1>1. p \in Seq(Byte) /\ Len(p) \in Nat \ {0}
  BY PayloadFacts
<1> DEFINE a == SubSeq(p, 1, i - 1)
<1>2. SubSeq(p, 1, i) = a \o <<p[i]>>
  <2>1. 1 \in 1..Len(p) /\ i \in 1..Len(p)
    BY <1>1
  <2> QED BY <1>1, <2>1, SubSeqRecursiveSecond
<1>3. a \in Seq(Byte) /\ p[i] \in Byte
  <2>1. \A k \in 1..(i - 1) : p[k] \in Byte
    BY <1>1, ElementOfSeq
  <2>2. 1 \in Int /\ i - 1 \in Int
    OBVIOUS
  <2> QED BY <1>1, <2>1, <2>2, ElementOfSeq, SubSeqProperties
<1> HIDE DEF a
<1>4. Append(a, p[i]) = SubSeq(p, 1, i)
  BY <1>2, <1>3, AppendIsConcat
<1>5. Store(a, p[i]) = SubSeq(p, 1, i)
  BY <1>4 DEF Store, ReadWhole
<1> QED BY <1>5 DEF a

LEMMA ReadTurns ==
  ASSUME InputInv, NEW buf, Read(buf), line' = line
  PROVE  Turn(Unread, Unread', buf, inbuf', upcalls, upcalls')
<1>1. inslip \in Seq(Byte) /\ line \in Seq(Byte)
  BY DEF InputInv
<1>2. ASSUME inslip # <<>>
      PROVE  Head(Unread) = Head(inslip) /\ Tail(Unread) = Tail(inslip) \o line /\ Unread # <<>>
  <2>1. inslip \o line # <<>>
    BY <1>1, <1>2, ConcatSimplifications!concIsEmpty
  <2> QED BY <1>1, <1>2, <2>1, FirstOfConcat DEF Unread
<1>3. CASE /\ inslip # <<>> /\ Head(inslip) = SLIP_END
           /\ upcalls' = IF buf = <<>> THEN upcalls ELSE upcalls \o Dispatch(buf)
           /\ inbuf' = <<>> /\ inslip' = Tail(inslip)
  BY <1>2, <1>3 DEF Unread, Turn
<1>4. CASE /\ Len(inslip) >= 2 /\ Head(inslip) = SLIP_ESC
           /\ inbuf' = Store(buf, Unescape(inslip[2]))
           /\ inslip' = Tail(Tail(inslip)) /\ upcalls' = upcalls
  <2> DEFINE t == Tail(inslip)
  <2>1. inslip # <<>>
    <3>1. Len(<<>>) = 0
      OBVIOUS
    <3> QED BY <1>4, <3>1
  <2>2. t \in Seq(Byte) /\ Len(t) = Len(inslip) - 1 /\ \A i \in 1..Len(t) : t[i] = inslip[i + 1]
    BY <1>1, <2>1, HeadTailProperties
  <2> HIDE DEF t
  <2>3. Len(inslip) \in Nat /\ 1 \in 1..Len(t)
    BY <1>1, <1>4, <2>2, LenProperties
  <2>4. t # <<>>
    BY <2>3, EmptySeq
  <2>5. Head(t) = inslip[2]
    BY <2>2, <2>3, <2>4
  <2>6. Head(t \o line) = Head(t) /\ Tail(t \o line) = Tail(t) \o line
    BY <1>1, <2>2, <2>4, FirstOfConcat
  <2>7. Unread' = Tail(t) \o line
    BY <1>4 DEF Unread, t
  <2>8. t \o line # <<>>
    BY <1>1, <2>2, <2>4, ConcatSimplifications!concIsEmpty
  <2> QED BY <1>2, <1>4, <2>1, <2>5, <2>6, <2>7, <2>8 DEF t, Turn
<1>5. CASE inbuf' = buf /\ inslip' = inslip /\ upcalls' = upcalls
  BY <1>5 DEF Unread, Turn
<1>6. CASE /\ inslip # <<>> /\ Head(inslip) \notin Special
           /\ inbuf' = Store(buf, Head(inslip)) /\ inslip' = Tail(inslip) /\ upcalls' = upcalls
  BY <1>2, <1>6 DEF Unread, Turn
<1> QED BY <1>3, <1>4, <1>5, <1>6, Zenon DEF Read

-----------------------------------------------------------------------------
(* A turn of the loop keeps whole frames whole *)

LEMMA ByteAhead ==
  ASSUME NEW c \in Byte, NEW x \in Seq(Byte), NEW y \in Seq(Byte), NEW u, u = (<<c>> \o x) \o y
  PROVE  u # <<>> /\ Head(u) = c /\ Tail(u) = x \o y
<1>1. <<c>> \in Seq(Byte) /\ x \o y \in Seq(Byte)
  BY ConcatProperties
<1>2. u = <<c>> \o (x \o y)
  <2>1. Groups(<<c>>, x, y)
    BY <1>1, Group
  <2> QED BY <2>1 DEF Groups
<1> QED BY <1>1, <1>2, FirstByte

LEMMA BetweenTurn ==
  ASSUME NEW u, NEW v, NEW b, NEW c, NEW ups, NEW vps, NEW all, NEW ps \in Seq(Payloads),
         Between(u, b, ups, all, ps), Turn(u, v, b, c, ups, vps)
  PROVE  Whole(v, c, vps, all)
<1>1. b = <<>> /\ u = Frames(ps) /\ all = ups \o Due(ps)
  BY DEF Between
<1>2. SLIP_END \in Byte /\ SLIP_END # SLIP_ESC /\ SLIP_END \in Special
  BY DEF SLIP_END, SLIP_ESC, Special, Byte
<1>3. ASSUME v = u, c = b, vps = ups
      PROVE  Whole(v, c, vps, all)
  BY <1>1, <1>3 DEF Whole, Between
<1>4. CASE ps = <<>>
  <2>1. u = <<>>
    BY <1>1, <1>4, FlatMapEmpty DEF Frames
  <2> QED BY <1>3, <2>1 DEF Turn
<1>5. CASE ps # <<>>
  <2> DEFINE p == Head(ps)
             qs == Tail(ps)
  <2>1. /\ p \in Payloads /\ qs \in Seq(Payloads)
        /\ Frames(ps) = SlipSendPacket(p) \o Frames(qs)
        /\ Due(ps) = Dispatch(p) \o Due(qs)
    BY <1>5, FirstPayload
  <2> HIDE DEF p, qs
  <2>2. p \in Packet /\ 0 \in 0..Len(p) /\ SubSeq(p, 1, 0) = <<>>
    BY <2>1, PayloadFacts, SubSeqEmpty
  <2>3. Rest(p, 0) \in Seq(Byte) /\ Frames(qs) \in Seq(Byte)
    BY <2>1, <2>2, RestType, PayloadsTyped
  <2>4. u = (<<SLIP_END>> \o Rest(p, 0)) \o Frames(qs)
    BY <1>1, <2>1, <2>2, FrameIsRest
  <2>5. u # <<>> /\ Head(u) = SLIP_END /\ Tail(u) = Rest(p, 0) \o Frames(qs)
    BY <1>2, <2>3, <2>4, ByteAhead
  <2>6. CASE v = Tail(u) /\ c = <<>> /\ vps = ups
    <3>1. Within(v, c, vps, all, qs, p, 0)
      BY <1>1, <2>1, <2>2, <2>5, <2>6 DEF Within
    <3> QED BY <2>1, <2>2, <3>1 DEF Whole
  <2>7. CASE v = u /\ c = b /\ vps = ups
    BY <1>3, <2>7
  <2> QED BY <1>1, <1>2, <2>5, <2>6, <2>7 DEF Turn
<1> QED BY <1>4, <1>5

LEMMA WithinTurn ==
  ASSUME NEW u, NEW v, NEW b, NEW c, NEW ups \in Seq(Upcalls), NEW vps, NEW all,
         NEW ps \in Seq(Payloads), NEW p \in Payloads, NEW i \in 0..Len(p), ReadWhole(p),
         Within(u, b, ups, all, ps, p, i), Turn(u, v, b, c, ups, vps)
  PROVE  Whole(v, c, vps, all)
<1>1. /\ b = SubSeq(p, 1, i) /\ u = Rest(p, i) \o Frames(ps)
      /\ all = ups \o (Dispatch(p) \o Due(ps))
  BY DEF Within
<1>2. SLIP_END \in Byte /\ SLIP_ESC \in Byte /\ SLIP_END # SLIP_ESC /\ Special = {SLIP_END, SLIP_ESC}
  BY DEF SLIP_END, SLIP_ESC, Special, Byte
<1>3. /\ p \in Packet /\ p \in Seq(Byte) /\ p # <<>> /\ Len(p) \in Nat \ {0}
      /\ Dispatch(p) \in Seq(Upcalls)
  BY PayloadFacts
<1>4. Frames(ps) \in Seq(Byte) /\ Due(ps) \in Seq(Upcalls)
  BY PayloadsTyped
<1>5. ASSUME v = u, c = b, vps = ups
      PROVE  Whole(v, c, vps, all)
  <2>1. Within(v, c, vps, all, ps, p, i)
    BY <1>1, <1>5 DEF Within
  <2> QED BY <2>1 DEF Whole
<1>6. CASE i = Len(p)
  <2>1. b = p
    BY <1>1, <1>3, <1>6, SubSeqFull
  <2>2. <<>> \in Seq(Byte)
    OBVIOUS
  <2>3. u = (<<SLIP_END>> \o <<>>) \o Frames(ps)
    BY <1>1, <1>3, <1>6, RestOfAll
  <2>4. u # <<>> /\ Head(u) = SLIP_END /\ Tail(u) = <<>> \o Frames(ps)
    BY <1>2, <1>4, <2>2, <2>3, ByteAhead
  <2>5. Tail(u) = Frames(ps)
    BY <1>4, <2>4, ConcatEmptySeq
  <2>6. CASE v = Tail(u) /\ c = <<>> /\ vps = ups \o Dispatch(p)
    <3>1. ups \o (Dispatch(p) \o Due(ps)) = (ups \o Dispatch(p)) \o Due(ps)
      <4> DEFINE d == Dispatch(p)
                 r == Due(ps)
      <4>1. d \in Seq(Upcalls) /\ r \in Seq(Upcalls) /\ ups \in Seq(Upcalls)
        BY <1>3, <1>4
      <4> HIDE DEF d, r
      <4>2. ups \o (d \o r) = (ups \o d) \o r
        <5>1. Groups(ups, d, r)
          BY ONLY <4>1, Group
        <5> QED BY <5>1 DEF Groups
      <4> QED BY <4>2 DEF d, r
    <3>2. Between(v, c, vps, all, ps)
      BY <1>1, <2>5, <2>6, <3>1 DEF Between
    <3> QED BY <3>2 DEF Whole
  <2>7. CASE v = u /\ c = b /\ vps = ups
    BY <1>5, <2>7
  <2> QED BY <1>2, <1>3, <2>1, <2>4, <2>6, <2>7 DEF Turn
<1>7. CASE i # Len(p)
  <2> DEFINE j == i + 1
  <2>1. j \in 1..Len(p) /\ j \in 0..Len(p) /\ j - 1 = i
    BY <1>3, <1>7
  <2> HIDE DEF j
  <2>2. Rest(p, j) \in Seq(Byte)
    BY <1>3, <2>1, RestType
  <2>3. /\ p[j] \notin Special => Rest(p, i) = <<p[j]>> \o Rest(p, j)
        /\ p[j] \in Special => Rest(p, i) = <<SLIP_ESC>> \o (<<EscapeCode(p[j])>> \o Rest(p, j))
    <3>1. /\ p[j] \notin Special => Rest(p, j - 1) = <<p[j]>> \o Rest(p, j)
          /\ p[j] \in Special =>
               Rest(p, j - 1) = <<SLIP_ESC>> \o (<<EscapeCode(p[j])>> \o Rest(p, j))
      BY <1>3, <2>1, RestNext
    <3> QED BY <2>1, <3>1
  <2>4. Store(b, p[j]) = SubSeq(p, 1, j)
    BY <1>1, <2>1, StoreNext
  <2>5. p[j] \in Byte
    BY <1>3, <2>1, ElementOfSeq
  <2>6. ASSUME v = Rest(p, j) \o Frames(ps), c = Store(b, p[j]), vps = ups
        PROVE  Whole(v, c, vps, all)
    <3>1. Within(v, c, vps, all, ps, p, j)
      BY <1>1, <2>4, <2>6 DEF Within
    <3> QED BY <2>1, <3>1 DEF Whole
  <2>7. CASE p[j] \notin Special
    <3>1. u = (<<p[j]>> \o Rest(p, j)) \o Frames(ps)
      BY <1>1, <2>3, <2>7
    <3>2. u # <<>> /\ Head(u) = p[j] /\ Tail(u) = Rest(p, j) \o Frames(ps)
      <4>1. PICK e : e = p[j]
        OBVIOUS
      <4>2. e \in Byte /\ u = (<<e>> \o Rest(p, j)) \o Frames(ps)
        BY <2>5, <3>1, <4>1
      <4>3. u # <<>> /\ Head(u) = e /\ Tail(u) = Rest(p, j) \o Frames(ps)
        BY <1>4, <2>2, <4>2, ByteAhead
      <4> QED BY <4>1, <4>3
    <3>3. \/ v = Tail(u) /\ c = Store(b, p[j]) /\ vps = ups
          \/ v = u /\ c = b /\ vps = ups
      BY <1>2, <2>7, <3>2 DEF Turn
    <3> QED BY <1>5, <2>6, <3>2, <3>3
  <2>8. CASE p[j] \in Special
    <3> DEFINE e == EscapeCode(p[j])
               r == <<e>> \o Rest(p, j)
               t == r \o Frames(ps)
    <3>1. e \in Byte /\ Unescape(e) = p[j]
      BY <2>8 DEF EscapeCode, Unescape, Byte, Special, SLIP_END, SLIP_ESC, SLIP_ESC_END, SLIP_ESC_ESC
    <3> HIDE DEF e
    <3>2. <<e>> \in Seq(Byte)
      BY <3>1
    <3>3. r \in Seq(Byte) /\ Rest(p, j) \o Frames(ps) \in Seq(Byte)
      BY <1>4, <2>2, <3>2, ConcatProperties
    <3>4. t = <<e>> \o (Rest(p, j) \o Frames(ps))
      <4>1. Groups(<<e>>, Rest(p, j), Frames(ps))
        BY <1>4, <2>2, <3>2, Group
      <4> QED BY <4>1 DEF Groups
    <3>5. Head(t) = e /\ Tail(t) = Rest(p, j) \o Frames(ps)
      BY <3>1, <3>3, <3>4, FirstByte
    <3>6. u = (<<SLIP_ESC>> \o r) \o Frames(ps)
      BY <1>1, <2>3, <2>8 DEF e
    <3> HIDE DEF r
    <3>7. u # <<>> /\ Head(u) = SLIP_ESC /\ Tail(u) = t
      BY <1>2, <1>4, <3>3, <3>6, ByteAhead
    <3> HIDE DEF t
    <3>8. \/ v = Tail(Tail(u)) /\ c = Store(b, Unescape(Head(Tail(u)))) /\ vps = ups
          \/ v = u /\ c = b /\ vps = ups
      BY <1>2, <3>7 DEF Turn
    <3>9. \/ v = Rest(p, j) \o Frames(ps) /\ c = Store(b, p[j]) /\ vps = ups
          \/ v = u /\ c = b /\ vps = ups
      BY <3>1, <3>5, <3>7, <3>8
    <3> QED BY <1>5, <2>6, <3>9
  <2> QED BY <2>7, <2>8
<1> QED BY <1>6, <1>7

LEMMA WholeTurn ==
  ASSUME \A p \in Payloads : ReadWhole(p),
         NEW u, NEW v, NEW b, NEW c, NEW ups \in Seq(Upcalls), NEW vps, NEW all,
         Whole(u, b, ups, all), Turn(u, v, b, c, ups, vps)
  PROVE  Whole(v, c, vps, all)
<1>1. PICK ps \in Seq(Payloads) :
        \/ Between(u, b, ups, all, ps)
        \/ \E p \in Payloads : \E i \in 0..Len(p) : Within(u, b, ups, all, ps, p, i)
  BY DEF Whole
<1>2. CASE Between(u, b, ups, all, ps)
  BY <1>2, BetweenTurn
<1>3. CASE \E p \in Payloads : \E i \in 0..Len(p) : Within(u, b, ups, all, ps, p, i)
  <2>1. PICK p \in Payloads : \E i \in 0..Len(p) : Within(u, b, ups, all, ps, p, i)
    BY <1>3
  <2>2. PICK i \in 0..Len(p) : Within(u, b, ups, all, ps, p, i)
    BY <2>1
  <2> QED BY <2>2, WithinTurn
<1> QED BY <1>1, <1>2, <1>3

\* The buffer is never thrown away.
LEMMA WholeFits ==
  ASSUME \A p \in Payloads : ReadWhole(p), NEW u, NEW b, NEW ups, NEW all, Whole(u, b, ups, all)
  PROVE  DropLarge(b) = b
<1>1. CASE b = <<>>
  BY <1>1 DEF DropLarge
<1>2. CASE \E p \in Payloads : \E i \in 0..Len(p) : b = SubSeq(p, 1, i)
  <2>0. PICK p \in Payloads : \E i \in 0..Len(p) : b = SubSeq(p, 1, i)
    BY <1>2
  <2>1. PICK i \in 0..Len(p) : b = SubSeq(p, 1, i)
    BY <2>0
  <2>2. Len(p) \in Nat /\ p \in Seq(Byte)
    BY PayloadFacts
  <2>3. Len(b) = i
    <3>1. \A k \in 1..i : p[k] \in Byte
      BY <2>2, ElementOfSeq
    <3> QED BY <2>1, <2>2, <3>1, SubSeqProperties
  <2>4. Len(p) < BufSize
    BY DEF ReadWhole
  <2>5. ~(Len(b) >= BufSize)
    BY <2>2, <2>3, <2>4, InputSizesAssumption
  <2> QED BY <2>5 DEF DropLarge
<1> QED BY <1>1, <1>2 DEF Whole, Between, Within

-----------------------------------------------------------------------------
(* What one lost byte makes of the frames still to be read *)

AtMostOne == {x \in Seq(Upcalls) : Len(x) <= 1}
Plain == Byte \ {SLIP_END}

\* The rest of a damaged frame, its SLIP_END, and whole frames; or a SLIP_END
\* before all that.
Damaged(w, ps) == \E r \in Seq(Plain) : w = r \o (<<SLIP_END>> \o Frames(ps))
Harmed(w, ps) == Damaged(w, ps) \/ \E z \in Seq(Byte) : w = <<SLIP_END>> \o z /\ Damaged(z, ps)

\* Whole frames are still to be read before the damaged one.
Ahead(u, b, ups, all) ==
  \E x \in Seq(Byte), before \in Seq(Upcalls), ps \in Seq(Payloads) :
    \E h \in AtMostOne, w \in Seq(Byte) :
      /\ Whole(x, b, ups, before)
      /\ u = x \o w /\ Harmed(w, ps)
      /\ all = before \o (h \o Due(ps))

\* The damaged frame is being read; a lost byte can make its SLIP_END part of it.
Muddled(u, ups, all) ==
  \E h \in AtMostOne, ps \in Seq(Payloads) :
    /\ Damaged(u, ps) \/ u = Frames(ps)
    /\ all = ups \o (h \o Due(ps))

\* The damaged frame was read: d was handed on in the place of h.
Passed(u, b, ups, all) ==
  \E before \in Seq(Upcalls), after \in Seq(Upcalls) :
    \E h \in AtMostOne, d \in AtMostOne :
      /\ all = before \o (h \o after)
      /\ Whole(u, b, ups, before \o (d \o after))

\* The last SLIP_END written was lost.
Cut(u, b, ups, all) == Whole(u \o <<SLIP_END>>, b, ups, all)

OneLost(u, b, ups, all) ==
  Ahead(u, b, ups, all) \/ Muddled(u, ups, all) \/ Passed(u, b, ups, all) \/ Cut(u, b, ups, all)

LEMMA EndByte == SLIP_END \in Byte /\ SLIP_ESC \in Byte /\ SLIP_END # SLIP_ESC
                 /\ <<SLIP_END>> \in Seq(Byte) /\ Special = {SLIP_END, SLIP_ESC}
BY DEF SLIP_END, SLIP_ESC, Byte, Special

LEMMA PlainBytes == \A r \in Seq(Plain) : r \in Seq(Byte)
<1> SUFFICES ASSUME NEW r \in Seq(Plain) PROVE r \in Seq(Byte)
  OBVIOUS
<1>1. Len(r) \in Nat /\ \A k \in 1..Len(r) : r[k] \in Byte
  BY ElementOfSeq DEF Plain
<1>2. r \in [1..Len(r) -> Byte]
  BY <1>1
<1> QED BY <1>1, <1>2

\* An escaped packet holds no SLIP_END.
LEMMA EscapeHidesEnd ==
  ASSUME NEW p \in Packet
  PROVE  Escape(p) \in Seq(Byte \ {SLIP_END})
<1>1. EscapedLen(p) \in Nat
  BY EscapeType
<1> DEFINE StartsAt(k) == {i \in DOMAIN p : EscapedAt(p, i) = k}
           First(c) == IF c \in Special THEN SLIP_ESC ELSE c
           At(k) == IF StartsAt(k) # {}
                    THEN First(p[CHOOSE i \in StartsAt(k) : TRUE])
                    ELSE EscapeCode(p[CHOOSE i \in StartsAt(k - 1) : TRUE])
<1>2. ASSUME NEW k \in 1..EscapedLen(p)
      PROVE  At(k) \in Byte \ {SLIP_END}
  <2>1. CASE StartsAt(k) # {}
    <3>1. PICK i \in DOMAIN p : (CHOOSE j \in StartsAt(k) : TRUE) = i
      BY <2>1
    <3>2. p[i] \in Byte
      BY DEF Packet
    <3>3. At(k) = First(p[i])
      BY <2>1, <3>1
    <3>4. First(p[i]) \in Byte \ {SLIP_END}
      BY <3>2 DEF Byte, Special, SLIP_END, SLIP_ESC
    <3> QED BY <3>3, <3>4
  <2>2. CASE StartsAt(k) = {}
    BY <2>2 DEF EscapeCode, Byte, SLIP_END, SLIP_ESC_END, SLIP_ESC_ESC
  <2> QED BY <2>1, <2>2
<1>3. Escape(p) = [k \in 1..EscapedLen(p) |-> At(k)]
  BY DEF Escape
<1>4. [k \in 1..EscapedLen(p) |-> At(k)] \in [1..EscapedLen(p) -> Byte \ {SLIP_END}]
  BY <1>2
<1> HIDE DEF At
<1> QED BY <1>1, <1>3, <1>4

\* Three and four sequences joined are a sequence of the same set.
LEMMA ThreeType ==
  ASSUME NEW S, NEW a \in Seq(S), NEW b \in Seq(S), NEW c \in Seq(S)
  PROVE  a \o (b \o c) \in Seq(S)
<1> DEFINE y == b \o c
<1>1. y \in Seq(S)
  BY ConcatProperties
<1> HIDE DEF y
<1>2. a \o y \in Seq(S)
  BY <1>1, ConcatProperties
<1> QED BY <1>2 DEF y

Regroups(a, b, c, d) ==
  /\ (a \o (b \o c)) \o d = a \o (b \o (c \o d))
  /\ (a \o b) \o (c \o d) = a \o (b \o (c \o d))

LEMMA Regroup ==
  ASSUME NEW S, NEW a \in Seq(S), NEW b \in Seq(S), NEW c \in Seq(S), NEW d \in Seq(S)
  PROVE  Regroups(a, b, c, d)
<1> DEFINE y == b \o c
           z == c \o d
<1>1. y \in Seq(S) /\ z \in Seq(S)
  BY ConcatProperties
<1>2. y \o d = b \o z
  <2>1. Groups(b, c, d)
    BY Group
  <2> QED BY <2>1 DEF Groups
<1> HIDE DEF y, z
<1>3. (a \o y) \o d = a \o (y \o d)
  <2>1. Groups(a, y, d)
    BY <1>1, Group
  <2> QED BY <2>1 DEF Groups
<1>4. (a \o b) \o z = a \o (b \o z)
  <2>1. Groups(a, b, z)
    BY <1>1, Group
  <2> QED BY <2>1 DEF Groups
<1> QED BY <1>2, <1>3, <1>4 DEF y, z, Regroups

LEMMA DamagedType ==
  ASSUME NEW w, NEW ps \in Seq(Payloads), Damaged(w, ps)
  PROVE  w \in Seq(Byte) /\ w # <<>>
<1>1. PICK r \in Seq(Plain) : w = r \o (<<SLIP_END>> \o Frames(ps))
  BY DEF Damaged
<1> DEFINE y == <<SLIP_END>> \o Frames(ps)
<1>2. y \in Seq(Byte) /\ y # <<>>
  BY EndByte, PayloadsTyped, FirstByte
<1>3. r \in Seq(Byte)
  BY PlainBytes
<1> HIDE DEF y
<1>4. w = r \o y
  BY <1>1 DEF y
<1> QED BY <1>2, <1>3, <1>4, ConcatProperties, ConcatSimplifications!concIsEmpty

LEMMA HarmedType ==
  ASSUME NEW w, NEW ps \in Seq(Payloads), Harmed(w, ps)
  PROVE  w \in Seq(Byte) /\ w # <<>>
<1>1. CASE Damaged(w, ps)
  BY <1>1, DamagedType
<1>2. CASE \E z \in Seq(Byte) : w = <<SLIP_END>> \o z
  BY <1>2, EndByte, FirstByte
<1> QED BY <1>1, <1>2 DEF Harmed

LEMMA WholeType ==
  ASSUME NEW u, NEW b, NEW ups \in Seq(Upcalls), NEW all, Whole(u, b, ups, all)
  PROVE  u \in Seq(Byte) /\ b \in Seq(Byte) /\ all \in Seq(Upcalls)
<1>1. PICK ps \in Seq(Payloads) :
        \/ Between(u, b, ups, all, ps)
        \/ \E p \in Payloads : \E i \in 0..Len(p) : Within(u, b, ups, all, ps, p, i)
  BY DEF Whole
<1>2. Frames(ps) \in Seq(Byte) /\ Due(ps) \in Seq(Upcalls)
  BY PayloadsTyped
<1>3. CASE Between(u, b, ups, all, ps)
  <2>1. <<>> \in Seq(Byte)
    OBVIOUS
  <2> QED BY <1>2, <1>3, <2>1, ConcatProperties DEF Between
<1>4. ASSUME NEW p \in Payloads, NEW i \in 0..Len(p), Within(u, b, ups, all, ps, p, i)
      PROVE  u \in Seq(Byte) /\ b \in Seq(Byte) /\ all \in Seq(Upcalls)
  <2>1. p \in Packet /\ p \in Seq(Byte) /\ Len(p) \in Nat /\ Dispatch(p) \in Seq(Upcalls)
    BY PayloadFacts
  <2>2. SubSeq(p, 1, i) \in Seq(Byte)
    <3>1. \A k \in 1..i : p[k] \in Byte
      BY <2>1, ElementOfSeq
    <3> QED BY <2>1, <3>1, SubSeqProperties
  <2>3. Rest(p, i) \in Seq(Byte)
    BY <2>1, RestType
  <2>4. Rest(p, i) \o Frames(ps) \in Seq(Byte)
    BY <1>2, <2>3, ConcatProperties
  <2>5. ups \o (Dispatch(p) \o Due(ps)) \in Seq(Upcalls)
    BY <1>2, <2>1, ThreeType
  <2> QED BY <1>4, <2>2, <2>4, <2>5 DEF Within
<1> QED BY <1>1, <1>3, <1>4

LEMMA DispatchAtMostOne ==
  ASSUME NEW s \in Seq(Byte), s # <<>>
  PROVE  Dispatch(s) \in AtMostOne
<1>1. Dispatch(s) \in Seq(Upcalls)
  BY DispatchType
<1>2. \A x : Len(<<x>>) <= 1
  OBVIOUS
<1>3. Len(<<>>) <= 1
  OBVIOUS
<1> HIDE DEF Sensible
<1>4. Len(Dispatch(s)) <= 1
  BY <1>2, <1>3 DEF Dispatch
<1> QED BY <1>1, <1>4 DEF AtMostOne

LEMMA NoneAtMostOne == <<>> \in AtMostOne
<1>1. <<>> \in Seq(Upcalls) /\ Len(<<>>) <= 1
  OBVIOUS
<1> QED BY <1>1 DEF AtMostOne

-----------------------------------------------------------------------------
(* A turn of the loop keeps the damage to one frame *)

LEMMA TailType ==
  ASSUME NEW u \in Seq(Byte), u # <<>>
  PROVE  Head(u) \in Byte /\ Tail(u) \in Seq(Byte)
BY HeadTailProperties

\* A turn sees no more than the first two bytes.
LEMMA TurnMore ==
  ASSUME NEW u \in Seq(Byte), NEW w \in Seq(Byte), NEW v, NEW b, NEW c, NEW ups, NEW vps,
         Turn(u, v, b, c, ups, vps)
  PROVE  v \in Seq(Byte) /\ Turn(u \o w, v \o w, b, c, ups, vps)
<1> DEFINE t == u \o w
<1>1. ASSUME u # <<>>
      PROVE  t # <<>> /\ Head(t) = Head(u) /\ Tail(t) = Tail(u) \o w
  BY <1>1, FirstOfConcat, ConcatSimplifications!concIsEmpty
<1>2. CASE /\ u # <<>> /\ Head(u) = SLIP_END /\ v = Tail(u)
           /\ c = <<>> /\ vps = IF b = <<>> THEN ups ELSE ups \o Dispatch(b)
  <2> HIDE DEF t
  <2>1. Turn(t, v \o w, b, c, ups, vps)
    BY <1>1, <1>2 DEF Turn
  <2> QED BY <1>2, <2>1, TailType DEF t
<1>3. CASE /\ u # <<>> /\ Head(u) = SLIP_ESC /\ Tail(u) # <<>> /\ v = Tail(Tail(u))
           /\ c = Store(b, Unescape(Head(Tail(u)))) /\ vps = ups
  <2> DEFINE x == Tail(u)
  <2>1. x \in Seq(Byte) /\ x # <<>>
    BY <1>3, TailType
  <2> HIDE DEF x
  <2>2. Head(x \o w) = Head(x) /\ Tail(x \o w) = Tail(x) \o w /\ x \o w # <<>>
    BY <2>1, FirstOfConcat, ConcatSimplifications!concIsEmpty
  <2>3. /\ t # <<>> /\ Head(t) = SLIP_ESC /\ Tail(t) = x \o w
        /\ c = Store(b, Unescape(Head(x))) /\ v = Tail(x) /\ vps = ups
    BY <1>1, <1>3 DEF x
  <2> HIDE DEF t
  <2>4. Turn(t, v \o w, b, c, ups, vps)
    BY <2>2, <2>3 DEF Turn
  <2> QED BY <2>1, <2>3, <2>4, TailType DEF t
<1>4. CASE v = u /\ c = b /\ vps = ups
  BY <1>4 DEF Turn
<1>5. CASE /\ u # <<>> /\ Head(u) \notin Special /\ v = Tail(u)
           /\ c = Store(b, Head(u)) /\ vps = ups
  <2> HIDE DEF t
  <2>1. Turn(t, v \o w, b, c, ups, vps)
    BY <1>1, <1>5 DEF Turn
  <2> QED BY <1>5, <2>1, TailType DEF t
<1> QED BY <1>2, <1>3, <1>4, <1>5, Zenon DEF Turn

LEMMA TurnAhead ==
  ASSUME NEW x \in Seq(Byte), NEW w \in Seq(Byte), NEW v, NEW b, NEW c, NEW ups, NEW vps,
         x # <<>>, Head(x) = SLIP_ESC => Tail(x) # <<>>,
         Turn(x \o w, v, b, c, ups, vps)
  PROVE  \E y \in Seq(Byte) : v = y \o w /\ Turn(x, y, b, c, ups, vps)
<1> DEFINE u == x \o w
<1>1. Head(u) = Head(x) /\ Tail(u) = Tail(x) \o w
  BY FirstOfConcat
<1>2. Turn(u, v, b, c, ups, vps)
  OBVIOUS
<1>3. Head(x) \in Byte /\ Tail(x) \in Seq(Byte)
  BY TailType
<1> HIDE DEF u
<1>4. CASE /\ Head(u) = SLIP_END /\ v = Tail(u)
           /\ c = <<>> /\ vps = IF b = <<>> THEN ups ELSE ups \o Dispatch(b)
  <2>1. Turn(x, Tail(x), b, c, ups, vps)
    BY <1>1, <1>4 DEF Turn
  <2> QED BY <1>1, <1>3, <1>4, <2>1
<1>5. CASE /\ Head(u) = SLIP_ESC /\ v = Tail(Tail(u))
           /\ c = Store(b, Unescape(Head(Tail(u)))) /\ vps = ups
  <2> DEFINE t == Tail(x)
  <2>1. t \in Seq(Byte) /\ t # <<>>
    BY <1>1, <1>3, <1>5
  <2> HIDE DEF t
  <2>2. Head(t \o w) = Head(t) /\ Tail(t \o w) = Tail(t) \o w
    BY <2>1, FirstOfConcat
  <2>3. Tail(t) \in Seq(Byte)
    BY <2>1, TailType
  <2>4. Turn(x, Tail(t), b, c, ups, vps)
    BY <1>1, <1>5, <2>1, <2>2 DEF Turn, t
  <2>5. v = Tail(t) \o w
    BY <1>1, <1>5, <2>2 DEF t
  <2> QED BY <2>3, <2>4, <2>5
<1>6. CASE v = u /\ c = b /\ vps = ups
  <2>1. Turn(x, x, b, c, ups, vps)
    BY <1>6 DEF Turn
  <2> QED BY <1>6, <2>1 DEF u
<1>7. CASE /\ Head(u) \notin Special /\ v = Tail(u)
           /\ c = Store(b, Head(u)) /\ vps = ups
  <2>1. Turn(x, Tail(x), b, c, ups, vps)
    BY <1>1, <1>7 DEF Turn
  <2> QED BY <1>1, <1>3, <1>7, <2>1
<1> QED BY <1>2, <1>4, <1>5, <1>6, <1>7, Zenon DEF Turn

\* Nothing left to read is a place between frames.
LEMMA WholeEmpty ==
  ASSUME NEW b, NEW ups \in Seq(Upcalls), NEW all, NEW u, u = <<>>, Whole(u, b, ups, all)
  PROVE  b = <<>> /\ all = ups
<1>1. PICK ps \in Seq(Payloads) :
        \/ Between(u, b, ups, all, ps)
        \/ \E p \in Payloads : \E i \in 0..Len(p) : Within(u, b, ups, all, ps, p, i)
  BY DEF Whole
<1>2. CASE Between(u, b, ups, all, ps)
  <2>1. ASSUME ps # <<>> PROVE FALSE
    <3> DEFINE p == Head(ps)
               r == Rest(p, 0)
               t == Frames(Tail(ps))
    <3>1. p \in Payloads /\ t \in Seq(Byte) /\ Frames(ps) = SlipSendPacket(p) \o t
      BY <2>1, FirstPayload, PayloadsTyped
    <3>2. p \in Packet /\ 0 \in 0..Len(p)
      BY <3>1, PayloadFacts
    <3>3. r \in Seq(Byte)
      BY <3>2, RestType
    <3>4. u = (<<SLIP_END>> \o r) \o t
      BY <1>2, <3>1, <3>2, FrameIsRest DEF Between
    <3> HIDE DEF r, t
    <3>5. SLIP_END \in Byte /\ r \in Seq(Byte) /\ t \in Seq(Byte)
      BY <3>1, <3>3, EndByte
    <3>6. u # <<>>
      BY ONLY <3>4, <3>5, ByteAhead
    <3> QED BY <3>6
  <2>2. Due(ps) = <<>>
    BY <2>1, FlatMapEmpty DEF Due
  <2> QED BY <1>2, <2>2, ConcatEmptySeq DEF Between
<1>3. ASSUME NEW p \in Payloads, NEW i \in 0..Len(p), Within(u, b, ups, all, ps, p, i)
      PROVE  FALSE
  <2> DEFINE e == SubSeq(Escape(p), EscapedAt(p, i + 1), EscapedLen(p))
             f == <<SLIP_END>>
             t == Frames(ps)
  <2>1. e \in Seq(Byte) /\ f \in Seq(Byte) /\ t \in Seq(Byte) /\ f # <<>>
    BY EndByte, PayloadFacts, PartType, PayloadsTyped
  <2>2. u = (e \o f) \o t
    BY <1>3 DEF Within, Rest
  <2> HIDE DEF e, f, t
  <2>3. e \o f # <<>> /\ e \o f \in Seq(Byte)
    BY <2>1, ConcatProperties, ConcatSimplifications!concIsEmpty
  <2> DEFINE g == e \o f
  <2>4. g \in Seq(Byte) /\ g # <<>>
    BY <2>3
  <2> HIDE DEF g
  <2>5. g \o t # <<>>
    BY <2>1, <2>4, ConcatSimplifications!concIsEmpty
  <2> QED BY <2>2, <2>5 DEF g
<1> QED BY <1>1, <1>2, <1>3

\* An escape that is still to be read has its code behind it.
LEMMA WholeEscape ==
  ASSUME NEW u, NEW b, NEW ups, NEW all, Whole(u, b, ups, all), u # <<>>, Head(u) = SLIP_ESC
  PROVE  Tail(u) # <<>>
<1>1. PICK ps \in Seq(Payloads) :
        \/ Between(u, b, ups, all, ps)
        \/ \E p \in Payloads : \E i \in 0..Len(p) : Within(u, b, ups, all, ps, p, i)
  BY DEF Whole
<1>2. CASE Between(u, b, ups, all, ps)
  <2>1. ps # <<>>
    BY <1>2, FlatMapEmpty DEF Between, Frames
  <2> DEFINE p == Head(ps)
             r == Rest(p, 0)
             t == Frames(Tail(ps))
  <2>2. p \in Payloads /\ t \in Seq(Byte) /\ Frames(ps) = SlipSendPacket(p) \o t
    BY <2>1, FirstPayload, PayloadsTyped
  <2>3. p \in Packet /\ 0 \in 0..Len(p)
    BY <2>2, PayloadFacts
  <2>4. r \in Seq(Byte)
    BY <2>3, RestType
  <2>5. u = (<<SLIP_END>> \o r) \o t
    BY <1>2, <2>2, <2>3, FrameIsRest DEF Between
  <2> HIDE DEF r, t
  <2> QED BY <2>2, <2>4, <2>5, EndByte, ByteAhead
<1>3. ASSUME NEW p \in Payloads, NEW i \in 0..Len(p), Within(u, b, ups, all, ps, p, i)
      PROVE  Tail(u) # <<>>
  <2>1. p \in Packet /\ p \in Seq(Byte) /\ Len(p) \in Nat \ {0}
    BY PayloadFacts
  <2>2. Frames(ps) \in Seq(Byte)
    BY PayloadsTyped
  <2>3. u = Rest(p, i) \o Frames(ps)
    BY <1>3 DEF Within
  <2>4. CASE i = Len(p)
    <3>1. <<>> \in Seq(Byte)
      OBVIOUS
    <3>2. u = (<<SLIP_END>> \o <<>>) \o Frames(ps)
      BY <2>1, <2>3, <2>4, RestOfAll
    <3> QED BY <2>2, <3>1, <3>2, EndByte, ByteAhead
  <2>5. CASE i # Len(p)
    <3> DEFINE j == i + 1
    <3>1. j \in 1..Len(p) /\ j \in 0..Len(p) /\ j - 1 = i
      BY <2>1, <2>5
    <3> HIDE DEF j
    <3>2. PICK a : a = p[j]
      OBVIOUS
    <3>3. a \in Byte
      BY <2>1, <3>1, <3>2, ElementOfSeq
    <3> DEFINE r == Rest(p, j)
               e == EscapeCode(a)
    <3>4. r \in Seq(Byte)
      BY <2>1, <3>1, RestType
    <3>5. /\ a \notin Special => Rest(p, j - 1) = <<a>> \o r
          /\ a \in Special => Rest(p, j - 1) = <<SLIP_ESC>> \o (<<e>> \o r)
      BY <2>1, <3>1, <3>2, RestNext
    <3>6. e \in Byte
      BY DEF EscapeCode, Byte, SLIP_ESC_END, SLIP_ESC_ESC
    <3> HIDE DEF r, e
    <3>7. CASE a \notin Special
      <4>1. u = (<<a>> \o r) \o Frames(ps)
        BY <2>3, <3>1, <3>5, <3>7
      <4>2. Head(u) = a
        BY <2>2, <3>3, <3>4, <4>1, ByteAhead
      <4> QED BY <3>7, <4>2, EndByte
    <3>8. CASE a \in Special
      <4> DEFINE y == <<e>> \o r
      <4>1. y \in Seq(Byte) /\ y # <<>>
        BY <3>4, <3>6, FirstByte
      <4> HIDE DEF y
      <4>2. u = (<<SLIP_ESC>> \o y) \o Frames(ps)
        BY <2>3, <3>1, <3>5, <3>8 DEF y
      <4>3. Tail(u) = y \o Frames(ps)
        BY <2>2, <4>1, <4>2, EndByte, ByteAhead
      <4> QED BY <2>2, <4>1, <4>3, ConcatSimplifications!concIsEmpty
    <3> QED BY <3>7, <3>8
  <2> QED BY <2>4, <2>5
<1> QED BY <1>1, <1>2, <1>3

\* At the SLIP_END that ends what is muddled, at most one upcall is made for it.
LEMMA NowPassed ==
  ASSUME NEW b \in Seq(Byte), NEW ups \in Seq(Upcalls), NEW after \in Seq(Upcalls),
         NEW h \in AtMostOne, NEW v, NEW vps,
         vps = (IF b = <<>> THEN ups ELSE ups \o Dispatch(b)),
         Whole(v, <<>>, vps, vps \o after)
  PROVE  Passed(v, <<>>, vps, ups \o (h \o after))
<1>1. PICK d \in AtMostOne : vps = ups \o d
  <2>1. CASE b = <<>>
    <3>1. vps = ups \o <<>>
      BY <2>1, ConcatEmptySeq
    <3> QED BY <3>1, NoneAtMostOne
  <2>2. CASE b # <<>>
    BY <2>2, DispatchAtMostOne
  <2> QED BY <2>1, <2>2
<1>2. d \in Seq(Upcalls)
  BY DEF AtMostOne
<1>3. (ups \o d) \o after = ups \o (d \o after)
  <2>1. Groups(ups, d, after)
    BY <1>2, Group
  <2> QED BY <2>1 DEF Groups
<1>4. Whole(v, <<>>, vps, ups \o (d \o after))
  BY <1>1, <1>3
<1> QED BY <1>4 DEF Passed

LEMMA DamagedTurn ==
  ASSUME NEW u, NEW v, NEW b \in Seq(Byte), NEW c, NEW ups \in Seq(Upcalls), NEW vps,
         NEW ps \in Seq(Payloads), NEW h \in AtMostOne,
         Damaged(u, ps), Turn(u, v, b, c, ups, vps)
  PROVE  LET all == ups \o (h \o Due(ps)) IN
         Muddled(v, vps, all) \/ Passed(v, c, vps, all)
<1> DEFINE all == ups \o (h \o Due(ps))
           f == Frames(ps)
           y == <<SLIP_END>> \o f
<1>0. f \in Seq(Byte) /\ Due(ps) \in Seq(Upcalls)
  BY PayloadsTyped
<1>1. y \in Seq(Byte) /\ y # <<>> /\ Head(y) = SLIP_END /\ Tail(y) = f
  BY <1>0, EndByte, FirstByte
<1>2. PICK r \in Seq(Plain) : u = r \o y
  BY DEF Damaged
<1>3. \A q \in Seq(Plain) : Damaged(q \o y, ps)
  BY DEF Damaged
<1>4. r \in Seq(Byte)
  BY PlainBytes
<1>5. ASSUME v = u, vps = ups PROVE Muddled(v, vps, all)
  <2>1. Damaged(v, ps)
    BY <1>2, <1>3, <1>5
  <2> QED BY <1>5, <2>1 DEF Muddled
<1> HIDE DEF y, f
<1>6. CASE r = <<>>
  <2>1. u = y
    BY <1>1, <1>2, <1>6, ConcatEmptySeq
  <2>2. CASE v = f /\ c = <<>> /\ vps = IF b = <<>> THEN ups ELSE ups \o Dispatch(b)
    <3>1. Between(v, <<>>, vps, vps \o Due(ps), ps)
      BY <2>2 DEF Between, f
    <3>2. Whole(v, <<>>, vps, vps \o Due(ps))
      BY <3>1 DEF Whole
    <3>3. Passed(v, c, vps, all)
      BY <1>0, <2>2, <3>2, NowPassed
    <3> QED BY <3>3
  <2>3. \/ v = f /\ c = <<>> /\ vps = IF b = <<>> THEN ups ELSE ups \o Dispatch(b)
        \/ v = u /\ vps = ups
    BY <1>1, <2>1, EndByte DEF Turn
  <2> QED BY <1>5, <2>2, <2>3
<1>7. CASE r # <<>>
  <2> DEFINE s == Tail(r)
  <2>1. Head(r) \in Plain /\ s \in Seq(Plain)
    BY <1>7, HeadTailProperties
  <2>2. s \in Seq(Byte)
    BY <2>1, PlainBytes
  <2> HIDE DEF s
  <2>3. Head(u) = Head(r) /\ Tail(u) = s \o y
    BY <1>1, <1>2, <1>4, <1>7, FirstOfConcat DEF s
  <2>4. Head(u) # SLIP_END
    BY <2>1, <2>3 DEF Plain
  <2>5. ASSUME vps = ups, v = s \o y PROVE Muddled(v, vps, all)
    <3>1. Damaged(v, ps)
      BY <1>3, <2>1, <2>5
    <3> QED BY <2>5, <3>1 DEF Muddled
  <2>6. ASSUME vps = ups, v = Tail(s \o y) PROVE Muddled(v, vps, all)
    <3>1. CASE s = <<>>
      <4>1. v = Frames(ps)
        BY <1>1, <2>6, <3>1, ConcatEmptySeq DEF f
      <4> QED BY <2>6, <4>1 DEF Muddled
    <3>2. CASE s # <<>>
      <4>1. v = Tail(s) \o y /\ Tail(s) \in Seq(Plain)
        BY <1>1, <2>1, <2>2, <2>6, <3>2, FirstOfConcat, HeadTailProperties
      <4>2. Damaged(v, ps)
        BY <1>3, <4>1
      <4> QED BY <2>6, <4>2 DEF Muddled
    <3> QED BY <3>1, <3>2
  <2>7. vps = ups /\ (v = u \/ v = s \o y \/ v = Tail(s \o y))
    BY <2>3, <2>4 DEF Turn
  <2> QED BY <1>5, <2>5, <2>6, <2>7
<1> QED BY <1>6, <1>7

LEMMA MuddledTurn ==
  ASSUME NEW u, NEW v, NEW b \in Seq(Byte), NEW c, NEW ups \in Seq(Upcalls), NEW vps, NEW all,
         Muddled(u, ups, all), Turn(u, v, b, c, ups, vps)
  PROVE  Muddled(v, vps, all) \/ Passed(v, c, vps, all)
<1>1. PICK h \in AtMostOne, ps \in Seq(Payloads) :
        /\ Damaged(u, ps) \/ u = Frames(ps)
        /\ all = ups \o (h \o Due(ps))
  BY DEF Muddled
<1>2. CASE Damaged(u, ps)
  BY <1>1, <1>2, DamagedTurn
<1>3. ASSUME v = u, vps = ups PROVE Muddled(v, vps, all)
  BY <1>3
<1>4. CASE u = Frames(ps)
  <2>1. CASE ps = <<>>
    <3>1. u = <<>>
      BY <1>4, <2>1, FlatMapEmpty DEF Frames
    <3> QED BY <1>3, <3>1 DEF Turn
  <2>2. CASE ps # <<>>
    <3> DEFINE p == Head(ps)
               qs == Tail(ps)
               r == Rest(p, 0)
               f == Frames(qs)
               z == Due(qs)
    <3>1. /\ p \in Payloads /\ qs \in Seq(Payloads)
          /\ Frames(ps) = SlipSendPacket(p) \o f /\ Due(ps) = Dispatch(p) \o z
      BY <2>2, FirstPayload
    <3>2. f \in Seq(Byte) /\ z \in Seq(Upcalls) /\ Dispatch(p) \in Seq(Upcalls)
      BY <3>1, PayloadsTyped, PayloadFacts
    <3>3. p \in Packet /\ 0 \in 0..Len(p) /\ SubSeq(p, 1, 0) = <<>>
      BY <3>1, PayloadFacts, SubSeqEmpty
    <3>4. r \in Seq(Byte)
      BY <3>3, RestType
    <3>5. u = (<<SLIP_END>> \o r) \o f
      BY <1>4, <3>1, <3>3, FrameIsRest
    <3> HIDE DEF p, qs, r, f, z
    <3>6. u # <<>> /\ Head(u) = SLIP_END /\ Tail(u) = r \o f
      BY <3>2, <3>4, <3>5, EndByte, ByteAhead
    <3>7. CASE v = r \o f /\ c = <<>> /\ vps = IF b = <<>> THEN ups ELSE ups \o Dispatch(b)
      <4>1. Within(v, <<>>, vps, vps \o Due(ps), qs, p, 0)
        BY <3>1, <3>3, <3>7 DEF Within, r, f, z
      <4>2. Whole(v, <<>>, vps, vps \o Due(ps))
        BY <3>1, <3>3, <4>1 DEF Whole
      <4>3. Due(ps) \in Seq(Upcalls)
        BY PayloadsTyped
      <4>4. Passed(v, c, vps, all)
        BY <1>1, <3>7, <4>2, <4>3, NowPassed
      <4> QED BY <4>4
    <3>8. \/ v = r \o f /\ c = <<>> /\ vps = IF b = <<>> THEN ups ELSE ups \o Dispatch(b)
          \/ v = u /\ vps = ups
      BY <3>6, EndByte DEF Turn
    <3> QED BY <1>3, <3>7, <3>8
  <2> QED BY <2>1, <2>2
<1> QED BY <1>1, <1>2, <1>4

LEMMA AheadTurn ==
  ASSUME \A p \in Payloads : ReadWhole(p),
         NEW u, NEW v, NEW b \in Seq(Byte), NEW c, NEW ups \in Seq(Upcalls), NEW vps, NEW all,
         Ahead(u, b, ups, all), Turn(u, v, b, c, ups, vps)
  PROVE  OneLost(v, c, vps, all)
<1>1. PICK x \in Seq(Byte), before \in Seq(Upcalls), ps \in Seq(Payloads) :
        \E h \in AtMostOne, w \in Seq(Byte) :
          /\ Whole(x, b, ups, before)
          /\ u = x \o w /\ Harmed(w, ps)
          /\ all = before \o (h \o Due(ps))
  BY DEF Ahead
<1>2. PICK h \in AtMostOne, w \in Seq(Byte) :
        /\ Whole(x, b, ups, before)
        /\ u = x \o w /\ Harmed(w, ps)
        /\ all = before \o (h \o Due(ps))
  BY <1>1
<1>3. ASSUME NEW y \in Seq(Byte), v = y \o w, Whole(y, c, vps, before)
      PROVE  Ahead(v, c, vps, all)
  BY <1>2, <1>3 DEF Ahead
<1>4. CASE x = <<>>
  <2>1. b = <<>> /\ before = ups
    BY <1>2, <1>4, WholeEmpty
  <2>2. u = w
    BY <1>2, <1>4, ConcatEmptySeq
  <2>3. ASSUME NEW z, Damaged(z, ps) PROVE Muddled(z, ups, all)
    BY <1>2, <2>1, <2>3 DEF Muddled
  <2>4. CASE Damaged(w, ps)
    <3>1. Muddled(u, ups, all)
      BY <2>2, <2>3, <2>4
    <3> QED BY <3>1, MuddledTurn DEF OneLost
  <2>5. CASE \E z \in Seq(Byte) : w = <<SLIP_END>> \o z /\ Damaged(z, ps)
    <3>1. PICK z \in Seq(Byte) : w = <<SLIP_END>> \o z /\ Damaged(z, ps)
      BY <2>5
    <3>2. u # <<>> /\ Head(u) = SLIP_END /\ Tail(u) = z
      BY <2>2, <3>1, EndByte, FirstByte
    <3>3. CASE v = z /\ vps = ups
      BY <2>3, <3>1, <3>3 DEF OneLost
    <3>4. CASE v = u /\ c = b /\ vps = ups
      BY <3>4 DEF OneLost
    <3>5. \/ v = z /\ vps = ups
          \/ v = u /\ c = b /\ vps = ups
      BY <2>1, <3>2, EndByte DEF Turn
    <3> QED BY <3>3, <3>4, <3>5
  <2> QED BY <1>2, <2>4, <2>5 DEF Harmed
<1>5. CASE x # <<>>
  <2>1. Head(x) = SLIP_ESC => Tail(x) # <<>>
    BY <1>2, <1>5, WholeEscape
  <2>2. Turn(x \o w, v, b, c, ups, vps)
    BY <1>2
  <2>3. PICK y \in Seq(Byte) : v = y \o w /\ Turn(x, y, b, c, ups, vps)
    BY <1>5, <2>1, <2>2, TurnAhead
  <2>4. Whole(y, c, vps, before)
    BY <1>2, <2>3, WholeTurn
  <2> QED BY <1>3, <2>3, <2>4 DEF OneLost
<1> QED BY <1>4, <1>5

LEMMA OneLostTurn ==
  ASSUME \A p \in Payloads : ReadWhole(p),
         NEW u \in Seq(Byte), NEW v, NEW b \in Seq(Byte), NEW c, NEW ups \in Seq(Upcalls),
         NEW vps, NEW all, OneLost(u, b, ups, all), Turn(u, v, b, c, ups, vps)
  PROVE  OneLost(v, c, vps, all)
<1>1. CASE Ahead(u, b, ups, all)
  BY <1>1, AheadTurn
<1>2. CASE Muddled(u, ups, all)
  BY <1>2, MuddledTurn DEF OneLost
<1>3. CASE Passed(u, b, ups, all)
  <2>1. PICK before \in Seq(Upcalls), after \in Seq(Upcalls) :
          \E h \in AtMostOne, d \in AtMostOne :
            /\ all = before \o (h \o after)
            /\ Whole(u, b, ups, before \o (d \o after))
    BY <1>3 DEF Passed
  <2>2. PICK h \in AtMostOne, d \in AtMostOne :
          /\ all = before \o (h \o after)
          /\ Whole(u, b, ups, before \o (d \o after))
    BY <2>1
  <2>3. Whole(v, c, vps, before \o (d \o after))
    BY <2>2, WholeTurn
  <2>4. Passed(v, c, vps, all)
    BY <2>2, <2>3 DEF Passed
  <2> QED BY <2>4 DEF OneLost
<1>4. CASE Cut(u, b, ups, all)
  <2> DEFINE f == <<SLIP_END>>
  <2>0. f \in Seq(Byte)
    BY EndByte
  <2>1. Whole(u \o f, b, ups, all)
    BY <1>4 DEF Cut
  <2> HIDE DEF f
  <2>2. Turn(u \o f, v \o f, b, c, ups, vps)
    BY <2>0, TurnMore
  <2>3. Whole(v \o f, c, vps, all)
    BY <2>1, <2>2, WholeTurn
  <2> QED BY <2>3 DEF Cut, OneLost, f
<1> QED BY <1>1, <1>2, <1>3, <1>4 DEF OneLost

\* What is thrown away belongs to the damaged frame.
LEMMA OneLostDrop ==
  ASSUME \A p \in Payloads : ReadWhole(p),
         NEW u, NEW b, NEW ups, NEW all, OneLost(u, b, ups, all)
  PROVE  OneLost(u, DropLarge(b), ups, all)
<1>1. CASE Muddled(u, ups, all)
  BY <1>1 DEF OneLost
<1>2. ASSUME NEW y, NEW z, Whole(y, b, ups, z) PROVE DropLarge(b) = b
  BY <1>2, WholeFits
<1>3. CASE ~Muddled(u, ups, all)
  <2>1. \E y, z : Whole(y, b, ups, z)
    BY <1>3 DEF OneLost, Ahead, Passed, Cut
  <2>2. DropLarge(b) = b
    BY <1>2, <2>1
  <2> QED BY <2>2
<1> QED BY <1>1, <1>3

-----------------------------------------------------------------------------
(* Another frame behind those still to be read *)

LEMMA WholeWrite ==
  ASSUME NEW q \in Payloads, NEW u, NEW b, NEW ups \in Seq(Upcalls), NEW all,
         Whole(u, b, ups, all)
  PROVE  Whole(u \o SlipSendPacket(q), b, ups, all \o Dispatch(q))
<1> DEFINE f == SlipSendPacket(q)
           d == Dispatch(q)
<1>1. PICK ps \in Seq(Payloads) :
        \/ Between(u, b, ups, all, ps)
        \/ \E p \in Payloads : \E i \in 0..Len(p) : Within(u, b, ups, all, ps, p, i)
  BY DEF Whole
<1> DEFINE qs == Append(ps, q)
           y == Frames(ps)
           z == Due(ps)
<1>2. f \in Seq(Byte) /\ d \in Seq(Upcalls) /\ y \in Seq(Byte) /\ z \in Seq(Upcalls)
  BY PayloadFacts, PayloadsTyped
<1>3. qs \in Seq(Payloads) /\ Frames(qs) = y \o f /\ Due(qs) = z \o d
  BY OneMorePayload, AppendProperties
<1> HIDE DEF f, d, qs, y, z
<1>4. CASE Between(u, b, ups, all, ps)
  <2>1. b = <<>> /\ u = y /\ all = ups \o z
    BY <1>4 DEF Between, y, z
  <2>2. (ups \o z) \o d = ups \o (z \o d)
    <3>1. Groups(ups, z, d)
      BY <1>2, Group
    <3> QED BY <3>1 DEF Groups
  <2>3. Between(u \o f, b, ups, all \o d, qs)
    BY <1>3, <2>1, <2>2 DEF Between
  <2> QED BY <1>3, <2>3 DEF Whole, f, d
<1>5. ASSUME NEW p \in Payloads, NEW i \in 0..Len(p), Within(u, b, ups, all, ps, p, i)
      PROVE  Whole(u \o f, b, ups, all \o d)
  <2> DEFINE r == Rest(p, i)
             x == Dispatch(p)
  <2>1. b = SubSeq(p, 1, i) /\ u = r \o y /\ all = ups \o (x \o z)
    BY <1>5 DEF Within, y, z
  <2>2. r \in Seq(Byte) /\ x \in Seq(Upcalls)
    BY PayloadFacts, RestType
  <2> HIDE DEF r, x
  <2>3. (r \o y) \o f = r \o (y \o f)
    <3>1. r \in Seq(Byte) /\ y \in Seq(Byte) /\ f \in Seq(Byte)
      BY <1>2, <2>2
    <3>2. Groups(r, y, f)
      BY ONLY <3>1, Group
    <3> QED BY <3>2 DEF Groups
  <2>4. (ups \o (x \o z)) \o d = ups \o (x \o (z \o d))
    <3>1. /\ ups \in Seq(Upcalls) /\ x \in Seq(Upcalls) /\ z \in Seq(Upcalls)
          /\ d \in Seq(Upcalls)
      BY <1>2, <2>2
    <3>2. Regroups(ups, x, z, d)
      BY ONLY <3>1, Regroup
    <3> QED BY <3>2 DEF Regroups
  <2>5. u \o f = r \o Frames(qs) /\ all \o d = ups \o (x \o Due(qs))
    BY <1>3, <2>1, <2>3, <2>4
  <2>6. Within(u \o f, b, ups, all \o d, qs, p, i)
    BY <2>1, <2>5 DEF Within, r, x
  <2> QED BY <1>3, <2>6 DEF Whole
<1> QED BY <1>1, <1>4, <1>5 DEF f, d

LEMMA DamagedWrite ==
  ASSUME NEW q \in Payloads, NEW ps \in Seq(Payloads), NEW w, Damaged(w, ps)
  PROVE  Damaged(w \o SlipSendPacket(q), Append(ps, q))
<1> DEFINE f == SlipSendPacket(q)
           e == <<SLIP_END>>
           y == Frames(ps)
<1>1. PICK r \in Seq(Plain) : w = r \o (e \o y)
  BY DEF Damaged
<1>2. r \in Seq(Byte) /\ e \in Seq(Byte) /\ y \in Seq(Byte) /\ f \in Seq(Byte)
  BY PlainBytes, EndByte, PayloadsTyped, PayloadFacts
<1>3. Frames(Append(ps, q)) = y \o f
  BY OneMorePayload
<1> HIDE DEF f, e, y
<1>4. (r \o (e \o y)) \o f = r \o (e \o (y \o f))
  <2>1. Regroups(r, e, y, f)
    BY ONLY <1>2, Regroup
  <2> QED BY <2>1 DEF Regroups
<1>5. w \o f = r \o (e \o Frames(Append(ps, q)))
  BY <1>1, <1>3, <1>4
<1> QED BY <1>5 DEF Damaged, e, f

LEMMA HarmedWrite ==
  ASSUME NEW q \in Payloads, NEW ps \in Seq(Payloads), NEW w, Harmed(w, ps)
  PROVE  Harmed(w \o SlipSendPacket(q), Append(ps, q))
<1>1. CASE Damaged(w, ps)
  BY <1>1, DamagedWrite DEF Harmed
<1>2. CASE \E z \in Seq(Byte) : w = <<SLIP_END>> \o z /\ Damaged(z, ps)
  <2> DEFINE f == SlipSendPacket(q)
  <2>1. PICK z \in Seq(Byte) : w = <<SLIP_END>> \o z /\ Damaged(z, ps)
    BY <1>2
  <2>2. Damaged(z \o f, Append(ps, q))
    BY <2>1, DamagedWrite
  <2>3. f \in Seq(Byte)
    BY PayloadFacts
  <2> HIDE DEF f
  <2>4. w \o f = <<SLIP_END>> \o (z \o f)
    <3>1. Groups(<<SLIP_END>>, z, f)
      BY <2>3, EndByte, Group
    <3> QED BY <2>1, <3>1 DEF Groups
  <2>5. z \o f \in Seq(Byte)
    BY <2>3, ConcatProperties
  <2> QED BY <2>2, <2>4, <2>5 DEF Harmed, f
<1> QED BY <1>1, <1>2 DEF Harmed

\* What is left of a frame can be taken for the rest of a damaged one.
LEMMA RestPlain ==
  ASSUME NEW p \in Payloads, NEW k \in 0..Len(p)
  PROVE  \E r \in Seq(Plain) : Rest(p, k) = r \o <<SLIP_END>>
<1> DEFINE e == Escape(p)
           m == EscapedAt(p, k + 1)
           n == EscapedLen(p)
           r == SubSeq(e, m, n)
<1>1. p \in Packet /\ Len(p) \in Nat
  BY PayloadFacts
<1>2. e \in Seq(Plain) /\ Len(e) = n /\ n \in Nat
  BY <1>1, EscapeType, EscapeHidesEnd DEF Plain
<1>3. m \in Nat \ {0}
  <2>1. CASE k = Len(p)
    BY <1>1, <1>2, <2>1, EscapedEnds
  <2>2. CASE k # Len(p)
    <3>1. k + 1 \in 1..Len(p)
      BY <1>1, <2>2
    <3> QED BY <1>1, <3>1, EscapedAtNext
  <2> QED BY <2>1, <2>2
<1>4. Rest(p, k) = r \o <<SLIP_END>>
  BY DEF Rest
<1> HIDE DEF e, m, n
<1>5. \A i \in m..n : e[i] \in Plain
  BY <1>2, <1>3, ElementOfSeq
<1>6. r \in Seq(Plain)
  BY <1>2, <1>3, <1>5, SubSeqProperties
<1> QED BY <1>4, <1>6

LEMMA RestDamaged ==
  ASSUME NEW p \in Payloads, NEW k \in 0..Len(p), NEW ps \in Seq(Payloads)
  PROVE  Damaged(Rest(p, k) \o Frames(ps), ps)
<1> DEFINE e == <<SLIP_END>>
           g == Frames(ps)
<1>1. PICK r \in Seq(Plain) : Rest(p, k) = r \o e
  BY RestPlain
<1>2. r \in Seq(Byte) /\ e \in Seq(Byte) /\ g \in Seq(Byte)
  BY PlainBytes, EndByte, PayloadsTyped
<1> HIDE DEF e, g
<1>3. (r \o e) \o g = r \o (e \o g)
  <2>1. Groups(r, e, g)
    BY <1>2, Group
  <2> QED BY <2>1 DEF Groups
<1> QED BY <1>1, <1>3 DEF Damaged, e, g

LEMMA OneLostWrite ==
  ASSUME NEW q \in Payloads, NEW u \in Seq(Byte), NEW b, NEW ups \in Seq(Upcalls),
         NEW all \in Seq(Upcalls), OneLost(u, b, ups, all)
  PROVE  OneLost(u \o SlipSendPacket(q), b, ups, all \o Dispatch(q))
<1> DEFINE f == SlipSendPacket(q)
           d == Dispatch(q)
<1>1. f \in Seq(Byte) /\ d \in Seq(Upcalls) /\ AtMostOne \subseteq Seq(Upcalls)
  BY PayloadFacts DEF AtMostOne
<1>2. ASSUME NEW ps \in Seq(Payloads)
      PROVE  /\ Append(ps, q) \in Seq(Payloads)
             /\ Frames(Append(ps, q)) = Frames(ps) \o f
             /\ Due(Append(ps, q)) = Due(ps) \o d /\ Due(ps) \in Seq(Upcalls)
  BY OneMorePayload, AppendProperties
<1>3. ASSUME NEW before \in Seq(Upcalls), NEW h \in AtMostOne, NEW z \in Seq(Upcalls)
      PROVE  (before \o (h \o z)) \o d = before \o (h \o (z \o d))
  <2> HIDE DEF d
  <2>1. /\ before \in Seq(Upcalls) /\ h \in Seq(Upcalls) /\ z \in Seq(Upcalls)
        /\ d \in Seq(Upcalls)
    BY <1>1
  <2>2. Regroups(before, h, z, d)
    BY ONLY <2>1, Regroup
  <2> QED BY <2>2 DEF Regroups
<1>4. CASE Ahead(u, b, ups, all)
  <2>1. PICK x \in Seq(Byte), before \in Seq(Upcalls), ps \in Seq(Payloads) :
          \E h \in AtMostOne, w \in Seq(Byte) :
            /\ Whole(x, b, ups, before)
            /\ u = x \o w /\ Harmed(w, ps)
            /\ all = before \o (h \o Due(ps))
    BY <1>4 DEF Ahead
  <2>2. PICK h \in AtMostOne, w \in Seq(Byte) :
          /\ Whole(x, b, ups, before)
          /\ u = x \o w /\ Harmed(w, ps)
          /\ all = before \o (h \o Due(ps))
    BY <2>1
  <2>3. Harmed(w \o f, Append(ps, q))
    BY <2>2, HarmedWrite
  <2>4. all \o d = before \o (h \o Due(Append(ps, q)))
    <3> DEFINE z == Due(ps)
    <3>1. z \in Seq(Upcalls) /\ Due(Append(ps, q)) = z \o d /\ all = before \o (h \o z)
      BY <1>2, <2>2
    <3> HIDE DEF z, d
    <3>2. (before \o (h \o z)) \o d = before \o (h \o (z \o d))
      BY <1>3, <3>1
    <3> QED BY <3>1, <3>2
  <2>5. Append(ps, q) \in Seq(Payloads)
    BY <1>2
  <2> HIDE DEF f, d
  <2>6. u \o f = x \o (w \o f) /\ w \o f \in Seq(Byte)
    <3>1. Groups(x, w, f)
      BY <1>1, Group
    <3> QED BY <1>1, <2>2, <3>1, ConcatProperties DEF Groups
  <2>7. Ahead(u \o f, b, ups, all \o d)
    BY <2>2, <2>3, <2>4, <2>5, <2>6 DEF Ahead
  <2> QED BY <2>7 DEF OneLost, f, d
<1>5. CASE Muddled(u, ups, all)
  <2>1. PICK h \in AtMostOne, ps \in Seq(Payloads) :
          /\ Damaged(u, ps) \/ u = Frames(ps)
          /\ all = ups \o (h \o Due(ps))
    BY <1>5 DEF Muddled
  <2>2. Damaged(u \o f, Append(ps, q)) \/ u \o f = Frames(Append(ps, q))
    BY <1>2, <2>1, DamagedWrite
  <2>3. all \o d = ups \o (h \o Due(Append(ps, q)))
    <3> DEFINE z == Due(ps)
    <3>1. z \in Seq(Upcalls) /\ Due(Append(ps, q)) = z \o d /\ all = ups \o (h \o z)
      BY <1>2, <2>1
    <3> HIDE DEF z, d
    <3>2. (ups \o (h \o z)) \o d = ups \o (h \o (z \o d))
      BY <1>3, <3>1
    <3> QED BY <3>1, <3>2
  <2>4. Append(ps, q) \in Seq(Payloads)
    BY <1>2
  <2> HIDE DEF f, d
  <2>5. Muddled(u \o f, ups, all \o d)
    BY <2>2, <2>3, <2>4 DEF Muddled
  <2> QED BY <2>5 DEF OneLost, f, d
<1>6. CASE Passed(u, b, ups, all)
  <2>1. PICK before \in Seq(Upcalls), after \in Seq(Upcalls) :
          \E h \in AtMostOne, g \in AtMostOne :
            /\ all = before \o (h \o after)
            /\ Whole(u, b, ups, before \o (g \o after))
    BY <1>6 DEF Passed
  <2>2. PICK h \in AtMostOne, g \in AtMostOne :
          /\ all = before \o (h \o after)
          /\ Whole(u, b, ups, before \o (g \o after))
    BY <2>1
  <2>3. Whole(u \o f, b, ups, (before \o (g \o after)) \o d)
    BY <2>2, WholeWrite
  <2>4. Whole(u \o f, b, ups, before \o (g \o (after \o d)))
    BY <1>3, <2>3
  <2>5. all \o d = before \o (h \o (after \o d))
    BY <1>3, <2>2
  <2> HIDE DEF d
  <2>6. after \o d \in Seq(Upcalls)
    BY <1>1, ConcatProperties
  <2> HIDE DEF f
  <2>7. Passed(u \o f, b, ups, all \o d)
    BY <2>4, <2>5, <2>6 DEF Passed
  <2> QED BY <2>7 DEF OneLost, f, d
<1>7. CASE Cut(u, b, ups, all)
  <2> DEFINE e == <<SLIP_END>>
             x == u \o e
             w == Rest(q, 0)
  <2>1. x \in Seq(Byte) /\ e \in Seq(Byte)
    BY EndByte, ConcatProperties
  <2>2. q \in Packet /\ 0 \in 0..Len(q)
    BY PayloadFacts
  <2>3. w \in Seq(Byte) /\ f = e \o w
    BY <2>2, RestType, FrameIsRest
  <2>4. Damaged(w, <<>>)
    <3>1. Frames(<<>>) = <<>> /\ <<>> \in Seq(Payloads)
      BY FlatMapEmpty DEF Frames
    <3>2. w \o <<>> = w
      BY <2>3, ConcatEmptySeq
    <3>3. Damaged(w \o Frames(<<>>), <<>>)
      BY <2>2, <3>1, RestDamaged
    <3> QED BY <3>1, <3>2, <3>3
  <2>5. Whole(x, b, ups, all)
    BY <1>7 DEF Cut
  <2>6. d \in AtMostOne
    BY PayloadFacts, DispatchAtMostOne
  <2>7. u \o f = x \o w
    <3> HIDE DEF e, w
    <3>1. u \o (e \o w) = (u \o e) \o w
      <4>1. Groups(u, e, w)
        BY <2>1, <2>3, Group
      <4> QED BY <4>1 DEF Groups
    <3> QED BY <2>3, <3>1
  <2>8. <<>> \in Seq(Payloads) /\ d \o Due(<<>>) = d
    <3>1. Due(<<>>) = <<>>
      BY FlatMapEmpty DEF Due
    <3> QED BY <1>1, <3>1, ConcatEmptySeq
  <2> HIDE DEF f, d, e, x, w
  <2>9. Harmed(w, <<>>)
    BY <2>4 DEF Harmed
  <2>10. all \o d = all \o (d \o Due(<<>>))
    BY <2>8
  <2>11. Ahead(u \o f, b, ups, all \o d)
    BY <2>1, <2>3, <2>5, <2>6, <2>7, <2>8, <2>9, <2>10 DEF Ahead
  <2> QED BY <2>11 DEF OneLost, f, d
<1> QED BY <1>4, <1>5, <1>6, <1>7 DEF OneLost

-----------------------------------------------------------------------------
(* A byte of the line is lost *)

\* t without its i-th element.
Less(t, i) == [k \in 1..(Len(t) - 1) |-> IF k < i THEN t[k] ELSE t[k + 1]]

LEMMA LessFacts ==
  ASSUME NEW S, NEW t \in Seq(S), NEW i \in 1..Len(t)
  PROVE  /\ Less(t, i) \in Seq(S) /\ Len(Less(t, i)) = Len(t) - 1
         /\ \A k \in 1..(Len(t) - 1) : Less(t, i)[k] = IF k < i THEN t[k] ELSE t[k + 1]
<1> DEFINE n == Len(t) - 1
           l == Less(t, i)
<1>1. n \in Nat /\ \A k \in 1..n : k \in 1..Len(t) /\ k + 1 \in 1..Len(t)
  BY LenProperties
<1>2. \A k \in 1..Len(t) : t[k] \in S
  BY ElementOfSeq
<1>3. l = [k \in 1..n |-> IF k < i THEN t[k] ELSE t[k + 1]]
  BY DEF Less
<1> HIDE DEF l, n
<1>4. l \in [1..n -> S] /\ \A k \in 1..n : l[k] = IF k < i THEN t[k] ELSE t[k + 1]
  BY <1>1, <1>2, <1>3
<1>5. l \in Seq(S) /\ Len(l) = n
  BY <1>1, <1>4
<1> QED BY <1>4, <1>5 DEF l, n

LEMMA LessFirst ==
  ASSUME NEW S, NEW f \in Seq(S), NEW g \in Seq(S), NEW i \in 1..Len(f)
  PROVE  Less(f \o g, i) = Less(f, i) \o g /\ Less(f, i) \in Seq(S)
<1> DEFINE t == f \o g
           m == Len(f)
           n == Len(g)
           a == Less(t, i)
           l == Less(f, i)
           b == l \o g
<1>1. m \in Nat /\ n \in Nat /\ m > 0
  BY LenProperties
<1>2. t \in Seq(S) /\ Len(t) = m + n /\ \A k \in 1..(m + n) : t[k] = IF k <= m THEN f[k] ELSE g[k - m]
  BY ConcatProperties
<1>3. l \in Seq(S) /\ Len(l) = m - 1 /\ \A k \in 1..(m - 1) : l[k] = IF k < i THEN f[k] ELSE f[k + 1]
  BY LessFacts
<1> HIDE DEF t, m, n, l
<1>4. i \in 1..Len(t)
  BY <1>1, <1>2 DEF m
<1>5. a \in Seq(S) /\ Len(a) = m + n - 1
      /\ \A k \in 1..(m + n - 1) : a[k] = IF k < i THEN t[k] ELSE t[k + 1]
  <2>1. /\ a \in Seq(S) /\ Len(a) = Len(t) - 1
        /\ \A k \in 1..(Len(t) - 1) : a[k] = IF k < i THEN t[k] ELSE t[k + 1]
    BY <1>2, <1>4, LessFacts
  <2>2. Len(t) - 1 = m + n - 1
    <3>1. Len(t) = m + n /\ m \in Nat /\ n \in Nat
      BY <1>1, <1>2
    <3> QED BY ONLY <3>1
  <2> HIDE DEF a
  <2> QED BY <2>1, <2>2
<1>6. b \in Seq(S) /\ Len(b) = m - 1 + n
      /\ \A k \in 1..(m - 1 + n) : b[k] = IF k <= m - 1 THEN l[k] ELSE g[k - (m - 1)]
  <2>1. /\ b \in Seq(S) /\ Len(b) = Len(l) + Len(g)
        /\ \A k \in 1..(Len(l) + Len(g)) : b[k] = IF k <= Len(l) THEN l[k] ELSE g[k - Len(l)]
    BY <1>3, ConcatProperties
  <2> HIDE DEF b
  <2> QED BY <1>3, <2>1 DEF n
<1> HIDE DEF a, b
<1>7. ASSUME NEW k \in 1..(m + n - 1) PROVE a[k] = b[k]
  <2>1. k \in Nat /\ i \in Nat /\ i <= m
    BY DEF m
  <2>2. CASE k <= m - 1
    <3>1. k \in 1..(m - 1) /\ k \in 1..(m - 1 + n) /\ k \in 1..(m + n) /\ k + 1 \in 1..(m + n)
      BY <1>1, <2>2
    <3>2. t[k] = f[k]
      BY <1>1, <1>2, <2>1, <2>2, <3>1
    <3>3. PICK j : j = k + 1
      OBVIOUS
    <3>4. j <= m /\ t[j] = f[j]
      BY <1>1, <1>2, <2>1, <2>2, <3>1, <3>3
    <3>5. a[k] = IF k < i THEN t[k] ELSE t[j]
      BY <1>5, <3>3
    <3>6. b[k] = IF k < i THEN f[k] ELSE f[j]
      BY <1>3, <1>6, <2>2, <3>1, <3>3
    <3> QED BY <3>2, <3>4, <3>5, <3>6
  <2>3. CASE ~(k <= m - 1)
    <3>1. PICK j : j = k + 1
      OBVIOUS
    <3>2. j \in 1..(m + n) /\ ~(j <= m) /\ k \in 1..(m - 1 + n) /\ ~(k < i) /\ j - m = k - (m - 1)
      BY <1>1, <2>1, <2>3, <3>1
    <3>3. t[j] = g[j - m]
      BY <1>2, <3>2
    <3>4. a[k] = t[j]
      BY <1>5, <3>1, <3>2
    <3>5. b[k] = g[k - (m - 1)]
      BY <1>6, <2>3, <3>2
    <3> QED BY <3>2, <3>3, <3>4, <3>5
  <2> QED BY <2>2, <2>3
<1>8. m - 1 + n = m + n - 1
  BY <1>1
<1>9. a = b
  BY <1>5, <1>6, <1>7, <1>8, SeqEqual
<1> QED BY <1>3, <1>9 DEF a, b, t, l

LEMMA LessSecond ==
  ASSUME NEW S, NEW f \in Seq(S), NEW g \in Seq(S), NEW i \in 1..Len(g)
  PROVE  Less(f \o g, Len(f) + i) = f \o Less(g, i) /\ Less(g, i) \in Seq(S)
<1> DEFINE t == f \o g
           m == Len(f)
           n == Len(g)
           h == m + i
           a == Less(t, h)
           l == Less(g, i)
           b == f \o l
<1>1. m \in Nat /\ n \in Nat /\ n > 0 /\ n - 1 \in Nat
  BY LenProperties
<1>2. t \in Seq(S) /\ Len(t) = m + n /\ \A k \in 1..(m + n) : t[k] = IF k <= m THEN f[k] ELSE g[k - m]
  BY ConcatProperties
<1>3. l \in Seq(S) /\ Len(l) = n - 1 /\ \A k \in 1..(n - 1) : l[k] = IF k < i THEN g[k] ELSE g[k + 1]
  BY LessFacts
<1>4. i \in Nat /\ 1 <= i /\ i <= n
  BY <1>1
<1> HIDE DEF t, m, n, l
<1>5. h \in 1..Len(t)
  BY <1>1, <1>2, <1>4
<1> HIDE DEF h
<1>6. a \in Seq(S) /\ Len(a) = m + n - 1
      /\ \A k \in 1..(m + n - 1) : a[k] = IF k < h THEN t[k] ELSE t[k + 1]
  <2>1. /\ a \in Seq(S) /\ Len(a) = Len(t) - 1
        /\ \A k \in 1..(Len(t) - 1) : a[k] = IF k < h THEN t[k] ELSE t[k + 1]
    BY <1>2, <1>5, LessFacts
  <2>2. Len(t) - 1 = m + n - 1
    <3>1. Len(t) = m + n /\ m \in Nat /\ n \in Nat
      BY <1>1, <1>2
    <3> QED BY ONLY <3>1
  <2> HIDE DEF a
  <2> QED BY <2>1, <2>2
<1>7. b \in Seq(S) /\ Len(b) = m + (n - 1)
      /\ \A k \in 1..(m + (n - 1)) : b[k] = IF k <= m THEN f[k] ELSE l[k - m]
  <2>1. /\ b \in Seq(S) /\ Len(b) = Len(f) + Len(l)
        /\ \A k \in 1..(Len(f) + Len(l)) : b[k] = IF k <= Len(f) THEN f[k] ELSE l[k - Len(f)]
    BY <1>3, ConcatProperties
  <2> HIDE DEF b
  <2> QED BY <1>3, <2>1 DEF m
<1> HIDE DEF a, b
<1>8. ASSUME NEW k \in 1..(m + n - 1) PROVE a[k] = b[k]
  <2>1. k \in Nat /\ 1 <= k /\ k <= m + n - 1 /\ k \in 1..(m + (n - 1)) /\ k \in 1..(m + n)
    BY <1>1
  <2>2. CASE k <= m
    <3>1. k < h
      BY <1>1, <1>4, <2>1, <2>2 DEF h
    <3> QED BY <1>2, <1>6, <1>7, <2>1, <2>2, <3>1
  <2>3. CASE ~(k <= m)
    <3>1. PICK j : j = k - m
      OBVIOUS
    <3>2. PICK e : e = k + 1
      OBVIOUS
    <3>3. /\ j \in 1..(n - 1) /\ e \in 1..(m + n) /\ ~(e <= m) /\ e - m = j + 1
          /\ k < h <=> j < i
      BY <1>1, <1>4, <2>1, <2>3, <3>1, <3>2 DEF h
    <3>4. t[k] = g[j]
      BY <1>2, <2>1, <2>3, <3>1
    <3>5. t[e] = g[j + 1]
      BY <1>2, <3>3
    <3>6. a[k] = IF k < h THEN t[k] ELSE t[e]
      BY <1>6, <3>2
    <3>7. b[k] = IF j < i THEN g[j] ELSE g[j + 1]
      BY <1>3, <1>7, <2>1, <2>3, <3>1, <3>3
    <3> QED BY <3>3, <3>4, <3>5, <3>6, <3>7
  <2> QED BY <2>2, <2>3
<1>9. m + (n - 1) = m + n - 1
  BY <1>1
<1>10. a = b
  BY <1>6, <1>7, <1>8, <1>9, SeqEqual
<1> QED BY <1>3, <1>10 DEF a, b, t, l, h, m

LEMMA LessOfOne ==
  ASSUME NEW e
  PROVE  Len(<<e>>) = 1 /\ Less(<<e>>, 1) = <<>>
<1>1. Len(<<e>>) = 1
  OBVIOUS
<1>2. \A F : [k \in 1..(1 - 1) |-> F[k]] = <<>>
  OBVIOUS
<1>3. Less(<<e>>, 1) = <<>>
  BY <1>1 DEF Less
<1> QED BY <1>1, <1>3

\* Where the lost one of two joined sequences is.
LEMMA LostInTwo ==
  ASSUME NEW S, NEW f \in Seq(S), NEW g \in Seq(S), NEW k \in 1..Len(f \o g)
  PROVE  \/ \E i \in 1..Len(f) : Less(f \o g, k) = Less(f, i) \o g
         \/ \E i \in 1..Len(g) : Less(f \o g, k) = f \o Less(g, i)
<1>1. Len(f \o g) = Len(f) + Len(g) /\ Len(f) \in Nat /\ Len(g) \in Nat
  BY ConcatProperties, LenProperties
<1>2. CASE k <= Len(f)
  <2>1. k \in 1..Len(f)
    BY <1>1, <1>2
  <2> QED BY <2>1, LessFirst
<1>3. CASE ~(k <= Len(f))
  <2>1. PICK i : i = k - Len(f)
    OBVIOUS
  <2>2. i \in 1..Len(g) /\ k = Len(f) + i
    BY <1>1, <1>3, <2>1
  <2>3. Less(f \o g, Len(f) + i) = f \o Less(g, i)
    BY <2>2, LessSecond
  <2> QED BY <2>2, <2>3
<1> QED BY <1>2, <1>3

\* A byte of what is left of a frame is lost: the frame is damaged, or the
\* last SLIP_END is gone, or the next frame shares its SLIP_END.
RestLost(v, p, k, ps) ==
  \/ Damaged(v, ps)
  \/ v \o <<SLIP_END>> = Rest(p, k) \o Frames(ps)
  \/ ps # <<>> /\ \E w \in Seq(Byte) : Damaged(w, Tail(ps)) /\ v = Rest(p, k) \o w

LEMMA RestLoses ==
  ASSUME NEW p \in Payloads, NEW k \in 0..Len(p), NEW ps \in Seq(Payloads),
         NEW i \in 1..Len(Rest(p, k)), NEW v, v = Less(Rest(p, k), i) \o Frames(ps)
  PROVE  RestLost(v, p, k, ps)
<1> DEFINE e == <<SLIP_END>>
           g == Frames(ps)
           t == Rest(p, k)
<1>1. PICK r \in Seq(Plain) : t = r \o e
  BY RestPlain
<1>2. r \in Seq(Byte) /\ e \in Seq(Byte) /\ g \in Seq(Byte) /\ t \in Seq(Byte)
  BY PlainBytes, EndByte, PayloadsTyped, PayloadFacts, RestType
<1>3. Len(e) = 1 /\ Less(e, 1) = <<>>
  BY LessOfOne
<1>4. i \in 1..Len(r \o e) /\ v = Less(r \o e, i) \o g
  BY <1>1
<1> HIDE DEF e, g, t
<1>5. \/ \E j \in 1..Len(r) : Less(r \o e, i) = Less(r, j) \o e
      \/ \E j \in 1..Len(e) : Less(r \o e, i) = r \o Less(e, j)
  BY <1>2, <1>4, LostInTwo
<1>6. CASE \E j \in 1..Len(r) : Less(r \o e, i) = Less(r, j) \o e
  <2>1. PICK j \in 1..Len(r) : Less(r \o e, i) = Less(r, j) \o e
    BY <1>6
  <2> DEFINE s == Less(r, j)
  <2>2. s \in Seq(Plain)
    BY LessFacts
  <2>3. s \in Seq(Byte)
    BY <2>2, PlainBytes
  <2>4. v = (s \o e) \o g
    BY <1>4, <2>1
  <2> HIDE DEF s
  <2>5. v = s \o (e \o g)
    <3>1. s \in Seq(Byte) /\ e \in Seq(Byte) /\ g \in Seq(Byte)
      BY <1>2, <2>3
    <3>2. (s \o e) \o g = s \o (e \o g)
      <4>1. Groups(s, e, g)
        BY ONLY <3>1, Group
      <4> QED BY <4>1 DEF Groups
    <3> QED BY <2>4, <3>2
  <2> QED BY <2>2, <2>5 DEF RestLost, Damaged, e, g
<1>7. CASE \E j \in 1..Len(e) : Less(r \o e, i) = r \o Less(e, j)
  <2>1. PICK j \in 1..Len(e) : Less(r \o e, i) = r \o Less(e, j)
    BY <1>7
  <2>2. j = 1
    BY <1>3
  <2>3. Less(r \o e, i) = r
    BY <1>2, <1>3, <2>1, <2>2, ConcatEmptySeq
  <2>4. v = r \o g
    BY <1>4, <2>3
  <2>5. CASE ps = <<>>
    <3>1. g = <<>>
      BY <2>5, FlatMapEmpty DEF Frames, g
    <3>2. v = r /\ t \o g = t
      BY <1>2, <2>4, <3>1, ConcatEmptySeq
    <3> QED BY <1>1, <3>2 DEF RestLost, e, g, t
  <2>6. CASE ps # <<>>
    <3> DEFINE q == Head(ps)
               qs == Tail(ps)
               x == Rest(q, 0)
               y == Frames(qs)
               w == x \o y
    <3>1. q \in Payloads /\ qs \in Seq(Payloads) /\ g = SlipSendPacket(q) \o y
      BY <2>6, FirstPayload DEF g
    <3>2. q \in Packet /\ 0 \in 0..Len(q) /\ y \in Seq(Byte)
      <4>1. q \in Packet /\ Len(q) \in Nat
        BY <3>1, PayloadFacts
      <4>2. y \in Seq(Byte)
        BY <3>1, PayloadsTyped
      <4> QED BY <4>1, <4>2
    <3>3. x \in Seq(Byte) /\ SlipSendPacket(q) = e \o x
      BY <3>2, RestType, FrameIsRest DEF e
    <3>4. Damaged(w, qs)
      BY <3>1, <3>2, RestDamaged
    <3> HIDE DEF q, qs, x, y
    <3>5. g = e \o w
      <4>1. e \in Seq(Byte) /\ x \in Seq(Byte) /\ y \in Seq(Byte)
        BY <1>2, <3>2, <3>3
      <4>2. (e \o x) \o y = e \o (x \o y)
        <5>1. Groups(e, x, y)
          BY ONLY <4>1, Group
        <5> QED BY <5>1 DEF Groups
      <4> QED BY <3>1, <3>3, <4>2
    <3>6. w \in Seq(Byte)
      BY <3>2, <3>3, ConcatProperties
    <3> HIDE DEF w
    <3>7. (r \o e) \o w = r \o (e \o w)
      <4>1. r \in Seq(Byte) /\ e \in Seq(Byte) /\ w \in Seq(Byte)
        BY <1>2, <3>6
      <4>2. Groups(r, e, w)
        BY ONLY <4>1, Group
      <4> QED BY <4>2 DEF Groups
    <3>8. v = t \o w
      BY <1>1, <2>4, <3>5, <3>7
    <3> QED BY <2>6, <3>4, <3>6, <3>8 DEF RestLost, qs, t
  <2> QED BY <2>5, <2>6
<1> QED BY <1>5, <1>6, <1>7

\* A byte of the frames of ps is lost.
LostIn(v, ps) ==
  \/ \E xs \in Seq(Payloads), ys \in Seq(Payloads) : \E q \in Payloads, w \in Seq(Byte) :
       /\ Due(ps) = Due(xs) \o (Dispatch(q) \o Due(ys))
       /\ v = Frames(xs) \o w /\ Harmed(w, ys)
  \/ v \o <<SLIP_END>> = Frames(ps)

LEMMA ConsPayload ==
  ASSUME NEW ps \in Seq(Payloads), NEW p \in Payloads
  PROVE  /\ <<p>> \o ps \in Seq(Payloads)
         /\ Frames(<<p>> \o ps) = SlipSendPacket(p) \o Frames(ps)
         /\ Due(<<p>> \o ps) = Dispatch(p) \o Due(ps)
<1> DEFINE qs == <<p>> \o ps
<1>1. qs \in Seq(Payloads) /\ qs # <<>> /\ Head(qs) = p /\ Tail(qs) = ps
  BY FirstByte
<1> HIDE DEF qs
<1>2. Frames(qs) = SlipSendPacket(p) \o Frames(ps) /\ Due(qs) = Dispatch(p) \o Due(ps)
  BY <1>1, FirstPayload
<1> QED BY <1>1, <1>2 DEF qs

LEMMA OnePayload ==
  ASSUME NEW p \in Payloads
  PROVE  <<p>> \in Seq(Payloads) /\ Frames(<<p>>) = SlipSendPacket(p) /\ Due(<<p>>) = Dispatch(p)
<1>1. <<>> \in Seq(Payloads) /\ <<p>> \in Seq(Payloads)
  OBVIOUS
<1>2. Frames(<<>>) = <<>> /\ Due(<<>>) = <<>>
  BY FlatMapEmpty DEF Frames, Due
<1>3. <<p>> \o <<>> = <<p>>
  BY <1>1, ConcatEmptySeq
<1>4. SlipSendPacket(p) \o <<>> = SlipSendPacket(p) /\ Dispatch(p) \o <<>> = Dispatch(p)
  BY PayloadFacts, ConcatEmptySeq
<1>5. /\ Frames(<<p>> \o <<>>) = SlipSendPacket(p) \o Frames(<<>>)
      /\ Due(<<p>> \o <<>>) = Dispatch(p) \o Due(<<>>)
  BY <1>1, ConsPayload
<1> QED BY <1>1, <1>2, <1>3, <1>4, <1>5

\* The lost byte is one of the first frame.
LEMMA FirstLoses ==
  ASSUME NEW ps \in Seq(Payloads), NEW p \in Payloads,
         NEW i \in 1..Len(SlipSendPacket(p)), NEW v, v = Less(SlipSendPacket(p), i) \o Frames(ps)
  PROVE  LostIn(v, <<p>> \o ps)
<1> DEFINE e == <<SLIP_END>>
           f == SlipSendPacket(p)
           g == Frames(ps)
           t == Rest(p, 0)
           d == Dispatch(p)
           all == Due(<<p>> \o ps)
<1>1. p \in Packet /\ 0 \in 0..Len(p) /\ f \in Seq(Byte) /\ d \in Seq(Upcalls)
  BY PayloadFacts
<1>2. e \in Seq(Byte) /\ g \in Seq(Byte) /\ t \in Seq(Byte) /\ f = e \o t
  BY <1>1, EndByte, PayloadsTyped, RestType, FrameIsRest
<1>3. Frames(<<p>> \o ps) = f \o g /\ all = d \o Due(ps)
  BY ConsPayload
<1>4. <<>> \in Seq(Payloads) /\ Frames(<<>>) = <<>> /\ Due(<<>>) = <<>>
  BY FlatMapEmpty DEF Frames, Due
<1>5. ASSUME NEW w \in Seq(Byte), v = w, Harmed(w, ps)
      PROVE  LostIn(v, <<p>> \o ps)
  <2>1. Due(ps) \in Seq(Upcalls)
    BY PayloadsTyped
  <2> DEFINE z == d \o Due(ps)
  <2>2. z \in Seq(Upcalls)
    BY <1>1, <2>1, ConcatProperties
  <2> HIDE DEF z
  <2>3. Due(<<>>) \o z = z /\ Frames(<<>>) \o w = w
    BY <1>4, <2>2, ConcatEmptySeq
  <2>4. all = Due(<<>>) \o (Dispatch(p) \o Due(ps)) /\ v = Frames(<<>>) \o w
    BY <1>3, <1>5, <2>3 DEF z
  <2> QED BY <1>4, <1>5, <2>4 DEF LostIn
<1>6. Len(e) = 1 /\ Less(e, 1) = <<>>
  BY LessOfOne
<1>7. i \in 1..Len(e \o t) /\ v = Less(e \o t, i) \o g
  BY <1>2
<1>8. ASSUME NEW z \in Seq(Byte), Damaged(z, ps), v = z \/ v = e \o z
      PROVE  LostIn(v, <<p>> \o ps)
  <2>1. v \in Seq(Byte)
    BY <1>2, <1>8, ConcatProperties
  <2>2. Harmed(v, ps)
    BY <1>8 DEF Harmed
  <2> QED BY <1>5, <2>1, <2>2
<1> HIDE DEF e, g, t, f, d
<1>9. \/ \E j \in 1..Len(e) : Less(e \o t, i) = Less(e, j) \o t
      \/ \E j \in 1..Len(t) : Less(e \o t, i) = e \o Less(t, j)
  BY <1>2, <1>7, LostInTwo
<1>10. CASE \E j \in 1..Len(e) : Less(e \o t, i) = Less(e, j) \o t
  <2>1. Less(e \o t, i) = <<>> \o t
    <3>1. PICK j \in 1..Len(e) : Less(e \o t, i) = Less(e, j) \o t
      BY <1>10
    <3>2. j = 1
      BY <1>6
    <3> QED BY <1>6, <3>1, <3>2
  <2>2. v = t \o g
    BY <1>2, <1>7, <2>1, ConcatEmptySeq
  <2>3. Damaged(v, ps)
    BY <1>1, <2>2, RestDamaged DEF t, g
  <2> QED BY <1>8, <2>3, DamagedType
<1>11. CASE \E j \in 1..Len(t) : Less(e \o t, i) = e \o Less(t, j)
  <2>1. PICK j \in 1..Len(t) : Less(e \o t, i) = e \o Less(t, j)
    BY <1>11
  <2> DEFINE s == Less(t, j)
             u == s \o g
  <2>2. s \in Seq(Byte)
    BY <1>2, LessFacts
  <2>3. u \in Seq(Byte)
    BY <1>2, <2>2, ConcatProperties
  <2>4. \/ Damaged(u, ps)
        \/ u \o e = t \o g
        \/ ps # <<>> /\ \E w \in Seq(Byte) : Damaged(w, Tail(ps)) /\ u = t \o w
    <3>1. j \in 1..Len(Rest(p, 0)) /\ u = Less(Rest(p, 0), j) \o Frames(ps)
      BY <2>1 DEF t, g
    <3> HIDE DEF u
    <3>2. RestLost(u, p, 0, ps)
      BY <1>1, <3>1, RestLoses
    <3> QED BY <3>2 DEF RestLost, e, t, g
  <2>5. v = (e \o s) \o g
    BY <1>7, <2>1
  <2> HIDE DEF s
  <2>6. v = e \o u
    <3>1. e \in Seq(Byte) /\ s \in Seq(Byte) /\ g \in Seq(Byte)
      BY <1>2, <2>2
    <3>2. (e \o s) \o g = e \o (s \o g)
      <4>1. Groups(e, s, g)
        BY ONLY <3>1, Group
      <4> QED BY <4>1 DEF Groups
    <3> QED BY <2>5, <3>2
  <2> HIDE DEF u
  <2>7. CASE Damaged(u, ps)
    BY <1>8, <2>3, <2>6, <2>7
  <2>8. CASE u \o e = t \o g
    <3>1. (e \o u) \o e = e \o (u \o e)
      <4>1. e \in Seq(Byte) /\ u \in Seq(Byte)
        BY <1>2, <2>3
      <4>2. Groups(e, u, e)
        BY ONLY <4>1, Group
      <4> QED BY <4>2 DEF Groups
    <3>2. e \o (t \o g) = (e \o t) \o g
      <4>1. e \in Seq(Byte) /\ t \in Seq(Byte) /\ g \in Seq(Byte)
        BY <1>2
      <4>2. Groups(e, t, g)
        BY ONLY <4>1, Group
      <4> QED BY <4>2 DEF Groups
    <3>3. v \o e = f \o g
      BY <1>2, <2>6, <2>8, <3>1, <3>2
    <3> QED BY <1>3, <3>3 DEF LostIn, e
  <2>9. CASE ps # <<>> /\ \E w \in Seq(Byte) : Damaged(w, Tail(ps)) /\ u = t \o w
    <3>1. PICK w \in Seq(Byte) : Damaged(w, Tail(ps)) /\ u = t \o w
      BY <2>9
    <3>2. e \o (t \o w) = (e \o t) \o w
      <4>1. e \in Seq(Byte) /\ t \in Seq(Byte) /\ w \in Seq(Byte)
        BY <1>2
      <4>2. Groups(e, t, w)
        BY ONLY <4>1, Group
      <4> QED BY <4>2 DEF Groups
    <3>3. v = Frames(<<p>>) \o w
      <4>1. Frames(<<p>>) = f
        BY OnePayload DEF f
      <4> QED BY <1>2, <2>6, <3>1, <3>2, <4>1
    <3>4. /\ Head(ps) \in Payloads /\ Tail(ps) \in Seq(Payloads)
          /\ Due(ps) = Dispatch(Head(ps)) \o Due(Tail(ps))
      BY <2>9, FirstPayload
    <3>5. <<p>> \in Seq(Payloads) /\ Due(<<p>>) = d
      BY OnePayload DEF d
    <3>6. all = Due(<<p>>) \o (Dispatch(Head(ps)) \o Due(Tail(ps)))
      BY <1>3, <3>4, <3>5
    <3>7. Harmed(w, Tail(ps))
      BY <3>1 DEF Harmed
    <3> QED BY <3>3, <3>4, <3>5, <3>6, <3>7 DEF LostIn
  <2> QED BY <2>4, <2>7, <2>8, <2>9
<1> QED BY <1>9, <1>10, <1>11

\* A frame in front of those that lost a byte.
LEMMA LaterLoses ==
  ASSUME NEW ps \in Seq(Payloads), NEW p \in Payloads, NEW x \in Seq(Byte), LostIn(x, ps)
  PROVE  LostIn(SlipSendPacket(p) \o x, <<p>> \o ps)
<1> DEFINE e == <<SLIP_END>>
           f == SlipSendPacket(p)
           d == Dispatch(p)
<1>1. f \in Seq(Byte) /\ d \in Seq(Upcalls) /\ e \in Seq(Byte)
  BY PayloadFacts, EndByte
<1>2. Frames(<<p>> \o ps) = f \o Frames(ps) /\ Due(<<p>> \o ps) = d \o Due(ps)
  BY ConsPayload
<1>3. CASE x \o <<SLIP_END>> = Frames(ps)
  <2> HIDE DEF f
  <2>1. f \in Seq(Byte) /\ x \in Seq(Byte) /\ e \in Seq(Byte)
    BY <1>1
  <2> HIDE DEF e
  <2>2. (f \o x) \o e = f \o (x \o e)
    <3>1. Groups(f, x, e)
      BY ONLY <2>1, Group
    <3> QED BY <3>1 DEF Groups
  <2>3. (f \o x) \o e = Frames(<<p>> \o ps)
    BY <1>2, <1>3, <2>2 DEF e
  <2> QED BY <2>3 DEF LostIn, e, f
<1>4. ASSUME NEW xs \in Seq(Payloads), NEW ys \in Seq(Payloads), NEW q \in Payloads,
             NEW w \in Seq(Byte), Due(ps) = Due(xs) \o (Dispatch(q) \o Due(ys)),
             x = Frames(xs) \o w, Harmed(w, ys)
      PROVE  LostIn(f \o x, <<p>> \o ps)
  <2> DEFINE zs == <<p>> \o xs
             a == Frames(xs)
             b == Due(xs)
             c == Dispatch(q) \o Due(ys)
  <2>1. zs \in Seq(Payloads) /\ Frames(zs) = f \o a /\ Due(zs) = d \o b
    BY ConsPayload
  <2>2. a \in Seq(Byte) /\ b \in Seq(Upcalls)
    BY PayloadsTyped
  <2>3. c \in Seq(Upcalls)
    <3>1. Dispatch(q) \in Seq(Upcalls) /\ Due(ys) \in Seq(Upcalls)
      BY PayloadFacts, PayloadsTyped
    <3> QED BY ONLY <3>1, ConcatProperties
  <2>4. x = a \o w /\ Due(ps) = b \o c
    BY <1>4
  <2> HIDE DEF f, d, zs, a, b, c
  <2>5. f \in Seq(Byte) /\ a \in Seq(Byte) /\ w \in Seq(Byte)
    BY <1>1, <2>2
  <2>6. (f \o a) \o w = f \o (a \o w)
    <3>1. Groups(f, a, w)
      BY ONLY <2>5, Group
    <3> QED BY <3>1 DEF Groups
  <2>7. d \in Seq(Upcalls) /\ b \in Seq(Upcalls) /\ c \in Seq(Upcalls)
    BY <1>1, <2>2, <2>3
  <2>8. (d \o b) \o c = d \o (b \o c)
    <3>1. Groups(d, b, c)
      BY ONLY <2>7, Group
    <3> QED BY <3>1 DEF Groups
  <2>9. f \o x = Frames(zs) \o w /\ Due(<<p>> \o ps) = Due(zs) \o c
    BY <1>2, <2>1, <2>4, <2>6, <2>8
  <2> QED BY <1>4, <2>1, <2>9 DEF LostIn, c
<1> HIDE DEF f
<1> QED BY <1>3, <1>4 DEF LostIn, f

LEMMA FramesLose ==
  ASSUME NEW ps \in Seq(Payloads), NEW i \in 1..Len(Frames(ps))
  PROVE  LostIn(Less(Frames(ps), i), ps)
<1> DEFINE Loses(qs) == \A k \in 1..Len(Frames(qs)) : LostIn(Less(Frames(qs), k), qs)
           T == {n \in Nat : \A qs \in Seq(Payloads) : Len(qs) = n => Loses(qs)}
<1>1. 0 \in T
  <2> SUFFICES ASSUME NEW qs \in Seq(Payloads), Len(qs) = 0 PROVE Loses(qs)
    OBVIOUS
  <2>1. qs = <<>>
    BY EmptySeq
  <2>2. Frames(qs) = <<>>
    BY <2>1, FlatMapEmpty DEF Frames
  <2>3. 1..Len(<<>>) = {}
    OBVIOUS
  <2> QED BY <2>2, <2>3
<1>2. ASSUME NEW n \in T PROVE n + 1 \in T
  <2> SUFFICES ASSUME NEW qs \in Seq(Payloads), Len(qs) = n + 1 PROVE Loses(qs)
    OBVIOUS
  <2>1. n \in Nat /\ \A rs \in Seq(Payloads) : Len(rs) = n => Loses(rs)
    OBVIOUS
  <2>2. qs # <<>>
    BY <2>1, EmptySeq
  <2> DEFINE p == Head(qs)
             rs == Tail(qs)
             f == SlipSendPacket(p)
             g == Frames(rs)
  <2>3. p \in Payloads /\ rs \in Seq(Payloads) /\ Frames(qs) = f \o g
    BY <2>2, FirstPayload
  <2>4. qs = <<p>> \o rs
    BY <2>2, HeadThenTail
  <2>5. Len(rs) = n
    BY <2>1, <2>2, HeadTailProperties
  <2>6. f \in Seq(Byte) /\ g \in Seq(Byte)
    BY <2>3, PayloadFacts, PayloadsTyped
  <2>7. Loses(rs)
    BY <2>1, <2>3, <2>5
  <2> HIDE DEF p, rs, f, g, T
  <2> SUFFICES ASSUME NEW k \in 1..Len(f \o g) PROVE LostIn(Less(f \o g, k), qs)
    BY <2>3
  <2>8. \/ \E j \in 1..Len(f) : Less(f \o g, k) = Less(f, j) \o g
        \/ \E j \in 1..Len(g) : Less(f \o g, k) = f \o Less(g, j)
    BY <2>6, LostInTwo
  <2>9. ASSUME NEW j \in 1..Len(f), Less(f \o g, k) = Less(f, j) \o g
        PROVE  LostIn(Less(f \o g, k), qs)
    <3> DEFINE v == Less(f \o g, k)
    <3>1. j \in 1..Len(SlipSendPacket(p)) /\ v = Less(SlipSendPacket(p), j) \o Frames(rs)
      BY <2>9 DEF f, g
    <3> HIDE DEF v
    <3>2. LostIn(v, <<p>> \o rs)
      BY <2>3, <3>1, FirstLoses
    <3> QED BY <2>4, <3>2 DEF v
  <2>10. ASSUME NEW j \in 1..Len(g), Less(f \o g, k) = f \o Less(g, j)
         PROVE  LostIn(Less(f \o g, k), qs)
    <3> DEFINE x == Less(g, j)
    <3>1. x \in Seq(Byte)
      BY <2>6, LessFacts
    <3>2. LostIn(x, rs)
      BY <2>7 DEF g
    <3> HIDE DEF x
    <3>3. LostIn(f \o x, <<p>> \o rs)
      BY <2>3, <3>1, <3>2, LaterLoses DEF f
    <3> QED BY <2>4, <2>10, <3>3 DEF x
  <2> QED BY <2>8, <2>9, <2>10
<1>3. T = Nat
  <2>1. T \in SUBSET Nat
    OBVIOUS
  <2> HIDE DEF T
  <2> QED BY <1>1, <1>2, <2>1, AllNumbers
<1>4. Len(ps) \in T
  BY <1>3, LenProperties
<1> QED BY <1>4

LEMMA WholeLoses ==
  ASSUME NEW u, NEW b, NEW ups \in Seq(Upcalls), NEW all, Whole(u, b, ups, all),
         NEW i \in 1..Len(u)
  PROVE  OneLost(Less(u, i), b, ups, all)
<1> DEFINE v == Less(u, i)
           e == <<SLIP_END>>
<1>1. PICK ps \in Seq(Payloads) :
        \/ Between(u, b, ups, all, ps)
        \/ \E p \in Payloads : \E k \in 0..Len(p) : Within(u, b, ups, all, ps, p, k)
  BY DEF Whole
<1>2. ASSUME v \o e = u PROVE OneLost(v, b, ups, all)
  <2> HIDE DEF v
  <2>1. Cut(v, b, ups, all)
    BY <1>2 DEF Cut, e
  <2> QED BY <2>1 DEF OneLost
<1>3. ASSUME NEW x \in Seq(Byte), NEW before \in Seq(Upcalls), NEW ys \in Seq(Payloads),
             NEW q \in Payloads, NEW w \in Seq(Byte), Whole(x, b, ups, before),
             v = x \o w, Harmed(w, ys), all = before \o (Dispatch(q) \o Due(ys))
      PROVE  OneLost(v, b, ups, all)
  <2>1. Dispatch(q) \in AtMostOne
    BY PayloadFacts, DispatchAtMostOne
  <2> HIDE DEF v
  <2>2. Ahead(v, b, ups, all)
    BY <1>3, <2>1 DEF Ahead
  <2> QED BY <2>2 DEF OneLost
<1>4. ASSUME NEW ys \in Seq(Payloads), NEW q \in Payloads
      PROVE  Dispatch(q) \o Due(ys) \in Seq(Upcalls)
  <2>1. Dispatch(q) \in Seq(Upcalls) /\ Due(ys) \in Seq(Upcalls)
    BY PayloadFacts, PayloadsTyped
  <2> QED BY ONLY <2>1, ConcatProperties
<1> HIDE DEF e
<1>5. ASSUME Between(u, b, ups, all, ps)
      PROVE  OneLost(v, b, ups, all)
  <2>1. b = <<>> /\ u = Frames(ps) /\ all = ups \o Due(ps)
    BY <1>5 DEF Between
  <2>2. LostIn(v, ps)
    BY <2>1, FramesLose
  <2> HIDE DEF v
  <2>3. CASE v \o <<SLIP_END>> = Frames(ps)
    BY <1>2, <2>1, <2>3 DEF e
  <2>4. ASSUME NEW xs \in Seq(Payloads), NEW ys \in Seq(Payloads), NEW q \in Payloads,
               NEW w \in Seq(Byte), Due(ps) = Due(xs) \o (Dispatch(q) \o Due(ys)),
               v = Frames(xs) \o w, Harmed(w, ys)
        PROVE  OneLost(v, b, ups, all)
    <3> DEFINE a == Due(xs)
               c == Dispatch(q) \o Due(ys)
               before == ups \o a
    <3>1. ups \in Seq(Upcalls) /\ a \in Seq(Upcalls) /\ c \in Seq(Upcalls)
      BY <1>4, PayloadsTyped
    <3>2. before \in Seq(Upcalls)
      BY <3>1, ConcatProperties
    <3>3. Between(Frames(xs), b, ups, before, xs)
      BY <2>1 DEF Between
    <3>4. Whole(Frames(xs), b, ups, before)
      BY <3>3 DEF Whole
    <3>5. all = ups \o (a \o c)
      BY <2>1, <2>4
    <3> HIDE DEF a, c
    <3>6. (ups \o a) \o c = ups \o (a \o c)
      <4>1. Groups(ups, a, c)
        BY ONLY <3>1, Group
      <4> QED BY <4>1 DEF Groups
    <3>7. all = before \o c
      BY <3>5, <3>6
    <3>8. Frames(xs) \in Seq(Byte)
      BY PayloadsTyped
    <3> HIDE DEF before
    <3> QED BY <1>3, <2>4, <3>2, <3>4, <3>7, <3>8 DEF c
  <2> QED BY <2>2, <2>3, <2>4 DEF LostIn
<1>6. ASSUME NEW p \in Payloads, NEW k \in 0..Len(p), Within(u, b, ups, all, ps, p, k)
      PROVE  OneLost(v, b, ups, all)
  <2> DEFINE r == Rest(p, k)
             g == Frames(ps)
             d == Dispatch(p)
             z == Due(ps)
  <2>1. b = SubSeq(p, 1, k) /\ u = r \o g /\ all = ups \o (d \o z)
    BY <1>6 DEF Within
  <2>2. r \in Seq(Byte) /\ d \in Seq(Upcalls)
    BY PayloadFacts, RestType
  <2>3. g \in Seq(Byte) /\ z \in Seq(Upcalls)
    BY PayloadsTyped
  <2> HIDE DEF v, r, g, d, z
  <2>4. i \in 1..Len(r \o g) /\ v = Less(r \o g, i)
    BY <2>1 DEF v
  <2>5. \/ \E j \in 1..Len(r) : Less(r \o g, i) = Less(r, j) \o g
        \/ \E j \in 1..Len(g) : Less(r \o g, i) = r \o Less(g, j)
    BY <2>2, <2>3, <2>4, LostInTwo
  <2>6. ASSUME NEW xs \in Seq(Payloads), NEW ys \in Seq(Payloads), NEW q \in Payloads,
               NEW w \in Seq(Byte), Due(ps) = Due(xs) \o (Dispatch(q) \o Due(ys)),
               v = (r \o Frames(xs)) \o w, Harmed(w, ys)
        PROVE  OneLost(v, b, ups, all)
    <3> DEFINE a == Due(xs)
               c == Dispatch(q) \o Due(ys)
               before == ups \o (d \o a)
               x == r \o Frames(xs)
    <3>1. ups \in Seq(Upcalls) /\ d \in Seq(Upcalls) /\ a \in Seq(Upcalls) /\ c \in Seq(Upcalls)
      BY <1>4, <2>2, PayloadsTyped
    <3>2. before \in Seq(Upcalls)
      BY <3>1, ThreeType
    <3>3. x \in Seq(Byte)
      <4>1. r \in Seq(Byte) /\ Frames(xs) \in Seq(Byte)
        BY <2>2, PayloadsTyped
      <4> QED BY ONLY <4>1, ConcatProperties
    <3>4. Within(x, b, ups, before, xs, p, k)
      BY <2>1 DEF Within, r, d
    <3>5. Whole(x, b, ups, before)
      BY <3>4 DEF Whole
    <3>6. all = ups \o (d \o (a \o c))
      BY <2>1, <2>6 DEF z
    <3> HIDE DEF a, c
    <3>7. Regroups(ups, d, a, c)
      BY ONLY <3>1, Regroup
    <3>8. all = before \o c
      BY <3>6, <3>7 DEF Regroups
    <3> HIDE DEF before, x
    <3>9. v = x \o w
      BY <2>6 DEF x
    <3> QED BY <1>3, <2>6, <3>2, <3>3, <3>5, <3>8, <3>9 DEF c
  <2>7. ASSUME NEW j \in 1..Len(r), Less(r \o g, i) = Less(r, j) \o g
        PROVE  OneLost(v, b, ups, all)
    <3>1. v = Less(r, j) \o g
      BY <2>4, <2>7
    <3>2. j \in 1..Len(Rest(p, k)) /\ v = Less(Rest(p, k), j) \o Frames(ps)
      BY <3>1 DEF r, g
    <3>3. RestLost(v, p, k, ps)
      BY <3>2, RestLoses
    <3>4. CASE Damaged(v, ps)
      <4>1. d \in AtMostOne
        BY PayloadFacts, DispatchAtMostOne DEF d
      <4>2. Muddled(v, ups, all)
        BY <2>1, <3>4, <4>1 DEF Muddled, z
      <4> QED BY <4>2 DEF OneLost
    <3>5. CASE v \o <<SLIP_END>> = Rest(p, k) \o Frames(ps)
      BY <1>2, <2>1, <3>5 DEF e, r, g
    <3>6. CASE ps # <<>> /\ \E w \in Seq(Byte) : Damaged(w, Tail(ps)) /\ v = Rest(p, k) \o w
      <4>1. PICK w \in Seq(Byte) : Damaged(w, Tail(ps)) /\ v = r \o w
        BY <3>6 DEF r
      <4>2. /\ Head(ps) \in Payloads /\ Tail(ps) \in Seq(Payloads)
            /\ Due(ps) = Dispatch(Head(ps)) \o Due(Tail(ps))
        BY <3>6, FirstPayload
      <4>3. <<>> \in Seq(Payloads) /\ Frames(<<>>) = <<>> /\ Due(<<>>) = <<>>
        BY FlatMapEmpty DEF Frames, Due
      <4> DEFINE y == Dispatch(Head(ps)) \o Due(Tail(ps))
      <4>4. y \in Seq(Upcalls) /\ z = y
        BY <1>4, <4>2 DEF z
      <4>5. Due(<<>>) \o y = y /\ r \o Frames(<<>>) = r
        BY <2>2, <4>3, <4>4, ConcatEmptySeq
      <4>6. Harmed(w, Tail(ps)) /\ v = (r \o Frames(<<>>)) \o w
        BY <4>1, <4>5 DEF Harmed
      <4>7. Due(ps) = Due(<<>>) \o y
        BY <4>2, <4>5
      <4> QED BY <2>6, <4>2, <4>3, <4>6, <4>7
    <3> QED BY <3>3, <3>4, <3>5, <3>6 DEF RestLost
  <2>8. ASSUME NEW j \in 1..Len(g), Less(r \o g, i) = r \o Less(g, j)
        PROVE  OneLost(v, b, ups, all)
    <3> DEFINE x == Less(g, j)
    <3>1. v = r \o x
      BY <2>4, <2>8
    <3>2. LostIn(x, ps)
      BY FramesLose DEF g
    <3>3. x \in Seq(Byte)
      BY <2>3, LessFacts
    <3> HIDE DEF x
    <3>4. CASE x \o <<SLIP_END>> = Frames(ps)
      <4>1. r \in Seq(Byte) /\ x \in Seq(Byte) /\ e \in Seq(Byte)
        BY <2>2, <3>3, EndByte DEF e
      <4>2. (r \o x) \o e = r \o (x \o e)
        <5>1. Groups(r, x, e)
          BY ONLY <4>1, Group
        <5> QED BY <5>1 DEF Groups
      <4>3. v \o e = u
        BY <2>1, <3>1, <3>4, <4>2 DEF e, g
      <4> QED BY <1>2, <4>3
    <3>5. ASSUME NEW xs \in Seq(Payloads), NEW ys \in Seq(Payloads), NEW q \in Payloads,
                 NEW w \in Seq(Byte), Due(ps) = Due(xs) \o (Dispatch(q) \o Due(ys)),
                 x = Frames(xs) \o w, Harmed(w, ys)
          PROVE  OneLost(v, b, ups, all)
      <4>0. PICK a : a = Frames(xs)
        OBVIOUS
      <4>1. r \in Seq(Byte) /\ a \in Seq(Byte) /\ w \in Seq(Byte)
        BY <2>2, <4>0, PayloadsTyped
      <4>2. x = a \o w
        BY <3>5, <4>0
      <4>3. Groups(r, a, w)
        BY ONLY <4>1, Group
      <4>4. v = (r \o Frames(xs)) \o w
        BY <3>1, <4>0, <4>2, <4>3 DEF Groups
      <4> QED BY <2>6, <3>5, <4>4
    <3> QED BY <3>2, <3>4, <3>5 DEF LostIn
  <2> QED BY <2>5, <2>7, <2>8
<1> QED BY <1>1, <1>5, <1>6

-----------------------------------------------------------------------------
(* When everything was read *)

LEMMA ConcatParts ==
  ASSUME NEW S, NEW x \in Seq(S), NEW y \in Seq(S)
  PROVE  /\ Len(x \o y) = Len(x) + Len(y)
         /\ SubSeq(x \o y, 1, Len(x)) = x
         /\ SubSeq(x \o y, Len(x) + 1, Len(x) + Len(y)) = y
<1> DEFINE t == x \o y
           m == Len(x)
           n == Len(y)
           l == m + n
           f == m + 1
           a == SubSeq(t, 1, m)
           b == SubSeq(t, f, l)
<1>1. /\ t \in Seq(S) /\ Len(t) = l /\ m \in Nat /\ n \in Nat
      /\ \A i \in 1..l : t[i] = IF i <= m THEN x[i] ELSE y[i - m]
  BY ConcatProperties, LenProperties
<1>2. l \in Nat /\ f \in Nat \ {0} /\ \A i \in 1..m : i \in 1..l
  BY <1>1
<1> HIDE DEF t
<1>3. \A i \in 1..l : t[i] \in S
  BY <1>1, ElementOfSeq
<1>4. a \in Seq(S) /\ Len(a) = m /\ \A i \in 1..m : a[i] = t[i]
  <2>1. \A i \in 1..m : t[i] \in S
    BY <1>2, <1>3
  <2> HIDE DEF m, a
  <2> QED BY <1>1, <2>1, SubSeqProperties DEF a
<1>5. a = x
  <2> HIDE DEF a
  <2>1. \A i \in 1..m : a[i] = x[i]
    BY <1>1, <1>2, <1>4
  <2> QED BY <1>4, <2>1, SeqEqual
<1>6. b \in Seq(S) /\ Len(b) = n /\ \A i \in 1..n : b[i] = t[m + i]
  <2>1. \A i \in f..l : t[i] \in S
    BY <1>1, <1>3
  <2>2. (IF f <= l THEN l - f + 1 ELSE 0) = n
    BY <1>1
  <2>3. \A i \in 1..n : f + i - 1 = m + i
    BY <1>1
  <2> HIDE DEF f, l
  <2>4. /\ b \in Seq(S)
        /\ Len(b) = IF f <= l THEN l - f + 1 ELSE 0
        /\ \A i \in 1..(l - f + 1) : b[i] = t[f + i - 1]
    BY <1>1, <1>2, <2>1, SubSeqProperties
  <2> QED BY <1>1, <2>2, <2>3, <2>4 DEF f, l
<1>7. b = y
  <2>1. \A i \in 1..n : m + i \in 1..l /\ ~(m + i <= m) /\ m + i - m = i
    BY <1>1
  <2> HIDE DEF b
  <2>2. \A i \in 1..n : b[i] = y[i]
    <3> SUFFICES ASSUME NEW i \in 1..n PROVE b[i] = y[i]
      OBVIOUS
    <3>1. PICK k : k = m + i
      OBVIOUS
    <3>2. k \in 1..l /\ ~(k <= m) /\ k - m = i
      BY <2>1, <3>1
    <3> QED BY <1>1, <1>6, <3>1, <3>2
  <2> QED BY <1>6, <2>2, SeqEqual
<1> QED BY <1>1, <1>5, <1>7 DEF t

\* Two sequences that differ where one has d and the other h.
LEMMA SameButOnePart ==
  ASSUME NEW f \in Seq(Upcalls), NEW g \in Seq(Upcalls), NEW h \in AtMostOne, NEW d \in AtMostOne,
         NEW s, NEW t, s = f \o (d \o g), t = f \o (h \o g)
  PROVE  SameButOne(s, t)
<1> DEFINE i == Len(f)
           j == Len(d)
           k == Len(h)
           n == Len(g)
<1>1. /\ d \in Seq(Upcalls) /\ h \in Seq(Upcalls)
      /\ i \in Nat /\ j \in 0..1 /\ k \in 0..1 /\ n \in Nat
  <2>1. \A x \in AtMostOne : x \in Seq(Upcalls) /\ Len(x) <= 1
    BY DEF AtMostOne
  <2>2. \A x \in Seq(Upcalls) : Len(x) \in Nat
    BY LenProperties
  <2>3. Len(d) \in Nat /\ Len(h) \in Nat /\ Len(d) <= 1 /\ Len(h) <= 1
    BY <2>1, <2>2
  <2>4. d \in Seq(Upcalls) /\ h \in Seq(Upcalls) /\ i \in Nat /\ n \in Nat
    BY <2>1, <2>2
  <2>5. j \in 0..1 /\ k \in 0..1
    <3>1. j \in Nat /\ k \in Nat /\ j <= 1 /\ k <= 1
      BY <2>3
    <3> HIDE DEF j, k
    <3> QED BY ONLY <3>1
  <2> QED BY <2>4, <2>5
<1>2. ASSUME NEW x \in Seq(Upcalls), NEW z, z = f \o (x \o g)
      PROVE  /\ Len(z) = i + Len(x) + n
             /\ SubSeq(z, 1, i) = f
             /\ SubSeq(z, i + Len(x) + 1, Len(z)) = g
  <2> DEFINE y == x \o g
             w == f \o x
  <2>1. y \in Seq(Upcalls) /\ w \in Seq(Upcalls) /\ Len(y) = Len(x) + n /\ Len(w) = i + Len(x)
    BY ConcatProperties
  <2>2. z = w \o g
    <3>1. Groups(f, x, g)
      BY Group
    <3> QED BY <1>2, <3>1 DEF Groups
  <2>3. Len(x) \in Nat
    BY LenProperties
  <2> HIDE DEF y, w, i, n
  <2>4. SubSeq(f \o y, 1, Len(f)) = f
    BY <2>1, ConcatParts
  <2>5. /\ Len(w \o g) = Len(w) + Len(g)
        /\ SubSeq(w \o g, Len(w) + 1, Len(w) + Len(g)) = g
    BY <2>1, ConcatParts
  <2>6. SubSeq(z, 1, i) = f
    BY <1>2, <2>4 DEF y, i
  <2>7. Len(z) = i + Len(x) + n
    BY <2>1, <2>2, <2>5 DEF n
  <2>8. SubSeq(z, i + Len(x) + 1, Len(z)) = g
    BY <2>1, <2>2, <2>5
  <2> QED BY <2>6, <2>7, <2>8
<1> HIDE DEF i, j, k, n
<1>3. Len(s) = i + j + n /\ SubSeq(s, 1, i) = f /\ SubSeq(s, i + j + 1, Len(s)) = g
  BY <1>1, <1>2 DEF j
<1>4. Len(t) = i + k + n /\ SubSeq(t, 1, i) = f /\ SubSeq(t, i + k + 1, Len(t)) = g
  BY <1>1, <1>2 DEF k
<1>5. i \in 0..Len(t) /\ i + j <= Len(s) /\ i + k <= Len(t)
  BY <1>1, <1>3, <1>4
<1> QED BY <1>1, <1>3, <1>4, <1>5 DEF SameButOne

LEMMA NoFrames ==
  ASSUME NEW ps \in Seq(Payloads), Frames(ps) = <<>>
  PROVE  Due(ps) = <<>>
<1>1. <<>> \in Seq(Upcalls) /\ Due(ps) \in Seq(Upcalls)
  BY PayloadsTyped
<1>2. Between(<<>>, <<>>, <<>>, <<>> \o Due(ps), ps)
  BY DEF Between
<1>3. Whole(<<>>, <<>>, <<>>, <<>> \o Due(ps))
  BY <1>2 DEF Whole
<1>4. <<>> \o Due(ps) = <<>>
  BY <1>1, <1>3, WholeEmpty
<1> QED BY <1>1, <1>4, ConcatEmptySeq

LEMMA OneLostRead ==
  ASSUME NEW u, NEW b, NEW ups \in Seq(Upcalls), NEW all, OneLost(u, b, ups, all), u = <<>>
  PROVE  SameButOne(ups, all)
<1>0. <<>> \in Seq(Upcalls) /\ AtMostOne \subseteq Seq(Upcalls)
  BY DEF AtMostOne
<1>1. CASE Ahead(u, b, ups, all)
  <2>1. \E x \in Seq(Byte), ps \in Seq(Payloads), w \in Seq(Byte) : u = x \o w /\ Harmed(w, ps)
    BY <1>1 DEF Ahead
  <2>2. PICK x \in Seq(Byte), ps \in Seq(Payloads), w \in Seq(Byte) : u = x \o w /\ Harmed(w, ps)
    BY <2>1
  <2>3. w \in Seq(Byte) /\ w # <<>>
    BY <2>2, HarmedType
  <2>4. x \o w # <<>>
    BY <2>3, ConcatSimplifications!concIsEmpty
  <2> QED BY <2>2, <2>4
<1>2. ASSUME NEW h \in AtMostOne, all = ups \o (h \o <<>>)
      PROVE  SameButOne(ups, all)
  <2>1. <<>> \o <<>> = <<>> /\ ups \o <<>> = ups
    BY <1>0, ConcatEmptySeq
  <2>2. ups = ups \o (<<>> \o <<>>)
    BY <2>1
  <2> QED BY <1>0, <1>2, <2>2, NoneAtMostOne, SameButOnePart
<1>3. CASE Muddled(u, ups, all)
  <2>1. PICK h \in AtMostOne, ps \in Seq(Payloads) :
          /\ Damaged(u, ps) \/ u = Frames(ps)
          /\ all = ups \o (h \o Due(ps))
    BY <1>3 DEF Muddled
  <2>2. Frames(ps) = <<>>
    BY <2>1, DamagedType
  <2>3. Due(ps) = <<>>
    BY <2>2, NoFrames
  <2> QED BY <1>2, <2>1, <2>3
<1>4. CASE Passed(u, b, ups, all)
  <2>1. PICK before \in Seq(Upcalls), after \in Seq(Upcalls) :
          \E h \in AtMostOne, d \in AtMostOne :
            /\ all = before \o (h \o after)
            /\ Whole(u, b, ups, before \o (d \o after))
    BY <1>4 DEF Passed
  <2>2. PICK h \in AtMostOne, d \in AtMostOne :
          /\ all = before \o (h \o after)
          /\ Whole(u, b, ups, before \o (d \o after))
    BY <2>1
  <2>3. ups = before \o (d \o after)
    BY <2>2, WholeEmpty
  <2> QED BY <2>2, <2>3, SameButOnePart
<1>5. CASE Cut(u, b, ups, all)
  <2> DEFINE e == <<SLIP_END>>
  <2>1. e \in Seq(Byte) /\ e # <<>> /\ Head(e) = SLIP_END /\ Tail(e) = <<>> /\ Len(e) = 1
    BY EndByte
  <2>2. Whole(e, b, ups, all)
    <3>1. <<>> \o e = e
      BY <2>1, ConcatEmptySeq
    <3>2. Whole(u \o e, b, ups, all)
      BY <1>5 DEF Cut
    <3> QED BY <3>1, <3>2
  <2> HIDE DEF e
  <2>3. PICK ps \in Seq(Payloads) :
          \/ Between(e, b, ups, all, ps)
          \/ \E p \in Payloads : \E i \in 0..Len(p) : Within(e, b, ups, all, ps, p, i)
    BY <2>2 DEF Whole
  <2>4. ASSUME NEW x \in Seq(Byte), NEW y \in Seq(Byte), x # <<>>, x \o y = e
        PROVE  y = <<>>
    <3>1. Len(x \o y) = Len(x) + Len(y) /\ Len(x) \in Nat \ {0} /\ Len(y) \in Nat
      BY <2>4, ConcatProperties, EmptySeq
    <3>2. Len(y) = 0
      BY <2>1, <2>4, <3>1
    <3> QED BY <3>2, EmptySeq
  <2>5. CASE Between(e, b, ups, all, ps)
    <3>1. ps # <<>>
      BY <2>1, <2>5, FlatMapEmpty DEF Between, Frames
    <3> DEFINE p == Head(ps)
               r == Rest(p, 0)
               y == Frames(Tail(ps))
    <3>2. p \in Payloads /\ y \in Seq(Byte) /\ Frames(ps) = SlipSendPacket(p) \o y
      BY <3>1, FirstPayload, PayloadsTyped
    <3>3. p \in Packet /\ 0 \in 0..Len(p) /\ r \in Seq(Byte) /\ SlipSendPacket(p) = e \o r
      <4>1. p \in Packet /\ 0 \in 0..Len(p)
        BY <3>2, PayloadFacts
      <4> QED BY <4>1, RestType, FrameIsRest DEF e
    <3>4. r # <<>>
      <4>1. PICK s \in Seq(Plain) : r = s \o e
        BY <3>2, <3>3, RestPlain DEF e
      <4> QED BY <2>1, <4>1, PlainBytes, ConcatSimplifications!concIsEmpty
    <3> HIDE DEF r, y
    <3>5. (e \o r) \o y = e
      BY <2>5, <3>2, <3>3 DEF Between
    <3>6. Groups(e, r, y)
      BY <2>1, <3>2, <3>3, Group
    <3>7. r \o y \in Seq(Byte) /\ r \o y # <<>>
      BY <3>2, <3>3, <3>4, ConcatProperties, ConcatSimplifications!concIsEmpty
    <3>8. e \o (r \o y) = e
      BY <3>5, <3>6 DEF Groups
    <3> QED BY <2>1, <2>4, <3>7, <3>8
  <2>6. ASSUME NEW p \in Payloads, NEW i \in 0..Len(p), Within(e, b, ups, all, ps, p, i)
        PROVE  SameButOne(ups, all)
    <3> DEFINE r == Rest(p, i)
               y == Frames(ps)
    <3>1. r \o y = e /\ all = ups \o (Dispatch(p) \o Due(ps))
      BY <2>6 DEF Within
    <3>2. r \in Seq(Byte) /\ y \in Seq(Byte)
      BY PayloadFacts, RestType, PayloadsTyped
    <3>3. r # <<>>
      <4>1. PICK s \in Seq(Plain) : r = s \o e
        BY RestPlain DEF e
      <4> QED BY <2>1, <4>1, PlainBytes, ConcatSimplifications!concIsEmpty
    <3>4. y = <<>>
      <4> HIDE DEF r, y
      <4> QED BY <2>4, <3>1, <3>2, <3>3
    <3>5. Due(ps) = <<>>
      BY <3>4, NoFrames
    <3>6. Dispatch(p) \in AtMostOne
      BY PayloadFacts, DispatchAtMostOne
    <3> QED BY <1>2, <3>1, <3>5, <3>6
  <2> QED BY <2>3, <2>5, <2>6
<1> QED BY <1>1, <1>3, <1>4, <1>5 DEF OneLost

-----------------------------------------------------------------------------
(* What is handed on when no byte is lost, and when one is *)

LossInv ==
  /\ losses = 0 => Whole(Unread, inbuf, upcalls, Expected)
  /\ losses = 1 => OneLost(Unread, inbuf, upcalls, Expected)

OrderedInput == InputInv /\ LossInv

LEMMA UnreadType ==
  ASSUME InputInv
  PROVE  Unread \in Seq(Byte) /\ Expected \in Seq(Upcalls)
<1>1. inslip \in Seq(Byte) /\ line \in Seq(Byte) /\ framed \in Seq(Payloads)
  BY DEF InputInv
<1>2. Expected = Due(framed)
  BY <1>1, ExpectedIsDue DEF Expected
<1> QED BY <1>1, <1>2, ConcatProperties, PayloadsTyped DEF Unread

LEMMA ReadKeepsOrder ==
  ASSUME \A p \in Payloads : ReadWhole(p), InputInv, LossInv,
         NEW buf, buf = inbuf \/ buf = DropLarge(inbuf), Read(buf), UNCHANGED <<line, framed, losses>>
  PROVE  LossInv'
<1>1. /\ Unread \in Seq(Byte) /\ inbuf \in Seq(Byte) /\ upcalls \in Seq(Upcalls)
      /\ losses' = losses /\ Expected' = Expected
  BY UnreadType DEF InputInv, Expected
<1>2. Turn(Unread, Unread', buf, inbuf', upcalls, upcalls')
  BY ReadTurns
<1>3. buf \in Seq(Byte)
  BY <1>1, DropLargeMakesRoom
<1>4. CASE losses = 0
  <2>1. Whole(Unread, inbuf, upcalls, Expected)
    BY <1>4 DEF LossInv
  <2>2. buf = inbuf
    BY <2>1, WholeFits
  <2>3. Turn(Unread, Unread', inbuf, inbuf', upcalls, upcalls')
    BY <1>2, <2>2
  <2>4. Whole(Unread', inbuf', upcalls', Expected)
    BY <1>1, <2>1, <2>3, WholeTurn
  <2>5. Whole(Unread, inbuf, upcalls, Expected)'
    BY <1>1, <2>4
  <2> QED BY <1>1, <1>4, <2>5 DEF LossInv
<1>5. CASE losses = 1
  <2>1. OneLost(Unread, inbuf, upcalls, Expected)
    BY <1>5 DEF LossInv
  <2>2. OneLost(Unread, buf, upcalls, Expected)
    BY <2>1, OneLostDrop
  <2>3. OneLost(Unread', inbuf', upcalls', Expected)
    BY <1>1, <1>2, <1>3, <2>2, OneLostTurn
  <2>4. OneLost(Unread, inbuf, upcalls, Expected)'
    BY <1>1, <2>3
  <2> QED BY <1>1, <1>5, <2>4 DEF LossInv
<1>6. CASE losses # 0 /\ losses # 1
  BY <1>1, <1>6 DEF LossInv
<1> QED BY <1>4, <1>5, <1>6

LEMMA WriteKeepsOrder ==
  ASSUME InputInv, LossInv, NEW q \in Payloads, RadioWrites(q)
  PROVE  LossInv'
<1> DEFINE f == SlipSendPacket(q)
           d == Dispatch(q)
<1>1. /\ framed' = Append(framed, q) /\ line' = line \o f
      /\ UNCHANGED <<inslip, inbuf, upcalls, losses>>
  BY DEF RadioWrites
<1>2. /\ f \in Seq(Byte) /\ upcalls \in Seq(Upcalls)
      /\ line \in Seq(Byte) /\ inslip \in Seq(Byte) /\ framed \in Seq(Payloads)
  BY PayloadFacts DEF InputInv
<1>3. Unread' = Unread \o f
  <2>1. Unread' = inslip \o (line \o f)
    BY <1>1 DEF Unread
  <2> HIDE DEF f
  <2>2. inslip \o (line \o f) = (inslip \o line) \o f
    <3>1. Groups(inslip, line, f)
      BY <1>2, Group
    <3> QED BY <3>1 DEF Groups
  <2> QED BY <2>1, <2>2 DEF Unread
<1>4. Expected' = Expected \o d
  <2>1. framed' \in Seq(Payloads) /\ Due(framed') = Due(framed) \o d
    BY <1>1, <1>2, OneMorePayload, AppendProperties
  <2>2. Expected = Due(framed)
    BY <1>2, ExpectedIsDue DEF Expected
  <2>3. Expected' = Due(framed')
    <3>1. Expected' = FlattenSeq([k \in DOMAIN framed' |-> Dispatch(framed'[k])])
      BY DEF Expected
    <3> QED BY <2>1, <3>1, ExpectedIsDue
  <2> QED BY <2>1, <2>2, <2>3
<1>5. Unread \in Seq(Byte) /\ Expected \in Seq(Upcalls)
  BY UnreadType
<1>6. ASSUME losses = 0 PROVE Whole(Unread, inbuf, upcalls, Expected)'
  <2>1. Whole(Unread \o f, inbuf, upcalls, Expected \o d)
    BY <1>2, <1>6, WholeWrite DEF LossInv
  <2> HIDE DEF f, d
  <2>2. Whole(Unread', inbuf', upcalls', Expected')
    BY <1>1, <1>3, <1>4, <2>1
  <2> QED BY <2>2
<1>7. ASSUME losses = 1 PROVE OneLost(Unread, inbuf, upcalls, Expected)'
  <2>1. OneLost(Unread \o f, inbuf, upcalls, Expected \o d)
    BY <1>2, <1>5, <1>7, OneLostWrite DEF LossInv
  <2> HIDE DEF f, d
  <2>2. OneLost(Unread', inbuf', upcalls', Expected')
    BY <1>1, <1>3, <1>4, <2>1
  <2> QED BY <2>2
<1> QED BY <1>1, <1>6, <1>7 DEF LossInv

\* The byte at the head of the line is lost or arrives.
LEMMA HeadOfLine ==
  ASSUME InputInv, line # <<>>
  PROVE  /\ Append(inslip, Head(line)) \o Tail(line) = Unread
         /\ \E i \in 1..Len(Unread) : inslip \o Tail(line) = Less(Unread, i)
<1> DEFINE c == Head(line)
           x == Tail(line)
           o == <<c>>
<1>1. inslip \in Seq(Byte) /\ line \in Seq(Byte)
  BY DEF InputInv
<1>2. c \in Byte /\ x \in Seq(Byte) /\ o \in Seq(Byte) /\ line = o \o x
  BY <1>1, HeadTailProperties, HeadThenTail
<1>3. Append(inslip, c) = inslip \o o
  BY <1>1, <1>2, AppendIsConcat
<1>4. Len(o) = 1 /\ Less(o, 1) = <<>>
  BY LessOfOne
<1> HIDE DEF c, x, o
<1>5. Groups(inslip, o, x)
  BY <1>1, <1>2, Group
<1>6. Append(inslip, c) \o x = Unread
  BY <1>2, <1>3, <1>5 DEF Groups, Unread
<1>7. Less(line, 1) = x
  <2>1. 1 \in 1..Len(o)
    BY <1>4
  <2>2. Less(o \o x, 1) = Less(o, 1) \o x
    BY <1>2, <2>1, LessFirst
  <2>3. <<>> \o x = x
    BY <1>2, ConcatEmptySeq
  <2> QED BY <1>2, <1>4, <2>2, <2>3
<1>8. \E i \in 1..Len(Unread) : inslip \o x = Less(Unread, i)
  <2>1. Len(line) \in Nat \ {0} /\ Len(inslip) \in Nat
    BY <1>1, EmptySeq
  <2>2. 1 \in 1..Len(line)
    BY <2>1
  <2>3. Less(inslip \o line, Len(inslip) + 1) = inslip \o Less(line, 1)
    BY <1>1, <2>2, LessSecond
  <2>4. Len(inslip \o line) = Len(inslip) + Len(line)
    BY <1>1, ConcatProperties
  <2>5. Len(inslip) + 1 \in 1..Len(inslip \o line)
    BY <2>1, <2>4
  <2> QED BY <1>7, <2>3, <2>5 DEF Unread
<1> QED BY <1>6, <1>8 DEF c, x

LEMMA OrderInvariant ==
  ASSUME \A p \in Payloads : ReadWhole(p)
  PROVE  Spec => []OrderedInput
<1>1. Init => LossInv
  <2> SUFFICES ASSUME Init PROVE LossInv
    OBVIOUS
  <2>1. /\ line = <<>> /\ inslip = <<>> /\ inbuf = <<>> /\ upcalls = <<>> /\ framed = <<>>
        /\ losses = 0
    BY DEF Init
  <2>2. <<>> \in Seq(Payloads) /\ <<>> \in Seq(Byte) /\ <<>> \in Seq(Upcalls)
    OBVIOUS
  <2>3. Frames(<<>>) = <<>> /\ Due(<<>>) = <<>>
    BY FlatMapEmpty DEF Frames, Due
  <2>4. <<>> \o <<>> = <<>>
    BY <2>2, ConcatEmptySeq
  <2>5. Expected = Due(framed)
    BY <2>1, <2>2, ExpectedIsDue DEF Expected
  <2>6. Between(Unread, inbuf, upcalls, Expected, <<>>)
    BY <2>1, <2>3, <2>4, <2>5 DEF Between, Unread
  <2>7. Whole(Unread, inbuf, upcalls, Expected)
    BY <2>2, <2>6 DEF Whole
  <2> QED BY <2>1, <2>7 DEF LossInv
<1>2. InputInv /\ LossInv /\ [Next]_vars => LossInv'
  <2> SUFFICES ASSUME InputInv, LossInv, [Next]_vars PROVE LossInv'
    OBVIOUS
  <2>1. CASE EnterCall
    BY <2>1, ReadKeepsOrder DEF EnterCall
  <2>2. CASE ReadMore
    BY <2>2, ReadKeepsOrder DEF ReadMore
  <2>3. ASSUME Unread' = Unread, UNCHANGED <<upcalls, framed, losses>>,
               inbuf' = inbuf \/ inbuf' = DropLarge(inbuf)
        PROVE  LossInv'
    <3>1. Expected' = Expected
      BY <2>3 DEF Expected
    <3>2. ASSUME losses = 0 PROVE Whole(Unread, inbuf, upcalls, Expected)'
      <4>1. Whole(Unread, inbuf, upcalls, Expected)
        BY <3>2 DEF LossInv
      <4>2. inbuf' = inbuf
        BY <2>3, <4>1, WholeFits
      <4>3. Whole(Unread', inbuf', upcalls', Expected')
        BY <2>3, <3>1, <4>1, <4>2
      <4> QED BY <4>3
    <3>3. ASSUME losses = 1 PROVE OneLost(Unread, inbuf, upcalls, Expected)'
      <4>1. OneLost(Unread, inbuf, upcalls, Expected)
        BY <3>3 DEF LossInv
      <4>2. OneLost(Unread, DropLarge(inbuf), upcalls, Expected)
        BY <4>1, OneLostDrop
      <4>3. OneLost(Unread', inbuf', upcalls', Expected')
        BY <2>3, <3>1, <4>1, <4>2
      <4> QED BY <4>3
    <3> QED BY <2>3, <3>2, <3>3 DEF LossInv
  <2>4. CASE LeaveCall
    BY <2>3, <2>4 DEF LeaveCall, Unread
  <2>5. CASE HangUp
    BY <2>3, <2>5 DEF HangUp, Unread
  <2>6. ASSUME NEW p \in Payloads, RadioWrites(p) PROVE LossInv'
    BY <2>6, WriteKeepsOrder
  <2>7. CASE Arrive
    <3>1. Unread' = Unread
      <4>1. Append(inslip, Head(line)) \o Tail(line) = Unread
        BY <2>7, HeadOfLine DEF Arrive
      <4>2. Unread' = Append(inslip, Head(line)) \o Tail(line)
        BY <2>7 DEF Arrive, Unread
      <4> QED BY <4>1, <4>2
    <3> QED BY <2>3, <2>7, <3>1 DEF Arrive
  <2>8. CASE LoseByte
    <3>1. line # <<>> /\ losses' = losses + 1 /\ UNCHANGED <<inbuf, upcalls, framed>>
      BY <2>8 DEF LoseByte
    <3>2. PICK i \in 1..Len(Unread) : inslip \o Tail(line) = Less(Unread, i)
      BY <3>1, HeadOfLine
    <3>3. Unread' = Less(Unread, i)
      BY <2>8, <3>2 DEF LoseByte, Unread
    <3>4. Expected' = Expected /\ upcalls \in Seq(Upcalls) /\ losses \in Nat
      BY <3>1, InputSizesAssumption DEF InputInv, Expected
    <3>5. ASSUME losses = 0 PROVE OneLost(Unread, inbuf, upcalls, Expected)'
      <4>1. Whole(Unread, inbuf, upcalls, Expected)
        BY <3>5 DEF LossInv
      <4>2. OneLost(Less(Unread, i), inbuf, upcalls, Expected)
        BY <3>4, <4>1, WholeLoses
      <4>3. OneLost(Unread', inbuf', upcalls', Expected')
        BY <3>1, <3>3, <3>4, <4>2
      <4> QED BY <4>3
    <3>6. losses' # 0 /\ (losses' = 1 => losses = 0)
      BY <3>1, <3>4
    <3> QED BY <3>5, <3>6 DEF LossInv
  <2>9. CASE UNCHANGED vars
    BY <2>3, <2>9 DEF vars, Unread
  <2> QED BY <2>1, <2>2, <2>4, <2>5, <2>6, <2>7, <2>8, <2>9 DEF Next
<1>3. OrderedInput <=> InputInv /\ LossInv
  BY DEF OrderedInput
<1> QED BY <1>1, <1>2, <1>3, InputInvariant, PTL DEF Spec

\* On a line that loses nothing serial_input() hands the frames on whole, once
\* and in order, wherever its calls begin and end, if inbuf holds each of them
\* and none is taken for a line to print.
THEOREM FramesStayInOrder ==
  ASSUME \A p \in Payloads : ReadWhole(p)
  PROVE  Spec => []FramesInOrder
<1>1. OrderedInput => FramesInOrder
  <2> SUFFICES ASSUME InputInv, LossInv, losses = 0 PROVE IsPrefix(upcalls, Expected)
    BY DEF OrderedInput, FramesInOrder
  <2>1. upcalls \in Seq(Upcalls)
    BY DEF InputInv
  <2>2. PICK u \in Seq(Upcalls) : Expected = upcalls \o u
    <3>1. PICK ps \in Seq(Payloads) :
            \/ Between(Unread, inbuf, upcalls, Expected, ps)
            \/ \E p \in Payloads : \E i \in 0..Len(p) :
                 Within(Unread, inbuf, upcalls, Expected, ps, p, i)
      BY DEF LossInv, Whole
    <3>2. Due(ps) \in Seq(Upcalls)
      BY PayloadsTyped
    <3>3. CASE Between(Unread, inbuf, upcalls, Expected, ps)
      BY <3>2, <3>3 DEF Between
    <3>4. CASE \E p \in Payloads : \E i \in 0..Len(p) :
                 Within(Unread, inbuf, upcalls, Expected, ps, p, i)
      <4>1. PICK p \in Payloads : Expected = upcalls \o (Dispatch(p) \o Due(ps))
        BY <3>4 DEF Within
      <4>2. Dispatch(p) \o Due(ps) \in Seq(Upcalls)
        BY <3>2, PayloadFacts, ConcatProperties
      <4> QED BY <4>1, <4>2
    <3> QED BY <3>1, <3>3, <3>4
  <2>3. Len(upcalls) <= Len(Expected) /\ SubSeq(Expected, 1, Len(upcalls)) = upcalls
    <3>1. /\ Len(upcalls \o u) = Len(upcalls) + Len(u)
          /\ SubSeq(upcalls \o u, 1, Len(upcalls)) = upcalls
      BY <2>1, ConcatParts
    <3>2. Len(upcalls) \in Nat /\ Len(u) \in Nat
      BY <2>1, LenProperties
    <3> QED BY <2>2, <3>1, <3>2
  <2>4. SubSeq(upcalls, 1, Len(upcalls)) = upcalls
    BY <2>1, SubSeqFull
  <2> QED BY <2>3, <2>4 DEF IsPrefix
<1> QED BY <1>1, OrderInvariant, PTL

\* When everything that arrived was read, what the SLIP_END branch does with each
\* payload written was done: requests are skipped, and text is printed there at
\* verbosity 1 only.  What ReadWhole asks is what the run with a newline in a
\* report violates.
THEOREM FramesAllDelivered ==
  ASSUME \A p \in Payloads : ReadWhole(p)
  PROVE  Spec => []FramesDelivered
<1>1. OrderedInput => FramesDelivered
  <2> SUFFICES ASSUME InputInv, LossInv, losses = 0, Quiescent PROVE upcalls = Expected
    BY DEF OrderedInput, FramesDelivered
  <2>1. Unread = <<>>
    <3>1. line = <<>> /\ inslip = <<>> /\ <<>> \in Seq(Byte)
      BY DEF Quiescent
    <3> QED BY <3>1, ConcatEmptySeq DEF Unread
  <2> QED BY <2>1, WholeEmpty DEF InputInv, LossInv
<1> QED BY <1>1, OrderInvariant, PTL

\* A byte the line loses, wherever it is, costs no more than one frame: what is
\* handed on differs from what was written in one upcall, when all was read.
THEOREM OneLossHurtsOne ==
  ASSUME \A p \in Payloads : ReadWhole(p)
  PROVE  Spec => []OneLossOneFrame
<1>1. OrderedInput => OneLossOneFrame
  <2> SUFFICES ASSUME InputInv, LossInv, losses <= 1, Quiescent
               PROVE  SameButOne(upcalls, Expected)
    BY DEF OrderedInput, OneLossOneFrame
  <2>1. Unread = <<>>
    <3>1. line = <<>> /\ inslip = <<>> /\ <<>> \in Seq(Byte)
      BY DEF Quiescent
    <3> QED BY <3>1, ConcatEmptySeq DEF Unread
  <2>2. upcalls \in Seq(Upcalls) /\ losses \in Nat
    BY InputSizesAssumption DEF InputInv
  <2>3. CASE losses = 0
    <3>1. upcalls = Expected
      BY <2>1, <2>2, <2>3, WholeEmpty DEF LossInv
    <3>2. <<>> \in Seq(Upcalls)
      OBVIOUS
    <3>3. <<>> \o <<>> = <<>> /\ upcalls \o <<>> = upcalls
      BY <2>2, <3>2, ConcatEmptySeq
    <3>4. upcalls = upcalls \o (<<>> \o <<>>) /\ Expected = upcalls \o (<<>> \o <<>>)
      BY <3>1, <3>3
    <3> QED BY <2>2, <3>2, <3>4, NoneAtMostOne, SameButOnePart
  <2>4. CASE losses = 1
    BY <2>1, <2>2, <2>4, OneLostRead DEF LossInv
  <2>5. losses = 0 \/ losses = 1
    BY <2>2
  <2> QED BY <2>3, <2>4, <2>5
<1> QED BY <1>1, OrderInvariant, PTL
=============================================================================
