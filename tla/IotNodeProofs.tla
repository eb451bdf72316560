--------------------------- MODULE IotNodeProofs ----------------------------
(* Theorems about the sensor node, for every set of readings.                *)
EXTENDS IotNode, SequenceTheorems, TLAPS

\* A LED vector that shows one colour for each sensor and none for the fourth.
Coloured(v) ==
  /\ \A g \in {0, 3, 6} : \E c \in 0..2 : \A i \in 0..2 : v[g + i] = (i = c)
  /\ \A i \in 9..11 : ~v[i]

RingInv ==
  /\ recent \in Seq(Batteries) /\ Len(recent) <= 5
  /\ RingHoldsRecent

NodeInv == TypeOK /\ OneColour /\ LastPacketCurrent /\ RingInv
-----------------------------------------------------------------------------
(* The LED vector *)

LEMMA ColourType ==
  ASSUME NEW v \in [Slots -> BOOLEAN], NEW g \in {0, 3, 6}, NEW slot \in 0..3
  PROVE  Colour(v, g, slot) \in [Slots -> BOOLEAN]
<1>1. CASE slot = Keep
  BY <1>1 DEF Colour
<1>2. CASE slot # Keep
  <2>1. \A i \in Slots :
          (IF i \in g..(g + 2) THEN i = g + slot ELSE v[i]) \in BOOLEAN
    OBVIOUS
  <2> QED BY <1>2, <2>1 DEF Colour
<1> QED BY <1>1, <1>2

\* Setting the colour of a group leaves one colour in every group.
LEMMA ColourKeepsColoured ==
  ASSUME NEW v \in [Slots -> BOOLEAN], NEW g \in {0, 3, 6}, NEW slot \in 0..3,
         Coloured(v)
  PROVE  Coloured(Colour(v, g, slot))
<1>1. CASE slot = Keep
  BY <1>1 DEF Colour
<1>2. CASE slot # Keep
  <2> DEFINE w == Colour(v, g, slot)
  <2>1. slot \in 0..2
    BY <1>2 DEF Keep
  <2>2. \A i \in Slots : w[i] = IF i \in g..(g + 2) THEN i = g + slot ELSE v[i]
    BY <1>2 DEF Colour
  <2> HIDE DEF w
  <2>3. ASSUME NEW h \in {0, 3, 6}
        PROVE  \E c \in 0..2 : \A i \in 0..2 : w[h + i] = (i = c)
    <3>1. CASE h = g
      <4>1. \A i \in 0..2 : g + i \in Slots /\ g + i \in g..(g + 2)
        BY DEF Slots
      <4>2. \A i \in 0..2 : w[g + i] = (g + i = g + slot)
        BY <2>2, <4>1
      <4>3. \A i \in 0..2 : (g + i = g + slot) = (i = slot)
        BY <2>1
      <4> QED BY <2>1, <3>1, <4>2, <4>3
    <3>2. CASE h # g
      <4>1. \A i \in 0..2 : h + i \in Slots /\ h + i \notin g..(g + 2)
        BY <3>2 DEF Slots
      <4>2. \A i \in 0..2 : w[h + i] = v[h + i]
        BY <2>2, <4>1
      <4>3. PICK c \in 0..2 : \A i \in 0..2 : v[h + i] = (i = c)
        BY DEF Coloured
      <4> QED BY <4>2, <4>3
    <3> QED BY <3>1, <3>2
  <2>4. ASSUME NEW i \in 9..11
        PROVE  ~w[i]
    <3>1. i \in Slots /\ i \notin g..(g + 2)
      BY DEF Slots
    <3> QED BY <2>2, <3>1 DEF Coloured
  <2> QED BY <2>3, <2>4 DEF Coloured, w
<1> QED BY <1>1, <1>2

LEMMA SlotTypes ==
  /\ \A t : TmpSlot(t) \in 0..3
  /\ \A h : HumSlot(h) \in 0..3
  /\ \A t : AvacAfterTmp(t) \in {avac, TRUE, FALSE}
  /\ \A t, h : AvacAfterHum(t, h) \in {avac, TRUE, FALSE}
<1>1. \A t : TmpSlot(t) \in 0..3
  BY DEF TmpSlot, Keep
<1>2. \A h : HumSlot(h) \in 0..3
  BY DEF HumSlot, Keep
<1>3. \A t : AvacAfterTmp(t) \in {avac, TRUE, FALSE}
  BY DEF AvacAfterTmp
<1>4. \A t, h : AvacAfterHum(t, h) \in {avac, TRUE, FALSE}
  BY <1>3 DEF AvacAfterHum
<1> QED BY <1>1, <1>2, <1>3, <1>4

LEMMA LedOfType == \A i \in Slots : LedOf(i) \in {1, 2, 4}
<1>1. \A i \in 0..11 : i % 3 \in 0..2
  OBVIOUS
<1> QED BY <1>1 DEF LedOf, Slots

\* A group of a coloured vector shows one LED at most.
LEMMA ShownOne ==
  ASSUME Coloured(leds), NEW g \in Groups
  PROVE  Shown(g) \subseteq {1, 2, 4} /\ \A l, m \in Shown(g) : l = m
<1>1. \A i \in g..(g + 2) : i \in Slots
  BY DEF Groups, Slots
<1>2. Shown(g) \subseteq {1, 2, 4}
  BY <1>1, LedOfType DEF Shown
<1>3. \A i, j \in g..(g + 2) : leds[i] /\ leds[j] => i = j
  <2>1. CASE g = 9
    BY <2>1 DEF Coloured
  <2>2. CASE g \in {0, 3, 6}
    <3>1. PICK c \in 0..2 : \A i \in 0..2 : leds[g + i] = (i = c)
      BY <2>2 DEF Coloured
    <3>2. \A i \in g..(g + 2) : i - g \in 0..2 /\ g + (i - g) = i
      BY <2>2
    <3>3. \A i \in g..(g + 2) : leds[i] = (i - g = c)
      BY <3>1, <3>2
    <3>4. ASSUME NEW i \in g..(g + 2), leds[i]
          PROVE  i = g + c
      <4>1. i - g = c
        BY <3>3, <3>4
      <4> QED BY <2>2, <4>1
    <3>5. SUFFICES ASSUME NEW i \in g..(g + 2), NEW j \in g..(g + 2), leds[i], leds[j]
                   PROVE  i = j
      OBVIOUS
    <3> QED BY <3>4, <3>5
  <2> QED BY <2>1, <2>2 DEF Groups
<1> QED BY <1>2, <1>3 DEF Shown

-----------------------------------------------------------------------------
(* The light *)

\* What is stored of a reading is less than one lux off it.
LEMMA LuxClose ==
  ASSUME NEW k \in 0..65
  PROVE  /\ Lux(k) \in 0..1000 \cup {InfiniteLux}
         /\ k > 0 => ~AtLeastOneFrom(Lux(k), k)
<1>1. CASE k = 0
  BY <1>1 DEF Lux
<1>2. CASE k > 0
  <2> DEFINE q == 1000 \div k
             r == 1000 % k
  <2>1. q \in Int /\ r \in 0..(k - 1) /\ 1000 = k * q + r
    BY <1>2
  <2>2. q \in 0..1000
    BY <1>2
  <2>3. Lux(k) = q /\ q * k = 1000 - r
    <3>1. Lux(k) = q
      BY <1>2 DEF Lux
    <3>2. q * k = k * q
      BY <1>2, <2>1
    <3> QED BY <2>1, <3>1, <3>2
  <2> HIDE DEF q, r
  <2> QED BY <1>2, <2>1, <2>2, <2>3 DEF AtLeastOneFrom
<1> QED BY <1>1, <1>2

-----------------------------------------------------------------------------
(* The processes *)

LEMMA UnchangedKeeps ==
  /\ RingInv /\ UNCHANGED power => RingInv'
  /\ OneColour /\ UNCHANGED <<lit, ledsPc>> /\ Coloured(leds') => OneColour'
<1>1. RingInv /\ UNCHANGED power => RingInv'
  BY DEF RingInv, RingHoldsRecent, power
<1>2. OneColour /\ UNCHANGED <<lit, ledsPc>> /\ Coloured(leds') => OneColour'
  BY DEF OneColour, Coloured
<1> QED BY <1>1, <1>2

\* A light that changed is sent as it is stored; one that did not is close to
\* what was sent.
LEMMA LightReadKeeps ==
  ASSUME NodeInv, NEW k \in LdrReadings, LightRead(k)
  PROVE  NodeInv'
<1>0. TypeOK /\ OneColour /\ LastPacketCurrent /\ RingInv /\ k \in 0..65
  BY LightAssumption DEF NodeInv
<1>1. PICK slot \in 0..2 : leds' = Colour(leds, 0, slot)
  BY DEF LightRead
<1>2. leds' \in [Slots -> BOOLEAN] /\ Coloured(leds')
  <2>1. leds \in [Slots -> BOOLEAN] /\ Coloured(leds) /\ slot \in 0..3
    BY <1>0 DEF TypeOK, OneColour, Coloured
  <2> QED BY <1>1, <2>1, ColourType, ColourKeepsColoured
<1>3. RingInv' /\ OneColour'
  BY <1>0, <1>2, UnchangedKeeps DEF LightRead, display
<1>4. lux_last' \in 0..1000 \cup {InfiniteLux} /\ LastPacketCurrent'
  <2>0. PICK changed \in Changed(lux_last, k) :
          /\ lux_last' = IF changed THEN Lux(k) ELSE lux_last
          /\ packet' = IF changed THEN Message(light, avac, Lux(k), tmp_last, hum_last)
                       ELSE packet
    BY DEF LightRead
  <2>1. /\ packet.value2 = tmp_last /\ packet.value3 = hum_last
        /\ packet.value4 = lux_last
        /\ lux_last \in 0..1000 \cup {InfiniteLux}
    BY <1>0 DEF LastPacketCurrent, TypeOK
  <2>2. ldr' = k /\ tmp_last' = tmp_last /\ hum_last' = hum_last
    BY DEF LightRead
  <2>3. CASE changed
    <3>1. /\ lux_last' = Lux(k)
          /\ packet' = Message(light, avac, Lux(k), tmp_last, hum_last)
      BY <2>0, <2>3
    <3>2. k > 0 => ~AtLeastOneFrom(lux_last', k)
      BY <1>0, <3>1, LuxClose
    <3>3. k > 0 => ~AtLeastOneFrom(lux_last, ldr)'
      BY <2>2, <3>2 DEF AtLeastOneFrom
    <3>4. /\ packet'.value2 = tmp_last /\ packet'.value3 = hum_last
          /\ packet'.value4 = Lux(k)
      BY <3>1 DEF Message
    <3>5. Lux(k) \in 0..1000 \cup {InfiniteLux}
      BY <1>0, LuxClose
    <3> QED BY <2>2, <3>1, <3>3, <3>4, <3>5 DEF LastPacketCurrent
  <2>4. CASE ~changed
    <3>1. lux_last' = lux_last /\ packet' = packet
      BY <2>0, <2>4
    <3>2. (lux_last # InfiniteLux => ~AtLeastOneFrom(lux_last, ldr))'
      <4>1. lux_last # InfiniteLux => ~AtLeastOneFrom(lux_last, k)
        BY <2>0, <2>4 DEF Changed
      <4> QED BY <2>2, <3>1, <4>1 DEF AtLeastOneFrom
    <3> QED BY <2>1, <2>2, <3>1, <3>2 DEF LastPacketCurrent
  <2> QED BY <2>3, <2>4
<1>5. TypeOK'
  <2>1. light' \in BOOLEAN
    BY <1>0 DEF LightRead, TypeOK
  <2>2. ldr' = k /\ sent' \in 0..2
    BY DEF LightRead
  <2>3. UNCHANGED <<lchoose, batread, bati, up, tmp_last, hum_last, avac, lightUp, ledsPc, lit>>
    BY DEF LightRead, power, display
  <2> QED BY <1>0, <1>2, <1>4, <2>1, <2>2, <2>3 DEF TypeOK
<1> QED BY <1>3, <1>4, <1>5 DEF NodeInv

\* Whatever changed, the last packet of the pass has both readings.
LEMMA DhtReadKeeps ==
  ASSUME NodeInv, NEW t \in Temperatures, NEW h \in Humidities, DhtRead(t, h)
  PROVE  NodeInv'
<1>0. TypeOK /\ OneColour /\ LastPacketCurrent /\ RingInv
  BY DEF NodeInv
<1>1. UNCHANGED <<lux_last, light, lightUp, ldr, power, display>>
  BY DEF DhtRead
<1>2. leds' \in [Slots -> BOOLEAN] /\ Coloured(leds')
  <2>1. leds \in [Slots -> BOOLEAN] /\ Coloured(leds)
    BY <1>0 DEF TypeOK, OneColour, Coloured
  <2> DEFINE v == Colour(leds, 3, TmpSlot(t))
  <2>2. v \in [Slots -> BOOLEAN] /\ Coloured(v)
    BY <2>1, SlotTypes, ColourType, ColourKeepsColoured
  <2>3. leds' = Colour(v, 6, HumSlot(h))
    BY DEF DhtRead
  <2> HIDE DEF v
  <2> QED BY <2>2, <2>3, SlotTypes, ColourType, ColourKeepsColoured
<1>3. RingInv' /\ OneColour'
  BY <1>0, <1>1, <1>2, UnchangedKeeps DEF display
<1>4. LastPacketCurrent'
  <2>1. /\ packet.value2 = tmp_last /\ packet.value3 = hum_last
        /\ packet.value4 = lux_last
        /\ ldr > 0 /\ lux_last # InfiniteLux => ~AtLeastOneFrom(lux_last, ldr)
    BY <1>0 DEF LastPacketCurrent
  <2>2. tmp_last' = t /\ hum_last' = h
    BY DEF DhtRead
  <2>3. /\ packet'.value2 = t /\ packet'.value3 = h /\ packet'.value4 = lux_last
    <3>1. CASE h # hum_last
      BY <3>1 DEF DhtRead, Message
    <3>2. CASE h = hum_last /\ t # tmp_last
      BY <3>2 DEF DhtRead, Message
    <3>3. CASE h = hum_last /\ t = tmp_last
      BY <2>1, <3>3 DEF DhtRead
    <3> QED BY <3>1, <3>2, <3>3
  <2>4. (ldr > 0 /\ lux_last # InfiniteLux => ~AtLeastOneFrom(lux_last, ldr))'
    BY <1>1, <2>1 DEF AtLeastOneFrom
  <2> QED BY <1>1, <2>2, <2>3, <2>4 DEF LastPacketCurrent
<1>5. TypeOK'
  <2>1. avac' \in BOOLEAN
    BY <1>0, SlotTypes DEF DhtRead, TypeOK
  <2>2. sent' \in 0..2 /\ tmp_last' = t /\ hum_last' = h
    BY DEF DhtRead
  <2> QED BY <1>0, <1>1, <1>2, <2>1, <2>2 DEF TypeOK, power, display
<1> QED BY <1>3, <1>4, <1>5 DEF NodeInv

LEMMA Mod5 == \A x \in 0..9 : x % 5 = IF x < 5 THEN x ELSE x - 5
OBVIOUS

\* Where the ring has the reading k of n that are kept when b is written next.
Place(b, n, k) == (b + 5 - n + k - 1) % 5

\* The place written next, once it moved on.
NextPlace(b) == IF b > 3 THEN 0 ELSE b + 1

LEMMA PlaceOf ==
  ASSUME NEW b \in 0..4, NEW n \in 0..5, NEW k \in 1..5, k <= n
  PROVE  /\ Place(b, n, k) \in 0..4
         /\ Place(b, n, k) = IF b + 5 - n + k - 1 < 5 THEN b + 5 - n + k - 1
                                                      ELSE b + 5 - n + k - 1 - 5
<1>1. PICK x \in 0..9 : x = b + 5 - n + k - 1
  OBVIOUS
<1>2. Place(b, n, k) = IF x < 5 THEN x ELSE x - 5
  BY <1>1, Mod5 DEF Place
<1> QED BY <1>1, <1>2

\* A ring that is not full: the readings stay, none where one is written.
LEMMA PlacesStay ==
  ASSUME NEW b \in 0..4, NEW n \in 0..4, NEW k \in 1..n
  PROVE  Place(NextPlace(b), n + 1, k) = Place(b, n, k) /\ Place(b, n, k) # b
<1>1. PICK c \in 0..4 : c = NextPlace(b)
  BY DEF NextPlace
<1>2. k \in 1..5 /\ k <= n /\ k <= n + 1 /\ n \in 0..5 /\ n + 1 \in 0..5
  OBVIOUS
<1>3. Place(b, n, k) = IF b + 5 - n + k - 1 < 5 THEN b + 5 - n + k - 1
                                                ELSE b + 5 - n + k - 1 - 5
  BY <1>2, PlaceOf
<1>4. Place(c, n + 1, k)
        = IF c + 5 - (n + 1) + k - 1 < 5 THEN c + 5 - (n + 1) + k - 1
                                         ELSE c + 5 - (n + 1) + k - 1 - 5
  BY <1>2, PlaceOf
<1>5. c = IF b > 3 THEN 0 ELSE b + 1
  BY <1>1 DEF NextPlace
<1>6. Place(c, n + 1, k) = Place(b, n, k) /\ Place(b, n, k) # b
  BY <1>3, <1>4, <1>5
<1> QED BY <1>1, <1>6

\* A full ring: every reading but the oldest stays, and becomes one place older.
LEMMA PlacesAge ==
  ASSUME NEW b \in 0..4, NEW k \in 1..4
  PROVE  Place(NextPlace(b), 5, k) = Place(b, 5, k + 1) /\ Place(b, 5, k + 1) # b
<1>1. PICK c \in 0..4 : c = NextPlace(b)
  BY DEF NextPlace
<1>2. k \in 1..5 /\ k <= 5 /\ k + 1 \in 1..5 /\ k + 1 <= 5 /\ 5 \in 0..5
  OBVIOUS
<1>3. Place(b, 5, k + 1) = IF b + 5 - 5 + (k + 1) - 1 < 5 THEN b + 5 - 5 + (k + 1) - 1
                                                          ELSE b + 5 - 5 + (k + 1) - 1 - 5
  BY <1>2, PlaceOf
<1>4. Place(c, 5, k) = IF c + 5 - 5 + k - 1 < 5 THEN c + 5 - 5 + k - 1
                                                ELSE c + 5 - 5 + k - 1 - 5
  BY <1>2, PlaceOf
<1>5. c = IF b > 3 THEN 0 ELSE b + 1
  BY <1>1 DEF NextPlace
<1>6. Place(c, 5, k) = Place(b, 5, k + 1) /\ Place(b, 5, k + 1) # b
  BY <1>3, <1>4, <1>5
<1> QED BY <1>1, <1>6

\* The place just written is that of the latest reading.
LEMMA PlaceWritten ==
  ASSUME NEW b \in 0..4, NEW n \in 1..5
  PROVE  Place(NextPlace(b), n, n) = b
<1>1. PICK c \in 0..4 : c = NextPlace(b)
  BY DEF NextPlace
<1>2. Place(c, n, n) = IF c + 5 - n + n - 1 < 5 THEN c + 5 - n + n - 1
                                                ELSE c + 5 - n + n - 1 - 5
  <2>1. n \in 0..5 /\ n \in 1..5 /\ n <= n
    OBVIOUS
  <2> QED BY <2>1, PlaceOf
<1>3. c = IF b > 3 THEN 0 ELSE b + 1
  BY <1>1 DEF NextPlace
<1>4. Place(c, n, n) = b
  BY <1>2, <1>3
<1> QED BY <1>1, <1>4

\* The new reading takes the place of the oldest.
LEMMA RingKept ==
  ASSUME RingInv, TypeOK, NEW b \in Batteries, BatteryRead(b)
  PROVE  RingInv'
<1> DEFINE n == Len(recent)
           m == Len(recent')
           At(k) == Place(bati, n, k)
           AtNext(k) == Place(bati', m, k)
<1>1. n \in 0..5
  <2>1. n \in Nat /\ n <= 5
    BY LenProperties, Zenon DEF RingInv
  <2> HIDE DEF n
  <2> QED BY <2>1
<1>2. /\ batread'[bati] = b
      /\ \A j \in 0..4 : j # bati => batread'[j] = batread[j]
      /\ bati \in 0..4 /\ bati' = NextPlace(bati)
  BY DEF BatteryRead, TypeOK, NextPlace
<1>3. recent \in Seq(Batteries) /\ \A k \in 1..n : batread[At(k)] = recent[k]
  BY DEF RingInv, RingHoldsRecent, Place
<1>4. SUFFICES /\ recent' \in Seq(Batteries) /\ m <= 5
               /\ \A k \in 1..m : batread'[AtNext(k)] = recent'[k]
  BY DEF RingInv, RingHoldsRecent, Place
<1>5. CASE n = 5
  <2> DEFINE t == Tail(recent)
  <2>1. /\ t \in Seq(Batteries) /\ Len(t) = 4
        /\ \A k \in 1..4 : t[k] = recent[k + 1]
    <3>1. recent # <<>>
      BY <1>5, EmptySeq
    <3>2. /\ t \in Seq(Batteries) /\ Len(t) = n - 1
          /\ \A k \in 1..Len(t) : t[k] = recent[k + 1]
      BY <1>3, <3>1, HeadTailProperties, Zenon
    <3>3. Len(t) = 4
      BY <1>5, <3>2
    <3> QED BY <3>2, <3>3, Zenon
  <2>2. recent' = t \o <<b>>
    BY <1>5 DEF BatteryRead
  <2> HIDE DEF t
  <2>3. recent' = Append(t, b)
    BY <2>1, <2>2, AppendIsConcat
  <2>4. /\ recent' \in Seq(Batteries) /\ m = 5 /\ recent'[5] = b
        /\ \A k \in 1..4 : recent'[k] = t[k]
    <3>1. /\ recent' \in Seq(Batteries) /\ m = Len(t) + 1 /\ recent'[Len(t) + 1] = b
          /\ \A k \in 1..Len(t) : recent'[k] = t[k]
      <4>1. /\ Append(t, b) \in Seq(Batteries) /\ Len(Append(t, b)) = Len(t) + 1
            /\ Append(t, b)[Len(t) + 1] = b
            /\ \A k \in 1..Len(t) : Append(t, b)[k] = t[k]
        <5>1. t \in Seq(Batteries)
          BY <2>1
        <5> QED BY <5>1, AppendProperties
      <4> QED BY <2>3, <4>1, Zenon
    <3>2. Len(t) + 1 = 5
      BY <2>1
    <3> QED BY <2>1, <3>1, <3>2, Zenon
  <2>5. ASSUME NEW k \in 1..4
        PROVE  batread'[AtNext(k)] = recent'[k]
    <3>1. k + 1 \in 1..5 /\ k + 1 > 1 /\ (k + 1) - 1 = k
      OBVIOUS
    <3>2. AtNext(k) = At(k + 1) /\ At(k + 1) \in 0..4 /\ At(k + 1) # bati
      <4>1. Place(NextPlace(bati), 5, k) = Place(bati, 5, k + 1) /\ Place(bati, 5, k + 1) # bati
        BY <1>2, PlacesAge
      <4>2. Place(bati, 5, k + 1) \in 0..4
        BY <1>2, <3>1, PlaceOf
      <4> QED BY <1>2, <1>5, <2>4, <4>1, <4>2, Zenon
    <3>3. batread'[At(k + 1)] = recent[k + 1]
      <4>1. k + 1 \in 1..n
        BY <1>5
      <4> HIDE DEF At
      <4> QED BY <1>2, <1>3, <3>2, <4>1
    <3> QED BY <2>1, <2>4, <3>2, <3>3
  <2>6. AtNext(5) = bati
    <3>1. Place(NextPlace(bati), 5, 5) = bati
      BY <1>2, PlaceWritten
    <3> QED BY <1>2, <2>4, <3>1, Zenon
  <2>7. \A k \in 1..5 : k \in 1..4 \/ k = 5
    OBVIOUS
  <2> HIDE DEF AtNext
  <2> QED BY <1>2, <2>4, <2>5, <2>6, <2>7
<1>6. CASE n < 5
  <2>1. recent' = Append(recent, b)
    <3>1. recent' = recent \o <<b>>
      <4>1. n # 5
        BY <1>6
      <4> QED BY <4>1 DEF BatteryRead
    <3> QED BY <1>3, <3>1, AppendIsConcat
  <2>2. /\ recent' \in Seq(Batteries) /\ m = n + 1 /\ recent'[n + 1] = b
        /\ \A k \in 1..n : recent'[k] = recent[k]
    BY <1>3, <2>1, AppendProperties
  <2> HIDE DEF m, n
  <2>3. ASSUME NEW k \in 1..n
        PROVE  batread'[AtNext(k)] = recent'[k]
    <3>1. k \in 1..5 /\ k <= n
      BY <1>1
    <3>2. AtNext(k) = At(k) /\ At(k) \in 0..4 /\ At(k) # bati
      <4>1. n \in 0..4 /\ n \in 0..5
        BY <1>1, <1>6
      <4>2. Place(NextPlace(bati), n + 1, k) = Place(bati, n, k) /\ Place(bati, n, k) # bati
        BY <1>2, <4>1, PlacesStay
      <4>3. Place(bati, n, k) \in 0..4
        BY <1>2, <3>1, <4>1, PlaceOf
      <4> QED BY <1>2, <2>2, <4>2, <4>3, Zenon
    <3>3. batread'[At(k)] = recent[k]
      <4> HIDE DEF At
      <4> QED BY <1>2, <1>3, <3>2
    <3> QED BY <2>2, <3>2, <3>3
  <2>4. AtNext(n + 1) = bati
    <3>1. n + 1 \in 1..5
      BY <1>1, <1>6
    <3>2. Place(NextPlace(bati), n + 1, n + 1) = bati
      BY <1>2, <3>1, PlaceWritten
    <3> QED BY <1>2, <2>2, <3>2, Zenon
  <2>5. \A k \in 1..(n + 1) : k \in 1..n \/ k = n + 1
    BY <1>1
  <2>6. n + 1 <= 5
    BY <1>1, <1>6
  <2> HIDE DEF AtNext
  <2> QED BY <1>2, <2>2, <2>3, <2>4, <2>5, <2>6
<1>7. n = 5 \/ n < 5
  <2> HIDE DEF n
  <2> QED BY <1>1
<1> QED BY <1>5, <1>6, <1>7, Zenon

\* The battery's colour goes to the temperature's group, its reading on the ring.
LEMMA BatteryReadKeeps ==
  ASSUME NodeInv, NEW b \in Batteries, BatteryRead(b)
  PROVE  NodeInv'
<1>0. TypeOK /\ OneColour /\ LastPacketCurrent /\ RingInv
  BY DEF NodeInv
<1>1. UNCHANGED <<readings, packet, display, up>>
  BY DEF BatteryRead
<1>2. leds' \in [Slots -> BOOLEAN] /\ Coloured(leds')
  <2>1. leds \in [Slots -> BOOLEAN] /\ Coloured(leds)
    BY <1>0 DEF TypeOK, OneColour, Coloured
  <2>2. PICK slot \in 0..2 : leds' = Colour(leds, 3, slot)
    BY DEF BatteryRead
  <2>3. slot \in 0..3
    OBVIOUS
  <2> QED BY <2>1, <2>2, <2>3, ColourType, ColourKeepsColoured
<1>3. OneColour'
  BY <1>0, <1>1, <1>2, UnchangedKeeps DEF display
<1>4. LastPacketCurrent'
  BY <1>0, <1>1 DEF LastPacketCurrent, AtLeastOneFrom, readings
<1>5. RingInv'
  BY <1>0, RingKept
<1>6. TypeOK'
  <2>1. sent' \in 0..2
    BY DEF BatteryRead
  <2>2. batread' \in [0..4 -> Batteries \cup {0}]
    BY <1>0 DEF BatteryRead, TypeOK
  <2>3. bati' \in 0..4
    BY <1>0 DEF BatteryRead, TypeOK
  <2> QED BY <1>0, <1>1, <1>2, <2>1, <2>2, <2>3 DEF TypeOK, readings, display
<1> QED BY <1>3, <1>4, <1>5, <1>6 DEF NodeInv

\* The group on display is lit when nothing is, and all is turned off after.
LEMMA LedsKeep ==
  ASSUME NodeInv, LedsShow \/ LedsOff
  PROVE  NodeInv'
<1>0. TypeOK /\ OneColour /\ LastPacketCurrent /\ RingInv
  BY DEF NodeInv
<1>1. UNCHANGED <<leds, readings, packet, power, lchoose>> /\ sent' = 0
  BY DEF LedsShow, LedsOff
<1>2. /\ lit' \subseteq {1, 2, 4} /\ ledsPc' \in {"show", "off"}
      /\ \A l, m \in lit' : l = m
      /\ ledsPc' = "show" => lit' = {}
  <2>1. CASE LedsShow
    <3>1. lit = {} /\ Coloured(leds) /\ lchoose \in Groups
      BY <1>0, <2>1 DEF LedsShow, OneColour, TypeOK, Coloured
    <3>2. lit' = Shown(lchoose) /\ ledsPc' = "off"
      BY <2>1, <3>1 DEF LedsShow
    <3> QED BY <3>1, <3>2, ShownOne
  <2>2. CASE LedsOff
    BY <2>2 DEF LedsOff
  <2> QED BY <2>1, <2>2
<1>3. OneColour'
  <2>1. Coloured(leds')
    BY <1>0, <1>1 DEF OneColour, Coloured
  <2> QED BY <1>2, <2>1 DEF OneColour, Coloured
<1>4. LastPacketCurrent'
  BY <1>0, <1>1 DEF LastPacketCurrent, AtLeastOneFrom, readings
<1>5. RingInv'
  BY <1>0, <1>1, UnchangedKeeps
<1>6. TypeOK'
  BY <1>0, <1>1, <1>2 DEF TypeOK, readings, power
<1> QED BY <1>3, <1>4, <1>5, <1>6 DEF NodeInv

\* The button sends the present readings and turns to the next group.
LEMMA ButtonPressKeeps ==
  ASSUME NodeInv, ButtonPress
  PROVE  NodeInv'
<1>0. TypeOK /\ OneColour /\ LastPacketCurrent /\ RingInv
  BY DEF NodeInv
<1>1. UNCHANGED <<leds, readings, power, ledsPc, lit>> /\ sent' = 1
  BY DEF ButtonPress
<1>2. OneColour' /\ RingInv'
  <2>1. Coloured(leds')
    BY <1>0, <1>1 DEF OneColour, Coloured
  <2> QED BY <1>0, <1>1, <2>1, UnchangedKeeps
<1>3. LastPacketCurrent'
  BY <1>0, <1>1 DEF LastPacketCurrent, AtLeastOneFrom, readings, ButtonPress, Message
<1>4. TypeOK'
  <2>1. lchoose' \in Groups
    BY <1>0 DEF ButtonPress, TypeOK, Groups
  <2> QED BY <1>0, <1>1, <2>1 DEF TypeOK, readings, power
<1> QED BY <1>2, <1>3, <1>4 DEF NodeInv

\* A node that stops leaves its state as it is.
LEMMA LightOverrunKeeps ==
  ASSUME NodeInv, LightOverrun
  PROVE  NodeInv'
<1>0. TypeOK /\ OneColour /\ LastPacketCurrent /\ RingInv
  BY DEF NodeInv
<1>1. /\ UNCHANGED <<leds, readings, packet, batread, bati, recent, display>>
      /\ up' \in BOOLEAN /\ sent' \in 0..2
  <2>1. up' \in BOOLEAN
    BY Zenon DEF LightOverrun
  <2>2. sent' \in 0..2
    BY SMT DEF LightOverrun
  <2> QED BY <2>1, <2>2 DEF LightOverrun
<1>2. OneColour'
  <2>1. Coloured(leds')
    BY <1>0, <1>1 DEF OneColour, Coloured
  <2> QED BY <1>0, <1>1, <2>1, UnchangedKeeps DEF display
<1>3. LastPacketCurrent'
  BY <1>0, <1>1 DEF LastPacketCurrent, AtLeastOneFrom, readings
<1>4. RingInv'
  BY <1>0, <1>1 DEF RingInv, RingHoldsRecent
<1>5. TypeOK'
  BY <1>0, <1>1 DEF TypeOK, readings, display
<1> QED BY <1>2, <1>3, <1>4, <1>5 DEF NodeInv

LEMMA LightErrorKeeps ==
  ASSUME NodeInv, LightError
  PROVE  NodeInv'
<1>0. TypeOK /\ OneColour /\ LastPacketCurrent /\ RingInv
  BY DEF NodeInv
<1>1. /\ UNCHANGED <<leds, lux_last, tmp_last, hum_last, light, avac, ldr, packet,
                     power, display>>
      /\ lightUp' = FALSE /\ sent' = 0
  BY DEF LightError
<1>2. OneColour' /\ RingInv'
  <2>1. Coloured(leds')
    BY <1>0, <1>1 DEF OneColour, Coloured
  <2> QED BY <1>0, <1>1, <2>1, UnchangedKeeps DEF display
<1>3. LastPacketCurrent'
  BY <1>0, <1>1 DEF LastPacketCurrent, AtLeastOneFrom
<1>4. TypeOK'
  <2>1. lightUp' \in BOOLEAN /\ sent' \in 0..2
    <3>1. lightUp' \in BOOLEAN
      BY Zenon DEF LightError
    <3>2. sent' \in 0..2
      BY SMT DEF LightError
    <3> QED BY <3>1, <3>2, Zenon
  <2>2. UNCHANGED <<leds, lchoose, batread, bati, up, lux_last, tmp_last, hum_last,
                    light, avac, ledsPc, lit, ldr>>
    BY <1>1 DEF power, display
  <2> QED BY <1>0, <2>1, <2>2 DEF TypeOK
<1> QED BY <1>2, <1>3, <1>4 DEF NodeInv

-----------------------------------------------------------------------------
LEMMA InitEstablishesNodeInv == Init => NodeInv
<1> SUFFICES ASSUME Init
             PROVE  NodeInv
  OBVIOUS
<1>1. /\ leds = [i \in Slots |-> i \in {1, 4, 7}] /\ lchoose = 9
      /\ batread = [i \in 0..4 |-> 0] /\ bati = 0
      /\ lux_last = 0 /\ tmp_last = 0 /\ hum_last = 0
      /\ ledsPc = "show" /\ lit = {} /\ ldr = NoReading /\ sent = 0 /\ recent = <<>>
      /\ packet.value2 = 0 /\ packet.value3 = 0 /\ packet.value4 = 0
  BY DEF Init
<1>2. light \in BOOLEAN /\ avac \in BOOLEAN /\ lightUp \in BOOLEAN /\ up \in BOOLEAN
  BY DEF Init
<1>3. leds \in [Slots -> BOOLEAN]
  BY <1>1
<1>4. TypeOK
  <2>1. lchoose \in Groups /\ batread \in [0..4 -> Batteries \cup {0}]
    BY <1>1 DEF Groups
  <2> QED BY <1>1, <1>2, <1>3, <2>1 DEF TypeOK
<1>5. OneColour
  <2>1. \A i \in 0..11 : leds[i] = (i \in {1, 4, 7})
    BY <1>1 DEF Slots
  <2>2. ASSUME NEW g \in {0, 3, 6}
        PROVE  \A i \in 0..2 : leds[g + i] = (i = 1)
    <3>1. \A i \in 0..2 : g + i \in 0..11 /\ (g + i \in {1, 4, 7}) = (i = 1)
      OBVIOUS
    <3> QED BY <2>1, <3>1
  <2>3. \A i \in 9..11 : ~leds[i]
    <3>1. \A i \in 9..11 : i \in 0..11 /\ i \notin {1, 4, 7}
      OBVIOUS
    <3> QED BY <2>1, <3>1
  <2>4. 1 \in 0..2
    OBVIOUS
  <2> QED BY <1>1, <2>2, <2>3, <2>4 DEF OneColour
<1>6. LastPacketCurrent
  BY <1>1 DEF LastPacketCurrent, NoReading
<1>7. RingInv
  <2>1. recent \in Seq(Batteries) /\ Len(recent) = 0
    BY <1>1, EmptySeq
  <2> QED BY <2>1 DEF RingInv, RingHoldsRecent
<1> QED BY <1>4, <1>5, <1>6, <1>7 DEF NodeInv

LEMMA NextKeepsNodeInv == NodeInv /\ [Next]_vars => NodeInv'
<1>1. NodeInv /\ UNCHANGED vars => NodeInv'
  BY DEF NodeInv, TypeOK, OneColour, LastPacketCurrent, AtLeastOneFrom, RingInv,
         RingHoldsRecent, vars, readings, power, display
<1> QED BY <1>1, LightReadKeeps, LightOverrunKeeps, LightErrorKeeps, DhtReadKeeps, BatteryReadKeeps,
           LedsKeep, ButtonPressKeeps DEF Next

LEMMA NodeInvariant == Spec => []NodeInv
BY InitEstablishesNodeInv, NextKeepsNodeInv, PTL DEF Spec

\* The node's state keeps its types: lchoose stays on the four groups and bati
\* on the five places of the ring (remote_button_process,
\* remote_battery_process), whatever the sensors report.
THEOREM NodeTypeCorrect == Spec => []TypeOK
<1>1. NodeInv => TypeOK
  BY DEF NodeInv
<1> QED BY NodeInvariant, <1>1, PTL

\* Four processes write the LED vector and one shows it, and still no two LEDs
\* are on and no group has two colours (leds, remote_leds_process).
THEOREM NodeShowsOneColour == Spec => []OneColour
<1>1. NodeInv => OneColour
  BY DEF NodeInv
<1> QED BY NodeInvariant, <1>1, PTL

\* The last packet has the present readings, its light less than one lux off,
\* for every resistance the sensor can report, but while an infinite light is the
\* last one sent (send_packet and its callers).
THEOREM NodeSendsCurrent == Spec => []LastPacketCurrent
<1>1. NodeInv => LastPacketCurrent
  BY DEF NodeInv
<1> QED BY NodeInvariant, <1>1, PTL

\* The ring of battery readings holds the last five (remote_battery_process).
THEOREM RingIsRecent == Spec => []RingHoldsRecent
<1>1. NodeInv => RingHoldsRecent
  BY DEF NodeInv, RingInv
<1> QED BY NodeInvariant, <1>1, PTL

\* An unchanged light is not sent again, unless the formula divides by zero or
\* what was sent last is the infinite light of that division
\* (remote_grove_light_process).
THEOREM NodeQuiet == Spec => QuietWhenUnchanged
<1>1. ASSUME NodeInv, NEW k \in LdrReadings, LightRead(k), ldr = k,
             ~(k # 0 /\ lux_last = InfiniteLux)
      PROVE  sent' = IF k = 0 THEN 1 ELSE 0
  <2>1. k \in 0..65 /\ sent' = IF AtLeastOneFrom(lux_last, k) THEN 1 ELSE 0
    BY <1>1, LightAssumption DEF LightRead, Changed
  <2>2. CASE k = 0
    <3>1. lux_last \in Int /\ lux_last * k = 0
      BY <1>1, <2>2 DEF NodeInv, TypeOK, InfiniteLux
    <3>2. AtLeastOneFrom(lux_last, k)
      BY <2>2, <3>1 DEF AtLeastOneFrom
    <3> QED BY <2>1, <2>2, <3>2
  <2>3. CASE k # 0
    <3>1. ldr > 0 /\ lux_last # InfiniteLux
      BY <1>1, <2>1, <2>3
    <3> QED BY <1>1, <2>1, <2>3, <3>1 DEF NodeInv, LastPacketCurrent
  <2> QED BY <2>2, <2>3
<1>2. NodeInv => \A k \in LdrReadings :
                   LightRead(k) /\ ldr = k =>
                     \/ k # 0 /\ lux_last = InfiniteLux
                     \/ sent' = IF k = 0 THEN 1 ELSE 0
  BY <1>1
<1> QED BY NodeInvariant, <1>2, PTL DEF QuietWhenUnchanged
=============================================================================
