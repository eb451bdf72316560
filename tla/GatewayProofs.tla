--------------------------- MODULE GatewayProofs ----------------------------
(* Theorems about the gateway and the subscriber, for every sequence of      *)
(* messages a node sends, every size of the socket and any orders.           *)
EXTENDS MqttGateway, SequenceTheorems, TLAPS

\* Datagrams, rows and texts as the node's messages make them; n numbers them.
Datagrams == {[n |-> k, data |-> Bytes(sends[k])] : k \in DOMAIN sends}
Rows == {[n |-> k, row |-> Row(Sensor(Bytes(sends[k])))] : k \in DOMAIN sends}
Texts == {[n |-> k, flags |-> f, text |-> Text(Sensor(Bytes(sends[k])))] :
            k \in DOMAIN sends, f \in SUBSET Flags}

Increasing(s) == \A i, j \in DOMAIN s : i < j => s[i].n < s[j].n

ToStore == {"id", "new", "Light", "AVAC", "save"}
ToPublish == ToStore \cup {"publish"}
Handling == ToPublish \cup {"sleep"}

ControlInv ==
  /\ pc \in {"clear", "connect", "recv"} \cup Handling
  /\ Connected \in BOOLEAN /\ SMART \in BOOLEAN /\ link \in BOOLEAN
  /\ flags \subseteq Flags

\* The socket holds datagrams in the order they arrived.
SocketInv ==
  /\ sends \in Days /\ arrived \in 0..Len(sends)
  /\ socket \in Seq(Datagrams) /\ Len(socket) <= SocketSize
  /\ Increasing(socket)
  /\ \A i \in DOMAIN socket : socket[i].n <= arrived

\* The message at hand came before those in the socket and after those stored.
MessageInv ==
  /\ message.n \in 0..arrived
  /\ pc \in Handling => /\ message.n \in DOMAIN sends
                        /\ message.sensor = Sensor(Bytes(sends[message.n]))
  /\ \A i \in DOMAIN socket : message.n < socket[i].n

StoredInv ==
  /\ csv \in Seq(Rows) /\ Increasing(csv)
  /\ \A i \in DOMAIN csv : csv[i].n <= message.n
  /\ pc \in ToStore => \A i \in DOMAIN csv : csv[i].n < message.n
  /\ pc = "publish" => \E j \in DOMAIN csv : csv[j].n = message.n

PublishedInv ==
  /\ published \in Seq(Texts) /\ Increasing(published)
  /\ \A i \in DOMAIN published : published[i].n <= message.n
  /\ pc \in ToPublish => \A i \in DOMAIN published : published[i].n < message.n
  /\ \A i \in DOMAIN published : \E j \in DOMAIN csv : csv[j].n = published[i].n

\* Once a message leaked a flag no other can: SMART is off and the text of the
\* next one starts without any.
StaleInv ==
  /\ leaked \in {0, 1}
  /\ leaked = 1 => ~SMART /\ (flags = {} \/ pc \in {"sleep", "recv"})

\* The file names the node and nothing else, for good once a row is stored.
FileInv ==
  /\ devicesFile \in {NoFile, File(<<>>), File(<<sends[1].id>>)}
  /\ devicesFile = File(<<>>) => pc = "new"
  /\ pc \in Handling \ {"id", "new"} \/ csv # <<>>
       => devicesFile = File(<<sends[1].id>>)
  /\ pc = "clear" => csv = <<>>

SubscriberInv ==
  /\ at \in {"isfile", "open", "connect", "ended"}
  /\ devices \in {{}, {<<sends[1].id>>}}
  /\ subscribed \subseteq {<<sends[1].id>>}
  /\ informed => \/ at = "open" /\ csv # <<>>
                 \/ at = "connect" /\ devices = {<<sends[1].id>>}

GatewayInv ==
  /\ ControlInv /\ SocketInv /\ MessageInv /\ StoredInv /\ PublishedInv
  /\ StaleInv /\ FileInv /\ SubscriberInv

-----------------------------------------------------------------------------
(* The payload *)

LEMMA Halves ==
  ASSUME NEW x \in Int
  PROVE  /\ U16(x) \in Int /\ Hi(U16(x)) \in 0..255 /\ Lo(U16(x)) \in 0..255
         /\ 256 * Hi(U16(x)) + Lo(U16(x)) = U16(x)
<1>1. U16(x) \in Int /\ 0 <= U16(x) /\ U16(x) < 65536
  BY DEF U16
<1> QED BY <1>1 DEF Hi, Lo

\* A field made of the low byte of one reading and the high byte of the next.
LEMMA Straddles ==
  ASSUME NEW lo \in 0..255, NEW hi \in 0..255
  PROVE  /\ lo + 256 * hi \in Nat
         /\ Hi(lo + 256 * hi) = hi /\ Lo(lo + 256 * hi) = lo
BY DEF Hi, Lo

\* The number put together again from its decimal is the number it was made
\* of, and tenths read as what they mean.
LEMMA DecimalMeans ==
  ASSUME NEW v \in Nat
  PROVE  /\ Meant(Decimal(v, 10), 10) = v /\ Meant(Decimal(v, 1000), 1000) = v
         /\ Says(Decimal(v, 10), 10) = Meant(Decimal(v, 10), 10)
<1>1. (v \div 10) * 10 + (v % 10) = v
  OBVIOUS
<1>5. (v \div 1000) * 1000 + (v % 1000) = v
  OBVIOUS
<1>2. v % 10 \in 0..9
  OBVIOUS
<1>3. PowerOfTen(v % 10) = 10
  BY <1>2 DEF PowerOfTen
<1>4. ((v % 10) * 10) \div 10 = v % 10
  BY <1>2
<1> QED BY <1>1, <1>3, <1>4, <1>5 DEF Meant, Says, Decimal

\* A field at the end of some bytes, the high byte first.
LEMMA FieldMore ==
  ASSUME NEW s \in Seq(0..255), NEW x \in Int
  PROVE  /\ s \o HtoNs(x) \in Seq(0..255) /\ Len(s \o HtoNs(x)) = Len(s) + 2
         /\ (s \o HtoNs(x))[Len(s) + 1] = Hi(U16(x))
         /\ (s \o HtoNs(x))[Len(s) + 2] = Lo(U16(x))
         /\ \A i \in 1..Len(s) : (s \o HtoNs(x))[i] = s[i]
<1> DEFINE t == HtoNs(x)
           n == Len(s)
<1>1. /\ t \in Seq(0..255) /\ Len(t) = 2
      /\ t[1] = Hi(U16(x)) /\ t[2] = Lo(U16(x))
  <2>1. Hi(U16(x)) \in 0..255 /\ Lo(U16(x)) \in 0..255
    BY Halves
  <2> QED BY <2>1 DEF HtoNs
<1>2. n \in Nat
  BY LenProperties
<1> HIDE DEF t
<1>3. /\ s \o t \in Seq(0..255) /\ Len(s \o t) = n + Len(t)
      /\ \A i \in 1..n + Len(t) : (s \o t)[i] = IF i <= n THEN s[i] ELSE t[i - n]
  BY <1>1, ConcatProperties
<1> HIDE DEF n
<1>4. \A i \in 1..n : i \in 1..n + Len(t) /\ i <= n
  BY <1>1, <1>2
<1>5. (s \o t)[n + 1] = t[1]
  <2> DEFINE k == n + 1
  <2>1. k \in 1..n + Len(t) /\ ~(k <= n) /\ k - n = 1
    BY <1>1, <1>2
  <2> HIDE DEF k
  <2>2. (s \o t)[k] = t[1]
    BY <1>3, <2>1
  <2> QED BY <2>2 DEF k
<1>6. (s \o t)[n + 2] = t[2]
  <2> DEFINE k == n + 2
  <2>1. k \in 1..n + Len(t) /\ ~(k <= n) /\ k - n = 2
    BY <1>1, <1>2
  <2> HIDE DEF k
  <2>2. (s \o t)[k] = t[2]
    BY <1>3, <2>1
  <2> QED BY <2>2 DEF k
<1>7. ASSUME NEW i \in 1..n
      PROVE  (s \o t)[i] = s[i]
  BY <1>1, <1>3, <1>4
<1>8. s \o t \in Seq(0..255) /\ Len(s \o t) = n + 2
  BY <1>1, <1>3
<1> QED BY <1>1, <1>5, <1>6, <1>7, <1>8, Zenon DEF t, n

LEMMA BytesAt ==
  ASSUME NEW m \in Messages
  PROVE  /\ Bytes(m) \in Seq(0..255)
         /\ Bytes(m)[1] = m.id
         /\ Bytes(m)[2] = Flag(m.light) /\ Bytes(m)[3] = Flag(m.avac)
         /\ Bytes(m)[4] = 0
         /\ Bytes(m)[5] = Hi(U16(m.value1)) /\ Bytes(m)[6] = Lo(U16(m.value1))
         /\ Bytes(m)[7] = Hi(U16(m.value2)) /\ Bytes(m)[8] = Lo(U16(m.value2))
         /\ Bytes(m)[9] = Hi(U16(m.value3)) /\ Bytes(m)[10] = Lo(U16(m.value3))
         /\ Bytes(m)[11] = Hi(U16(m.value4)) /\ Bytes(m)[12] = Lo(U16(m.value4))
         /\ Bytes(m)[13] = Hi(U16(m.battery))
<1> DEFINE s0 == <<m.id, Flag(m.light), Flag(m.avac), Padding>>
           s1 == s0 \o HtoNs(m.value1)
           s2 == s1 \o HtoNs(m.value2)
           s3 == s2 \o HtoNs(m.value3)
           s4 == s3 \o HtoNs(m.value4)
           s5 == s4 \o HtoNs(m.battery)
<1>1. /\ m.id \in 0..255
      /\ m.value1 \in Int /\ m.value2 \in Int /\ m.value3 \in Int /\ m.value4 \in Int
      /\ m.battery \in Int
  BY DEF Messages
<1>2. /\ s0 \in Seq(0..255) /\ Len(s0) = 4
      /\ s0[1] = m.id /\ s0[2] = Flag(m.light) /\ s0[3] = Flag(m.avac) /\ s0[4] = 0
  <2>1. Flag(m.light) \in 0..255 /\ Flag(m.avac) \in 0..255 /\ Padding = 0
    BY DEF Flag, Padding
  <2> QED BY <1>1, <2>1
<1>3. Bytes(m) = s5
  BY DEF Bytes
<1> HIDE DEF s0
<1>4. /\ s1 \in Seq(0..255) /\ Len(s1) = 6
      /\ s1[5] = Hi(U16(m.value1)) /\ s1[6] = Lo(U16(m.value1))
      /\ \A i \in 1..4 : s1[i] = s0[i]
  <2>1. s0 \in Seq(0..255) /\ Len(s0) = 4
    BY <1>2
  <2>2. /\ s1 \in Seq(0..255) /\ Len(s1) = Len(s0) + 2
        /\ s1[Len(s0) + 1] = Hi(U16(m.value1)) /\ s1[Len(s0) + 2] = Lo(U16(m.value1))
        /\ \A i \in 1..Len(s0) : s1[i] = s0[i]
    BY <1>1, <2>1, FieldMore, Zenon
  <2> HIDE DEF s1
  <2> QED BY <2>1, <2>2
<1> HIDE DEF s1
<1>5. /\ s2 \in Seq(0..255) /\ Len(s2) = 8
      /\ s2[7] = Hi(U16(m.value2)) /\ s2[8] = Lo(U16(m.value2))
      /\ \A i \in 1..6 : s2[i] = s1[i]
  <2>1. s1 \in Seq(0..255) /\ Len(s1) = 6
    BY <1>4
  <2>2. /\ s2 \in Seq(0..255) /\ Len(s2) = Len(s1) + 2
        /\ s2[Len(s1) + 1] = Hi(U16(m.value2)) /\ s2[Len(s1) + 2] = Lo(U16(m.value2))
        /\ \A i \in 1..Len(s1) : s2[i] = s1[i]
    BY <1>1, <2>1, FieldMore, Zenon
  <2> HIDE DEF s2
  <2> QED BY <2>1, <2>2
<1> HIDE DEF s2
<1>6. /\ s3 \in Seq(0..255) /\ Len(s3) = 10
      /\ s3[9] = Hi(U16(m.value3)) /\ s3[10] = Lo(U16(m.value3))
      /\ \A i \in 1..8 : s3[i] = s2[i]
  <2>1. s2 \in Seq(0..255) /\ Len(s2) = 8
    BY <1>5
  <2>2. /\ s3 \in Seq(0..255) /\ Len(s3) = Len(s2) + 2
        /\ s3[Len(s2) + 1] = Hi(U16(m.value3)) /\ s3[Len(s2) + 2] = Lo(U16(m.value3))
        /\ \A i \in 1..Len(s2) : s3[i] = s2[i]
    BY <1>1, <2>1, FieldMore, Zenon
  <2> HIDE DEF s3
  <2> QED BY <2>1, <2>2
<1> HIDE DEF s3
<1>7. /\ s4 \in Seq(0..255) /\ Len(s4) = 12
      /\ s4[11] = Hi(U16(m.value4)) /\ s4[12] = Lo(U16(m.value4))
      /\ \A i \in 1..10 : s4[i] = s3[i]
  <2>1. s3 \in Seq(0..255) /\ Len(s3) = 10
    BY <1>6
  <2>2. /\ s4 \in Seq(0..255) /\ Len(s4) = Len(s3) + 2
        /\ s4[Len(s3) + 1] = Hi(U16(m.value4)) /\ s4[Len(s3) + 2] = Lo(U16(m.value4))
        /\ \A i \in 1..Len(s3) : s4[i] = s3[i]
    BY <1>1, <2>1, FieldMore, Zenon
  <2> HIDE DEF s4
  <2> QED BY <2>1, <2>2
<1> HIDE DEF s4
<1>8. /\ s5 \in Seq(0..255) /\ Len(s5) = 14
      /\ s5[13] = Hi(U16(m.battery))
      /\ \A i \in 1..12 : s5[i] = s4[i]
  <2>1. s4 \in Seq(0..255) /\ Len(s4) = 12
    BY <1>7
  <2>2. /\ s5 \in Seq(0..255) /\ Len(s5) = Len(s4) + 2
        /\ s5[Len(s4) + 1] = Hi(U16(m.battery)) /\ s5[Len(s4) + 2] = Lo(U16(m.battery))
        /\ \A i \in 1..Len(s4) : s5[i] = s4[i]
    BY <1>1, <2>1, FieldMore, Zenon
  <2> HIDE DEF s5
  <2> QED BY <2>1, <2>2
<1> HIDE DEF s5
<1> QED BY <1>2, <1>3, <1>4, <1>5, <1>6, <1>7, <1>8

\* The low byte of one reading and the high byte of the next.
Straddling(x, y) == Lo(U16(x)) + 256 * Hi(U16(y))

\* What the gateway makes of a message.
LEMMA SensorOf ==
  ASSUME NEW m \in Messages
  PROVE  /\ Sensor(Bytes(m)).id = m.id
         /\ Sensor(Bytes(m)).Light = m.light /\ Sensor(Bytes(m)).AVAC = m.avac
         /\ Sensor(Bytes(m)).core_temp = 0 + 256 * Hi(U16(m.value1))
         /\ Sensor(Bytes(m)).Temperature = Straddling(m.value1, m.value2)
         /\ Sensor(Bytes(m)).Humidity = Straddling(m.value2, m.value3)
         /\ Sensor(Bytes(m)).Luminosity = Straddling(m.value3, m.value4)
         /\ Sensor(Bytes(m)).Battery = Straddling(m.value4, m.battery)
<1>1. /\ m.light \in BOOLEAN /\ m.avac \in BOOLEAN
      /\ (Flag(m.light) # 0) = m.light /\ (Flag(m.avac) # 0) = m.avac
  BY DEF Messages, Flag
<1> QED BY <1>1, BytesAt DEF Sensor, UInt16At, Straddling

\* Every field can be recovered from the row but for the battery's low byte.
LEMMA RowRecovers ==
  ASSUME NEW m \in Messages
  PROVE  LET row == Row(Sensor(Bytes(m)))
         IN  /\ Recovered(row) = Kept(m)
             /\ Says(row.Temperature, 10) = Meant(row.Temperature, 10)
             /\ Says(row.Humidity, 10) = Meant(row.Humidity, 10)
<1> DEFINE s == Sensor(Bytes(m))
           row == Row(s)
<1>1. /\ m.value1 \in Int /\ m.value2 \in Int /\ m.value3 \in Int /\ m.value4 \in Int
      /\ m.battery \in Int
  BY DEF Messages
<1>2. /\ s.core_temp \in Nat /\ Hi(s.core_temp) = Hi(U16(m.value1))
      /\ s.Temperature \in Nat /\ Lo(s.Temperature) = Lo(U16(m.value1))
      /\ Hi(s.Temperature) = Hi(U16(m.value2))
      /\ s.Humidity \in Nat /\ Lo(s.Humidity) = Lo(U16(m.value2))
      /\ Hi(s.Humidity) = Hi(U16(m.value3))
      /\ s.Luminosity \in Nat /\ Lo(s.Luminosity) = Lo(U16(m.value3))
      /\ Hi(s.Luminosity) = Hi(U16(m.value4))
      /\ s.Battery \in Nat /\ Lo(s.Battery) = Lo(U16(m.value4))
      /\ Hi(s.Battery) = Hi(U16(m.battery))
  <2>1. \A x \in Int : Hi(U16(x)) \in 0..255 /\ Lo(U16(x)) \in 0..255
    BY Halves
  <2>2. \A x, y \in Int :
          /\ Straddling(x, y) \in Nat
          /\ Hi(Straddling(x, y)) = Hi(U16(y)) /\ Lo(Straddling(x, y)) = Lo(U16(x))
    BY <2>1, Straddles DEF Straddling
  <2>3. \A y \in Int :
          LET field == 0 + 256 * Hi(U16(y))
          IN  field \in Nat /\ Hi(field) = Hi(U16(y))
    <3>1. 0 \in 0..255
      OBVIOUS
    <3> QED BY <2>1, <3>1, Straddles
  <2>4. s.core_temp \in Nat /\ Hi(s.core_temp) = Hi(U16(m.value1))
    BY <1>1, <2>3, SensorOf
  <2>5. /\ s.Temperature \in Nat /\ Lo(s.Temperature) = Lo(U16(m.value1))
        /\ Hi(s.Temperature) = Hi(U16(m.value2))
    <3>1. s.Temperature = Straddling(m.value1, m.value2)
      BY SensorOf
    <3> HIDE DEF s
    <3> QED BY <1>1, <2>2, <3>1
  <2>6. /\ s.Humidity \in Nat /\ Lo(s.Humidity) = Lo(U16(m.value2))
        /\ Hi(s.Humidity) = Hi(U16(m.value3))
    <3>1. s.Humidity = Straddling(m.value2, m.value3)
      BY SensorOf
    <3> HIDE DEF s
    <3> QED BY <1>1, <2>2, <3>1
  <2>7. /\ s.Luminosity \in Nat /\ Lo(s.Luminosity) = Lo(U16(m.value3))
        /\ Hi(s.Luminosity) = Hi(U16(m.value4))
    <3>1. s.Luminosity = Straddling(m.value3, m.value4)
      BY SensorOf
    <3> HIDE DEF s
    <3> QED BY <1>1, <2>2, <3>1
  <2>8. /\ s.Battery \in Nat /\ Lo(s.Battery) = Lo(U16(m.value4))
        /\ Hi(s.Battery) = Hi(U16(m.battery))
    <3>1. s.Battery = Straddling(m.value4, m.battery)
      BY SensorOf
    <3> HIDE DEF s
    <3> QED BY <1>1, <2>2, <3>1
  <2> QED BY <2>4, <2>5, <2>6, <2>7, <2>8
<1>3. /\ row.id = m.id /\ row.Light = m.light /\ row.AVAC = m.avac
      /\ row.core_temp = Decimal(s.core_temp, 1000)
      /\ row.Temperature = Decimal(s.Temperature, 10)
      /\ row.Humidity = Decimal(s.Humidity, 10)
      /\ row.Luminosity = s.Luminosity /\ row.Battery = s.Battery
  <2>1. /\ s.id = m.id /\ s.Light = m.light /\ s.AVAC = m.avac
    BY SensorOf
  <2>2. s = [id |-> s.id, Light |-> s.Light, AVAC |-> s.AVAC,
             core_temp |-> s.core_temp, Temperature |-> s.Temperature,
             Humidity |-> s.Humidity, Luminosity |-> s.Luminosity,
             Battery |-> s.Battery]
    BY DEF Sensor
  <2> HIDE DEF s
  <2> QED BY <2>1, <2>2 DEF Row
<1> HIDE DEF s, row
<1>4. /\ Meant(row.core_temp, 1000) = s.core_temp
      /\ Meant(row.Temperature, 10) = s.Temperature
      /\ Meant(row.Humidity, 10) = s.Humidity
      /\ Says(row.Temperature, 10) = Meant(row.Temperature, 10)
      /\ Says(row.Humidity, 10) = Meant(row.Humidity, 10)
  BY <1>2, <1>3, DecimalMeans
<1>5. Recovered(row) =
        [id |-> m.id, light |-> m.light, avac |-> m.avac,
         value1 |-> U16(m.value1), value2 |-> U16(m.value2), value3 |-> U16(m.value3),
         value4 |-> U16(m.value4), battery |-> Hi(U16(m.battery))]
  BY <1>1, <1>2, <1>3, <1>4, Halves DEF Recovered
<1>6. Kept(m) =
        [id |-> m.id, light |-> m.light, avac |-> m.avac,
         value1 |-> U16(m.value1), value2 |-> U16(m.value2), value3 |-> U16(m.value3),
         value4 |-> U16(m.value4), battery |-> Hi(U16(m.battery))]
  BY DEF Kept
<1> QED BY <1>4, <1>5, <1>6 DEF row, s
-----------------------------------------------------------------------------
(* Numbered sequences, the messages of a node and the devices file *)

LEMMA IncreasingAppend ==
  ASSUME NEW S, NEW s \in Seq(S), NEW e \in S, Increasing(s),
         \A i \in DOMAIN s : s[i].n < e.n
  PROVE  /\ Append(s, e) \in Seq(S) /\ Len(Append(s, e)) = Len(s) + 1
         /\ Increasing(Append(s, e))
         /\ \A i \in DOMAIN s : i \in DOMAIN Append(s, e) /\ Append(s, e)[i] = s[i]
         /\ \E i \in DOMAIN Append(s, e) : Append(s, e)[i] = e
         /\ \A i \in DOMAIN Append(s, e) :
              Append(s, e)[i] = e \/ \E j \in DOMAIN s : Append(s, e)[i] = s[j]
<1> DEFINE t == Append(s, e)
           n == Len(s)
<1>1. /\ n \in Nat /\ DOMAIN s = 1..n
      /\ t \in Seq(S) /\ Len(t) = n + 1 /\ DOMAIN t = 1..(n + 1)
      /\ \A i \in 1..n : t[i] = s[i]
      /\ t[n + 1] = e
  BY AppendProperties, LenProperties
<1> HIDE DEF t, n
<1>2. \A i \in DOMAIN t : (i \in DOMAIN s /\ t[i] = s[i]) \/ (i = n + 1 /\ t[i] = e)
  BY <1>1
<1>3. ASSUME NEW i \in DOMAIN t, NEW j \in DOMAIN t, i < j
      PROVE  t[i].n < t[j].n
  <2>1. i \in DOMAIN s /\ t[i] = s[i]
    BY <1>1, <1>3
  <2>2. CASE j \in DOMAIN s
    BY <1>1, <1>3, <2>1, <2>2 DEF Increasing
  <2>3. CASE j = n + 1
    BY <1>1, <2>1, <2>3
  <2> QED BY <1>2, <2>2, <2>3
<1>4. Increasing(t)
  BY <1>3 DEF Increasing
<1>5. \A i \in DOMAIN s : i \in DOMAIN t /\ t[i] = s[i]
  BY <1>1
<1>6. n + 1 \in DOMAIN t
  BY <1>1
<1> QED BY <1>1, <1>2, <1>4, <1>5, <1>6 DEF t, n

LEMMA IncreasingTail ==
  ASSUME NEW S, NEW s \in Seq(S), s # <<>>, Increasing(s)
  PROVE  /\ Head(s) \in S /\ Tail(s) \in Seq(S) /\ Len(Tail(s)) = Len(s) - 1
         /\ Increasing(Tail(s))
         /\ 1 \in DOMAIN s /\ Head(s) = s[1]
         /\ \A i \in DOMAIN Tail(s) :
              /\ Head(s).n < Tail(s)[i].n
              /\ \E j \in DOMAIN s : Tail(s)[i] = s[j]
<1> DEFINE t == Tail(s)
           n == Len(s)
<1>1. /\ n \in Nat /\ DOMAIN s = 1..n /\ n > 0 /\ Head(s) = s[1] /\ s[1] \in S
  BY EmptySeq, LenProperties, HeadTailProperties
<1>2. /\ t \in Seq(S) /\ Len(t) = n - 1 /\ DOMAIN t = 1..(n - 1)
      /\ \A i \in 1..(n - 1) : t[i] = s[i + 1]
  BY HeadTailProperties, LenProperties
<1> HIDE DEF t, n
<1>3. \A i \in DOMAIN t : i + 1 \in DOMAIN s /\ t[i] = s[i + 1] /\ 1 < i + 1
  BY <1>1, <1>2
<1>4. ASSUME NEW i \in DOMAIN t, NEW j \in DOMAIN t, i < j
      PROVE  t[i].n < t[j].n
  <2>1. i + 1 < j + 1
    BY <1>1, <1>2, <1>4
  <2> QED BY <1>3, <2>1 DEF Increasing
<1>5. \A i \in DOMAIN t : s[1].n < t[i].n
  BY <1>1, <1>3 DEF Increasing
<1>6. 1 \in DOMAIN s
  BY <1>1
<1>7. Increasing(t)
  BY <1>4 DEF Increasing
<1> QED BY <1>1, <1>2, <1>3, <1>5, <1>6, <1>7 DEF t, n

\* A node sends something, and all of it under one id.
LEMMA SendsFacts ==
  ASSUME sends \in Days
  PROVE  /\ Len(sends) \in Nat /\ DOMAIN sends = 1..Len(sends) /\ 1 \in DOMAIN sends
         /\ \A k \in DOMAIN sends : sends[k] \in Messages /\ sends[k].id = sends[1].id
         /\ sends[1].id \in 0..255
<1>1. /\ sends \in Seq(Messages) /\ sends # <<>>
      /\ \A k \in DOMAIN sends : sends[k].id = sends[1].id
  BY DaysAssumption
<1>2. Len(sends) \in Nat /\ DOMAIN sends = 1..Len(sends) /\ Len(sends) # 0
  BY <1>1, EmptySeq, LenProperties
<1>3. \A k \in DOMAIN sends : sends[k] \in Messages
  BY <1>1, <1>2, ElementOfSeq
<1>4. 1 \in DOMAIN sends
  BY <1>2
<1> QED BY <1>1, <1>2, <1>3, <1>4 DEF Messages

\* The files the gateway writes, and the words the subscriber finds in them.
LEMMA FileFacts ==
  ASSUME NEW id \in 0..255
  PROVE  /\ ~NoFile.written /\ File(<<>>).written /\ File(<<id>>).written
         /\ File(<<>>) # File(<<id>>) /\ NoFile # File(<<>>) /\ NoFile # File(<<id>>)
         /\ Words(NoFile) = {} /\ Words(File(<<>>)) = {} /\ Words(File(<<id>>)) = {<<id>>}
         /\ {NoFile, File(<<>>), File(<<id>>)} \subseteq Files
<1>1. <<id>> # <<>> /\ <<id>> \in Seq(0..255) /\ <<>> \in Seq(0..255)
  OBVIOUS
<1>2. File(<<>>).ids = <<>> /\ File(<<id>>).ids = <<id>>
  BY DEF File
<1>3. ~NoFile.written /\ File(<<>>).written /\ File(<<id>>).written
  BY DEF File, NoFile
<1>4. Words(NoFile) = {} /\ Words(File(<<>>)) = {} /\ Words(File(<<id>>)) = {<<id>>}
  BY <1>1, <1>2, <1>3 DEF Words
<1>5. {NoFile, File(<<>>), File(<<id>>)} \subseteq Files
  <2>1. NoFile \in Files
    BY DEF Files, NoFile
  <2>2. \A ids \in Seq(0..255) : File(ids) \in Files
    BY DEF Files, File
  <2> QED BY <1>1, <2>1, <2>2
<1> QED BY <1>1, <1>2, <1>3, <1>4, <1>5
-----------------------------------------------------------------------------
(* The invariant, one part at a time *)

LEMMA InitGateway == Init => GatewayInv
<1> SUFFICES ASSUME Init PROVE GatewayInv
  OBVIOUS
<1>1. sends \in Days
  BY DEF Init
<1>3. ControlInv
  BY DEF Init, ControlInv
<1>4. SocketInv
  <2>1. 0 \in 0..Len(sends)
    BY <1>1, SendsFacts
  <2>2. socket = <<>> /\ arrived = 0
    BY DEF Init
  <2>3. socket \in Seq(Datagrams) /\ DOMAIN socket = {} /\ Len(socket) = 0
    BY <2>2, EmptySeq
  <2> QED BY <1>1, <2>1, <2>2, <2>3, GatewayAssumption DEF SocketInv, Increasing
<1>5. MessageInv
  BY DEF Init, MessageInv, Handling, ToPublish, ToStore
<1>6. StoredInv
  BY EmptySeq DEF Init, StoredInv, Increasing, ToStore
<1>7. PublishedInv
  BY EmptySeq DEF Init, PublishedInv, Increasing, ToPublish, ToStore
<1>8. StaleInv
  BY DEF Init, StaleInv
<1>9. FileInv
  BY <1>1, SendsFacts, FileFacts DEF Init, FileInv, Handling, ToPublish, ToStore
<1>10. SubscriberInv
  BY DEF Init, SubscriberInv
<1> QED BY <1>3, <1>4, <1>5, <1>6, <1>7, <1>8, <1>9, <1>10 DEF GatewayInv

LEMMA ControlKept == ControlInv /\ [Next]_vars => ControlInv'
<1> SUFFICES ASSUME ControlInv, [Next]_vars PROVE ControlInv'
  OBVIOUS
<1>1. pc' \in {"clear", "connect", "recv"} \cup Handling
  BY DEF ControlInv, Next, Main, Clear, Start, Receive, CreateFile, WriteFirst,
         AddDevice, ReadFlag, SaveRow, Publish, Sleep, OnConnect, LinkLost, OnMessage,
         Arrive, LookForFile, GetDevices, Subscribe, Unsubscribed, Goto, vars, main, client,
         Handling, ToPublish, ToStore
<1>2. Connected' \in BOOLEAN /\ SMART' \in BOOLEAN /\ link' \in BOOLEAN
  BY Zenon DEF ControlInv, Next, Main, Clear, Start, Receive, CreateFile, WriteFirst,
         AddDevice, ReadFlag, SaveRow, Publish, Sleep, OnConnect, LinkLost, OnMessage,
         Arrive, LookForFile, GetDevices, Subscribe, Unsubscribed, vars, main, client
<1>3. flags' \subseteq Flags
  BY DEF ControlInv, Next, Main, Clear, Start, Receive, CreateFile, WriteFirst,
         AddDevice, ReadFlag, SaveRow, Publish, Sleep, OnConnect, LinkLost, OnMessage,
         Arrive, LookForFile, GetDevices, Subscribe, Unsubscribed, vars, main, client, Flags
<1> QED BY <1>1, <1>2, <1>3 DEF ControlInv

\* The node's messages never change, nor do the sets made of them.
LEMMA SendsKept ==
  [Next]_vars => /\ sends' = sends
                 /\ Datagrams' = Datagrams /\ Rows' = Rows /\ Texts' = Texts
<1> SUFFICES ASSUME [Next]_vars
             PROVE  /\ sends' = sends
                    /\ Datagrams' = Datagrams /\ Rows' = Rows /\ Texts' = Texts
  OBVIOUS
<1>1. sends' = sends
  BY DEF Next, Main, Clear, Start, Receive, CreateFile, WriteFirst, AddDevice,
         ReadFlag, SaveRow, Publish, Sleep, OnConnect, LinkLost, OnMessage, Arrive,
         LookForFile, GetDevices, Subscribe, Unsubscribed, vars, arrivals
<1>2. Datagrams' = Datagrams
  BY <1>1 DEF Datagrams
<1>3. Rows' = Rows
  BY <1>1 DEF Rows
<1>4. Texts' = Texts
  BY <1>1 DEF Texts
<1> QED BY <1>1, <1>2, <1>3, <1>4

LEMMA SocketKept == SocketInv /\ [Next]_vars => SocketInv'
<1> SUFFICES ASSUME SocketInv, [Next]_vars PROVE SocketInv'
  OBVIOUS
<1>0. sends' = sends /\ Datagrams' = Datagrams
  BY SendsKept
<1>2. CASE UNCHANGED <<arrived, socket>>
  BY <1>0, <1>2 DEF SocketInv, Increasing
<1>3. CASE Receive
  <2>1. /\ socket' = Tail(socket) /\ arrived' = arrived
        /\ socket # <<>> /\ socket \in Seq(Datagrams) /\ Increasing(socket)
    BY <1>3 DEF Receive, SocketInv
  <2>2. /\ socket' \in Seq(Datagrams) /\ Len(socket') = Len(socket) - 1
        /\ Increasing(socket')
        /\ \A i \in DOMAIN socket' : \E j \in DOMAIN socket : socket'[i] = socket[j]
    BY <2>1, IncreasingTail, Zenon
  <2>3. Len(socket') <= SocketSize
    BY <2>1, <2>2, LenProperties, GatewayAssumption DEF SocketInv
  <2>4. \A i \in DOMAIN socket' : socket'[i].n <= arrived'
    BY <2>1, <2>2 DEF SocketInv
  <2> QED BY <1>0, <2>1, <2>2, <2>3, <2>4 DEF SocketInv, Increasing
<1>4. CASE Arrive
  <2> DEFINE e == [n |-> arrived + 1, data |-> Bytes(sends[arrived + 1])]
  <2>1. /\ arrived \in 0..Len(sends) /\ arrived < Len(sends) /\ arrived' = arrived + 1
        /\ socket' = IF Len(socket) < SocketSize THEN Append(socket, e) ELSE socket
        /\ socket \in Seq(Datagrams) /\ Increasing(socket) /\ sends \in Days
        /\ \A i \in DOMAIN socket : socket[i].n <= arrived
    BY <1>4 DEF Arrive, SocketInv
  <2>2. arrived + 1 \in DOMAIN sends /\ arrived' \in 0..Len(sends)
    BY <2>1, SendsFacts
  <2>3. e \in Datagrams /\ e.n = arrived + 1
    BY <2>2 DEF Datagrams
  <2> HIDE DEF e
  <2>4. \A i \in DOMAIN socket : socket[i].n \in Int
    <3>1. \A d \in Datagrams : d.n \in Int
      BY <2>1, SendsFacts DEF Datagrams
    <3> QED BY <2>1, <3>1, ElementOfSeq, LenProperties
  <2>5. \A i \in DOMAIN socket : socket[i].n < e.n /\ socket[i].n <= arrived'
    BY <2>1, <2>3, <2>4, SendsFacts
  <2>6. CASE Len(socket) < SocketSize
    <3>1. socket' = Append(socket, e)
      BY <2>1, <2>6
    <3>2. /\ socket' \in Seq(Datagrams) /\ Len(socket') = Len(socket) + 1
          /\ Increasing(socket')
          /\ \A i \in DOMAIN socket' :
               socket'[i] = e \/ \E j \in DOMAIN socket : socket'[i] = socket[j]
      <4>1. \A i \in DOMAIN socket : socket[i].n < e.n
        BY <2>5
      <4>2. socket \in Seq(Datagrams) /\ Increasing(socket) /\ e \in Datagrams
        BY <2>1, <2>3
      <4> DEFINE t == Append(socket, e)
      <4>3. /\ t \in Seq(Datagrams) /\ Len(t) = Len(socket) + 1 /\ Increasing(t)
            /\ \A i \in DOMAIN t : t[i] = e \/ \E j \in DOMAIN socket : t[i] = socket[j]
        BY <4>1, <4>2, IncreasingAppend
      <4> HIDE DEF t
      <4>4. socket' = t
        BY <3>1 DEF t
      <4> QED BY <4>3, <4>4, Zenon
    <3>3. Len(socket') <= SocketSize
      BY <2>1, <2>6, <3>2, LenProperties, GatewayAssumption
    <3>4. \A i \in DOMAIN socket' : socket'[i].n <= arrived'
      BY <2>1, <2>3, <2>5, <3>2, SendsFacts
    <3> QED BY <1>0, <2>1, <2>2, <3>2, <3>3, <3>4 DEF SocketInv, Increasing
  <2>7. CASE ~(Len(socket) < SocketSize)
    <3>1. socket' = socket
      BY <2>1, <2>7
    <3> QED BY <1>0, <2>1, <2>2, <2>5, <3>1 DEF SocketInv, Increasing
  <2> QED BY <2>6, <2>7
<1> QED
  BY <1>2, <1>3, <1>4
  DEF Next, Main, Clear, Start, CreateFile, WriteFirst, AddDevice, ReadFlag, SaveRow,
      Publish, Sleep, OnConnect, LinkLost, OnMessage, LookForFile, GetDevices, Subscribe,
      Unsubscribed, vars, arrivals

\* The numbers in the sequences are those of messages.
LEMMA NumbersAreInts ==
  ASSUME sends \in Days
  PROVE  /\ \A d \in Datagrams : /\ d.n \in DOMAIN sends /\ d.n \in Int
                                 /\ d.data = Bytes(sends[d.n])
         /\ \A r \in Rows : /\ r.n \in DOMAIN sends /\ r.n \in Int
                            /\ r.row = Row(Sensor(Bytes(sends[r.n])))
         /\ \A t \in Texts : /\ t.n \in DOMAIN sends /\ t.n \in Int
                             /\ t.flags \subseteq Flags
                             /\ t.text = Text(Sensor(Bytes(sends[t.n])))
<1>1. \A k \in DOMAIN sends : k \in Int
  BY SendsFacts
<1>2. \A d \in Datagrams : d.n \in DOMAIN sends /\ d.data = Bytes(sends[d.n])
  BY DEF Datagrams
<1>3. \A r \in Rows : r.n \in DOMAIN sends /\ r.row = Row(Sensor(Bytes(sends[r.n])))
  BY DEF Rows
<1>4. \A t \in Texts : /\ t.n \in DOMAIN sends /\ t.flags \subseteq Flags
                       /\ t.text = Text(Sensor(Bytes(sends[t.n])))
  BY DEF Texts
<1> QED BY <1>1, <1>2, <1>3, <1>4

\* What reading a datagram does to the message at hand.
LEMMA ReceiveFacts ==
  ASSUME SocketInv, MessageInv, Receive
  PROVE  /\ message'.n \in DOMAIN sends /\ message'.n \in Int /\ message.n \in Int
         /\ message.n < message'.n /\ message'.n <= arrived
         /\ message'.sensor = Sensor(Bytes(sends[message'.n]))
         /\ \A i \in DOMAIN socket' : message'.n < socket'[i].n
<1>1. /\ socket # <<>> /\ socket \in Seq(Datagrams) /\ Increasing(socket)
      /\ socket' = Tail(socket) /\ sends \in Days
      /\ message' = [n |-> Head(socket).n, sensor |-> Sensor(Head(socket).data)]
  BY DEF Receive, SocketInv
<1>2. /\ Head(socket) \in Datagrams
      /\ 1 \in DOMAIN socket /\ Head(socket) = socket[1]
      /\ \A i \in DOMAIN Tail(socket) : Head(socket).n < Tail(socket)[i].n
  BY <1>1, IncreasingTail, Zenon
<1>3. /\ Head(socket).n \in DOMAIN sends /\ Head(socket).n \in Int
      /\ Head(socket).data = Bytes(sends[Head(socket).n])
  BY <1>1, <1>2, NumbersAreInts, Zenon
<1>4. message.n < Head(socket).n /\ Head(socket).n <= arrived
  BY <1>2 DEF SocketInv, MessageInv
<1>5. message.n \in Int
  BY <1>1, SendsFacts DEF SocketInv, MessageInv
<1>6. message'.n = Head(socket).n /\ message'.sensor = Sensor(Head(socket).data)
  BY <1>1
<1> QED BY <1>1, <1>2, <1>3, <1>4, <1>5, <1>6

LEMMA MessageKept ==
  SocketInv /\ MessageInv /\ ControlInv /\ [Next]_vars => MessageInv'
<1> SUFFICES ASSUME SocketInv, MessageInv, ControlInv, [Next]_vars PROVE MessageInv'
  OBVIOUS
<1>0. sends' = sends /\ sends \in Days
  BY SendsKept DEF SocketInv
<1>1. CASE UNCHANGED <<message, arrived, socket>> /\ (pc' \in Handling => pc \in Handling)
  BY <1>0, <1>1 DEF MessageInv
<1>2. CASE Receive
  <2>1. arrived' = arrived /\ arrived \in 0..Len(sends)
    BY <1>2 DEF Receive, SocketInv
  <2>2. message'.n \in 0..arrived'
    BY <1>0, <1>2, <2>1, ReceiveFacts, SendsFacts
  <2> QED BY <1>0, <1>2, <2>2, ReceiveFacts DEF MessageInv
<1>3. CASE Arrive
  <2> DEFINE e == [n |-> arrived + 1, data |-> Bytes(sends[arrived + 1])]
  <2>1. /\ arrived \in 0..Len(sends) /\ arrived' = arrived + 1
        /\ socket' = IF Len(socket) < SocketSize THEN Append(socket, e) ELSE socket
        /\ message' = message /\ pc' = pc /\ socket \in Seq(Datagrams)
    BY <1>3 DEF Arrive, SocketInv, main
  <2>2. message.n \in 0..arrived /\ e.n = arrived + 1
    BY DEF MessageInv
  <2> HIDE DEF e
  <2>3. message.n \in 0..arrived' /\ message.n < e.n
    BY <1>0, <2>1, <2>2, SendsFacts
  <2>4. \A i \in DOMAIN socket : message.n < socket[i].n
    BY DEF MessageInv
  <2>5. \A i \in DOMAIN Append(socket, e) : message.n < Append(socket, e)[i].n
    <3> DEFINE t == Append(socket, e)
    <3>1. /\ Len(socket) \in Nat /\ DOMAIN socket = 1..Len(socket)
          /\ DOMAIN t = 1..(Len(socket) + 1)
          /\ \A i \in 1..Len(socket) : t[i] = socket[i]
          /\ t[Len(socket) + 1] = e
      BY <2>1, LenProperties
    <3> HIDE DEF t
    <3>2. \A i \in DOMAIN t : i \in DOMAIN socket \/ i = Len(socket) + 1
      BY <3>1
    <3> QED BY <2>3, <2>4, <3>1, <3>2 DEF t
  <2>6. \A i \in DOMAIN socket' : message.n < socket'[i].n
    BY <2>1, <2>4, <2>5
  <2> QED BY <1>0, <2>1, <2>3, <2>6 DEF MessageInv
<1> QED
  BY <1>1, <1>2, <1>3
  DEF Next, Main, Clear, Start, CreateFile, WriteFirst, AddDevice, ReadFlag, SaveRow,
      Publish, Sleep, OnConnect, LinkLost, OnMessage, LookForFile, GetDevices, Subscribe,
      Unsubscribed, vars, main, arrivals, Goto, Handling, ToPublish, ToStore

LEMMA StoredKept ==
  GatewayInv /\ [Next]_vars => StoredInv'
<1> SUFFICES ASSUME GatewayInv, [Next]_vars PROVE StoredInv'
  OBVIOUS
<1>0. /\ sends \in Days /\ Rows' = Rows /\ csv \in Seq(Rows) /\ Increasing(csv)
      /\ SocketInv /\ MessageInv
      /\ \A i \in DOMAIN csv : csv[i].n <= message.n
      /\ pc \in ToStore => \A i \in DOMAIN csv : csv[i].n < message.n
      /\ pc = "publish" => \E j \in DOMAIN csv : csv[j].n = message.n
  BY SendsKept DEF GatewayInv, SocketInv, StoredInv
<1>1. CASE /\ UNCHANGED <<message, csv>> /\ (pc' \in ToStore => pc \in ToStore)
           /\ (pc' = "publish" => pc = "publish")
  BY <1>0, <1>1 DEF StoredInv, Increasing
<1>2. CASE Receive
  <2>1. /\ csv' = csv /\ pc' = "id"
    BY <1>2 DEF Receive, Goto
  <2>2. /\ message.n \in Int /\ message'.n \in Int /\ message.n < message'.n
    BY <1>0, <1>2, ReceiveFacts
  <2>3. \A i \in DOMAIN csv : csv[i].n \in Int
    <3>1. \A i \in DOMAIN csv : csv[i] \in Rows
      BY <1>0, ElementOfSeq, LenProperties
    <3> QED BY <1>0, <3>1, NumbersAreInts
  <2>4. \A i \in DOMAIN csv : csv[i].n < message'.n /\ csv[i].n <= message'.n
    BY <1>0, <2>2, <2>3
  <2> QED BY <1>0, <2>1, <2>4 DEF StoredInv, Increasing
<1>3. CASE SaveRow
  <2> DEFINE e == [n |-> message.n, row |-> Row(message.sensor)]
             t == Append(csv, e)
  <2>1. /\ csv' = Append(csv, e) /\ message' = message /\ pc = "save" /\ pc' = "publish"
    BY <1>3 DEF SaveRow, Goto
  <2>2. /\ message.n \in DOMAIN sends /\ message.sensor = Sensor(Bytes(sends[message.n]))
    BY <1>0, <2>1 DEF MessageInv, Handling, ToPublish, ToStore
  <2>3. e \in Rows /\ e.n = message.n /\ message.n \in Int
    BY <1>0, <2>2, SendsFacts DEF Rows
  <2> HIDE DEF e
  <2>4. \A i \in DOMAIN csv : csv[i].n < e.n
    BY <1>0, <2>1, <2>3 DEF ToStore
  <2>5. /\ t \in Seq(Rows) /\ Increasing(t)
        /\ \E i \in DOMAIN t : t[i] = e
        /\ \A i \in DOMAIN t : t[i] = e \/ \E j \in DOMAIN csv : t[i] = csv[j]
    BY <1>0, <2>3, <2>4, IncreasingAppend
  <2> HIDE DEF t
  <2>6. csv' = t
    BY <2>1 DEF t
  <2>7. /\ \A i \in DOMAIN t : t[i].n <= message.n
        /\ \E i \in DOMAIN t : t[i].n = message.n
    BY <1>0, <2>3, <2>5
  <2>8. pc' \notin ToStore
    BY <2>1 DEF ToStore
  <2> QED BY <1>0, <2>1, <2>5, <2>6, <2>7, <2>8 DEF StoredInv, Increasing
<1> QED
  BY <1>1, <1>2, <1>3
  DEF Next, Main, Clear, Start, CreateFile, WriteFirst, AddDevice, ReadFlag, Publish,
      Sleep, OnConnect, LinkLost, OnMessage, Arrive, LookForFile, GetDevices, Subscribe,
      Unsubscribed, vars, main, Goto, ToStore

LEMMA PublishedKept ==
  GatewayInv /\ [Next]_vars => PublishedInv'
<1> SUFFICES ASSUME GatewayInv, [Next]_vars PROVE PublishedInv'
  OBVIOUS
<1>0. /\ sends \in Days /\ Texts' = Texts
      /\ published \in Seq(Texts) /\ Increasing(published)
      /\ SocketInv /\ MessageInv /\ csv \in Seq(Rows) /\ flags \subseteq Flags
      /\ \A i \in DOMAIN published : published[i].n <= message.n
      /\ pc \in ToPublish => \A i \in DOMAIN published : published[i].n < message.n
      /\ \A i \in DOMAIN published : \E j \in DOMAIN csv : csv[j].n = published[i].n
      /\ pc = "publish" => \E j \in DOMAIN csv : csv[j].n = message.n
  BY SendsKept DEF GatewayInv, SocketInv, StoredInv, PublishedInv, ControlInv
<1>1. CASE UNCHANGED <<message, csv, published>> /\ (pc' \in ToPublish => pc \in ToPublish)
  BY <1>0, <1>1 DEF PublishedInv, Increasing
<1>2. CASE Receive
  <2>1. csv' = csv /\ published' = published
    BY <1>2 DEF Receive
  <2>2. /\ message.n \in Int /\ message'.n \in Int /\ message.n < message'.n
    BY <1>0, <1>2, ReceiveFacts
  <2>3. \A i \in DOMAIN published : published[i].n \in Int
    <3>1. \A i \in DOMAIN published : published[i] \in Texts
      BY <1>0, ElementOfSeq, LenProperties
    <3> QED BY <1>0, <3>1, NumbersAreInts
  <2>4. \A i \in DOMAIN published : published[i].n < message'.n /\ published[i].n <= message'.n
    BY <1>0, <2>2, <2>3
  <2> QED BY <1>0, <2>1, <2>4 DEF PublishedInv, Increasing
<1>3. CASE SaveRow
  <2> DEFINE e == [n |-> message.n, row |-> Row(message.sensor)]
  <2>1. /\ csv' = Append(csv, e) /\ message' = message /\ published' = published
        /\ pc = "save"
    BY <1>3 DEF SaveRow, Goto
  <2>2. \A j \in DOMAIN csv : j \in DOMAIN csv' /\ csv'[j] = csv[j]
    <3> HIDE DEF e
    <3>1. /\ Len(csv) \in Nat /\ DOMAIN csv = 1..Len(csv)
          /\ DOMAIN Append(csv, e) = 1..(Len(csv) + 1)
          /\ \A j \in 1..Len(csv) : Append(csv, e)[j] = csv[j]
      BY <1>0, LenProperties
    <3>2. \A j \in 1..Len(csv) : j \in 1..(Len(csv) + 1)
      BY <3>1
    <3> QED BY <2>1, <3>1, <3>2
  <2>3. \A i \in DOMAIN published : \E j \in DOMAIN csv' : csv'[j].n = published[i].n
    BY <1>0, <2>2
  <2>4. \A i \in DOMAIN published : published[i].n < message.n
    BY <1>0, <2>1 DEF ToPublish, ToStore
  <2> QED BY <1>0, <2>1, <2>3, <2>4 DEF PublishedInv, Increasing
<1>4. CASE Publish
  <2> DEFINE e == [n |-> message.n, flags |-> flags, text |-> Text(message.sensor)]
             t == Append(published, e)
  <2>1. /\ published' = IF link THEN Append(published, e) ELSE published
        /\ message' = message /\ csv' = csv /\ pc = "publish" /\ pc' = "sleep"
    BY <1>4 DEF Publish, Goto
  <2>2. pc' \notin ToPublish /\ pc \in ToPublish /\ pc \in Handling
    BY <2>1 DEF Handling, ToPublish, ToStore
  <2>3. /\ message.n \in DOMAIN sends /\ message.sensor = Sensor(Bytes(sends[message.n]))
    BY <1>0, <2>2 DEF MessageInv
  <2>4. e \in Texts /\ e.n = message.n /\ message.n \in Int
    <3>1. /\ flags \in SUBSET Flags /\ message.n \in DOMAIN sends
          /\ e = [n |-> message.n, flags |-> flags,
                  text |-> Text(Sensor(Bytes(sends[message.n])))]
      BY <1>0, <2>3
    <3>2. message.n \in Int
      BY <1>0, <2>3, SendsFacts
    <3>3. \A k \in DOMAIN sends : \A f \in SUBSET Flags :
            [n |-> k, flags |-> f, text |-> Text(Sensor(Bytes(sends[k])))] \in Texts
      <4> SUFFICES ASSUME NEW k \in DOMAIN sends, NEW f \in SUBSET Flags
                   PROVE  [n |-> k, flags |-> f,
                           text |-> Text(Sensor(Bytes(sends[k])))] \in Texts
        OBVIOUS
      <4> QED BY DEF Texts
    <3>4. e \in Texts
      BY <3>1, <3>3, Zenon
    <3> QED BY <3>2, <3>4
  <2> HIDE DEF e
  <2>5. \A i \in DOMAIN published : published[i].n < e.n
    BY <1>0, <2>2, <2>4
  <2>6. /\ t \in Seq(Texts) /\ Increasing(t)
        /\ \A i \in DOMAIN t : t[i] = e \/ \E j \in DOMAIN published : t[i] = published[j]
    BY <1>0, <2>4, <2>5, IncreasingAppend
  <2> HIDE DEF t
  <2>7. /\ \A i \in DOMAIN t : t[i].n <= message.n
        /\ \A i \in DOMAIN t : \E j \in DOMAIN csv : csv[j].n = t[i].n
    <3> SUFFICES ASSUME NEW i \in DOMAIN t
                 PROVE  t[i].n <= message.n /\ \E j \in DOMAIN csv : csv[j].n = t[i].n
      OBVIOUS
    <3>1. CASE t[i] = e
      BY <1>0, <2>1, <2>4, <3>1
    <3>2. CASE \E k \in DOMAIN published : t[i] = published[k]
      BY <1>0, <3>2
    <3> QED BY <2>6, <3>1, <3>2
  <2>8. CASE link
    <3>1. published' = t
      BY <2>1, <2>8 DEF t
    <3> QED BY <1>0, <2>1, <2>2, <2>6, <2>7, <3>1 DEF PublishedInv, Increasing
  <2>9. CASE ~link
    <3>1. published' = published
      BY <2>1, <2>9
    <3> QED BY <1>0, <2>1, <2>2, <3>1 DEF PublishedInv, Increasing
  <2> QED BY <2>8, <2>9
<1> QED
  BY <1>1, <1>2, <1>3, <1>4
  DEF Next, Main, Clear, Start, CreateFile, WriteFirst, AddDevice, ReadFlag, Sleep,
      OnConnect, LinkLost, OnMessage, Arrive, LookForFile, GetDevices, Subscribe,
      Unsubscribed, vars, main, Goto, ToPublish, ToStore

LEMMA StaleKept ==
  ControlInv /\ StaleInv /\ [Next]_vars => StaleInv'
<1> SUFFICES ASSUME ControlInv, StaleInv, [Next]_vars PROVE StaleInv'
  OBVIOUS
<1>1. CASE UNCHANGED <<leaked, SMART, flags>>
           /\ (pc \in {"sleep", "recv"} => pc' \in {"sleep", "recv"})
  BY <1>1 DEF StaleInv
<1>2. CASE Receive
  BY <1>2 DEF Receive, StaleInv, client
<1>3. ASSUME NEW flag, NEW next, flag \notin {"sleep", "recv"}, ReadFlag(flag, next)
      PROVE  StaleInv'
  BY <1>3 DEF ReadFlag, Goto, StaleInv, client
<1>4. CASE Publish
  BY <1>4 DEF Publish, Goto, StaleInv, client
<1>5. ASSUME NEW on \in BOOLEAN, OnMessage(on)
      PROVE  StaleInv'
  BY <1>5 DEF OnMessage, StaleInv
<1> QED
  BY <1>1, <1>2, <1>3, <1>4, <1>5
  DEF Next, Main, Clear, Start, CreateFile, WriteFirst, AddDevice, SaveRow, Sleep,
      OnConnect, LinkLost, Arrive, LookForFile, GetDevices, Subscribe, Unsubscribed,
      vars, main, client, Goto

LEMMA FileKept ==
  GatewayInv /\ [Next]_vars => FileInv'
<1> SUFFICES ASSUME GatewayInv, [Next]_vars PROVE FileInv'
  OBVIOUS
<1> DEFINE id == sends[1].id
<1>0. /\ FileInv /\ sends \in Days /\ sends' = sends /\ id \in 0..255
  BY SendsKept, SendsFacts DEF GatewayInv, SocketInv
<1>1. CASE UNCHANGED <<devicesFile, csv, pc>>
  BY <1>0, <1>1 DEF FileInv
<1>2. CASE Clear
  BY <1>0, <1>2, FileFacts DEF Clear, Goto, FileInv, Handling, ToPublish, ToStore
<1>3. CASE /\ UNCHANGED <<devicesFile, csv>>
           /\ (pc \in Handling \ {"id", "new"} \/ pc' \notin Handling \ {"id", "new"})
           /\ pc' # "clear" /\ pc # "new"
  BY <1>0, <1>3 DEF FileInv
<1>4. CASE CreateFile
  <2>1. /\ devicesFile' = File(<<>>) /\ csv' = csv /\ pc' = "new"
        /\ ~devicesFile.written
    BY <1>4 DEF CreateFile, Goto
  <2>2. csv = <<>>
    BY <1>0, <2>1, FileFacts DEF FileInv
  <2> QED BY <1>0, <2>1, <2>2 DEF FileInv
<1>5. CASE WriteFirst
  <2>1. /\ devicesFile' = File(<<message.sensor.id>>) /\ csv' = csv /\ pc = "new"
        /\ pc' = "Light"
    BY <1>5 DEF WriteFirst, Goto
  <2>2. message.sensor.id = id
    <3>1. /\ message.n \in DOMAIN sends
          /\ message.sensor = Sensor(Bytes(sends[message.n]))
      BY <2>1 DEF GatewayInv, MessageInv, Handling, ToPublish, ToStore
    <3>2. sends[message.n] \in Messages /\ sends[message.n].id = id
      BY <1>0, <3>1, SendsFacts
    <3> QED BY <3>1, <3>2, SensorOf
  <2>3. devicesFile' = File(<<id>>) /\ File(<<>>) # File(<<id>>)
    BY <1>0, <2>1, <2>2, FileFacts
  <2> QED BY <1>0, <2>1, <2>3 DEF FileInv
<1>6. CASE AddDevice
  <2>1. /\ devicesFile' = IF <<message.sensor.id>> \in Words(devicesFile) THEN devicesFile
                          ELSE File(Append(devicesFile.ids, message.sensor.id))
        /\ csv' = csv /\ pc = "id" /\ pc' = "Light" /\ devicesFile.written
    BY <1>6 DEF AddDevice, Goto
  <2>2. message.sensor.id = id
    <3>1. /\ message.n \in DOMAIN sends
          /\ message.sensor = Sensor(Bytes(sends[message.n]))
      BY <2>1 DEF GatewayInv, MessageInv, Handling, ToPublish, ToStore
    <3>2. sends[message.n] \in Messages /\ sends[message.n].id = id
      BY <1>0, <3>1, SendsFacts
    <3> QED BY <3>1, <3>2, SensorOf
  <2>3. devicesFile = File(<<id>>)
    BY <1>0, <2>1, FileFacts DEF FileInv
  <2>4. <<message.sensor.id>> \in Words(devicesFile)
    BY <1>0, <2>2, <2>3, FileFacts
  <2>5. devicesFile' = File(<<id>>) /\ File(<<>>) # File(<<id>>)
    BY <1>0, <2>1, <2>3, <2>4, FileFacts
  <2> QED BY <1>0, <2>1, <2>5 DEF FileInv
<1>7. CASE SaveRow
  <2>1. devicesFile' = devicesFile /\ pc = "save" /\ pc' = "publish"
    BY <1>7 DEF SaveRow, Goto
  <2>2. devicesFile = File(<<id>>) /\ File(<<>>) # File(<<id>>)
    BY <1>0, <2>1, FileFacts DEF FileInv, Handling, ToPublish, ToStore
  <2> QED BY <1>0, <2>1, <2>2 DEF FileInv
<1> QED
  BY <1>1, <1>2, <1>3, <1>4, <1>5, <1>6, <1>7
  DEF Next, Main, Start, Receive, ReadFlag, Publish, Sleep, OnConnect, LinkLost,
      OnMessage, Arrive, LookForFile, GetDevices, Subscribe, Unsubscribed, vars, main, Goto,
      Handling, ToPublish, ToStore

LEMMA SubscriberKept ==
  GatewayInv /\ [Next]_vars => SubscriberInv'
<1> SUFFICES ASSUME GatewayInv, [Next]_vars PROVE SubscriberInv'
  OBVIOUS
<1> DEFINE id == sends[1].id
<1>0. /\ FileInv /\ SubscriberInv /\ sends' = sends /\ id \in 0..255
  BY SendsKept, SendsFacts DEF GatewayInv, SocketInv
<1>1. ASSUME UNCHANGED subscriber, csv # <<>> => csv' # <<>> PROVE SubscriberInv'
  BY <1>0, <1>1 DEF SubscriberInv, subscriber
<1>2. CASE LookForFile
  <2>1. /\ devices' = devices /\ subscribed' = subscribed /\ csv' = csv
        /\ informed' = (csv # <<>>)
        /\ at' = IF devicesFile.written THEN "open" ELSE "connect"
    BY <1>2 DEF LookForFile, main
  <2>2. csv # <<>> => devicesFile.written
    BY <1>0, FileFacts DEF FileInv, File
  <2> QED BY <1>0, <2>1, <2>2 DEF SubscriberInv
<1>3. CASE GetDevices
  <2>1. /\ subscribed' = subscribed /\ informed' = informed /\ csv' = csv
        /\ at = "open"
        /\ \/ devicesFile.written /\ at' = "connect" /\ devices' = Words(devicesFile)
           \/ ~devicesFile.written /\ at' = "ended" /\ devices' = devices
    BY <1>3 DEF GetDevices, main
  <2>2. Words(devicesFile) \in {{}, {<<id>>}}
    BY <1>0, FileFacts DEF FileInv
  <2>3. csv # <<>> => devicesFile.written /\ Words(devicesFile) = {<<id>>}
    BY <1>0, FileFacts DEF FileInv, File
  <2>4. informed => csv # <<>>
    BY <1>0, <2>1 DEF SubscriberInv
  <2> QED BY <1>0, <2>1, <2>2, <2>3, <2>4 DEF SubscriberInv
<1>4. CASE Subscribe
  BY <1>0, <1>4 DEF Subscribe, SubscriberInv, main
<1>5. CASE Unsubscribed
  BY <1>0, <1>5 DEF Unsubscribed, SubscriberInv, main
<1>6. CASE SaveRow
  <2> DEFINE row == [n |-> message.n, row |-> Row(message.sensor)]
             T == Rows \cup {row}
  <2>1. csv' # <<>>
    <3>1. csv' = Append(csv, row) /\ csv \in Seq(Rows)
      BY <1>6 DEF SaveRow, GatewayInv, StoredInv
    <3> HIDE DEF row
    <3>2. csv \in Seq(T) /\ row \in T
      BY <3>1
    <3> HIDE DEF T
    <3> QED BY <3>1, <3>2
  <2> QED BY <1>1, <1>6, <2>1 DEF SaveRow
<1> QED
  BY <1>1, <1>2, <1>3, <1>4, <1>5, <1>6
  DEF Next, Main, Clear, Start, Receive, CreateFile, WriteFirst, AddDevice, ReadFlag,
      Publish, Sleep, OnConnect, LinkLost, OnMessage, Arrive, vars, subscriber, main

LEMMA GatewayInvariant == Spec => []GatewayInv
<1>1. Init => GatewayInv
  BY InitGateway
<1>2. GatewayInv /\ [Next]_vars => GatewayInv'
  BY ControlKept, SocketKept, MessageKept, StoredKept, PublishedKept, StaleKept,
     FileKept, SubscriberKept, Zenon DEF GatewayInv
<1> QED BY <1>1, <1>2, PTL DEF Spec
-----------------------------------------------------------------------------
(* Theorems *)

\* The datagrams of struct my_msg_t, the flags of the JSON text, the rows and
\* the list of devices have the types the model gives them, whatever the node
\* sends.
THEOREM GatewayTypeCorrect == Spec => []TypeOK
<1>1. GatewayInv => TypeOK
  <2> SUFFICES ASSUME GatewayInv PROVE TypeOK
    OBVIOUS
  <2> DEFINE id == sends[1].id
  <2>1. ControlInv /\ SocketInv /\ StoredInv /\ PublishedInv /\ FileInv /\ SubscriberInv
    BY DEF GatewayInv
  <2>2. sends \in Days /\ id \in 0..255 /\ <<id>> \in Seq(0..255)
    BY <2>1, SendsFacts DEF SocketInv
  <2>3. \A i \in DOMAIN socket : socket[i].data \in Seq(0..255)
    <3>1. \A i \in DOMAIN socket : socket[i] \in Datagrams
      BY <2>1, ElementOfSeq, LenProperties DEF SocketInv
    <3> QED BY <2>2, <3>1, NumbersAreInts, SendsFacts, BytesAt
  <2>4. \A i \in DOMAIN csv : csv[i].row.id \in 0..255
    <3>1. \A i \in DOMAIN csv : csv[i] \in Rows
      BY <2>1, ElementOfSeq, LenProperties DEF StoredInv
    <3>2. \A m \in Messages : Row(Sensor(Bytes(m))).id = m.id /\ m.id \in 0..255
      <4> SUFFICES ASSUME NEW m \in Messages
                   PROVE  Row(Sensor(Bytes(m))).id = m.id /\ m.id \in 0..255
        OBVIOUS
      <4>1. Sensor(Bytes(m)).id = m.id /\ m.id \in 0..255
        BY SensorOf DEF Messages
      <4>2. Row(Sensor(Bytes(m))).id = Sensor(Bytes(m)).id
        BY DEF Row, Sensor
      <4> QED BY <4>1, <4>2
    <3>3. \A i \in DOMAIN csv :
            /\ sends[csv[i].n] \in Messages
            /\ csv[i].row = Row(Sensor(Bytes(sends[csv[i].n])))
      BY <2>2, <3>1, NumbersAreInts, SendsFacts
    <3> QED BY <3>2, <3>3
  <2>5. \A i \in DOMAIN published : published[i].flags \subseteq Flags
    <3>1. \A i \in DOMAIN published : published[i] \in Texts
      BY <2>1, ElementOfSeq, LenProperties DEF PublishedInv
    <3> QED BY <2>2, <3>1, NumbersAreInts
  <2>6. devicesFile \in Files
    BY <2>1, <2>2, FileFacts DEF FileInv
  <2>7. /\ at \in {"isfile", "open", "connect", "ended"}
        /\ devices \subseteq Seq(0..255)
    BY <2>1, <2>2 DEF SubscriberInv
  <2>8. subscribed \subseteq Seq(0..255)
    BY <2>1, <2>2 DEF SubscriberInv
  <2>9. /\ pc \in {"clear", "connect", "recv", "id", "new", "Light", "AVAC", "save",
                   "publish", "sleep"}
        /\ Connected \in BOOLEAN /\ SMART \in BOOLEAN /\ link \in BOOLEAN
        /\ flags \subseteq Flags /\ Len(socket) <= SocketSize
    BY <2>1 DEF ControlInv, SocketInv, Handling, ToPublish, ToStore
  <2> QED BY <2>3, <2>4, <2>5, <2>6, <2>7, <2>8, <2>9 DEF TypeOK
<1> QED BY <1>1, GatewayInvariant, PTL

\* Rows are stored and texts published in the order of arrival, none twice; a
\* text that reached the broker has its row in the file, with the readings the
\* text gives: save_recv_data() comes first and both use the same SENSOR.
THEOREM StoredComesFirst == Spec => []StoredBeforePublished
<1>1. GatewayInv => StoredBeforePublished
  <2> SUFFICES ASSUME GatewayInv PROVE StoredBeforePublished
    OBVIOUS
  <2>1. /\ StoredInv /\ PublishedInv /\ sends \in Days
    BY DEF GatewayInv, SocketInv
  <2>2. \A i \in DOMAIN csv : csv[i] \in Rows
    BY <2>1, ElementOfSeq, LenProperties DEF StoredInv
  <2>3. \A i \in DOMAIN published : published[i] \in Texts
    BY <2>1, ElementOfSeq, LenProperties DEF PublishedInv
  <2>4. ASSUME NEW data
        PROVE  \A f \in DOMAIN Text(Sensor(data)) :
                 Text(Sensor(data))[f] = Row(Sensor(data))[f]
    <3> DEFINE s == Sensor(data)
    <3>1. s = [id |-> s.id, Light |-> s.Light, AVAC |-> s.AVAC,
               core_temp |-> s.core_temp, Temperature |-> s.Temperature,
               Humidity |-> s.Humidity, Luminosity |-> s.Luminosity,
               Battery |-> s.Battery]
      BY DEF Sensor
    <3> HIDE DEF s
    <3>2. /\ Text(s).core_temp = Row(s).core_temp
          /\ Text(s).Temperature = Row(s).Temperature
          /\ Text(s).Humidity = Row(s).Humidity
          /\ Text(s).Luminosity = Row(s).Luminosity
          /\ Text(s).Battery = Row(s).Battery
      BY <3>1 DEF Text, Row
    <3>3. DOMAIN Text(s) = {"core_temp", "Temperature", "Humidity", "Luminosity", "Battery"}
      BY DEF Text
    <3> QED BY <3>2, <3>3 DEF s
  <2>5. ASSUME NEW i \in DOMAIN published
        PROVE  \E j \in DOMAIN csv :
                 /\ csv[j].n = published[i].n
                 /\ \A f \in DOMAIN published[i].text : published[i].text[f] = csv[j].row[f]
    <3>1. PICK j \in DOMAIN csv : csv[j].n = published[i].n
      BY <2>1 DEF PublishedInv
    <3>2. csv[j].row = Row(Sensor(Bytes(sends[csv[j].n])))
      BY <2>1, <2>2, NumbersAreInts
    <3>3. published[i].text = Text(Sensor(Bytes(sends[published[i].n])))
      BY <2>1, <2>3, NumbersAreInts
    <3>4. \A f \in DOMAIN published[i].text : published[i].text[f] = csv[j].row[f]
      BY <2>4, <3>1, <3>2, <3>3
    <3> QED BY <3>1, <3>4
  <2> QED BY <2>1, <2>5 DEF StoredBeforePublished, StoredInv, PublishedInv, Increasing
<1> QED BY <1>1, GatewayInvariant, PTL

\* After an order that turns SMART off at most one message still carries a
\* flag: the one whose text was under construction, since SMART is read for
\* each flag while the text is built.
THEOREM OneMessageIsStale == Spec => []OneStaleMessage
<1>1. GatewayInv => OneStaleMessage
  BY DEF GatewayInv, StaleInv, OneStaleMessage
<1> QED BY <1>1, GatewayInvariant, PTL

\* Whatever the readings, a stored row determines the message it was made of
\* but for the battery's low byte, though every field read with the wrong
\* offset straddles two of the fields that were sent.
THEOREM RowsDetermineMessages == Spec => []RowDeterminesMessage
<1>1. GatewayInv => RowDeterminesMessage
  <2> SUFFICES ASSUME GatewayInv, NEW i \in DOMAIN csv
               PROVE  LET row == csv[i].row
                      IN  /\ Recovered(row) = Kept(sends[csv[i].n])
                          /\ \A d \in {row.Temperature, row.Humidity} :
                               Says(d, 10) = Meant(d, 10)
    BY DEF RowDeterminesMessage
  <2>1. csv[i] \in Rows /\ sends \in Days
    BY ElementOfSeq, LenProperties DEF GatewayInv, StoredInv, SocketInv
  <2>2. csv[i].row = Row(Sensor(Bytes(sends[csv[i].n]))) /\ sends[csv[i].n] \in Messages
    BY <2>1, NumbersAreInts, SendsFacts
  <2> QED BY <2>2, RowRecovers
<1> QED BY <1>1, GatewayInvariant, PTL

\* A subscriber that starts once a row is stored finds the file and subscribes for
\* the node, and none subscribes for anything else: the ids in the file run
\* together, but the words of it are never more than the one id.
THEOREM SubscriberKnows == Spec => []SubscriberKnowsNode
<1>1. GatewayInv => SubscriberKnowsNode
  BY DEF GatewayInv, SubscriberInv, SubscriberKnowsNode
<1> QED BY <1>1, GatewayInvariant, PTL
=============================================================================
