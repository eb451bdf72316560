------------------------------ MODULE Payload ------------------------------
(* What becomes of a reading on its way from the node to the gateway's file: *)
(* send_packet() of iotnode.c fills struct my_msg_t, swaps its 16-bit fields *)
(* to network order and sends the structure as it lies in memory; mqtt-pub.py *)
(* reads the bytes as a packed little-endian structure and writes decimal    *)
(* numbers with a point in them.                                             *)
EXTENDS Integers, Sequences

\* The cast to uint16_t.
U16(x) == x % 65536
Hi(x) == x \div 256
Lo(x) == x % 256

\* Mutant: the bytes are not swapped.
HostOrder(x) == <<Lo(U16(x)), Hi(U16(x))>>

\* A field after UIP_HTONS on a little-endian CPU: the high byte first.
HtoNs(x) == <<Hi(U16(x)), Lo(U16(x))>>
Flag(b) == IF b THEN 1 ELSE 0

\* struct my_msg_t in memory: the compiler aligns value1 with a byte of
\* padding after the three fields of one byte; msg is static, so it is zero.
Padding == 0
Bytes(m) ==
  <<m.id, Flag(m.light), Flag(m.avac), Padding>>
  \o HtoNs(m.value1) \o HtoNs(m.value2) \o HtoNs(m.value3) \o HtoNs(m.value4)
  \o HtoNs(m.battery)

\* A c_uint16 of a packed structure at the given offset.
UInt16At(data, offset) == data[offset + 1] + 256 * data[offset + 2]

\* SENSOR.from_buffer_copy(): 13 bytes without padding, of 14 received.
Sensor(data) ==
  [id |-> data[1], Light |-> data[2] # 0, AVAC |-> data[3] # 0,
   core_temp |-> UInt16At(data, 3), Temperature |-> UInt16At(data, 5),
   Humidity |-> UInt16At(data, 7), Luminosity |-> UInt16At(data, 9),
   Battery |-> UInt16At(data, 11)]

\* Mutant: two digits where one is meant.
DecimalTwoDigits(v, unit) == [whole |-> v \div unit, fraction |-> v % (10 * unit)]

\* str(v // unit) + '.' + str(v % unit): str() pads with no zeros.
Decimal(v, unit) == [whole |-> v \div unit, fraction |-> v % unit]

\* The row of save_recv_data() and jsonify_recv_data().
Row(s) ==
  [s EXCEPT !.core_temp = Decimal(@, 1000), !.Temperature = Decimal(@, 10),
            !.Humidity = Decimal(@, 10)]

-----------------------------------------------------------------------------
(* How a row is read *)

\* What a decimal number says, in units of its last place: "22.16" is 22160
\* thousandths.
PowerOfTen(n) == IF n < 10 THEN 10 ELSE IF n < 100 THEN 100 ELSE 1000
Says(d, unit) == d.whole * unit + (d.fraction * unit) \div PowerOfTen(d.fraction)

\* The number a decimal was made of.
Meant(d, unit) == d.whole * unit + d.fraction

\* The reading put together again from a row: every field straddles two
\* readings, so each is the high byte of one field and the low byte of the
\* next; the low byte of the battery is not in the row.
Recovered(row) ==
  LET core == Meant(row.core_temp, 1000)
      tmp == Meant(row.Temperature, 10)
      hum == Meant(row.Humidity, 10)
  IN  [id |-> row.id, light |-> row.Light, avac |-> row.AVAC,
       value1 |-> 256 * Hi(core) + Lo(tmp), value2 |-> 256 * Hi(tmp) + Lo(hum),
       value3 |-> 256 * Hi(hum) + Lo(row.Luminosity),
       value4 |-> 256 * Hi(row.Luminosity) + Lo(row.Battery),
       battery |-> Hi(row.Battery)]

\* What of a message can be recovered.
Kept(m) ==
  [id |-> m.id, light |-> m.light, avac |-> m.avac,
   value1 |-> U16(m.value1), value2 |-> U16(m.value2), value3 |-> U16(m.value3),
   value4 |-> U16(m.value4), battery |-> Hi(U16(m.battery))]
=============================================================================
