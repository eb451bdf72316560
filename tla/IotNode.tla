------------------------------ MODULE IotNode ------------------------------
(* The sensor node, iotnode.c: Contiki processes that share the LED vector,  *)
(* the last readings and the message.  Contiki does not preempt, so one      *)
(* pass of a process from its wait to the next wait is one action, with the  *)
(* packets it sends on the way; the timers are left out, so that every       *)
(* process may be next.  The state starts after init_comm_process has opened *)
(* the connection.                                                           *)
EXTENDS Integers, Sequences, SequencesExt

CONSTANTS
  LdrReadings,   \* ldr/1000, the light sensor's resistance in kOhm
  Temperatures,  \* readings of the DHT22, in tenths
  Humidities,
  Batteries      \* readings of vdd3_sensor, in mV

ASSUME LightAssumption == LdrReadings \subseteq 0..65
ASSUME ReadingsAssumption ==
  /\ Temperatures \subseteq -400..1250 /\ Humidities \subseteq 0..1000
  /\ Batteries \subseteq 0..65535

MAX_LUX == 200
MIN_LUX == 50
MAX_TMP == 24
MIN_TMP == 20
MAX_HUM == 60
MIN_HUM == 31
MIN_BAT == 300
FULL_BAT == 3215

NoReading == -1    \* the light sensor was not read yet
Keep == 3          \* none of the three colours of a group: leave it alone
InfiniteLux == 65535  \* stands for INT_MAX, what (int)lux saturates to when lux
                   \* is infinite: its low 16 bits, which are what is sent
Halfway == 64      \* a float difference from INT_MAX of this lux or less rounds
                   \* to INT_MIN

VARIABLES
  leds,        \* three slots a sensor, LUX 0-2, TMP 3-5, HUM 6-8, none 9-11
  lchoose,     \* the first slot of the sensor on display
  batread, bati,
  up,          \* the node runs: nothing undefined has stopped it
  lux_last, tmp_last, hum_last,
  light, avac, \* the flags of msg; pin C3 is written with avac
  packet,      \* the last message sent, the converted temperature left out
  lightUp,     \* the light process has not exited
  ledsPc,      \* remote_leds_process waits to show the LEDs or to turn them off
  lit,         \* the LEDs that are on
  ldr,         \* history: the last light reading
  sent,        \* history: packets sent by the last step
  recent       \* history: the last five battery readings, oldest first

readings == <<lux_last, tmp_last, hum_last, light, avac, lightUp, ldr>>
power == <<batread, bati, recent, up>>
display == <<lchoose, ledsPc, lit>>
vars == <<leds, readings, packet, sent, power, display>>

Slots == 0..11
Groups == {0, 3, 6, 9}

TypeOK ==
  /\ leds \in [Slots -> BOOLEAN]
  /\ lchoose \in Groups
  /\ batread \in [0..4 -> Batteries \cup {0}]
  /\ bati \in 0..4
  /\ lux_last \in 0..1000 \cup {InfiniteLux}
  /\ tmp_last \in Temperatures \cup {0}
  /\ hum_last \in Humidities \cup {0}
  /\ light \in BOOLEAN /\ avac \in BOOLEAN /\ lightUp \in BOOLEAN /\ up \in BOOLEAN
  /\ ledsPc \in {"show", "off"}
  /\ lit \subseteq {1, 2, 4}
  /\ ldr \in LdrReadings \cup {NoReading}
  /\ sent \in 0..2

\* The fields of msg that the code below tells apart.
Message(l, a, lux, t, h) ==
  [light |-> l, avac |-> a, value2 |-> t, value3 |-> h, value4 |-> lux,
   battery |-> batread[0]]

Init ==
  /\ leds = [i \in Slots |-> i \in {1, 4, 7}]
  /\ lchoose = 9
  /\ batread = [i \in 0..4 |-> 0] /\ bati = 0
  /\ lux_last = 0 /\ tmp_last = 0 /\ hum_last = 0
  /\ light = FALSE /\ avac = FALSE
  /\ packet = [light |-> FALSE, avac |-> FALSE, value2 |-> 0, value3 |-> 0,
               value4 |-> 0, battery |-> 0]
  /\ lightUp = TRUE /\ up = TRUE
  /\ ledsPc = "show" /\ lit = {}
  /\ ldr = NoReading /\ sent = 0
  /\ recent = <<>>
-----------------------------------------------------------------------------
\* Mutant: the other colours of the group are not cleared.
ColourAdded(v, group, slot) ==
  IF slot = Keep THEN v ELSE [v EXCEPT ![group + slot] = TRUE]

\* The three assignments that set one colour of a group and clear the others.
Colour(v, group, slot) ==
  IF slot = Keep THEN v
  ELSE [i \in Slots |-> IF i \in group..(group + 2) THEN i = group + slot ELSE v[i]]

\* lux = 10000 / powf(ldr/1000*10, 4/3) is 1000/k for a reading of k kOhm:
\* both divisions are integer ones.  The comparisons of the float with an
\* integer are here products; k = 0 gives an infinite lux.
Lux(k) == IF k = 0 THEN InfiniteLux ELSE 1000 \div k
\* Mutant: any difference between the float and the integer counts.
DiffersFrom(last, k) == last * k # 1000

AtLeastOneFrom(last, k) == 1000 - last * k >= k \/ last * k - 1000 >= k
\* What abs(lux-lux_last)>=1 can say.  Below an infinite lux_last the difference
\* of a small lux is the int abs() is undefined for; of a larger one it is big.
Changed(last, k) ==
  IF last = InfiniteLux /\ 0 < k /\ 1000 <= Halfway * k THEN BOOLEAN
  ELSE {AtLeastOneFrom(last, k)}

TooDark(k) == 1000 < MIN_LUX * k
TooBright(k) == 1000 > MAX_LUX * k

\* remote_grove_light_process: the packet goes out before the flag is set.
LightRead(k) ==
  /\ lightUp
  /\ ldr' = k
  /\ \E changed \in Changed(lux_last, k) :
       /\ lux_last' = IF changed THEN Lux(k) ELSE lux_last
       /\ packet' = IF changed THEN Message(light, avac, Lux(k), tmp_last, hum_last)
                    ELSE packet
       /\ sent' = IF changed THEN 1 ELSE 0
  /\ \/ TooDark(k) /\ light' = TRUE /\ leds' = Colour(leds, 0, 0)
     \/ TooBright(k) /\ light' = FALSE /\ leds' = Colour(leds, 0, 2)
     \/ ~TooDark(k) /\ ~TooBright(k) /\ UNCHANGED light /\ leds' = Colour(leds, 0, 1)
  /\ UNCHANGED <<tmp_last, hum_last, avac, lightUp, power, display>>

\* ftoa() writes 22 bytes of an infinite lux into res[20]: the node goes on, as
\* above, or stops there.
LightOverrun ==
  /\ lightUp
  /\ 0 \in LdrReadings
  /\ up' = FALSE
  /\ sent' = 0
  /\ UNCHANGED <<leds, readings, packet, batread, bati, recent, display>>

\* The sensor reports ADC_WRAPPER_ERROR: PROCESS_EXIT().
LightError ==
  /\ lightUp
  /\ lightUp' = FALSE
  /\ sent' = 0
  /\ UNCHANGED <<leds, lux_last, tmp_last, hum_last, light, avac, ldr, packet,
                 power, display>>

\* The colour of the TMP group.  The last test, a separate if, compares the
\* temperature with the thresholds of the humidity.
TmpSlot(t) ==
  LET degrees == t \div 10 IN
  IF MIN_HUM < degrees /\ degrees < MAX_HUM THEN 1
  ELSE IF degrees > MAX_TMP THEN 0
  ELSE IF degrees < MIN_TMP THEN 2
  ELSE Keep

HumSlot(h) ==
  LET percent == h \div 10 IN
  IF percent > MAX_HUM THEN 0
  ELSE IF percent < MIN_HUM THEN 2
  ELSE IF MIN_HUM < percent /\ percent < MAX_HUM THEN 1
  ELSE Keep

\* avac_toggle() as each group of tests calls it: off for a temperature that is
\* OK, on for every other temperature and humidity that gets a colour.
AvacAfterTmp(t) ==
  IF TmpSlot(t) = Keep THEN avac ELSE TmpSlot(t) # 1
AvacAfterHum(t, h) ==
  IF HumSlot(h) = Keep THEN AvacAfterTmp(t) ELSE TRUE

\* Mutant: the packet goes out before the reading is stored.
DhtReadSendsFirst(t, h) ==
  /\ tmp_last' = t
  /\ hum_last' = h
  /\ packet' = IF t # tmp_last \/ h # hum_last
               THEN Message(light, avac, lux_last, tmp_last, hum_last) ELSE packet
  /\ sent' = (IF t # tmp_last THEN 1 ELSE 0) + (IF h # hum_last THEN 1 ELSE 0)
  /\ avac' = AvacAfterHum(t, h)
  /\ leds' = Colour(Colour(leds, 3, TmpSlot(t)), 6, HumSlot(h))
  /\ UNCHANGED <<lux_last, light, lightUp, ldr, power, display>>

\* remote_dht22_process: temperature, then humidity, a packet for each that
\* changed; the second one has the flag the temperature left.
DhtRead(t, h) ==
  /\ tmp_last' = t
  /\ hum_last' = h
  /\ packet' =
       IF h # hum_last THEN Message(light, AvacAfterTmp(t), lux_last, t, h)
       ELSE IF t # tmp_last THEN Message(light, avac, lux_last, t, hum_last)
       ELSE packet
  /\ sent' = (IF t # tmp_last THEN 1 ELSE 0) + (IF h # hum_last THEN 1 ELSE 0)
  /\ avac' = AvacAfterHum(t, h)
  /\ leds' = Colour(Colour(leds, 3, TmpSlot(t)), 6, HumSlot(h))
  /\ UNCHANGED <<lux_last, light, lightUp, ldr, power, display>>

\* Mutant: the ring skips its last place.
BatteryReadShortRing(b) ==
  /\ leds' = Colour(leds, 3, IF b < MIN_BAT THEN 0 ELSE IF b > FULL_BAT THEN 2 ELSE 1)
  /\ batread' = [batread EXCEPT ![bati] = b]
  /\ bati' = IF bati > 2 THEN 0 ELSE bati + 1
  /\ recent' = (IF Len(recent) = 5 THEN Tail(recent) ELSE recent) \o <<b>>
  /\ sent' = 0
  /\ UNCHANGED <<readings, packet, display, up>>

\* remote_battery_process: its colours go to the TMP group.
BatteryRead(b) ==
  /\ leds' = Colour(leds, 3, IF b < MIN_BAT THEN 0 ELSE IF b > FULL_BAT THEN 2 ELSE 1)
  /\ batread' = [batread EXCEPT ![bati] = b]
  /\ bati' = IF bati > 3 THEN 0 ELSE bati + 1
  /\ recent' = (IF Len(recent) = 5 THEN Tail(recent) ELSE recent) \o <<b>>
  /\ sent' = 0
  /\ UNCHANGED <<readings, packet, display, up>>

\* remote_leds_process: LED l is on when its slot of the group on display is.
LedOf(i) == IF i % 3 = 2 THEN 4 ELSE (i % 3) + 1
Shown(group) == {LedOf(i) : i \in {j \in group..(group + 2) : leds[j]}}

LedsShow ==
  /\ ledsPc = "show"
  /\ ledsPc' = "off"
  /\ lit' = (lit \ {LedOf(i) : i \in lchoose..(lchoose + 2)}) \cup Shown(lchoose)
  /\ sent' = 0
  /\ UNCHANGED <<leds, readings, packet, power, lchoose>>

LedsOff ==
  /\ ledsPc = "off"
  /\ ledsPc' = "show"
  /\ lit' = {}
  /\ sent' = 0
  /\ UNCHANGED <<leds, readings, packet, power, lchoose>>

\* Mutant: the selection goes past the last group.
ButtonPressPastEnd ==
  /\ packet' = Message(light, avac, lux_last, tmp_last, hum_last)
  /\ sent' = 1
  /\ lchoose' = IF lchoose = 12 THEN 0 ELSE lchoose + 3
  /\ UNCHANGED <<leds, readings, power, ledsPc, lit>>

\* remote_button_process: a packet, then the next sensor on display.
ButtonPress ==
  /\ packet' = Message(light, avac, lux_last, tmp_last, hum_last)
  /\ sent' = 1
  /\ lchoose' = IF lchoose = 9 THEN 0 ELSE lchoose + 3
  /\ UNCHANGED <<leds, readings, power, ledsPc, lit>>

Next ==
  /\ up
  /\ \/ \E k \in LdrReadings : LightRead(k)
     \/ LightOverrun
     \/ LightError
     \/ \E t \in Temperatures, h \in Humidities : DhtRead(t, h)
     \/ \E b \in Batteries : BatteryRead(b)
     \/ LedsShow \/ LedsOff
     \/ ButtonPress

Spec == Init /\ [][Next]_vars
-----------------------------------------------------------------------------
(* Properties *)

\* "3 sets of RGB, one for each sensor": each sensor's group has one colour
\* whatever order the processes write it in, the fourth group stays dark, and
\* so at most one LED is on at any time.
OneColour ==
  /\ \A g \in {0, 3, 6} : \E c \in 0..2 :
       \A i \in 0..2 : leds[g + i] = (i = c)
  /\ \A i \in 9..11 : ~leds[i]
  /\ \A l, m \in lit : l = m
  /\ ledsPc = "show" => lit = {}

\* The last packet carries the node's present light, temperature and humidity,
\* and its light is less than one lux off the last reading: sending only what
\* changed by one or more does not leave the receiver behind.  It may after an
\* infinite light: what abs() says of a small lux then is undefined.
LastPacketCurrent ==
  /\ packet.value2 = tmp_last /\ packet.value3 = hum_last
  /\ packet.value4 = lux_last
  /\ ldr > 0 /\ lux_last # InfiniteLux => ~AtLeastOneFrom(lux_last, ldr)

\* "Comunicao de leituras apenas quando sofrem alteracoes": reading the same
\* light again sends nothing, but for a light so bright that the formula divides
\* by zero: every such reading is sent, and what is sent of a dark one while the
\* infinite light is still the last one sent is undefined.
QuietWhenUnchanged ==
  [][\A k \in LdrReadings :
       LightRead(k) /\ ldr = k =>
         \/ k # 0 /\ lux_last = InfiniteLux
         \/ sent' = IF k = 0 THEN 1 ELSE 0]_vars

\* batread is a ring of the last five readings, bati its oldest, so that the
\* battery value sent is at most five readings old.
RingHoldsRecent ==
  \A i \in 1..Len(recent) : batread[(bati + 5 - Len(recent) + i - 1) % 5] = recent[i]
=============================================================================
