---------------------------- MODULE MqttGateway ----------------------------
(* The two Python programs and what they share.  mqtt-pub.py, the gateway:   *)
(* its main thread waits for the broker, then takes one datagram of a node   *)
(* at a time, builds the JSON text, stores a row, publishes and sleeps; the  *)
(* MQTT client's thread runs the callbacks that set Connected and SMART.     *)
(* SMART is read twice for every message, once for each flag.                *)
(* mqtt-sub.py, the subscriber: reads the devices file the gateway writes,   *)
(* once, and subscribes to the topics of those devices whenever it connects. *)
(* Threads and programs interleave at every access to what they share.       *)
EXTENDS Integers, Sequences, SequencesExt, Payload

CONSTANTS
  Days,       \* each a sequence of messages the node sends
  SocketSize, \* datagrams the socket holds before it drops
  MaxOrders   \* bound on the SMART orders (model only)

\* What send_packet() fills struct my_msg_t with, before the casts.
Messages ==
  [id : 0..255, light : BOOLEAN, avac : BOOLEAN, value1 : Int, value2 : Int,
   value3 : Int, value4 : Int, battery : Int]

\* A node has something to send, under the one id it was built with.
ASSUME DaysAssumption == Days # {} /\ \A day \in Days :
  day \in Seq(Messages) /\ day # <<>> /\ \A i \in DOMAIN day : day[i].id = day[1].id
ASSUME GatewayAssumption == SocketSize \in Nat \ {0} /\ MaxOrders \in Nat

VARIABLES
  pc,          \* where the main thread is
  Connected, SMART,
  link,        \* the gateway's client has a connection to the broker
  sends,       \* the messages the node sends in this behaviour
  socket,      \* datagrams received and not yet read
  message,     \* the datagram being handled, as SENSOR
  flags,       \* the flags the JSON text has so far
  devicesFile, \* what was written to it, if anything: ids with nothing between them
  csv,         \* the rows stored
  published,   \* what reached the broker
  arrived,     \* history: number of datagrams that arrived
  orders,      \* history: number of SMART orders
  leaked,      \* history: messages with flags published since SMART went off
  at,          \* where the subscriber is
  devices,     \* the subscriber's list
  subscribed,  \* the devices whose topics the broker sends the subscriber
  informed     \* history: a row was stored when the subscriber looked for the file

main == <<pc, message, flags, csv, published, leaked>>
client == <<Connected, SMART, link, orders>>
arrivals == <<sends, socket, arrived>>
subscriber == <<at, devices, subscribed, informed>>
vars == <<main, devicesFile, client, arrivals, subscriber>>

Flags == {"Light", "AVAC"}
Files == [written : {FALSE}] \cup [written : {TRUE}, ids : Seq(0..255)]
NoFile == [written |-> FALSE]
File(ids) == [written |-> TRUE, ids |-> ids]

\* line.split(): there is no space in the file, so all of it is one word.
Words(file) == IF file.written /\ file.ids # <<>> THEN {file.ids} ELSE {}

TypeOK ==
  /\ pc \in {"clear", "connect", "recv", "id", "new", "Light", "AVAC", "save",
             "publish", "sleep"}
  /\ Connected \in BOOLEAN /\ SMART \in BOOLEAN /\ link \in BOOLEAN
  /\ Len(socket) <= SocketSize
  /\ \A i \in DOMAIN socket : socket[i].data \in Seq(0..255)
  /\ flags \subseteq Flags
  /\ devicesFile \in Files
  /\ \A i \in DOMAIN csv : csv[i].row.id \in 0..255
  /\ \A i \in DOMAIN published : published[i].flags \subseteq Flags
  /\ at \in {"isfile", "open", "connect", "ended"}
  /\ devices \subseteq Seq(0..255) /\ subscribed \subseteq Seq(0..255)

\* An earlier run may have left a devices file behind, as the one in the
\* repository.
Init ==
  /\ pc = "clear"
  /\ Connected = FALSE /\ SMART = TRUE /\ link = FALSE
  /\ sends \in Days
  /\ socket = <<>>
  /\ message = [n |-> 0, sensor |-> Sensor(Bytes(sends[1]))]
  /\ flags = {}
  /\ devicesFile \in {NoFile, File(<<sends[1].id>>)}
  /\ csv = <<>> /\ published = <<>>
  /\ arrived = 0 /\ orders = 0 /\ leaked = 0
  /\ at = "isfile" /\ devices = {} /\ subscribed = {} /\ informed = FALSE
-----------------------------------------------------------------------------
(* The gateway's main thread *)

Goto(from, to) == pc = from /\ pc' = to

\* start_client() removes the devices file before anything else.
Clear ==
  /\ Goto("clear", "connect")
  /\ devicesFile' = NoFile
  /\ UNCHANGED <<message, flags, csv, published, leaked, client, arrivals, subscriber>>

\* Mutant: the loop waits for the connection itself, not for Connected.
StartOnLink ==
  /\ Goto("connect", "recv")
  /\ Connected /\ link
  /\ UNCHANGED <<message, flags, devicesFile, csv, published, leaked, client,
                 arrivals, subscriber>>

\* The loop that waits for the connection.
Start ==
  /\ Goto("connect", "recv")
  /\ Connected
  /\ UNCHANGED <<message, flags, devicesFile, csv, published, leaked, client,
                 arrivals, subscriber>>

\* Mutant: the text of the last message is not cleared.
ReceiveKeepsFlags ==
  /\ Goto("recv", "id")
  /\ socket # <<>>
  /\ message' = [n |-> Head(socket).n, sensor |-> Sensor(Head(socket).data)]
  /\ socket' = Tail(socket)
  /\ UNCHANGED <<flags, devicesFile, csv, published, leaked, client, sends,
                 arrived, subscriber>>

\* recvfrom() and SENSOR(data); n only numbers the datagrams.
Receive ==
  /\ Goto("recv", "id")
  /\ socket # <<>>
  /\ message' = [n |-> Head(socket).n, sensor |-> Sensor(Head(socket).data)]
  /\ socket' = Tail(socket)
  /\ flags' = {}
  /\ UNCHANGED <<devicesFile, csv, published, leaked, client, sends, arrived,
                 subscriber>>

\* adddevice() without a file: open("w") creates it, the id reaches it when it
\* is closed.
CreateFile ==
  /\ Goto("id", "new")
  /\ ~devicesFile.written
  /\ devicesFile' = File(<<>>)
  /\ UNCHANGED <<message, flags, csv, published, leaked, client, arrivals, subscriber>>

WriteFirst ==
  /\ Goto("new", "Light")
  /\ devicesFile' = File(<<message.sensor.id>>)
  /\ UNCHANGED <<message, flags, csv, published, leaked, client, arrivals, subscriber>>

\* Mutant: the id is written whether it is in the file or not.
AddDeviceAlways ==
  /\ Goto("id", "Light")
  /\ devicesFile.written
  /\ devicesFile' = File(Append(devicesFile.ids, message.sensor.id))
  /\ UNCHANGED <<message, flags, csv, published, leaked, client, arrivals, subscriber>>

\* adddevice() with a file: an id that is not a word of it is added at the
\* end, with nothing in between.
AddDevice ==
  /\ Goto("id", "Light")
  /\ devicesFile.written
  /\ devicesFile' = IF <<message.sensor.id>> \in Words(devicesFile) THEN devicesFile
                    ELSE File(Append(devicesFile.ids, message.sensor.id))
  /\ UNCHANGED <<message, flags, csv, published, leaked, client, arrivals, subscriber>>

\* Mutant: the flag is written under the next field's name.
ReadFlagMisnamed(flag, next) ==
  /\ Goto(flag, next)
  /\ flags' = IF SMART THEN flags \cup {next} ELSE flags
  /\ UNCHANGED <<message, devicesFile, csv, published, leaked, client, arrivals,
                 subscriber>>

\* jsonify_recv_data(): a flag is in the text if SMART is 1 when its turn
\* comes.
ReadFlag(flag, next) ==
  /\ Goto(flag, next)
  /\ flags' = IF SMART THEN flags \cup {flag} ELSE flags
  /\ UNCHANGED <<message, devicesFile, csv, published, leaked, client, arrivals,
                 subscriber>>

\* Mutant: a failure to store is passed over.
SaveRowSkipped ==
  /\ Goto("save", "publish")
  /\ UNCHANGED <<message, flags, devicesFile, csv, published, leaked, client,
                 arrivals, subscriber>>

SaveRow ==
  /\ Goto("save", "publish")
  /\ csv' = Append(csv, [n |-> message.n, row |-> Row(message.sensor)])
  /\ UNCHANGED <<message, flags, devicesFile, published, leaked, client, arrivals,
                 subscriber>>

\* The readings of the JSON text, formatted by code of their own.
Text(s) ==
  [core_temp |-> Decimal(s.core_temp, 1000), Temperature |-> Decimal(s.Temperature, 10),
   Humidity |-> Decimal(s.Humidity, 10), Luminosity |-> s.Luminosity,
   Battery |-> s.Battery]

\* publish_recv_data(): without a connection the client returns an error code
\* that nothing looks at.
Publish ==
  /\ Goto("publish", "sleep")
  /\ published' =
       IF link
       THEN Append(published, [n |-> message.n, flags |-> flags,
                               text |-> Text(message.sensor)])
       ELSE published
  /\ leaked' = IF link /\ ~SMART /\ flags # {} THEN leaked + 1 ELSE leaked
  /\ UNCHANGED <<message, flags, devicesFile, csv, client, arrivals, subscriber>>

Sleep ==
  /\ Goto("sleep", "recv")
  /\ UNCHANGED <<message, flags, devicesFile, csv, published, leaked, client,
                 arrivals, subscriber>>

Main ==
  \/ Clear \/ Start \/ Receive
  \/ CreateFile \/ WriteFirst \/ AddDevice
  \/ ReadFlag("Light", "AVAC") \/ ReadFlag("AVAC", "save")
  \/ SaveRow \/ Publish \/ Sleep
-----------------------------------------------------------------------------
(* The gateway's MQTT client and its socket *)

\* on_connect() with rc 0; with another code nothing changes.  connect() and
\* loop_start() come after the file is removed.
OnConnect ==
  /\ ~link /\ pc # "clear"
  /\ link' = TRUE
  /\ Connected' = TRUE
  /\ UNCHANGED <<main, devicesFile, SMART, orders, arrivals, subscriber>>

\* The connection is lost; Connected is never reset.
LinkLost ==
  /\ link
  /\ link' = FALSE
  /\ UNCHANGED <<main, devicesFile, Connected, SMART, orders, arrivals, subscriber>>

\* on_message() with a SMART order.
OnMessage(on) ==
  /\ link
  /\ orders < MaxOrders
  /\ orders' = orders + 1
  /\ SMART' = on
  /\ leaked' = 0
  /\ UNCHANGED <<pc, message, flags, devicesFile, csv, published, Connected, link,
                 arrivals, subscriber>>

\* A datagram of the node at the socket, bound once the file is removed; a
\* full socket drops it.
Arrive ==
  /\ pc # "clear" /\ arrived < Len(sends)
  /\ arrived' = arrived + 1
  /\ socket' = IF Len(socket) < SocketSize
               THEN Append(socket, [n |-> arrived', data |-> Bytes(sends[arrived'])])
               ELSE socket
  /\ UNCHANGED <<main, devicesFile, client, sends, subscriber>>
-----------------------------------------------------------------------------
(* The subscriber *)

\* getdevices(), once when the program starts: without a file there are no
\* devices.
LookForFile ==
  /\ at = "isfile"
  /\ at' = IF devicesFile.written THEN "open" ELSE "connect"
  /\ informed' = (csv # <<>>)
  /\ UNCHANGED <<main, devicesFile, client, arrivals, devices, subscribed>>

\* The file is opened and read.  It may be empty still, and the gateway may have
\* removed it since the subscriber saw it: then open() ends the subscriber.
GetDevices ==
  /\ at = "open"
  /\ \/ devicesFile.written /\ at' = "connect" /\ devices' = Words(devicesFile)
     \/ ~devicesFile.written /\ at' = "ended" /\ UNCHANGED devices
  /\ UNCHANGED <<main, devicesFile, client, arrivals, subscribed, informed>>

\* on_connect() subscribes for every device of the list.
Subscribe ==
  /\ at = "connect"
  /\ subscribed' = devices
  /\ UNCHANGED <<main, devicesFile, client, arrivals, at, devices, informed>>

\* The connection is lost and the broker forgets the subscriptions.
Unsubscribed ==
  /\ subscribed # {}
  /\ subscribed' = {}
  /\ UNCHANGED <<main, devicesFile, client, arrivals, at, devices, informed>>

Next ==
  \/ Main
  \/ OnConnect \/ LinkLost
  \/ \E on \in BOOLEAN : OnMessage(on)
  \/ Arrive
  \/ LookForFile \/ GetDevices \/ Subscribe \/ Unsubscribed

Spec == Init /\ [][Next]_vars

\* The main thread runs on and the client connects whenever it is not.
FairSpec == Spec /\ WF_vars(Main) /\ WF_vars(OnConnect)
-----------------------------------------------------------------------------
(* Properties *)

Stored == {csv[i].n : i \in DOMAIN csv}

\* Rows are stored in the order of arrival, none twice; nothing reaches the
\* broker that the file does not have, and the text published carries the
\* readings of its row, though the two are formatted apart.
StoredBeforePublished ==
  /\ \A i, j \in DOMAIN csv : i < j => csv[i].n < csv[j].n
  /\ \A i, j \in DOMAIN published : i < j => published[i].n < published[j].n
  /\ \A i \in DOMAIN published :
       \E j \in DOMAIN csv :
         /\ csv[j].n = published[i].n
         /\ \A f \in DOMAIN published[i].text : published[i].text[f] = csv[j].row[f]

\* After an order that turns SMART off at most the message under construction
\* still carries a flag of the system.
OneStaleMessage == leaked <= 1

\* From a stored row the message it was made of can be put together again, but
\* for the low byte of the battery; the tenths in it read as the number they
\* were made of.
RowDeterminesMessage ==
  \A i \in DOMAIN csv :
    LET row == csv[i].row
    IN  /\ Recovered(row) = Kept(sends[csv[i].n])
        /\ \A d \in {row.Temperature, row.Humidity} : Says(d, 10) = Meant(d, 10)

\* "Convert to network byte order as expected by the UDPServer application":
\* the temperature stored is the temperature sent.
TemperatureArrives ==
  \A i \in DOMAIN csv :
    Meant(csv[i].row.Temperature, 10) = U16(sends[csv[i].n].value2)

\* A subscriber that starts when a row of the node is stored, or later, finds the
\* file and knows the node and no other; one that starts earlier may know it,
\* from a file of an earlier run, and otherwise never will.
SubscriberKnowsNode ==
  LET node == {<<sends[1].id>>}
  IN  /\ subscribed \subseteq node
      /\ informed => at # "ended" /\ (at = "connect" => devices = node)

\* Every datagram the socket took is stored in the end, though the main thread
\* waits for the broker first.
EverythingStored ==
  \A n \in UNION {DOMAIN day : day \in Days} :
    (\E i \in DOMAIN socket : socket[i].n = n) ~> n \in Stored
=============================================================================
