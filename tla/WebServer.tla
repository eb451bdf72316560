----------------------------- MODULE WebServer -----------------------------
(* The web server of the border routers: httpd-simple.c, which serves TCP    *)
(* connections with blocks from a small pool and resets those that send no   *)
(* request for ten seconds, and the protothread that writes the page,        *)
(* generate_routes() of native/host/border-router.c or of border-router.c on *)
(* the embedded router.  Its buffer and cursors are static: every connection *)
(* shares them.  A SEND waits until its segment is acknowledged, and TCP     *)
(* sends a segment again from where it was, the shared buffer included, as   *)
(* it is by then.                                                            *)
(*                                                                           *)
(* A connection keeps the mark of its block until uIP is done with it, which *)
(* may be after its end was reported: a second report frees the block again, *)
(* whoever has it by then.  And uIP drops a connection in FIN_WAIT_2 with no *)
(* report.  The model goes on with both, up to a call of a script that is no *)
(* more or a block that two connections use.                                 *)
EXTENDS Integers, Sequences, FiniteSets, SequencesExt

CONSTANTS
  TcpConns,    \* the connections uIP has room for
  Conns,       \* WEBSERVER_CONF_CFS_CONNS, the blocks struct httpd_state
  Nbrs, Routes, Sensors,  \* the tables on the page, sequences of entries; only
                          \* the native router lists sensors
  FlushAt,     \* entries in buf that make generate_routes() send it
  Timeout,     \* ticks in the ten seconds of s->timer
  MaxRtx,      \* UIP_MAXRTX, the times that uIP sends a segment again
  MaxData,     \* bound on the pieces of data a client sends (model only)
  MaxOpens     \* bound on the connections opened (model only)

AllEntries == Nbrs \o Routes \o Sensors
Texts ==
  {"head", "type", "top", "teste", "Neighbors", "Routes", "end", "Sensors", "bottom"}

ASSUME TablesAssumption ==
  /\ \A table \in {Nbrs, Routes, Sensors} : table \in Seq(ToSet(table))
  /\ Cardinality(ToSet(AllEntries)) = Len(AllEntries)
  /\ Texts \cap ToSet(AllEntries) = {}
ASSUME WebServerAssumption ==
  /\ TcpConns \in Nat /\ Conns \in Nat \ {0}
  /\ FlushAt \in Nat \ {0} /\ Timeout \in Nat \ {0}
  /\ MaxRtx \in Nat /\ MaxData \in Nat /\ MaxOpens \in Nat

NULL == 0
Clients == 1..TcpConns
Blocks == 1..Conns
NoBlock == 0

VARIABLES
  conn,      \* each connection: "none", "open", after uip_close() "finwait", and
             \* with its end reported already "lastack" or "timewait"
  block,     \* the block each connection was marked with
  inUse,     \* the blocks taken from the pool
  pc,        \* where each connection waits: for the request ("input", the state
             \* STATE_WAITING) or, in STATE_OUTPUT, for a segment's acknowledgement
  script,    \* s->script is not NULL
  segment,   \* what that segment was when it was sent, every time until the
             \* connection is shared; whether it is in buf; and its length
  nrtx,      \* how often uIP has sent it again
  quiet,     \* ticks since s->timer was last set, while a request is awaited: only
             \* uip_poll() looks, and uIP polls only with nothing to be acknowledged
  static,    \* buf, blen and the cursors of generate_routes(), and the router it
             \* is compiled for, "native" or "embedded"
  running,   \* no script that is NULL was called, no block has two users
  lost,      \* history: the blocks of connections that were dropped unreported
  robbed,    \* history: the connections whose block the report of another freed
  page,      \* history: what each client was sent, while it was the only one
  shared,    \* history: another connection was being written to meanwhile
  data, opens   \* history: for the bounds

blocks == <<inUse, lost, robbed>>
bounds == <<data, opens>>
vars == <<conn, block, blocks, pc, script, segment, nrtx, quiet, static, running,
          page, shared, bounds>>

OutputPcs ==
  {"head", "type", "top", "nbrs", "routehdr", "routes", "end", "sensorhdr", "sensors",
   "lastend", "bottom"}
Pieces == ToSet(AllEntries) \cup Texts

TypeOK ==
  /\ conn \in [Clients -> {"none", "open", "finwait", "lastack", "timewait"}]
  /\ block \in [Clients -> Blocks \cup {NoBlock}]
  /\ inUse \subseteq Blocks /\ lost \subseteq Blocks /\ robbed \subseteq Clients
  /\ pc \in [Clients -> OutputPcs \cup {"input", "done"}]
  /\ script \in [Clients -> BOOLEAN] /\ running \in BOOLEAN
  /\ nrtx \in [Clients -> 0..MaxRtx] /\ quiet \in [Clients -> 0..Timeout]
  /\ static.build \in {"native", "embedded"}
  /\ static.buf \in Seq(Pieces) /\ static.blen \in 0..Len(static.buf)
  /\ static.nbr \in NULL..Len(Nbrs) /\ static.r \in NULL..Len(Routes)
  /\ static.i \in 0..Len(Sensors)
  /\ \A c \in Clients : segment[c].copies \subseteq Seq(Pieces)
  /\ page \in [Clients -> Seq(Pieces)]
  /\ shared \in [Clients -> BOOLEAN]

NoSegment == [copies |-> {}, inBuf |-> FALSE, len |-> 0]

Init ==
  /\ conn = [c \in Clients |-> "none"] /\ block = [c \in Clients |-> NoBlock]
  /\ inUse = {} /\ lost = {} /\ robbed = {} /\ running = TRUE
  /\ script = [c \in Clients |-> FALSE] /\ nrtx = [c \in Clients |-> 0]
  /\ pc = [c \in Clients |-> "done"] /\ segment = [c \in Clients |-> NoSegment]
  /\ quiet = [c \in Clients |-> 0]
  /\ static \in {[build |-> b, buf |-> <<>>, blen |-> 0, nbr |-> NULL, r |-> NULL,
                  i |-> 0] : b \in {"native", "embedded"}}
  /\ page = [c \in Clients |-> <<>>] /\ shared = [c \in Clients |-> FALSE]
  /\ data = [c \in Clients |-> 0] /\ opens = 0
-----------------------------------------------------------------------------
(* generate_routes().  Each step below, given the static variables g, is what *)
(* the thread does from one acknowledgement to the next SEND: where it then   *)
(* waits, the static variables and the segment it sent.                       *)

\* ADD(): the text goes to buf + blen; what the memory holds behind it stays.
\* All texts count as equally long.
Add(g, xs) ==
  LET grown == g.blen + Len(xs) IN
  [g EXCEPT !.buf = SubSeq(g.buf, 1, g.blen) \o xs \o SubSeq(g.buf, grown + 1, Len(g.buf)),
            !.blen = grown]

Reset(g) == [g EXCEPT !.blen = 0]

SendBuf(where, g) ==
  [pc |-> where, static |-> g,
   segment |-> [copies |-> {SubSeq(g.buf, 1, g.blen)}, inBuf |-> TRUE, len |-> g.blen]]
SendText(where, g, text) ==
  [pc |-> where, static |-> g,
   segment |-> [copies |-> {<<text>>}, inBuf |-> FALSE, len |-> 1]]

\* The loop over the neighbours from n on, up to the SEND of a full buffer, or
\* to the end of the table and the SEND that follows.
Neighbours(g, n) ==
  LET room == IF g.blen < FlushAt THEN FlushAt - g.blen ELSE 1
      last == n + room - 1
  IN  IF last <= Len(Nbrs)
      THEN SendBuf("nbrs", [Add(g, SubSeq(Nbrs, n, last)) EXCEPT !.nbr = last])
      ELSE SendBuf("routehdr", [Add(g, SubSeq(Nbrs, n, Len(Nbrs)) \o <<"Routes">>)
                                  EXCEPT !.nbr = NULL])

\* uip_ds6_route_next() of NULL is NULL; nbr_table_next() of NULL is the first.
NextRoute(r) == IF r = NULL \/ r = Len(Routes) THEN NULL ELSE r + 1

\* Mutant: the loop does not stop after the last route.
RouteUnchecked(g, r) == SendBuf("routes", [Add(g, <<"Routes">>) EXCEPT !.r = r + 1])

\* A round of the loop over the routes, or what follows its end.
Route(g, r) ==
  IF r # NULL THEN SendBuf("routes", [Add(g, <<Routes[r]>>) EXCEPT !.r = r])
  ELSE SendBuf("end", [Add(g, <<"end">>) EXCEPT !.r = NULL])

Sensor(g, i) ==
  IF i <= Len(Sensors) THEN SendBuf("sensors", [Add(g, <<Sensors[i]>>) EXCEPT !.i = i])
  ELSE SendBuf("lastend", Add(g, <<"end">>))

Bottom(g) == SendText("bottom", g, "bottom")

\* Mutant: the buffer is not emptied after a route was sent.
NativeResumeKeepsRoute(where, g) ==
  CASE where = "head"      -> SendText("type", g, "type")
    [] where = "type"      -> SendText("top", g, "top")
    [] where = "top"       -> Neighbours(Add(Reset(g), <<"Neighbors">>), 1)
    [] where = "nbrs"      -> Neighbours(Reset(g), g.nbr + 1)
    [] where = "routehdr"  -> Route(Reset(g), IF Routes = <<>> THEN NULL ELSE 1)
    [] where = "routes"    -> Route(g, NextRoute(g.r))
    [] where = "end"       -> IF Sensors = <<>> THEN Bottom(g)
                              ELSE SendBuf("sensorhdr", Add(g, <<"Sensors">>))
    [] where = "sensorhdr" -> Sensor(Reset(g), 1)
    [] where = "sensors"   -> Sensor(Reset(g), g.i + 1)
    [] where = "lastend"   -> Bottom(g)

\* From the SEND the thread waits in to the next one; the first two are those of
\* send_headers().
NativeResume(where, g) ==
  CASE where = "head"      -> SendText("type", g, "type")
    [] where = "type"      -> SendText("top", g, "top")
    [] where = "top"       -> Neighbours(Add(Reset(g), <<"Neighbors">>), 1)
    [] where = "nbrs"      -> Neighbours(Reset(g), g.nbr + 1)
    [] where = "routehdr"  -> Route(Reset(g), IF Routes = <<>> THEN NULL ELSE 1)
    [] where = "routes"    -> Route(Reset(g), NextRoute(g.r))
    [] where = "end"       -> IF Sensors = <<>> THEN Bottom(g)
                              ELSE SendBuf("sensorhdr", Add(g, <<"Sensors">>))
    [] where = "sensorhdr" -> Sensor(Reset(g), 1)
    [] where = "sensors"   -> Sensor(Reset(g), g.i + 1)
    [] where = "lastend"   -> Bottom(g)

\* The embedded router adds a text to whatever the buffer holds before it
\* empties it, and lists no sensors.
EmbeddedResume(where, g) ==
  CASE where = "top" -> NativeResume("top", Add(g, <<"teste">>))
    [] where = "end" -> Bottom(g)
    [] OTHER         -> NativeResume(where, g)

Resume(where, g) ==
  IF g.build = "native" THEN NativeResume(where, g) ELSE EmbeddedResume(where, g)
-----------------------------------------------------------------------------
(* httpd_appcall(), one action per event. *)

Writing(c) == conn[c] = "open" /\ pc[c] \in OutputPcs
Holds(c) == conn[c] \in {"open", "finwait"}

\* handle_output() has a script to call, or is still at the headers.
HasScript(c) == script[c] \/ pc[c] \in {"input", "head", "type"}

\* uip_connected(): the first free block is taken and set up, or the connection
\* is reset.  uIP gives a new connection the first free place.  A block freed by
\* the report of another connection may still have its user.
Connected(c) ==
  /\ conn[c] = "none" /\ \A d \in 1..(c - 1) : conn[d] # "none"
  /\ opens < MaxOpens
  /\ opens' = opens + 1
  /\ \/ /\ \E b \in Blocks \ inUse :
             /\ \A free \in Blocks \ inUse : b <= free
             /\ inUse' = inUse \cup {b} /\ block' = [block EXCEPT ![c] = b]
             /\ running' = (\A d \in Clients : Holds(d) => block[d] # b)
        /\ conn' = [conn EXCEPT ![c] = "open"]
        /\ pc' = [pc EXCEPT ![c] = "input"]
     \/ inUse = Blocks /\ UNCHANGED <<conn, block, inUse, pc, running>>
  /\ UNCHANGED <<script, segment, nrtx, quiet, static, lost, robbed, page, shared,
                 data>>

\* uip_newdata(): the timer starts again and handle_input() reads.
Data(c) ==
  /\ conn[c] = "open"
  /\ data[c] < MaxData
  /\ data' = [data EXCEPT ![c] = @ + 1]
  /\ quiet' = [quiet EXCEPT ![c] = 0]
  /\ UNCHANGED <<block, blocks, nrtx, static, running, opens>>

\* The request line is not complete yet, or more of the header comes in.
MoreData(c) ==
  /\ Data(c)
  /\ HasScript(c)
  /\ UNCHANGED <<conn, pc, script, segment, page, shared>>

\* Not a GET of a path: PSOCK_CLOSE_EXIT().
BadRequest(c) ==
  /\ Data(c)
  /\ pc[c] = "input"
  /\ conn' = [conn EXCEPT ![c] = "finwait"]
  /\ UNCHANGED <<pc, script, segment, page, shared>>

\* The request line is complete: STATE_OUTPUT, and handle_output() gets the
\* script and sends the first of the headers.
Request(c) ==
  /\ Data(c)
  /\ pc[c] = "input"
  /\ pc' = [pc EXCEPT ![c] = "head"]
  /\ script' = [script EXCEPT ![c] = TRUE]
  /\ segment' = [segment EXCEPT ![c] = SendText("head", static, "head").segment]
  /\ shared' = [d \in Clients |->
                  shared[d] \/ (d = c /\ \E e \in Clients \ {c} : Writing(e))
                            \/ (d # c /\ Writing(d))]
  /\ page' = [d \in Clients |-> IF shared'[d] THEN <<>> ELSE page[d]]
  /\ UNCHANGED conn

\* uip_acked(): the client has the segment as it was one of the times it was
\* sent; the thread goes on, and closes the connection after the last one.
Acked(c) ==
  /\ Writing(c)
  /\ script[c] \/ pc[c] = "head"
  /\ \E copy \in segment[c].copies :
       page' = [page EXCEPT ![c] = IF shared[c] THEN @ ELSE @ \o copy]
  /\ nrtx' = [nrtx EXCEPT ![c] = 0]
  /\ \/ /\ pc[c] = "bottom"
        /\ pc' = [pc EXCEPT ![c] = "done"]
        /\ conn' = [conn EXCEPT ![c] = "finwait"]
        /\ script' = [script EXCEPT ![c] = FALSE]
        /\ segment' = [segment EXCEPT ![c] = NoSegment]
        /\ UNCHANGED static
     \/ LET next == Resume(pc[c], static) IN
        /\ pc[c] # "bottom"
        /\ pc' = [pc EXCEPT ![c] = next.pc]
        /\ segment' = [segment EXCEPT ![c] = next.segment]
        /\ static' = next.static
        /\ UNCHANGED <<conn, script>>
  /\ UNCHANGED <<block, blocks, quiet, running, shared, bounds>>

\* uip_rexmit(): the segment goes out again, from buf as it is now.
Rexmit(c) ==
  /\ Writing(c)
  /\ nrtx[c] < MaxRtx
  /\ HasScript(c)
  /\ nrtx' = [nrtx EXCEPT ![c] = @ + 1]
  /\ segment' = IF segment[c].inBuf /\ ~shared[c]
                THEN [segment EXCEPT ![c].copies =
                        @ \cup {SubSeq(static.buf, 1, segment[c].len)}]
                ELSE segment
  /\ UNCHANGED <<conn, block, blocks, pc, script, quiet, static, running, page, shared,
                 bounds>>

\* uip_acked(), uip_rexmit() or uip_newdata(), and handle_output() calls s->script
\* after the report of another connection set it to NULL: the program is over.
NullScript(c) ==
  /\ Writing(c)
  /\ ~script[c] /\ pc[c] # "head"
  /\ running' = FALSE
  /\ UNCHANGED <<conn, block, blocks, pc, script, segment, nrtx, quiet, static, page,
                 shared, bounds>>

Waits(c) == conn[c] = "open" /\ pc[c] = "input" /\ quiet[c] < Timeout
Tick ==
  /\ \E c \in Clients : Waits(c)
  /\ quiet' = [c \in Clients |-> IF Waits(c) THEN quiet[c] + 1 ELSE quiet[c]]
  /\ UNCHANGED <<conn, block, blocks, pc, script, segment, nrtx, static, running, page,
                 shared, bounds>>

\* The application is done with a connection, which uIP may still keep; what is
\* kept of it starts from here the next time.
Forget(c, next) ==
  /\ conn' = [conn EXCEPT ![c] = next]
  /\ block' = IF next = "none" THEN [block EXCEPT ![c] = NoBlock] ELSE block
  /\ robbed' = robbed \ {c}
  /\ pc' = [pc EXCEPT ![c] = "done"] /\ script' = [script EXCEPT ![c] = FALSE]
  /\ segment' = [segment EXCEPT ![c] = NoSegment]
  /\ nrtx' = [nrtx EXCEPT ![c] = 0] /\ quiet' = [quiet EXCEPT ![c] = 0]
  /\ page' = [page EXCEPT ![c] = <<>>] /\ shared' = [shared EXCEPT ![c] = FALSE]
  /\ data' = [data EXCEPT ![c] = 0]
  /\ UNCHANGED <<static, running, opens>>

\* The script is set to NULL and the block freed.
Release(c, next) ==
  Forget(c, next) /\ inUse' = inUse \ {block[c]} /\ UNCHANGED lost

\* Mutants: the block is not freed; the timer is restarted by the poll too.
PollKeepsBlock(c) ==
  /\ conn[c] = "open" /\ pc[c] = "input"
  /\ quiet[c] = Timeout
  /\ Forget(c, "none")
  /\ UNCHANGED <<inUse, lost>>

PollRestarts(c) ==
  /\ conn[c] = "open" /\ pc[c] = "input"
  /\ quiet[c] = Timeout
  /\ quiet' = [quiet EXCEPT ![c] = 0]
  /\ UNCHANGED <<conn, block, blocks, pc, script, segment, nrtx, static, running, page,
                 shared, bounds>>

\* uip_poll() with the timer expired, while a request is awaited: the connection
\* is reset and the block freed, on which handle_input() then goes on waiting.
Poll(c) ==
  /\ conn[c] = "open" /\ pc[c] = "input"
  /\ quiet[c] = Timeout
  /\ Release(c, "none")

\* uip_timedout(): the segment, or the FIN of uip_close(), is never acknowledged.
TimedOut(c) ==
  /\ (Writing(c) /\ nrtx[c] = MaxRtx) \/ conn[c] = "finwait"
  /\ Release(c, "none")

\* uip_aborted(): the client resets the connection.
Aborted(c) == Holds(c) /\ Release(c, "none")

\* uip_closed(): the FIN of the client, with all it was sent acknowledged.
Closed(c) ==
  \/ conn[c] = "open" /\ Release(c, "lastack")
  \/ conn[c] = "finwait" /\ Release(c, "timewait")

\* The client acknowledges the FIN of uip_close() but sends none: uIP drops the
\* connection after a time, with no report.
Dropped(c) ==
  /\ conn[c] = "finwait"
  /\ lost' = IF c \in robbed THEN lost ELSE lost \cup {block[c]}
  /\ Forget(c, "none")
  /\ UNCHANGED inUse

\* The end of a connection is reported again: uip_closed() with the last
\* acknowledgement, uip_aborted() or uip_timedout().  The block is no longer its
\* own, and may be one that another connection has.
ReportedAgain(c) ==
  LET users == {d \in Clients : Holds(d) /\ block[d] = block[c]} IN
  /\ conn[c] \in {"lastack", "timewait"}
  /\ conn' = [conn EXCEPT ![c] = "none"] /\ block' = [block EXCEPT ![c] = NoBlock]
  /\ script' = [d \in Clients |-> script[d] /\ d \notin users]
  /\ inUse' = inUse \ {block[c]}
  /\ robbed' = robbed \cup users
  /\ lost' = lost \ {block[c]}
  /\ UNCHANGED <<pc, segment, nrtx, quiet, static, running, page, shared, bounds>>

\* The end of TIME_WAIT.
Expires(c) ==
  /\ conn[c] = "timewait"
  /\ conn' = [conn EXCEPT ![c] = "none"] /\ block' = [block EXCEPT ![c] = NoBlock]
  /\ UNCHANGED <<blocks, pc, script, segment, nrtx, quiet, static, running, page,
                 shared, bounds>>

Next ==
  /\ running
  /\ \/ \E c \in Clients :
          \/ Connected(c)
          \/ MoreData(c) \/ BadRequest(c) \/ Request(c)
          \/ Acked(c) \/ Rexmit(c) \/ NullScript(c)
          \/ Poll(c) \/ TimedOut(c) \/ Aborted(c) \/ Closed(c) \/ Dropped(c)
          \/ ReportedAgain(c) \/ Expires(c)
     \/ Tick

Spec == Init /\ [][Next]_vars

\* Time passes, uIP polls the connections that wait for a request and sends again
\* what is not acknowledged, and ends those that were closed.
FairSpec ==
  /\ Spec
  /\ WF_vars(running /\ Tick)
  /\ \A c \in Clients :
       /\ WF_vars(running /\ Poll(c))
       /\ WF_vars(running /\ (Rexmit(c) \/ NullScript(c)))
       /\ WF_vars(running /\ (TimedOut(c) \/ Dropped(c)))
       /\ WF_vars(running /\ (ReportedAgain(c) \/ Expires(c)))
-----------------------------------------------------------------------------
(* Properties *)

\* The pool and the connections agree while the program runs: no block has two
\* users or a user and none, and the blocks in use are those of connections that
\* the application is not done with, except for the blocks that the second report
\* of another connection freed, and those that were lost with a connection that
\* uIP dropped unreported.
BlocksAccounted ==
  LET users == {c \in Clients : Holds(c)} IN
  running =>
    /\ inUse = {block[c] : c \in users \ robbed} \cup lost
    /\ \A c, d \in users : block[c] = block[d] => c = d
    /\ \A c \in users : block[c] \notin lost

\* The entries that a page should have, and whether p has those from the m-th
\* to the n-th of some, once and in order, and no others.
Expected == Nbrs \o Routes \o (IF static.build = "native" THEN Sensors ELSE <<>>)
Lists(p, m, n, all) ==
  LET entries == {i \in DOMAIN p : p[i] \in ToSet(AllEntries)} IN
  /\ {p[i] : i \in entries} = {all[k] : k \in m..n}
  /\ \A i, j \in entries :
       i < j => \E k, l \in m..n : k < l /\ p[i] = all[k] /\ p[j] = all[l]

\* A page written while no other connection is written to has every entry of
\* the tables once and in order, whatever earlier connections left in the static
\* buffer and cursors and however often segments were sent again.
PageAloneComplete ==
  \A c \in Clients :
    Holds(c) /\ ~shared[c] =>
      \E n \in 0..Len(Expected) :
        /\ Lists(page[c], 1, n, Expected)
        /\ pc[c] = "done" => n = Len(Expected)

\* A connection whose client falls silent is over in the end, whether it waits for
\* the request, for an acknowledgement, or for the client to close.
EveryConnectionEnds ==
  \A c \in Clients : conn[c] # "none" ~> conn[c] = "none" \/ ~running
=============================================================================
