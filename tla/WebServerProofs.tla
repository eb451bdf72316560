-------------------------- MODULE WebServerProofs ---------------------------
(* Theorems about the web server, for any number of connections and blocks,  *)
(* any tables and any size of the buffer.                                    *)
EXTENDS WebServer, SequenceTheorems, TLAPS

Segments == [copies : SUBSET Seq(Pieces), inBuf : BOOLEAN, len : Nat]

\* What the static variables can be: what is in use of buf is part of it.
Statics ==
  {g \in [build : {"native", "embedded"}, buf : Seq(Pieces), blen : Nat,
          nbr : 0..Len(Nbrs), r : 0..Len(Routes), i : 0..Len(Sensors)] :
     g.blen <= Len(g.buf)}

\* A segment that is sent again from the buffer is within what the memory of
\* the buffer was ever given: that memory is never taken back.
TypeInv ==
  /\ conn \in [Clients -> {"none", "open", "finwait", "lastack", "timewait"}]
  /\ block \in [Clients -> Blocks \cup {NoBlock}]
  /\ \A c \in Clients : conn[c] # "none" => block[c] \in Blocks
  /\ inUse \subseteq Blocks /\ lost \subseteq Blocks /\ robbed \subseteq Clients
  /\ pc \in [Clients -> OutputPcs \cup {"input", "done"}]
  /\ script \in [Clients -> BOOLEAN] /\ running \in BOOLEAN
  /\ nrtx \in [Clients -> 0..MaxRtx] /\ quiet \in [Clients -> 0..Timeout]
  /\ static \in Statics
  /\ segment \in [Clients -> Segments]
  /\ \A c \in Clients : segment[c].inBuf => segment[c].len <= Len(static.buf)
  /\ page \in [Clients -> Seq(Pieces)] /\ shared \in [Clients -> BOOLEAN]

\* The connections that have a block each have their own.  The blocks in use are
\* theirs, unless they were robbed of them, and those that were lost.
Holders == {c \in Clients : Holds(c)}
BlockInv ==
  running =>
    /\ robbed \subseteq Holders
    /\ inUse = {block[c] : c \in Holders \ robbed} \cup lost
    /\ \A c, d \in Holders : block[c] = block[d] => c = d
    /\ \A c \in Holders : block[c] \notin lost

WebInv == TypeInv /\ BlockInv
-----------------------------------------------------------------------------
(* The page *)

\* A step of generate_routes() from the static variables g: those it leaves and
\* the segment it sends are as they should be, and the buffer's memory and the
\* router the thread is compiled for stay.
Sound(g, next) ==
  /\ next.pc \in OutputPcs
  /\ next.static \in Statics /\ Len(next.static.buf) >= Len(g.buf)
  /\ next.static.build = g.build
  /\ next.segment \in Segments
  /\ next.segment.inBuf => next.segment.len <= Len(next.static.buf)

\* The entries of a concatenation are those of its parts.
LEMMA ConcatEntries ==
  ASSUME NEW S, NEW s \in Seq(S), NEW t \in Seq(S)
  PROVE  /\ s \o t \in Seq(S)
         /\ ToSet(s) \subseteq ToSet(s \o t) /\ ToSet(t) \subseteq ToSet(s \o t)
<1> DEFINE u == s \o t
<1>1. /\ u \in Seq(S) /\ Len(u) = Len(s) + Len(t)
      /\ \A k \in 1..(Len(s) + Len(t)) :
            u[k] = IF k <= Len(s) THEN s[k] ELSE t[k - Len(s)]
  BY ConcatProperties
<1> HIDE DEF u
<1>2. /\ DOMAIN s = 1..Len(s) /\ DOMAIN t = 1..Len(t) /\ DOMAIN u = 1..Len(u)
      /\ Len(s) \in Nat /\ Len(t) \in Nat
  BY <1>1, LenProperties
<1>3. ASSUME NEW k \in DOMAIN s PROVE s[k] \in ToSet(u)
  <2>1. k \in DOMAIN u /\ u[k] = s[k]
    BY <1>1, <1>2
  <2> QED BY <2>1 DEF ToSet
<1>4. ASSUME NEW k \in DOMAIN t PROVE t[k] \in ToSet(u)
  <2>1. PICK l \in Nat : l = k + Len(s)
    BY <1>2
  <2>2. l \in DOMAIN u /\ u[l] = t[k]
    BY <1>1, <1>2, <2>1
  <2> QED BY <2>2 DEF ToSet
<1>5. ToSet(s) \subseteq ToSet(u) /\ ToSet(t) \subseteq ToSet(u)
  BY <1>3, <1>4 DEF ToSet
<1> QED BY <1>1, <1>5 DEF u

LEMMA TablesFacts ==
  /\ Nbrs \in Seq(Pieces) /\ Routes \in Seq(Pieces) /\ Sensors \in Seq(Pieces)
  /\ Texts \subseteq Pieces
<1> DEFINE nr == Nbrs \o Routes
           S == ToSet(Nbrs) \cup ToSet(Routes) \cup ToSet(Sensors)
<1>1. Nbrs \in Seq(ToSet(Nbrs)) /\ Routes \in Seq(ToSet(Routes)) /\ Sensors \in Seq(ToSet(Sensors))
  BY TablesAssumption
<1>2. Nbrs \in Seq(S) /\ Routes \in Seq(S) /\ Sensors \in Seq(S)
  BY <1>1, SeqMonotonic
<1> HIDE DEF S
<1>3. nr \in Seq(S) /\ ToSet(Nbrs) \subseteq ToSet(nr) /\ ToSet(Routes) \subseteq ToSet(nr)
  BY <1>2, ConcatEntries
<1> HIDE DEF nr
<1>4. ToSet(nr) \subseteq ToSet(nr \o Sensors) /\ ToSet(Sensors) \subseteq ToSet(nr \o Sensors)
  BY <1>2, <1>3, ConcatEntries
<1>5. AllEntries = nr \o Sensors
  BY DEF AllEntries, nr
<1>6. S \subseteq Pieces
  BY <1>3, <1>4, <1>5 DEF S, Pieces
<1> QED BY <1>2, <1>6, SeqMonotonic DEF Pieces

\* A part of a sequence of pieces is one.
LEMMA PartOfBuf ==
  ASSUME NEW s \in Seq(Pieces), NEW m \in Nat \ {0}, NEW n \in Nat, n <= Len(s)
  PROVE  /\ SubSeq(s, m, n) \in Seq(Pieces)
         /\ Len(SubSeq(s, m, n)) = IF m <= n THEN n - m + 1 ELSE 0
<1>1. \A k \in m..n : s[k] \in Pieces
  BY LenProperties, ElementOfSeq
<1> QED BY <1>1, SubSeqProperties

\* ADD() keeps the static variables what they are, and keeps the memory.
LEMMA AddType ==
  ASSUME NEW g \in Statics, NEW xs \in Seq(Pieces)
  PROVE  /\ Add(g, xs) \in Statics /\ Len(Add(g, xs).buf) >= Len(g.buf)
         /\ Add(g, xs).build = g.build
<1>1. /\ g.buf \in Seq(Pieces) /\ g.blen \in Nat /\ g.blen <= Len(g.buf)
      /\ Len(g.buf) \in Nat /\ Len(xs) \in Nat
  BY LenProperties DEF Statics
<1>2. PICK grown \in Nat : grown = g.blen + Len(xs)
  BY <1>1
<1> DEFINE before == SubSeq(g.buf, 1, g.blen)
           after == SubSeq(g.buf, grown + 1, Len(g.buf))
           first == before \o xs
           all == first \o after
<1>3. before \in Seq(Pieces) /\ Len(before) = g.blen
  BY <1>1, PartOfBuf
<1>4. after \in Seq(Pieces) /\ Len(after) = IF grown + 1 <= Len(g.buf) THEN Len(g.buf) - grown ELSE 0
  <2>1. grown + 1 \in Nat \ {0} /\ Len(g.buf) <= Len(g.buf)
    BY <1>1
  <2>2. after \in Seq(Pieces)
        /\ Len(after) = IF grown + 1 <= Len(g.buf) THEN Len(g.buf) - (grown + 1) + 1 ELSE 0
    BY <1>1, <2>1, PartOfBuf
  <2> QED BY <1>1, <2>2
<1> HIDE DEF before, after
<1>5. first \in Seq(Pieces) /\ Len(first) = grown
  BY <1>1, <1>2, <1>3, ConcatProperties
<1> HIDE DEF first
<1>6. all \in Seq(Pieces) /\ Len(all) = grown + Len(after)
  BY <1>4, <1>5, ConcatProperties
<1>7. Add(g, xs) = [g EXCEPT !.buf = all, !.blen = grown]
  BY <1>2 DEF Add, all, first, before, after
<1> HIDE DEF all
<1>8. Len(all) >= Len(g.buf) /\ grown <= Len(all)
  BY <1>1, <1>4, <1>6
<1> QED BY <1>2, <1>6, <1>7, <1>8 DEF Statics

\* ADD() and then a cursor that is set.
LEMMA CursorType ==
  ASSUME NEW g \in Statics
  PROVE  /\ \A k \in 0..Len(Nbrs) : [g EXCEPT !.nbr = k] \in Statics
         /\ \A k \in 0..Len(Routes) : [g EXCEPT !.r = k] \in Statics
         /\ \A k \in 0..Len(Sensors) : [g EXCEPT !.i = k] \in Statics
         /\ Reset(g) \in Statics /\ Reset(g).buf = g.buf /\ Reset(g).build = g.build
<1>1. g.buf \in Seq(Pieces) /\ Len(g.buf) \in Nat
  BY LenProperties DEF Statics
<1> QED BY <1>1 DEF Statics, Reset

LEMMA SendSound ==
  ASSUME NEW g0 \in Statics, NEW g \in Statics, Len(g.buf) >= Len(g0.buf),
         g.build = g0.build,
         NEW where \in OutputPcs
  PROVE  /\ Sound(g0, SendBuf(where, g))
         /\ \A text \in Texts : Sound(g0, SendText(where, g, text))
<1>1. g.buf \in Seq(Pieces) /\ g.blen \in Nat /\ g.blen <= Len(g.buf)
  BY DEF Statics
<1>2. SubSeq(g.buf, 1, g.blen) \in Seq(Pieces)
  BY <1>1, PartOfBuf
<1>3. Sound(g0, SendBuf(where, g))
  BY <1>1, <1>2 DEF Sound, SendBuf, Segments
<1>4. ASSUME NEW text \in Texts PROVE Sound(g0, SendText(where, g, text))
  <2>1. <<text>> \in Seq(Pieces)
    BY TablesFacts
  <2> QED BY <2>1 DEF Sound, SendText, Segments
<1> QED BY <1>3, <1>4

LEMMA NeighboursSound ==
  ASSUME NEW g0 \in Statics, NEW g \in Statics, Len(g.buf) >= Len(g0.buf),
         g.build = g0.build,
         NEW n \in 1..(Len(Nbrs) + 1)
  PROVE  Sound(g0, Neighbours(g, n))
<1>1. Nbrs \in Seq(Pieces) /\ Len(Nbrs) \in Nat /\ Len(g.buf) \in Nat /\ Len(g0.buf) \in Nat
      /\ g.blen \in Nat
  BY TablesFacts, LenProperties DEF Statics
<1> DEFINE room == IF g.blen < FlushAt THEN FlushAt - g.blen ELSE 1
<1>2. PICK last \in Nat : last = n + room - 1 /\ last >= n
  BY <1>1, WebServerAssumption
<1>3. CASE last <= Len(Nbrs)
  <2> DEFINE xs == SubSeq(Nbrs, n, last)
  <2>1. xs \in Seq(Pieces)
    BY <1>1, <1>2, <1>3, PartOfBuf
  <2> HIDE DEF xs
  <2>2. PICK h : h = Add(g, xs)
    OBVIOUS
  <2>3. h \in Statics /\ Len(h.buf) >= Len(g.buf) /\ h.build = g.build
    BY <2>1, <2>2, AddType
  <2>4. PICK k : k = [h EXCEPT !.nbr = last]
    OBVIOUS
  <2>5. k \in Statics /\ k.buf = h.buf /\ k.build = h.build
    <3>1. last \in 0..Len(Nbrs)
      BY <1>1, <1>3
    <3> QED BY <2>3, <2>4, <3>1, CursorType DEF Statics
  <2>6. Len(k.buf) >= Len(g0.buf)
    <3>1. Len(h.buf) \in Nat
      BY <2>3, LenProperties DEF Statics
    <3> QED BY <1>1, <2>3, <2>5, <3>1
  <2>7. Sound(g0, SendBuf("nbrs", k))
    BY <2>3, <2>5, <2>6, SendSound DEF OutputPcs
  <2>8. Neighbours(g, n) = SendBuf("nbrs", k)
    BY <1>2, <1>3, <2>2, <2>4 DEF Neighbours, xs
  <2> QED BY <2>7, <2>8
<1>4. CASE ~(last <= Len(Nbrs))
  <2> DEFINE rest == SubSeq(Nbrs, n, Len(Nbrs))
             xs == rest \o <<"Routes">>
  <2>1. rest \in Seq(Pieces)
    BY <1>1, PartOfBuf
  <2> HIDE DEF rest
  <2>2. xs \in Seq(Pieces)
    <3>1. <<"Routes">> \in Seq(Pieces)
      BY TablesFacts DEF Texts
    <3> QED BY <2>1, <3>1, ConcatProperties
  <2> HIDE DEF xs
  <2>3. PICK h : h = Add(g, xs)
    OBVIOUS
  <2>4. h \in Statics /\ Len(h.buf) >= Len(g.buf) /\ h.build = g.build
    BY <2>2, <2>3, AddType
  <2>5. PICK k : k = [h EXCEPT !.nbr = NULL]
    OBVIOUS
  <2>6. k \in Statics /\ k.buf = h.buf /\ k.build = h.build
    <3>1. NULL \in 0..Len(Nbrs)
      BY <1>1 DEF NULL
    <3> QED BY <2>4, <2>5, <3>1, CursorType DEF Statics
  <2>7. Len(k.buf) >= Len(g0.buf)
    <3>1. Len(h.buf) \in Nat
      BY <2>4, LenProperties DEF Statics
    <3> QED BY <1>1, <2>4, <2>6, <3>1
  <2>8. Sound(g0, SendBuf("routehdr", k))
    BY <2>4, <2>6, <2>7, SendSound DEF OutputPcs
  <2>9. Neighbours(g, n) = SendBuf("routehdr", k)
    BY <1>2, <1>4, <2>3, <2>5 DEF Neighbours, xs, rest
  <2> QED BY <2>8, <2>9
<1> QED BY <1>3, <1>4

\* What a round of the loops over routes and sensors adds is one text or entry.
LEMMA AddOneSound ==
  ASSUME NEW g0 \in Statics, NEW g \in Statics, Len(g.buf) >= Len(g0.buf),
         g.build = g0.build, NEW x \in Pieces
  PROVE  /\ \A k \in 0..Len(Routes), where \in OutputPcs :
               Sound(g0, SendBuf(where, [Add(g, <<x>>) EXCEPT !.r = k]))
         /\ \A k \in 0..Len(Sensors), where \in OutputPcs :
               Sound(g0, SendBuf(where, [Add(g, <<x>>) EXCEPT !.i = k]))
         /\ \A where \in OutputPcs : Sound(g0, SendBuf(where, Add(g, <<x>>)))
<1>1. PICK h : h = Add(g, <<x>>)
  OBVIOUS
<1>2. h \in Statics /\ Len(h.buf) >= Len(g0.buf) /\ h.build = g0.build
  <2>0. <<x>> \in Seq(Pieces)
    OBVIOUS
  <2>1. h \in Statics /\ Len(h.buf) >= Len(g.buf) /\ h.build = g.build
    BY <1>1, <2>0, AddType
  <2>2. Len(h.buf) \in Nat /\ Len(g.buf) \in Nat /\ Len(g0.buf) \in Nat
    BY <2>1, LenProperties DEF Statics
  <2> QED BY <2>1, <2>2
<1>3. ASSUME NEW where \in OutputPcs PROVE Sound(g0, SendBuf(where, h))
  BY <1>2, SendSound
<1>4. ASSUME NEW k \in 0..Len(Routes), NEW where \in OutputPcs
      PROVE  Sound(g0, SendBuf(where, [h EXCEPT !.r = k]))
  <2>1. PICK e : e = [h EXCEPT !.r = k]
    OBVIOUS
  <2>2. e \in Statics /\ e.buf = h.buf /\ e.build = h.build
    BY <1>2, <2>1, CursorType DEF Statics
  <2> QED BY <1>2, <2>1, <2>2, SendSound
<1>5. ASSUME NEW k \in 0..Len(Sensors), NEW where \in OutputPcs
      PROVE  Sound(g0, SendBuf(where, [h EXCEPT !.i = k]))
  <2>1. PICK e : e = [h EXCEPT !.i = k]
    OBVIOUS
  <2>2. e \in Statics /\ e.buf = h.buf /\ e.build = h.build
    BY <1>2, <2>1, CursorType DEF Statics
  <2> QED BY <1>2, <2>1, <2>2, SendSound
<1> QED BY <1>1, <1>3, <1>4, <1>5

LEMMA RouteSound ==
  ASSUME NEW g0 \in Statics, NEW g \in Statics, Len(g.buf) >= Len(g0.buf),
         g.build = g0.build,
         NEW r \in 0..Len(Routes)
  PROVE  Sound(g0, Route(g, r))
<1>1. CASE r # NULL
  <2>1. Routes[r] \in Pieces
    BY <1>1, TablesFacts, ElementOfSeq DEF NULL
  <2> QED BY <1>1, <2>1, AddOneSound DEF Route, OutputPcs
<1>2. CASE r = NULL
  <2>1. "end" \in Pieces
    BY TablesFacts DEF Texts
  <2> QED BY <1>2, <2>1, AddOneSound DEF Route, OutputPcs, NULL
<1> QED BY <1>1, <1>2

LEMMA SensorSound ==
  ASSUME NEW g0 \in Statics, NEW g \in Statics, Len(g.buf) >= Len(g0.buf),
         g.build = g0.build,
         NEW i \in 1..(Len(Sensors) + 1)
  PROVE  Sound(g0, Sensor(g, i))
<1>0. Len(Sensors) \in Nat
  BY TablesFacts, LenProperties
<1>1. CASE i <= Len(Sensors)
  <2>1. Sensors[i] \in Pieces
    BY <1>0, <1>1, TablesFacts, ElementOfSeq
  <2>2. i \in 0..Len(Sensors)
    BY <1>0, <1>1
  <2> QED BY <1>1, <2>1, <2>2, AddOneSound DEF Sensor, OutputPcs
<1>2. CASE ~(i <= Len(Sensors))
  <2>1. "end" \in Pieces
    BY TablesFacts DEF Texts
  <2> QED BY <1>2, <2>1, AddOneSound DEF Sensor, OutputPcs
<1> QED BY <1>1, <1>2

LEMMA NativeResumeSound ==
  ASSUME NEW g0 \in Statics, NEW g \in Statics, Len(g.buf) >= Len(g0.buf),
         g.build = g0.build,
         NEW where \in OutputPcs \ {"bottom"}
  PROVE  Sound(g0, NativeResume(where, g))
<1> DEFINE h == Reset(g)
<1>1. h \in Statics /\ h.buf = g.buf /\ h.build = g.build /\ h.nbr = g.nbr /\ h.r = g.r /\ h.i = g.i
  BY CursorType DEF Statics, Reset
<1>2. /\ g.nbr \in 0..Len(Nbrs) /\ g.r \in 0..Len(Routes) /\ g.i \in 0..Len(Sensors)
      /\ Len(Nbrs) \in Nat /\ Len(Routes) \in Nat /\ Len(Sensors) \in Nat
      /\ Routes \in Seq(Pieces)
  BY TablesFacts, LenProperties DEF Statics
<1> HIDE DEF h
<1>3. \A w \in OutputPcs : \A text \in Texts : Sound(g0, SendText(w, g, text))
  BY SendSound
<1>4. CASE where = "head" \/ where = "type"
  <2>1. \/ NativeResume(where, g) = SendText("type", g, "type")
        \/ NativeResume(where, g) = SendText("top", g, "top")
    BY <1>4 DEF NativeResume
  <2> QED BY <1>3, <2>1 DEF OutputPcs, Texts
<1>5. CASE where = "top"
  <2>1. NativeResume(where, g) = Neighbours(Add(h, <<"Neighbors">>), 1)
    BY <1>5 DEF NativeResume, h
  <2>2. <<"Neighbors">> \in Seq(Pieces)
    BY TablesFacts DEF Texts
  <2>3. PICK k : k = Add(h, <<"Neighbors">>)
    OBVIOUS
  <2>4. k \in Statics /\ Len(k.buf) >= Len(h.buf) /\ k.build = h.build
    BY <1>1, <2>2, <2>3, AddType
  <2>5. Len(k.buf) >= Len(g0.buf)
    <3>1. Len(k.buf) \in Nat /\ Len(g.buf) \in Nat /\ Len(g0.buf) \in Nat
      BY <2>4, LenProperties DEF Statics
    <3> QED BY <1>1, <2>4, <3>1
  <2>6. 1 \in 1..(Len(Nbrs) + 1)
    BY <1>2
  <2> QED BY <1>1, <2>1, <2>3, <2>4, <2>5, <2>6, NeighboursSound
<1>6. CASE where = "nbrs"
  <2>1. NativeResume(where, g) = Neighbours(h, g.nbr + 1)
    BY <1>6 DEF NativeResume, h
  <2>2. g.nbr + 1 \in 1..(Len(Nbrs) + 1)
    BY <1>2
  <2> QED BY <1>1, <2>1, <2>2, NeighboursSound
<1>7. CASE where = "routehdr"
  <2>1. NativeResume(where, g) = Route(h, IF Routes = <<>> THEN NULL ELSE 1)
    BY <1>7 DEF NativeResume, h
  <2>2. (IF Routes = <<>> THEN NULL ELSE 1) \in 0..Len(Routes)
    BY <1>2, EmptySeq DEF NULL
  <2> QED BY <1>1, <2>1, <2>2, RouteSound
<1>8. CASE where = "routes"
  <2>1. NativeResume(where, g) = Route(h, NextRoute(g.r))
    BY <1>8 DEF NativeResume, h
  <2>2. NextRoute(g.r) \in 0..Len(Routes)
    BY <1>2 DEF NextRoute, NULL
  <2> QED BY <1>1, <2>1, <2>2, RouteSound
<1>9. CASE where = "end"
  <2>1. CASE Sensors = <<>>
    <3>1. NativeResume(where, g) = SendText("bottom", g, "bottom")
      BY <1>9, <2>1 DEF NativeResume, Bottom
    <3> QED BY <1>3, <3>1 DEF OutputPcs, Texts
  <2>2. CASE Sensors # <<>>
    <3>1. NativeResume(where, g) = SendBuf("sensorhdr", Add(g, <<"Sensors">>))
      BY <1>9, <2>2 DEF NativeResume
    <3>2. "Sensors" \in Pieces
      BY TablesFacts DEF Texts
    <3> QED BY <3>1, <3>2, AddOneSound DEF OutputPcs
  <2> QED BY <2>1, <2>2
<1>10. CASE where = "sensorhdr"
  <2>1. NativeResume(where, g) = Sensor(h, 1)
    BY <1>10 DEF NativeResume, h
  <2>2. 1 \in 1..(Len(Sensors) + 1)
    BY <1>2
  <2> QED BY <1>1, <2>1, <2>2, SensorSound
<1>11. CASE where = "sensors"
  <2>1. NativeResume(where, g) = Sensor(h, g.i + 1)
    BY <1>11 DEF NativeResume, h
  <2>2. g.i + 1 \in 1..(Len(Sensors) + 1)
    BY <1>2
  <2> QED BY <1>1, <2>1, <2>2, SensorSound
<1>12. CASE where = "lastend"
  <2>1. NativeResume(where, g) = SendText("bottom", g, "bottom")
    BY <1>12 DEF NativeResume, Bottom
  <2> QED BY <1>3, <2>1 DEF OutputPcs, Texts
<1> QED BY <1>4, <1>5, <1>6, <1>7, <1>8, <1>9, <1>10, <1>11, <1>12 DEF OutputPcs

LEMMA ResumeSound ==
  ASSUME NEW g \in Statics, NEW where \in OutputPcs \ {"bottom"}
  PROVE  Sound(g, Resume(where, g))
<1>0. Len(g.buf) \in Nat /\ Len(g.buf) >= Len(g.buf)
  BY LenProperties DEF Statics
<1>1. Sound(g, NativeResume(where, g))
  BY <1>0, NativeResumeSound
<1>2. Sound(g, EmbeddedResume(where, g))
  <2>1. CASE where = "top"
    <3>1. <<"teste">> \in Seq(Pieces)
      BY TablesFacts DEF Texts
    <3>2. PICK k : k = Add(g, <<"teste">>)
      OBVIOUS
    <3>3. k \in Statics /\ Len(k.buf) >= Len(g.buf) /\ k.build = g.build
      BY <3>1, <3>2, AddType
    <3>4. "top" \in OutputPcs \ {"bottom"}
      BY DEF OutputPcs
    <3>5. Sound(g, NativeResume("top", k))
      BY <3>3, <3>4, NativeResumeSound
    <3> QED BY <2>1, <3>2, <3>5 DEF EmbeddedResume
  <2>2. CASE where = "end"
    <3>1. Sound(g, SendText("bottom", g, "bottom"))
      BY <1>0, SendSound DEF OutputPcs, Texts
    <3> QED BY <2>2, <3>1 DEF EmbeddedResume, Bottom
  <2>3. CASE where # "top" /\ where # "end"
    BY <1>1, <2>3 DEF EmbeddedResume
  <2> QED BY <2>1, <2>2, <2>3
<1> QED BY <1>1, <1>2 DEF Resume
-----------------------------------------------------------------------------
(* The connections *)

\* Only a new connection and the end of one change the blocks; everything else
\* leaves the connections that have one what they are.
LEMMA BlocksUnchanged ==
  ASSUME BlockInv, running, UNCHANGED blocks, \A c \in Clients : Holds(c)' <=> Holds(c),
         \A c \in Clients : Holds(c) => block'[c] = block[c]
  PROVE  BlockInv'
<1>1. Holders' = Holders
  BY DEF Holders
<1>2. UNCHANGED <<inUse, lost, robbed>> /\ \A c \in Holders : block'[c] = block[c]
  BY DEF blocks, Holders
<1>3. {block'[c] : c \in Holders \ robbed} = {block[c] : c \in Holders \ robbed}
  BY <1>2
<1> QED BY <1>1, <1>2, <1>3 DEF BlockInv

LEMMA ForgetType ==
  ASSUME TypeInv, NEW c \in Clients, NEW next \in {"none", "lastack", "timewait"},
         conn[c] # "none", Forget(c, next), inUse' \subseteq Blocks, lost' \subseteq Blocks
  PROVE  /\ TypeInv'
         /\ Holders' = Holders \ {c} /\ \A d \in Holders' : block'[d] = block[d]
<1> USE DEF Forget
<1>1. /\ block' \in [Clients -> Blocks \cup {NoBlock}] /\ robbed' \subseteq Clients
      /\ conn' = [conn EXCEPT ![c] = next]
      /\ \A d \in Clients \ {c} : block'[d] = block[d]
      /\ next # "none" => block'[c] = block[c]
  BY DEF TypeInv
<1>2. \A d \in Clients : conn'[d] # "none" => block'[d] \in Blocks
  BY <1>1 DEF TypeInv
<1>3. segment' \in [Clients -> Segments]
      /\ \A d \in Clients : segment'[d].inBuf => segment'[d].len <= Len(static'.buf)
  <2>1. NoSegment \in Segments /\ ~NoSegment.inBuf
    BY DEF NoSegment, Segments
  <2> QED BY <2>1 DEF TypeInv
<1>4. quiet' \in [Clients -> 0..Timeout] /\ nrtx' \in [Clients -> 0..MaxRtx]
  BY WebServerAssumption DEF TypeInv
<1>5. page' \in [Clients -> Seq(Pieces)]
  <2>1. <<>> \in Seq(Pieces)
    BY EmptySeq
  <2> QED BY <2>1 DEF TypeInv
<1>6. TypeInv'
  BY <1>1, <1>2, <1>3, <1>4, <1>5 DEF TypeInv
<1>7. Holders' = Holders \ {c}
  BY <1>1 DEF Holders, Holds, TypeInv
<1> QED BY <1>1, <1>6, <1>7 DEF Holders

LEMMA ReleaseInv ==
  ASSUME WebInv, running, NEW c \in Clients, NEW next \in {"none", "lastack", "timewait"},
         Holds(c), Release(c, next)
  PROVE  WebInv'
<1> USE DEF WebInv
<1>0. /\ inUse' = inUse \ {block[c]} /\ lost' = lost /\ robbed' = robbed \ {c}
      /\ c \in Holders /\ conn[c] # "none"
  BY DEF Release, Forget, Holders, Holds
<1>1. TypeInv' /\ Holders' = Holders \ {c} /\ \A d \in Holders' : block'[d] = block[d]
  <2>1. inUse' \subseteq Blocks /\ lost' \subseteq Blocks
    BY <1>0 DEF TypeInv
  <2> QED BY <1>0, <2>1, ForgetType DEF Release
<1>2. inUse' = {block'[d] : d \in Holders' \ robbed'} \cup lost'
  <2>1. ASSUME NEW b \in inUse' PROVE b \in {block'[d] : d \in Holders' \ robbed'} \cup lost'
    <3>1. CASE b \in lost
      BY <1>0, <3>1
    <3>2. CASE b \notin lost
      <4>1. PICK d \in Holders \ robbed : b = block[d] /\ b # block[c]
        BY <1>0, <2>1, <3>2 DEF BlockInv
      <4>2. d \in Holders' \ robbed' /\ block'[d] = b
        BY <1>0, <1>1, <4>1
      <4> QED BY <4>2
    <3> QED BY <3>1, <3>2
  <2>2. ASSUME NEW d \in Holders' \ robbed' PROVE block'[d] \in inUse'
    BY <1>0, <1>1 DEF BlockInv
  <2>3. lost' \subseteq inUse'
    BY <1>0 DEF BlockInv
  <2> QED BY <2>1, <2>2, <2>3
<1>3. BlockInv'
  BY <1>0, <1>1, <1>2 DEF BlockInv
<1> QED BY <1>1, <1>3

LEMMA DroppedInv ==
  ASSUME WebInv, running, NEW c \in Clients, Dropped(c)
  PROVE  WebInv'
<1> USE DEF WebInv
<1>0. /\ inUse' = inUse /\ lost' = (IF c \in robbed THEN lost ELSE lost \cup {block[c]})
      /\ robbed' = robbed \ {c} /\ c \in Holders /\ conn[c] # "none"
  BY DEF Dropped, Forget, Holders, Holds
<1>1. TypeInv' /\ Holders' = Holders \ {c} /\ \A d \in Holders' : block'[d] = block[d]
  <2>1. inUse' \subseteq Blocks /\ lost' \subseteq Blocks
    BY <1>0 DEF TypeInv
  <2> QED BY <1>0, <2>1, ForgetType DEF Dropped
<1>2. inUse' = {block'[d] : d \in Holders' \ robbed'} \cup lost'
  <2>1. ASSUME NEW b \in inUse' PROVE b \in {block'[d] : d \in Holders' \ robbed'} \cup lost'
    <3>1. CASE b \in lost
      BY <1>0, <3>1
    <3>2. CASE b \notin lost
      <4>1. PICK d \in Holders \ robbed : b = block[d]
        BY <1>0, <2>1, <3>2 DEF BlockInv
      <4>2. CASE d = c
        BY <1>0, <4>1, <4>2
      <4>3. CASE d # c
        <5>1. d \in Holders' \ robbed' /\ block'[d] = b
          BY <1>0, <1>1, <4>1, <4>3
        <5> QED BY <5>1
      <4> QED BY <4>2, <4>3
    <3> QED BY <3>1, <3>2
  <2>2. ASSUME NEW d \in Holders' \ robbed' PROVE block'[d] \in inUse'
    BY <1>0, <1>1 DEF BlockInv
  <2>3. lost' \subseteq inUse'
    BY <1>0 DEF BlockInv
  <2> QED BY <2>1, <2>2, <2>3
<1>3. BlockInv'
  BY <1>0, <1>1, <1>2 DEF BlockInv
<1> QED BY <1>1, <1>3

LEMMA ReportedAgainInv ==
  ASSUME WebInv, running, NEW c \in Clients, ReportedAgain(c)
  PROVE  WebInv'
<1> USE DEF WebInv
<1> DEFINE users == {d \in Clients : Holds(d) /\ block[d] = block[c]}
<1>0. /\ inUse' = inUse \ {block[c]} /\ lost' = lost \ {block[c]}
      /\ robbed' = robbed \cup users /\ c \notin Holders
      /\ conn' = [conn EXCEPT ![c] = "none"] /\ block' = [block EXCEPT ![c] = NoBlock]
      /\ script' = [d \in Clients |-> script[d] /\ d \notin users]
      /\ UNCHANGED <<pc, segment, nrtx, quiet, static, running, page, shared>>
  BY DEF ReportedAgain, Holders, Holds
<1>1. TypeInv'
  <2>1. script' \in [Clients -> BOOLEAN]
    BY <1>0
  <2> HIDE DEF users
  <2>2. /\ conn' \in [Clients -> {"none", "open", "finwait", "lastack", "timewait"}]
        /\ block' \in [Clients -> Blocks \cup {NoBlock}]
        /\ \A d \in Clients : conn'[d] # "none" => block'[d] \in Blocks
    BY <1>0 DEF TypeInv
  <2>3. inUse' \subseteq Blocks /\ lost' \subseteq Blocks /\ robbed' \subseteq Clients
    BY <1>0 DEF TypeInv, users
  <2> QED BY <1>0, <2>1, <2>2, <2>3 DEF TypeInv
<1>2. Holders' = Holders /\ \A d \in Holders : block'[d] = block[d]
  BY <1>0 DEF Holders, Holds, TypeInv
<1>3. users = {d \in Holders : block[d] = block[c]}
  BY DEF Holders
<1> HIDE DEF users
<1>4. inUse' = {block'[d] : d \in Holders' \ robbed'} \cup lost'
  <2>1. ASSUME NEW b \in inUse' PROVE b \in {block'[d] : d \in Holders' \ robbed'} \cup lost'
    <3>1. CASE b \in lost
      BY <1>0, <2>1, <3>1
    <3>2. CASE b \notin lost
      <4>1. PICK d \in Holders \ robbed : b = block[d] /\ b # block[c]
        BY <1>0, <2>1, <3>2 DEF BlockInv
      <4>2. d \in Holders' \ robbed' /\ block'[d] = b
        BY <1>0, <1>2, <1>3, <4>1
      <4> QED BY <4>2
    <3> QED BY <3>1, <3>2
  <2>2. ASSUME NEW d \in Holders' \ robbed' PROVE block'[d] \in inUse'
    BY <1>0, <1>2, <1>3 DEF BlockInv
  <2>3. lost' \subseteq inUse'
    BY <1>0 DEF BlockInv
  <2> QED BY <2>1, <2>2, <2>3
<1>5. robbed' \subseteq Holders'
  BY <1>0, <1>2, <1>3 DEF BlockInv
<1>6. BlockInv'
  BY <1>0, <1>2, <1>4, <1>5 DEF BlockInv
<1> QED BY <1>1, <1>6

LEMMA ExpiresInv ==
  ASSUME WebInv, running, NEW c \in Clients, Expires(c)
  PROVE  WebInv'
<1> USE DEF WebInv
<1>1. TypeInv'
  BY DEF Expires, blocks, TypeInv
<1>2. \A d \in Clients : (Holds(d)' <=> Holds(d)) /\ (Holds(d) => block'[d] = block[d])
  BY DEF Expires, TypeInv, Holds
<1> QED BY <1>1, <1>2, BlocksUnchanged DEF Expires

LEMMA ConnectedInv ==
  ASSUME WebInv, running, NEW c \in Clients, Connected(c)
  PROVE  WebInv'
<1> USE DEF WebInv
<1>0. /\ UNCHANGED <<script, segment, nrtx, quiet, static, lost, robbed, page, shared>>
      /\ conn[c] = "none"
  BY DEF Connected
<1>1. CASE UNCHANGED <<conn, block, inUse, pc, running>>
  BY <1>0, <1>1 DEF TypeInv, BlockInv, Holders, Holds
<1>2. ASSUME NEW b \in Blocks \ inUse, inUse' = inUse \cup {b}, block' = [block EXCEPT ![c] = b],
             running' = (\A d \in Clients : Holds(d) => block[d] # b),
             conn' = [conn EXCEPT ![c] = "open"], pc' = [pc EXCEPT ![c] = "input"]
      PROVE  WebInv'
  <2>1. TypeInv'
    <3>1. running' \in BOOLEAN
      BY <1>2
    <3>2. /\ conn' \in [Clients -> {"none", "open", "finwait", "lastack", "timewait"}]
          /\ block' \in [Clients -> Blocks \cup {NoBlock}]
          /\ \A d \in Clients : conn'[d] # "none" => block'[d] \in Blocks
          /\ pc' \in [Clients -> OutputPcs \cup {"input", "done"}] /\ inUse' \subseteq Blocks
      BY <1>2 DEF TypeInv
    <3> QED BY <1>0, <3>1, <3>2 DEF TypeInv
  <2>2. Holders' = Holders \cup {c} /\ c \notin Holders
    BY <1>0, <1>2 DEF Holders, Holds, TypeInv
  <2>3. block'[c] = b /\ \A d \in Holders : block'[d] = block[d] /\ d # c
    BY <1>2, <2>2 DEF TypeInv, Holders
  <2> SUFFICES ASSUME running' PROVE BlockInv'
    BY <2>1 DEF BlockInv
  <2>4. \A d \in Holders : block[d] # b
    BY <1>2 DEF Holders
  <2>5. c \notin robbed /\ b \notin lost
    BY <1>2, <2>2 DEF BlockInv
  <2>6. inUse' = {block'[d] : d \in Holders' \ robbed'} \cup lost'
    <3>1. ASSUME NEW e \in inUse' PROVE e \in {block'[d] : d \in Holders' \ robbed'} \cup lost'
      <4>1. CASE e = b
        BY <1>0, <2>2, <2>3, <2>5, <4>1
      <4>2. CASE e \in lost
        BY <1>0, <4>2
      <4>3. CASE e # b /\ e \notin lost
        <5>1. PICK d \in Holders \ robbed : e = block[d]
          BY <1>2, <3>1, <4>3 DEF BlockInv
        <5> QED BY <1>0, <2>2, <2>3, <5>1
      <4> QED BY <4>1, <4>2, <4>3
    <3>2. ASSUME NEW d \in Holders' \ robbed' PROVE block'[d] \in inUse'
      BY <1>0, <1>2, <2>2, <2>3 DEF BlockInv
    <3>3. lost' \subseteq inUse'
      BY <1>0, <1>2 DEF BlockInv
    <3> QED BY <3>1, <3>2, <3>3
  <2>7. \A d, e \in Holders' : block'[d] = block'[e] => d = e
    BY <2>2, <2>3, <2>4 DEF BlockInv
  <2>8. robbed' \subseteq Holders' /\ \A d \in Holders' : block'[d] \notin lost'
    BY <1>0, <2>2, <2>3, <2>5 DEF BlockInv
  <2> QED BY <2>6, <2>7, <2>8 DEF BlockInv
<1> QED BY <1>1, <1>2 DEF Connected

LEMMA AckedInv ==
  ASSUME WebInv, running, NEW c \in Clients, Acked(c)
  PROVE  WebInv'
<1> USE DEF WebInv
<1>0. conn[c] = "open" /\ pc[c] \in OutputPcs
  BY DEF Acked, Writing
<1>1. page' \in [Clients -> Seq(Pieces)]
  <2>1. PICK copy \in segment[c].copies :
           page' = [page EXCEPT ![c] = IF shared[c] THEN @ ELSE @ \o copy]
    BY DEF Acked
  <2>2. copy \in Seq(Pieces) /\ page[c] \in Seq(Pieces)
    BY DEF TypeInv, Segments
  <2>3. page[c] \o copy \in Seq(Pieces)
    BY <2>2, ConcatProperties
  <2> QED BY <2>1, <2>3 DEF TypeInv
<1>2. nrtx' \in [Clients -> 0..MaxRtx] /\ quiet' = quiet /\ running' = running
      /\ UNCHANGED <<block, inUse, lost, robbed, shared>>
  BY WebServerAssumption DEF Acked, blocks, TypeInv
<1>3. CASE pc[c] = "bottom"
  <2>1. NoSegment \in Segments /\ ~NoSegment.inBuf
    BY DEF NoSegment, Segments
  <2>2. TypeInv'
    <3>1. /\ pc' = [pc EXCEPT ![c] = "done"] /\ conn' = [conn EXCEPT ![c] = "finwait"]
          /\ script' = [script EXCEPT ![c] = FALSE]
          /\ segment' = [segment EXCEPT ![c] = NoSegment] /\ UNCHANGED static
      BY <1>3 DEF Acked
    <3>2. segment' \in [Clients -> Segments]
          /\ \A d \in Clients : segment'[d].inBuf => segment'[d].len <= Len(static.buf)
      BY <2>1, <3>1 DEF TypeInv
    <3>3. \A d \in Clients : conn'[d] # "none" => block[d] \in Blocks
      BY <1>0, <3>1 DEF TypeInv
    <3> QED BY <1>1, <1>2, <3>1, <3>2, <3>3 DEF TypeInv
  <2>3. \A d \in Clients : Holds(d)' <=> Holds(d)
    BY <1>0, <1>3 DEF Acked, TypeInv, Holds
  <2> QED BY <2>2, <2>3, BlocksUnchanged DEF Acked
<1>4. CASE pc[c] # "bottom"
  <2>1. PICK next : next = Resume(pc[c], static)
    OBVIOUS
  <2>2. /\ pc' = [pc EXCEPT ![c] = next.pc] /\ segment' = [segment EXCEPT ![c] = next.segment]
        /\ static' = next.static /\ UNCHANGED <<conn, script>>
    BY <1>4, <2>1 DEF Acked
  <2>3. Sound(static, next)
    BY <1>0, <1>4, <2>1, ResumeSound DEF TypeInv
  <2>4. \A d \in Clients : segment'[d].inBuf => segment'[d].len <= Len(static'.buf)
    <3> SUFFICES ASSUME NEW d \in Clients, segment'[d].inBuf
                 PROVE  segment'[d].len <= Len(static'.buf)
      OBVIOUS
    <3>1. CASE d = c
      BY <2>2, <2>3, <3>1 DEF Sound, TypeInv
    <3>2. CASE d # c
      <4>1. segment'[d] = segment[d] /\ segment[d].len \in Nat /\ segment[d].len <= Len(static.buf)
        BY <2>2, <3>2 DEF TypeInv, Segments
      <4>2. Len(static.buf) \in Nat /\ Len(static'.buf) \in Nat /\ Len(static'.buf) >= Len(static.buf)
        BY <2>2, <2>3, LenProperties DEF Sound, TypeInv, Statics
      <4> QED BY <4>1, <4>2
    <3> QED BY <3>1, <3>2
  <2>5. TypeInv'
    BY <1>1, <1>2, <2>2, <2>3, <2>4 DEF TypeInv, Sound
  <2> QED BY <2>2, <2>5, BlocksUnchanged DEF Acked, Holds
<1> QED BY <1>3, <1>4

LEMMA RexmitInv ==
  ASSUME WebInv, running, NEW c \in Clients, Rexmit(c)
  PROVE  WebInv'
<1> USE DEF WebInv
<1>1. nrtx' \in [Clients -> 0..MaxRtx]
      /\ UNCHANGED <<conn, block, blocks, pc, script, quiet, static, running, page, shared>>
  BY WebServerAssumption DEF Rexmit, TypeInv
<1>2. segment' \in [Clients -> Segments]
      /\ \A d \in Clients : segment'[d].inBuf = segment[d].inBuf /\ segment'[d].len = segment[d].len
  <2>1. CASE segment[c].inBuf /\ ~shared[c]
    <3>1. PICK copy : copy = SubSeq(static.buf, 1, segment[c].len)
      OBVIOUS
    <3>2. copy \in Seq(Pieces)
      BY <2>1, <3>1, PartOfBuf DEF TypeInv, Statics, Segments
    <3>3. segment' = [segment EXCEPT ![c].copies = @ \cup {copy}]
      BY <2>1, <3>1 DEF Rexmit
    <3> QED BY <3>2, <3>3 DEF TypeInv, Segments
  <2>2. CASE ~(segment[c].inBuf /\ ~shared[c])
    BY <2>2 DEF Rexmit, TypeInv
  <2> QED BY <2>1, <2>2
<1>3. TypeInv'
  BY <1>1, <1>2 DEF blocks, TypeInv
<1> QED BY <1>1, <1>3, BlocksUnchanged DEF Holds

LEMMA DataInv ==
  ASSUME WebInv, running, NEW c \in Clients, MoreData(c) \/ BadRequest(c) \/ Request(c)
  PROVE  WebInv'
<1> USE DEF WebInv
<1>0. Data(c) /\ conn[c] = "open"
  BY DEF MoreData, BadRequest, Request, Data
<1>1. /\ quiet' \in [Clients -> 0..Timeout]
      /\ UNCHANGED <<block, inUse, lost, robbed, nrtx, static, running>>
  BY <1>0, WebServerAssumption DEF Data, blocks, TypeInv
<1>2. CASE MoreData(c)
  <2>1. TypeInv'
    BY <1>1, <1>2 DEF MoreData, TypeInv
  <2> QED BY <1>1, <1>2, <2>1, BlocksUnchanged DEF MoreData, Holds, blocks
<1>3. CASE BadRequest(c)
  <2>1. TypeInv'
    BY <1>0, <1>1, <1>3 DEF BadRequest, TypeInv
  <2>2. \A d \in Clients : Holds(d)' <=> Holds(d)
    BY <1>0, <1>3 DEF BadRequest, TypeInv, Holds
  <2> QED BY <1>1, <2>1, <2>2, BlocksUnchanged DEF blocks
<1>4. CASE Request(c)
  <2>1. PICK s : s = SendText("head", static, "head").segment
    OBVIOUS
  <2>2. s \in Segments /\ ~s.inBuf
    <3>1. <<"head">> \in Seq(Pieces)
      BY TablesFacts DEF Texts
    <3> QED BY <2>1, <3>1 DEF SendText, Segments
  <2>3. segment' \in [Clients -> Segments]
        /\ \A d \in Clients : segment'[d].inBuf => segment'[d].len <= Len(static.buf)
    <3>1. segment' = [segment EXCEPT ![c] = s]
      BY <1>4, <2>1 DEF Request
    <3> QED BY <2>2, <3>1 DEF TypeInv
  <2>4. shared' \in [Clients -> BOOLEAN]
    BY <1>4 DEF Request, TypeInv
  <2>5. page' \in [Clients -> Seq(Pieces)]
    <3>1. <<>> \in Seq(Pieces)
      BY EmptySeq
    <3> QED BY <1>4, <3>1 DEF Request, TypeInv
  <2>6. pc' \in [Clients -> OutputPcs \cup {"input", "done"}]
    BY <1>4 DEF Request, TypeInv, OutputPcs
  <2>7. script' \in [Clients -> BOOLEAN] /\ conn' = conn
    BY <1>4 DEF Request, TypeInv
  <2>8. TypeInv'
    BY <1>1, <2>3, <2>4, <2>5, <2>6, <2>7 DEF TypeInv
  <2> QED BY <1>1, <2>7, <2>8, BlocksUnchanged DEF blocks, Holds
<1> QED BY <1>2, <1>3, <1>4

LEMMA NullScriptInv ==
  ASSUME WebInv, running, NEW c \in Clients, NullScript(c)
  PROVE  WebInv'
<1>1. TypeInv'
  BY DEF NullScript, WebInv, TypeInv, blocks
<1> QED BY <1>1 DEF NullScript, WebInv, BlockInv

LEMMA TickInv ==
  ASSUME WebInv, running, Tick
  PROVE  WebInv'
<1>0. UNCHANGED <<conn, block, blocks, pc, script, segment, nrtx, static, running, page,
                  shared>>
  BY DEF Tick
<1>1. quiet' \in [Clients -> 0..Timeout]
  BY WebServerAssumption DEF Tick, Waits, WebInv, TypeInv
<1>2. TypeInv'
  BY <1>0, <1>1 DEF blocks, WebInv, TypeInv
<1> QED BY <1>0, <1>2, BlocksUnchanged DEF WebInv, Holds

LEMMA WebInvariant == Spec => []WebInv
<1>1. Init => WebInv
  <2> SUFFICES ASSUME Init PROVE WebInv
    OBVIOUS
  <2>1. Len(Nbrs) \in Nat /\ Len(Routes) \in Nat /\ Len(Sensors) \in Nat
    BY TablesFacts, LenProperties
  <2>2. <<>> \in Seq(Pieces) /\ Len(<<>>) = 0
    BY EmptySeq
  <2>3. static \in Statics
    <3>1. PICK b \in {"native", "embedded"} :
             static = [build |-> b, buf |-> <<>>, blen |-> 0, nbr |-> NULL, r |-> NULL, i |-> 0]
      BY DEF Init
    <3> QED BY <2>1, <2>2, <3>1 DEF Statics, NULL
  <2>4. NoSegment \in Segments /\ ~NoSegment.inBuf
    BY DEF NoSegment, Segments
  <2>5. TypeInv
    BY <2>2, <2>3, <2>4, WebServerAssumption DEF Init, TypeInv
  <2>6. Holders = {}
    BY DEF Init, Holders, Holds
  <2>7. BlockInv
    BY <2>6 DEF Init, BlockInv
  <2> QED BY <2>5, <2>7 DEF WebInv
<1>2. WebInv /\ [Next]_vars => WebInv'
  <2> SUFFICES ASSUME WebInv, [Next]_vars PROVE WebInv'
    OBVIOUS
  <2>1. CASE UNCHANGED vars
    BY <2>1 DEF vars, blocks, WebInv, TypeInv, BlockInv, Holders, Holds
  <2>2. CASE running /\ Next
    <3>1. ASSUME NEW c \in Clients, Connected(c) PROVE WebInv'
      BY <2>2, <3>1, ConnectedInv
    <3>2. ASSUME NEW c \in Clients, MoreData(c) \/ BadRequest(c) \/ Request(c) PROVE WebInv'
      BY <2>2, <3>2, DataInv
    <3>3. ASSUME NEW c \in Clients, Acked(c) PROVE WebInv'
      BY <2>2, <3>3, AckedInv
    <3>4. ASSUME NEW c \in Clients, Rexmit(c) PROVE WebInv'
      BY <2>2, <3>4, RexmitInv
    <3>5. ASSUME NEW c \in Clients, NullScript(c) PROVE WebInv'
      BY <2>2, <3>5, NullScriptInv
    <3>6. ASSUME NEW c \in Clients, Poll(c) \/ TimedOut(c) \/ Aborted(c) \/ Closed(c) PROVE WebInv'
      <4>1. PICK next \in {"none", "lastack", "timewait"} : Release(c, next)
        BY <3>6 DEF Poll, TimedOut, Aborted, Closed
      <4>2. Holds(c)
        BY <3>6 DEF Poll, TimedOut, Aborted, Closed, Writing, Holds
      <4> QED BY <2>2, <4>1, <4>2, ReleaseInv
    <3>7. ASSUME NEW c \in Clients, Dropped(c) PROVE WebInv'
      BY <2>2, <3>7, DroppedInv
    <3>8. ASSUME NEW c \in Clients, ReportedAgain(c) PROVE WebInv'
      BY <2>2, <3>8, ReportedAgainInv
    <3>9. ASSUME NEW c \in Clients, Expires(c) PROVE WebInv'
      BY <2>2, <3>9, ExpiresInv
    <3>10. CASE Tick
      BY <2>2, <3>10, TickInv
    <3> QED BY <2>2, <3>1, <3>2, <3>3, <3>4, <3>5, <3>6, <3>7, <3>8, <3>9, <3>10 DEF Next
  <2> QED BY <2>1, <2>2 DEF Next
<1> QED BY <1>1, <1>2, PTL DEF Spec

\* The web server's variables have their types: in particular its cursors stay
\* within the tables, and what generate_routes() has written and what a
\* segment that is sent again takes from buf is within the memory of buf.
THEOREM WebServerTypeCorrect == Spec => []TypeOK
<1>1. WebInv => TypeOK
  <2> SUFFICES ASSUME WebInv PROVE TypeOK
    OBVIOUS
  <2>1. static.blen \in 0..Len(static.buf)
    BY LenProperties DEF WebInv, TypeInv, Statics
  <2> QED BY <2>1 DEF WebInv, TypeInv, TypeOK, Statics, Segments, NULL
<1> QED BY <1>1, WebInvariant, PTL

\* As long as the program runs, the pool of httpd-simple.c and the connections
\* agree for any number of either: no two connections have the same block, and a
\* block is in use if and only if a connection has it that the second report of no
\* other has freed, or a connection that uIP dropped unreported had it.
THEOREM PoolAccounted == Spec => []BlocksAccounted
<1>1. WebInv => BlocksAccounted
  BY DEF WebInv, BlockInv, BlocksAccounted, Holders
<1> QED BY <1>1, WebInvariant, PTL
-----------------------------------------------------------------------------
(* What a page lists.  The thread is at a place with the entries up to its     *)
(* cursor in the segment that it waits for and the pages before it.            *)

\* How much of the tables a client has when it has acknowledged the segment that
\* the thread waits for at a place, with the static variables g.
Cursor(where, g, all) ==
  CASE where \in {"head", "type", "top"} -> 0
    [] where = "nbrs" -> g.nbr
    [] where = "routehdr" -> Len(Nbrs)
    [] where = "routes" -> Len(Nbrs) + g.r
    [] where \in {"end", "sensorhdr"} -> Len(Nbrs) + Len(Routes)
    [] where = "sensors" -> Len(Nbrs) + Len(Routes) + g.i
    [] OTHER -> Len(all)

Content(g) == SubSeq(g.buf, 1, g.blen)

\* What the thread relies on at a place.
Ready(where, g, all) ==
  /\ where \in {"sensorhdr", "sensors"} => g.build = "native"
  /\ where = "routes" => g.r # NULL
  /\ where = "end" => Lists(Content(g), 1, 0, all)

\* Everything a client may get for a segment.
Copies(s, g) == s.copies \cup (IF s.inBuf THEN {SubSeq(g.buf, 1, s.len)} ELSE {})

\* The page of c, with any copy of the segment it waits for, goes on to list the
\* tables.
Served(c) ==
  /\ Ready(pc[c], static, Expected)
  /\ \E m \in 0..Len(Expected) :
       /\ m <= Cursor(pc[c], static, Expected)
       /\ Lists(page[c], 1, m, Expected)
       /\ \A copy \in Copies(segment[c], static) :
            Lists(copy, m + 1, Cursor(pc[c], static, Expected), Expected)

PageRight(c) ==
  /\ pc[c] \in OutputPcs => conn[c] = "open"
  /\ conn[c] \notin {"open", "finwait"} \/ pc[c] = "input" => page[c] = <<>>
  /\ conn[c] = "finwait" /\ pc[c] = "done" /\ ~shared[c] =>
       Lists(page[c], 1, Len(Expected), Expected)
  /\ conn[c] = "open" => pc[c] # "done"
  /\ pc[c] \in OutputPcs /\ ~shared[c] =>
       Served(c) /\ \A d \in Clients \ {c} : pc[d] \notin OutputPcs

PageInv == \A c \in Clients : PageRight(c)

LEMMA ListsNothing ==
  ASSUME NEW p \in Seq(Pieces), NEW m \in Nat, NEW all,
         \A i \in 1..Len(p) : p[i] \notin ToSet(AllEntries)
  PROVE  Lists(p, m + 1, m, all)
<1>1. DOMAIN p = 1..Len(p) /\ {k \in 1..Len(p) : p[k] \in ToSet(AllEntries)} = {}
  BY LenProperties
<1>2. (m + 1)..m = {}
  OBVIOUS
<1> QED BY <1>1, <1>2 DEF Lists

LEMMA ListsPart ==
  ASSUME NEW p \in Seq(Pieces), NEW m \in Nat, NEW n \in Nat, NEW all, Len(p) = n - m,
         \A i \in 1..Len(p) : p[i] = all[m + i] /\ p[i] \in ToSet(AllEntries)
  PROVE  Lists(p, m + 1, n, all)
<1> DEFINE entries == {i \in DOMAIN p : p[i] \in ToSet(AllEntries)}
<1>1. DOMAIN p = 1..Len(p) /\ Len(p) \in Nat
  BY LenProperties
<1>2. entries = 1..Len(p)
  BY <1>1
<1>3. \A i \in 1..Len(p) : m + i \in (m + 1)..n
  BY <1>1
<1>4. \A k \in (m + 1)..n : k - m \in 1..Len(p) /\ m + (k - m) = k
  BY <1>1
<1> HIDE DEF entries
<1>5. {p[i] : i \in entries} = {all[k] : k \in (m + 1)..n}
  <2>1. ASSUME NEW i \in entries PROVE p[i] \in {all[k] : k \in (m + 1)..n}
    BY <1>2, <1>3
  <2>2. ASSUME NEW k \in (m + 1)..n PROVE all[k] \in {p[i] : i \in entries}
    <3>1. PICK i \in 1..Len(p) : m + i = k
      BY <1>4
    <3> QED BY <1>2, <3>1
  <2> QED BY <2>1, <2>2
<1>6. ASSUME NEW i \in entries, NEW j \in entries, i < j
      PROVE  \E k, l \in (m + 1)..n : k < l /\ p[i] = all[k] /\ p[j] = all[l]
  <2>1. PICK k \in (m + 1)..n : k = m + i
    BY <1>2, <1>3
  <2>2. PICK l \in (m + 1)..n : l = m + j
    BY <1>2, <1>3
  <2>3. p[i] = all[k] /\ p[j] = all[l] /\ k < l
    BY <1>1, <1>2, <1>6, <2>1, <2>2
  <2> QED BY <2>3
<1> QED BY <1>5, <1>6 DEF Lists, entries

LEMMA ListsConcat ==
  ASSUME NEW p \in Seq(Pieces), NEW q \in Seq(Pieces), NEW all,
         NEW a \in Nat, NEW m \in Nat, NEW n \in Nat, a <= m + 1, m <= n,
         Lists(p, a, m, all), Lists(q, m + 1, n, all)
  PROVE  p \o q \in Seq(Pieces) /\ Lists(p \o q, a, n, all)
<1> DEFINE u == p \o q
           ps == {i \in DOMAIN p : p[i] \in ToSet(AllEntries)}
           qs == {i \in DOMAIN q : q[i] \in ToSet(AllEntries)}
           us == {i \in DOMAIN u : u[i] \in ToSet(AllEntries)}
           s == Len(p)
           t == Len(q)
<1>1. /\ u \in Seq(Pieces) /\ Len(u) = s + t
      /\ \A k \in 1..(s + t) : u[k] = IF k <= s THEN p[k] ELSE q[k - s]
  BY ConcatProperties
<1>2. DOMAIN p = 1..s /\ DOMAIN q = 1..t /\ s \in Nat /\ t \in Nat
  BY LenProperties
<1>3. DOMAIN u = 1..(s + t)
  BY <1>1, LenProperties
<1> HIDE DEF u, s, t
<1>4. ASSUME NEW i \in us PROVE (i \in ps /\ u[i] = p[i]) \/ (i > s /\ i - s \in qs /\ u[i] = q[i - s])
  <2>1. i \in 1..(s + t) /\ u[i] = IF i <= s THEN p[i] ELSE q[i - s]
    BY <1>1, <1>3
  <2>2. CASE i <= s
    BY <1>2, <2>1, <2>2
  <2>3. CASE ~(i <= s)
    <3>1. i - s \in 1..t
      BY <1>2, <2>1, <2>3
    <3> QED BY <1>2, <2>1, <2>3, <3>1
  <2> QED BY <2>2, <2>3
<1>5. ASSUME NEW i \in ps PROVE i \in us /\ u[i] = p[i]
  <2>1. i \in 1..s /\ i \in 1..(s + t) /\ i <= s
    BY <1>2
  <2>2. u[i] = p[i]
    BY <1>1, <2>1
  <2> QED BY <1>3, <2>1, <2>2
<1>6. ASSUME NEW i \in qs PROVE \E j \in us : u[j] = q[i]
  <2>1. PICK j \in 1..(s + t) : j = i + s /\ ~(j <= s) /\ j - s = i
    BY <1>2
  <2>2. u[j] = q[i]
    BY <1>1, <2>1
  <2> QED BY <1>3, <2>1, <2>2
<1>7. /\ {p[i] : i \in ps} = {all[k] : k \in a..m}
      /\ \A i, j \in ps : i < j => \E k, l \in a..m : k < l /\ p[i] = all[k] /\ p[j] = all[l]
  BY DEF Lists
<1>8. /\ {q[i] : i \in qs} = {all[k] : k \in (m + 1)..n}
      /\ \A i, j \in qs :
           i < j => \E k, l \in (m + 1)..n : k < l /\ q[i] = all[k] /\ q[j] = all[l]
  BY DEF Lists
<1>9. /\ \A i \in us : i \in Int
      /\ \A k \in a..m : k \in a..n /\ k \in Int /\ k <= m
      /\ \A k \in (m + 1)..n : k \in a..n /\ k \in Int /\ k >= m + 1
      /\ \A k \in a..n : k \in a..m \/ k \in (m + 1)..n
  BY <1>2, <1>3
<1> HIDE DEF ps, qs, us
<1>10. {u[i] : i \in us} = {all[k] : k \in a..n}
  <2>1. ASSUME NEW i \in us PROVE u[i] \in {all[k] : k \in a..n}
    <3>1. CASE i \in ps /\ u[i] = p[i]
      BY <1>7, <1>9, <3>1
    <3>2. CASE i - s \in qs /\ u[i] = q[i - s]
      BY <1>8, <1>9, <3>2
    <3> QED BY <1>4, <3>1, <3>2
  <2>2. ASSUME NEW k \in a..n PROVE all[k] \in {u[i] : i \in us}
    <3>1. CASE k \in a..m
      <4>1. PICK i \in ps : all[k] = p[i]
        BY <1>7, <3>1
      <4> QED BY <1>5, <4>1
    <3>2. CASE k \in (m + 1)..n
      <4>1. PICK i \in qs : all[k] = q[i]
        BY <1>8, <3>2
      <4> QED BY <1>6, <4>1
    <3> QED BY <1>9, <3>1, <3>2
  <2> QED BY <2>1, <2>2
<1>11. ASSUME NEW i \in us, NEW j \in us, i < j
       PROVE  \E k, l \in a..n : k < l /\ u[i] = all[k] /\ u[j] = all[l]
  <2>1. CASE i \in ps /\ u[i] = p[i] /\ j \in ps /\ u[j] = p[j]
    <3>1. PICK k \in a..m, l \in a..m : k < l /\ p[i] = all[k] /\ p[j] = all[l]
      BY <1>7, <1>11, <2>1
    <3> QED BY <1>9, <2>1, <3>1
  <2>2. CASE i \in ps /\ u[i] = p[i] /\ j - s \in qs /\ u[j] = q[j - s]
    <3>1. PICK k \in a..m : p[i] = all[k]
      <4>1. p[i] \in {p[x] : x \in ps}
        BY <2>2
      <4>2. {p[x] : x \in ps} = {all[k] : k \in a..m}
        BY <1>7
      <4> QED BY ONLY <4>1, <4>2
    <3>2. PICK l \in (m + 1)..n : q[j - s] = all[l]
      <4>1. q[j - s] \in {q[x] : x \in qs}
        BY <2>2
      <4>2. {q[x] : x \in qs} = {all[x] : x \in (m + 1)..n}
        BY <1>8
      <4> QED BY ONLY <4>1, <4>2
    <3>3. k < l
      BY <1>9
    <3> QED BY <1>9, <2>2, <3>1, <3>2, <3>3
  <2>3. CASE i > s /\ i - s \in qs /\ u[i] = q[i - s] /\ j - s \in qs /\ u[j] = q[j - s]
    <3>1. i - s < j - s
      BY <1>2, <1>9, <1>11
    <3>2. PICK k \in (m + 1)..n, l \in (m + 1)..n :
            k < l /\ q[i - s] = all[k] /\ q[j - s] = all[l]
      BY <1>8, <2>3, <3>1
    <3> QED BY <1>9, <2>3, <3>2
  <2>4. CASE i > s /\ j \in ps
    <3>1. j <= s
      BY <1>2, <2>4 DEF ps
    <3> QED BY <1>2, <1>9, <1>11, <2>4, <3>1
  <2> QED BY <1>4, <2>1, <2>2, <2>3, <2>4
<1>12. Lists(u, a, n, all)
  BY <1>10, <1>11 DEF Lists, us
<1> QED BY <1>1, <1>12 DEF u

\* The tables of a build of the router, by position.
IsAll(all, b) == all = Nbrs \o Routes \o (IF b = "native" THEN Sensors ELSE <<>>)

LEMMA TablesOf ==
  ASSUME NEW b, NEW all, IsAll(all, b)
  PROVE  /\ Len(all) = Len(Nbrs) + Len(Routes) + (IF b = "native" THEN Len(Sensors) ELSE 0)
         /\ \A k \in 1..Len(Nbrs) : all[k] = Nbrs[k]
         /\ \A k \in 1..Len(Routes) : all[Len(Nbrs) + k] = Routes[k]
         /\ b = "native" =>
              \A k \in 1..Len(Sensors) : all[Len(Nbrs) + Len(Routes) + k] = Sensors[k]
<1> DEFINE ss == IF b = "native" THEN Sensors ELSE <<>>
           nr == Nbrs \o Routes
           x == Len(Nbrs)
           y == Len(Routes)
<1>1. Nbrs \in Seq(Pieces) /\ Routes \in Seq(Pieces) /\ ss \in Seq(Pieces)
  BY TablesFacts, EmptySeq
<1>2. x \in Nat /\ y \in Nat /\ Len(ss) \in Nat
  BY <1>1, LenProperties
<1>3. /\ nr \in Seq(Pieces) /\ Len(nr) = x + y
      /\ \A k \in 1..(x + y) : nr[k] = IF k <= x THEN Nbrs[k] ELSE Routes[k - x]
  BY <1>1, ConcatProperties
<1>4. Len(ss) = IF b = "native" THEN Len(Sensors) ELSE 0
  OBVIOUS
<1>5. all = nr \o ss
  BY DEF IsAll
<1>6. b = "native" => ss = Sensors
  OBVIOUS
<1> HIDE DEF nr, ss, x, y
<1>7. /\ Len(all) = x + y + Len(ss)
      /\ \A k \in 1..(x + y + Len(ss)) : all[k] = IF k <= x + y THEN nr[k] ELSE ss[k - (x + y)]
  BY <1>1, <1>3, <1>5, ConcatProperties
<1>8. ASSUME NEW k \in 1..x PROVE all[k] = Nbrs[k]
  <2>1. k \in 1..(x + y + Len(ss)) /\ k <= x + y /\ k \in 1..(x + y) /\ k <= x
    BY <1>2
  <2> QED BY <1>3, <1>7, <2>1
<1>9. ASSUME NEW k \in 1..y PROVE all[x + k] = Routes[k]
  <2>1. PICK l \in 1..(x + y) : l = x + k /\ ~(l <= x) /\ l - x = k
    BY <1>2
  <2>2. l \in 1..(x + y + Len(ss)) /\ l <= x + y
    BY <1>2
  <2>3. all[l] = Routes[k]
    BY <1>3, <1>7, <2>1, <2>2
  <2> QED BY <2>1, <2>3
<1>10. ASSUME b = "native", NEW k \in 1..Len(ss) PROVE all[x + y + k] = ss[k]
  <2>1. PICK l \in 1..(x + y + Len(ss)) : l = x + y + k /\ ~(l <= x + y) /\ l - (x + y) = k
    BY <1>2
  <2>2. all[l] = ss[k]
    BY <1>7, <2>1
  <2> QED BY <2>1, <2>2
<1> QED BY <1>4, <1>6, <1>7, <1>8, <1>9, <1>10 DEF x, y

LEMMA EntriesOf ==
  /\ \A k \in 1..Len(Nbrs) : Nbrs[k] \in ToSet(AllEntries)
  /\ \A k \in 1..Len(Routes) : Routes[k] \in ToSet(AllEntries)
  /\ \A k \in 1..Len(Sensors) : Sensors[k] \in ToSet(AllEntries)
  /\ \A text \in Texts : text \notin ToSet(AllEntries) /\ <<text>> \in Seq(Pieces)
<1> DEFINE nr == Nbrs \o Routes
<1>1. Nbrs \in Seq(Pieces) /\ Routes \in Seq(Pieces) /\ Sensors \in Seq(Pieces)
  BY TablesFacts
<1>2. nr \in Seq(Pieces) /\ ToSet(Nbrs) \subseteq ToSet(nr) /\ ToSet(Routes) \subseteq ToSet(nr)
  BY <1>1, ConcatEntries
<1> HIDE DEF nr
<1>3. ToSet(nr) \subseteq ToSet(nr \o Sensors) /\ ToSet(Sensors) \subseteq ToSet(nr \o Sensors)
  BY <1>1, <1>2, ConcatEntries
<1>4. AllEntries = nr \o Sensors
  BY DEF AllEntries, nr
<1>5. \A s \in {Nbrs, Routes, Sensors} : \A k \in 1..Len(s) : s[k] \in ToSet(s)
  BY <1>1, LenProperties DEF ToSet
<1>6. \A text \in Texts : text \notin ToSet(AllEntries) /\ <<text>> \in Seq(Pieces)
  BY TablesAssumption, TablesFacts
<1> QED BY <1>2, <1>3, <1>4, <1>5, <1>6

\* What ADD() adds to what is in use of the buffer.
LEMMA AddContent ==
  ASSUME NEW g \in Statics, NEW xs \in Seq(Pieces)
  PROVE  /\ Content(g) \in Seq(Pieces) /\ Content(Add(g, xs)) = Content(g) \o xs
         /\ Content(Reset(g)) = <<>>
         /\ Add(g, xs).nbr = g.nbr /\ Add(g, xs).r = g.r /\ Add(g, xs).i = g.i
         /\ Reset(g).nbr = g.nbr /\ Reset(g).r = g.r /\ Reset(g).i = g.i
<1>1. /\ g.buf \in Seq(Pieces) /\ g.blen \in Nat /\ g.blen <= Len(g.buf)
      /\ Len(g.buf) \in Nat /\ Len(xs) \in Nat
  BY LenProperties DEF Statics
<1>2. PICK grown \in Nat : grown = g.blen + Len(xs)
  BY <1>1
<1> DEFINE before == SubSeq(g.buf, 1, g.blen)
           after == SubSeq(g.buf, grown + 1, Len(g.buf))
           first == before \o xs
           all == first \o after
<1>3. before \in Seq(Pieces) /\ Len(before) = g.blen
  BY <1>1, PartOfBuf
<1>4. after \in Seq(Pieces)
  BY <1>1, PartOfBuf
<1> HIDE DEF before, after
<1>5. first \in Seq(Pieces) /\ Len(first) = grown
  BY <1>1, <1>2, <1>3, ConcatProperties
<1> HIDE DEF first
<1>6. SubSeq(all, 1, grown) = first
  <2>1. /\ all \in Seq(Pieces) /\ Len(all) = grown + Len(after)
        /\ \A k \in 1..(grown + Len(after)) :
             all[k] = IF k <= grown THEN first[k] ELSE after[k - grown]
    BY <1>4, <1>5, ConcatProperties
  <2>2. Len(after) \in Nat
    BY <1>4, LenProperties
  <2> HIDE DEF all
  <2> DEFINE z == SubSeq(all, 1, grown)
  <2>3. \A k \in 1..grown : k \in 1..(grown + Len(after)) /\ k <= grown
    BY <2>2
  <2>4. \A k \in 1..grown : all[k] = first[k] /\ all[k] \in Pieces
    BY <1>5, <2>1, <2>3, ElementOfSeq
  <2>5. z \in Seq(Pieces) /\ Len(z) = grown /\ \A k \in 1..grown : z[k] = all[k]
    BY <2>1, <2>4, SubSeqProperties
  <2> HIDE DEF z
  <2>6. z = first
    BY <1>5, <2>4, <2>5, SeqEqual
  <2> QED BY <2>6 DEF z
<1>7. Add(g, xs) = [g EXCEPT !.buf = all, !.blen = grown]
  BY <1>2 DEF Add, all, first, before, after
<1> HIDE DEF all
<1>8. Add(g, xs).buf = all /\ Add(g, xs).blen = grown
  BY <1>7 DEF Statics
<1>9. Content(Add(g, xs)) = Content(g) \o xs
  BY <1>6, <1>8 DEF Content, first, before
<1>10. Content(Reset(g)) = <<>>
  <2>1. Reset(g).buf = g.buf /\ Reset(g).blen = 0
    BY DEF Reset, Statics
  <2> QED BY <1>1, <2>1, SubSeqEmpty DEF Content
<1>11. /\ Add(g, xs).nbr = g.nbr /\ Add(g, xs).r = g.r /\ Add(g, xs).i = g.i
       /\ Reset(g).nbr = g.nbr /\ Reset(g).r = g.r /\ Reset(g).i = g.i
  BY <1>7 DEF Statics, Reset
<1> QED BY <1>3, <1>9, <1>10, <1>11 DEF Content, before

\* A step of generate_routes() that goes on with the m-th entry listed.
Goes(m, next, all, b) ==
  LET n == Cursor(next.pc, next.static, all) IN
  /\ next.static.build = b
  /\ Ready(next.pc, next.static, all)
  /\ n \in Nat /\ m <= n
  /\ \A copy \in Copies(next.segment, next.static) : Lists(copy, m + 1, n, all)

LEMMA SendBufGoes ==
  ASSUME NEW g \in Statics, NEW where, NEW m \in Nat, NEW n \in Nat, NEW all, m <= n,
         Ready(where, g, all), n = Cursor(where, g, all), Lists(Content(g), m + 1, n, all)
  PROVE  Goes(m, SendBuf(where, g), all, g.build)
<1>1. PICK next : next = SendBuf(where, g)
  OBVIOUS
<1>2. /\ next.pc = where /\ next.static = g
      /\ next.segment.copies = {Content(g)} /\ next.segment.len = g.blen
  BY <1>1 DEF SendBuf, Content
<1>3. Copies(next.segment, next.static) = {Content(g)}
  BY <1>2 DEF Copies, Content
<1> QED BY <1>1, <1>2, <1>3 DEF Goes

LEMMA TextLists ==
  ASSUME NEW text \in Texts, NEW m \in Nat, NEW all
  PROVE  <<text>> \in Seq(Pieces) /\ Lists(<<text>>, m + 1, m, all)
<1>1. /\ <<text>> \in Seq(Pieces) /\ Len(<<text>>) = 1
      /\ \A k \in 1..1 : <<text>>[k] \notin ToSet(AllEntries)
  BY EntriesOf
<1> QED BY <1>1, ListsNothing

LEMMA SendTextGoes ==
  ASSUME NEW g, NEW where \in {"type", "top", "bottom"}, NEW text \in Texts, NEW m \in Nat, NEW all,
         m = Cursor(where, g, all)
  PROVE  Goes(m, SendText(where, g, text), all, g.build)
<1>1. PICK next : next = SendText(where, g, text)
  OBVIOUS
<1>2. /\ next.pc = where /\ next.static = g /\ next.segment.copies = {<<text>>}
      /\ ~next.segment.inBuf
  BY <1>1 DEF SendText
<1>3. Copies(next.segment, next.static) = {<<text>>}
  BY <1>2 DEF Copies
<1>4. Lists(<<text>>, m + 1, m, all)
  BY TextLists
<1>5. Ready(where, g, all)
  BY DEF Ready
<1> QED BY <1>1, <1>2, <1>3, <1>4, <1>5 DEF Goes

LEMMA EntryLists ==
  ASSUME NEW m \in Nat, NEW all, all[m + 1] \in ToSet(AllEntries)
  PROVE  /\ <<all[m + 1]>> \in Seq(Pieces)
         /\ Lists(<<all[m + 1]>>, m + 1, m + 1, all)
<1> DEFINE x == all[m + 1]
<1>1. /\ <<x>> \in Seq(Pieces) /\ Len(<<x>>) = (m + 1) - m /\ m + 1 \in Nat
  BY DEF Pieces
<1>2. \A i \in 1..Len(<<x>>) : <<x>>[i] = all[m + i] /\ <<x>>[i] \in ToSet(AllEntries)
  OBVIOUS
<1> HIDE DEF x
<1>3. Lists(<<x>>, m + 1, m + 1, all)
  BY <1>1, <1>2, ListsPart
<1> QED BY <1>1, <1>3 DEF x

\* What lists nothing does so at any point.
LEMMA NothingAnywhere ==
  ASSUME NEW p \in Seq(Pieces), NEW m \in Nat, NEW n \in Nat, NEW all, Lists(p, m + 1, m, all)
  PROVE  Lists(p, n + 1, n, all)
<1>1. (m + 1)..m = {}
  OBVIOUS
<1>2. {p[i] : i \in {j \in DOMAIN p : p[j] \in ToSet(AllEntries)}} = {}
  BY <1>1 DEF Lists
<1>3. \A i \in 1..Len(p) : p[i] \notin ToSet(AllEntries)
  BY <1>2, LenProperties
<1> QED BY <1>3, ListsNothing

\* A text or entries added to a buffer that lists nothing.
LEMMA AddLists ==
  ASSUME NEW g \in Statics, NEW xs \in Seq(Pieces), NEW m \in Nat, NEW n \in Nat, NEW all,
         m <= n, Lists(Content(g), m + 1, m, all), Lists(xs, m + 1, n, all)
  PROVE  /\ Content(Add(g, xs)) \in Seq(Pieces)
         /\ Lists(Content(Add(g, xs)), m + 1, n, all)
<1>1. Content(g) \in Seq(Pieces) /\ Content(Add(g, xs)) = Content(g) \o xs
  BY AddContent
<1>2. m + 1 \in Nat /\ m + 1 <= m + 1
  OBVIOUS
<1> QED BY <1>1, <1>2, ListsConcat

LEMMA CursorKeeps ==
  ASSUME NEW g \in Statics, NEW k \in Nat
  PROVE  /\ Content([g EXCEPT !.nbr = k]) = Content(g) /\ [g EXCEPT !.nbr = k].build = g.build
         /\ [g EXCEPT !.nbr = k].nbr = k
         /\ Content([g EXCEPT !.r = k]) = Content(g) /\ [g EXCEPT !.r = k].build = g.build
         /\ [g EXCEPT !.r = k].r = k
         /\ Content([g EXCEPT !.i = k]) = Content(g) /\ [g EXCEPT !.i = k].build = g.build
         /\ [g EXCEPT !.i = k].i = k
BY DEF Content, Statics

LEMMA NeighboursGoes ==
  ASSUME NEW g \in Statics, NEW n \in 1..(Len(Nbrs) + 1), NEW all, IsAll(all, g.build),
         NEW m \in Nat, m = n - 1, Lists(Content(g), m + 1, m, all)
  PROVE  Goes(m, Neighbours(g, n), all, g.build)
<1>0. \A k \in 1..Len(Nbrs) : all[k] = Nbrs[k] /\ Nbrs[k] \in ToSet(AllEntries)
  <2>1. PICK b : b = g.build
    OBVIOUS
  <2>2. \A k \in 1..Len(Nbrs) : all[k] = Nbrs[k]
    BY ONLY <2>1, IsAll(all, g.build), TablesOf
  <2>3. \A k \in 1..Len(Nbrs) : Nbrs[k] \in ToSet(AllEntries)
    BY EntriesOf
  <2> QED BY <2>2, <2>3
<1>1. Nbrs \in Seq(Pieces) /\ Len(Nbrs) \in Nat /\ g.blen \in Nat
  BY TablesFacts, LenProperties DEF Statics
<1> DEFINE room == IF g.blen < FlushAt THEN FlushAt - g.blen ELSE 1
<1>2. PICK last \in Nat : last = n + room - 1 /\ last >= n
  BY <1>1, WebServerAssumption
<1>3. ASSUME NEW l \in Nat, l <= Len(Nbrs), m <= l
      PROVE  SubSeq(Nbrs, n, l) \in Seq(Pieces) /\ Lists(SubSeq(Nbrs, n, l), m + 1, l, all)
  <2> DEFINE xs == SubSeq(Nbrs, n, l)
  <2>1. \A k \in n..l : k \in 1..Len(Nbrs)
    BY <1>1, <1>3
  <2>2. \A k \in n..l : Nbrs[k] \in Pieces
    BY <1>1, <2>1, ElementOfSeq
  <2>3. /\ xs \in Seq(Pieces) /\ Len(xs) = l - m
        /\ \A i \in 1..(l - m) : xs[i] = Nbrs[n + i - 1]
    <3>1. (IF n <= l THEN l - n + 1 ELSE 0) = l - m
      BY <1>1, <1>3
    <3> QED BY <1>1, <2>2, <3>1, SubSeqProperties
  <2> HIDE DEF xs
  <2>4. ASSUME NEW i \in 1..Len(xs) PROVE xs[i] = all[m + i] /\ xs[i] \in ToSet(AllEntries)
    <3>1. PICK k \in 1..Len(Nbrs) : k = m + i /\ k = n + i - 1
      BY <1>1, <1>3, <2>3
    <3>2. xs[i] = Nbrs[k]
      BY <2>3, <3>1
    <3>3. all[k] = Nbrs[k] /\ Nbrs[k] \in ToSet(AllEntries)
      BY <1>0, <3>1
    <3> QED BY <3>1, <3>2, <3>3
  <2>5. Lists(xs, m + 1, l, all)
    BY <2>3, <2>4, ListsPart
  <2> QED BY <2>3, <2>5 DEF xs
<1>4. CASE last <= Len(Nbrs)
  <2> DEFINE xs == SubSeq(Nbrs, n, last)
  <2>1. m <= last
    BY <1>2
  <2>2. xs \in Seq(Pieces) /\ Lists(xs, m + 1, last, all)
    BY <1>3, <1>4, <2>1
  <2> HIDE DEF xs
  <2>3. PICK h : h = Add(g, xs)
    OBVIOUS
  <2>4. h \in Statics /\ h.build = g.build
    BY <2>2, <2>3, AddType
  <2>5. Lists(Content(h), m + 1, last, all)
    BY <2>1, <2>2, <2>3, AddLists
  <2>6. PICK k : k = [h EXCEPT !.nbr = last]
    OBVIOUS
  <2>7. k \in Statics /\ Content(k) = Content(h) /\ k.build = g.build /\ k.nbr = last
    <3>1. last \in 0..Len(Nbrs)
      BY <1>1, <1>4
    <3> QED BY <2>4, <2>6, <3>1, CursorType, CursorKeeps
  <2>8. Ready("nbrs", k, all) /\ last = Cursor("nbrs", k, all)
    BY <2>7 DEF Ready, Cursor
  <2>9. Goes(m, SendBuf("nbrs", k), all, k.build)
    BY <2>1, <2>5, <2>7, <2>8, SendBufGoes
  <2>10. Neighbours(g, n) = SendBuf("nbrs", k)
    BY <1>2, <1>4, <2>3, <2>6 DEF Neighbours, xs
  <2> QED BY <2>7, <2>9, <2>10
<1>5. CASE ~(last <= Len(Nbrs))
  <2> DEFINE rest == SubSeq(Nbrs, n, Len(Nbrs))
             xs == rest \o <<"Routes">>
             l == Len(Nbrs)
  <2>1. l \in Nat /\ m <= l
    BY <1>1
  <2>2. rest \in Seq(Pieces) /\ Lists(rest, m + 1, l, all)
    BY <1>1, <1>3, <2>1
  <2> HIDE DEF rest, l
  <2>3. xs \in Seq(Pieces) /\ Lists(xs, m + 1, l, all)
    <3>1. <<"Routes">> \in Seq(Pieces) /\ Lists(<<"Routes">>, l + 1, l, all)
      BY <2>1, TextLists DEF Texts
    <3>2. m + 1 \in Nat /\ m + 1 <= l + 1 /\ l <= l
      BY <2>1
    <3> QED BY <2>1, <2>2, <3>1, <3>2, ListsConcat
  <2> HIDE DEF xs
  <2>4. PICK h : h = Add(g, xs)
    OBVIOUS
  <2>5. h \in Statics /\ h.build = g.build
    BY <2>3, <2>4, AddType
  <2>6. Lists(Content(h), m + 1, l, all)
    BY <2>1, <2>3, <2>4, AddLists
  <2>7. PICK k : k = [h EXCEPT !.nbr = NULL]
    OBVIOUS
  <2>8. k \in Statics /\ Content(k) = Content(h) /\ k.build = g.build
    <3>1. NULL \in 0..Len(Nbrs) /\ NULL \in Nat
      BY <1>1 DEF NULL
    <3> QED BY <2>5, <2>7, <3>1, CursorType, CursorKeeps
  <2>9. Ready("routehdr", k, all) /\ l = Cursor("routehdr", k, all)
    BY DEF Ready, Cursor, l
  <2>10. Goes(m, SendBuf("routehdr", k), all, k.build)
    BY <2>1, <2>6, <2>8, <2>9, SendBufGoes
  <2>11. Neighbours(g, n) = SendBuf("routehdr", k)
    BY <1>2, <1>5, <2>4, <2>7 DEF Neighbours, xs, rest
  <2> QED BY <2>8, <2>10, <2>11
<1> QED BY <1>4, <1>5

LEMMA RouteGoes ==
  ASSUME NEW g \in Statics, Content(g) = <<>>, NEW r \in 0..Len(Routes), NEW all,
         IsAll(all, g.build), NEW m \in Nat,
         m = IF r = NULL THEN Len(Nbrs) + Len(Routes) ELSE Len(Nbrs) + r - 1
  PROVE  Goes(m, Route(g, r), all, g.build)
<1>1. Len(Nbrs) \in Nat /\ Len(Routes) \in Nat
  BY TablesFacts, LenProperties
<1>2. \A k \in 1..Len(Routes) : all[Len(Nbrs) + k] = Routes[k] /\ Routes[k] \in ToSet(AllEntries)
  <2>1. PICK b : b = g.build
    OBVIOUS
  <2>2. \A k \in 1..Len(Routes) : all[Len(Nbrs) + k] = Routes[k]
    BY ONLY <2>1, IsAll(all, g.build), TablesOf
  <2>3. \A k \in 1..Len(Routes) : Routes[k] \in ToSet(AllEntries)
    BY EntriesOf
  <2> QED BY <2>2, <2>3
<1>3. Lists(Content(g), m + 1, m, all)
  <2>1. <<>> \in Seq(Pieces) /\ 1..Len(<<>>) = {}
    OBVIOUS
  <2> QED BY <2>1, ListsNothing
<1>4. CASE r # NULL
  <2> DEFINE xs == <<Routes[r]>>
             n == m + 1
  <2>1. n \in Nat /\ m <= n /\ n = Len(Nbrs) + r
    BY <1>1, <1>4
  <2>2. xs \in Seq(Pieces) /\ Lists(xs, m + 1, n, all)
    <3>1. r \in 1..Len(Routes)
      BY <1>4 DEF NULL
    <3>2. all[m + 1] = Routes[r] /\ all[m + 1] \in ToSet(AllEntries)
      BY <1>2, <2>1, <3>1
    <3>3. <<all[m + 1]>> \in Seq(Pieces) /\ Lists(<<all[m + 1]>>, m + 1, m + 1, all)
      BY <3>2, EntryLists
    <3> QED BY <3>2, <3>3
  <2> HIDE DEF xs, n
  <2>3. PICK h : h = Add(g, xs)
    OBVIOUS
  <2>4. h \in Statics /\ h.build = g.build
    BY <2>2, <2>3, AddType
  <2>5. Lists(Content(h), m + 1, n, all)
    BY <1>3, <2>1, <2>2, <2>3, AddLists
  <2>6. PICK k : k = [h EXCEPT !.r = r]
    OBVIOUS
  <2>7. k \in Statics /\ Content(k) = Content(h) /\ k.build = g.build /\ k.r = r
    <3>1. r \in Nat
      BY <1>1
    <3> QED BY <2>4, <2>6, <3>1, CursorType, CursorKeeps
  <2>8. Ready("routes", k, all) /\ n = Cursor("routes", k, all)
    BY <1>4, <2>1, <2>7 DEF Ready, Cursor
  <2>9. Goes(m, SendBuf("routes", k), all, k.build)
    BY <2>1, <2>5, <2>7, <2>8, SendBufGoes
  <2>10. Route(g, r) = SendBuf("routes", k)
    BY <1>4, <2>3, <2>6 DEF Route, xs
  <2> QED BY <2>7, <2>9, <2>10
<1>5. CASE r = NULL
  <2> DEFINE xs == <<"end">>
  <2>1. xs \in Seq(Pieces) /\ Lists(xs, m + 1, m, all) /\ Lists(xs, 0 + 1, 0, all)
    BY TextLists DEF Texts
  <2> HIDE DEF xs
  <2>2. PICK h : h = Add(g, xs)
    OBVIOUS
  <2>3. h \in Statics /\ h.build = g.build
    BY <2>1, <2>2, AddType
  <2>4. Lists(Content(h), m + 1, m, all) /\ Lists(Content(h), 1, 0, all)
    <3>1. Content(h) \in Seq(Pieces) /\ Lists(Content(h), m + 1, m, all)
      BY <1>3, <2>1, <2>2, AddLists
    <3>2. Lists(Content(h), 0 + 1, 0, all)
      BY <3>1, NothingAnywhere
    <3> QED BY <3>1, <3>2
  <2>5. PICK k : k = [h EXCEPT !.r = NULL]
    OBVIOUS
  <2>6. k \in Statics /\ Content(k) = Content(h) /\ k.build = g.build
    <3>1. NULL \in 0..Len(Routes) /\ NULL \in Nat
      BY <1>1 DEF NULL
    <3> QED BY <2>3, <2>5, <3>1, CursorType, CursorKeeps
  <2>7. Ready("end", k, all) /\ m = Cursor("end", k, all)
    BY <1>5, <2>4, <2>6 DEF Ready, Cursor
  <2>8. Goes(m, SendBuf("end", k), all, k.build)
    BY <2>4, <2>6, <2>7, SendBufGoes
  <2>9. Route(g, r) = SendBuf("end", k)
    BY <1>5, <2>2, <2>5 DEF Route, xs
  <2> QED BY <2>6, <2>8, <2>9
<1> QED BY <1>4, <1>5

LEMMA SensorGoes ==
  ASSUME NEW g \in Statics, Content(g) = <<>>, g.build = "native",
         NEW i \in 1..(Len(Sensors) + 1), NEW all, IsAll(all, g.build), NEW m \in Nat,
         m = Len(Nbrs) + Len(Routes) + i - 1
  PROVE  Goes(m, Sensor(g, i), all, g.build)
<1>1. Len(Nbrs) \in Nat /\ Len(Routes) \in Nat /\ Len(Sensors) \in Nat
  BY TablesFacts, LenProperties
<1>2. /\ Len(all) = Len(Nbrs) + Len(Routes) + Len(Sensors)
      /\ \A k \in 1..Len(Sensors) :
           all[Len(Nbrs) + Len(Routes) + k] = Sensors[k] /\ Sensors[k] \in ToSet(AllEntries)
  <2>1. PICK b : b = g.build
    OBVIOUS
  <2>2. /\ Len(all) = Len(Nbrs) + Len(Routes) + Len(Sensors)
        /\ \A k \in 1..Len(Sensors) : all[Len(Nbrs) + Len(Routes) + k] = Sensors[k]
    BY ONLY <2>1, g.build = "native", IsAll(all, g.build), TablesOf
  <2>3. \A k \in 1..Len(Sensors) : Sensors[k] \in ToSet(AllEntries)
    BY EntriesOf
  <2> QED BY <2>2, <2>3
<1>3. Lists(Content(g), m + 1, m, all)
  <2>1. <<>> \in Seq(Pieces) /\ 1..Len(<<>>) = {}
    OBVIOUS
  <2> QED BY <2>1, ListsNothing
<1>4. CASE i <= Len(Sensors)
  <2> DEFINE xs == <<Sensors[i]>>
             n == m + 1
  <2>1. n \in Nat /\ m <= n /\ n = Len(Nbrs) + Len(Routes) + i
    BY <1>1, <1>4
  <2>2. xs \in Seq(Pieces) /\ Lists(xs, m + 1, n, all)
    <3>1. i \in 1..Len(Sensors)
      BY <1>1, <1>4
    <3>2. all[m + 1] = Sensors[i] /\ all[m + 1] \in ToSet(AllEntries)
      BY <1>2, <2>1, <3>1
    <3>3. <<all[m + 1]>> \in Seq(Pieces) /\ Lists(<<all[m + 1]>>, m + 1, m + 1, all)
      BY <3>2, EntryLists
    <3> QED BY <3>2, <3>3
  <2> HIDE DEF xs, n
  <2>3. PICK h : h = Add(g, xs)
    OBVIOUS
  <2>4. h \in Statics /\ h.build = g.build
    BY <2>2, <2>3, AddType
  <2>5. Lists(Content(h), m + 1, n, all)
    BY <1>3, <2>1, <2>2, <2>3, AddLists
  <2>6. PICK k : k = [h EXCEPT !.i = i]
    OBVIOUS
  <2>7. k \in Statics /\ Content(k) = Content(h) /\ k.build = g.build /\ k.i = i
    <3>1. i \in 0..Len(Sensors) /\ i \in Nat
      BY <1>1, <1>4
    <3> QED BY <2>4, <2>6, <3>1, CursorType, CursorKeeps
  <2>8. Ready("sensors", k, all) /\ n = Cursor("sensors", k, all)
    BY <2>1, <2>7 DEF Ready, Cursor
  <2>9. Goes(m, SendBuf("sensors", k), all, k.build)
    BY <2>1, <2>5, <2>7, <2>8, SendBufGoes
  <2>10. Sensor(g, i) = SendBuf("sensors", k)
    BY <1>4, <2>3, <2>6 DEF Sensor, xs
  <2> QED BY <2>7, <2>9, <2>10
<1>5. CASE ~(i <= Len(Sensors))
  <2> DEFINE xs == <<"end">>
  <2>1. xs \in Seq(Pieces) /\ Lists(xs, m + 1, m, all)
    BY TextLists DEF Texts
  <2> HIDE DEF xs
  <2>2. PICK h : h = Add(g, xs)
    OBVIOUS
  <2>3. h \in Statics /\ h.build = g.build
    BY <2>1, <2>2, AddType
  <2>4. Lists(Content(h), m + 1, m, all)
    BY <1>3, <2>1, <2>2, AddLists
  <2>5. m = Len(all)
    <3>1. i = Len(Sensors) + 1
      BY <1>1, <1>5
    <3> QED BY <1>1, <1>2, <3>1
  <2>6. Ready("lastend", h, all) /\ m = Cursor("lastend", h, all)
    BY <2>5 DEF Ready, Cursor
  <2>7. Goes(m, SendBuf("lastend", h), all, h.build)
    BY <2>3, <2>4, <2>6, SendBufGoes
  <2>8. Sensor(g, i) = SendBuf("lastend", h)
    BY <1>5, <2>2 DEF Sensor, xs
  <2> QED BY <2>3, <2>7, <2>8
<1> QED BY <1>4, <1>5

LEMMA NativeResumeGoes ==
  ASSUME NEW g \in Statics, NEW where \in OutputPcs \ {"bottom"}, NEW all, IsAll(all, g.build),
         Ready(where, g, all), where = "end" => g.build = "native",
         NEW m \in Nat, m = Cursor(where, g, all)
  PROVE  Goes(m, NativeResume(where, g), all, g.build)
<1> DEFINE h == Reset(g)
<1>1. /\ h \in Statics /\ h.build = g.build /\ Content(h) = <<>>
  <2>1. <<>> \in Seq(Pieces)
    OBVIOUS
  <2> QED BY <2>1, CursorType, AddContent
<1>2. /\ g.nbr \in 0..Len(Nbrs) /\ g.r \in 0..Len(Routes) /\ g.i \in 0..Len(Sensors)
      /\ Len(Nbrs) \in Nat /\ Len(Routes) \in Nat /\ Len(Sensors) \in Nat
      /\ Routes \in Seq(Pieces) /\ Sensors \in Seq(Pieces)
  BY TablesFacts, LenProperties DEF Statics
<1> HIDE DEF h
<1>3. IsAll(all, h.build)
  BY <1>1
<1>4. CASE where = "head" \/ where = "type"
  <2>1. m = Cursor("top", g, all) /\ m = Cursor("type", g, all)
    BY <1>4 DEF Cursor
  <2>2. CASE NativeResume(where, g) = SendText("type", g, "type")
    BY <2>1, <2>2, SendTextGoes DEF Texts
  <2>3. CASE NativeResume(where, g) = SendText("top", g, "top")
    BY <2>1, <2>3, SendTextGoes DEF Texts
  <2> QED BY <1>4, <2>2, <2>3 DEF NativeResume
<1>5. CASE where = "top"
  <2>1. NativeResume(where, g) = Neighbours(Add(h, <<"Neighbors">>), 1)
    BY <1>5 DEF NativeResume, h
  <2>2. m = 0
    BY <1>5 DEF Cursor
  <2>3. <<"Neighbors">> \in Seq(Pieces) /\ Lists(<<"Neighbors">>, m + 1, m, all)
    BY TextLists DEF Texts
  <2>4. PICK k : k = Add(h, <<"Neighbors">>)
    OBVIOUS
  <2>5. k \in Statics /\ k.build = g.build
    BY <1>1, <2>3, <2>4, AddType
  <2>6. Lists(Content(k), m + 1, m, all)
    <3>1. <<>> \in Seq(Pieces) /\ 1..Len(<<>>) = {}
      OBVIOUS
    <3>2. Lists(Content(h), m + 1, m, all)
      BY <1>1, <3>1, ListsNothing
    <3> DEFINE xs == <<"Neighbors">>
    <3>3. xs \in Seq(Pieces) /\ Lists(xs, m + 1, m, all) /\ m <= m
      BY <2>3
    <3> HIDE DEF xs
    <3>4. Lists(Content(Add(h, xs)), m + 1, m, all)
      BY <1>1, <3>2, <3>3, AddLists
    <3> QED BY <2>4, <3>4 DEF xs
  <2>7. 1 \in 1..(Len(Nbrs) + 1) /\ m = 1 - 1 /\ IsAll(all, k.build)
    BY <1>2, <2>2, <2>5
  <2>8. Goes(m, Neighbours(k, 1), all, k.build)
    BY <2>5, <2>6, <2>7, NeighboursGoes
  <2> QED BY <2>1, <2>4, <2>5, <2>8
<1>6. CASE where = "nbrs"
  <2>1. PICK n \in 1..(Len(Nbrs) + 1) : n = g.nbr + 1
    BY <1>2
  <2>2. NativeResume(where, g) = Neighbours(h, n)
    BY <1>6, <2>1 DEF NativeResume, h
  <2>3. m = n - 1
    BY <1>2, <1>6, <2>1 DEF Cursor
  <2>4. Lists(Content(h), m + 1, m, all)
    <3>1. <<>> \in Seq(Pieces) /\ 1..Len(<<>>) = {}
      OBVIOUS
    <3> QED BY <1>1, <3>1, ListsNothing
  <2>5. Goes(m, Neighbours(h, n), all, h.build)
    BY <1>1, <1>3, <2>3, <2>4, NeighboursGoes
  <2> QED BY <1>1, <2>2, <2>5
<1>7. CASE where = "routehdr"
  <2>1. PICK r : r = IF Routes = <<>> THEN NULL ELSE 1
    OBVIOUS
  <2>2. NativeResume(where, g) = Route(h, r)
    BY <1>7, <2>1 DEF NativeResume, h
  <2>3. r \in 0..Len(Routes) /\ m = IF r = NULL THEN Len(Nbrs) + Len(Routes) ELSE Len(Nbrs) + r - 1
    <3>1. m = Len(Nbrs)
      BY <1>7 DEF Cursor
    <3>2. CASE Routes = <<>>
      BY <1>2, <2>1, <3>1, <3>2 DEF NULL
    <3>3. CASE Routes # <<>>
      <4>1. Len(Routes) # 0
        BY <1>2, <3>3, EmptySeq
      <4> QED BY <1>2, <2>1, <3>1, <3>3, <4>1 DEF NULL
    <3> QED BY <3>2, <3>3
  <2>4. Goes(m, Route(h, r), all, h.build)
    BY <1>1, <1>3, <2>3, RouteGoes
  <2> QED BY <1>1, <2>2, <2>4
<1>8. CASE where = "routes"
  <2>1. PICK r : r = NextRoute(g.r)
    OBVIOUS
  <2>2. NativeResume(where, g) = Route(h, r)
    BY <1>8, <2>1 DEF NativeResume, h
  <2>3. r \in 0..Len(Routes) /\ m = IF r = NULL THEN Len(Nbrs) + Len(Routes) ELSE Len(Nbrs) + r - 1
    <3>1. m = Len(Nbrs) + g.r /\ g.r # NULL
      BY <1>8 DEF Cursor, Ready
    <3>2. CASE g.r = Len(Routes)
      BY <1>2, <2>1, <3>1, <3>2 DEF NULL, NextRoute
    <3>3. CASE g.r # Len(Routes)
      BY <1>2, <2>1, <3>1, <3>3 DEF NULL, NextRoute
    <3> QED BY <3>2, <3>3
  <2>4. Goes(m, Route(h, r), all, h.build)
    BY <1>1, <1>3, <2>3, RouteGoes
  <2> QED BY <1>1, <2>2, <2>4
<1>9. CASE where = "end"
  <2>1. m = Len(Nbrs) + Len(Routes) /\ g.build = "native"
    BY <1>9 DEF Cursor
  <2>2. CASE Sensors = <<>>
    <3>1. NativeResume(where, g) = SendText("bottom", g, "bottom")
      BY <1>9, <2>2 DEF NativeResume, Bottom
    <3>2. m = Cursor("bottom", g, all)
      <4>1. PICK b : b = g.build
        OBVIOUS
      <4>2. Len(all) = Len(Nbrs) + Len(Routes) + Len(Sensors)
        BY ONLY <2>1, <4>1, IsAll(all, g.build), TablesOf
      <4>3. Len(Sensors) = 0
        BY <2>2
      <4> QED BY <1>2, <2>1, <4>2, <4>3 DEF Cursor
    <3> QED BY <3>1, <3>2, SendTextGoes DEF Texts
  <2>3. CASE Sensors # <<>>
    <3>1. PICK k : k = Add(g, <<"Sensors">>)
      OBVIOUS
    <3>2. NativeResume(where, g) = SendBuf("sensorhdr", k)
      BY <1>9, <2>3, <3>1 DEF NativeResume
    <3>3. <<"Sensors">> \in Seq(Pieces) /\ Lists(<<"Sensors">>, m + 1, m, all)
      BY TextLists DEF Texts
    <3>4. Lists(Content(g), m + 1, m, all)
      <4>1. Lists(Content(g), 0 + 1, 0, all)
        BY <1>9 DEF Ready
      <4>2. Content(g) \in Seq(Pieces)
        BY <3>3, AddContent
      <4> QED BY <4>1, <4>2, NothingAnywhere
    <3>5. k \in Statics /\ k.build = g.build
      BY <3>1, <3>3, AddType
    <3>6. Lists(Content(k), m + 1, m, all)
      <4> DEFINE xs == <<"Sensors">>
      <4>1. xs \in Seq(Pieces) /\ Lists(xs, m + 1, m, all) /\ m <= m
        BY <3>3
      <4> HIDE DEF xs
      <4>2. Lists(Content(Add(g, xs)), m + 1, m, all)
        BY <3>4, <4>1, AddLists
      <4> QED BY <3>1, <4>2 DEF xs
    <3>7. Ready("sensorhdr", k, all) /\ m = Cursor("sensorhdr", k, all)
      BY <2>1, <3>5 DEF Ready, Cursor
    <3>8. Goes(m, SendBuf("sensorhdr", k), all, k.build)
      BY <3>5, <3>6, <3>7, SendBufGoes
    <3> QED BY <3>2, <3>5, <3>8
  <2> QED BY <2>2, <2>3
<1>10. CASE where = "sensorhdr"
  <2>1. NativeResume(where, g) = Sensor(h, 1)
    BY <1>10 DEF NativeResume, h
  <2>2. 1 \in 1..(Len(Sensors) + 1) /\ m = Len(Nbrs) + Len(Routes) + 1 - 1 /\ h.build = "native"
    BY <1>1, <1>2, <1>10 DEF Cursor, Ready
  <2>3. Goes(m, Sensor(h, 1), all, h.build)
    BY <1>1, <1>3, <2>2, SensorGoes
  <2> QED BY <1>1, <2>1, <2>3
<1>11. CASE where = "sensors"
  <2>1. PICK i \in 1..(Len(Sensors) + 1) : i = g.i + 1
    BY <1>2
  <2>2. NativeResume(where, g) = Sensor(h, i)
    BY <1>11, <2>1 DEF NativeResume, h
  <2>3. m = Len(Nbrs) + Len(Routes) + i - 1 /\ h.build = "native"
    BY <1>1, <1>2, <1>11, <2>1 DEF Cursor, Ready
  <2>4. Goes(m, Sensor(h, i), all, h.build)
    BY <1>1, <1>3, <2>3, SensorGoes
  <2> QED BY <1>1, <2>2, <2>4
<1>12. CASE where = "lastend"
  <2>1. NativeResume(where, g) = SendText("bottom", g, "bottom")
    BY <1>12 DEF NativeResume, Bottom
  <2>2. m = Cursor("bottom", g, all)
    BY <1>12 DEF Cursor
  <2> QED BY <2>1, <2>2, SendTextGoes DEF Texts
<1> QED BY <1>4, <1>5, <1>6, <1>7, <1>8, <1>9, <1>10, <1>11, <1>12 DEF OutputPcs

LEMMA ResumeGoes ==
  ASSUME NEW g \in Statics, NEW where \in OutputPcs \ {"bottom"}, NEW all, IsAll(all, g.build),
         Ready(where, g, all), NEW m \in Nat, m = Cursor(where, g, all)
  PROVE  Goes(m, Resume(where, g), all, g.build)
<1>1. CASE g.build = "native"
  BY <1>1, NativeResumeGoes DEF Resume
<1>2. CASE g.build # "native" /\ where = "top"
  <2>1. <<"teste">> \in Seq(Pieces)
    BY TablesFacts DEF Texts
  <2>2. PICK k : k = Add(g, <<"teste">>)
    OBVIOUS
  <2>3. k \in Statics /\ k.build = g.build
    BY <2>1, <2>2, AddType
  <2>4. /\ "top" \in OutputPcs \ {"bottom"} /\ Ready("top", k, all) /\ m = Cursor("top", k, all)
        /\ IsAll(all, k.build)
    BY <1>2, <2>3 DEF OutputPcs, Ready, Cursor
  <2>5. Goes(m, NativeResume("top", k), all, k.build)
    BY <2>3, <2>4, NativeResumeGoes
  <2> QED BY <1>2, <2>2, <2>3, <2>5 DEF Resume, EmbeddedResume
<1>3. CASE g.build # "native" /\ where = "end"
  <2>1. Resume(where, g) = SendText("bottom", g, "bottom")
    BY <1>3 DEF Resume, EmbeddedResume, Bottom
  <2>2. m = Cursor("bottom", g, all)
    <3>1. PICK b : b = g.build
      OBVIOUS
    <3>2. Len(all) = Len(Nbrs) + Len(Routes) + 0
      BY ONLY <1>3, <3>1, IsAll(all, g.build), TablesOf
    <3>3. Len(Nbrs) \in Nat /\ Len(Routes) \in Nat
      BY TablesFacts, LenProperties
    <3> QED BY <1>3, <3>2, <3>3 DEF Cursor
  <2> QED BY <2>1, <2>2, SendTextGoes DEF Texts
<1>4. CASE g.build # "native" /\ where # "top" /\ where # "end"
  BY <1>4, NativeResumeGoes DEF Resume, EmbeddedResume
<1> QED BY <1>1, <1>2, <1>3, <1>4

\* The thread never lists more than there is.
LEMMA CursorBound ==
  ASSUME NEW g \in Statics, NEW where \in OutputPcs, NEW all, IsAll(all, g.build),
         Ready(where, g, all)
  PROVE  Cursor(where, g, all) <= Len(all)
<1>1. PICK b : b = g.build
  OBVIOUS
<1>2. PICK n : n = IF b = "native" THEN Len(Sensors) ELSE 0
  OBVIOUS
<1>3. /\ g.nbr \in 0..Len(Nbrs) /\ g.r \in 0..Len(Routes) /\ g.i \in 0..Len(Sensors)
      /\ Len(Nbrs) \in Nat /\ Len(Routes) \in Nat /\ Len(Sensors) \in Nat
  BY TablesFacts, LenProperties DEF Statics
<1>4. Len(all) = Len(Nbrs) + Len(Routes) + n
  BY ONLY <1>1, <1>2, IsAll(all, g.build), TablesOf
<1>5. n \in Nat /\ Len(all) \in Nat
  <2>1. n \in Nat
    BY <1>2, <1>3
  <2> QED BY <1>3, <1>4, <2>1
<1>6. CASE where = "sensors"
  <2>1. n = Len(Sensors)
    BY <1>1, <1>2, <1>6 DEF Ready
  <2>2. Cursor(where, g, all) = Len(Nbrs) + Len(Routes) + g.i
    BY <1>6 DEF Cursor
  <2> QED BY <1>3, <1>4, <2>1, <2>2
<1>7. CASE where # "sensors"
  BY <1>3, <1>4, <1>5, <1>7 DEF Cursor
<1> QED BY <1>6, <1>7
-----------------------------------------------------------------------------
(* The page of each connection *)

LEMMA ExpectedKept ==
  ASSUME WebInv, static'.build = static.build
  PROVE  Expected' = Expected
BY DEF Expected

LEMMA ExpectedAll == IsAll(Expected, static.build) /\ Len(Expected) \in Nat
<1>1. IsAll(Expected, static.build)
  BY DEF Expected, IsAll
<1>2. PICK b, all : b = static.build /\ all = Expected
  OBVIOUS
<1>3. PICK n : n = IF b = "native" THEN Len(Sensors) ELSE 0
  OBVIOUS
<1>4. Len(all) = Len(Nbrs) + Len(Routes) + n
  BY ONLY <1>1, <1>2, <1>3, TablesOf
<1>5. Len(Nbrs) \in Nat /\ Len(Routes) \in Nat /\ n \in Nat
  BY <1>3, TablesFacts, LenProperties
<1>6. Len(all) \in Nat
  BY <1>4, <1>5
<1> QED BY <1>1, <1>2, <1>6

\* Nothing changes for a connection whose place, page and segment stay.
LEMMA PageUntouched ==
  ASSUME TypeInv, PageInv, NEW d \in Clients,
         pc'[d] = pc[d], conn'[d] = conn[d], page'[d] = page[d], segment'[d] = segment[d],
         shared[d] => shared'[d], Expected' = Expected,
         pc[d] \in OutputPcs /\ ~shared'[d] =>
           static' = static /\ \A e \in Clients \ {d} : pc'[e] \notin OutputPcs
  PROVE  PageRight(d)'
<1>1. PageRight(d)
  BY DEF PageInv
<1>2. ASSUME pc[d] \in OutputPcs, ~shared'[d] PROVE Served(d)'
  <2>1. Served(d) /\ static' = static
    BY <1>1, <1>2 DEF PageRight
  <2> QED BY <2>1 DEF Served
<1> QED BY <1>1, <1>2 DEF PageRight

\* A page that is empty lists nothing.
LEMMA NoPage == \A all : Lists(<<>>, 1, 0, all)
<1> SUFFICES ASSUME NEW all PROVE Lists(<<>>, 1, 0, all)
  OBVIOUS
<1>1. <<>> \in Seq(Pieces) /\ 1..Len(<<>>) = {}
  OBVIOUS
<1>2. Lists(<<>>, 0 + 1, 0, all)
  BY <1>1, ListsNothing
<1> QED BY <1>2

LEMMA PageRelease ==
  ASSUME WebInv, PageInv, NEW c \in Clients, NEW next \in {"none", "lastack", "timewait"},
         Forget(c, next)
  PROVE  PageInv'
<1>1. /\ conn' = [conn EXCEPT ![c] = next] /\ pc' = [pc EXCEPT ![c] = "done"]
      /\ segment' = [segment EXCEPT ![c] = NoSegment]
      /\ page' = [page EXCEPT ![c] = <<>>] /\ shared' = [shared EXCEPT ![c] = FALSE]
      /\ static' = static
  BY DEF Forget
<1>2. TypeInv /\ Expected' = Expected
  BY <1>1 DEF WebInv, Expected
<1>3. "done" \notin OutputPcs
  BY DEF OutputPcs
<1>4. /\ conn'[c] = next /\ pc'[c] = "done" /\ page'[c] = <<>>
      /\ \A d \in Clients \ {c} : /\ conn'[d] = conn[d] /\ pc'[d] = pc[d] /\ page'[d] = page[d]
                                  /\ segment'[d] = segment[d] /\ shared'[d] = shared[d]
  BY <1>1, <1>2 DEF TypeInv
<1>5. ASSUME NEW d \in Clients \ {c}, pc[d] \in OutputPcs, ~shared'[d]
      PROVE  \A e \in Clients \ {d} : pc'[e] \notin OutputPcs
  BY <1>3, <1>4, <1>5 DEF PageInv, PageRight
<1> SUFFICES ASSUME NEW d \in Clients PROVE PageRight(d)'
  BY DEF PageInv
<1>6. CASE d = c
  BY <1>3, <1>4, <1>6 DEF PageRight
<1>7. CASE d # c
  BY <1>1, <1>2, <1>4, <1>5, <1>7, PageUntouched
<1> QED BY <1>6, <1>7

\* uIP is done with a connection whose end was reported before.
LEMMA PageGone ==
  ASSUME WebInv, PageInv, NEW c \in Clients, conn[c] \in {"lastack", "timewait"},
         conn' = [conn EXCEPT ![c] = "none"], UNCHANGED <<pc, segment, static, page, shared>>
  PROVE  PageInv'
<1>1. TypeInv /\ Expected' = Expected
  BY DEF WebInv, Expected
<1> SUFFICES ASSUME NEW d \in Clients PROVE PageRight(d)'
  BY DEF PageInv
<1>2. PageRight(d) /\ PageRight(c)
  BY DEF PageInv
<1>3. CASE d = c
  BY <1>1, <1>2, <1>3 DEF PageRight, TypeInv
<1>4. CASE d # c
  <2>1. conn'[d] = conn[d]
    BY <1>1, <1>4 DEF TypeInv
  <2>2. pc[d] \in OutputPcs /\ ~shared'[d] => \A e \in Clients \ {d} : pc'[e] \notin OutputPcs
    BY <1>2 DEF PageRight
  <2> QED BY <1>1, <2>1, <2>2, PageUntouched
<1> QED BY <1>3, <1>4

LEMMA PageConnected ==
  ASSUME WebInv, PageInv, NEW c \in Clients, Connected(c)
  PROVE  PageInv'
<1>1. /\ UNCHANGED <<segment, static, page, shared>>
      /\ \/ conn' = [conn EXCEPT ![c] = "open"] /\ pc' = [pc EXCEPT ![c] = "input"]
         \/ UNCHANGED <<conn, pc>>
      /\ conn[c] = "none"
  BY DEF Connected
<1>2. TypeInv /\ Expected' = Expected
  BY <1>1 DEF WebInv, Expected
<1>3. "input" \notin OutputPcs /\ "input" # "done"
  BY DEF OutputPcs
<1>4. /\ \A d \in Clients \ {c} : conn'[d] = conn[d] /\ pc'[d] = pc[d]
      /\ \/ conn'[c] = conn[c] /\ pc'[c] = pc[c]
         \/ conn'[c] = "open" /\ pc'[c] = "input"
  BY <1>1, <1>2 DEF TypeInv
<1>5. ASSUME NEW d \in Clients, pc[d] \in OutputPcs, ~shared'[d]
      PROVE  \A e \in Clients \ {d} : pc'[e] \notin OutputPcs
  BY <1>1, <1>3, <1>4, <1>5 DEF PageInv, PageRight
<1> SUFFICES ASSUME NEW d \in Clients PROVE PageRight(d)'
  BY DEF PageInv
<1>6. CASE d = c /\ conn'[c] = "open" /\ pc'[c] = "input"
  <2>1. page'[c] = <<>>
    BY <1>1 DEF PageInv, PageRight
  <2> QED BY <1>3, <1>6, <2>1 DEF PageRight
<1>7. CASE conn'[d] = conn[d] /\ pc'[d] = pc[d]
  BY <1>1, <1>2, <1>5, <1>7, PageUntouched
<1> QED BY <1>4, <1>6, <1>7

LEMMA PageData ==
  ASSUME WebInv, PageInv, NEW c \in Clients, MoreData(c) \/ BadRequest(c)
  PROVE  PageInv'
<1>1. /\ UNCHANGED <<segment, static, page, shared, pc>>
      /\ \/ conn' = [conn EXCEPT ![c] = "finwait"] /\ pc[c] = "input"
         \/ conn' = conn
  BY DEF MoreData, BadRequest, Data
<1>2. TypeInv /\ Expected' = Expected
  BY <1>1 DEF WebInv, Expected
<1>3. "input" \notin OutputPcs
  BY DEF OutputPcs
<1>4. /\ \A d \in Clients \ {c} : conn'[d] = conn[d]
      /\ \/ conn'[c] = conn[c]
         \/ conn'[c] = "finwait" /\ pc[c] = "input"
  BY <1>1, <1>2 DEF TypeInv
<1> SUFFICES ASSUME NEW d \in Clients PROVE PageRight(d)'
  BY DEF PageInv
<1>5. pc[d] \in OutputPcs /\ ~shared'[d] => \A e \in Clients \ {d} : pc'[e] \notin OutputPcs
  BY <1>1 DEF PageInv, PageRight
<1>6. CASE d = c /\ conn'[c] = "finwait" /\ pc[c] = "input"
  <2>1. page'[c] = <<>>
    BY <1>1, <1>6 DEF PageInv, PageRight
  <2> QED BY <1>1, <1>3, <1>6, <2>1 DEF PageRight
<1>7. CASE conn'[d] = conn[d]
  BY <1>1, <1>2, <1>5, <1>7, PageUntouched
<1> QED BY <1>4, <1>6, <1>7

LEMMA PageRequest ==
  ASSUME WebInv, PageInv, NEW c \in Clients, Request(c)
  PROVE  PageInv'
<1>0. TypeInv
  BY DEF WebInv
<1>1. /\ pc' = [pc EXCEPT ![c] = "head"] /\ pc[c] = "input" /\ conn[c] = "open"
      /\ segment' = [segment EXCEPT ![c] = SendText("head", static, "head").segment]
      /\ shared' = [d \in Clients |->
                      shared[d] \/ (d = c /\ \E e \in Clients \ {c} : Writing(e))
                                \/ (d # c /\ Writing(d))]
      /\ page' = [d \in Clients |-> IF shared'[d] THEN <<>> ELSE page[d]]
      /\ UNCHANGED <<conn, static>>
  BY DEF Request, Data
<1>2. Expected' = Expected
  BY <1>1 DEF Expected
<1>3. "head" \in OutputPcs /\ "head" # "input" /\ "head" # "done"
  BY DEF OutputPcs
<1>4. \A d \in Clients : Writing(d) <=> pc[d] \in OutputPcs
  BY DEF PageInv, PageRight, Writing
<1>5. \A d \in Clients : shared[d] => shared'[d]
  BY <1>1
<1> SUFFICES ASSUME NEW d \in Clients PROVE PageRight(d)'
  BY DEF PageInv
<1>6. CASE d = c
  <2>1. pc'[c] = "head" /\ conn'[c] = "open"
    BY <1>0, <1>1 DEF TypeInv
  <2>2. CASE shared'[c]
    BY <1>3, <1>6, <2>1, <2>2 DEF PageRight
  <2>3. CASE ~shared'[c]
    <3>1. page'[c] = <<>>
      BY <1>1, <2>3 DEF PageInv, PageRight
    <3>2. \A e \in Clients \ {c} : pc'[e] \notin OutputPcs
      BY <1>0, <1>1, <1>4, <2>3 DEF TypeInv
    <3>3. Served(c)'
      <4>1. PICK s : s = SendText("head", static, "head").segment
        OBVIOUS
      <4>2. s.copies = {<<"head">>} /\ ~s.inBuf /\ segment'[c] = s
        BY <1>0, <1>1, <4>1 DEF SendText, TypeInv
      <4>3. Copies(segment'[c], static') = {<<"head">>}
        BY <4>2 DEF Copies
      <4>4. Cursor("head", static', Expected') = 0 /\ Ready("head", static', Expected')
        BY DEF Cursor, Ready
      <4>5. Lists(<<"head">>, 0 + 1, 0, Expected')
        BY TextLists DEF Texts
      <4>6. Lists(page'[c], 1, 0, Expected')
        BY <3>1, NoPage
      <4>7. 0 \in 0..Len(Expected')
        BY <1>2, ExpectedAll
      <4> QED BY <2>1, <4>3, <4>4, <4>5, <4>6, <4>7 DEF Served
    <3> QED BY <1>3, <1>6, <2>1, <3>2, <3>3 DEF PageRight
  <2> QED BY <2>2, <2>3
<1>7. CASE d # c
  <2>1. pc'[d] = pc[d] /\ conn'[d] = conn[d] /\ segment'[d] = segment[d]
    BY <1>0, <1>1, <1>7 DEF TypeInv
  <2>2. CASE shared'[d]
    <3>1. page'[d] = <<>>
      BY <1>1, <2>2
    <3> QED BY <2>1, <2>2, <3>1 DEF PageInv, PageRight
  <2>3. CASE ~shared'[d]
    <3>1. page'[d] = page[d] /\ pc[d] \notin OutputPcs
      BY <1>1, <1>4, <1>7, <2>3
    <3> QED BY <1>0, <1>2, <1>5, <2>1, <3>1, PageUntouched
  <2> QED BY <2>2, <2>3
<1> QED BY <1>6, <1>7

\* The page with a copy of the segment lists what the thread's place says.
LEMMA PageGrows ==
  ASSUME WebInv, PageInv, NEW c \in Clients, pc[c] \in OutputPcs, ~shared[c],
         NEW copy \in segment[c].copies
  PROVE  LET n == Cursor(pc[c], static, Expected) IN
           /\ n \in Nat /\ page[c] \o copy \in Seq(Pieces)
           /\ Lists(page[c] \o copy, 1, n, Expected)
<1>1. Served(c) /\ TypeInv
  BY DEF PageInv, PageRight, WebInv
<1>2. PICK n : n = Cursor(pc[c], static, Expected)
  OBVIOUS
<1>3. PICK m \in 0..Len(Expected) :
        /\ m <= n /\ Lists(page[c], 1, m, Expected)
        /\ \A x \in Copies(segment[c], static) : Lists(x, m + 1, n, Expected)
  BY <1>1, <1>2 DEF Served
<1>4. Lists(copy, m + 1, n, Expected)
  BY <1>3 DEF Copies
<1>5. m \in Nat /\ 1 \in Nat /\ 1 <= m + 1
  BY ExpectedAll
<1>6. n \in Nat
  <2>1. static \in Statics
    BY <1>1 DEF TypeInv
  <2>2. static.nbr \in Nat /\ static.r \in Nat /\ static.i \in Nat
    BY <2>1 DEF Statics
  <2>3. Len(Nbrs) \in Nat /\ Len(Routes) \in Nat
    BY TablesFacts, LenProperties
  <2> QED BY <1>2, <2>2, <2>3, ExpectedAll DEF Cursor
<1>7. page[c] \in Seq(Pieces) /\ copy \in Seq(Pieces)
  BY <1>1 DEF TypeInv, Segments
<1>8. PICK p : p = page[c]
  OBVIOUS
<1>9. p \o copy \in Seq(Pieces) /\ Lists(p \o copy, 1, n, Expected)
  BY <1>3, <1>4, <1>5, <1>6, <1>7, <1>8, ListsConcat
<1> QED BY <1>2, <1>6, <1>8, <1>9

LEMMA PageAcked ==
  ASSUME WebInv, PageInv, NEW c \in Clients, Acked(c)
  PROVE  PageInv'
<1>0. TypeInv
  BY DEF WebInv
<1>1. conn[c] = "open" /\ pc[c] \in OutputPcs /\ shared' = shared
  BY DEF Acked, Writing
<1>2. PICK copy \in segment[c].copies :
         page' = [page EXCEPT ![c] = IF shared[c] THEN @ ELSE @ \o copy]
  BY DEF Acked
<1>3. /\ "done" \notin OutputPcs /\ "input" \notin OutputPcs
      /\ "done" # "input" /\ "bottom" \in OutputPcs
  BY DEF OutputPcs
<1>4. /\ \A d \in Clients \ {c} : page'[d] = page[d]
      /\ ~shared[c] => page'[c] = page[c] \o copy
  BY <1>0, <1>2 DEF TypeInv
<1>5. \A d \in Clients \ {c} : pc[d] \in OutputPcs => shared'[d]
  BY <1>1 DEF PageInv, PageRight
<1>6. ~shared[c] => \A d \in Clients \ {c} : pc[d] \notin OutputPcs
  BY <1>1 DEF PageInv, PageRight
<1> SUFFICES ASSUME NEW d \in Clients PROVE PageRight(d)'
  BY DEF PageInv
<1>7. CASE pc[c] = "bottom"
  <2>1. /\ pc' = [pc EXCEPT ![c] = "done"] /\ conn' = [conn EXCEPT ![c] = "finwait"]
        /\ segment' = [segment EXCEPT ![c] = NoSegment] /\ static' = static
    BY <1>7 DEF Acked
  <2>2. Expected' = Expected
    BY <2>1 DEF Expected
  <2>3. CASE d = c
    <3>1. pc'[c] = "done" /\ conn'[c] = "finwait"
      BY <1>0, <2>1 DEF TypeInv
    <3>2. ASSUME ~shared[c] PROVE Lists(page'[c], 1, Len(Expected'), Expected')
      <4>1. Cursor(pc[c], static, Expected) = Len(Expected)
        BY <1>7 DEF Cursor
      <4>2. Lists(page[c] \o copy, 1, Len(Expected), Expected)
        BY <1>1, <3>2, <4>1, PageGrows
      <4> QED BY <1>4, <2>2, <3>2, <4>2
    <3> QED BY <1>1, <1>3, <2>3, <3>1, <3>2 DEF PageRight
  <2>4. CASE d # c
    <3>1. pc'[d] = pc[d] /\ conn'[d] = conn[d] /\ segment'[d] = segment[d]
      BY <1>0, <2>1, <2>4 DEF TypeInv
    <3> QED BY <1>0, <1>1, <1>4, <1>5, <2>2, <2>4, <3>1, PageUntouched
  <2> QED BY <2>3, <2>4
<1>8. CASE pc[c] # "bottom"
  <2>1. PICK next : next = Resume(pc[c], static)
    OBVIOUS
  <2>2. /\ pc' = [pc EXCEPT ![c] = next.pc] /\ segment' = [segment EXCEPT ![c] = next.segment]
        /\ static' = next.static /\ conn' = conn
    BY <1>8, <2>1 DEF Acked
  <2>3. next.pc \in OutputPcs /\ next.static.build = static.build
    <3>1. Sound(static, next)
      BY <1>0, <1>1, <1>8, <2>1, ResumeSound DEF TypeInv
    <3> QED BY <3>1 DEF Sound
  <2>4. Expected' = Expected
    BY <2>2, <2>3 DEF Expected
  <2>5. CASE d = c
    <3>1. pc'[c] = next.pc /\ conn'[c] = "open" /\ segment'[c] = next.segment
      BY <1>0, <1>1, <2>2 DEF TypeInv
    <3>2. ASSUME ~shared[c]
          PROVE  Served(c)' /\ \A e \in Clients \ {c} : pc'[e] \notin OutputPcs
      <4>1. PICK m : m = Cursor(pc[c], static, Expected)
        OBVIOUS
      <4>2. m \in Nat /\ Lists(page[c] \o copy, 1, m, Expected)
        BY <1>1, <3>2, <4>1, PageGrows
      <4>3. Ready(pc[c], static, Expected)
        BY <1>1, <3>2 DEF PageInv, PageRight, Served
      <4>4. static \in Statics /\ pc[c] \in OutputPcs \ {"bottom"} /\ IsAll(Expected, static.build)
        BY <1>0, <1>1, <1>8, ExpectedAll DEF TypeInv
      <4>5. Goes(m, next, Expected, static.build)
        BY <2>1, <4>1, <4>2, <4>3, <4>4, ResumeGoes
      <4>6. m \in 0..Len(Expected)
        <5>1. m <= Len(Expected)
          BY <4>1, <4>3, <4>4, CursorBound
        <5> QED BY <4>2, <5>1, ExpectedAll
      <4>7. Served(c)'
        <5>1. page'[c] = page[c] \o copy
          BY <1>4, <3>2
        <5>2. static' = next.static
          BY <2>2
        <5> QED BY <2>4, <3>1, <4>2, <4>5, <4>6, <5>1, <5>2 DEF Served, Goes
      <4>8. \A e \in Clients \ {c} : pc'[e] \notin OutputPcs
        BY <1>0, <1>6, <2>2, <3>2 DEF TypeInv
      <4> QED BY <4>7, <4>8
    <3> QED BY <1>1, <1>3, <2>3, <2>5, <3>1, <3>2 DEF PageRight
  <2>6. CASE d # c
    <3>1. pc'[d] = pc[d] /\ conn'[d] = conn[d] /\ segment'[d] = segment[d]
      BY <1>0, <2>2, <2>6 DEF TypeInv
    <3> QED BY <1>0, <1>1, <1>4, <1>5, <2>4, <2>6, <3>1, PageUntouched
  <2> QED BY <2>5, <2>6
<1> QED BY <1>7, <1>8

LEMMA PageRexmit ==
  ASSUME WebInv, PageInv, NEW c \in Clients, Rexmit(c)
  PROVE  PageInv'
<1>1. UNCHANGED <<conn, pc, static, page, shared>>
  BY DEF Rexmit
<1>2. TypeInv /\ Expected' = Expected
  BY <1>1 DEF WebInv, Expected
<1>3. ASSUME NEW d \in Clients
      PROVE  Copies(segment'[d], static) = Copies(segment[d], static)
  <2>1. CASE d = c /\ segment[c].inBuf /\ ~shared[c]
    <3>1. PICK copy : copy = SubSeq(static.buf, 1, segment[c].len)
      OBVIOUS
    <3>2. segment' = [segment EXCEPT ![c].copies = @ \cup {copy}]
      BY <2>1, <3>1 DEF Rexmit
    <3>3. /\ segment'[c].copies = segment[c].copies \cup {copy}
          /\ segment'[c].inBuf /\ segment'[c].len = segment[c].len
      BY <1>2, <2>1, <3>2 DEF TypeInv, Segments
    <3> QED BY <2>1, <3>1, <3>3 DEF Copies
  <2>2. CASE ~(d = c /\ segment[c].inBuf /\ ~shared[c])
    <3>1. segment'[d] = segment[d]
      <4>1. CASE segment[c].inBuf /\ ~shared[c]
        BY <1>2, <2>2, <4>1 DEF Rexmit, TypeInv
      <4>2. CASE ~(segment[c].inBuf /\ ~shared[c])
        BY <4>2 DEF Rexmit
      <4> QED BY <4>1, <4>2
    <3> QED BY <3>1
  <2> QED BY <2>1, <2>2
<1> SUFFICES ASSUME NEW d \in Clients PROVE PageRight(d)'
  BY DEF PageInv
<1>4. PageRight(d)
  BY DEF PageInv
<1>5. Served(d) => Served(d)'
  BY <1>1, <1>2, <1>3 DEF Served
<1> QED BY <1>1, <1>2, <1>4, <1>5 DEF PageRight

LEMMA PageTick ==
  ASSUME WebInv, PageInv, UNCHANGED <<conn, pc, segment, static, page, shared>>
  PROVE  PageInv'
<1>1. TypeInv /\ Expected' = Expected
  BY DEF WebInv, Expected
<1> SUFFICES ASSUME NEW d \in Clients PROVE PageRight(d)'
  BY DEF PageInv
<1>2. pc[d] \in OutputPcs /\ ~shared'[d] => \A e \in Clients \ {d} : pc'[e] \notin OutputPcs
  BY DEF PageInv, PageRight
<1> QED BY <1>1, <1>2, PageUntouched

WebPageInv == WebInv /\ PageInv

LEMMA PageInvariant == Spec => []WebPageInv
<1>1. Init => PageInv
  <2> SUFFICES ASSUME Init, NEW c \in Clients PROVE PageRight(c)
    BY DEF PageInv
  <2>1. conn[c] = "none" /\ pc[c] = "done" /\ page[c] = <<>>
    BY DEF Init
  <2> QED BY <2>1 DEF PageRight, OutputPcs
<1>2. WebInv /\ PageInv /\ [Next]_vars => PageInv'
  <2> SUFFICES ASSUME WebInv, PageInv, [Next]_vars PROVE PageInv'
    OBVIOUS
  <2>1. ASSUME NEW c \in Clients, Connected(c) PROVE PageInv'
    BY <2>1, PageConnected
  <2>2. ASSUME NEW c \in Clients, MoreData(c) \/ BadRequest(c) PROVE PageInv'
    BY <2>2, PageData
  <2>3. ASSUME NEW c \in Clients, Request(c) PROVE PageInv'
    BY <2>3, PageRequest
  <2>4. ASSUME NEW c \in Clients, Acked(c) PROVE PageInv'
    BY <2>4, PageAcked
  <2>5. ASSUME NEW c \in Clients, Rexmit(c) PROVE PageInv'
    BY <2>5, PageRexmit
  <2>6. ASSUME NEW c \in Clients,
               Poll(c) \/ TimedOut(c) \/ Aborted(c) \/ Closed(c) \/ Dropped(c)
        PROVE  PageInv'
    <3>1. PICK next \in {"none", "lastack", "timewait"} : Forget(c, next)
      BY <2>6 DEF Poll, TimedOut, Aborted, Closed, Dropped, Release
    <3> QED BY <3>1, PageRelease
  <2>7. ASSUME NEW c \in Clients, ReportedAgain(c) \/ Expires(c) PROVE PageInv'
    BY <2>7, PageGone DEF ReportedAgain, Expires
  <2>8. ASSUME NEW c \in Clients, NullScript(c) PROVE PageInv'
    BY <2>8, PageTick DEF NullScript
  <2>9. CASE Tick
    BY <2>9, PageTick DEF Tick
  <2>10. CASE UNCHANGED vars
    BY <2>10, PageTick DEF vars
  <2> QED BY <2>1, <2>2, <2>3, <2>4, <2>5, <2>6, <2>7, <2>8, <2>9, <2>10 DEF Next
<1> QED BY <1>1, <1>2, WebInvariant, PTL DEF Spec, WebPageInv

\* A page that generate_routes() writes while no other connection is written to
\* is a part of the tables at any time and the whole of them once it is sent,
\* each entry once and in order: whatever earlier connections left in the static
\* variables, wherever TCP sent a segment again from the shared buffer, for any
\* tables and any size of the buffer, on both routers.
THEOREM PagesComplete == Spec => []PageAloneComplete
<1>1. WebPageInv => PageAloneComplete
  <2> SUFFICES ASSUME WebPageInv, NEW c \in Clients, Holds(c), ~shared[c]
               PROVE  \E n \in 0..Len(Expected) :
                        /\ Lists(page[c], 1, n, Expected)
                        /\ pc[c] = "done" => n = Len(Expected)
    BY DEF PageAloneComplete
  <2>1. TypeInv /\ PageRight(c)
    BY DEF WebPageInv, WebInv, PageInv
  <2>2. Len(Expected) \in Nat
    BY ExpectedAll
  <2>3. CASE pc[c] = "input"
    <3>1. page[c] = <<>>
      BY <2>1, <2>3 DEF PageRight
    <3>2. Lists(page[c], 1, 0, Expected)
      BY <3>1, NoPage
    <3> QED BY <2>2, <2>3, <3>2
  <2>4. CASE pc[c] \in OutputPcs
    <3>1. Served(c) /\ pc[c] # "done"
      BY <2>1, <2>4 DEF PageRight, OutputPcs
    <3> QED BY <3>1 DEF Served
  <2>5. CASE pc[c] = "done"
    <3>1. conn[c] = "finwait"
      BY <2>1, <2>5 DEF PageRight, Holds
    <3>2. Lists(page[c], 1, Len(Expected), Expected)
      BY <2>1, <2>5, <3>1 DEF PageRight
    <3> QED BY <2>2, <3>2
  <2> QED BY <2>1, <2>3, <2>4, <2>5 DEF TypeInv
<1> QED BY <1>1, PageInvariant, PTL
=============================================================================
