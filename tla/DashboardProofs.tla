-------------------------- MODULE DashboardProofs --------------------------
(***************************************************************************)
(* Theorems about the dashboard, for every number of pages, streams, polls *)
(* and changes.                                                            *)
(***************************************************************************)
EXTENDS Dashboard, FiniteSetTheorems, TLAPS

\* A handler of /api/events at work, and an open page.
Handlers == [stage : {"fetching", "waiting"}, got : Lists, last : Lists \cup {Nothing},
             sent : Seq(Lists \cup {Headers}), cut : BOOLEAN, closed : BOOLEAN]
Tabs == [es : {"connecting", "accepted", "open", "failed"}, stream : Streams \cup {Nothing},
         fallbackTimer : BOOLEAN, polls : [Polls -> Lists \cup {Idle, Failed}],
         shown : Lists]

LEMMA Numbers ==
  /\ MaxStreams \in Nat /\ MaxChanges \in Nat /\ MaxFailures \in Nat
  /\ MaxDrops \in Nat /\ MaxOpens \in Nat
  /\ Nothing \notin Streams /\ Nothing \notin Lists /\ Headers \notin Lists
  /\ Idle \notin Lists /\ Failed \notin Lists /\ Failed # Idle /\ 0 \in Lists
  /\ Lists \subseteq Int /\ Nothing # Headers
BY DashboardAssumption DEF Nothing, Headers, Idle, Failed, Lists

LEMMA Absent == NoStream \notin Handlers /\ Nowhere \notin Tabs
<1>1. NoStream.stage = "none" /\ \A s \in Handlers : s.stage # "none"
  BY DEF NoStream, Handlers
<1>2. Nowhere.es = "none" /\ \A pg \in Tabs : pg.es # "none"
  BY DEF Nowhere, Tabs
<1>3. QED
  BY <1>1, <1>2

----------------------------------------------------------------------------
(* What one handler and one page do.                                       *)

\* What an answer of the broker stands for in a stream.
LEMMA AskingType ==
  ASSUME NEW s \in Handlers, NEW a \in Lists \cup {Failed}
  PROVE  /\ Asking(s, a) \in Handlers
         /\ Asking(s, a).sent = s.sent /\ Asking(s, a).last = s.last
         /\ Asking(s, a).cut = s.cut /\ Asking(s, a).closed = s.closed
BY Numbers DEF Asking, Handlers

LEMMA NewStreamType ==
  /\ NewStream \in Handlers
  /\ NewStream.sent = <<Headers>> /\ NewStream.last = Nothing
  /\ NewStream.cut = FALSE /\ NewStream.closed = FALSE
<1>1. <<Headers>> \in Seq(Lists \cup {Headers})
  OBVIOUS
<1>2. QED
  BY <1>1, Numbers DEF NewStream, Handlers

LEMMA WriteEventType ==
  ASSUME NEW s \in Handlers
  PROVE  /\ WriteEvent(s) \in Handlers
         /\ WriteEvent(s).cut = s.cut /\ WriteEvent(s).closed = s.closed
         /\ \/ WriteEvent(s).sent = s.sent /\ WriteEvent(s).last = s.last
            \/ WriteEvent(s).sent = Append(s.sent, s.got) /\ WriteEvent(s).last = s.got
<1>1. CASE s.closed \/ s.got = s.last
  BY <1>1 DEF WriteEvent
<1>2. CASE ~(s.closed \/ s.got = s.last)
  <2>1. Append(s.sent, s.got) \in Seq(Lists \cup {Headers}) /\ s.got \in Lists
    BY DEF Handlers
  <2>2. WriteEvent(s) = [s EXCEPT !.sent = Append(@, s.got), !.last = s.got]
    BY <1>2 DEF WriteEvent
  <2>3. QED
    BY <2>1, <2>2 DEF Handlers
<1>3. QED
  BY <1>1, <1>2

LEMMA ScheduleNextType ==
  ASSUME NEW s \in Handlers
  PROVE  /\ s.closed => ScheduleNext(s) = NoStream
         /\ ~s.closed => /\ ScheduleNext(s) \in Handlers
                         /\ ScheduleNext(s).sent = s.sent /\ ScheduleNext(s).last = s.last
                         /\ ScheduleNext(s).cut = s.cut /\ ScheduleNext(s).closed = s.closed
BY Numbers DEF ScheduleNext, Handlers

LEMMA ClosedType == ASSUME NEW s \in Handlers PROVE Closed(s) \in Handlers \cup {NoStream}
<1>1. PICK new \in Handlers : new = NewStream
  BY NewStreamType
<1>2. [new EXCEPT !.closed = TRUE, !.sent = <<>>] \in Handlers
  <2>1. <<>> \in Seq(Lists \cup {Headers})
    OBVIOUS
  <2>2. QED
    BY <2>1 DEF Handlers
<1>3. QED
  BY <1>1, <1>2 DEF Closed

\* Nothing makes a page poll but its timer, and that timer is set when a poll ends.
Quiet(pg) == ~pg.fallbackTimer /\ \A k \in Polls : pg.polls[k] = Idle

LEMMA PollDoneType ==
  ASSUME NEW pg \in Tabs, NEW k \in Polls, pg.polls[k] # Idle
  PROVE  /\ PollDone(pg, k) \in Tabs
         /\ PollDone(pg, k).es = pg.es /\ PollDone(pg, k).stream = pg.stream
         /\ PollDone(pg, k).fallbackTimer = TRUE
BY DEF PollDone, ScheduleFallbackPoll, Tabs

LEMMA TabTypes ==
  ASSUME NEW pg \in Tabs
  PROVE  /\ Opened(pg) \in Tabs
         /\ ScheduleFallbackPoll(pg) \in Tabs
         /\ \A l \in Lists : [pg EXCEPT !.shown = l] \in Tabs
         /\ \A c \in Streams : [pg EXCEPT !.es = "accepted", !.stream = c] \in Tabs
         /\ ScheduleFallbackPoll([pg EXCEPT !.es = "failed"]) \in Tabs
         /\ ScheduleFallbackPoll([pg EXCEPT !.es = "connecting", !.stream = Nothing]) \in Tabs
         /\ \A k \in Polls, a \in Lists \cup {Failed} :
              [pg EXCEPT !.fallbackTimer = FALSE, !.polls[k] = a] \in Tabs
BY DEF Opened, ScheduleFallbackPoll, Tabs
----------------------------------------------------------------------------
(* Types.                                                                  *)

LEMMA TypeForm ==
  TypeOK <=>
    /\ list \in Lists /\ revoked \in BOOLEAN /\ server \in {"up", "closing", "gone"}
    /\ activeEventStreams \subseteq Streams
    /\ \A c \in activeEventStreams : stream[c] # NoStream
    /\ Cardinality(activeEventStreams) <= MaxStreams
    /\ stream \in [Streams -> {NoStream} \cup Handlers]
    /\ page \in [Pages -> {Nowhere} \cup Tabs]
BY DEF TypeOK, Handlers, Tabs

LEMMA TypeFormNext ==
  TypeOK' <=>
    (/\ list \in Lists /\ revoked \in BOOLEAN /\ server \in {"up", "closing", "gone"}
     /\ activeEventStreams \subseteq Streams
     /\ \A c \in activeEventStreams : stream[c] # NoStream
     /\ Cardinality(activeEventStreams) <= MaxStreams
     /\ stream \in [Streams -> {NoStream} \cup Handlers]
     /\ page \in [Pages -> {Nowhere} \cup Tabs])'
BY DEF TypeOK, Handlers, Tabs

LEMMA InitTypes == Init => TypeOK
<1> SUFFICES ASSUME Init PROVE TypeOK
  OBVIOUS
<1>1. Cardinality(activeEventStreams) = 0
  BY FS_EmptySet DEF Init
<1>2. /\ list \in Lists /\ revoked \in BOOLEAN /\ server \in {"up", "closing", "gone"}
      /\ activeEventStreams = {}
      /\ stream \in [Streams -> {NoStream} \cup Handlers]
      /\ page \in [Pages -> {Nowhere} \cup Tabs]
  BY Numbers DEF Init
<1>3. 0 <= MaxStreams
  BY Numbers
<1>4. QED
  BY <1>1, <1>2, <1>3, TypeForm

\* A page's connection is cut off on its side: the handlers stay where they are.
LEMMA CutOffType ==
  ASSUME TypeOK, NEW p \in Pages, CutOff(p),
         page[p].stream \in Streams => stream[page[p].stream] # NoStream
  PROVE  /\ stream' \in [Streams -> {NoStream} \cup Handlers]
         /\ \A c \in Streams : stream[c] # NoStream => stream'[c] # NoStream
         /\ \A c \in Streams : stream[c] # NoStream => stream'[c].closed = stream[c].closed
         /\ \A c \in Streams : c # page[p].stream => stream'[c] = stream[c]
<1>1. \A c \in Streams : stream'[c] =
        IF c = page[p].stream THEN [stream[c] EXCEPT !.cut = TRUE] ELSE stream[c]
  BY DEF CutOff
<1>2. \A s \in Handlers : [s EXCEPT !.cut = TRUE] \in Handlers
                        /\ [s EXCEPT !.cut = TRUE].closed = s.closed
  BY DEF Handlers
<1>3. DOMAIN stream' = Streams /\ stream' = [c \in Streams |-> stream'[c]]
  BY DEF CutOff
<1>4. \A c \in Streams : stream'[c] \in {NoStream} \cup Handlers
                         /\ (stream[c] # NoStream =>
                               stream'[c] \in Handlers /\ stream'[c].closed = stream[c].closed)
  BY ZenonT(60), <1>1, <1>2, TypeForm
<1>5. QED
  BY <1>1, <1>3, <1>4, Absent

\* One handler changes.
LEMMA OneStream ==
  ASSUME TypeOK, NEW c \in Streams, NEW s \in {NoStream} \cup Handlers,
         stream' = [stream EXCEPT ![c] = s]
  PROVE  /\ stream' \in [Streams -> {NoStream} \cup Handlers]
         /\ stream'[c] = s
         /\ \A d \in Streams : d # c => stream'[d] = stream[d]
BY TypeForm

\* One page changes.
LEMMA OnePage ==
  ASSUME TypeOK, NEW p \in Pages, NEW pg \in {Nowhere} \cup Tabs,
         page' = [page EXCEPT ![p] = pg]
  PROVE  /\ page' \in [Pages -> {Nowhere} \cup Tabs]
         /\ page'[p] = pg
         /\ \A q \in Pages : q # p => page'[q] = page[q]
BY TypeForm

LEMMA PageIsTab ==
  ASSUME TypeOK, NEW p \in Pages, page[p] # Nowhere
  PROVE  page[p] \in Tabs
BY TypeForm

LEMMA StreamIsHandler ==
  ASSUME TypeOK, NEW c \in Streams, stream[c] # NoStream
  PROVE  stream[c] \in Handlers
BY TypeForm

----------------------------------------------------------------------------
(* The inductive invariant.                                                *)

Attached(p) == page[p].es \in {"accepted", "open"}

\* What page pg will have shown when all that handler s sent has arrived is what the
\* handler sent last; unless a poll may show something else, after which it polls again.
InStep(pg, s) ==
  /\ ~s.cut /\ ~s.closed
  /\ \A i \in 2..Len(s.sent) : s.sent[i] # Headers
  /\ pg.es = "accepted" =>
       /\ Len(s.sent) > 0 /\ s.sent[1] = Headers
       /\ s.last = IF Len(s.sent) = 1 THEN Nothing ELSE s.sent[Len(s.sent)]
  /\ pg.es = "open" =>
       /\ Len(s.sent) > 0 => s.sent[1] # Headers /\ s.last = s.sent[Len(s.sent)]
       /\ Len(s.sent) = 0 /\ Quiet(pg) /\ s.last # Nothing => pg.shown = s.last

\* An attached page has a handler of its own, which goes on.
Joined(p) ==
  IF Attached(p)
  THEN /\ page[p].stream \in Streams /\ stream[page[p].stream] # NoStream
       /\ InStep(page[p], stream[page[p].stream])
       /\ \A q \in Pages : Attached(q) /\ page[q].stream = page[p].stream => q = p
  ELSE page[p] # Nowhere => page[p].stream = Nothing

\* Only a handler that goes on is counted.
Counted == \A c \in activeEventStreams : ~stream[c].closed

IInv ==
  /\ TypeOK
  /\ \A p \in Pages : Joined(p)
  /\ Counted

LEMMA InitHolds == Init => IInv
<1> SUFFICES ASSUME Init PROVE IInv
  OBVIOUS
<1>1. \A p \in Pages : page[p] = Nowhere /\ ~Attached(p)
  BY DEF Init, Attached, Nowhere
<1>2. QED
  BY <1>1, InitTypes DEF IInv, Joined, Counted, Init

\* The connection of an open page is that of a handler, or none.
LEMMA Connection ==
  ASSUME IInv, NEW p \in Pages, page[p] # Nowhere
  PROVE  page[p].stream \in Streams => Attached(p) /\ stream[page[p].stream] # NoStream
BY Numbers DEF IInv, Joined

\* A page keeps in step when neither it nor its handler changes.
LEMMA Aside ==
  ASSUME IInv, NEW p \in Pages, page'[p] = page[p],
         Attached(p) => stream'[page[p].stream] = stream[page[p].stream],
         Attached(p) => \A q \in Pages :
           q # p /\ Attached(q)' => page'[q].stream # page[p].stream
  PROVE  Joined(p)'
<1>1. Joined(p) /\ (Attached(p)' <=> Attached(p))
  BY DEF IInv, Attached
<1>2. CASE Attached(p)
  BY <1>1, <1>2 DEF Joined, InStep, Quiet
<1>3. CASE ~Attached(p)
  BY <1>1, <1>3 DEF Joined
<1>4. QED
  BY <1>2, <1>3
----------------------------------------------------------------------------
(* The world and the page.                                                 *)

\* Neither a page nor a stream is touched.
LEMMA Elsewhere ==
  ASSUME IInv, UNCHANGED <<stream, page>>
  PROVE  \A p \in Pages : Joined(p)'
BY DEF IInv, Joined, Attached, InStep, Quiet

LEMMA OpenPageHolds == ASSUME IInv, NEW p \in Pages, OpenPage(p) PROVE IInv'
<1> DEFINE new == [es |-> "connecting", stream |-> Nothing, fallbackTimer |-> FALSE,
                   polls |-> [k \in Polls |-> Idle], shown |-> 0]
<1>1. TypeOK
  BY DEF IInv
<1>2. new \in Tabs
  BY Numbers DEF Tabs
<1>3. page' = [page EXCEPT ![p] = new]
      /\ UNCHANGED <<list, revoked, server, activeEventStreams, stream>>
  BY DEF OpenPage
<1>4. new.es = "connecting" /\ new.stream = Nothing
  OBVIOUS
<1> HIDE DEF new
<1>5. /\ page' \in [Pages -> {Nowhere} \cup Tabs] /\ page'[p] = new
      /\ \A q \in Pages : q # p => page'[q] = page[q]
  BY <1>1, <1>2, <1>3, OnePage
<1>6. TypeOK'
  BY <1>1, <1>3, <1>5, TypeForm, TypeFormNext
<1>7. ~Attached(p)' /\ Joined(p)'
  BY <1>4, <1>5 DEF Attached, Joined
<1>8. ASSUME NEW q \in Pages, q # p PROVE Joined(q)'
  <2>1. Attached(q) => \A r \in Pages : r # q /\ Attached(r)' => page'[r].stream # page[q].stream
    BY <1>5, <1>7, <1>8 DEF IInv, Joined, Attached
  <2>2. QED
    BY <1>3, <1>5, <1>8, <2>1, Aside
<1>9. Counted'
  BY <1>3 DEF IInv, Counted
<1>10. QED
  BY <1>6, <1>7, <1>8, <1>9 DEF IInv

\* A page that lets its connection go, if it had one.
LEMMA Detached ==
  ASSUME IInv, NEW p \in Pages, page[p] # Nowhere, CutOff(p),
         NEW pg \in {Nowhere} \cup Tabs, page' = [page EXCEPT ![p] = pg],
         pg = Nowhere \/ (pg.es = "connecting" /\ pg.stream = Nothing),
         UNCHANGED <<list, revoked, server, activeEventStreams>>
  PROVE  IInv'
<1>1. TypeOK
  BY DEF IInv
<1>2. /\ page' \in [Pages -> {Nowhere} \cup Tabs] /\ page'[p] = pg
      /\ \A q \in Pages : q # p => page'[q] = page[q]
  BY <1>1, OnePage
<1>3. page[p].stream \in Streams => stream[page[p].stream] # NoStream
  BY Connection
<1>4. /\ stream' \in [Streams -> {NoStream} \cup Handlers]
      /\ \A c \in Streams : stream[c] # NoStream => stream'[c] # NoStream
      /\ \A c \in Streams : stream[c] # NoStream => stream'[c].closed = stream[c].closed
      /\ \A c \in Streams : c # page[p].stream => stream'[c] = stream[c]
  BY <1>1, <1>3, CutOffType
<1>5. TypeOK'
  BY <1>1, <1>2, <1>4, TypeForm, TypeFormNext
<1>6. ~Attached(p)' /\ Joined(p)'
  BY <1>2 DEF Attached, Joined, Nowhere
<1>7. ASSUME NEW q \in Pages, q # p PROVE Joined(q)'
  <2>1. Attached(q) => \A r \in Pages : r # q /\ Attached(r)' => page'[r].stream # page[q].stream
    BY <1>2, <1>6, <1>7 DEF IInv, Joined, Attached
  <2>2. ASSUME Attached(q) PROVE stream'[page[q].stream] = stream[page[q].stream]
    <3>1. page[q].stream \in Streams /\ Joined(q) /\ Joined(p)
      BY <2>2 DEF IInv, Joined
    <3>2. page[q].stream # page[p].stream
      BY <1>7, <2>2, <3>1, Connection DEF Joined
    <3>3. QED
      BY <1>4, <3>1, <3>2
  <2>3. QED
    BY <1>2, <1>7, <2>1, <2>2, Aside
<1>8. Counted'
  <2>1. \A c \in activeEventStreams : c \in Streams /\ stream[c] # NoStream
    BY <1>1, TypeForm
  <2>2. QED
    BY <1>4, <2>1 DEF IInv, Counted
<1>9. QED
  BY <1>5, <1>6, <1>7, <1>8 DEF IInv

LEMMA ClosePageHolds == ASSUME IInv, NEW p \in Pages, ClosePage(p) PROVE IInv'
BY Detached DEF ClosePage

LEMMA DropHolds == ASSUME IInv, NEW p \in Pages, Drop(p) PROVE IInv'
<1>1. page[p] # Nowhere /\ CutOff(p) /\ UNCHANGED <<list, revoked, server, activeEventStreams>>
  BY DEF Drop, Nowhere
<1>2. PICK old \in Tabs : old = page[p]
  BY <1>1, PageIsTab DEF IInv
<1>3. PICK pg \in Tabs :
        pg = ScheduleFallbackPoll([old EXCEPT !.es = "connecting", !.stream = Nothing])
  BY TabTypes
<1>4. pg.es = "connecting" /\ pg.stream = Nothing
  BY <1>3 DEF ScheduleFallbackPoll, Tabs
<1>5. page' = [page EXCEPT ![p] = pg]
  BY <1>2, <1>3 DEF Drop
<1>6. QED
  BY <1>1, <1>4, <1>5, Detached

\* The page changes, stays where it is and has no connection.
LEMMA Unattached ==
  ASSUME IInv, NEW p \in Pages, ~Attached(p), page[p] # Nowhere,
         NEW pg \in Tabs, page' = [page EXCEPT ![p] = pg],
         pg.es \notin {"accepted", "open"}, pg.stream = page[p].stream,
         UNCHANGED <<list, revoked, server, activeEventStreams, stream>>
  PROVE  IInv'
<1>1. TypeOK
  BY DEF IInv
<1>2. /\ page' \in [Pages -> {Nowhere} \cup Tabs] /\ page'[p] = pg
      /\ \A q \in Pages : q # p => page'[q] = page[q]
  BY <1>1, OnePage
<1>3. TypeOK'
  BY <1>1, <1>2, TypeForm, TypeFormNext
<1>4. ~Attached(p)' /\ Joined(p)'
  BY <1>2 DEF Attached, Joined, IInv
<1>5. ASSUME NEW q \in Pages, q # p PROVE Joined(q)'
  <2>1. Attached(q) => \A r \in Pages : r # q /\ Attached(r)' => page'[r].stream # page[q].stream
    BY <1>2, <1>4, <1>5 DEF IInv, Joined, Attached
  <2>2. QED
    BY <1>2, <1>5, <2>1, Aside
<1>6. Counted'
  BY DEF IInv, Counted
<1>7. QED
  BY <1>3, <1>4, <1>5, <1>6 DEF IInv

LEMMA RefuseHolds == ASSUME IInv, NEW p \in Pages, Refuse(p) PROVE IInv'
<1>1. page[p] # Nowhere /\ ~Attached(p)
  BY DEF Refuse, Nowhere, Attached
<1>2. PICK old \in Tabs : old = page[p]
  BY <1>1, PageIsTab DEF IInv
<1>3. PICK pg \in Tabs : pg = ScheduleFallbackPoll([old EXCEPT !.es = "failed"])
  BY TabTypes
<1>4. pg.es = "failed" /\ pg.stream = old.stream
  BY <1>3 DEF ScheduleFallbackPoll, Tabs
<1>5. page' = [page EXCEPT ![p] = pg]
      /\ UNCHANGED <<list, revoked, server, activeEventStreams, stream>>
  BY <1>2, <1>3 DEF Refuse
<1>6. QED
  BY <1>1, <1>2, <1>4, <1>5, Unattached

LEMMA UnreachableHolds == ASSUME IInv, NEW p \in Pages, Unreachable(p) PROVE IInv'
<1>1. page[p] # Nowhere /\ ~Attached(p) /\ page[p].es = "connecting"
  BY DEF Unreachable, Nowhere, Attached
<1>2. PICK old \in Tabs : old = page[p]
  BY <1>1, PageIsTab DEF IInv
<1>3. PICK pg \in Tabs : pg = ScheduleFallbackPoll(old)
  BY TabTypes
<1>4. pg.es = old.es /\ pg.stream = old.stream
  BY <1>3 DEF ScheduleFallbackPoll, Tabs
<1>5. page' = [page EXCEPT ![p] = pg]
      /\ UNCHANGED <<list, revoked, server, activeEventStreams, stream>>
  BY <1>2, <1>3 DEF Unreachable
<1>6. QED
  BY <1>1, <1>2, <1>4, <1>5, Unattached

\* The server accepts the page, with a new stream; what it sends begins with its head.
LEMMA AcceptHolds == ASSUME IInv, NEW p \in Pages, Accept(p) PROVE IInv'
<1>1. TypeOK
  BY DEF IInv
<1>2. PICK c \in Streams, a \in Lists \cup {Failed} :
        /\ stream[c] = NoStream
        /\ stream' = [stream EXCEPT ![c] = Asking(NewStream, a)]
        /\ activeEventStreams' = activeEventStreams \cup {c}
        /\ page' = [page EXCEPT ![p].es = "accepted", ![p].stream = c]
  BY DEF Accept
<1>3. /\ page[p].es = "connecting" /\ Cardinality(activeEventStreams) < MaxStreams
      /\ UNCHANGED <<list, revoked, server>>
  BY DEF Accept
<1>4. page[p] # Nowhere /\ ~Attached(p)
  BY <1>3 DEF Nowhere, Attached
<1>5. PICK old \in Tabs : old = page[p]
  BY <1>1, <1>4, PageIsTab
<1>6. PICK pg \in Tabs : pg = [old EXCEPT !.es = "accepted", !.stream = c]
  BY TabTypes
<1>7. pg.es = "accepted" /\ pg.stream = c
  BY <1>6 DEF Tabs
<1>8. page' = [page EXCEPT ![p] = pg]
  BY <1>2, <1>5, <1>6
<1>9. PICK s \in Handlers : s = Asking(NewStream, a)
  BY NewStreamType, AskingType
<1>10. s.sent = <<Headers>> /\ s.last = Nothing /\ s.cut = FALSE /\ s.closed = FALSE
  BY <1>9, NewStreamType, AskingType
<1>11. /\ page' \in [Pages -> {Nowhere} \cup Tabs] /\ page'[p] = pg
       /\ \A q \in Pages : q # p => page'[q] = page[q]
  BY <1>1, <1>8, OnePage
<1>12. /\ stream' \in [Streams -> {NoStream} \cup Handlers] /\ stream'[c] = s
       /\ \A d \in Streams : d # c => stream'[d] = stream[d]
  BY <1>1, <1>2, <1>9, OneStream
<1>13. Cardinality(activeEventStreams') <= MaxStreams
  <2>1. IsFiniteSet(activeEventStreams)
    BY <1>1, TypeForm, FS_Subset, DashboardAssumption
  <2>2. Cardinality(activeEventStreams) \in Nat
    BY <2>1, FS_CardinalityType
  <2>3. Cardinality(activeEventStreams') <= Cardinality(activeEventStreams) + 1
    <3>1. Cardinality(activeEventStreams \cup {c}) =
            IF c \in activeEventStreams THEN Cardinality(activeEventStreams)
            ELSE Cardinality(activeEventStreams) + 1
      BY <2>1, FS_AddElement
    <3>2. QED
      BY <1>2, <2>2, <3>1
  <2>4. Cardinality(activeEventStreams') \in Nat
    BY <1>2, <2>1, FS_AddElement, FS_CardinalityType
  <2>5. QED
    BY <1>3, <2>2, <2>3, <2>4, Numbers
<1>14. TypeOK'
  <2>1. activeEventStreams' \subseteq Streams
        /\ \A d \in activeEventStreams' : stream'[d] # NoStream
    BY <1>1, <1>2, <1>12, TypeForm, Absent
  <2>2. QED
    BY <1>1, <1>3, <1>11, <1>12, <1>13, <2>1, TypeForm, TypeFormNext
<1>15. \A q \in Pages : Attached(q) => page[q].stream \in Streams /\ page[q].stream # c
  BY <1>2 DEF IInv, Joined
<1>16. Joined(p)'
  <2>1. Attached(p)' /\ page'[p].stream = c
    BY <1>7, <1>11 DEF Attached
  <2>2. InStep(pg, s)
    BY <1>7, <1>10 DEF InStep
  <2>3. InStep(page[p], stream[page[p].stream])'
    BY <1>11, <1>12, <2>1, <2>2 DEF InStep, Quiet
  <2>4. \A q \in Pages : Attached(q)' /\ page'[q].stream = c => q = p
    BY <1>11, <1>15 DEF Attached
  <2>5. QED
    BY <1>12, <2>1, <2>3, <2>4, Absent DEF Joined
<1>17. ASSUME NEW q \in Pages, q # p PROVE Joined(q)'
  <2>1. ASSUME Attached(q), NEW r \in Pages, r # q, Attached(r)'
        PROVE  page'[r].stream # page[q].stream
    <3>1. CASE r = p
      BY <1>7, <1>11, <1>15, <2>1, <3>1
    <3>2. CASE r # p
      BY <1>11, <2>1, <3>2 DEF IInv, Joined, Attached
    <3>3. QED
      BY <3>1, <3>2
  <2>2. Attached(q) => stream'[page[q].stream] = stream[page[q].stream]
    BY <1>12, <1>15
  <2>3. QED
    BY <1>11, <1>17, <2>1, <2>2, Aside
<1>18. Counted'
  BY <1>1, <1>2, <1>10, <1>12, TypeForm DEF IInv, Counted
<1>19. QED
  BY <1>14, <1>16, <1>17, <1>18 DEF IInv
\* The page's connection stays what it is: the page shows something, or polls.
LEMMA Looking ==
  ASSUME IInv, NEW p \in Pages, page[p] # Nowhere,
         NEW pg \in Tabs, page' = [page EXCEPT ![p] = pg],
         pg.es = page[p].es, pg.stream = page[p].stream, ~Quiet(pg),
         UNCHANGED <<list, revoked, server, activeEventStreams, stream>>
  PROVE  IInv'
<1>1. TypeOK
  BY DEF IInv
<1>2. /\ page' \in [Pages -> {Nowhere} \cup Tabs] /\ page'[p] = pg
      /\ \A q \in Pages : q # p => page'[q] = page[q]
  BY <1>1, OnePage
<1>3. TypeOK'
  BY <1>1, <1>2, TypeForm, TypeFormNext
<1>4. \A q \in Pages : Attached(q)' <=> Attached(q)
  BY <1>2 DEF Attached
<1>5. ASSUME NEW q \in Pages, q # p PROVE Joined(q)'
  <2>1. Attached(q) => \A r \in Pages : r # q /\ Attached(r)' => page'[r].stream # page[q].stream
    BY <1>2, <1>4 DEF IInv, Joined
  <2>2. QED
    BY <1>2, <1>5, <2>1, Aside
<1>6. Joined(p)'
  <2>1. CASE ~Attached(p)
    BY <1>2, <1>4, <2>1 DEF IInv, Joined
  <2>2. CASE Attached(p)
    <3>1. /\ page[p].stream \in Streams /\ stream[page[p].stream] # NoStream
          /\ InStep(page[p], stream[page[p].stream])
          /\ \A q \in Pages : Attached(q) /\ page[q].stream = page[p].stream => q = p
      BY <2>2 DEF IInv, Joined
    <3>2. InStep(pg, stream[page[p].stream])
      BY <3>1 DEF InStep
    <3>3. InStep(page[p], stream[page[p].stream])'
      BY <1>2, <3>2 DEF InStep, Quiet
    <3>4. \A q \in Pages : Attached(q)' /\ page'[q].stream = page'[p].stream => q = p
      BY <1>2, <1>4, <3>1
    <3>5. QED
      BY <1>2, <1>4, <2>2, <3>1, <3>3, <3>4 DEF Joined
  <2>3. QED
    BY <2>1, <2>2
<1>7. Counted'
  BY DEF IInv, Counted
<1>8. QED
  BY <1>3, <1>5, <1>6, <1>7 DEF IInv

LEMMA PollFallbackHolds ==
  ASSUME IInv, NEW p \in Pages, NEW k \in Polls, PollFallback(p, k) PROVE IInv'
<1>1. PICK a \in Lists \cup {Failed} :
        page' = [page EXCEPT ![p].fallbackTimer = FALSE, ![p].polls[k] = a]
  BY DEF PollFallback
<1>2. page[p] # Nowhere /\ UNCHANGED <<list, revoked, server, activeEventStreams, stream>>
  BY DEF PollFallback
<1>3. PICK old \in Tabs : old = page[p]
  BY <1>2, PageIsTab DEF IInv
<1>4. PICK pg \in Tabs : pg = [old EXCEPT !.fallbackTimer = FALSE, !.polls[k] = a]
  BY TabTypes
<1>5. pg.es = old.es /\ pg.stream = old.stream /\ pg.polls[k] = a
  BY <1>4 DEF Tabs
<1>6. ~Quiet(pg)
  BY <1>5, Numbers DEF Quiet
<1>7. page' = [page EXCEPT ![p] = pg]
  BY <1>1, <1>3, <1>4
<1>8. QED
  BY <1>2, <1>3, <1>5, <1>6, <1>7, Looking

LEMMA ShowPollHolds ==
  ASSUME IInv, NEW p \in Pages, NEW k \in Polls, ShowPoll(p, k) PROVE IInv'
<1>1. /\ page[p] # Nowhere /\ page[p].polls[k] # Idle
      /\ page' = [page EXCEPT ![p] = PollDone(page[p], k)]
      /\ UNCHANGED <<list, revoked, server, activeEventStreams, stream>>
  BY DEF ShowPoll
<1>2. page[p] \in Tabs
  BY <1>1, PageIsTab DEF IInv
<1>3. PICK pg \in Tabs : pg = PollDone(page[p], k)
  BY <1>1, <1>2, PollDoneType
<1>4. pg.es = page[p].es /\ pg.stream = page[p].stream /\ ~Quiet(pg)
  BY <1>1, <1>2, <1>3, PollDoneType DEF Quiet
<1>5. QED
  BY <1>1, <1>3, <1>4, Looking

\* The first of what is on its way arrives: the page is open, or shows it.
LEMMA Arrives ==
  ASSUME NEW pg \in Tabs, NEW s \in Handlers, InStep(pg, s), s.sent # <<>>,
         pg.es \in {"accepted", "open"}
  PROVE  /\ [s EXCEPT !.sent = Tail(@)] \in Handlers
         /\ Head(s.sent) = Headers =>
              InStep(Opened(pg), [s EXCEPT !.sent = Tail(@)])
         /\ Head(s.sent) # Headers =>
              /\ Head(s.sent) \in Lists
              /\ InStep([pg EXCEPT !.shown = Head(s.sent)], [s EXCEPT !.sent = Tail(@)])
<1>1. PICK sent \in Seq(Lists \cup {Headers}) : sent = s.sent
  BY DEF Handlers
<1>2. PICK rest \in Seq(Lists \cup {Headers}) : rest = Tail(sent)
  <2>1. \A q \in Seq(Lists \cup {Headers}) :
          q # <<>> => Tail(q) \in Seq(Lists \cup {Headers})
    OBVIOUS
  <2>2. QED
    BY <1>1, <2>1
<1>3. /\ Len(sent) \in Int /\ Len(sent) > 0 /\ Len(rest) \in Int /\ Len(rest) >= 0
      /\ Len(rest) = Len(sent) - 1
      /\ Head(sent) = sent[1] /\ sent[1] \in Lists \cup {Headers}
      /\ \A i \in 1..Len(sent) - 1 : rest[i] = sent[i + 1]
  BY <1>1, <1>2
<1>4. PICK t \in Handlers : t = [s EXCEPT !.sent = Tail(@)]
  BY <1>1, <1>2 DEF Handlers
<1>5. t.sent = rest /\ t.last = s.last /\ t.cut = s.cut /\ t.closed = s.closed
  BY <1>1, <1>4, <1>2 DEF Handlers
<1>6. /\ \A i \in 1..Len(rest) : rest[i] # Headers
      /\ Len(rest) > 0 => rest[Len(rest)] = sent[Len(sent)]
  BY <1>1, <1>3 DEF InStep
<1>7. ASSUME Head(sent) = Headers PROVE InStep(Opened(pg), t)
  <2>1. Opened(pg).es = "open"
    BY DEF Opened, Tabs
  <2>2. pg.es = "accepted"
    BY <1>1, <1>3, <1>7 DEF InStep
  <2>3. Len(rest) = 0 => s.last = Nothing
    BY <1>1, <1>3, <2>2 DEF InStep
  <2>4. Len(rest) > 0 => s.last = sent[Len(sent)]
    BY <1>1, <1>3, <2>2 DEF InStep
  <2>5. Len(t.sent) > 0 => t.sent[1] # Headers /\ t.last = t.sent[Len(t.sent)]
    BY <1>3, <1>5, <1>6, <2>4
  <2>6. Len(t.sent) = 0 => t.last = Nothing
    BY <1>5, <2>3
  <2>7. ~t.cut /\ ~t.closed /\ \A i \in 2..Len(t.sent) : t.sent[i] # Headers
    BY <1>3, <1>5, <1>6 DEF InStep
  <2>8. QED
    BY <2>1, <2>5, <2>6, <2>7 DEF InStep
<1>8. ASSUME Head(sent) # Headers
      PROVE  Head(sent) \in Lists /\ InStep([pg EXCEPT !.shown = Head(sent)], t)
  <2>1. PICK l \in Lists : l = Head(sent)
    BY <1>3, <1>8
  <2>2. PICK pg2 \in Tabs : pg2 = [pg EXCEPT !.shown = l]
    BY TabTypes
  <2>3. pg2.es = pg.es /\ pg2.shown = l
    BY <2>2 DEF Tabs
  <2>4. pg.es = "open" /\ s.last = sent[Len(sent)]
    BY <1>1, <1>3, <1>8 DEF InStep
  <2>5. ASSUME Len(rest) = 0 PROVE s.last = l
    <3>1. Len(sent) = 1
      BY <1>3, <2>5
    <3>2. QED
      BY <1>3, <2>1, <2>4, <3>1
  <2>6. InStep(pg2, t)
    BY <1>3, <1>5, <1>6, <2>3, <2>4, <2>5 DEF InStep
  <2>7. QED
    BY <2>1, <2>2, <2>6
<1>9. QED
  BY <1>1, <1>4, <1>7, <1>8

\* A page and its handler change and are in step again.
LEMMA Together ==
  ASSUME IInv, NEW p \in Pages, Attached(p), NEW pg \in Tabs, NEW s \in Handlers,
         page' = [page EXCEPT ![p] = pg],
         stream' = [stream EXCEPT ![page[p].stream] = s],
         pg.es \in {"accepted", "open"}, pg.stream = page[p].stream, InStep(pg, s),
         UNCHANGED <<list, revoked, server, activeEventStreams>>
  PROVE  IInv'
<1>1. TypeOK
  BY DEF IInv
<1>2. PICK c \in Streams : c = page[p].stream
  BY DEF IInv, Joined
<1>3. /\ page' \in [Pages -> {Nowhere} \cup Tabs] /\ page'[p] = pg
      /\ \A q \in Pages : q # p => page'[q] = page[q]
  BY <1>1, OnePage
<1>4. /\ stream' \in [Streams -> {NoStream} \cup Handlers] /\ stream'[c] = s
      /\ \A d \in Streams : d # c => stream'[d] = stream[d]
  BY <1>1, <1>2, OneStream
<1>5. TypeOK'
  <2>1. \A d \in activeEventStreams' : stream'[d] # NoStream
    BY <1>1, <1>4, TypeForm, Absent
  <2>2. QED
    BY <1>1, <1>3, <1>4, <2>1, TypeForm, TypeFormNext
<1>6. \A q \in Pages : (Attached(q)' <=> Attached(q))
                       /\ (Attached(q) => page'[q].stream = page[q].stream)
  BY <1>3 DEF Attached
<1>7. \A q \in Pages : Attached(q) /\ page[q].stream = c => q = p
  BY <1>2 DEF IInv, Joined
<1>8. ASSUME NEW q \in Pages, q # p PROVE Joined(q)'
  <2>1. Attached(q) => page[q].stream \in Streams
          /\ \A r \in Pages : r # q /\ Attached(r)' => page'[r].stream # page[q].stream
    BY <1>6 DEF IInv, Joined
  <2>2. Attached(q) => stream'[page[q].stream] = stream[page[q].stream]
    BY <1>4, <1>7, <1>8, <2>1
  <2>3. QED
    BY <1>3, <1>8, <2>1, <2>2, Aside
<1>9. Joined(p)'
  <2>1. InStep(page[p], stream[page[p].stream])'
    BY <1>2, <1>3, <1>4 DEF InStep, Quiet
  <2>2. QED
    BY <1>2, <1>3, <1>4, <1>6, <1>7, <2>1, Absent DEF Joined
<1>10. Counted'
  BY <1>1, <1>4, TypeForm DEF IInv, Counted, InStep
<1>11. QED
  BY <1>5, <1>8, <1>9, <1>10 DEF IInv

LEMMA ReceiveHolds == ASSUME IInv, NEW p \in Pages, Receive(p) PROVE IInv'
<1>1. /\ Attached(p) /\ stream[page[p].stream].sent # <<>>
      /\ UNCHANGED <<list, revoked, server, activeEventStreams>>
  BY DEF Receive, Attached
<1>2. page[p] # Nowhere
  BY <1>1 DEF Attached, Nowhere
<1>3. PICK c \in Streams : c = page[p].stream
  BY <1>1 DEF IInv, Joined
<1>4. PICK old \in Tabs : old = page[p]
  BY <1>2, PageIsTab DEF IInv
<1>5. PICK s \in Handlers : s = stream[c] /\ InStep(old, s)
  BY <1>1, <1>3, <1>4, StreamIsHandler DEF IInv, Joined
<1>6. s.sent # <<>> /\ old.es \in {"accepted", "open"}
  BY <1>1, <1>3, <1>4, <1>5 DEF Attached
<1>7. /\ page' = [page EXCEPT ![p] = IF Head(stream[c].sent) = Headers THEN Opened(page[p])
                    ELSE [page[p] EXCEPT !.shown = Head(stream[c].sent)]]
      /\ stream' = [stream EXCEPT ![c].sent = Tail(@)]
  BY <1>3 DEF Receive
<1>8. PICK t \in Handlers : t = [s EXCEPT !.sent = Tail(@)]
  BY <1>5, <1>6, Arrives
<1>9. PICK pg \in Tabs : pg = IF Head(s.sent) = Headers THEN Opened(old)
                              ELSE [old EXCEPT !.shown = Head(s.sent)]
  BY <1>5, <1>6, Arrives, TabTypes
<1>10. InStep(pg, t)
  BY <1>5, <1>6, <1>8, <1>9, Arrives
<1>11. pg.es \in {"accepted", "open"} /\ pg.stream = old.stream
  BY <1>6, <1>9 DEF Opened, Tabs
<1>12. page' = [page EXCEPT ![p] = pg] /\ stream' = [stream EXCEPT ![c] = t]
  BY <1>4, <1>5, <1>7, <1>8, <1>9
<1>13. QED
  BY <1>1, <1>3, <1>4, <1>10, <1>11, <1>12, Together
----------------------------------------------------------------------------
(* The server.                                                             *)

\* What a handler sends keeps its page in step.
LEMMA Sends ==
  ASSUME NEW pg \in Tabs, NEW s \in Handlers, InStep(pg, s),
         pg.es \in {"accepted", "open"}
  PROVE  /\ ScheduleNext(WriteEvent(s)) \in Handlers
         /\ InStep(pg, ScheduleNext(WriteEvent(s)))
<1>1. PICK w \in Handlers : w = WriteEvent(s)
  BY WriteEventType
<1>2. ~s.cut /\ ~s.closed /\ w.cut = s.cut /\ w.closed = s.closed
  BY <1>1, WriteEventType DEF InStep
<1>3. PICK t \in Handlers : t = ScheduleNext(w)
  BY <1>2, ScheduleNextType
<1>4. t.sent = w.sent /\ t.last = w.last /\ t.cut = w.cut /\ t.closed = w.closed
  BY <1>2, <1>3, ScheduleNextType
<1>5. CASE w.sent = s.sent /\ w.last = s.last
  BY <1>1, <1>2, <1>3, <1>4, <1>5 DEF InStep
<1>6. CASE w.sent = Append(s.sent, s.got) /\ w.last = s.got
  <2>1. PICK sent \in Seq(Lists \cup {Headers}) : sent = s.sent
    BY DEF Handlers
  <2>2. s.got \in Lists /\ s.got # Headers
    BY Numbers DEF Handlers
  <2>3. PICK more \in Seq(Lists \cup {Headers}) : more = Append(sent, s.got)
    <3>1. Append(sent, s.got) \in Seq(Lists \cup {Headers})
      BY <2>2
    <3>2. QED
      BY <3>1
  <2>4. /\ Len(sent) \in Int /\ Len(sent) >= 0 /\ Len(more) = Len(sent) + 1
        /\ \A i \in 1..Len(sent) : more[i] = sent[i]
        /\ more[Len(sent) + 1] = s.got
    BY <2>2, <2>3
  <2>5. t.sent = more /\ t.last = s.got /\ ~t.cut /\ ~t.closed
    BY <1>2, <1>4, <1>6, <2>1, <2>3
  <2>6. Len(more) > 0 /\ t.last = more[Len(more)]
    BY <2>4, <2>5
  <2>7. \A i \in 2..Len(more) : more[i] # Headers
    <3>1. TAKE i \in 2..Len(more)
    <3>2. CASE i = Len(sent) + 1
      BY <2>2, <2>4, <3>2
    <3>3. CASE i # Len(sent) + 1
      BY <2>1, <2>4, <3>3 DEF InStep
    <3>4. QED
      BY <3>2, <3>3
  <2>8. ASSUME pg.es = "accepted"
        PROVE  more[1] = Headers /\ Len(more) # 1
    BY <2>1, <2>4, <2>8 DEF InStep
  <2>9. ASSUME pg.es = "open" PROVE more[1] # Headers
    <3>1. CASE Len(sent) = 0
      BY <2>2, <2>4, <3>1
    <3>2. CASE Len(sent) # 0
      BY <2>1, <2>4, <2>9, <3>2 DEF InStep
    <3>3. QED
      BY <3>1, <3>2
  <2>10. InStep(pg, t)
    BY <2>5, <2>6, <2>7, <2>8, <2>9 DEF InStep
  <2>11. QED
    BY <1>1, <1>3, <2>10
<1>7. QED
  BY <1>1, <1>5, <1>6, WriteEventType

\* A handler that no page is attached to changes or ends.
LEMMA Alone ==
  ASSUME IInv, NEW c \in Streams, NEW s \in {NoStream} \cup Handlers,
         \A p \in Pages : Attached(p) => page[p].stream # c,
         stream' = [stream EXCEPT ![c] = s],
         activeEventStreams' \subseteq activeEventStreams,
         c \in activeEventStreams' => s # NoStream /\ ~s.closed,
         UNCHANGED <<list, revoked, server, page>>
  PROVE  IInv'
<1>1. TypeOK
  BY DEF IInv
<1>2. /\ stream' \in [Streams -> {NoStream} \cup Handlers] /\ stream'[c] = s
      /\ \A d \in Streams : d # c => stream'[d] = stream[d]
  BY <1>1, OneStream
<1>3. Cardinality(activeEventStreams') <= MaxStreams
  <2>1. IsFiniteSet(activeEventStreams)
    BY <1>1, TypeForm, FS_Subset, DashboardAssumption
  <2>2. /\ Cardinality(activeEventStreams') <= Cardinality(activeEventStreams)
        /\ Cardinality(activeEventStreams') \in Nat /\ Cardinality(activeEventStreams) \in Nat
    BY <2>1, FS_Subset, FS_CardinalityType
  <2>3. QED
    BY <1>1, <2>2, TypeForm, Numbers
<1>4. TypeOK'
  <2>1. \A d \in activeEventStreams' : stream'[d] # NoStream
    BY <1>1, <1>2, TypeForm
  <2>2. QED
    BY <1>1, <1>2, <1>3, <2>1, TypeForm, TypeFormNext
<1>5. ASSUME NEW p \in Pages PROVE Joined(p)'
  <2>1. Attached(p) => page[p].stream \in Streams
          /\ \A q \in Pages : q # p /\ Attached(q)' => page'[q].stream # page[p].stream
    BY DEF IInv, Joined, Attached
  <2>2. Attached(p) => stream'[page[p].stream] = stream[page[p].stream]
    BY <1>2, <2>1
  <2>3. QED
    BY <2>1, <2>2, Aside
<1>6. Counted'
  BY <1>1, <1>2, TypeForm DEF IInv, Counted
<1>7. QED
  BY <1>4, <1>5, <1>6 DEF IInv

\* The page's handler goes on: both are in step with what it becomes.
LEMMA GoesOn ==
  ASSUME IInv, NEW p \in Pages, Attached(p), NEW s \in Handlers,
         stream' = [stream EXCEPT ![page[p].stream] = s],
         InStep(page[p], s),
         UNCHANGED <<list, revoked, server, activeEventStreams, page>>
  PROVE  IInv'
<1>1. page[p] # Nowhere
  BY DEF Attached, Nowhere
<1>2. page[p] \in Tabs
  BY <1>1, PageIsTab DEF IInv
<1>3. page' = [page EXCEPT ![p] = page[p]]
  BY TypeForm DEF IInv
<1>4. QED
  BY <1>2, <1>3, Together DEF Attached

LEMMA PushHolds == ASSUME IInv, NEW c \in Streams, Push(c) PROVE IInv'
<1>1. /\ stream[c].stage = "fetching" /\ stream' = [stream EXCEPT ![c] = ScheduleNext(WriteEvent(stream[c]))]
      /\ UNCHANGED <<list, revoked, server, activeEventStreams, page>>
  BY DEF Push
<1>2. stream[c] # NoStream
  BY <1>1 DEF NoStream
<1>3. PICK s \in Handlers : s = stream[c]
  BY <1>2, StreamIsHandler DEF IInv
<1>4. CASE \E p \in Pages : Attached(p) /\ page[p].stream = c
  <2>1. PICK p \in Pages : Attached(p) /\ page[p].stream = c
    BY <1>4
  <2>2. page[p] \in Tabs /\ InStep(page[p], s) /\ page[p].es \in {"accepted", "open"}
    BY <1>3, <2>1, PageIsTab DEF IInv, Joined, Attached, Nowhere
  <2>3. PICK t \in Handlers : t = ScheduleNext(WriteEvent(s)) /\ InStep(page[p], t)
    BY <2>2, Sends
  <2>4. QED
    BY <1>1, <1>3, <2>1, <2>3, GoesOn
<1>5. CASE \A p \in Pages : Attached(p) => page[p].stream # c
  <2>1. PICK w \in Handlers : w = WriteEvent(s)
    BY WriteEventType
  <2>2. PICK t \in {NoStream} \cup Handlers : t = ScheduleNext(w)
    BY ScheduleNextType
  <2>3. stream' = [stream EXCEPT ![c] = t]
    BY <1>1, <1>3, <2>1, <2>2
  <2>4. ASSUME c \in activeEventStreams PROVE t # NoStream /\ ~t.closed
    <3>1. ~w.closed
      BY <1>3, <2>1, <2>4, WriteEventType DEF IInv, Counted
    <3>2. QED
      BY <2>2, <3>1, ScheduleNextType, Absent
  <2>5. QED
    BY <1>1, <1>5, <2>3, <2>4, Alone
<1>6. QED
  BY <1>4, <1>5
LEMMA PushLoopHolds == ASSUME IInv, NEW c \in Streams, PushLoop(c) PROVE IInv'
<1>1. stream[c].stage = "waiting" /\ UNCHANGED <<list, revoked, server, activeEventStreams, page>>
  BY DEF PushLoop
<1>2. stream[c] # NoStream
  BY <1>1 DEF NoStream
<1>3. PICK s \in Handlers : s = stream[c]
  BY <1>2, StreamIsHandler DEF IInv
<1>4. CASE s.closed
  <2>1. stream' = [stream EXCEPT ![c] = NoStream]
    BY <1>3, <1>4 DEF PushLoop
  <2>2. c \notin activeEventStreams /\ \A p \in Pages : Attached(p) => page[p].stream # c
    BY <1>3, <1>4 DEF IInv, Counted, Joined, InStep
  <2>3. QED
    BY <1>1, <2>1, <2>2, Alone
<1>5. CASE ~s.closed
  <2>1. PICK a \in Lists \cup {Failed} : stream' = [stream EXCEPT ![c] = Asking(stream[c], a)]
    BY <1>3, <1>5 DEF PushLoop
  <2>2. PICK t \in Handlers : t = Asking(s, a)
    BY AskingType
  <2>3. t.sent = s.sent /\ t.last = s.last /\ t.cut = s.cut /\ t.closed = s.closed
    BY <2>2, AskingType
  <2>4. stream' = [stream EXCEPT ![c] = t]
    BY <1>3, <2>1, <2>2
  <2>5. CASE \E p \in Pages : Attached(p) /\ page[p].stream = c
    <3>1. PICK p \in Pages : Attached(p) /\ page[p].stream = c
      BY <2>5
    <3>2. InStep(page[p], s)
      BY <1>3, <3>1 DEF IInv, Joined
    <3>3. InStep(page[p], t)
      BY <2>3, <3>2 DEF InStep
    <3>4. QED
      BY <1>1, <2>4, <3>1, <3>3, GoesOn
  <2>6. CASE \A p \in Pages : Attached(p) => page[p].stream # c
    BY <1>1, <1>5, <2>3, <2>4, <2>6, Absent, Alone
  <2>7. QED
    BY <2>5, <2>6
<1>6. QED
  BY <1>4, <1>5

LEMMA CloseEventHolds == ASSUME IInv, NEW c \in Streams, CloseEvent(c) PROVE IInv'
<1>1. /\ stream[c] # NoStream /\ stream[c].cut /\ activeEventStreams' = activeEventStreams \ {c}
      /\ stream' = [stream EXCEPT ![c] = Closed(stream[c])]
      /\ UNCHANGED <<list, revoked, server, page>>
  BY DEF CloseEvent
<1>2. PICK s \in Handlers : s = stream[c]
  BY <1>1, StreamIsHandler DEF IInv
<1>3. PICK t \in {NoStream} \cup Handlers : t = Closed(s)
  BY ClosedType
<1>4. \A p \in Pages : Attached(p) => page[p].stream # c
  BY <1>1 DEF IInv, Joined, InStep
<1>5. stream' = [stream EXCEPT ![c] = t]
  BY <1>1, <1>2, <1>3
<1>6. QED
  BY <1>1, <1>4, <1>5, Alone

\* Nothing of pages and streams changes.
LEMMA World ==
  ASSUME IInv, UNCHANGED <<activeEventStreams, stream, page>>,
         list' \in Lists, revoked' \in BOOLEAN, server' \in {"up", "closing", "gone"}
  PROVE  IInv'
<1>1. TypeOK'
  BY TypeForm, TypeFormNext DEF IInv
<1>2. QED
  BY <1>1, Elsewhere DEF IInv, Counted

LEMMA WorldHolds ==
  ASSUME IInv, Change \/ Leave \/ ProcessEnds \/ (\E p \in Pages : RevokeSession(p))
               \/ UNCHANGED vars
  PROVE  IInv'
<1>1. list \in Lists /\ revoked \in BOOLEAN /\ server \in {"up", "closing", "gone"}
  BY TypeForm DEF IInv
<1>2. CASE Change
  <2>1. list' \in Lists
    BY <1>1, <1>2, Numbers DEF Change, Lists
  <2>2. QED
    BY <1>1, <1>2, <2>1, World DEF Change
<1>3. CASE Leave
  BY <1>1, <1>3, World DEF Leave
<1>4. CASE ProcessEnds
  BY <1>1, <1>4, World DEF ProcessEnds
<1>5. CASE \E p \in Pages : RevokeSession(p)
  BY <1>1, <1>5, World DEF RevokeSession
<1>6. CASE UNCHANGED vars
  BY <1>1, <1>6, World DEF vars
<1>7. QED
  BY <1>2, <1>3, <1>4, <1>5, <1>6

----------------------------------------------------------------------------
(* The theorems.                                                           *)

LEMMA NextHolds == IInv /\ [Next]_vars => IInv'
<1> SUFFICES ASSUME IInv, [Next]_vars PROVE IInv'
  OBVIOUS
<1>1. ASSUME NEW p \in Pages,
             OpenPage(p) \/ ClosePage(p) \/ Drop(p) \/ Connect(p) \/ Receive(p)
      PROVE  IInv'
  BY <1>1, OpenPageHolds, ClosePageHolds, DropHolds, AcceptHolds, RefuseHolds,
     UnreachableHolds, ReceiveHolds DEF Connect
<1>2. ASSUME NEW p \in Pages, NEW k \in Polls, PollFallback(p, k) \/ ShowPoll(p, k)
      PROVE  IInv'
  BY <1>2, PollFallbackHolds, ShowPollHolds
<1>3. ASSUME NEW c \in Streams, Push(c) \/ PushLoop(c) \/ CloseEvent(c) PROVE IInv'
  BY <1>3, PushHolds, PushLoopHolds, CloseEventHolds
<1>4. QED
  BY <1>1, <1>2, <1>3, WorldHolds DEF Next

LEMMA Holds == Spec => []IInv
BY InitHolds, NextHolds, PTL DEF Spec

\* The dashboard's state has its type, whatever pages and broken connections do: no more
\* event streams are counted than MAX_EVENT_STREAMS, and each of them has its handler
\* (the check of /api/events in startLocalHostDashboard and its close event).
THEOREM Types == Spec => []TypeOK
<1>1. IInv => TypeOK
  BY DEF IInv
<1>2. QED
  BY <1>1, Holds, PTL

\* A page that is connected, polls no more and has nothing on its way shows what its
\* stream was sent last, so that the comparison with lastApprovals and lastClients in
\* writeEvent keeps nothing from it; however often it was cut off, refused or handed the
\* late answer of a poll.
THEOREM Agrees == Spec => []StreamAgrees
<1>1. ASSUME IInv PROVE StreamAgrees
  <2>1. SUFFICES ASSUME NEW p \in Pages, page[p].es = "open", ~page[p].fallbackTimer,
                        \A k \in Polls : page[p].polls[k] = Idle,
                        stream[page[p].stream].sent = <<>>,
                        stream[page[p].stream].last # Nothing
                 PROVE  page[p].shown = stream[page[p].stream].last
    BY DEF StreamAgrees
  <2>2. InStep(page[p], stream[page[p].stream])
    BY <1>1, <2>1 DEF IInv, Joined, Attached
  <2>3. Quiet(page[p]) /\ Len(stream[page[p].stream].sent) = 0
    BY <2>1 DEF Quiet
  <2>4. QED
    BY <2>1, <2>2, <2>3 DEF InStep
<1>2. QED
  BY <1>1, Holds, PTL
=============================================================================
