----------------------------- MODULE Dashboard -----------------------------
(***************************************************************************)
(* The host's local dashboard (startLocalHostDashboard in                  *)
(* src/src/modes/host.js): a server in the host process and the page it    *)
(* serves, open in browsers.  A page listens to an event stream, for which *)
(* the server asks the broker again and again and sends what has changed;  *)
(* a page without a stream asks for itself, at growing intervals.          *)
(*                                                                         *)
(* Abstractions: the approvals and the clients, which the code fetches,    *)
(* compares and shows side by side in the same way, are one list; a list   *)
(* is the number of the change that made it, and 0 the empty one.  The     *)
(* cache of decrypted clients only spares work: its key holds the          *)
(* ciphertext.  Time is left out, so every interval may pass at any time;  *)
(* a request to the broker is answered as it is sent, and its answer used  *)
(* some steps later.                                                       *)
(***************************************************************************)
EXTENDS Integers, Sequences, FiniteSets

CONSTANTS
  Pages,       \* tabs that may show the dashboard
  Streams,     \* bound: handlers of /api/events that may run at a time
  MaxStreams,  \* MAX_EVENT_STREAMS
  Polls,       \* bound: polls a page may have under way at a time
  MaxChanges,  \* bound: changes of the list
  MaxFailures, \* bound: requests to the broker that fail
  MaxDrops,    \* bound: connections that break
  MaxOpens     \* bound: times a page is opened

ASSUME DashboardAssumption ==
  /\ IsFiniteSet(Streams) /\ -1 \notin Streams
  /\ {MaxStreams, MaxChanges, MaxFailures, MaxDrops, MaxOpens} \subseteq Nat

VARIABLES
  list,               \* what the broker holds for the session
  revoked,            \* the session was revoked: the broker knows it no more
  server,             \* "up", "closing" after server.close(), "gone" with its process
  activeEventStreams, \* the streams that count against MaxStreams
  stream,             \* the handlers of /api/events and their connections
  page,               \* the open pages
  faults              \* bound: failures, drops and opens so far

vars == <<list, revoked, server, activeEventStreams, stream, page, faults>>

Nothing == -1 \* the empty string lastApprovals and lastClients start with
Headers == -2 \* on a connection: the head of the answer
Idle == -1    \* a poll that is not under way
Failed == -2  \* a poll that got no answer, or one that is not ok

Lists == 0..MaxChanges
Nowhere == [es |-> "none"]
NoStream == [stage |-> "none"]

TypeOK ==
  /\ list \in Lists
  /\ revoked \in BOOLEAN
  /\ server \in {"up", "closing", "gone"}
  /\ activeEventStreams \subseteq {c \in Streams : stream[c] # NoStream}
  /\ Cardinality(activeEventStreams) <= MaxStreams
  /\ stream \in [Streams -> {NoStream} \cup
       [stage : {"fetching", "waiting"}, got : Lists, last : Lists \cup {Nothing},
        sent : Seq(Lists \cup {Headers}), cut : BOOLEAN, closed : BOOLEAN]]
  /\ page \in [Pages -> {Nowhere} \cup
       [es : {"connecting", "accepted", "open", "failed"}, stream : Streams \cup {Nothing},
        fallbackTimer : BOOLEAN, polls : [Polls -> Lists \cup {Idle, Failed}],
        shown : Lists]]

Init ==
  /\ list = 0
  /\ revoked = FALSE
  /\ server = "up"
  /\ activeEventStreams = {}
  /\ stream = [c \in Streams |-> NoStream]
  /\ page = [p \in Pages |-> Nowhere]
  /\ faults = [failures |-> 0, drops |-> 0, opens |-> 0]

\* What a request to the broker brings: its list, or a failure; after the revocation
\* only failures.
Answer(a) ==
  IF a = Failed
  THEN \/ revoked /\ UNCHANGED faults
       \/ faults.failures < MaxFailures /\ faults' = [faults EXCEPT !.failures = @ + 1]
  ELSE ~revoked /\ a = list /\ UNCHANGED faults

----------------------------------------------------------------------------
(* The world.                                                              *)

\* A client asks for approval, connects or leaves, or its request is decided, on a page
\* of the dashboard or elsewhere (ApprovalFlow has the decisions).
Change ==
  /\ ~revoked
  /\ list < MaxChanges
  /\ list' = list + 1
  /\ UNCHANGED <<revoked, server, activeEventStreams, stream, page, faults>>

\* A page is opened: it shows nothing and asks for an event stream.
OpenPage(p) ==
  /\ server = "up"
  /\ page[p] = Nowhere
  /\ faults.opens < MaxOpens
  /\ page' = [page EXCEPT ![p] = [es |-> "connecting", stream |-> Nothing,
       fallbackTimer |-> FALSE, polls |-> [k \in Polls |-> Idle], shown |-> 0]]
  /\ faults' = [faults EXCEPT !.opens = @ + 1]
  /\ UNCHANGED <<list, revoked, server, activeEventStreams, stream>>

\* The connection of page p, if it has one, is closed on its side.
CutOff(p) ==
  stream' = [c \in Streams |-> IF c = page[p].stream THEN [stream[c] EXCEPT !.cut = TRUE]
                               ELSE stream[c]]

\* A page is closed.
ClosePage(p) ==
  /\ page[p] # Nowhere
  /\ CutOff(p)
  /\ page' = [page EXCEPT ![p] = Nowhere]
  /\ UNCHANGED <<list, revoked, server, activeEventStreams, faults>>

----------------------------------------------------------------------------
(* The page.                                                               *)

\* scheduleFallbackPoll()
ScheduleFallbackPoll(pg) == [pg EXCEPT !.fallbackTimer = TRUE]

\* A connection breaks: the page will connect anew, and polls meanwhile.
Drop(p) ==
  /\ page[p].es \in {"accepted", "open"}
  /\ faults.drops < MaxDrops
  /\ faults' = [faults EXCEPT !.drops = @ + 1]
  /\ CutOff(p)
  /\ page' = [page EXCEPT ![p] =
       ScheduleFallbackPoll([@ EXCEPT !.es = "connecting", !.stream = Nothing])]
  /\ UNCHANGED <<list, revoked, server, activeEventStreams>>

\* pushLoop asks the broker; a failure counts as an empty list.
Asking(s, a) == [s EXCEPT !.stage = "fetching", !.got = IF a = Failed THEN 0 ELSE a]

NewStream == [stage |-> "fetching", got |-> 0, last |-> Nothing, sent |-> <<Headers>>,
              cut |-> FALSE, closed |-> FALSE]

\* The server accepts an event stream and starts to push.
Accept(p) ==
  /\ server = "up"
  /\ page[p].es = "connecting"
  /\ Cardinality(activeEventStreams) < MaxStreams
  /\ \E c \in Streams, a \in Lists \cup {Failed} :
       /\ stream[c] = NoStream
       /\ Answer(a)
       /\ stream' = [stream EXCEPT ![c] = Asking(NewStream, a)]
       /\ activeEventStreams' = activeEventStreams \cup {c}
       /\ page' = [page EXCEPT ![p].es = "accepted", ![p].stream = c]
  /\ UNCHANGED <<list, revoked, server>>

\* There are too many already: 503, after which an EventSource never tries again.
Refuse(p) ==
  /\ server = "up"
  /\ page[p].es = "connecting"
  /\ Cardinality(activeEventStreams) >= MaxStreams
  /\ page' = [page EXCEPT ![p] = ScheduleFallbackPoll([@ EXCEPT !.es = "failed"])]
  /\ UNCHANGED <<list, revoked, server, activeEventStreams, stream, faults>>

\* Nobody listens: the page tries again, and polls meanwhile.
Unreachable(p) ==
  /\ server # "up"
  /\ page[p].es = "connecting"
  /\ page' = [page EXCEPT ![p] = ScheduleFallbackPoll(@)]
  /\ UNCHANGED <<list, revoked, server, activeEventStreams, stream, faults>>

\* The stream's open event: the fallback is given up.
Opened(pg) == [pg EXCEPT !.es = "open", !.fallbackTimer = FALSE]

\* What the server sent arrives, in order.
Receive(p) ==
  /\ page[p].es \in {"accepted", "open"}
  /\ LET c == page[p].stream IN
       /\ stream[c].sent # <<>>
       /\ page' = [page EXCEPT ![p] = IF Head(stream[c].sent) = Headers THEN Opened(@)
                                      ELSE [@ EXCEPT !.shown = Head(stream[c].sent)]]
       /\ stream' = [stream EXCEPT ![c].sent = Tail(@)]
  /\ UNCHANGED <<list, revoked, server, activeEventStreams, faults>>

\* The fallback's timer fires: the page asks for the lists, of a server that may be gone.
PollFallback(p, k) ==
  /\ page[p] # Nowhere
  /\ page[p].fallbackTimer
  /\ page[p].polls[k] = Idle
  /\ \E a \in Lists \cup {Failed} :
       /\ IF server = "up" THEN Answer(a) ELSE a = Failed /\ UNCHANGED faults
       /\ page' = [page EXCEPT ![p].fallbackTimer = FALSE, ![p].polls[k] = a]
  /\ UNCHANGED <<list, revoked, server, activeEventStreams, stream>>

\* Mutants: a poll is scheduled only after an answer; only while there is no stream.
PollDoneIfAnswered(pg, k) ==
  IF pg.polls[k] = Failed THEN [pg EXCEPT !.polls[k] = Idle]
  ELSE ScheduleFallbackPoll([pg EXCEPT !.shown = pg.polls[k], !.polls[k] = Idle])
PollDoneIfNeeded(pg, k) ==
  [pg EXCEPT !.shown = IF pg.polls[k] = Failed THEN @ ELSE pg.polls[k],
             !.polls[k] = Idle,
             !.fallbackTimer = @ \/ pg.es # "open"]

\* The answer is shown, if it is one, and the next poll scheduled.
PollDone(pg, k) ==
  ScheduleFallbackPoll([pg EXCEPT
    !.shown = IF pg.polls[k] = Failed THEN @ ELSE pg.polls[k],
    !.polls[k] = Idle])

ShowPoll(p, k) ==
  /\ page[p] # Nowhere
  /\ page[p].polls[k] # Idle
  /\ page' = [page EXCEPT ![p] = PollDone(@, k)]
  /\ UNCHANGED <<list, revoked, server, activeEventStreams, stream, faults>>

\* The session is revoked from the page.
RevokeSession(p) ==
  /\ page[p] # Nowhere
  /\ server = "up"
  /\ ~revoked
  /\ revoked' = TRUE
  /\ UNCHANGED <<list, server, activeEventStreams, stream, page, faults>>

----------------------------------------------------------------------------
(* The server.                                                             *)

\* writeEvent(): what differs from what was sent last is sent.
WriteEvent(s) ==
  IF s.closed \/ s.got = s.last THEN s
  ELSE [s EXCEPT !.sent = Append(@, s.got), !.last = s.got]

\* scheduleNext()
ScheduleNext(s) ==
  IF s.closed THEN NoStream ELSE [s EXCEPT !.stage = "waiting", !.got = 0]

\* The answers are there and decrypted: the rest of pushLoop.
Push(c) ==
  /\ stream[c].stage = "fetching"
  /\ stream' = [stream EXCEPT ![c] = ScheduleNext(WriteEvent(@))]
  /\ UNCHANGED <<list, revoked, server, activeEventStreams, page, faults>>

\* The timer of a stream fires.
PushLoop(c) ==
  /\ stream[c].stage = "waiting"
  /\ IF stream[c].closed
     THEN stream' = [stream EXCEPT ![c] = NoStream] /\ UNCHANGED faults
     ELSE \E a \in Lists \cup {Failed} :
            Answer(a) /\ stream' = [stream EXCEPT ![c] = Asking(@, a)]
  /\ UNCHANGED <<list, revoked, server, activeEventStreams, page>>

\* Mutant: the close event clears the timer and leaves the flag alone.
ClosedUnflagged(s) == IF s.stage = "waiting" THEN NoStream ELSE [s EXCEPT !.cut = FALSE]

\* What the close event makes of a stream: a timer is cleared, and a push under way
\* will find the flag.
Closed(s) ==
  IF s.stage = "waiting" THEN NoStream
  ELSE [NewStream EXCEPT !.closed = TRUE, !.sent = <<>>]

\* The close event of a stream's request.
CloseEvent(c) ==
  /\ stream[c] # NoStream
  /\ stream[c].cut
  /\ activeEventStreams' = activeEventStreams \ {c}
  /\ stream' = [stream EXCEPT ![c] = Closed(@)]
  /\ UNCHANGED <<list, revoked, server, page, faults>>

\* The host leaves its menu: server.close() accepts nobody any more, and cuts nobody off.
Leave ==
  /\ server = "up"
  /\ server' = "closing"
  /\ UNCHANGED <<list, revoked, activeEventStreams, stream, page, faults>>

\* The process ends once nothing keeps it: no request, timer or connection of a stream.
ProcessEnds ==
  /\ server = "closing"
  /\ \A c \in Streams : stream[c] = NoStream
  /\ server' = "gone"
  /\ UNCHANGED <<list, revoked, activeEventStreams, stream, page, faults>>

----------------------------------------------------------------------------
Connect(p) == Accept(p) \/ Refuse(p) \/ Unreachable(p)
Poll(p) == \E k \in Polls : PollFallback(p, k)

Next ==
  \/ Change \/ Leave \/ ProcessEnds
  \/ \E p \in Pages :
       \/ OpenPage(p) \/ ClosePage(p) \/ Drop(p) \/ Connect(p) \/ Receive(p)
       \/ RevokeSession(p)
       \/ \E k \in Polls : PollFallback(p, k) \/ ShowPoll(p, k)
  \/ \E c \in Streams : Push(c) \/ PushLoop(c) \/ CloseEvent(c)

Spec == Init /\ [][Next]_vars

\* Timers, events and answers come in the end, at the server and in a page; nothing is
\* assumed of the user, nor that a connection holds.
Fairness ==
  /\ WF_vars(ProcessEnds)
  /\ \A p \in Pages :
       /\ WF_vars(Connect(p))
       /\ WF_vars(Receive(p))
       /\ WF_vars(Poll(p))
       /\ \A k \in Polls : WF_vars(ShowPoll(p, k))
  /\ \A c \in Streams :
       WF_vars(Push(c)) /\ WF_vars(PushLoop(c)) /\ WF_vars(CloseEvent(c))

FairSpec == Spec /\ Fairness

----------------------------------------------------------------------------
(* Properties.                                                             *)

\* A page that stays open comes to show the current list and goes on showing it, once
\* changes and failures stop: be it refused a stream, cut off and accepted again, or
\* handed the answer of a poll older than what its stream had brought.
CatchesUp ==
  \A p \in Pages :
    <>[](server = "up" /\ ~revoked /\ page[p] # Nowhere) =>
      <>[](page[p] # Nowhere => page[p].shown = list)

\* The server sends a stream only what differs from what it sent last, so a page with
\* nothing on its way must show just that; unless it polls, then it goes on polling.
StreamAgrees ==
  \A p \in Pages :
    /\ page[p].es = "open"
    /\ ~page[p].fallbackTimer
    /\ \A k \in Polls : page[p].polls[k] = Idle
    /\ stream[page[p].stream].sent = <<>>
    /\ stream[page[p].stream].last # Nothing
    => page[p].shown = stream[page[p].stream].last

\* After the host left its menu, only a page that stays open keeps its process.
EndsWithPages ==
  <>[](server = "closing") => []<>(\E p \in Pages : page[p] # Nowhere)

\* The process ends after the host left its menu.  The code does not keep it: a page left
\* open keeps its stream, and the stream the process; the hook that would cut it off
\* (host.js:1946) asks for a function that the dashboard's object does not have.
LeaveEnds == server = "closing" ~> server = "gone"
=============================================================================
