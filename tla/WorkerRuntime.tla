--------------------------- MODULE WorkerRuntime ---------------------------
(***************************************************************************)
(* The worker thread that does the heavy cryptography                      *)
(* (src/src/lib/mod/worker-runtime.js, workers/crypto-checksum-worker.js)  *)
(* and its callers (crypto.js, checksum.js), which do the work themselves  *)
(* when the thread fails.  The main thread keeps a map of pending calls,   *)
(* one current worker and an idle timer; worker and main thread run side   *)
(* by side and talk through messages and events.                           *)
(*                                                                         *)
(* Abstractions: a call is a model value made once, so it serves as its    *)
(* own request id; the 30 seconds of the idle timer may pass at any time;  *)
(* a worker replies in any order (a checksum waits for the file, other     *)
(* tasks overtake it).  Workers are enabled.  Payloads are plain strings,  *)
(* which postMessage never refuses, and no code of the thread ends it with *)
(* exit code 0.                                                            *)
(***************************************************************************)
EXTENDS Naturals, FiniteSets

CONSTANTS
  Tasks,        \* calls
  Good,         \* the calls whose input the algorithm accepts
  MaxPending,   \* MAX_PENDING_TASKS
  MaxWorkers    \* bound: threads ever started

ASSUME RuntimeAssumption ==
  /\ IsFiniteSet(Tasks)
  /\ Good \subseteq Tasks
  /\ MaxPending \in Nat \ {0}
  /\ MaxWorkers \in Nat

VARIABLES
  worker,   \* the current worker, a number, or None
  pending,  \* the keys of the map of pending calls
  idleShutdownTimer, \* the worker the running timer was started for, or None
  refd,     \* workers that keep the process alive (ref and unref)
  thread,   \* worker -> the state of its thread
  inbox,    \* worker -> calls posted to it and not yet replied to
  replies,  \* worker -> replies posted to the main thread, not yet delivered
  owner,    \* history: call -> the worker it was posted to, or None
  answer    \* call -> its state, as its caller sees it

mainVars == <<worker, pending, idleShutdownTimer, refd>>
threadVars == <<inbox, replies, owner>>
vars == <<worker, pending, idleShutdownTimer, refd, thread, inbox, replies, owner, answer>>

None == 0
Workers == 1..MaxWorkers

\* A thread is not yet started, runs, has an error event or an exit event on its
\* way to the main thread, or is forgotten.
Threads == {"unborn", "running", "failed", "ended", "gone"}
Answers == {"unasked", "waiting", "refused", "value", "failure"}

TypeOK ==
  /\ worker \in Workers \cup {None}
  /\ pending \subseteq Tasks
  /\ Cardinality(pending) <= MaxPending
  /\ idleShutdownTimer \in Workers \cup {None}
  /\ refd \subseteq Workers
  /\ thread \in [Workers -> Threads]
  /\ inbox \in [Workers -> SUBSET Tasks]
  /\ replies \in [Workers -> SUBSET Tasks]
  /\ owner \in [Tasks -> Workers \cup {None}]
  /\ answer \in [Tasks -> Answers]

Init ==
  /\ worker = None
  /\ pending = {}
  /\ idleShutdownTimer = None
  /\ refd = {}
  /\ thread = [w \in Workers |-> "unborn"]
  /\ inbox = [w \in Workers |-> {}]
  /\ replies = [w \in Workers |-> {}]
  /\ owner = [t \in Tasks |-> None]
  /\ answer = [t \in Tasks |-> "unasked"]

----------------------------------------------------------------------------
(* The callers.                                                            *)

\* The work done by the algorithm itself, in whichever thread.
Compute(t) == IF t \in Good THEN "value" ELSE "failure"

\* The calls T are rejected: each caller does the work in the main thread.
FallBack(T) == [t \in Tasks |-> IF t \in T THEN Compute(t) ELSE answer[t]]

----------------------------------------------------------------------------
(* The main thread.                                                        *)

Unborn == {w \in Workers : thread[w] = "unborn"}

\* ensureWorker(): the current worker, or one started now.
IsEnsured(w) ==
  IF worker # None THEN w = worker
  ELSE w \in Unborn /\ \A v \in Unborn : w <= v

\* ensureWorker() and the effect of starting w on the set of threads.
Started(w) == [thread EXCEPT ![w] = IF worker = None THEN "running" ELSE @]

IsFull == Cardinality(pending) >= MaxPending

\* runWorkerTask() refuses a call when the queue is full.
CallRefused(t, w) ==
  /\ answer[t] = "unasked"
  /\ IsEnsured(w)
  /\ IsFull
  /\ worker' = w
  /\ thread' = Started(w)
  /\ answer' = [answer EXCEPT ![t] = "refused"]
  /\ UNCHANGED <<pending, idleShutdownTimer, refd>>
  /\ UNCHANGED threadVars

\* runWorkerTask() posts a call to the worker.
CallPosted(t, w) ==
  /\ answer[t] = "unasked"
  /\ IsEnsured(w)
  /\ ~IsFull
  /\ worker' = w
  /\ thread' = Started(w)
  /\ idleShutdownTimer' = None
  /\ pending' = pending \cup {t}
  /\ refd' = refd \cup {w}
  /\ inbox' = [inbox EXCEPT ![w] = @ \cup {t}]
  /\ owner' = [owner EXCEPT ![t] = w]
  /\ answer' = [answer EXCEPT ![t] = "waiting"]
  /\ UNCHANGED replies

\* Mutant: the timer starts one reply early.
TimerAfterReplyNever(w, left) == IF left # {} /\ worker = w THEN w ELSE idleShutdownTimer

\* scheduleIdleShutdown() after a reply of w, when left is still pending.
TimerAfterReply(w, left) == IF left = {} /\ worker = w THEN w ELSE idleShutdownTimer

\* The message handler of worker w.  A reply to a call that is no longer pending
\* is dropped.  A call whose input is bad is rejected by the worker and fails
\* again in the fallback.
HandleReply(w, t) ==
  /\ t \in replies[w]
  /\ replies' = [replies EXCEPT ![w] = @ \ {t}]
  /\ IF t \in pending
     THEN LET left == pending \ {t}
          IN  /\ pending' = left
              /\ refd' = IF left = {} /\ worker = w THEN refd \ {w} ELSE refd
              /\ idleShutdownTimer' = TimerAfterReply(w, left)
              /\ answer' = [answer EXCEPT ![t] = Compute(t)]
     ELSE UNCHANGED <<pending, refd, idleShutdownTimer, answer>>
  /\ UNCHANGED <<worker, thread, inbox, owner>>

\* terminate() on worker w of the threads th: one that runs loses its work and
\* sends an exit event.
Terminated(th, w) == [th EXCEPT ![w] = IF @ = "running" THEN "ended" ELSE @]

\* Mutant: the pending calls are dropped without a rejection.
ResetSilently(th) ==
  /\ idleShutdownTimer' = None
  /\ answer' = answer
  /\ pending' = {}
  /\ worker' = None
  /\ thread' = Terminated(th, worker)
  /\ inbox' = [inbox EXCEPT ![worker] = {}]
  /\ UNCHANGED refd

\* resetWorker(): every pending call is rejected and the current worker dropped,
\* th being the threads as the event at hand left them.
ResetWorker(th) ==
  /\ idleShutdownTimer' = None
  /\ answer' = FallBack(pending)
  /\ pending' = {}
  /\ worker' = None
  /\ thread' = Terminated(th, worker)
  /\ inbox' = [inbox EXCEPT ![worker] = {}]
  /\ UNCHANGED refd

\* Mutant: the event of an earlier worker is taken for the current one's.
ConcernsAny(w) == worker # None

\* Events of a worker other than the current one are ignored.
Concerns(w) == worker = w

\* The error handler of worker w; the messages it sent before were delivered.
HandleError(w) ==
  /\ thread[w] = "failed"
  /\ replies[w] = {}
  /\ LET th == [thread EXCEPT ![w] = "ended"]
     IN  IF Concerns(w) THEN ResetWorker(th)
         ELSE thread' = th /\ UNCHANGED <<mainVars, inbox, answer>>
  /\ UNCHANGED <<replies, owner>>

\* Mutant: every exit is taken for a regular one.
HandleExitRegular(w) ==
  /\ thread[w] = "ended"
  /\ replies[w] = {}
  /\ thread' = [thread EXCEPT ![w] = "gone"]
  /\ worker' = IF Concerns(w) THEN None ELSE worker
  /\ UNCHANGED <<pending, idleShutdownTimer, refd, inbox, answer, replies, owner>>

\* The exit handler of worker w.
HandleExit(w) ==
  /\ thread[w] = "ended"
  /\ replies[w] = {}
  /\ LET th == [thread EXCEPT ![w] = "gone"]
     IN  IF Concerns(w) THEN ResetWorker(th)
         ELSE thread' = th /\ UNCHANGED <<mainVars, inbox, answer>>
  /\ UNCHANGED <<replies, owner>>

\* The idle timer: nothing to do unless its worker is still current and idle.
IdleTimeout ==
  LET w == idleShutdownTimer
  IN  /\ w # None
      /\ idleShutdownTimer' = None
      /\ IF pending # {} \/ worker # w
         THEN UNCHANGED <<worker, thread, inbox>>
         ELSE /\ worker' = None
              /\ thread' = Terminated(thread, w)
              /\ inbox' = [inbox EXCEPT ![w] = {}]
      /\ UNCHANGED <<pending, refd, replies, owner, answer>>

----------------------------------------------------------------------------
(* The worker thread.                                                      *)

\* executeTask() and its reply.
Execute(w, t) ==
  /\ thread[w] = "running"
  /\ t \in inbox[w]
  /\ inbox' = [inbox EXCEPT ![w] = @ \ {t}]
  /\ replies' = [replies EXCEPT ![w] = @ \cup {t}]
  /\ UNCHANGED mainVars
  /\ UNCHANGED <<thread, owner, answer>>

\* The thread fails, for instance at its heap limit.
Fail(w) ==
  /\ thread[w] = "running"
  /\ thread' = [thread EXCEPT ![w] = "failed"]
  /\ inbox' = [inbox EXCEPT ![w] = {}]
  /\ UNCHANGED mainVars
  /\ UNCHANGED <<replies, owner, answer>>

\* The thread ends without an error event, as when it is killed.
End(w) ==
  /\ thread[w] = "running"
  /\ thread' = [thread EXCEPT ![w] = "ended"]
  /\ inbox' = [inbox EXCEPT ![w] = {}]
  /\ UNCHANGED mainVars
  /\ UNCHANGED <<replies, owner, answer>>

Next ==
  \/ \E t \in Tasks, w \in Workers : CallRefused(t, w) \/ CallPosted(t, w)
  \/ \E w \in Workers, t \in Tasks : Execute(w, t) \/ HandleReply(w, t)
  \/ \E w \in Workers : HandleError(w) \/ HandleExit(w) \/ Fail(w) \/ End(w)
  \/ IdleTimeout

\* The worker executes what is posted to it, and the event loop of the main
\* thread delivers messages and events and fires its timers.
Fairness ==
  /\ \A w \in Workers, t \in Tasks : WF_vars(Execute(w, t)) /\ WF_vars(HandleReply(w, t))
  /\ \A w \in Workers : WF_vars(HandleError(w)) /\ WF_vars(HandleExit(w))
  /\ WF_vars(IdleTimeout)

Spec == Init /\ [][Next]_vars
FairSpec == Spec /\ Fairness

----------------------------------------------------------------------------
(* Safety.                                                                 *)

\* A pending call has someone to answer it: its worker is current, and holds the
\* call, has replied to it, or has an event under way that rejects it.
PendingAnswerable ==
  \A t \in pending :
    LET w == owner[t]
    IN  /\ worker = w
        /\ \/ t \in inbox[w] \cup replies[w]
           \/ thread[w] \in {"failed", "ended"}

\* A call is settled without its own worker's reply only if that worker's thread
\* has come to its end: no late event of an earlier worker, and no idle timer,
\* costs the current one its work.
HealthyWorkKept ==
  [][\A t \in Tasks :
       answer[t] = "waiting" /\ answer'[t] # "waiting" =>
         t \in replies[owner[t]] \/ thread[owner[t]] # "running"]_vars

\* The process is held open exactly while calls are pending, and an idle worker
\* has a timer that will end it.
IdleWorkerReleased ==
  worker # None =>
    /\ worker \in refd <=> pending # {}
    /\ pending = {} => idleShutdownTimer = worker

----------------------------------------------------------------------------
(* Refinement and liveness.                                                *)

Calls == INSTANCE AsyncCalls

\* Seen by its callers, the runtime answers every call it accepts, with what its
\* input deserves, through failures of the thread.
ImplementsCalls == Calls!CallsSpec
=============================================================================
