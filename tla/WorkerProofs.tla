---------------------------- MODULE WorkerProofs ----------------------------
(***************************************************************************)
(* Theorems about the worker runtime, for every value of its constants.    *)
(***************************************************************************)
EXTENDS WorkerRuntime, FiniteSetTheorems, TLAPS

(***************************************************************************)
(* The inductive invariant.  Beside what is to be proved it says whose a   *)
(* call is: the map of pending calls holds those whose callers wait, a     *)
(* thread only ever holds calls that were posted to it, and those that are *)
(* pending were posted to the current worker.                              *)
(***************************************************************************)
Posted ==
  \A w \in Workers : \A t \in inbox[w] \cup replies[w] : owner[t] = w /\ answer[t] # "unasked"

Waited == pending = {t \in Tasks : answer[t] = "waiting"}

Unstarted ==
  \A w \in Workers : thread[w] = "unborn" => w # worker /\ w \notin refd

Alive == worker # None => thread[worker] \in {"running", "failed", "ended"}

Held == \A t \in pending : worker # None /\ owner[t] = worker

IInv ==
  /\ TypeOK
  /\ Posted /\ Waited /\ Unstarted /\ Alive /\ Held
  /\ PendingAnswerable /\ IdleWorkerReleased

----------------------------------------------------------------------------
(* The steps of the system.                                                *)

LEMMA PendingFinite ==
  ASSUME TypeOK
  PROVE  IsFiniteSet(pending) /\ Cardinality(pending) \in Nat
BY RuntimeAssumption, FS_Subset, FS_CardinalityType DEF RuntimeAssumption, TypeOK

\* A queue that is full is not empty.
LEMMA FullQueue ==
  ASSUME TypeOK, IsFull
  PROVE  pending # {}
BY RuntimeAssumption, FS_EmptySet DEF RuntimeAssumption, IsFull

\* A worker that is ensured is the current one or has not been started before.
LEMMA Ensured ==
  ASSUME IInv, NEW w \in Workers, IsEnsured(w)
  PROVE  /\ w # None
         /\ Started(w) \in [Workers -> Threads]
         /\ worker = None => thread[w] = "unborn" /\ pending = {}
         /\ worker # None => w = worker /\ Started(w) = thread
         /\ Started(w)[w] \in {"running", "failed", "ended"}
         /\ \A v \in Workers \ {w} : Started(w)[v] = thread[v]
<1>1. w # None
  BY DEF Workers, None
<1>2. TypeOK /\ Alive /\ Held
  BY DEF IInv
<1>3. CASE worker = None
  BY <1>1, <1>2, <1>3 DEF TypeOK, IsEnsured, Unborn, Started, Threads, Held
<1>4. CASE worker # None
  BY <1>1, <1>2, <1>4 DEF TypeOK, IsEnsured, Started, Threads, Alive
<1>5. QED
  BY <1>3, <1>4

LEMMA RefusedStep ==
  ASSUME IInv, NEW t \in Tasks, NEW w \in Workers, CallRefused(t, w)
  PROVE  IInv'
<1>1. pending # {}
  BY FullQueue DEF IInv, CallRefused
<1>2. w = worker /\ worker # None /\ Started(w) = thread
  BY <1>1, Ensured DEF CallRefused
<1>3. UNCHANGED <<worker, thread, pending, idleShutdownTimer, refd, inbox, replies, owner>>
  BY <1>2 DEF CallRefused, threadVars
<1>4. TypeOK'
  BY <1>3 DEF IInv, TypeOK, CallRefused, Answers
<1>5. Waited'
  BY <1>3 DEF IInv, TypeOK, CallRefused, Waited
<1>6. Posted'
  BY <1>3 DEF IInv, TypeOK, Posted, CallRefused
<1>7. (Unstarted /\ Alive /\ Held /\ PendingAnswerable /\ IdleWorkerReleased)'
  BY <1>3 DEF IInv, Unstarted, Alive, Held, PendingAnswerable, IdleWorkerReleased
<1>8. QED
  BY <1>4, <1>5, <1>6, <1>7 DEF IInv

LEMMA PostedStep ==
  ASSUME IInv, NEW t \in Tasks, NEW w \in Workers, CallPosted(t, w)
  PROVE  IInv'
<1>1. /\ w # None /\ worker' = w /\ thread' = Started(w) /\ Started(w) \in [Workers -> Threads]
      /\ thread'[w] \in {"running", "failed", "ended"}
      /\ \A v \in Workers \ {w} : thread'[v] = thread[v]
  BY Ensured DEF CallPosted
<1>2. worker = None => thread[w] = "unborn" /\ pending = {}
  BY Ensured DEF CallPosted
<1>3. worker # None => w = worker /\ thread' = thread
  BY Ensured DEF CallPosted
<1>4. /\ t \notin pending
      /\ pending' = pending \cup {t} /\ owner'[t] = w /\ \A s \in Tasks \ {t} : owner'[s] = owner[s]
      /\ t \in inbox'[w] /\ replies' = replies
      /\ refd' = refd \cup {w}
      /\ \A v \in Workers : inbox[v] \subseteq inbox'[v] /\ inbox'[v] \subseteq inbox[v] \cup {t}
      /\ \A v \in Workers \ {w} : inbox'[v] = inbox[v]
  BY DEF IInv, TypeOK, Waited, CallPosted
<1>5. TypeOK'
  <2>1. Cardinality(pending') <= MaxPending
    <3>1. Cardinality(pending') = Cardinality(pending) + 1
      BY <1>4, PendingFinite, FS_AddElement DEF IInv
    <3>2. ~(Cardinality(pending) >= MaxPending)
      BY DEF CallPosted, IsFull
    <3>3. QED
      BY <3>1, <3>2, PendingFinite, RuntimeAssumption DEF IInv, RuntimeAssumption
  <2>2. QED
    BY <1>1, <2>1 DEF IInv, TypeOK, CallPosted, Answers, None
<1>6. Posted'
  <2>1. \A v \in Workers : \A s \in inbox'[v] \cup replies'[v] :
          s \in Tasks /\ ((s = t /\ v = w) \/ (s # t /\ s \in inbox[v] \cup replies[v]))
    BY <1>4 DEF IInv, TypeOK, Posted, CallPosted
  <2>2. answer' = [answer EXCEPT ![t] = "waiting"]
    BY DEF CallPosted
  <2>3. QED
    BY <1>4, <2>1, <2>2 DEF IInv, TypeOK, Posted
<1>7. Waited'
  BY <1>4 DEF IInv, TypeOK, Waited, CallPosted
<1>8. Unstarted'
  BY <1>1, <1>4 DEF IInv, Unstarted
<1>9. Alive' /\ IdleWorkerReleased'
  BY <1>1, <1>4 DEF Alive, IdleWorkerReleased
<1>10. Held'
  BY <1>1, <1>2, <1>3, <1>4 DEF IInv, TypeOK, Held
<1>11. PendingAnswerable'
  BY <1>1, <1>2, <1>3, <1>4 DEF IInv, TypeOK, PendingAnswerable
<1>12. QED
  BY <1>5, <1>6, <1>7, <1>8, <1>9, <1>10, <1>11 DEF IInv

LEMMA ReplyStep ==
  ASSUME IInv, NEW w \in Workers, NEW t \in Tasks, HandleReply(w, t)
  PROVE  IInv'
<1>1. /\ replies' = [replies EXCEPT ![w] = @ \ {t}]
      /\ t \in replies[w] /\ owner[t] = w
      /\ UNCHANGED <<worker, thread, inbox, owner>>
  BY DEF IInv, Posted, HandleReply
<1>2. CASE t \notin pending
  <2>1. UNCHANGED <<pending, refd, idleShutdownTimer, answer>>
    BY <1>2 DEF HandleReply
  <2>2. (TypeOK /\ Posted)'
    BY <1>1, <2>1 DEF IInv, TypeOK, Posted
  <2>3. (Waited /\ Unstarted /\ Alive /\ Held /\ IdleWorkerReleased)'
    BY <1>1, <2>1 DEF IInv, Waited, Unstarted, Alive, Held, IdleWorkerReleased
  <2>4. PendingAnswerable'
    BY <1>1, <1>2, <2>1 DEF IInv, TypeOK, PendingAnswerable
  <2>5. QED
    BY <2>2, <2>3, <2>4 DEF IInv
<1>3. CASE t \in pending
  <2> DEFINE left == pending \ {t}
  <2>1. worker = w /\ w # None
    BY <1>1, <1>3 DEF IInv, Held
  <2>2. /\ pending' = left
        /\ refd' = IF left = {} THEN refd \ {w} ELSE refd
        /\ idleShutdownTimer' = IF left = {} THEN w ELSE idleShutdownTimer
        /\ answer' = [answer EXCEPT ![t] = Compute(t)]
        /\ Compute(t) \in {"value", "failure"}
    BY <1>3, <2>1 DEF HandleReply, TimerAfterReply, Compute
  <2>3. Cardinality(left) <= MaxPending
    <3>1. Cardinality(left) <= Cardinality(pending) /\ Cardinality(left) \in Nat
      BY PendingFinite, FS_Subset, FS_CardinalityType DEF IInv
    <3>2. Cardinality(pending) <= MaxPending
      BY DEF IInv, TypeOK
    <3>3. QED
      BY <3>1, <3>2, PendingFinite, RuntimeAssumption DEF IInv, RuntimeAssumption
  <2> HIDE DEF left
  <2>4. left = pending \ {t}
    BY DEF left
  <2>5. TypeOK'
    BY <1>1, <2>1, <2>2, <2>3, <2>4 DEF IInv, TypeOK, Answers
  <2>6. Posted' /\ Waited'
    BY <1>1, <1>3, <2>2, <2>4 DEF IInv, TypeOK, Posted, Waited
  <2>7. (Unstarted /\ Alive /\ Held)'
    BY <1>1, <2>2, <2>4 DEF IInv, Unstarted, Alive, Held
  <2>8. PendingAnswerable'
    BY <1>1, <2>1, <2>2, <2>4 DEF IInv, TypeOK, PendingAnswerable
  <2>9. IdleWorkerReleased'
    BY <1>1, <1>3, <2>1, <2>2, <2>4 DEF IInv, IdleWorkerReleased
  <2>10. QED
    BY <2>5, <2>6, <2>7, <2>8, <2>9 DEF IInv
<1>4. QED
  BY <1>2, <1>3

\* Whatever the threads are left as, as long as none that runs is unknown.
LEMMA ResetStep ==
  ASSUME IInv, NEW th \in [Workers -> Threads], ResetWorker(th), UNCHANGED <<replies, owner>>,
         worker # None,
         \A v \in Workers : th[v] = "unborn" => thread[v] = "unborn"
  PROVE  IInv'
<1>1. /\ worker' = None /\ pending' = {} /\ idleShutdownTimer' = None
      /\ refd' = refd
      /\ answer' = [t \in Tasks |-> IF t \in pending THEN Compute(t) ELSE answer[t]]
      /\ inbox' = [inbox EXCEPT ![worker] = {}]
  BY DEF ResetWorker, FallBack
<1>2. /\ thread' \in [Workers -> Threads]
      /\ \A v \in Workers : thread'[v] = "unborn" => thread[v] = "unborn"
  BY DEF ResetWorker, Terminated, Threads
<1>3. \A t \in Tasks : Compute(t) \in {"value", "failure"}
  BY DEF Compute
<1>4. TypeOK'
  <2>1. Cardinality(pending') <= MaxPending
    BY <1>1, FS_EmptySet, RuntimeAssumption DEF RuntimeAssumption
  <2>2. QED
    BY <1>1, <1>2, <1>3, <2>1 DEF IInv, TypeOK, Answers
<1>5. Posted'
  BY <1>1, <1>3 DEF IInv, TypeOK, Posted
<1>6. Waited'
  BY <1>1, <1>3 DEF IInv, TypeOK, Waited
<1>7. Unstarted'
  BY <1>1, <1>2 DEF IInv, Unstarted, Workers, None
<1>8. (Alive /\ Held /\ PendingAnswerable /\ IdleWorkerReleased)'
  BY <1>1 DEF Alive, Held, PendingAnswerable, IdleWorkerReleased
<1>9. QED
  BY <1>4, <1>5, <1>6, <1>7, <1>8 DEF IInv

\* An event of an earlier worker, or of the thread itself, touches nothing but its thread.
LEMMA ThreadStep ==
  ASSUME IInv, NEW w \in Workers, NEW state \in Threads \ {"unborn"},
         thread' = [thread EXCEPT ![w] = state],
         UNCHANGED mainVars, UNCHANGED <<replies, owner, answer>>,
         \/ inbox' = inbox /\ w # worker
         \/ inbox' = [inbox EXCEPT ![w] = {}] /\ state \in {"failed", "ended"}
  PROVE  IInv'
<1>1. UNCHANGED <<worker, pending, idleShutdownTimer, refd, replies, owner, answer>>
  BY DEF mainVars
<1>2. TypeOK' /\ Posted' /\ Waited'
  BY <1>1 DEF IInv, TypeOK, Posted, Waited
<1>3. Unstarted' /\ Alive' /\ Held'
  BY <1>1 DEF IInv, TypeOK, Unstarted, Alive, Held
<1>4. PendingAnswerable'
  <2>1. CASE w = worker
    BY <1>1, <2>1 DEF IInv, TypeOK, PendingAnswerable
  <2>2. CASE w # worker
    <3>1. worker # None => inbox'[worker] = inbox[worker] /\ thread'[worker] = thread[worker]
      BY <2>2 DEF IInv, TypeOK
    <3>2. QED
      BY <1>1, <3>1 DEF IInv, Held, PendingAnswerable
  <2>3. QED
    BY <2>1, <2>2
<1>5. IdleWorkerReleased'
  BY <1>1 DEF IInv, IdleWorkerReleased
<1>6. QED
  BY <1>2, <1>3, <1>4, <1>5 DEF IInv

LEMMA ErrorStep ==
  ASSUME IInv, NEW w \in Workers, HandleError(w)
  PROVE  IInv'
<1> DEFINE th == [thread EXCEPT ![w] = "ended"]
<1>1. th \in [Workers -> Threads] /\ \A v \in Workers : th[v] = "unborn" => thread[v] = "unborn"
  BY DEF IInv, TypeOK, Threads
<1>2. CASE worker = w
  <2>1. ResetWorker(th) /\ UNCHANGED <<replies, owner>> /\ worker # None
    BY <1>2 DEF HandleError, Concerns, Workers, None
  <2>2. QED
    BY <1>1, <2>1, ResetStep
<1>3. CASE worker # w
  BY <1>3, ThreadStep DEF HandleError, Concerns, Threads
<1>4. QED
  BY <1>2, <1>3

LEMMA ExitStep ==
  ASSUME IInv, NEW w \in Workers, HandleExit(w)
  PROVE  IInv'
<1> DEFINE th == [thread EXCEPT ![w] = "gone"]
<1>1. th \in [Workers -> Threads] /\ \A v \in Workers : th[v] = "unborn" => thread[v] = "unborn"
  BY DEF IInv, TypeOK, Threads
<1>2. CASE worker = w
  <2>1. ResetWorker(th) /\ UNCHANGED <<replies, owner>> /\ worker # None
    BY <1>2 DEF HandleExit, Concerns, Workers, None
  <2>2. QED
    BY <1>1, <2>1, ResetStep
<1>3. CASE worker # w
  BY <1>3, ThreadStep DEF HandleExit, Concerns, Threads
<1>4. QED
  BY <1>2, <1>3

LEMMA IdleStep ==
  ASSUME IInv, IdleTimeout
  PROVE  IInv'
<1> DEFINE w == idleShutdownTimer
<1>1. /\ w \in Workers /\ idleShutdownTimer' = None
      /\ UNCHANGED <<pending, refd, replies, owner, answer>>
  BY DEF IInv, TypeOK, IdleTimeout
<1>2. CASE pending # {} \/ worker # w
  <2>1. UNCHANGED <<worker, thread, inbox>>
    BY <1>2 DEF IdleTimeout
  <2>2. QED
    BY <1>1, <1>2, <2>1
       DEF IInv, TypeOK, Posted, Waited, Unstarted, Alive, Held, PendingAnswerable, IdleWorkerReleased
<1>3. CASE pending = {} /\ worker = w
  <2>1. /\ worker' = None /\ inbox' = [inbox EXCEPT ![w] = {}]
        /\ thread' \in [Workers -> Threads]
        /\ \A v \in Workers : thread'[v] = "unborn" => thread[v] = "unborn"
    BY <1>3 DEF IdleTimeout, Terminated, Threads, IInv, TypeOK
  <2>2. TypeOK' /\ Posted' /\ Waited'
    BY <1>1, <2>1 DEF IInv, TypeOK, Posted, Waited
  <2>3. Unstarted'
    BY <1>1, <2>1 DEF IInv, Unstarted, Workers, None
  <2>4. (Alive /\ Held /\ PendingAnswerable /\ IdleWorkerReleased)'
    BY <1>1, <1>3, <2>1 DEF Alive, Held, PendingAnswerable, IdleWorkerReleased
  <2>5. QED
    BY <2>2, <2>3, <2>4 DEF IInv
<1>4. QED
  BY <1>2, <1>3

LEMMA ExecuteStep ==
  ASSUME IInv, NEW w \in Workers, NEW t \in Tasks, Execute(w, t)
  PROVE  IInv'
<1>1. /\ t \in inbox[w]
      /\ inbox' = [inbox EXCEPT ![w] = @ \ {t}] /\ replies' = [replies EXCEPT ![w] = @ \cup {t}]
      /\ UNCHANGED <<worker, pending, idleShutdownTimer, refd, thread, owner, answer>>
  BY DEF Execute, mainVars
<1>2. TypeOK' /\ Waited'
  BY <1>1 DEF IInv, TypeOK, Waited
<1>3. Posted'
  BY <1>1 DEF IInv, TypeOK, Posted
<1>4. (Unstarted /\ Alive /\ Held /\ IdleWorkerReleased)'
  BY <1>1 DEF IInv, Unstarted, Alive, Held, IdleWorkerReleased
<1>5. PendingAnswerable'
  BY <1>1 DEF IInv, TypeOK, PendingAnswerable
<1>6. QED
  BY <1>2, <1>3, <1>4, <1>5 DEF IInv

LEMMA IInvStep ==
  ASSUME IInv, [Next]_vars
  PROVE  IInv'
<1>1. CASE UNCHANGED vars
  BY <1>1 DEF vars, IInv, TypeOK, Posted, Waited, Unstarted, Alive, Held, PendingAnswerable,
              IdleWorkerReleased
<1>2. ASSUME NEW w \in Workers, Fail(w) \/ End(w) PROVE IInv'
  BY <1>2, ThreadStep DEF Fail, End, Threads
<1>3. QED
  BY <1>1, <1>2, RefusedStep, PostedStep, ReplyStep, ErrorStep, ExitStep, IdleStep, ExecuteStep
     DEF Next

LEMMA IInvCorrect == Spec => []IInv
<1>1. Init => IInv
  BY RuntimeAssumption, FS_EmptySet
     DEF RuntimeAssumption, Init, IInv, TypeOK, Threads, Answers, Posted, Waited, Unstarted, Alive,
         Held, PendingAnswerable, IdleWorkerReleased, None, Workers
<1>2. IInv /\ [Next]_vars => IInv'
  BY IInvStep
<1>3. QED
  BY <1>1, <1>2, PTL DEF Spec

----------------------------------------------------------------------------
(* What follows.                                                           *)

\* The worker runtime keeps its tables in order; the map of pending calls never
\* exceeds MAX_PENDING_TASKS.
THEOREM Types == Spec => []TypeOK
BY IInvCorrect, PTL DEF IInv

\* A pending call is always held by the current worker, answered by it, or about to
\* be rejected by an event of it that is on its way (worker-runtime.js, pending).
THEOREM Answerable == Spec => []PendingAnswerable
BY IInvCorrect, PTL DEF IInv

\* The process is kept alive by a worker exactly while calls are pending, and an idle
\* worker has its timer running (ref, unref and scheduleIdleShutdown).
THEOREM Released == Spec => []IdleWorkerReleased
BY IInvCorrect, PTL DEF IInv

\* Whoever answers a call that waits has its worker's reply, or that worker's thread
\* has come to its end.
LEMMA HealthyStep ==
  ASSUME IInv, [Next]_vars, NEW t \in Tasks, answer[t] = "waiting", answer'[t] # "waiting"
  PROVE  t \in replies[owner[t]] \/ thread[owner[t]] # "running"
<1>1. t \in pending /\ owner[t] = worker
  BY DEF IInv, Waited, Held
<1>2. ASSUME NEW w \in Workers, NEW s \in Tasks, HandleReply(w, s)
      PROVE  t \in replies[owner[t]]
  <2>1. s = t
    BY <1>2 DEF HandleReply, IInv, TypeOK
  <2>2. QED
    BY <1>2, <2>1 DEF HandleReply, IInv, Posted
<1>3. ASSUME NEW w \in Workers, HandleError(w) \/ HandleExit(w)
      PROVE  thread[owner[t]] # "running"
  BY <1>1, <1>3 DEF HandleError, HandleExit, Concerns
<1>4. ASSUME NEW w \in Workers, NEW s \in Tasks, CallRefused(s, w) \/ CallPosted(s, w)
      PROVE  FALSE
  BY <1>4 DEF CallRefused, CallPosted, IInv, TypeOK
<1>5. ~UNCHANGED answer
  OBVIOUS
<1>6. QED
  BY <1>2, <1>3, <1>4, <1>5 DEF Next, Execute, Fail, End, IdleTimeout, vars

\* No late event of an earlier worker and no idle timer costs the current worker its
\* work: the handlers of worker-runtime.js know for whom they were registered.
THEOREM HealthyWork == Spec => HealthyWorkKept
<1>1. IInv /\ [Next]_vars =>
        [\A t \in Tasks :
           answer[t] = "waiting" /\ answer'[t] # "waiting" =>
             t \in replies[owner[t]] \/ thread[owner[t]] # "running"]_vars
  BY HealthyStep
<1>2. QED
  BY <1>1, IInvCorrect, PTL DEF Spec, HealthyWorkKept

\* A step of the runtime is one its callers understand, or none that they see.
LEMMA CallsStep ==
  ASSUME IInv, [Next]_vars
  PROVE  [Calls!CallsNext]_answer
<1>1. ASSUME NEW T \in SUBSET pending, answer' = FallBack(T)
      PROVE  Calls!CallsNext
  <2>1. \A t \in Tasks : Compute(t) = Calls!Earned(t)
    BY DEF Compute, Calls!Earned
  <2>2. Calls!AnswerAll(T)
    BY <1>1, <2>1 DEF IInv, TypeOK, Waited, FallBack, Calls!AnswerAll
  <2>3. QED
    BY <2>2 DEF Calls!CallsNext, IInv, TypeOK
<1>2. ASSUME NEW w \in Workers, NEW t \in Tasks, HandleReply(w, t)
      PROVE  [Calls!CallsNext]_answer
  <2>1. CASE t \in pending
    <3>1. answer' = FallBack({t})
      BY <1>2, <2>1 DEF HandleReply, FallBack, IInv, TypeOK
    <3>2. QED
      BY <1>1, <2>1, <3>1
  <2>2. CASE t \notin pending
    BY <1>2, <2>2 DEF HandleReply
  <2>3. QED
    BY <2>1, <2>2
<1>3. ASSUME NEW w \in Workers, HandleError(w) \/ HandleExit(w)
      PROVE  [Calls!CallsNext]_answer
  BY <1>1, <1>3 DEF HandleError, HandleExit, ResetWorker
<1>4. ASSUME NEW w \in Workers, NEW t \in Tasks, CallRefused(t, w) \/ CallPosted(t, w)
      PROVE  Calls!CallsNext
  BY <1>4 DEF CallRefused, CallPosted, Calls!CallsNext, Calls!Ask, Calls!Refuse
<1>5. QED
  BY <1>2, <1>3, <1>4 DEF Next, Execute, Fail, End, IdleTimeout, vars

\* Seen by its callers, the runtime takes no step that AsyncCalls does not take: a call
\* is answered once, with what its input deserves, through every failure of a thread.
\* ImplementsCalls adds to this the fairness, which is left to the run.
THEOREM CallsImplemented == Spec => Calls!CallsInit /\ [][Calls!CallsNext]_answer
<1>1. Init => Calls!CallsInit
  BY DEF Init, Calls!CallsInit
<1>2. IInv /\ [Next]_vars => [Calls!CallsNext]_answer
  BY CallsStep
<1>3. QED
  BY <1>1, <1>2, IInvCorrect, PTL DEF Spec
=============================================================================
