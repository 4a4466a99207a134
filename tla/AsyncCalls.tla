----------------------------- MODULE AsyncCalls -----------------------------
(***************************************************************************)
(* What encryptAsync, decryptAsync and calculateChecksum promise their     *)
(* callers: a call is answered once, with what its input deserves, or is   *)
(* refused when made; whichever thread does the work and however often     *)
(* that thread dies.  WorkerRuntime implements this specification.         *)
(***************************************************************************)
CONSTANTS
  Tasks, \* calls
  Good   \* the calls whose input the algorithm accepts

VARIABLE answer \* call -> its state, as the caller sees it

Earned(t) == IF t \in Good THEN "value" ELSE "failure"

CallsInit == answer = [t \in Tasks |-> "unasked"]

Ask(t) ==
  /\ answer[t] = "unasked"
  /\ answer' = [answer EXCEPT ![t] = "waiting"]

Refuse(t) ==
  /\ answer[t] = "unasked"
  /\ answer' = [answer EXCEPT ![t] = "refused"]

\* Several calls may be answered in one step of the event loop.
AnswerAll(T) ==
  /\ \A t \in T : answer[t] = "waiting"
  /\ answer' = [t \in Tasks |-> IF t \in T THEN Earned(t) ELSE answer[t]]

CallsNext == (\E t \in Tasks : Ask(t) \/ Refuse(t)) \/ \E T \in SUBSET Tasks : AnswerAll(T)

CallsFairness == \A t \in Tasks : WF_answer(\E T \in SUBSET Tasks : t \in T /\ AnswerAll(T))

CallsSpec == CallsInit /\ [][CallsNext]_answer /\ CallsFairness
=============================================================================
