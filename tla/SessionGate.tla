---------------------------- MODULE SessionGate ----------------------------
(***************************************************************************)
(* What the broker promises the two ends of a session, whatever it does    *)
(* about time, memory and bookkeeping: a payload is served only while its  *)
(* session is open, with a final verdict of the host where the session is  *)
(* gated, at most MaxServes times, and once if the session is one-time.    *)
(* What the host attached to a request is shown, as often as one asks, once *)
(* it approved that request.  Broker implements this specification.        *)
(***************************************************************************)
EXTENDS Naturals

CONSTANTS
  Uids,      \* session ids
  Ids,       \* ids of approval requests, in the order they are issued
  MaxServes  \* how often one session may be served

VARIABLES
  sessions, \* open sessions: uid -> [gated, once, verdicts]
  lastId,   \* the last id issued
  served    \* uid -> of its current or last session: deliveries, those made one-time,
            \* and the requests whose attached payload was handed out

gateVars == <<sessions, lastId, served>>

Verdicts == {"pending", "approved", "denied"}

Unserved == [total |-> 0, once |-> 0, shown |-> {}]

GateInit ==
  /\ sessions = [uid \in {} |-> uid]
  /\ lastId = 0
  /\ served = [uid \in Uids |-> Unserved]

With(m, k, v) == [j \in DOMAIN m \cup {k} |-> IF j = k THEN v ELSE m[j]]
Without(m, S) == [k \in DOMAIN m \ S |-> m[k]]

Open(uid, gated, once) ==
  /\ uid \notin DOMAIN sessions
  /\ sessions' = With(sessions, uid, [gated |-> gated, once |-> once, verdicts |-> [i \in {} |-> i]])
  /\ served' = [served EXCEPT ![uid] = Unserved]
  /\ UNCHANGED lastId

\* The host renews an open session; verdicts and deliveries carry over.
Renew(uid, gated, once) ==
  /\ uid \in DOMAIN sessions
  /\ sessions' = [sessions EXCEPT ![uid].gated = gated, ![uid].once = once]
  /\ UNCHANGED <<lastId, served>>

\* A request for consent gets a new id; older requests may be forgotten for it.
Ask(uid, forgotten) ==
  /\ uid \in DOMAIN sessions
  /\ lastId' = lastId + 1
  /\ LET verdict == IF sessions[uid].gated THEN "pending" ELSE "approved"
     IN  sessions' = [sessions EXCEPT ![uid].verdicts =
                        Without(With(@, lastId + 1, verdict), forgotten)]
  /\ UNCHANGED served

\* A verdict is given once.
Rule(uid, id, verdict) ==
  /\ uid \in DOMAIN sessions
  /\ id \in DOMAIN sessions[uid].verdicts
  /\ sessions[uid].verdicts[id] = "pending"
  /\ sessions' = [sessions EXCEPT ![uid].verdicts[id] = verdict]
  /\ UNCHANGED <<lastId, served>>

Consent(uid) ==
  sessions[uid].gated =>
    \E id \in DOMAIN sessions[uid].verdicts : sessions[uid].verdicts[id] = "approved"

Serve(uid) ==
  /\ uid \in DOMAIN sessions
  /\ Consent(uid)
  /\ served[uid].total < MaxServes
  /\ sessions[uid].once => served[uid].total = 0
  /\ IF sessions[uid].once
     THEN /\ sessions' = Without(sessions, {uid})
          /\ served' = [served EXCEPT ![uid].total = @ + 1, ![uid].once = @ + 1]
     ELSE /\ served' = [served EXCEPT ![uid].total = @ + 1]
          /\ UNCHANGED sessions
  /\ UNCHANGED lastId

\* What was attached to an approved request is handed to whoever knows its id.
Show(uid, id) ==
  /\ uid \in DOMAIN sessions
  /\ id \in DOMAIN sessions[uid].verdicts
  /\ sessions[uid].verdicts[id] = "approved"
  /\ served' = [served EXCEPT ![uid].shown = @ \cup {id}]
  /\ UNCHANGED <<sessions, lastId>>

\* Sessions end and requests are forgotten: revocation, kicks, age, a restart.
Forget(kept, keptIds) ==
  /\ kept \subseteq DOMAIN sessions
  /\ sessions' = [uid \in kept |->
       [sessions[uid] EXCEPT !.verdicts = [id \in keptIds \cap DOMAIN @ |-> @[id]]]]
  /\ UNCHANGED <<lastId, served>>

\* An id is used for something that is not a request for consent.
SkipId ==
  /\ lastId' = lastId + 1
  /\ UNCHANGED <<sessions, served>>

GateNext ==
  \/ \E uid \in Uids, gated, once \in BOOLEAN : Open(uid, gated, once) \/ Renew(uid, gated, once)
  \/ \E uid \in Uids, forgotten \in SUBSET Ids : Ask(uid, forgotten)
  \/ \E uid \in Uids, id \in Ids, verdict \in {"approved", "denied"} : Rule(uid, id, verdict)
  \/ \E uid \in Uids : Serve(uid)
  \/ \E uid \in Uids, id \in Ids : Show(uid, id)
  \/ \E kept \in SUBSET Uids, keptIds \in SUBSET Ids : Forget(kept, keptIds)
  \/ SkipId

GateSpec == GateInit /\ [][GateNext]_gateVars
=============================================================================
