--------------------------- MODULE BrokerDefense ---------------------------
(***************************************************************************)
(* The broker's active defence (src/src/server.js): every malformed or     *)
(* unauthenticated request is counted against its sender, an address that  *)
(* reaches the threshold is banned from every route, and the periodic      *)
(* prune forgets old violations and old bans and then cuts either table    *)
(* to its size limit, oldest insertion first (a JavaScript Map iterates in *)
(* insertion order, and setting an existing key keeps its place).          *)
(*                                                                         *)
(* Times are whole units of the broker's clock, not milliseconds; keys     *)
(* inserted in one unit are therefore dropped in any order.                *)
(***************************************************************************)
EXTENDS Integers, FiniteSets

CONSTANTS
  Ips,                \* client addresses, as Express reports them in req.ip
  ViolationThreshold, \* VIOLATION_THRESHOLD
  MaxViolations,      \* MAX_VIOLATIONS, the limit of either table
  ViolationTTL,       \* VIOLATION_TTL_MS
  StartTime,          \* the time at which the broker starts
  MaxClock,           \* bound: the last time the model reaches
  MaxCount            \* bound: violation counts are told apart only up to it

ASSUME DefenseAssumption ==
  /\ IsFiniteSet(Ips)
  /\ ViolationThreshold \in Nat \ {0}
  /\ MaxViolations \in Nat
  /\ ViolationTTL \in Nat
  /\ StartTime \in Nat
  /\ MaxClock \in Nat
  /\ MaxCount \in Nat
  /\ MaxCount >= ViolationThreshold

VARIABLES
  clock,         \* Date.now()
  ipViolations,  \* Map ip -> { count, lastSeen }; since: when the key was inserted
  blacklistedIPs \* Map ip -> bannedAt, the time the key was inserted

defenseVars == <<clock, ipViolations, blacklistedIPs>>

Violation == [count : Nat \ {0}, lastSeen : Nat, since : Nat]

DefenseTypeOK ==
  /\ clock \in Nat
  /\ DOMAIN ipViolations \subseteq Ips
  /\ \A ip \in DOMAIN ipViolations : ipViolations[ip] \in Violation
  /\ DOMAIN blacklistedIPs \subseteq Ips
  /\ \A ip \in DOMAIN blacklistedIPs : blacklistedIPs[ip] \in Nat

----------------------------------------------------------------------------
(* Maps are functions whose domain is the set of keys present.             *)

EmptyMap == [k \in {} |-> k]

\* m.set(k, v)
Put(m, k, v) == [j \in DOMAIN m \cup {k} |-> IF j = k THEN v ELSE m[j]]

\* m without the keys outside S.
Keep(m, S) == [k \in DOMAIN m \cap S |-> m[k]]

\* S is what "while (size > limit) delete(first key)" leaves of the keys of m
\* when age[k] is the insertion time of key k.
LeavesNewest(S, keys, age, limit) ==
  /\ S \subseteq keys
  /\ IF Cardinality(keys) <= limit THEN S = keys ELSE Cardinality(S) = limit
  /\ \A k \in keys \ S, j \in S : age[k] <= age[j]

----------------------------------------------------------------------------
DefenseInit ==
  /\ clock = StartTime
  /\ ipViolations = EmptyMap
  /\ blacklistedIPs = EmptyMap

\* The middleware in front of every route: a banned address gets 403.
Admitted(ip) == ip \notin DOMAIN blacklistedIPs

\* The count the next violation of ip brings it to.
\* (Counts from MaxCount up behave alike: the code only asks for the threshold.)
NextCount(ip) ==
  IF ip \notin DOMAIN ipViolations THEN 1
  ELSE IF ipViolations[ip].count < MaxCount THEN ipViolations[ip].count + 1 ELSE MaxCount

\* recordViolation(req)
RecordViolation(ip) ==
  /\ ipViolations' = Put(ipViolations, ip,
       [count |-> NextCount(ip), lastSeen |-> clock,
        since |-> IF ip \in DOMAIN ipViolations THEN ipViolations[ip].since ELSE clock])
  /\ blacklistedIPs' = IF NextCount(ip) >= ViolationThreshold
                       THEN Put(blacklistedIPs, ip, clock)
                       ELSE blacklistedIPs

\* Mutant: a record that has just reached the limit counts as too old.
FreshViolationsEarly == {ip \in DOMAIN ipViolations : clock - ipViolations[ip].lastSeen < ViolationTTL}

FreshViolations == {ip \in DOMAIN ipViolations : clock - ipViolations[ip].lastSeen <= ViolationTTL}
FreshBans == {ip \in DOMAIN blacklistedIPs : clock - blacklistedIPs[ip] <= ViolationTTL}

Since == [ip \in DOMAIN ipViolations |-> ipViolations[ip].since]

\* The second half of pruneExpired(): age first, then the size limits.
PruneDefense ==
  /\ \E S \in SUBSET FreshViolations :
       /\ LeavesNewest(S, FreshViolations, Since, MaxViolations)
       /\ ipViolations' = Keep(ipViolations, S)
  /\ \E S \in SUBSET FreshBans :
       /\ LeavesNewest(S, FreshBans, blacklistedIPs, MaxViolations)
       /\ blacklistedIPs' = Keep(blacklistedIPs, S)

\* The broker process ends and is started again: nothing was persisted.
ForgetDefense ==
  /\ ipViolations' = EmptyMap
  /\ blacklistedIPs' = EmptyMap

AdvanceClock ==
  /\ clock < MaxClock
  /\ clock' = clock + 1

----------------------------------------------------------------------------
(* Properties of the defence, checked in the specification of the broker.  *)

\* Every ban rests on the offender's own record: the count that earned it and
\* the time of the last violation are still there, so that both are forgotten
\* together; and nobody over the threshold is at large.  It relies on the ban
\* middleware (a banned address adds no violation), on both tables ageing by the
\* same limit, and fails only once a table has overflowed.
BansMatchViolations ==
  Cardinality(Ips) <= MaxViolations =>
    /\ \A ip \in DOMAIN ipViolations :
         ipViolations[ip].count >= ViolationThreshold => ip \in DOMAIN blacklistedIPs
    /\ \A ip \in DOMAIN blacklistedIPs :
         /\ ip \in DOMAIN ipViolations
         /\ ipViolations[ip].count >= ViolationThreshold
         /\ ipViolations[ip].lastSeen = blacklistedIPs[ip]
=============================================================================
