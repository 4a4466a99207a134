------------------------------- MODULE Broker -------------------------------
(***************************************************************************)
(* The broker (src/src/server.js): an in-memory store of encrypted session *)
(* records, one per UID, behind a REST interface.  Node runs one handler   *)
(* at a time and none of them awaits, so each request is one step.         *)
(*                                                                         *)
(* Abstractions: a payload is its size in bytes, which the broker counts;  *)
(* 0 stands for one that fails validation.  The random ids of approval     *)
(* requests, and the arrival order of approvals and telemetry, are one     *)
(* increasing serial number.  A request that is refused without changing   *)
(* anything is a stutter and has no disjunct of its own.                   *)
(***************************************************************************)
EXTENDS BrokerDefense

CONSTANTS
  Uids, Tokens, NoToken,   \* session ids; host tokens; no (well-formed) token
  Sizes,                   \* sizes of well-formed payloads
  Minutes, NaN,            \* what parseInt(body.minutes) may yield; its failure
  Unparsable,              \* whether a caller may send minutes that do not parse
  Everyone,                \* /kick without a clientIp
  TTL, MinRemaining,       \* TTL_MS; the 60 seconds /extend leaves at least
  MaxAdjust,               \* the 1440 minutes /extend is clamped to
  ApprovalTTL, TelemetryTTL,
  MaxUids, MaxResolves, MaxApprovals, MaxClients, \* MAX_..._PER_UID and MAX_UIDS
  MaxBytes,                \* MAX_BUFFERED_PAYLOAD_BYTES
  MaxSerial                \* bound: approval requests and telemetry records ever made

ASSUME BrokerAssumption ==
  /\ IsFiniteSet(Uids)
  /\ NoToken \notin Tokens
  /\ Sizes \subseteq Nat \ {0}
  /\ Minutes \subseteq Int
  /\ Unparsable \in BOOLEAN
  /\ NaN \notin Int
  /\ Everyone \notin Ips
  /\ {TTL, ApprovalTTL, TelemetryTTL, MaxAdjust} \subseteq Nat
  /\ {MaxUids, MaxResolves, MaxApprovals, MaxClients} \subseteq Nat \ {0}
  /\ {MaxBytes, MaxSerial} \subseteq Nat
  /\ MinRemaining \in 1..TTL
  /\ TTL <= StartTime

VARIABLES
  store,    \* Map uid -> entry
  buffered, \* bufferedPayloadBytes
  serial,   \* the last serial number given to an approval request or a telemetry record
  uses      \* history, since the record of a UID was created: its deliveries by
            \* /resolve, those made while it was one-time, and the requests whose
            \* attached payload /approval-status has handed out

storeVars == <<store, buffered, serial, uses>>
vars == <<clock, ipViolations, blacklistedIPs, store, buffered, serial, uses>>

Malformed == 0
NoBody == -1
NoPayload == 0

Approval == [size : Nat, ip : Ips, status : {"pending", "approved", "denied"},
             createdAt : Nat, approvedPayload : Nat]
Client == [size : Nat, seenAt : Nat]

\* An entry whose clients and approvals lists hold the serial numbers C and A.
Entry(C, A) ==
  [size : Nat, approvalRequired : BOOLEAN, oneTime : BOOLEAN, createdAt : Nat \cup {NaN},
   clients : [C -> Client], approvals : [A -> Approval],
   hostToken : Tokens, resolveCount : Nat, kickedIps : SUBSET Ips]

\* An entry whose lists hold serial numbers up to n.
IsEntry(e, n) ==
  /\ e \in Entry(DOMAIN e.clients, DOMAIN e.approvals)
  /\ DOMAIN e.clients \subseteq 1..n
  /\ DOMAIN e.approvals \subseteq 1..n

StoreTypeOK ==
  /\ serial \in Nat
  /\ buffered \in Int
  /\ DOMAIN store \subseteq Uids
  /\ \A uid \in DOMAIN store : IsEntry(store[uid], serial)
  /\ uses \in [Uids -> [total : Nat, once : Nat, shown : SUBSET Nat]]

TypeOK == DefenseTypeOK /\ StoreTypeOK

----------------------------------------------------------------------------
(* Counting bytes.                                                         *)

Max0(n) == IF n < 0 THEN 0 ELSE n
Lesser(m, n) == IF m < n THEN m ELSE n
Greater(m, n) == IF m < n THEN n ELSE m

\* The sum of the values of w, as the number of units it weighs.
Total(w) == Cardinality(UNION {{x} \X (1..w[x]) : x \in DOMAIN w})

\* encryptedPayloadBytes of an approval request, with the payload the host attached.
ApprovalBytes(a) == a.size + a.approvedPayload

ClientSizes(e) == [i \in DOMAIN e.clients |-> e.clients[i].size]
ApprovalSizes(e) == [i \in DOMAIN e.approvals |-> ApprovalBytes(e.approvals[i])]

EntryBytes(e) == e.size + Total(ClientSizes(e)) + Total(ApprovalSizes(e))

\* The bytes really held, which the counter is meant to track.
StoredBytes == Total([uid \in DOMAIN store |-> EntryBytes(store[uid])])

Fits(bytes) == bytes <= MaxBytes

----------------------------------------------------------------------------
(* Helpers on records.                                                     *)

Expired(e) == e.createdAt # NaN /\ clock - e.createdAt > TTL

Owns(tok, uid) == tok = store[uid].hostToken

DeleteStoreEntry(uid) ==
  /\ store' = Keep(store, DOMAIN store \ {uid})
  /\ buffered' = Max0(buffered - EntryBytes(store[uid]))

Oldest(f) == CHOOSE i \in DOMAIN f : \A j \in DOMAIN f : i <= j

\* push(), then shift() if the list is now over its limit.
PushBounded(f, v, limit) ==
  LET pushed == Put(f, serial + 1, v)
  IN  IF Cardinality(DOMAIN pushed) > limit
      THEN Keep(pushed, DOMAIN pushed \ {Oldest(pushed)}) ELSE pushed

\* slice(-limit)
Newest(f, limit) ==
  Keep(f, {i \in DOMAIN f : Cardinality({j \in DOMAIN f : j > i}) < limit})

\* An accepted request changes nothing of the defence, a violation nothing of the store.
NoViolation == UNCHANGED defenseVars
Violates(ip) == RecordViolation(ip) /\ UNCHANGED clock /\ UNCHANGED storeVars

----------------------------------------------------------------------------
Unused == [total |-> 0, once |-> 0, shown |-> {}]

Init ==
  /\ DefenseInit
  /\ store = EmptyMap
  /\ buffered = 0
  /\ serial = 0
  /\ uses = [uid \in Uids |-> Unused]

NewEntry(tok, size, gated, once) ==
  [size |-> size, approvalRequired |-> gated, oneTime |-> once, createdAt |-> clock,
   clients |-> EmptyMap, approvals |-> EmptyMap, hostToken |-> tok,
   resolveCount |-> 0, kickedIps |-> {}]

\* A re-registration replaces the payload and the two flags; the age of the
\* record, its approvals and its resolve count stay.
Refreshed(e, size, gated, once) ==
  [e EXCEPT !.size = size, !.approvalRequired = gated, !.oneTime = once]

\* Mutant: credits the bytes of the whole record, not those of the blob replaced.
ReplacedWhole(uid) == IF uid \in DOMAIN store THEN EntryBytes(store[uid]) ELSE 0

\* The size of the blob a registration of uid would replace.
ReplacedSize(uid) == IF uid \in DOMAIN store THEN store[uid].size ELSE 0

\* The token of a new record: the caller's, or one the broker makes.
NewToken(tok) ==
  IF tok \in Tokens THEN {tok} ELSE Tokens \ {store[uid].hostToken : uid \in DOMAIN store}

RegisterNew(uid, tok, size, gated, once) ==
  /\ \E t \in NewToken(tok) : store' = Put(store, uid, NewEntry(t, size, gated, once))
  /\ buffered' = buffered + size
  /\ uses' = [uses EXCEPT ![uid] = Unused]

\* Mutant: takes the whole record out of the counter and puts the blob back.
RegisterAgainWhole(uid, size, gated, once) ==
  /\ store' = [store EXCEPT ![uid] = Refreshed(store[uid], size, gated, once)]
  /\ buffered' = Max0(buffered - EntryBytes(store[uid]) + size)
  /\ UNCHANGED uses

RegisterAgain(uid, size, gated, once) ==
  /\ store' = [store EXCEPT ![uid] = Refreshed(store[uid], size, gated, once)]
  /\ buffered' = Max0(buffered - store[uid].size + size)
  /\ UNCHANGED uses

\* POST /register
Register(ip, uid, tok, size, gated, once) ==
  /\ Admitted(ip)
  /\ IF size = Malformed THEN Violates(ip)
     ELSE
       /\ uid \in DOMAIN store \/ Cardinality(DOMAIN store) < MaxUids
       /\ Fits(buffered - ReplacedSize(uid) + size)
       /\ \/ /\ uid \notin DOMAIN store
             /\ RegisterNew(uid, tok, size, gated, once)
             /\ NoViolation
             /\ UNCHANGED serial
          \/ /\ uid \in DOMAIN store
             /\ Owns(tok, uid)
             /\ RegisterAgain(uid, size, gated, once)
             /\ NoViolation
             /\ UNCHANGED serial
          \/ /\ uid \in DOMAIN store
             /\ ~Owns(tok, uid)
             /\ Violates(ip)

\* Conditions under which /resolve deletes the record instead of serving it:
\* past its TTL, a one-time record already served, or the resolve limit reached.
Unservable(e) ==
  \/ Expired(e)
  \/ e.oneTime /\ e.resolveCount > 0
  \/ e.resolveCount >= MaxResolves

\* An approval request the host may still decide.
Undecided(a) == a.status = "pending"

\* Mutant: a request still pending is good enough.
ConsentedUnlessDenied(e, rid) ==
  e.approvalRequired => rid \in DOMAIN e.approvals /\ e.approvals[rid].status # "denied"

\* The host's consent, where the record demands it.
Consented(e, rid) ==
  e.approvalRequired => rid \in DOMAIN e.approvals /\ e.approvals[rid].status = "approved"

\* Mutant: a one-time record is left for the prune to collect.
DeliverUncounted(uid) ==
  /\ store' = IF store[uid].oneTime THEN store ELSE [store EXCEPT ![uid].resolveCount = @ + 1]
  /\ uses' = [uses EXCEPT ![uid].total = @ + 1,
                          ![uid].once = IF store[uid].oneTime THEN @ + 1 ELSE @]
  /\ UNCHANGED buffered

\* Serving a record counts the resolve, and consumes a one-time record.
Deliver(uid) ==
  /\ IF store[uid].oneTime
     THEN DeleteStoreEntry(uid)
     ELSE /\ store' = [store EXCEPT ![uid].resolveCount = @ + 1]
          /\ UNCHANGED buffered
  /\ uses' = [uses EXCEPT ![uid].total = @ + 1,
                          ![uid].once = IF store[uid].oneTime THEN @ + 1 ELSE @]

\* GET /resolve/:uid?requestId=rid
Resolve(ip, uid, rid) ==
  /\ Admitted(ip)
  /\ uid \in DOMAIN store
  /\ \/ /\ Unservable(store[uid])
        /\ DeleteStoreEntry(uid)
        /\ UNCHANGED uses
     \/ /\ ~Unservable(store[uid])
        /\ Consented(store[uid], rid)
        /\ Deliver(uid)
  /\ NoViolation
  /\ UNCHANGED serial

NewApproval(e, ip, size) ==
  [size |-> size, ip |-> ip, status |-> IF e.approvalRequired THEN "pending" ELSE "approved",
   createdAt |-> clock, approvedPayload |-> NoPayload]

\* Mutant: a list at its limit is not yet seen as full.
EvictedBytesLate(sizes, limit) ==
  IF Cardinality(DOMAIN sizes) > limit THEN sizes[Oldest(sizes)] ELSE 0

\* The bytes a push onto a full list frees by evicting its oldest record.
EvictedBytes(sizes, limit) ==
  IF Cardinality(DOMAIN sizes) >= limit THEN sizes[Oldest(sizes)] ELSE 0

\* POST /approval-request/:uid
RequestApproval(ip, uid, size) ==
  /\ Admitted(ip)
  /\ uid \in DOMAIN store
  /\ IF size = Malformed THEN Violates(ip)
     ELSE LET e == store[uid]
              freed == EvictedBytes(ApprovalSizes(e), MaxApprovals)
          IN  /\ serial < MaxSerial
              /\ Fits(buffered - freed + size)
              /\ store' = [store EXCEPT ![uid].approvals =
                             PushBounded(@, NewApproval(e, ip, size), MaxApprovals)]
              /\ buffered' = buffered + size - freed
              /\ serial' = serial + 1
              /\ NoViolation
              /\ UNCHANGED uses

\* POST /client-info/:uid
PushTelemetry(ip, uid, size) ==
  /\ Admitted(ip)
  /\ uid \in DOMAIN store
  /\ IF size = Malformed THEN Violates(ip)
     ELSE LET e == store[uid]
              freed == EvictedBytes(ClientSizes(e), MaxClients)
          IN  /\ serial < MaxSerial
              /\ Fits(buffered - freed + size)
              /\ store' = [store EXCEPT ![uid].clients =
                             PushBounded(@, [size |-> size, seenAt |-> clock], MaxClients)]
              /\ buffered' = buffered + size - freed
              /\ serial' = serial + 1
              /\ NoViolation
              /\ UNCHANGED uses

\* GET /approval-requests/:uid and GET /clients/:uid only read, but a wrong
\* host token is a violation.
ListForHost(ip, uid, tok) ==
  /\ Admitted(ip)
  /\ uid \in DOMAIN store
  /\ ~Owns(tok, uid)
  /\ Violates(ip)

\* The status is written before the body is looked at, so a malformed body is
\* answered 400 and counted while the request stays approved.
Decide(ip, uid, rid, tok, decision, body) ==
  /\ Admitted(ip)
  /\ uid \in DOMAIN store
  /\ IF ~Owns(tok, uid) THEN Violates(ip)
     ELSE LET attached == IF decision = "approved" /\ body \in Sizes THEN body ELSE NoPayload
          IN  /\ rid \in DOMAIN store[uid].approvals
              /\ Undecided(store[uid].approvals[rid])
              /\ store' = [store EXCEPT ![uid].approvals[rid].status = decision,
                                        ![uid].approvals[rid].approvedPayload = attached]
              /\ buffered' = buffered + attached
              /\ IF decision = "approved" /\ body = Malformed
                 THEN RecordViolation(ip) /\ UNCHANGED clock
                 ELSE NoViolation
              /\ UNCHANGED <<serial, uses>>

\* GET /approval-status/:uid/:requestId hands out what the host attached to a
\* request it approved: it looks at neither the age of the record nor the resolve
\* count, and consumes nothing.  What else it answers changes nothing.
ShowStatus(ip, uid, rid) ==
  /\ Admitted(ip)
  /\ uid \in DOMAIN store
  /\ rid \in DOMAIN store[uid].approvals
  /\ store[uid].approvals[rid].status = "approved"
  /\ store[uid].approvals[rid].approvedPayload # NoPayload
  /\ uses' = [uses EXCEPT ![uid].shown = @ \cup {rid}]
  /\ NoViolation
  /\ UNCHANGED <<store, buffered, serial>>

\* POST /kick/:uid.  Kicking one address drops its approvals but leaves their
\* bytes in the counter.
Kick(ip, uid, tok, target) ==
  /\ Admitted(ip)
  /\ uid \in DOMAIN store
  /\ Owns(tok, uid)
  /\ IF target = Everyone
     THEN DeleteStoreEntry(uid)
     ELSE LET e == store[uid]
          IN  /\ store' = [store EXCEPT
                   ![uid].kickedIps = @ \cup {target},
                   ![uid].approvals = Keep(@, {i \in DOMAIN @ : @[i].ip # target})]
              /\ UNCHANGED buffered
  /\ NoViolation
  /\ UNCHANGED <<serial, uses>>

\* Mutant: a record may be shrunk to any age.
AdjustedUnfloored(createdAt, minutes) ==
  IF minutes = NaN THEN NaN
  ELSE Lesser(clock, (IF createdAt = NaN THEN clock ELSE createdAt)
                     + Greater(-MaxAdjust, Lesser(MaxAdjust, minutes)))

\* Mutant: a record may be dated into the future.
AdjustedUncapped(createdAt, minutes) ==
  IF minutes = NaN THEN NaN
  ELSE Greater(clock - TTL + MinRemaining,
               (IF createdAt = NaN THEN clock ELSE createdAt)
               + Greater(-MaxAdjust, Lesser(MaxAdjust, minutes)))

\* createdAt after /extend: moved by the clamped minutes, but never into the
\* future and never so far back that less than MinRemaining is left.  NaN
\* swallows the arithmetic, and a NaN already stored counts as now.
Adjusted(createdAt, minutes) ==
  LET base == IF createdAt = NaN THEN clock ELSE createdAt
      clamped == Greater(-MaxAdjust, Lesser(MaxAdjust, minutes))
  IN  IF minutes = NaN THEN NaN
      ELSE Lesser(clock, Greater(clock - TTL + MinRemaining, base + clamped))

\* POST /extend/:uid
Extend(ip, uid, tok, minutes) ==
  /\ Admitted(ip)
  /\ uid \in DOMAIN store
  /\ Owns(tok, uid)
  /\ store' = [store EXCEPT ![uid].createdAt = Adjusted(@, minutes)]
  /\ NoViolation
  /\ UNCHANGED <<buffered, serial, uses>>

\* DELETE /revoke/:uid
Revoke(ip, uid, tok) ==
  /\ Admitted(ip)
  /\ uid \in DOMAIN store
  /\ IF ~Owns(tok, uid) THEN Violates(ip)
     ELSE DeleteStoreEntry(uid) /\ NoViolation /\ UNCHANGED <<serial, uses>>

\* A uid or request id that is not a safe parameter, on the routes that count it.
BadParameter(ip) ==
  /\ Admitted(ip)
  /\ Violates(ip)

\* What the prune leaves of a record that is not expired.
Trimmed(e) ==
  [e EXCEPT
     !.approvals = Newest(Keep(@, {i \in DOMAIN @ : clock - @[i].createdAt <= ApprovalTTL}), MaxApprovals),
     !.clients = Newest(Keep(@, {i \in DOMAIN @ : clock - @[i].seenAt <= TelemetryTTL}), MaxClients)]

Unexpired == {uid \in DOMAIN store : ~Expired(store[uid])}

\* pruneExpired(), every five minutes.  The code adjusts the counter record by
\* record; the clamp at zero is applied once here because it never bites
\* (BytesCovered).
Prune ==
  /\ store' = [uid \in Unexpired |-> Trimmed(store[uid])]
  /\ buffered' = Max0(buffered - StoredBytes
                      + Total([uid \in Unexpired |-> EntryBytes(Trimmed(store[uid]))]))
  /\ PruneDefense
  /\ UNCHANGED <<clock, serial, uses>>

\* The broker exits and starts again with nothing: both tables and the store
\* are only in memory.
Restart ==
  /\ store' = EmptyMap
  /\ buffered' = 0
  /\ ForgetDefense
  /\ UNCHANGED <<clock, serial, uses>>

Tick == AdvanceClock /\ UNCHANGED <<ipViolations, blacklistedIPs>> /\ UNCHANGED storeVars

Offered == IF Unparsable THEN Minutes \cup {NaN} ELSE Minutes

Bodies == Sizes \cup {Malformed, NoBody}

Next ==
  \/ \E ip \in Ips, uid \in Uids :
       \/ \E tok \in Tokens \cup {NoToken} :
            \/ \E size \in Sizes \cup {Malformed}, gated, once \in BOOLEAN :
                 Register(ip, uid, tok, size, gated, once)
            \/ ListForHost(ip, uid, tok)
            \/ \E rid \in 1..serial, decision \in {"approved", "denied"}, body \in Bodies :
                 Decide(ip, uid, rid, tok, decision, body)
            \/ \E target \in Ips \cup {Everyone} : Kick(ip, uid, tok, target)
            \/ \E minutes \in Offered : Extend(ip, uid, tok, minutes)
            \/ Revoke(ip, uid, tok)
       \/ \E rid \in 0..serial : Resolve(ip, uid, rid)
       \/ \E rid \in 1..serial : ShowStatus(ip, uid, rid)
       \/ \E size \in Sizes \cup {Malformed} :
            RequestApproval(ip, uid, size) \/ PushTelemetry(ip, uid, size)
  \/ \E ip \in Ips : BadParameter(ip)
  \/ Prune
  \/ Restart
  \/ Tick

Spec == Init /\ [][Next]_vars

----------------------------------------------------------------------------
(* Safety.                                                                 *)

\* The counter that guards the broker's memory never falls below the bytes it
\* holds, through registration, replacement, eviction, attachment, pruning and
\* deletion; otherwise the limit would admit more than it says.
BytesCovered == StoredBytes <= buffered

Slack == buffered - StoredBytes

\* The counter and the store drift apart only when the host kicks one address
\* (its approvals go, their bytes stay counted) and meet again only in a restart.
SlackOnlyFromKick ==
  [][Slack' # Slack =>
       \/ Restart
       \/ \E ip, target \in Ips, uid \in Uids, tok \in Tokens :
            Slack' > Slack /\ Kick(ip, uid, tok, target)]_vars

\* The bytes of payloads a host attached to approvals it gave.
AttachedBytes ==
  Total([uid \in DOMAIN store |->
    Total([i \in DOMAIN store[uid].approvals |-> store[uid].approvals[i].approvedPayload])])

\* Everything but the attached payloads, which no limit applies to, stays within
\* the configured memory, however registrations, requests and evictions interleave.
CheckedBytesBounded == StoredBytes - AttachedBytes <= MaxBytes

\* /resolve delivers a one-time record at most once, whichever of its two paths served
\* it and however often its host registered it again meanwhile.  It is not said of
\* /approval-status, which hands out an attached payload as often as it is asked.
OneTimeDeliveredOnce == \A uid \in Uids : uses[uid].once <= 1

\* No adjustment gives a record more than one TTL of remaining life.
RemainingWithinTTL ==
  \A uid \in DOMAIN store : store[uid].createdAt # NaN => store[uid].createdAt <= clock

\* What the two ends can tell of a record: its terms and the verdicts so far.
Terms(e) ==
  [gated |-> e.approvalRequired, once |-> e.oneTime,
   verdicts |-> [i \in DOMAIN e.approvals |-> e.approvals[i].status]]

Sessions == [uid \in DOMAIN store |-> Terms(store[uid])]

\* Seen from the two ends, the broker is the session gate.
Gate == INSTANCE SessionGate WITH
  Ids <- 1..MaxSerial,
  MaxServes <- MaxResolves,
  lastId <- serial,
  served <- uses,
  sessions <- Sessions

ImplementsGate == Gate!GateSpec

----------------------------------------------------------------------------
(* Statements of the documentation that the code does not keep.            *)

\* README.md:110, "Broker session payloads are limited in size".
CapacityRespected == buffered <= MaxBytes

\* README.md:80, "Broker records have a one-hour TTL".
RecordsHaveTTL == \A uid \in DOMAIN store : store[uid].createdAt # NaN

\* README.md:80 again: nothing of a record is handed out past its TTL.  /resolve
\* keeps this, /approval-status does not look at the time.
NothingPastTTL ==
  [][\A uid \in DOMAIN store : uses'[uid] # uses[uid] => ~Expired(store[uid])]_vars

\* server.js:314, "Extends or shrinks session TTL by specified minutes".
Remaining(e) == TTL - (clock - e.createdAt)
ExtendAddsMinutes ==
  [][\A ip \in Ips, uid \in DOMAIN store, tok \in Tokens, minutes \in Minutes :
       /\ Extend(ip, uid, tok, minutes)
       /\ minutes > 0
       /\ minutes <= MaxAdjust
       /\ store[uid].createdAt # NaN
       => Remaining(store'[uid]) = Remaining(store[uid]) + minutes]_vars
=============================================================================
