---------------------------- MODULE BrokerProofs ----------------------------
(***************************************************************************)
(* Theorems about the broker, for every value of its constants: its types, *)
(* one-time delivery, the age of records, the active defence, the bytes it *)
(* counts against those it holds, and the session gate it implements.      *)
(***************************************************************************)
EXTENDS Broker, FiniteSetTheorems, TLAPS

----------------------------------------------------------------------------
(* Sums.                                                                   *)

\* Total is defined on a finite map of natural numbers.
LEMMA TotalFinite ==
  ASSUME NEW w, IsFiniteSet(DOMAIN w), \A x \in DOMAIN w : w[x] \in Nat
  PROVE  /\ IsFiniteSet(UNION {{x} \X (1..w[x]) : x \in DOMAIN w})
         /\ Total(w) \in Nat
<1> DEFINE block == [x \in DOMAIN w |-> {x} \X (1..w[x])]
           blocks == {{x} \X (1..w[x]) : x \in DOMAIN w}
<1>1. block \in Surjection(DOMAIN w, blocks)
  BY DEF Surjection
<1>2. IsFiniteSet(blocks)
  BY <1>1, FS_Surjection
<1>3. \A B \in blocks : IsFiniteSet(B)
  <2>1. SUFFICES ASSUME NEW x \in DOMAIN w PROVE IsFiniteSet({x} \X (1..w[x]))
    OBVIOUS
  <2>2. IsFiniteSet({x})
    BY FS_Singleton
  <2>3. IsFiniteSet(1..w[x])
    BY 1 \in Int, w[x] \in Int, FS_Interval
  <2>4. QED
    BY <2>2, <2>3, FS_Product
<1>4. IsFiniteSet(UNION blocks)
  BY <1>2, <1>3, FS_UNION
<1>5. QED
  BY <1>4, FS_CardinalityType DEF Total

\* The bytes of a well-formed entry are a natural number.
LEMMA EntryBytesType ==
  ASSUME NEW e, NEW n \in Nat, IsEntry(e, n)
  PROVE  EntryBytes(e) \in Nat
<1> DEFINE c == [i \in DOMAIN e.clients |-> e.clients[i].size]
           a == [i \in DOMAIN e.approvals |-> ApprovalBytes(e.approvals[i])]
<1>1. IsFiniteSet(DOMAIN c) /\ IsFiniteSet(DOMAIN a)
  <2>1. IsFiniteSet(1..n)
    BY 1 \in Int, n \in Int, FS_Interval
  <2>2. QED
    BY <2>1, FS_Subset DEF IsEntry
<1>2. \A i \in DOMAIN c : c[i] \in Nat
  BY DEF IsEntry, Entry, Client
<1>3. \A i \in DOMAIN a : a[i] \in Nat
  BY DEF IsEntry, Entry, Approval, ApprovalBytes
<1>4. Total(c) \in Nat /\ Total(a) \in Nat
  BY <1>1, <1>2, <1>3, TotalFinite
<1>5. e.size \in Nat
  BY DEF IsEntry, Entry
<1>6. QED
  BY <1>4, <1>5 DEF EntryBytes, ClientSizes, ApprovalSizes

\* So are the bytes of any set of well-formed entries of known UIDs.
LEMMA StoreBytesType ==
  ASSUME NEW m, NEW n \in Nat, DOMAIN m \subseteq Uids, \A uid \in DOMAIN m : IsEntry(m[uid], n)
  PROVE  Total([uid \in DOMAIN m |-> EntryBytes(m[uid])]) \in Nat
<1> DEFINE w == [uid \in DOMAIN m |-> EntryBytes(m[uid])]
<1>1. IsFiniteSet(DOMAIN w)
  BY BrokerAssumption, FS_Subset DEF BrokerAssumption
<1>2. \A uid \in DOMAIN w : w[uid] \in Nat
  BY EntryBytesType
<1>3. QED
  BY <1>1, <1>2, TotalFinite

----------------------------------------------------------------------------
(* Lists of a well-formed entry.                                           *)

\* Dropping records from the lists keeps an entry well formed.
LEMMA KeepType ==
  ASSUME NEW S, NEW D, NEW f \in [D -> S], NEW T
  PROVE  /\ Keep(f, T) \in [DOMAIN Keep(f, T) -> S]
         /\ DOMAIN Keep(f, T) = D \cap T
BY DEF Keep

\* A push adds the next serial number to a list, whatever it evicts.
LEMMA PushType ==
  ASSUME NEW S, NEW D, NEW f \in [D -> S], D \subseteq 1..serial, serial \in Nat, NEW v \in S, NEW limit
  PROVE  /\ PushBounded(f, v, limit) \in [DOMAIN PushBounded(f, v, limit) -> S]
         /\ DOMAIN PushBounded(f, v, limit) \subseteq 1..(serial + 1)
<1> DEFINE pushed == Put(f, serial + 1, v)
<1>1. pushed \in [D \cup {serial + 1} -> S]
  BY DEF Put
<1>2. D \cup {serial + 1} \subseteq 1..(serial + 1)
  OBVIOUS
<1>3. CASE Cardinality(DOMAIN pushed) > limit
  <2> DEFINE T == DOMAIN pushed \ {Oldest(pushed)}
  <2>1. PushBounded(f, v, limit) = Keep(pushed, T)
    BY <1>3 DEF PushBounded
  <2> HIDE DEF T, pushed
  <2>2. /\ Keep(pushed, T) \in [DOMAIN Keep(pushed, T) -> S]
        /\ DOMAIN Keep(pushed, T) \subseteq D \cup {serial + 1}
    BY <1>1 DEF Keep
  <2>3. QED
    BY <1>2, <2>1, <2>2
<1>4. CASE ~(Cardinality(DOMAIN pushed) > limit)
  <2>1. PushBounded(f, v, limit) = pushed
    BY <1>4 DEF PushBounded
  <2>2. QED
    BY <1>1, <1>2, <2>1
<1>5. QED
  BY <1>3, <1>4

----------------------------------------------------------------------------
(* Type correctness.                                                       *)

LEMMA SizeType == \A size \in Sizes \cup {Malformed} : size \in Nat
BY BrokerAssumption DEF BrokerAssumption, Malformed

LEMMA ViolationType ==
  ASSUME DefenseTypeOK, NEW ip \in Ips, RecordViolation(ip), UNCHANGED clock
  PROVE  DefenseTypeOK'
<1>1. NextCount(ip) \in Nat \ {0}
  BY DefenseAssumption DEF DefenseTypeOK, DefenseAssumption, NextCount, Violation
<1>2. \A i \in DOMAIN ipViolations' : ipViolations'[i] \in Violation
  BY <1>1 DEF DefenseTypeOK, RecordViolation, Put, Violation
<1>3. DOMAIN ipViolations' \subseteq Ips
  BY DEF DefenseTypeOK, RecordViolation, Put
<1>4. /\ DOMAIN blacklistedIPs' \subseteq Ips
      /\ \A i \in DOMAIN blacklistedIPs' : blacklistedIPs'[i] \in Nat
  BY DEF DefenseTypeOK, RecordViolation, Put
<1>5. QED
  BY <1>2, <1>3, <1>4 DEF DefenseTypeOK

LEMMA ViolatesType ==
  ASSUME TypeOK, NEW ip \in Ips, Violates(ip)
  PROVE  TypeOK'
<1>1. DefenseTypeOK'
  BY ViolationType DEF TypeOK, Violates
<1>2. StoreTypeOK'
  BY DEF TypeOK, StoreTypeOK, Violates, storeVars
<1>3. QED
  BY <1>1, <1>2 DEF TypeOK

LEMMA NoViolationType ==
  ASSUME DefenseTypeOK, NoViolation
  PROVE  DefenseTypeOK'
BY DEF DefenseTypeOK, NoViolation, defenseVars

LEMMA DeleteType ==
  ASSUME StoreTypeOK, NEW uid \in DOMAIN store, DeleteStoreEntry(uid), UNCHANGED serial,
         uses' \in [Uids -> [total : Nat, once : Nat, shown : SUBSET Nat]]
  PROVE  StoreTypeOK'
<1>1. EntryBytes(store[uid]) \in Nat
  BY EntryBytesType DEF StoreTypeOK
<1>2. buffered' \in Int
  BY <1>1 DEF StoreTypeOK, DeleteStoreEntry, Max0
<1>3. DOMAIN store' \subseteq Uids /\ \A u \in DOMAIN store' : store'[u] = store[u] /\ u \in DOMAIN store
  BY DEF StoreTypeOK, DeleteStoreEntry, Keep
<1>4. QED
  BY <1>2, <1>3 DEF StoreTypeOK

\* The shape of every step that changes one record in place.
LEMMA UpdateType ==
  ASSUME StoreTypeOK, NEW uid \in DOMAIN store, NEW e,
         store' = [store EXCEPT ![uid] = e], IsEntry(e, serial'),
         serial' \in Nat, serial' >= serial, buffered' \in Int,
         uses' \in [Uids -> [total : Nat, once : Nat, shown : SUBSET Nat]]
  PROVE  StoreTypeOK'
<1>1. DOMAIN store' = DOMAIN store
  OBVIOUS
<1>2. ASSUME NEW u \in DOMAIN store PROVE IsEntry(store'[u], serial')
  <2>1. CASE u = uid
    BY <2>1
  <2>2. CASE u # uid
    <3>1. store'[u] = store[u] /\ IsEntry(store[u], serial)
      BY <2>2 DEF StoreTypeOK
    <3>2. serial \in Nat /\ 1..serial \subseteq 1..serial'
      BY DEF StoreTypeOK
    <3>3. QED
      BY <3>1, <3>2 DEF IsEntry
  <2>3. QED
    BY <2>1, <2>2
<1>3. QED
  BY <1>1, <1>2 DEF StoreTypeOK


\* The clock never runs behind the start of the broker.
ClockStarted == StartTime <= clock

Ages == TypeOK /\ ClockStarted

LEMMA AdjustedType ==
  ASSUME Ages, NEW createdAt \in Nat \cup {NaN}, NEW minutes \in Minutes \cup {NaN}
  PROVE  Adjusted(createdAt, minutes) \in Nat \cup {NaN}
<1>1. CASE minutes = NaN
  BY <1>1 DEF Adjusted
<1>2. CASE minutes # NaN
  <2>1. /\ clock \in Nat /\ TTL \in Nat /\ StartTime \in Nat /\ MaxAdjust \in Nat
        /\ MinRemaining \in Nat /\ TTL <= clock
    BY DefenseAssumption, BrokerAssumption
    DEF DefenseAssumption, BrokerAssumption, Ages, ClockStarted, TypeOK, DefenseTypeOK
  <2>2. minutes \in Int
    BY <1>2, BrokerAssumption DEF BrokerAssumption
  <2>3. (IF createdAt = NaN THEN clock ELSE createdAt) \in Nat
    BY <2>1
  <2>4. QED
    BY <1>2, <2>1, <2>2, <2>3 DEF Adjusted, Lesser, Greater
<1>3. QED
  BY <1>1, <1>2

\* Replacing fields of an entry other than its lists.
LEMMA ScalarsType ==
  ASSUME NEW n, NEW e, IsEntry(e, n), NEW e2,
         e2 \in Entry(DOMAIN e.clients, DOMAIN e.approvals)
  PROVE  IsEntry(e2, n)
<1>1. DOMAIN e2.clients = DOMAIN e.clients /\ DOMAIN e2.approvals = DOMAIN e.approvals
  BY DEF Entry
<1>2. QED
  BY <1>1 DEF IsEntry

LEMMA RegisterNewType ==
  ASSUME StoreTypeOK, clock \in Nat, NEW uid \in Uids, uid \notin DOMAIN store, NEW tok, NEW size \in Nat,
         NEW gated \in BOOLEAN, NEW once \in BOOLEAN,
         RegisterNew(uid, tok, size, gated, once), UNCHANGED serial
  PROVE  StoreTypeOK'
<1>1. PICK t \in NewToken(tok) : store' = Put(store, uid, NewEntry(t, size, gated, once))
  BY DEF RegisterNew
<1>2. t \in Tokens
  BY DEF NewToken
<1>3. IsEntry(NewEntry(t, size, gated, once), serial)
  BY <1>2 DEF IsEntry, NewEntry, Entry, EmptyMap
<1>4. DOMAIN store' \subseteq Uids
  BY <1>1 DEF StoreTypeOK, Put
<1>5. ASSUME NEW u \in DOMAIN store' PROVE IsEntry(store'[u], serial')
  <2>1. CASE u = uid
    BY <1>1, <1>3, <2>1 DEF Put
  <2>2. CASE u # uid
    BY <1>1, <2>2 DEF Put, StoreTypeOK
  <2>3. QED
    BY <2>1, <2>2
<1>6. buffered' \in Int /\ uses' \in [Uids -> [total : Nat, once : Nat, shown : SUBSET Nat]]
  BY DEF StoreTypeOK, RegisterNew, Unused
<1>7. QED
  BY <1>4, <1>5, <1>6 DEF StoreTypeOK

LEMMA RegisterAgainType ==
  ASSUME StoreTypeOK, NEW uid \in DOMAIN store, NEW size \in Nat,
         NEW gated \in BOOLEAN, NEW once \in BOOLEAN,
         RegisterAgain(uid, size, gated, once), UNCHANGED serial
  PROVE  StoreTypeOK'
<1> DEFINE e == Refreshed(store[uid], size, gated, once)
<1>1. IsEntry(store[uid], serial)
  BY DEF StoreTypeOK
<1>2. e \in Entry(DOMAIN store[uid].clients, DOMAIN store[uid].approvals)
  BY <1>1 DEF IsEntry, Entry, Refreshed
<1>3. IsEntry(e, serial)
  BY <1>1, <1>2, ScalarsType
<1>4. buffered' \in Int
  BY <1>1 DEF StoreTypeOK, RegisterAgain, Max0, IsEntry, Entry
<1>5. store' = [store EXCEPT ![uid] = e] /\ UNCHANGED uses
  BY DEF RegisterAgain
<1>6. QED
  BY <1>3, <1>4, <1>5, UpdateType DEF StoreTypeOK


\* A nonempty list has an oldest record.
LEMMA OldestExists ==
  ASSUME NEW f, NEW n \in Nat, DOMAIN f \subseteq 1..n, DOMAIN f # {}
  PROVE  /\ Oldest(f) \in DOMAIN f
         /\ \A j \in DOMAIN f : Oldest(f) <= j
<1> DEFINE U == 1..n
           family == {1..i : i \in DOMAIN f}
<1>1. IsFiniteSet(U)
  BY 1 \in Int, n \in Int, FS_Interval
<1>2. family \subseteq FiniteSubsetsOf(U)
  <2>1. ASSUME NEW i \in DOMAIN f PROVE (1..i) \in SUBSET U
    OBVIOUS
  <2>2. \A T \in SUBSET U : IsFiniteSet(T)
    BY <1>1, FS_Subset
  <2>3. QED
    BY <2>1, <2>2 DEF FiniteSubsetsOf
<1>3. IsWellFoundedOn(StrictSubsetOrdering(U), FiniteSubsetsOf(U))
  BY FS_StrictSubsetOrderingWellFounded
<1>4. family # {}
  OBVIOUS
<1>5. PICK X \in family : \A Y \in family : <<Y, X>> \notin StrictSubsetOrdering(U)
  <2> HIDE DEF family, U
  <2>1. QED
    BY <1>2, <1>3, <1>4, WFMin
<1>6. PICK i \in DOMAIN f : X = 1..i
  OBVIOUS
<1>7. ASSUME NEW j \in DOMAIN f PROVE i <= j
  <2>1. SUFFICES ASSUME j < i PROVE FALSE
    OBVIOUS
  <2>2. 1..j \subseteq 1..i /\ i \in 1..i /\ i \notin 1..j /\ 1..j \subseteq U /\ 1..i \subseteq U
    BY <2>1
  <2>3. <<1..j, 1..i>> \in StrictSubsetOrdering(U)
    BY <2>2 DEF StrictSubsetOrdering
  <2>4. QED
    BY <1>5, <1>6, <2>3
<1>8. QED
  BY <1>7 DEF Oldest

\* Evicting from a list frees a whole number of bytes.
LEMMA EvictedType ==
  ASSUME NEW n \in Nat, NEW sizes, DOMAIN sizes \subseteq 1..n, NEW limit \in Nat \ {0},
         \A i \in DOMAIN sizes : sizes[i] \in Nat
  PROVE  EvictedBytes(sizes, limit) \in Nat
<1>1. CASE Cardinality(DOMAIN sizes) >= limit
  <2>1. DOMAIN sizes # {}
    BY <1>1, FS_EmptySet
  <2>2. Oldest(sizes) \in DOMAIN sizes
    BY <2>1, OldestExists
  <2>3. QED
    BY <1>1, <2>2 DEF EvictedBytes
<1>2. CASE ~(Cardinality(DOMAIN sizes) >= limit)
  BY <1>2 DEF EvictedBytes
<1>3. QED
  BY <1>1, <1>2

LEMMA DeliverType ==
  ASSUME StoreTypeOK, NEW uid \in DOMAIN store, Deliver(uid), UNCHANGED serial
  PROVE  StoreTypeOK'
<1>1. uses' \in [Uids -> [total : Nat, once : Nat, shown : SUBSET Nat]]
  BY DEF StoreTypeOK, Deliver
<1>2. CASE store[uid].oneTime
  BY <1>1, <1>2, DeleteType DEF Deliver
<1>3. CASE ~store[uid].oneTime
  <2> DEFINE e == [store[uid] EXCEPT !.resolveCount = @ + 1]
  <2>1. IsEntry(store[uid], serial)
    BY DEF StoreTypeOK
  <2>2. e \in Entry(DOMAIN store[uid].clients, DOMAIN store[uid].approvals)
    BY <2>1 DEF IsEntry, Entry
  <2>3. IsEntry(e, serial)
    BY <2>1, <2>2, ScalarsType
  <2>4. store' = [store EXCEPT ![uid] = e] /\ UNCHANGED buffered
    BY <1>3 DEF Deliver
  <2>5. QED
    BY <1>1, <2>3, <2>4, UpdateType DEF StoreTypeOK
<1>4. QED
  BY <1>2, <1>3

LEMMA RequestApprovalType ==
  ASSUME StoreTypeOK, clock \in Nat, NEW ip \in Ips, NEW uid \in DOMAIN store, NEW size \in Nat,
         RequestApproval(ip, uid, size), size # Malformed
  PROVE  StoreTypeOK'
<1> DEFINE e == store[uid]
           v == NewApproval(e, ip, size)
           a == PushBounded(e.approvals, v, MaxApprovals)
           e2 == [e EXCEPT !.approvals = a]
<1>1. IsEntry(e, serial) /\ serial \in Nat
  BY DEF StoreTypeOK
<1>2. v \in Approval
  BY DEF NewApproval, Approval, NoPayload
<1>3. e.approvals \in [DOMAIN e.approvals -> Approval] /\ DOMAIN e.approvals \subseteq 1..serial
  BY <1>1 DEF IsEntry, Entry
<1>4. a \in [DOMAIN a -> Approval] /\ DOMAIN a \subseteq 1..(serial + 1)
  <2> HIDE DEF e, v
  <2>1. QED
    BY <1>1, <1>2, <1>3, PushType
<1>5. e2 \in Entry(DOMAIN e.clients, DOMAIN a)
  <2> HIDE DEF a, v
  <2>1. QED
    BY <1>1, <1>4 DEF IsEntry, Entry
<1>6. IsEntry(e2, serial + 1)
  <2> HIDE DEF a, v
  <2>1. e2.clients = e.clients /\ e2.approvals = a
    BY <1>1 DEF IsEntry, Entry
  <2> HIDE DEF e2
  <2>2. QED
    BY <1>1, <1>4, <1>5, <2>1 DEF IsEntry
<1>7. EvictedBytes(ApprovalSizes(e), MaxApprovals) \in Nat
  <2>1. /\ DOMAIN ApprovalSizes(e) \subseteq 1..serial
        /\ \A i \in DOMAIN ApprovalSizes(e) : ApprovalSizes(e)[i] \in Nat
    BY <1>1 DEF IsEntry, Entry, Approval, ApprovalSizes, ApprovalBytes
  <2>2. QED
    BY <1>1, <2>1, BrokerAssumption, EvictedType DEF BrokerAssumption
<1>8. /\ store' = [store EXCEPT ![uid] = e2]
      /\ serial' = serial + 1
      /\ UNCHANGED uses
      /\ buffered' = buffered + size - EvictedBytes(ApprovalSizes(e), MaxApprovals)
  BY DEF RequestApproval
<1>9. buffered' \in Int
  <2> HIDE DEF e
  <2>1. QED
    BY <1>7, <1>8 DEF StoreTypeOK
<1>10. /\ serial' \in Nat /\ serial' >= serial
       /\ IsEntry(e2, serial')
       /\ uses' \in [Uids -> [total : Nat, once : Nat, shown : SUBSET Nat]]
  <2> HIDE DEF e2
  <2>1. QED
    BY <1>1, <1>6, <1>8 DEF StoreTypeOK
<1>11. store' = [store EXCEPT ![uid] = e2]
  BY <1>8
<1>12. QED
  BY <1>9, <1>10, <1>11, UpdateType

LEMMA PushTelemetryType ==
  ASSUME StoreTypeOK, clock \in Nat, NEW ip \in Ips, NEW uid \in DOMAIN store, NEW size \in Nat,
         PushTelemetry(ip, uid, size), size # Malformed
  PROVE  StoreTypeOK'
<1> DEFINE e == store[uid]
           v == [size |-> size, seenAt |-> clock]
           c == PushBounded(e.clients, v, MaxClients)
           e2 == [e EXCEPT !.clients = c]
<1>1. IsEntry(e, serial) /\ serial \in Nat
  BY DEF StoreTypeOK
<1>2. v \in Client
  BY DEF Client
<1>3. e.clients \in [DOMAIN e.clients -> Client] /\ DOMAIN e.clients \subseteq 1..serial
  BY <1>1 DEF IsEntry, Entry
<1>4. c \in [DOMAIN c -> Client] /\ DOMAIN c \subseteq 1..(serial + 1)
  <2> HIDE DEF e, v
  <2>1. QED
    BY <1>1, <1>2, <1>3, PushType
<1>5. e2 \in Entry(DOMAIN c, DOMAIN e.approvals)
  <2> HIDE DEF c, v
  <2>1. QED
    BY <1>1, <1>4 DEF IsEntry, Entry
<1>6. IsEntry(e2, serial + 1)
  <2> HIDE DEF c, v
  <2>1. e2.clients = c /\ e2.approvals = e.approvals
    BY <1>1 DEF IsEntry, Entry
  <2> HIDE DEF e2
  <2>2. QED
    BY <1>1, <1>4, <1>5, <2>1 DEF IsEntry
<1>7. EvictedBytes(ClientSizes(e), MaxClients) \in Nat
  <2>1. /\ DOMAIN ClientSizes(e) \subseteq 1..serial
        /\ \A i \in DOMAIN ClientSizes(e) : ClientSizes(e)[i] \in Nat
    BY <1>1 DEF IsEntry, Entry, Client, ClientSizes
  <2>2. QED
    BY <1>1, <2>1, BrokerAssumption, EvictedType DEF BrokerAssumption
<1>8. /\ store' = [store EXCEPT ![uid] = e2]
      /\ serial' = serial + 1
      /\ UNCHANGED uses
      /\ buffered' = buffered + size - EvictedBytes(ClientSizes(e), MaxClients)
  BY DEF PushTelemetry
<1>9. buffered' \in Int
  <2> HIDE DEF e
  <2>1. QED
    BY <1>7, <1>8 DEF StoreTypeOK
<1>10. /\ serial' \in Nat /\ serial' >= serial
       /\ IsEntry(e2, serial')
       /\ uses' \in [Uids -> [total : Nat, once : Nat, shown : SUBSET Nat]]
  <2> HIDE DEF e2
  <2>1. QED
    BY <1>1, <1>6, <1>8 DEF StoreTypeOK
<1>11. store' = [store EXCEPT ![uid] = e2]
  BY <1>8
<1>12. QED
  BY <1>9, <1>10, <1>11, UpdateType


LEMMA DecideType ==
  ASSUME TypeOK, NEW ip \in Ips, NEW uid \in Uids, NEW rid, NEW tok,
         NEW decision \in {"approved", "denied"}, NEW body \in Bodies,
         Decide(ip, uid, rid, tok, decision, body)
  PROVE  TypeOK'
<1>1. CASE ~Owns(tok, uid)
  BY <1>1, ViolatesType DEF Decide
<1>2. CASE Owns(tok, uid)
  <2> DEFINE e == store[uid]
             attached == IF decision = "approved" /\ body \in Sizes THEN body ELSE NoPayload
             a2 == [e.approvals[rid] EXCEPT !.status = decision, !.approvedPayload = attached]
             e2 == [e EXCEPT !.approvals[rid] = a2]
  <2>1. uid \in DOMAIN store /\ IsEntry(e, serial) /\ rid \in DOMAIN e.approvals /\ StoreTypeOK
    BY <1>2 DEF Decide, TypeOK, StoreTypeOK
  <2>2. attached \in Nat
    BY BrokerAssumption DEF BrokerAssumption, NoPayload
  <2>3. a2 \in Approval
    <3>1. e.approvals[rid] \in Approval
      BY <2>1 DEF IsEntry, Entry
    <3> HIDE DEF attached, e
    <3>2. QED
      BY <2>2, <3>1 DEF Approval
  <2>4. store' = [store EXCEPT ![uid] = e2]
    <3>1. store' = [store EXCEPT ![uid].approvals[rid].status = decision,
                                 ![uid].approvals[rid].approvedPayload = attached]
      BY <1>2 DEF Decide
    <3> HIDE DEF attached
    <3>2. QED
      BY ZenonT(60), <2>1, <3>1 DEF IsEntry, Entry, Approval
  <2>5. e2.clients = e.clients /\ e2.approvals = [e.approvals EXCEPT ![rid] = a2]
    <3> HIDE DEF a2
    <3>1. QED
      BY <2>1 DEF IsEntry, Entry
  <2>6. e2 \in Entry(DOMAIN e.clients, DOMAIN e.approvals)
    <3> HIDE DEF a2
    <3>1. QED
      BY <2>1, <2>3 DEF IsEntry, Entry
  <2>7. IsEntry(e2, serial)
    <3> HIDE DEF e2
    <3>1. QED
      BY <2>1, <2>6, ScalarsType
  <2>8. serial' = serial /\ uses' = uses /\ buffered' = buffered + attached
    BY <1>2 DEF Decide
  <2>9. /\ serial' \in Nat /\ serial' >= serial /\ IsEntry(e2, serial') /\ buffered' \in Int
        /\ uses' \in [Uids -> [total : Nat, once : Nat, shown : SUBSET Nat]]
    <3> HIDE DEF attached, e2
    <3>1. QED
      BY <2>1, <2>2, <2>7, <2>8 DEF StoreTypeOK
  <2>10. StoreTypeOK'
    BY <2>1, <2>4, <2>9, UpdateType
  <2>11. DefenseTypeOK'
    BY <1>2, ViolationType, NoViolationType DEF Decide, TypeOK
  <2>12. QED
    BY <2>10, <2>11 DEF TypeOK
<1>3. QED
  BY <1>1, <1>2

LEMMA KickType ==
  ASSUME TypeOK, NEW ip \in Ips, NEW uid \in Uids, NEW tok, NEW target \in Ips \cup {Everyone},
         Kick(ip, uid, tok, target)
  PROVE  TypeOK'
<1>1. DefenseTypeOK' /\ StoreTypeOK /\ uid \in DOMAIN store
  BY NoViolationType DEF Kick, TypeOK
<1>2. CASE target = Everyone
  <2>1. StoreTypeOK'
    BY <1>1, <1>2, DeleteType DEF Kick, StoreTypeOK
  <2>2. QED
    BY <1>1, <2>1 DEF TypeOK
<1>3. CASE target # Everyone
  <2> DEFINE e == store[uid]
             a == Keep(e.approvals, {i \in DOMAIN e.approvals : e.approvals[i].ip # target})
             e2 == [e EXCEPT !.kickedIps = e.kickedIps \cup {target}, !.approvals = a]
  <2>1. IsEntry(e, serial) /\ target \in Ips
    BY <1>1, <1>3 DEF StoreTypeOK
  <2>2. a \in [DOMAIN a -> Approval] /\ DOMAIN a \subseteq DOMAIN e.approvals
    BY <2>1 DEF Keep, IsEntry, Entry
  <2>3. e2.clients = e.clients /\ e2.approvals = a
    <3> HIDE DEF a
    <3>1. QED
      BY <2>1 DEF IsEntry, Entry
  <2>4. e2 \in Entry(DOMAIN e.clients, DOMAIN a)
    <3> HIDE DEF a
    <3>1. QED
      BY <2>1, <2>2 DEF IsEntry, Entry
  <2>5. IsEntry(e2, serial)
    <3> HIDE DEF e2, a
    <3>1. QED
      BY <2>1, <2>2, <2>3, <2>4 DEF IsEntry
  <2>6. store' = [store EXCEPT ![uid] = e2]
    <3>1. store' = [store EXCEPT ![uid].kickedIps = @ \cup {target},
                   ![uid].approvals = Keep(@, {i \in DOMAIN @ : @[i].ip # target})]
      BY <1>3 DEF Kick
    <3>2. QED
      BY <1>1, <2>1, <3>1 DEF IsEntry, Entry
  <2>7. UNCHANGED <<buffered, serial, uses>>
    BY <1>3 DEF Kick
  <2>8. StoreTypeOK'
    BY <1>1, <2>5, <2>6, <2>7, UpdateType DEF StoreTypeOK
  <2>9. QED
    BY <1>1, <2>8 DEF TypeOK
<1>4. QED
  BY <1>2, <1>3

LEMMA ExtendType ==
  ASSUME Ages, NEW ip \in Ips, NEW uid \in Uids, NEW tok, NEW minutes \in Minutes \cup {NaN},
         Extend(ip, uid, tok, minutes)
  PROVE  TypeOK'
<1> DEFINE e == store[uid]
           t == Adjusted(e.createdAt, minutes)
           e2 == [e EXCEPT !.createdAt = t]
<1>1. DefenseTypeOK' /\ StoreTypeOK /\ uid \in DOMAIN store
  BY NoViolationType DEF Extend, TypeOK, Ages
<1>2. IsEntry(e, serial)
  BY <1>1 DEF StoreTypeOK
<1>3. t \in Nat \cup {NaN}
  BY <1>2, AdjustedType DEF IsEntry, Entry
<1>4. e2 \in Entry(DOMAIN e.clients, DOMAIN e.approvals)
  <2> HIDE DEF t
  <2>1. QED
    BY <1>2, <1>3 DEF IsEntry, Entry
<1>5. IsEntry(e2, serial)
  <2> HIDE DEF e2
  <2>1. QED
    BY <1>2, <1>4, ScalarsType
<1>6. store' = [store EXCEPT ![uid] = e2] /\ UNCHANGED <<buffered, serial, uses>>
  BY DEF Extend
<1>7. StoreTypeOK'
  BY <1>1, <1>5, <1>6, UpdateType DEF StoreTypeOK
<1>8. QED
  BY <1>1, <1>7 DEF TypeOK

LEMMA TrimmedType ==
  ASSUME NEW n, NEW e, IsEntry(e, n)
  PROVE  IsEntry(Trimmed(e), n)
<1> DEFINE a0 == Keep(e.approvals, {i \in DOMAIN e.approvals : clock - e.approvals[i].createdAt <= ApprovalTTL})
           c0 == Keep(e.clients, {i \in DOMAIN e.clients : clock - e.clients[i].seenAt <= TelemetryTTL})
           a == Newest(a0, MaxApprovals)
           c == Newest(c0, MaxClients)
           e2 == [e EXCEPT !.approvals = a, !.clients = c]
<1>1. a0 \in [DOMAIN a0 -> Approval] /\ DOMAIN a0 \subseteq DOMAIN e.approvals
  BY DEF Keep, IsEntry, Entry
<1>2. c0 \in [DOMAIN c0 -> Client] /\ DOMAIN c0 \subseteq DOMAIN e.clients
  BY DEF Keep, IsEntry, Entry
<1>3. a \in [DOMAIN a -> Approval] /\ DOMAIN a \subseteq DOMAIN e.approvals
  <2> HIDE DEF a0
  <2>1. QED
    BY <1>1 DEF Newest, Keep
<1>4. c \in [DOMAIN c -> Client] /\ DOMAIN c \subseteq DOMAIN e.clients
  <2> HIDE DEF c0
  <2>1. QED
    BY <1>2 DEF Newest, Keep
<1>5. Trimmed(e) = e2
  BY DEF Trimmed, IsEntry, Entry
<1> HIDE DEF a, c
<1>6. e2.clients = c /\ e2.approvals = a
  BY DEF IsEntry, Entry
<1>7. e2 \in Entry(DOMAIN c, DOMAIN a)
  BY <1>3, <1>4 DEF IsEntry, Entry
<1>8. IsEntry(e2, n)
  <2> HIDE DEF e2
  <2>1. QED
    BY <1>3, <1>4, <1>6, <1>7 DEF IsEntry
<1>9. QED
  BY <1>5, <1>8

LEMMA PruneType ==
  ASSUME TypeOK, Prune
  PROVE  TypeOK'
<1> DEFINE left == [uid \in Unexpired |-> Trimmed(store[uid])]
<1>1. StoreTypeOK /\ DefenseTypeOK
  BY DEF TypeOK
<1>2. Unexpired \subseteq DOMAIN store /\ DOMAIN left = Unexpired
  BY DEF Unexpired
<1>3. \A uid \in DOMAIN left : IsEntry(left[uid], serial)
  BY <1>1, <1>2, TrimmedType DEF StoreTypeOK
<1>4. DOMAIN left \subseteq Uids /\ serial \in Nat
  BY <1>1, <1>2 DEF StoreTypeOK
<1>5. StoredBytes \in Nat
  BY <1>1, StoreBytesType DEF StoredBytes, StoreTypeOK
<1>6. Total([uid \in DOMAIN left |-> EntryBytes(left[uid])]) \in Nat
  <2> HIDE DEF left
  <2>1. QED
    BY <1>3, <1>4, StoreBytesType
<1>7. [uid \in DOMAIN left |-> EntryBytes(left[uid])]
        = [uid \in Unexpired |-> EntryBytes(Trimmed(store[uid]))]
  OBVIOUS
<1>8. store' = left /\ UNCHANGED <<serial, uses, clock>>
  BY DEF Prune
<1>9. buffered' \in Int
  <2>1. buffered' = Max0(buffered - StoredBytes
                         + Total([uid \in Unexpired |-> EntryBytes(Trimmed(store[uid]))]))
    BY DEF Prune
  <2>2. Total([uid \in Unexpired |-> EntryBytes(Trimmed(store[uid]))]) \in Nat
    BY <1>6, <1>7
  <2>3. QED
    BY <1>1, <1>5, <2>1, <2>2 DEF Max0, StoreTypeOK
<1>10. StoreTypeOK'
  <2> HIDE DEF left
  <2>1. QED
    BY <1>1, <1>3, <1>4, <1>8, <1>9 DEF StoreTypeOK
<1>11. DefenseTypeOK'
  <2>1. PICK S \in SUBSET FreshViolations : ipViolations' = Keep(ipViolations, S)
    BY DEF Prune, PruneDefense
  <2>2. PICK T \in SUBSET FreshBans : blacklistedIPs' = Keep(blacklistedIPs, T)
    BY DEF Prune, PruneDefense
  <2>3. QED
    BY <1>1, <1>8, <2>1, <2>2 DEF DefenseTypeOK, Keep
<1>12. QED
  BY <1>10, <1>11 DEF TypeOK


LEMMA ResolveType ==
  ASSUME TypeOK, NEW ip \in Ips, NEW uid \in Uids, NEW rid, Resolve(ip, uid, rid)
  PROVE  TypeOK'
<1>1. StoreTypeOK /\ DefenseTypeOK' /\ uid \in DOMAIN store /\ UNCHANGED serial
  BY NoViolationType DEF Resolve, TypeOK
<1>2. CASE DeleteStoreEntry(uid) /\ UNCHANGED uses
  BY <1>1, <1>2, DeleteType DEF StoreTypeOK, TypeOK
<1>3. CASE Deliver(uid)
  BY <1>1, <1>3, DeliverType DEF TypeOK
<1>4. QED
  BY <1>2, <1>3 DEF Resolve

LEMMA RegisterType ==
  ASSUME TypeOK, NEW ip \in Ips, NEW uid \in Uids, NEW tok, NEW size \in Sizes \cup {Malformed},
         NEW gated \in BOOLEAN, NEW once \in BOOLEAN,
         Register(ip, uid, tok, size, gated, once)
  PROVE  TypeOK'
<1>1. StoreTypeOK /\ clock \in Nat /\ size \in Nat
  <2>1. StoreTypeOK /\ clock \in Nat
    BY DEF TypeOK, DefenseTypeOK
  <2>2. size \in Nat
    BY SizeType
  <2>3. QED
    BY <2>1, <2>2
<1>2. CASE Violates(ip)
  BY <1>2, ViolatesType
<1>3. CASE /\ uid \notin DOMAIN store
           /\ RegisterNew(uid, tok, size, gated, once)
           /\ NoViolation
           /\ UNCHANGED serial
  BY <1>1, <1>3, RegisterNewType, NoViolationType DEF TypeOK
<1>4. CASE /\ uid \in DOMAIN store
           /\ RegisterAgain(uid, size, gated, once)
           /\ NoViolation
           /\ UNCHANGED serial
  BY <1>1, <1>4, RegisterAgainType, NoViolationType DEF TypeOK
<1>5. QED
  BY <1>2, <1>3, <1>4 DEF Register

\* Only time moves the clock.
LEMMA ClockStep ==
  ASSUME [Next]_vars
  PROVE  clock' = clock \/ clock' = clock + 1
<1> USE DEF Violates, NoViolation, defenseVars
<1>1. ASSUME NEW ip, NEW uid, NEW tok, NEW size, NEW gated, NEW once, Register(ip, uid, tok, size, gated, once)
      PROVE  clock' = clock
  BY <1>1 DEF Register
<1>2. ASSUME NEW ip, NEW uid, NEW tok, \/ ListForHost(ip, uid, tok)
                                       \/ Revoke(ip, uid, tok)
                                       \/ \E target : Kick(ip, uid, tok, target)
                                       \/ \E minutes : Extend(ip, uid, tok, minutes)
      PROVE  clock' = clock
  BY <1>2 DEF ListForHost, Revoke, Kick, Extend
<1>3. ASSUME NEW ip, NEW uid, NEW rid, NEW tok, NEW decision, NEW body, Decide(ip, uid, rid, tok, decision, body)
      PROVE  clock' = clock
  BY <1>3 DEF Decide
<1>4. ASSUME NEW ip, NEW uid, \/ \E rid : Resolve(ip, uid, rid) \/ ShowStatus(ip, uid, rid)
                              \/ \E size : RequestApproval(ip, uid, size) \/ PushTelemetry(ip, uid, size)
      PROVE  clock' = clock
  BY <1>4 DEF Resolve, ShowStatus, RequestApproval, PushTelemetry
<1>5. ASSUME NEW ip, BadParameter(ip)
      PROVE  clock' = clock
  BY <1>5 DEF BadParameter
<1>6. CASE Prune \/ Restart
  BY <1>6 DEF Prune, Restart
<1>7. CASE Tick
  BY <1>7 DEF Tick, AdvanceClock
<1>8. CASE UNCHANGED vars
  BY <1>8 DEF vars
<1>9. QED
  BY ZenonT(60), <1>1, <1>2, <1>3, <1>4, <1>5, <1>6, <1>7, <1>8 DEF Next

\* The requests that carry a host token, those that do not, and the other steps.
HostStep == \E ip \in Ips, uid \in Uids, tok \in Tokens \cup {NoToken} :
                \/ \E size \in Sizes \cup {Malformed}, gated, once \in BOOLEAN :
                     Register(ip, uid, tok, size, gated, once)
                \/ ListForHost(ip, uid, tok)
                \/ \E rid \in 1..serial, decision \in {"approved", "denied"}, body \in Bodies :
                     Decide(ip, uid, rid, tok, decision, body)
                \/ \E target \in Ips \cup {Everyone} : Kick(ip, uid, tok, target)
                \/ \E minutes \in Offered : Extend(ip, uid, tok, minutes)
                \/ Revoke(ip, uid, tok)

ClientStep == \E ip \in Ips, uid \in Uids :
                  \/ \E rid \in 0..serial : Resolve(ip, uid, rid)
                  \/ \E rid \in 1..serial : ShowStatus(ip, uid, rid)
                  \/ \E size \in Sizes \cup {Malformed} :
                       RequestApproval(ip, uid, size) \/ PushTelemetry(ip, uid, size)

LEMMA NextParts ==
  ASSUME Next
  PROVE  \/ HostStep \/ ClientStep \/ Prune \/ Restart \/ Tick
         \/ \E ip \in Ips : BadParameter(ip)
BY Zenon DEF Next, HostStep, ClientStep

\* No request, timer or restart leaves the broker's tables ill typed, and its
\* clock only runs forward from the start.
LEMMA AgesStep ==
  ASSUME Ages, [Next]_vars
  PROVE  Ages'
<1>1. TypeOK /\ StoreTypeOK /\ DefenseTypeOK /\ StartTime \in Nat /\ clock \in Nat
  BY DefenseAssumption DEF Ages, TypeOK, DefenseTypeOK, DefenseAssumption
<1>2. \A size \in Sizes \cup {Malformed} : size \in Nat
  BY SizeType
<1>3. TypeOK'
  <2>1. CASE UNCHANGED vars
    BY <1>1, <2>1 DEF TypeOK, StoreTypeOK, DefenseTypeOK, vars
  <2>2. ASSUME NEW ip \in Ips, NEW uid \in Uids, NEW tok \in Tokens \cup {NoToken}, NEW size \in Sizes \cup {Malformed},
               NEW gated \in BOOLEAN, NEW once \in BOOLEAN, Register(ip, uid, tok, size, gated, once)
        PROVE  TypeOK'
    BY <1>1, <2>2, RegisterType
  <2>3. ASSUME NEW ip \in Ips, NEW uid \in Uids, NEW tok \in Tokens \cup {NoToken}, ListForHost(ip, uid, tok)
        PROVE  TypeOK'
    BY <1>1, <2>3, ViolatesType DEF ListForHost
  <2>4. ASSUME NEW ip \in Ips, NEW uid \in Uids, NEW tok \in Tokens \cup {NoToken}, NEW rid \in 1..serial,
               NEW decision \in {"approved", "denied"}, NEW body \in Bodies, Decide(ip, uid, rid, tok, decision, body)
        PROVE  TypeOK'
    BY <1>1, <2>4, DecideType
  <2>5. ASSUME NEW ip \in Ips, NEW uid \in Uids, NEW tok \in Tokens \cup {NoToken}, NEW target \in Ips \cup {Everyone},
               Kick(ip, uid, tok, target)
        PROVE  TypeOK'
    BY <1>1, <2>5, KickType
  <2>6. ASSUME NEW ip \in Ips, NEW uid \in Uids, NEW tok \in Tokens \cup {NoToken}, NEW minutes \in Offered,
               Extend(ip, uid, tok, minutes)
        PROVE  TypeOK'
    BY <2>6, ExtendType DEF Offered
  <2>7. ASSUME NEW ip \in Ips, NEW uid \in Uids, NEW tok \in Tokens \cup {NoToken}, Revoke(ip, uid, tok)
        PROVE  TypeOK'
    <3>1. CASE Violates(ip)
      BY <1>1, <3>1, ViolatesType
    <3>2. CASE DeleteStoreEntry(uid) /\ NoViolation /\ UNCHANGED <<serial, uses>>
      BY <1>1, <2>7, <3>2, DeleteType, NoViolationType DEF Revoke, TypeOK, StoreTypeOK
    <3>3. QED
      BY <2>7, <3>1, <3>2 DEF Revoke
  <2>8. ASSUME NEW ip \in Ips, NEW uid \in Uids, NEW rid \in 0..serial, Resolve(ip, uid, rid)
        PROVE  TypeOK'
    BY <1>1, <2>8, ResolveType
  <2>9. ASSUME NEW ip \in Ips, NEW uid \in Uids, NEW rid \in 1..serial, ShowStatus(ip, uid, rid)
         PROVE  TypeOK'
    <3>1. serial \in Nat /\ rid \in Nat
      BY <1>1 DEF StoreTypeOK
    <3>2. uses' \in [Uids -> [total : Nat, once : Nat, shown : SUBSET Nat]]
      BY <1>1, <2>9, <3>1 DEF ShowStatus, StoreTypeOK
    <3>3. StoreTypeOK'
      BY <1>1, <2>9, <3>2 DEF ShowStatus, StoreTypeOK
    <3>4. QED
      BY <1>1, <2>9, <3>3, NoViolationType DEF ShowStatus, TypeOK
  <2>10. ASSUME NEW ip \in Ips, NEW uid \in Uids, NEW size \in Sizes \cup {Malformed}, RequestApproval(ip, uid, size)
        PROVE  TypeOK'
    <3>1. CASE size = Malformed
      BY <1>1, <2>10, <3>1, ViolatesType DEF RequestApproval
    <3>2. CASE size # Malformed
      <4>1. uid \in DOMAIN store /\ NoViolation
        BY <2>10, <3>2 DEF RequestApproval
      <4>2. StoreTypeOK'
        BY <1>1, <1>2, <2>10, <3>2, <4>1, RequestApprovalType
      <4>3. QED
        BY <1>1, <4>1, <4>2, NoViolationType DEF TypeOK
    <3>3. QED
      BY <3>1, <3>2
  <2>11. ASSUME NEW ip \in Ips, NEW uid \in Uids, NEW size \in Sizes \cup {Malformed}, PushTelemetry(ip, uid, size)
         PROVE  TypeOK'
    <3>1. CASE size = Malformed
      BY <1>1, <2>11, <3>1, ViolatesType DEF PushTelemetry
    <3>2. CASE size # Malformed
      <4>1. uid \in DOMAIN store /\ NoViolation
        BY <2>11, <3>2 DEF PushTelemetry
      <4>2. StoreTypeOK'
        BY <1>1, <1>2, <2>11, <3>2, <4>1, PushTelemetryType
      <4>3. QED
        BY <1>1, <4>1, <4>2, NoViolationType DEF TypeOK
    <3>3. QED
      BY <3>1, <3>2
  <2>12. ASSUME NEW ip \in Ips, BadParameter(ip) PROVE TypeOK'
    BY <1>1, <2>12, ViolatesType DEF BadParameter
  <2>13. CASE Prune
    BY <1>1, <2>13, PruneType
  <2>14. CASE Restart
    BY <1>1, <2>14 DEF Restart, ForgetDefense, EmptyMap, TypeOK, StoreTypeOK, DefenseTypeOK
  <2>15. CASE Tick
    BY <1>1, <2>15 DEF Tick, AdvanceClock, storeVars, TypeOK, StoreTypeOK, DefenseTypeOK
  <2>16. CASE HostStep
    BY <2>2, <2>3, <2>4, <2>5, <2>6, <2>7, <2>16 DEF HostStep
  <2>17. CASE ClientStep
    BY <2>8, <2>9, <2>10, <2>11, <2>17 DEF ClientStep
  <2>18. QED
    BY <2>1, <2>12, <2>13, <2>14, <2>15, <2>16, <2>17, NextParts
<1>4. clock' = clock \/ clock' = clock + 1
  BY ClockStep
<1>5. QED
  BY <1>1, <1>3, <1>4 DEF Ages, ClockStarted

LEMMA AgesInit ==
  ASSUME Init
  PROVE  Ages
<1>1. DefenseTypeOK /\ ClockStarted
  BY DefenseAssumption DEF DefenseAssumption, Init, DefenseInit, DefenseTypeOK, EmptyMap, ClockStarted
<1>2. StoreTypeOK
  BY DEF Init, Unused, StoreTypeOK, EmptyMap
<1>3. QED
  BY <1>1, <1>2 DEF Ages, TypeOK

\* The broker's tables keep their types in every reachable state (TypeOK), and
\* its clock stays at or after StartTime, which /extend needs to keep the
\* creation time of a record a point in time.
THEOREM TypeCorrect == Spec => []Ages
<1>1. Init => Ages
  BY AgesInit
<1>2. Ages /\ [Next]_vars => Ages'
  BY AgesStep
<1>3. QED
  BY <1>1, <1>2, PTL DEF Spec

THEOREM TypeInvariant == Spec => []TypeOK
<1>1. Ages => TypeOK
  BY DEF Ages
<1>2. QED
  BY <1>1, TypeCorrect, PTL


----------------------------------------------------------------------------
(* One-time delivery.                                                      *)

\* How a step may change the set of open records and the delivery history.
Quiet == UNCHANGED uses /\ DOMAIN store' \subseteq DOMAIN store

Opened(uid) ==
  /\ DOMAIN store' = DOMAIN store \cup {uid}
  /\ uses' = [uses EXCEPT ![uid] = Unused]

Consumed(uid) ==
  /\ uid \in DOMAIN store
  /\ DOMAIN store' = DOMAIN store \ {uid}
  /\ uses' = [uses EXCEPT ![uid].total = @ + 1, ![uid].once = @ + 1]

Served(uid) ==
  /\ DOMAIN store' = DOMAIN store
  /\ uses' = [uses EXCEPT ![uid].total = @ + 1, ![uid].once = @]

Shown(uid) ==
  /\ DOMAIN store' = DOMAIN store
  /\ \E rid : uses' = [uses EXCEPT ![uid].shown = @ \cup {rid}]

LEMMA UsesStep ==
  ASSUME Ages, [Next]_vars
  PROVE  \/ Quiet
         \/ \E uid \in Uids : Opened(uid) \/ Consumed(uid) \/ Served(uid) \/ Shown(uid)
<1> DEFINE Goal == Quiet \/ \E uid \in Uids : Opened(uid) \/ Consumed(uid) \/ Served(uid) \/ Shown(uid)
<1>1. \A uid : DeleteStoreEntry(uid) => DOMAIN store' = DOMAIN store \ {uid}
  BY DEF DeleteStoreEntry, Keep
<1>2. \A ip : Violates(ip) => Quiet
  BY DEF Violates, storeVars, Quiet
<1>3. \A uid, e : store' = [store EXCEPT ![uid] = e] => DOMAIN store' = DOMAIN store
  OBVIOUS
<1>4. ASSUME NEW uid \in Uids, uid \in DOMAIN store, Deliver(uid)
      PROVE  Consumed(uid) \/ Served(uid)
  <2>1. CASE store[uid].oneTime
    BY <1>1, <1>4, <2>1 DEF Deliver, Consumed
  <2>2. CASE ~store[uid].oneTime
    BY <1>4, <2>2 DEF Deliver, Served
  <2>3. QED
    BY <2>1, <2>2
<1>5. ASSUME NEW ip \in Ips, NEW uid \in Uids, NEW tok, NEW size, NEW gated, NEW once,
             Register(ip, uid, tok, size, gated, once)
      PROVE  Goal
  <2>1. CASE Violates(ip)
    BY <1>2, <2>1
  <2>2. CASE RegisterNew(uid, tok, size, gated, once)
    BY <2>2 DEF RegisterNew, Put, Opened
  <2>3. CASE RegisterAgain(uid, size, gated, once)
    BY <2>3 DEF RegisterAgain, Quiet
  <2>4. QED
    BY <1>5, <2>1, <2>2, <2>3 DEF Register
<1>6. ASSUME NEW ip, NEW uid \in Uids, NEW tok, ListForHost(ip, uid, tok) \/ Revoke(ip, uid, tok)
      PROVE  Goal
  BY <1>1, <1>2, <1>6 DEF ListForHost, Revoke, Quiet
<1>7. ASSUME NEW ip, NEW uid \in Uids, NEW rid, NEW tok, NEW decision, NEW body,
             Decide(ip, uid, rid, tok, decision, body)
      PROVE  Goal
  BY <1>2, <1>7 DEF Decide, Quiet
<1>8. ASSUME NEW ip, NEW uid \in Uids, NEW tok, NEW target, Kick(ip, uid, tok, target)
      PROVE  Goal
  BY <1>1, <1>8 DEF Kick, Quiet
<1>9. ASSUME NEW ip, NEW uid \in Uids, NEW tok, NEW minutes, Extend(ip, uid, tok, minutes)
      PROVE  Goal
  BY <1>9 DEF Extend, Quiet
<1>10. ASSUME NEW ip, NEW uid \in Uids, NEW rid, Resolve(ip, uid, rid)
       PROVE  Goal
  BY <1>1, <1>4, <1>10 DEF Resolve, Quiet
<1>11. ASSUME NEW ip, NEW uid \in Uids, NEW rid, ShowStatus(ip, uid, rid)
       PROVE  Goal
  BY <1>11 DEF ShowStatus, Shown
<1>12. ASSUME NEW ip, NEW uid \in Uids, NEW size, RequestApproval(ip, uid, size) \/ PushTelemetry(ip, uid, size)
       PROVE  Goal
  BY <1>2, <1>12 DEF RequestApproval, PushTelemetry, Quiet
<1>13. ASSUME NEW ip, BadParameter(ip)
       PROVE  Goal
  BY <1>2, <1>13 DEF BadParameter
<1>14. CASE Prune
  BY <1>14 DEF Prune, Unexpired, Quiet
<1>15. CASE Restart
  BY <1>15 DEF Restart, EmptyMap, Quiet
<1>16. CASE Tick
  BY <1>16 DEF Tick, storeVars, Quiet
<1>17. CASE UNCHANGED vars
  BY <1>17 DEF vars, Quiet
<1>18. QED
  BY <1>5, <1>6, <1>7, <1>8, <1>9, <1>10, <1>11, <1>12, <1>13, <1>14, <1>15, <1>16, <1>17 DEF Next

\* No open record has been delivered one-time: that delivery removes it, and a
\* record under the same UID starts a new count.
OnceInvariant ==
  /\ OneTimeDeliveredOnce
  /\ \A uid \in DOMAIN store : uses[uid].once = 0

LEMMA OnceStep ==
  ASSUME Ages, OnceInvariant, [Next]_vars
  PROVE  OnceInvariant'
<1>1. DOMAIN store \subseteq Uids /\ uses \in [Uids -> [total : Nat, once : Nat, shown : SUBSET Nat]]
  BY DEF Ages, TypeOK, StoreTypeOK
<1>2. CASE Quiet
  BY <1>2 DEF Quiet, OnceInvariant, OneTimeDeliveredOnce
<1>3. ASSUME NEW uid \in Uids, Opened(uid) PROVE OnceInvariant'
  BY <1>1, <1>3 DEF Opened, Unused, OnceInvariant, OneTimeDeliveredOnce
<1>4. ASSUME NEW uid \in Uids, Consumed(uid) PROVE OnceInvariant'
  BY <1>1, <1>4 DEF Consumed, OnceInvariant, OneTimeDeliveredOnce
<1>5. ASSUME NEW uid \in Uids, Served(uid) PROVE OnceInvariant'
  BY <1>1, <1>5 DEF Served, OnceInvariant, OneTimeDeliveredOnce
<1>6. ASSUME NEW uid \in Uids, Shown(uid) PROVE OnceInvariant'
  BY <1>1, <1>6 DEF Shown, OnceInvariant, OneTimeDeliveredOnce
<1>7. QED
  BY <1>2, <1>3, <1>4, <1>5, <1>6, UsesStep

\* A one-time record is delivered at most once, however its host registers it
\* again, the prune runs or the broker restarts in between (Deliver).
THEOREM OneTime == Spec => []OneTimeDeliveredOnce
<1>1. Init => OnceInvariant
  BY DEF Init, Unused, EmptyMap, OnceInvariant, OneTimeDeliveredOnce
<1>2. Ages /\ OnceInvariant /\ [Next]_vars => OnceInvariant'
  BY OnceStep
<1>3. OnceInvariant => OneTimeDeliveredOnce
  BY DEF OnceInvariant
<1>4. QED
  BY <1>1, <1>2, <1>3, TypeCorrect, PTL DEF Spec


----------------------------------------------------------------------------
(* The age of records.                                                     *)

\* How a step may change the creation times of open records.
DatesKept ==
  \A u \in DOMAIN store' : u \in DOMAIN store /\ store'[u].createdAt = store[u].createdAt

Dated(uid) ==
  \A u \in DOMAIN store' :
    IF u = uid THEN store'[u].createdAt \in {clock, NaN} \/ store'[u].createdAt <= clock
    ELSE u \in DOMAIN store /\ store'[u].createdAt = store[u].createdAt

LEMMA AdjustedPast ==
  ASSUME Ages, NEW createdAt \in Nat \cup {NaN}, NEW minutes \in Minutes \cup {NaN}
  PROVE  Adjusted(createdAt, minutes) = NaN \/ Adjusted(createdAt, minutes) <= clock
<1>1. CASE minutes = NaN
  BY <1>1 DEF Adjusted
<1>2. CASE minutes # NaN
  <2>1. /\ clock \in Nat /\ TTL \in Nat /\ MaxAdjust \in Nat /\ MinRemaining \in Nat
    BY BrokerAssumption DEF BrokerAssumption, Ages, TypeOK, DefenseTypeOK
  <2>2. minutes \in Int
    BY <1>2, BrokerAssumption DEF BrokerAssumption
  <2>3. (IF createdAt = NaN THEN clock ELSE createdAt) \in Nat
    BY <2>1
  <2>4. QED
    BY <1>2, <2>1, <2>2, <2>3 DEF Adjusted, Lesser, Greater
<1>3. QED
  BY <1>1, <1>2

LEMMA DatesStep ==
  ASSUME Ages, [Next]_vars
  PROVE  DatesKept \/ \E uid \in Uids : Dated(uid)
<1> DEFINE Goal == DatesKept \/ \E uid \in Uids : Dated(uid)
<1>1. \A u \in DOMAIN store : IsEntry(store[u], serial)
  BY DEF Ages, TypeOK, StoreTypeOK
<1>2. \A uid : DeleteStoreEntry(uid) => DatesKept
  BY DEF DeleteStoreEntry, Keep, DatesKept
<1>3. \A ip : Violates(ip) => DatesKept
  BY DEF Violates, storeVars, DatesKept
\* A step that updates one record but not its creation time.
<1>4. ASSUME NEW uid, NEW e, store' = [store EXCEPT ![uid] = e],
             uid \in DOMAIN store => e.createdAt = store[uid].createdAt
      PROVE  DatesKept
  BY <1>4 DEF DatesKept
<1>5. ASSUME NEW ip \in Ips, NEW uid \in Uids, NEW tok, NEW size, NEW gated, NEW once,
             Register(ip, uid, tok, size, gated, once)
      PROVE  Goal
  <2>1. CASE Violates(ip)
    BY <1>3, <2>1
  <2>2. CASE RegisterNew(uid, tok, size, gated, once)
    <3>1. PICK t \in NewToken(tok) : store' = Put(store, uid, NewEntry(t, size, gated, once))
      BY <2>2 DEF RegisterNew
    <3>2. Dated(uid)
      BY <3>1 DEF Dated, Put, NewEntry
    <3>3. QED
      BY <3>2
  <2>3. CASE uid \in DOMAIN store /\ RegisterAgain(uid, size, gated, once)
    <3>1. Refreshed(store[uid], size, gated, once).createdAt = store[uid].createdAt
      BY <1>1, <2>3 DEF Refreshed, IsEntry, Entry
    <3>2. store' = [store EXCEPT ![uid] = Refreshed(store[uid], size, gated, once)]
      BY <2>3 DEF RegisterAgain
    <3>3. QED
      BY <1>4, <3>1, <3>2
  <2>4. QED
    BY <1>5, <2>1, <2>2, <2>3 DEF Register
<1>6. ASSUME NEW ip, NEW uid \in Uids, NEW tok, ListForHost(ip, uid, tok) \/ Revoke(ip, uid, tok)
      PROVE  Goal
  BY <1>2, <1>3, <1>6 DEF ListForHost, Revoke
<1>7. ASSUME NEW ip, NEW uid \in Uids, NEW rid, NEW tok, NEW decision, NEW body,
             Decide(ip, uid, rid, tok, decision, body)
      PROVE  Goal
  BY SMTT(60), <1>1, <1>3, <1>7 DEF Decide, DatesKept, IsEntry, Entry
<1>8. ASSUME NEW ip, NEW uid \in Uids, NEW tok, NEW target, Kick(ip, uid, tok, target)
      PROVE  Goal
  BY <1>1, <1>2, <1>8 DEF Kick, DatesKept, IsEntry, Entry
<1>9. ASSUME NEW ip, NEW uid \in Uids, NEW tok, NEW minutes \in Minutes \cup {NaN}, Extend(ip, uid, tok, minutes)
      PROVE  Goal
  <2>1. uid \in DOMAIN store /\ store' = [store EXCEPT ![uid].createdAt = Adjusted(store[uid].createdAt, minutes)]
    BY <1>9 DEF Extend
  <2>2. store[uid].createdAt \in Nat \cup {NaN}
    BY <1>1, <2>1 DEF IsEntry, Entry
  <2>3. \/ Adjusted(store[uid].createdAt, minutes) = NaN
        \/ Adjusted(store[uid].createdAt, minutes) <= clock
    BY <2>2, AdjustedPast
  <2>4. store'[uid].createdAt = Adjusted(store[uid].createdAt, minutes)
    BY <1>1, <2>1 DEF IsEntry, Entry
  <2>5. Dated(uid)
    BY <2>1, <2>3, <2>4 DEF Dated
  <2>6. QED
    BY <2>5
<1>10. ASSUME NEW ip, NEW uid \in Uids, NEW rid, Resolve(ip, uid, rid)
       PROVE  Goal
  BY <1>1, <1>2, <1>10 DEF Resolve, Deliver, DatesKept, IsEntry, Entry
<1>11. ASSUME NEW ip, NEW uid, NEW rid, ShowStatus(ip, uid, rid)
       PROVE  Goal
  BY <1>11 DEF ShowStatus, DatesKept
<1>12. ASSUME NEW ip, NEW uid \in Uids, NEW size, RequestApproval(ip, uid, size) \/ PushTelemetry(ip, uid, size)
       PROVE  Goal
  BY <1>1, <1>3, <1>12 DEF RequestApproval, PushTelemetry, DatesKept, IsEntry, Entry
<1>13. ASSUME NEW ip, BadParameter(ip)
       PROVE  Goal
  BY <1>3, <1>13 DEF BadParameter
<1>14. CASE Prune
  <2>1. \A u \in Unexpired : Trimmed(store[u]).createdAt = store[u].createdAt
    BY <1>1 DEF Unexpired, Trimmed, IsEntry, Entry
  <2>2. QED
    BY <1>14, <2>1 DEF Prune, Unexpired, DatesKept
<1>15. CASE Restart
  BY <1>15 DEF Restart, EmptyMap, DatesKept
<1>16. CASE Tick
  BY <1>16 DEF Tick, storeVars, DatesKept
<1>17. CASE UNCHANGED vars
  BY <1>17 DEF vars, DatesKept
<1>18. QED
  BY <1>5, <1>6, <1>7, <1>8, <1>9, <1>10, <1>11, <1>12, <1>13, <1>14, <1>15, <1>16, <1>17 DEF Next, Offered

\* However often and by whatever minutes a host adjusts its record, no record is
\* ever left with more than one TTL of life (Adjusted).
THEOREM Remains == Spec => []RemainingWithinTTL
<1>1. Init => RemainingWithinTTL
  BY DEF Init, EmptyMap, RemainingWithinTTL
<1>2. Ages /\ RemainingWithinTTL /\ [Next]_vars => RemainingWithinTTL'
  <2>1. SUFFICES ASSUME Ages, RemainingWithinTTL, [Next]_vars,
                        NEW u \in DOMAIN store', store'[u].createdAt # NaN
                 PROVE  store'[u].createdAt <= clock'
    BY DEF RemainingWithinTTL
  <2>2. clock \in Nat /\ (clock' = clock \/ clock' = clock + 1)
    BY <2>1, ClockStep DEF Ages, TypeOK, DefenseTypeOK
  <2>3. Ages'
    BY <2>1, AgesStep
  <2>4. store'[u].createdAt \in Nat
    BY <2>1, <2>3 DEF Ages, TypeOK, StoreTypeOK, IsEntry, Entry
  <2>5. store'[u].createdAt <= clock
    <3>1. \/ store'[u].createdAt \in {clock, NaN} \/ store'[u].createdAt <= clock
          \/ u \in DOMAIN store /\ store'[u].createdAt = store[u].createdAt
      BY <2>1, DatesStep DEF DatesKept, Dated
    <3>2. QED
      BY <2>1, <2>2, <3>1 DEF RemainingWithinTTL
  <2>6. QED
    BY <2>2, <2>4, <2>5
<1>3. QED
  BY <1>1, <1>2, TypeCorrect, PTL DEF Spec

----------------------------------------------------------------------------
(* The active defence.                                                     *)

\* How a step may change the two tables of the defence.
LEMMA DefenseStep ==
  ASSUME [Next]_vars
  PROVE  \/ UNCHANGED <<ipViolations, blacklistedIPs>>
         \/ \E ip \in Ips : Admitted(ip) /\ RecordViolation(ip)
         \/ PruneDefense
         \/ ForgetDefense
<1> DEFINE Goal == \/ UNCHANGED <<ipViolations, blacklistedIPs>>
                   \/ \E ip \in Ips : Admitted(ip) /\ RecordViolation(ip)
<1> USE DEF Violates, NoViolation, defenseVars
<1>1. ASSUME NEW ip \in Ips, NEW uid, NEW tok, NEW size, NEW gated, NEW once,
             Register(ip, uid, tok, size, gated, once)
      PROVE  Goal
  BY <1>1 DEF Register
<1>2. ASSUME NEW ip \in Ips, NEW uid, NEW tok, \/ ListForHost(ip, uid, tok)
                                               \/ Revoke(ip, uid, tok)
                                               \/ \E target : Kick(ip, uid, tok, target)
                                               \/ \E minutes : Extend(ip, uid, tok, minutes)
      PROVE  Goal
  BY <1>2 DEF ListForHost, Revoke, Kick, Extend
<1>3. ASSUME NEW ip \in Ips, NEW uid, NEW rid, NEW tok, NEW decision, NEW body,
             Decide(ip, uid, rid, tok, decision, body)
      PROVE  Goal
  BY <1>3 DEF Decide
<1>4. ASSUME NEW ip \in Ips, NEW uid, \/ \E rid : Resolve(ip, uid, rid) \/ ShowStatus(ip, uid, rid)
                                      \/ \E size : RequestApproval(ip, uid, size) \/ PushTelemetry(ip, uid, size)
      PROVE  Goal
  BY <1>4 DEF Resolve, ShowStatus, RequestApproval, PushTelemetry
<1>5. ASSUME NEW ip \in Ips, BadParameter(ip)
      PROVE  Goal
  BY <1>5 DEF BadParameter
<1>6. CASE Prune \/ Restart
  BY <1>6 DEF Prune, Restart
<1>7. CASE Tick \/ UNCHANGED vars
  BY <1>7 DEF Tick, vars
<1>8. QED
  BY ZenonT(60), <1>1, <1>2, <1>3, <1>4, <1>5, <1>6, <1>7 DEF Next

\* A table that never outgrows its limit is only aged by the prune.
LEMMA NothingCut ==
  ASSUME NEW keys, keys \subseteq Ips, Cardinality(Ips) <= MaxViolations,
         NEW S, NEW age, LeavesNewest(S, keys, age, MaxViolations)
  PROVE  S = keys
<1>1. Cardinality(keys) <= Cardinality(Ips) /\ Cardinality(keys) \in Nat /\ Cardinality(Ips) \in Nat
  BY DefenseAssumption, FS_Subset, FS_CardinalityType DEF DefenseAssumption
<1>2. Cardinality(keys) <= MaxViolations
  BY <1>1, DefenseAssumption DEF DefenseAssumption
<1>3. QED
  BY <1>2 DEF LeavesNewest

\* Bans and the records that earned them are made, aged and forgotten together
\* (recordViolation, the ban middleware and pruneExpired), as long as the
\* tables have room for every address.
THEOREM Bans == Spec => []BansMatchViolations
<1>1. Init => BansMatchViolations
  BY DEF Init, DefenseInit, EmptyMap, BansMatchViolations
<1>2. Ages /\ BansMatchViolations /\ [Next]_vars => BansMatchViolations'
  <2>1. SUFFICES ASSUME Ages, BansMatchViolations, [Next]_vars, Cardinality(Ips) <= MaxViolations
                 PROVE  BansMatchViolations'
    BY DEF BansMatchViolations
  <2>2. CASE UNCHANGED <<ipViolations, blacklistedIPs>>
    BY <2>1, <2>2 DEF BansMatchViolations
  <2>3. ASSUME NEW ip \in Ips, Admitted(ip), RecordViolation(ip)
        PROVE  BansMatchViolations'
    BY <2>1, <2>3 DEF BansMatchViolations, Admitted, RecordViolation, Put
  <2>4. CASE PruneDefense
    <3>1. DOMAIN ipViolations \subseteq Ips /\ DOMAIN blacklistedIPs \subseteq Ips
      BY <2>1 DEF Ages, TypeOK, DefenseTypeOK
    <3>2. ipViolations' = Keep(ipViolations, FreshViolations)
      BY <2>1, <2>4, <3>1, NothingCut DEF PruneDefense, FreshViolations
    <3>3. blacklistedIPs' = Keep(blacklistedIPs, FreshBans)
      BY <2>1, <2>4, <3>1, NothingCut DEF PruneDefense, FreshBans
    <3>4. QED
      BY <2>1, <3>2, <3>3 DEF BansMatchViolations, Keep, FreshViolations, FreshBans
  <2>5. CASE ForgetDefense
    BY <2>5 DEF ForgetDefense, EmptyMap, BansMatchViolations
  <2>6. QED
    BY <2>1, <2>2, <2>3, <2>4, <2>5, DefenseStep
<1>3. QED
  BY <1>1, <1>2, TypeCorrect, PTL DEF Spec

----------------------------------------------------------------------------
(* Sums, as numbers of units.                                              *)

Units(w) == UNION {{x} \X (1..w[x]) : x \in DOMAIN w}

LEMMA UnitsIn ==
  /\ \A w, x, i : <<x, i>> \in Units(w) <=> x \in DOMAIN w /\ i \in 1..w[x]
  /\ \A w : \A z \in Units(w) : z = <<z[1], z[2]>> /\ z[1] \in DOMAIN w /\ z[2] \in 1..w[z[1]]
BY DEF Units

LEMMA UnitsFinite ==
  ASSUME NEW w, IsFiniteSet(DOMAIN w), \A x \in DOMAIN w : w[x] \in Nat
  PROVE  IsFiniteSet(Units(w)) /\ Total(w) = Cardinality(Units(w)) /\ Total(w) \in Nat
BY TotalFinite DEF Units, Total

LEMMA TotalNone == \A w : DOMAIN w = {} => Total(w) = 0
<1> SUFFICES ASSUME NEW w, DOMAIN w = {} PROVE Total(w) = 0
  OBVIOUS
<1>1. UNION {{x} \X (1..w[x]) : x \in DOMAIN w} = {}
  OBVIOUS
<1>2. QED
  BY <1>1, FS_EmptySet DEF Total

\* A sum depends only on the values.
LEMMA TotalSame ==
  ASSUME NEW v, NEW w, DOMAIN v = DOMAIN w, \A x \in DOMAIN w : v[x] = w[x]
  PROVE  Total(v) = Total(w)
<1>1. {{x} \X (1..v[x]) : x \in DOMAIN v} = {{x} \X (1..w[x]) : x \in DOMAIN w}
  OBVIOUS
<1>2. QED
  BY <1>1 DEF Total

\* Fewer and smaller values have a smaller sum.
LEMMA TotalLesser ==
  ASSUME NEW v, NEW w, IsFiniteSet(DOMAIN w), \A x \in DOMAIN w : w[x] \in Nat,
         DOMAIN v \subseteq DOMAIN w, \A x \in DOMAIN v : v[x] \in Nat /\ v[x] <= w[x]
  PROVE  Total(v) <= Total(w)
<1>1. Units(v) \subseteq Units(w)
  <2>1. SUFFICES ASSUME NEW z \in Units(v) PROVE z \in Units(w)
    OBVIOUS
  <2>2. z = <<z[1], z[2]>> /\ z[1] \in DOMAIN v /\ z[2] \in 1..v[z[1]]
    BY UnitsIn
  <2>3. z[1] \in DOMAIN w /\ z[2] \in 1..w[z[1]]
    BY <2>2
  <2>4. QED
    BY <2>2, <2>3, UnitsIn
<1>2. IsFiniteSet(DOMAIN v)
  BY FS_Subset
<1>3. QED
  BY <1>1, <1>2, UnitsFinite, FS_Subset

\* The sum of sums.
LEMMA TotalSum ==
  ASSUME NEW u, NEW v, NEW w, IsFiniteSet(DOMAIN u), DOMAIN v = DOMAIN u, DOMAIN w = DOMAIN u,
         \A x \in DOMAIN u : v[x] \in Nat /\ w[x] \in Nat /\ u[x] = v[x] + w[x]
  PROVE  Total(u) = Total(v) + Total(w)
<1> DEFINE upper == Units(u) \ Units(v)
           lift == [z \in Units(w) |-> <<z[1], z[2] + v[z[1]]>>]
<1>1. \A x \in DOMAIN u : u[x] \in Nat
  OBVIOUS
<1>2. /\ IsFiniteSet(Units(u)) /\ Total(u) = Cardinality(Units(u)) /\ Total(u) \in Nat
      /\ IsFiniteSet(Units(v)) /\ Total(v) = Cardinality(Units(v)) /\ Total(v) \in Nat
      /\ IsFiniteSet(Units(w)) /\ Total(w) = Cardinality(Units(w)) /\ Total(w) \in Nat
  BY <1>1, UnitsFinite
<1>3. ASSUME NEW z \in Units(v) PROVE z \in Units(u)
  <2>1. z = <<z[1], z[2]>> /\ z[1] \in DOMAIN v /\ z[2] \in 1..v[z[1]]
    BY UnitsIn
  <2>2. z[1] \in DOMAIN u /\ z[2] \in 1..u[z[1]]
    BY <2>1
  <2>3. QED
    BY <2>1, <2>2, UnitsIn
<1>4. lift \in [Units(w) -> upper]
  <2>1. SUFFICES ASSUME NEW z \in Units(w) PROVE <<z[1], z[2] + v[z[1]]>> \in upper
    OBVIOUS
  <2>2. z[1] \in DOMAIN u /\ z[2] \in 1..w[z[1]]
    BY UnitsIn
  <2>3. z[2] + v[z[1]] \in 1..u[z[1]] /\ z[2] + v[z[1]] \notin 1..v[z[1]]
    BY <2>2
  <2>4. QED
    BY <2>2, <2>3, UnitsIn
<1>5. ASSUME NEW y \in Units(w), NEW z \in Units(w), lift[y] = lift[z] PROVE y = z
  <2>1. /\ y = <<y[1], y[2]>> /\ y[1] \in DOMAIN u /\ y[2] \in 1..w[y[1]]
        /\ z = <<z[1], z[2]>> /\ z[1] \in DOMAIN u /\ z[2] \in 1..w[z[1]]
    BY UnitsIn
  <2>2. <<y[1], y[2] + v[y[1]]>> = <<z[1], z[2] + v[z[1]]>>
    BY <1>5
  <2>3. y[1] = z[1] /\ y[2] + v[y[1]] = z[2] + v[z[1]]
    BY <2>2
  <2>4. y[2] = z[2]
    BY <2>1, <2>3
  <2>5. QED
    BY <2>1, <2>3, <2>4
<1>6. ASSUME NEW z \in upper PROVE \E y \in Units(w) : lift[y] = z
  <2>1. z = <<z[1], z[2]>> /\ z[1] \in DOMAIN u /\ z[2] \in 1..u[z[1]]
    BY UnitsIn
  <2>2. z[2] \notin 1..v[z[1]]
    BY <2>1, UnitsIn
  <2>3. z[2] - v[z[1]] \in 1..w[z[1]] /\ (z[2] - v[z[1]]) + v[z[1]] = z[2]
    BY <2>1, <2>2
  <2>4. <<z[1], z[2] - v[z[1]]>> \in Units(w)
    BY <2>1, <2>3, UnitsIn
  <2>5. lift[<<z[1], z[2] - v[z[1]]>>] = <<z[1], (z[2] - v[z[1]]) + v[z[1]]>>
    BY <2>4
  <2>6. QED
    BY <2>1, <2>3, <2>4, <2>5
<1>7. ExistsBijection(Units(w), upper)
  <2> HIDE DEF lift, upper
  <2>1. lift \in Injection(Units(w), upper)
    BY <1>4, <1>5 DEF Injection, IsInjective
  <2>2. lift \in Surjection(Units(w), upper)
    BY <1>4, <1>6 DEF Surjection
  <2>3. QED
    BY <2>1, <2>2 DEF ExistsBijection, Bijection
<1>8. IsFiniteSet(upper) /\ Cardinality(upper) = Total(w)
  <2> HIDE DEF lift, upper
  <2>1. QED
    BY <1>2, <1>7, FS_Bijection
<1>9. Units(u) = Units(v) \cup upper /\ Units(v) \cap upper = {}
  BY <1>3
<1> HIDE DEF lift, upper
<1>10. Cardinality(Units(v) \cup upper)
         = Cardinality(Units(v)) + Cardinality(upper) - Cardinality(Units(v) \cap upper)
  BY <1>2, <1>8, FS_Union
<1>11. Cardinality(Units(v) \cap upper) = 0
  BY <1>9, FS_EmptySet
<1>12. QED
  BY <1>2, <1>8, <1>9, <1>10, <1>11

\* One value apart from the others.
LEMMA TotalAt ==
  ASSUME NEW w, IsFiniteSet(DOMAIN w), \A x \in DOMAIN w : w[x] \in Nat, NEW x \in DOMAIN w
  PROVE  Total(w) = w[x] + Total(Keep(w, DOMAIN w \ {x}))
<1> DEFINE rest == Keep(w, DOMAIN w \ {x})
           block == {x} \X (1..w[x])
<1>1. DOMAIN rest = DOMAIN w \ {x} /\ \A y \in DOMAIN rest : rest[y] = w[y]
  BY DEF Keep
<1> HIDE DEF rest
<1>2. IsFiniteSet(DOMAIN rest)
  BY <1>1, FS_Subset
<1>3. /\ IsFiniteSet(Units(w)) /\ Total(w) = Cardinality(Units(w)) /\ Total(w) \in Nat
      /\ IsFiniteSet(Units(rest)) /\ Total(rest) = Cardinality(Units(rest)) /\ Total(rest) \in Nat
  BY <1>1, <1>2, UnitsFinite
<1>4. IsFiniteSet(block) /\ Cardinality(block) = w[x]
  <2>1. IsFiniteSet({x}) /\ Cardinality({x}) = 1
    BY FS_Singleton
  <2>2. IsFiniteSet(1..w[x]) /\ Cardinality(1..w[x]) = w[x]
    <3>1. 1 \in Int /\ w[x] \in Int /\ w[x] \in Nat
      OBVIOUS
    <3>2. /\ IsFiniteSet(1..w[x])
          /\ Cardinality(1..w[x]) = IF 1 > w[x] THEN 0 ELSE w[x] - 1 + 1
      BY <3>1, FS_Interval
    <3>3. QED
      BY <3>1, <3>2
  <2>3. /\ IsFiniteSet({x} \X (1..w[x]))
        /\ Cardinality({x} \X (1..w[x])) = Cardinality({x}) * Cardinality(1..w[x])
    BY <2>1, <2>2, FS_Product
  <2>4. Cardinality({x}) * Cardinality(1..w[x]) = 1 * w[x] /\ 1 * w[x] = w[x]
    BY <2>1, <2>2
  <2>5. QED
    BY <2>3, <2>4
<1>5. Units(w) = Units(rest) \cup block
  <2>1. ASSUME NEW z \in Units(w) PROVE z \in Units(rest) \cup block
    <3>1. z = <<z[1], z[2]>> /\ z[1] \in DOMAIN w /\ z[2] \in 1..w[z[1]]
      BY UnitsIn
    <3>2. CASE z[1] = x
      BY <3>1, <3>2
    <3>3. CASE z[1] # x
      BY <1>1, <3>1, <3>3, UnitsIn
    <3>4. QED
      BY <3>2, <3>3
  <2>2. ASSUME NEW z \in Units(rest) PROVE z \in Units(w)
    <3>1. z = <<z[1], z[2]>> /\ z[1] \in DOMAIN rest /\ z[2] \in 1..rest[z[1]]
      BY UnitsIn
    <3>2. QED
      BY <1>1, <3>1, UnitsIn
  <2>3. ASSUME NEW z \in block PROVE z \in Units(w)
    <3>1. z = <<x, z[2]>> /\ z[2] \in 1..w[x]
      OBVIOUS
    <3>2. QED
      BY <3>1, UnitsIn
  <2>4. QED
    BY <2>1, <2>2, <2>3
<1>6. Units(rest) \cap block = {}
  <2>1. SUFFICES ASSUME NEW z \in Units(rest), z \in block PROVE FALSE
    OBVIOUS
  <2>2. z[1] \in DOMAIN rest /\ z[1] = x
    BY <2>1, UnitsIn
  <2>3. QED
    BY <1>1, <2>2
<1>7. Cardinality(Units(rest) \cup block) = Total(rest) + w[x] - 0
  <2> HIDE DEF block
  <2>1. QED
    BY <1>3, <1>4, <1>6, FS_Union, FS_EmptySet
<1>8. QED
  <2>1. Total(w) = Total(rest) + w[x] - 0
    BY <1>3, <1>5, <1>7
  <2>2. Total(rest) \in Nat /\ w[x] \in Nat
    BY <1>3
  <2>3. QED
    BY <2>1, <2>2 DEF rest

\* What a change of one value, or a new one, does to a sum.
LEMMA TotalChange ==
  ASSUME NEW v, NEW w, IsFiniteSet(DOMAIN w), NEW x \in DOMAIN w, DOMAIN v = DOMAIN w,
         \A y \in DOMAIN w : w[y] \in Nat /\ v[y] \in Nat /\ (y # x => v[y] = w[y])
  PROVE  Total(v) = Total(w) - w[x] + v[x]
<1>1. /\ Total(v) = v[x] + Total(Keep(v, DOMAIN v \ {x}))
      /\ Total(w) = w[x] + Total(Keep(w, DOMAIN w \ {x}))
  BY TotalAt
<1>2. Total(Keep(v, DOMAIN v \ {x})) = Total(Keep(w, DOMAIN w \ {x}))
  <2>1. /\ DOMAIN Keep(v, DOMAIN v \ {x}) = DOMAIN Keep(w, DOMAIN w \ {x})
        /\ \A y \in DOMAIN Keep(w, DOMAIN w \ {x}) :
             Keep(v, DOMAIN v \ {x})[y] = Keep(w, DOMAIN w \ {x})[y]
    BY DEF Keep
  <2>2. QED
    BY <2>1, TotalSame
<1>3. Total(v) \in Nat /\ Total(w) \in Nat /\ v[x] \in Nat /\ w[x] \in Nat
  BY UnitsFinite
<1>4. Total(Keep(w, DOMAIN w \ {x})) \in Nat
  <2>1. /\ IsFiniteSet(DOMAIN Keep(w, DOMAIN w \ {x}))
        /\ \A y \in DOMAIN Keep(w, DOMAIN w \ {x}) : Keep(w, DOMAIN w \ {x})[y] \in Nat
    BY FS_Subset DEF Keep
  <2>2. QED
    BY <2>1, UnitsFinite
<1>5. QED
  BY <1>1, <1>2, <1>3, <1>4

LEMMA TotalPut ==
  ASSUME NEW v, NEW w, IsFiniteSet(DOMAIN v), NEW x, x \notin DOMAIN w, DOMAIN v = DOMAIN w \cup {x},
         \A y \in DOMAIN v : v[y] \in Nat, \A y \in DOMAIN w : v[y] = w[y]
  PROVE  Total(v) = Total(w) + v[x]
<1>1. x \in DOMAIN v
  OBVIOUS
<1>2. Total(v) = v[x] + Total(Keep(v, DOMAIN v \ {x}))
  BY <1>1, TotalAt
<1>3. Total(Keep(v, DOMAIN v \ {x})) = Total(w)
  <2>1. /\ DOMAIN Keep(v, DOMAIN v \ {x}) = DOMAIN w
        /\ \A y \in DOMAIN w : Keep(v, DOMAIN v \ {x})[y] = w[y]
    BY DEF Keep
  <2>2. QED
    BY <2>1, TotalSame
<1>4. Total(w) \in Nat /\ v[x] \in Nat
  <2>1. IsFiniteSet(DOMAIN w) /\ \A y \in DOMAIN w : w[y] \in Nat
    BY FS_Subset
  <2>2. QED
    BY <1>1, <2>1, UnitsFinite
<1>5. QED
  BY <1>2, <1>3, <1>4

----------------------------------------------------------------------------
(* Entries and the store.                                                  *)

\* What an entry holds besides the payloads its host attached, and those.
PlainSizes(e) == [i \in DOMAIN e.approvals |-> e.approvals[i].size]
Payloads(e) == [i \in DOMAIN e.approvals |-> e.approvals[i].approvedPayload]
PlainBytes(e) == e.size + Total(ClientSizes(e)) + Total(PlainSizes(e))

\* A request that waits for its verdict has no payload.
Unpaid(e) ==
  \A i \in DOMAIN e.approvals : Undecided(e.approvals[i]) => e.approvals[i].approvedPayload = NoPayload

LEMMA EntryMaps ==
  ASSUME NEW e, NEW n \in Nat, IsEntry(e, n)
  PROVE  /\ e.size \in Nat
         /\ IsFiniteSet(DOMAIN e.clients) /\ IsFiniteSet(DOMAIN e.approvals)
         /\ DOMAIN ClientSizes(e) = DOMAIN e.clients
         /\ DOMAIN ApprovalSizes(e) = DOMAIN e.approvals
         /\ DOMAIN PlainSizes(e) = DOMAIN e.approvals
         /\ DOMAIN Payloads(e) = DOMAIN e.approvals
         /\ \A i \in DOMAIN e.clients : ClientSizes(e)[i] = e.clients[i].size /\ ClientSizes(e)[i] \in Nat
         /\ \A i \in DOMAIN e.approvals :
              /\ PlainSizes(e)[i] = e.approvals[i].size /\ PlainSizes(e)[i] \in Nat
              /\ Payloads(e)[i] = e.approvals[i].approvedPayload /\ Payloads(e)[i] \in Nat
              /\ ApprovalSizes(e)[i] = PlainSizes(e)[i] + Payloads(e)[i] /\ ApprovalSizes(e)[i] \in Nat
<1>1. IsFiniteSet(1..n)
  BY 1 \in Int, n \in Int, FS_Interval
<1>2. IsFiniteSet(DOMAIN e.clients) /\ IsFiniteSet(DOMAIN e.approvals)
  BY <1>1, FS_Subset DEF IsEntry
<1>3. /\ e.size \in Nat
      /\ \A i \in DOMAIN e.clients : e.clients[i] \in Client
      /\ \A i \in DOMAIN e.approvals : e.approvals[i] \in Approval
  BY DEF IsEntry, Entry
<1>4. QED
  BY <1>2, <1>3 DEF ClientSizes, ApprovalSizes, PlainSizes, Payloads, ApprovalBytes, Client, Approval

LEMMA EntryParts ==
  ASSUME NEW e, NEW n \in Nat, IsEntry(e, n)
  PROVE  /\ EntryBytes(e) = PlainBytes(e) + Total(Payloads(e))
         /\ EntryBytes(e) \in Nat /\ PlainBytes(e) \in Nat /\ Total(Payloads(e)) \in Nat
         /\ e.size \in Nat /\ Total(ClientSizes(e)) \in Nat
         /\ Total(ApprovalSizes(e)) \in Nat /\ Total(PlainSizes(e)) \in Nat
<1>1. Total(ApprovalSizes(e)) = Total(PlainSizes(e)) + Total(Payloads(e))
  BY EntryMaps, TotalSum
<1>2. /\ e.size \in Nat /\ Total(ClientSizes(e)) \in Nat /\ Total(PlainSizes(e)) \in Nat
      /\ Total(Payloads(e)) \in Nat /\ Total(ApprovalSizes(e)) \in Nat
  BY EntryMaps, UnitsFinite
<1>3. QED
  BY <1>1, <1>2 DEF EntryBytes, PlainBytes

\* A map of well-formed entries: what the store is before and after a step.
IsStore(s, n) == /\ n \in Nat /\ IsFiniteSet(DOMAIN s)
                 /\ \A uid \in DOMAIN s : IsEntry(s[uid], n)

Bytes(s) == Total([uid \in DOMAIN s |-> EntryBytes(s[uid])])
Plain(s) == Total([uid \in DOMAIN s |-> PlainBytes(s[uid])])
Attached(s) == Total([uid \in DOMAIN s |-> Total(Payloads(s[uid]))])

LEMMA StoreIsStore == StoreTypeOK => IsStore(store, serial)
BY BrokerAssumption, FS_Subset DEF BrokerAssumption, StoreTypeOK, IsStore

LEMMA StoreParts ==
  ASSUME NEW s, NEW n, IsStore(s, n)
  PROVE  /\ Bytes(s) = Plain(s) + Attached(s)
         /\ Bytes(s) \in Nat /\ Plain(s) \in Nat /\ Attached(s) \in Nat
<1> DEFINE u == [uid \in DOMAIN s |-> EntryBytes(s[uid])]
           v == [uid \in DOMAIN s |-> PlainBytes(s[uid])]
           w == [uid \in DOMAIN s |-> Total(Payloads(s[uid]))]
<1>1. \A uid \in DOMAIN s : /\ EntryBytes(s[uid]) = PlainBytes(s[uid]) + Total(Payloads(s[uid]))
                            /\ EntryBytes(s[uid]) \in Nat /\ PlainBytes(s[uid]) \in Nat
                            /\ Total(Payloads(s[uid])) \in Nat
  BY EntryParts DEF IsStore
<1>2. /\ DOMAIN u = DOMAIN s /\ DOMAIN v = DOMAIN s /\ DOMAIN w = DOMAIN s
      /\ \A uid \in DOMAIN s : u[uid] = v[uid] + w[uid] /\ u[uid] \in Nat /\ v[uid] \in Nat /\ w[uid] \in Nat
  BY <1>1
<1>3. IsFiniteSet(DOMAIN s)
  BY DEF IsStore
<1> HIDE DEF u, v, w
<1>4. Total(u) = Total(v) + Total(w)
  BY <1>2, <1>3, TotalSum
<1>5. Total(u) \in Nat /\ Total(v) \in Nat /\ Total(w) \in Nat
  BY <1>2, <1>3, UnitsFinite
<1>6. QED
  BY <1>4, <1>5 DEF u, v, w, Bytes, Plain, Attached

\* One entry is replaced.
LEMMA UpdateBytes ==
  ASSUME NEW s, NEW n, IsStore(s, n), NEW uid \in DOMAIN s, NEW e, NEW t, NEW m,
         t = [s EXCEPT ![uid] = e], IsStore(t, m)
  PROVE  Bytes(t) = Bytes(s) - EntryBytes(s[uid]) + EntryBytes(e)
<1> DEFINE w == [x \in DOMAIN s |-> EntryBytes(s[x])]
           v == [x \in DOMAIN t |-> EntryBytes(t[x])]
<1>1. DOMAIN t = DOMAIN s /\ t[uid] = e /\ \A x \in DOMAIN s : x # uid => t[x] = s[x]
  OBVIOUS
<1>2. \A x \in DOMAIN s : EntryBytes(s[x]) \in Nat /\ EntryBytes(t[x]) \in Nat
  BY <1>1, EntryParts DEF IsStore
<1>3. /\ DOMAIN w = DOMAIN s /\ DOMAIN v = DOMAIN w
      /\ \A y \in DOMAIN w : w[y] \in Nat /\ v[y] \in Nat /\ (y # uid => v[y] = w[y])
      /\ w[uid] = EntryBytes(s[uid]) /\ v[uid] = EntryBytes(e)
  BY <1>1, <1>2
<1>4. IsFiniteSet(DOMAIN s)
  BY DEF IsStore
<1> HIDE DEF v, w
<1>5. Total(v) = Total(w) - w[uid] + v[uid]
  BY <1>3, <1>4, TotalChange
<1>6. Bytes(s) = Total(w) /\ Bytes(t) = Total(v)
  BY DEF Bytes, v, w
<1>7. QED
  BY <1>3, <1>5, <1>6

\* An entry is added.
LEMMA NewBytes ==
  ASSUME NEW s, NEW n, NEW uid, uid \notin DOMAIN s, NEW e, NEW m,
         IsStore(s, n), IsStore(Put(s, uid, e), m)
  PROVE  Bytes(Put(s, uid, e)) = Bytes(s) + EntryBytes(e)
<1> DEFINE t == Put(s, uid, e)
           w == [x \in DOMAIN s |-> EntryBytes(s[x])]
           v == [x \in DOMAIN t |-> EntryBytes(t[x])]
<1>1. DOMAIN t = DOMAIN s \cup {uid} /\ t[uid] = e /\ \A x \in DOMAIN s : t[x] = s[x]
  BY DEF Put
<1>2. IsStore(t, m)
  OBVIOUS
<1> HIDE DEF t
<1>3. \A x \in DOMAIN t : EntryBytes(t[x]) \in Nat
  BY <1>2, EntryParts DEF IsStore
<1>4. /\ DOMAIN w = DOMAIN s /\ DOMAIN v = DOMAIN w \cup {uid}
      /\ (\A y \in DOMAIN v : v[y] \in Nat) /\ (\A y \in DOMAIN w : v[y] = w[y])
      /\ v[uid] = EntryBytes(e)
  BY <1>1, <1>3
<1>5. IsFiniteSet(DOMAIN v)
  BY <1>2 DEF IsStore
<1>6. Bytes(s) = Total(w) /\ Bytes(t) = Total(v)
  BY DEF Bytes
<1> HIDE DEF v, w
<1>7. Total(v) = Total(w) + v[uid]
  BY <1>4, <1>5, TotalPut
<1>8. QED
  BY <1>4, <1>6, <1>7 DEF t

\* An entry is deleted.
LEMMA DeleteBytes ==
  ASSUME NEW s, NEW n, IsStore(s, n), NEW uid \in DOMAIN s
  PROVE  Bytes(s) = EntryBytes(s[uid]) + Bytes(Keep(s, DOMAIN s \ {uid}))
<1> DEFINE t == Keep(s, DOMAIN s \ {uid})
           w == [x \in DOMAIN s |-> EntryBytes(s[x])]
           v == [x \in DOMAIN t |-> EntryBytes(t[x])]
<1>1. DOMAIN t = DOMAIN s \ {uid} /\ \A x \in DOMAIN t : t[x] = s[x]
  BY DEF Keep
<1> HIDE DEF t
<1>2. \A x \in DOMAIN s : EntryBytes(s[x]) \in Nat
  BY EntryParts DEF IsStore
<1>3. DOMAIN w = DOMAIN s /\ w[uid] = EntryBytes(s[uid]) /\ \A x \in DOMAIN w : w[x] \in Nat
  BY <1>2
<1>4. IsFiniteSet(DOMAIN w)
  BY DEF IsStore
<1>5. /\ DOMAIN v = DOMAIN Keep(w, DOMAIN w \ {uid})
      /\ \A x \in DOMAIN v : v[x] = Keep(w, DOMAIN w \ {uid})[x]
  BY <1>1 DEF Keep
<1>6. Bytes(s) = Total(w) /\ Bytes(t) = Total(v)
  BY DEF Bytes
<1> HIDE DEF v, w
<1>7. Total(v) = Total(Keep(w, DOMAIN w \ {uid}))
  BY <1>5, TotalSame
<1>8. Total(w) = w[uid] + Total(Keep(w, DOMAIN w \ {uid}))
  BY <1>3, <1>4, TotalAt
<1>9. QED
  BY <1>3, <1>6, <1>7, <1>8 DEF t

\* Entries go, or what they hold apart from attached payloads becomes less.
LEMMA PlainLesser ==
  ASSUME NEW s, NEW n, IsStore(s, n), NEW t, NEW m, IsStore(t, m), DOMAIN t \subseteq DOMAIN s,
         \A uid \in DOMAIN t : PlainBytes(t[uid]) <= PlainBytes(s[uid])
  PROVE  Plain(t) <= Plain(s)
<1> DEFINE w == [x \in DOMAIN s |-> PlainBytes(s[x])]
           v == [x \in DOMAIN t |-> PlainBytes(t[x])]
<1>1. /\ \A x \in DOMAIN s : PlainBytes(s[x]) \in Nat
      /\ \A x \in DOMAIN t : PlainBytes(t[x]) \in Nat
  BY EntryParts DEF IsStore
<1>2. /\ DOMAIN w = DOMAIN s /\ DOMAIN v = DOMAIN t /\ (\A x \in DOMAIN w : w[x] \in Nat)
      /\ \A x \in DOMAIN v : v[x] \in Nat /\ v[x] <= w[x]
  BY <1>1
<1>3. IsFiniteSet(DOMAIN w)
  BY DEF IsStore
<1> HIDE DEF v, w
<1>4. Total(v) <= Total(w)
  BY <1>2, <1>3, TotalLesser
<1>5. QED
  BY <1>4 DEF Plain, v, w

----------------------------------------------------------------------------
(* A push onto a bounded list.                                             *)

\* What a push leaves in a list: the record pushed, and old ones.
LEMMA PushParts ==
  ASSUME NEW f, NEW v, NEW limit
  PROVE  \A i \in DOMAIN PushBounded(f, v, limit) :
           IF i = serial + 1 THEN PushBounded(f, v, limit)[i] = v
           ELSE i \in DOMAIN f /\ PushBounded(f, v, limit)[i] = f[i]
<1> DEFINE pushed == Put(f, serial + 1, v)
<1>1. /\ DOMAIN pushed = DOMAIN f \cup {serial + 1}
      /\ \A i \in DOMAIN pushed : pushed[i] = IF i = serial + 1 THEN v ELSE f[i]
  BY DEF Put
<1>2. \A S : /\ DOMAIN Keep(pushed, S) \subseteq DOMAIN pushed
             /\ \A i \in DOMAIN Keep(pushed, S) : Keep(pushed, S)[i] = pushed[i]
  BY DEF Keep
<1>3. \/ PushBounded(f, v, limit) = pushed
      \/ PushBounded(f, v, limit) = Keep(pushed, DOMAIN pushed \ {Oldest(pushed)})
  BY DEF PushBounded
<1> HIDE DEF pushed
<1>4. QED
  BY <1>1, <1>2, <1>3

\* A push adds its bytes to those of the list and frees those of the record that
\* the routes name beforehand.
LEMMA PushBytes ==
  ASSUME serial \in Nat, NEW f, DOMAIN f \subseteq 1..serial, NEW v, NEW limit \in Nat \ {0}, NEW n \in Nat,
         NEW w, DOMAIN w = DOMAIN f, \A i \in DOMAIN w : w[i] \in Nat,
         NEW u, DOMAIN u = DOMAIN PushBounded(f, v, limit),
         \A i \in DOMAIN u : u[i] = IF i = serial + 1 THEN n ELSE w[i]
  PROVE  /\ Total(u) = Total(w) + n - EvictedBytes(w, limit)
         /\ EvictedBytes(w, limit) \in Nat
<1> DEFINE pushed == Put(f, serial + 1, v)
           D == DOMAIN w
<1>1. DOMAIN pushed = D \cup {serial + 1} /\ serial + 1 \notin D /\ D \subseteq 1..serial
  BY DEF Put
<1>2. IsFiniteSet(D)
  <2>1. IsFiniteSet(1..serial)
    BY 1 \in Int, serial \in Int, FS_Interval
  <2>2. QED
    BY <1>1, <2>1, FS_Subset
<1>3. Cardinality(D) \in Nat /\ Cardinality(DOMAIN pushed) = Cardinality(D) + 1 /\ IsFiniteSet(DOMAIN pushed)
  <2> HIDE DEF pushed, D
  <2>1. QED
    BY <1>1, <1>2, FS_CardinalityType, FS_AddElement
<1>4. PushBounded(f, v, limit) = IF Cardinality(DOMAIN pushed) > limit
                                 THEN Keep(pushed, DOMAIN pushed \ {Oldest(pushed)}) ELSE pushed
  BY DEF PushBounded
<1>5. DOMAIN Keep(pushed, DOMAIN pushed \ {Oldest(pushed)}) = DOMAIN pushed \ {Oldest(pushed)}
  BY DEF Keep
<1>6. EvictedBytes(w, limit) \in Nat
  BY <1>1, EvictedType
<1>7. EvictedBytes(w, limit) = IF Cardinality(D) >= limit THEN w[Oldest(w)] ELSE 0
  BY DEF EvictedBytes
<1>8. CASE Cardinality(D) >= limit
  <2>1. D # {}
    BY <1>8, FS_EmptySet
  <2>2. Oldest(w) \in D /\ \A j \in D : Oldest(w) <= j
    BY <1>1, <2>1, OldestExists
  <2>3. Oldest(pushed) \in DOMAIN pushed /\ \A j \in DOMAIN pushed : Oldest(pushed) <= j
    <3>1. serial + 1 \in Nat /\ DOMAIN pushed \subseteq 1..(serial + 1) /\ DOMAIN pushed # {}
      BY <1>1
    <3> HIDE DEF pushed
    <3>2. QED
      BY <3>1, OldestExists
  <2> HIDE DEF pushed
  <2>4. Oldest(pushed) = Oldest(w)
    <3>1. Oldest(pushed) <= Oldest(w) /\ Oldest(w) <= serial
      BY <1>1, <2>2, <2>3
    <3>2. Oldest(pushed) # serial + 1
      BY <1>1, <2>2, <3>1
    <3>3. Oldest(pushed) \in D
      BY <1>1, <2>3, <3>2
    <3>4. Oldest(w) <= Oldest(pushed)
      BY <2>2, <3>3
    <3>5. QED
      BY <1>1, <2>2, <3>1, <3>3, <3>4
  <2>5. DOMAIN u = (D \ {Oldest(w)}) \cup {serial + 1}
    BY <1>1, <1>3, <1>4, <1>5, <1>8, <2>2, <2>4
  <2> DEFINE rest == Keep(w, D \ {Oldest(w)})
  <2>6. DOMAIN rest = D \ {Oldest(w)} /\ \A i \in DOMAIN rest : rest[i] = w[i]
    BY DEF Keep
  <2>7. Total(w) = w[Oldest(w)] + Total(rest)
    BY <1>2, <2>2, TotalAt
  <2> HIDE DEF rest
  <2>8. /\ DOMAIN u = DOMAIN rest \cup {serial + 1} /\ serial + 1 \notin DOMAIN rest
        /\ \A i \in DOMAIN u : u[i] \in Nat
        /\ \A i \in DOMAIN rest : u[i] = rest[i]
        /\ u[serial + 1] = n
    BY <1>1, <2>5, <2>6
  <2>9. IsFiniteSet(DOMAIN u) /\ IsFiniteSet(DOMAIN rest)
    BY <1>2, <2>6, <2>8, FS_Subset, FS_AddElement
  <2>10. Total(u) = Total(rest) + n
    BY <2>8, <2>9, TotalPut
  <2>11. Total(rest) \in Nat /\ w[Oldest(w)] \in Nat
    BY <1>1, <2>2, <2>6, <2>9, UnitsFinite
  <2>12. QED
    BY <1>6, <1>7, <1>8, <2>7, <2>10, <2>11
<1>9. CASE ~(Cardinality(D) >= limit)
  <2>1. ~(Cardinality(DOMAIN pushed) > limit)
    <3> HIDE DEF pushed, D
    <3>1. QED
      BY <1>3, <1>9
  <2>2. DOMAIN u = D \cup {serial + 1}
    <3> HIDE DEF pushed
    <3>1. QED
      BY <1>1, <1>4, <2>1
  <2>3. /\ \A i \in DOMAIN u : u[i] \in Nat
        /\ \A i \in D : u[i] = w[i]
        /\ u[serial + 1] = n
    BY <1>1, <2>2
  <2>4. IsFiniteSet(DOMAIN u)
    BY <1>2, <2>2, FS_AddElement
  <2>5. Total(u) = Total(w) + n
    BY <1>1, <2>2, <2>3, <2>4, TotalPut
  <2>6. Total(w) \in Nat
    BY <1>2, UnitsFinite
  <2>7. QED
    BY <1>6, <1>7, <1>9, <2>5, <2>6
<1>10. QED
  BY <1>8, <1>9
----------------------------------------------------------------------------
(* What each change of an entry does to its bytes.                         *)

\* A change of the fields that hold no payload.
LEMMA SameBytes ==
  ASSUME NEW e, NEW e2, e2.size = e.size, e2.clients = e.clients, e2.approvals = e.approvals
  PROVE  EntryBytes(e2) = EntryBytes(e) /\ PlainBytes(e2) = PlainBytes(e) /\ (Unpaid(e) => Unpaid(e2))
BY DEF EntryBytes, PlainBytes, ClientSizes, ApprovalSizes, PlainSizes, Unpaid

LEMMA RefreshedBytes ==
  ASSUME NEW n \in Nat, NEW e, IsEntry(e, n), NEW size \in Nat, NEW gated, NEW once
  PROVE  /\ EntryBytes(Refreshed(e, size, gated, once)) = EntryBytes(e) - e.size + size
         /\ Unpaid(e) => Unpaid(Refreshed(e, size, gated, once))
<1> DEFINE e2 == Refreshed(e, size, gated, once)
<1>1. e2.size = size /\ e2.clients = e.clients /\ e2.approvals = e.approvals
  BY DEF Refreshed, IsEntry, Entry
<1> HIDE DEF e2
<1>2. ClientSizes(e2) = ClientSizes(e) /\ ApprovalSizes(e2) = ApprovalSizes(e) /\ (Unpaid(e) => Unpaid(e2))
  BY <1>1 DEF ClientSizes, ApprovalSizes, Unpaid
<1>3. EntryBytes(e2) = size + Total(ClientSizes(e)) + Total(ApprovalSizes(e))
  BY <1>1, <1>2 DEF EntryBytes
<1>4. EntryBytes(e) = e.size + Total(ClientSizes(e)) + Total(ApprovalSizes(e))
  BY DEF EntryBytes
<1>5. e.size \in Nat /\ Total(ClientSizes(e)) \in Nat /\ Total(ApprovalSizes(e)) \in Nat
  BY EntryParts
<1>6. QED
  BY <1>2, <1>3, <1>4, <1>5 DEF e2

LEMMA NewEntryBytes ==
  ASSUME NEW tok, NEW size \in Nat, NEW gated, NEW once
  PROVE  EntryBytes(NewEntry(tok, size, gated, once)) = size /\ Unpaid(NewEntry(tok, size, gated, once))
<1> DEFINE e == NewEntry(tok, size, gated, once)
<1>1. e.size = size /\ e.clients = EmptyMap /\ e.approvals = EmptyMap /\ DOMAIN EmptyMap = {}
  BY DEF NewEntry, EmptyMap
<1> HIDE DEF e
<1>2. DOMAIN ClientSizes(e) = {} /\ DOMAIN ApprovalSizes(e) = {} /\ Unpaid(e)
  BY <1>1 DEF ClientSizes, ApprovalSizes, Unpaid
<1>3. Total(ClientSizes(e)) = 0 /\ Total(ApprovalSizes(e)) = 0
  BY <1>2, TotalNone
<1>4. QED
  BY <1>1, <1>2, <1>3 DEF EntryBytes, e

LEMMA RequestBytes ==
  ASSUME serial \in Nat, NEW e, IsEntry(e, serial), NEW ip, NEW size \in Nat,
         NEW e2, e2 = [e EXCEPT !.approvals = PushBounded(e.approvals, NewApproval(e, ip, size), MaxApprovals)]
  PROVE  /\ EntryBytes(e2) = EntryBytes(e) + size - EvictedBytes(ApprovalSizes(e), MaxApprovals)
         /\ Unpaid(e) => Unpaid(e2)
<1> DEFINE v == NewApproval(e, ip, size)
           a == PushBounded(e.approvals, v, MaxApprovals)
<1>1. e2.size = e.size /\ e2.clients = e.clients /\ e2.approvals = a
  BY DEF IsEntry, Entry
<1>2. v.size = size /\ v.approvedPayload = NoPayload /\ ApprovalBytes(v) = size
  BY DEF NewApproval, ApprovalBytes, NoPayload
<1> HIDE DEF v
<1>3. \A i \in DOMAIN a : IF i = serial + 1 THEN a[i] = v ELSE i \in DOMAIN e.approvals /\ a[i] = e.approvals[i]
  BY PushParts
<1> HIDE DEF a
<1>4. DOMAIN e.approvals \subseteq 1..serial /\ MaxApprovals \in Nat \ {0}
  BY BrokerAssumption DEF IsEntry, BrokerAssumption
<1>5. /\ DOMAIN ApprovalSizes(e) = DOMAIN e.approvals
      /\ \A i \in DOMAIN ApprovalSizes(e) : ApprovalSizes(e)[i] \in Nat
  BY EntryMaps
<1>6. /\ DOMAIN ApprovalSizes(e2) = DOMAIN a
      /\ \A i \in DOMAIN a : ApprovalSizes(e2)[i] = IF i = serial + 1 THEN size ELSE ApprovalSizes(e)[i]
  BY <1>1, <1>2, <1>3 DEF ApprovalSizes
<1>7. /\ Total(ApprovalSizes(e2)) = Total(ApprovalSizes(e)) + size - EvictedBytes(ApprovalSizes(e), MaxApprovals)
      /\ EvictedBytes(ApprovalSizes(e), MaxApprovals) \in Nat
  BY <1>4, <1>5, <1>6, PushBytes DEF a
<1>8. e.size \in Nat /\ Total(ClientSizes(e)) \in Nat /\ Total(ApprovalSizes(e)) \in Nat
  BY EntryParts
<1>9. EntryBytes(e2) = e.size + Total(ClientSizes(e)) + Total(ApprovalSizes(e2))
  BY <1>1 DEF EntryBytes, ClientSizes
<1>10. EntryBytes(e) = e.size + Total(ClientSizes(e)) + Total(ApprovalSizes(e))
  BY DEF EntryBytes
<1>11. Unpaid(e) => Unpaid(e2)
  BY <1>1, <1>2, <1>3 DEF Unpaid
<1>12. QED
  BY <1>7, <1>8, <1>9, <1>10, <1>11

LEMMA TelemetryBytes ==
  ASSUME serial \in Nat, NEW e, IsEntry(e, serial), NEW at, NEW size \in Nat,
         NEW e2, e2 = [e EXCEPT !.clients = PushBounded(e.clients, [size |-> size, seenAt |-> at], MaxClients)]
  PROVE  /\ EntryBytes(e2) = EntryBytes(e) + size - EvictedBytes(ClientSizes(e), MaxClients)
         /\ Unpaid(e) => Unpaid(e2)
<1> DEFINE v == [size |-> size, seenAt |-> at]
           c == PushBounded(e.clients, v, MaxClients)
<1>1. e2.size = e.size /\ e2.approvals = e.approvals /\ e2.clients = c
  BY DEF IsEntry, Entry
<1>2. v.size = size
  OBVIOUS
<1> HIDE DEF v
<1>3. \A i \in DOMAIN c : IF i = serial + 1 THEN c[i] = v ELSE i \in DOMAIN e.clients /\ c[i] = e.clients[i]
  BY PushParts
<1> HIDE DEF c
<1>4. DOMAIN e.clients \subseteq 1..serial /\ MaxClients \in Nat \ {0}
  BY BrokerAssumption DEF IsEntry, BrokerAssumption
<1>5. /\ DOMAIN ClientSizes(e) = DOMAIN e.clients
      /\ \A i \in DOMAIN ClientSizes(e) : ClientSizes(e)[i] \in Nat
  BY EntryMaps
<1>6. /\ DOMAIN ClientSizes(e2) = DOMAIN c
      /\ \A i \in DOMAIN c : ClientSizes(e2)[i] = IF i = serial + 1 THEN size ELSE ClientSizes(e)[i]
  BY <1>1, <1>2, <1>3 DEF ClientSizes
<1>7. /\ Total(ClientSizes(e2)) = Total(ClientSizes(e)) + size - EvictedBytes(ClientSizes(e), MaxClients)
      /\ EvictedBytes(ClientSizes(e), MaxClients) \in Nat
  BY <1>4, <1>5, <1>6, PushBytes DEF c
<1>8. e.size \in Nat /\ Total(ClientSizes(e)) \in Nat /\ Total(ApprovalSizes(e)) \in Nat
  BY EntryParts
<1>9. EntryBytes(e2) = e.size + Total(ClientSizes(e2)) + Total(ApprovalSizes(e))
  BY <1>1 DEF EntryBytes, ApprovalSizes
<1>10. EntryBytes(e) = e.size + Total(ClientSizes(e)) + Total(ApprovalSizes(e))
  BY DEF EntryBytes
<1>11. Unpaid(e) => Unpaid(e2)
  BY <1>1 DEF Unpaid
<1>12. QED
  BY <1>7, <1>8, <1>9, <1>10, <1>11

\* The verdict on a request that had no payload adds the one attached to it.
LEMMA VerdictBytes ==
  ASSUME NEW n \in Nat, NEW e, IsEntry(e, n), Unpaid(e), NEW rid \in DOMAIN e.approvals,
         Undecided(e.approvals[rid]), NEW attached \in Nat,
         NEW e2, e2.size = e.size, e2.clients = e.clients, DOMAIN e2.approvals = DOMAIN e.approvals,
         \A i \in DOMAIN e.approvals : i # rid => e2.approvals[i] = e.approvals[i],
         NEW a, e2.approvals[rid] = a, a.size = e.approvals[rid].size,
         a.approvedPayload = attached, ~Undecided(a)
  PROVE  /\ EntryBytes(e2) = EntryBytes(e) + attached
         /\ PlainBytes(e2) = PlainBytes(e)
         /\ Unpaid(e2)
<1>1. /\ e2.size = e.size /\ e2.clients = e.clients
      /\ DOMAIN e2.approvals = DOMAIN e.approvals
      /\ \A i \in DOMAIN e.approvals : e2.approvals[i] = IF i = rid THEN a ELSE e.approvals[i]
  OBVIOUS
<1>2. /\ e.approvals[rid] \in Approval /\ e.approvals[rid].approvedPayload = 0
      /\ e.approvals[rid].size \in Nat
  BY DEF IsEntry, Entry, Unpaid, NoPayload, Approval
<1>3. a.size = e.approvals[rid].size /\ a.approvedPayload = attached /\ ~Undecided(a)
  OBVIOUS
<1>4. /\ DOMAIN ApprovalSizes(e) = DOMAIN e.approvals /\ IsFiniteSet(DOMAIN e.approvals)
      /\ \A i \in DOMAIN e.approvals : ApprovalSizes(e)[i] \in Nat
  BY EntryMaps
<1>5. /\ DOMAIN ApprovalSizes(e2) = DOMAIN e.approvals
      /\ \A i \in DOMAIN e.approvals : i # rid => ApprovalSizes(e2)[i] = ApprovalSizes(e)[i]
      /\ ApprovalSizes(e2)[rid] = e.approvals[rid].size + attached
      /\ ApprovalSizes(e)[rid] = e.approvals[rid].size + 0
  BY <1>1, <1>2, <1>3 DEF ApprovalSizes, ApprovalBytes
<1>6. \A i \in DOMAIN e.approvals : ApprovalSizes(e2)[i] \in Nat
  BY <1>2, <1>4, <1>5
<1>7. Total(ApprovalSizes(e2)) = Total(ApprovalSizes(e)) - ApprovalSizes(e)[rid] + ApprovalSizes(e2)[rid]
  BY <1>4, <1>5, <1>6, TotalChange
<1>8. e.size \in Nat /\ Total(ClientSizes(e)) \in Nat /\ Total(ApprovalSizes(e)) \in Nat
  BY EntryParts
<1>9. Total(ApprovalSizes(e2)) = Total(ApprovalSizes(e)) + attached
  BY <1>2, <1>5, <1>7, <1>8
<1>10. EntryBytes(e2) = e.size + Total(ClientSizes(e)) + Total(ApprovalSizes(e2))
  BY <1>1 DEF EntryBytes, ClientSizes
<1>11. EntryBytes(e) = e.size + Total(ClientSizes(e)) + Total(ApprovalSizes(e))
  BY DEF EntryBytes
<1>12. EntryBytes(e2) = EntryBytes(e) + attached
  BY <1>8, <1>9, <1>10, <1>11
<1>13. PlainSizes(e2) = PlainSizes(e)
  BY <1>1, <1>3 DEF PlainSizes
<1>14. PlainBytes(e2) = PlainBytes(e)
  BY <1>1, <1>13 DEF PlainBytes, ClientSizes
<1>15. Unpaid(e2)
  BY <1>1, <1>3 DEF Unpaid
<1>16. QED
  BY <1>12, <1>14, <1>15

\* Dropping records from the lists of an entry.
LEMMA FewerBytes ==
  ASSUME NEW n \in Nat, NEW e, IsEntry(e, n), NEW e2, IsEntry(e2, n), e2.size = e.size,
         DOMAIN e2.clients \subseteq DOMAIN e.clients,
         \A i \in DOMAIN e2.clients : e2.clients[i] = e.clients[i],
         DOMAIN e2.approvals \subseteq DOMAIN e.approvals,
         \A i \in DOMAIN e2.approvals : e2.approvals[i] = e.approvals[i]
  PROVE  /\ EntryBytes(e2) <= EntryBytes(e)
         /\ PlainBytes(e2) <= PlainBytes(e)
         /\ Unpaid(e) => Unpaid(e2)
<1>1. Total(ClientSizes(e2)) <= Total(ClientSizes(e))
  <2>1. /\ DOMAIN ClientSizes(e2) \subseteq DOMAIN ClientSizes(e) /\ IsFiniteSet(DOMAIN ClientSizes(e))
        /\ \A i \in DOMAIN ClientSizes(e) : ClientSizes(e)[i] \in Nat
        /\ \A i \in DOMAIN ClientSizes(e2) : ClientSizes(e2)[i] \in Nat /\ ClientSizes(e2)[i] = ClientSizes(e)[i]
    BY EntryMaps DEF ClientSizes
  <2>2. \A i \in DOMAIN ClientSizes(e2) : ClientSizes(e2)[i] <= ClientSizes(e)[i]
    BY <2>1
  <2>3. QED
    BY <2>1, <2>2, TotalLesser
<1>2. Total(ApprovalSizes(e2)) <= Total(ApprovalSizes(e))
  <2>1. /\ DOMAIN ApprovalSizes(e2) \subseteq DOMAIN ApprovalSizes(e) /\ IsFiniteSet(DOMAIN ApprovalSizes(e))
        /\ \A i \in DOMAIN ApprovalSizes(e) : ApprovalSizes(e)[i] \in Nat
        /\ \A i \in DOMAIN ApprovalSizes(e2) : ApprovalSizes(e2)[i] \in Nat /\ ApprovalSizes(e2)[i] = ApprovalSizes(e)[i]
    BY EntryMaps DEF ApprovalSizes
  <2>2. \A i \in DOMAIN ApprovalSizes(e2) : ApprovalSizes(e2)[i] <= ApprovalSizes(e)[i]
    BY <2>1
  <2>3. QED
    BY <2>1, <2>2, TotalLesser
<1>3. Total(PlainSizes(e2)) <= Total(PlainSizes(e))
  <2>1. /\ DOMAIN PlainSizes(e2) \subseteq DOMAIN PlainSizes(e) /\ IsFiniteSet(DOMAIN PlainSizes(e))
        /\ \A i \in DOMAIN PlainSizes(e) : PlainSizes(e)[i] \in Nat
        /\ \A i \in DOMAIN PlainSizes(e2) : PlainSizes(e2)[i] \in Nat /\ PlainSizes(e2)[i] = PlainSizes(e)[i]
    BY EntryMaps DEF PlainSizes
  <2>2. \A i \in DOMAIN PlainSizes(e2) : PlainSizes(e2)[i] <= PlainSizes(e)[i]
    BY <2>1
  <2>3. QED
    BY <2>1, <2>2, TotalLesser
<1>4. /\ e.size \in Nat /\ Total(ClientSizes(e)) \in Nat /\ Total(ApprovalSizes(e)) \in Nat
      /\ Total(PlainSizes(e)) \in Nat /\ Total(ClientSizes(e2)) \in Nat
      /\ Total(ApprovalSizes(e2)) \in Nat /\ Total(PlainSizes(e2)) \in Nat
  BY EntryParts
<1>5. EntryBytes(e2) <= EntryBytes(e)
  BY <1>1, <1>2, <1>4 DEF EntryBytes
<1>6. PlainBytes(e2) <= PlainBytes(e)
  BY <1>1, <1>3, <1>4 DEF PlainBytes
<1>7. Unpaid(e) => Unpaid(e2)
  BY DEF Unpaid
<1>8. QED
  BY <1>5, <1>6, <1>7
----------------------------------------------------------------------------
(* The counter.                                                            *)

AllUnpaid == \A uid \in DOMAIN store : Unpaid(store[uid])

\* The counter covers what is held; no request has a payload before its verdict;
\* and what the limit applies to is within it.
Accounts ==
  /\ BytesCovered
  /\ AllUnpaid
  /\ Plain(store) <= MaxBytes

Balanced == Slack' = Slack

\* What every step keeps besides: either it adds nothing that the limit applies
\* to, or it was let through by the limit.
Kept ==
  /\ AllUnpaid'
  /\ Plain(store') <= Plain(store) \/ buffered' <= MaxBytes

LEMMA CountersAreNumbers ==
  ASSUME Ages
  PROVE  /\ IsStore(store, serial)
         /\ StoredBytes = Bytes(store) /\ StoredBytes \in Nat
         /\ Plain(store) \in Nat /\ Attached(store) \in Nat
         /\ StoredBytes = Plain(store) + Attached(store)
         /\ buffered \in Int /\ MaxBytes \in Nat
<1>1. IsStore(store, serial) /\ buffered \in Int
  BY StoreIsStore DEF Ages, TypeOK, StoreTypeOK
<1>2. StoredBytes = Bytes(store)
  BY DEF StoredBytes, Bytes
<1>3. QED
  BY <1>1, <1>2, StoreParts, BrokerAssumption DEF BrokerAssumption

LEMMA CountersAreNumbersNext ==
  ASSUME Ages'
  PROVE  /\ IsStore(store', serial')
         /\ StoredBytes' = Bytes(store') /\ StoredBytes' \in Nat
         /\ Plain(store') \in Nat /\ Attached(store') \in Nat
         /\ StoredBytes' = Plain(store') + Attached(store')
         /\ buffered' \in Int
<1>1. IsStore(store', serial') /\ buffered' \in Int
  BY BrokerAssumption, FS_Subset DEF BrokerAssumption, Ages, TypeOK, StoreTypeOK, IsStore
<1>2. StoredBytes' = Bytes(store')
  BY DEF StoredBytes, Bytes
<1>3. QED
  BY <1>1, <1>2, StoreParts

\* Steps that leave the store and the counter alone.
LEMMA SameAccounts ==
  ASSUME Ages, Accounts, UNCHANGED <<store, buffered>>
  PROVE  Balanced /\ Kept
<1>1. StoredBytes' = StoredBytes /\ Plain(store') = Plain(store)
  BY DEF StoredBytes, Plain
<1>2. Plain(store) \in Nat
  BY CountersAreNumbers
<1>3. AllUnpaid'
  BY DEF Accounts, AllUnpaid
<1>4. QED
  BY <1>1, <1>2, <1>3 DEF Balanced, Kept, Slack

\* Steps that replace one record.
LEMMA UpdateAccounts ==
  ASSUME Ages, Ages', Accounts, NEW uid \in DOMAIN store, NEW e, store' = [store EXCEPT ![uid] = e],
         Unpaid(e), PlainBytes(e) <= PlainBytes(store[uid]) \/ buffered' <= MaxBytes
  PROVE  /\ Kept
         /\ StoredBytes' = StoredBytes - EntryBytes(store[uid]) + EntryBytes(e)
         /\ EntryBytes(store[uid]) \in Nat /\ EntryBytes(e) \in Nat
<1>1. IsStore(store, serial) /\ StoredBytes = Bytes(store) /\ IsStore(store', serial') /\ StoredBytes' = Bytes(store')
  BY CountersAreNumbers, CountersAreNumbersNext
<1>2. Bytes(store') = Bytes(store) - EntryBytes(store[uid]) + EntryBytes(e)
  BY <1>1, UpdateBytes
<1>3. /\ DOMAIN store' = DOMAIN store
      /\ \A u \in DOMAIN store : store'[u] = IF u = uid THEN e ELSE store[u]
  OBVIOUS
<1>4. AllUnpaid'
  BY <1>3 DEF Accounts, AllUnpaid
<1>5. ASSUME PlainBytes(e) <= PlainBytes(store[uid]) PROVE Kept
  <2>1. \A u \in DOMAIN store : PlainBytes(store[u]) \in Nat
    BY <1>1, EntryParts DEF IsStore
  <2>2. \A u \in DOMAIN store' : PlainBytes(store'[u]) <= PlainBytes(store[u])
    BY <1>3, <1>5, <2>1
  <2>3. Plain(store') <= Plain(store)
    BY <1>1, <1>3, <2>2, PlainLesser
  <2>4. QED
    BY <1>4, <2>3 DEF Kept
<1>6. Kept
  BY <1>4, <1>5 DEF Kept
<1>7. EntryBytes(store[uid]) \in Nat /\ EntryBytes(e) \in Nat
  <2>1. IsEntry(store[uid], serial) /\ IsEntry(e, serial') /\ serial \in Nat /\ serial' \in Nat
    BY <1>1, <1>3 DEF IsStore
  <2>2. QED
    BY <2>1, EntryParts
<1>8. QED
  BY <1>1, <1>2, <1>6, <1>7

\* A record is deleted: the counter covers it, so it never has to be clamped.
LEMMA DeleteAccounts ==
  ASSUME Ages, Ages', Accounts, NEW uid \in DOMAIN store, DeleteStoreEntry(uid)
  PROVE  Balanced /\ Kept
<1>1. IsStore(store, serial) /\ StoredBytes = Bytes(store) /\ IsStore(store', serial') /\ StoredBytes' = Bytes(store')
      /\ StoredBytes \in Nat /\ StoredBytes' \in Nat /\ buffered \in Int
  BY CountersAreNumbers, CountersAreNumbersNext
<1>2. store' = Keep(store, DOMAIN store \ {uid}) /\ buffered' = Max0(buffered - EntryBytes(store[uid]))
  BY DEF DeleteStoreEntry
<1>3. StoredBytes = EntryBytes(store[uid]) + StoredBytes'
  BY <1>1, <1>2, DeleteBytes
<1>4. EntryBytes(store[uid]) \in Nat
  BY <1>1, EntryParts DEF IsStore
<1>5. buffered' = buffered - EntryBytes(store[uid])
  <2>1. StoredBytes <= buffered
    BY DEF Accounts, BytesCovered
  <2>2. QED
    BY <1>1, <1>2, <1>3, <1>4, <2>1 DEF Max0
<1>6. Balanced
  BY <1>1, <1>3, <1>4, <1>5 DEF Balanced, Slack
<1>7. DOMAIN store' \subseteq DOMAIN store /\ \A u \in DOMAIN store' : store'[u] = store[u]
  BY <1>2 DEF Keep
<1>8. \A u \in DOMAIN store' : PlainBytes(store'[u]) <= PlainBytes(store[u])
  <2>1. \A u \in DOMAIN store : PlainBytes(store[u]) \in Nat
    BY <1>1, EntryParts DEF IsStore
  <2>2. QED
    BY <1>7, <2>1
<1>9. Plain(store') <= Plain(store)
  BY <1>1, <1>7, <1>8, PlainLesser
<1>10. AllUnpaid'
  BY <1>7 DEF Accounts, AllUnpaid
<1>11. QED
  BY <1>6, <1>9, <1>10 DEF Kept

LEMMA RegisterAccounts ==
  ASSUME Ages, Ages', Accounts, NEW ip \in Ips, NEW uid \in Uids, NEW tok, NEW size \in Sizes \cup {Malformed},
         NEW gated, NEW once, Register(ip, uid, tok, size, gated, once)
  PROVE  Balanced /\ Kept
<1>1. /\ IsStore(store, serial) /\ StoredBytes = Bytes(store) /\ StoredBytes \in Nat
      /\ IsStore(store', serial') /\ StoredBytes' = Bytes(store') /\ StoredBytes' \in Nat
      /\ buffered \in Int /\ buffered' \in Int
  BY CountersAreNumbers, CountersAreNumbersNext
<1>2. size \in Nat
  BY SizeType
<1>3. CASE Violates(ip)
  BY <1>3, SameAccounts DEF Violates, storeVars
<1>4. CASE /\ uid \notin DOMAIN store /\ RegisterNew(uid, tok, size, gated, once)
           /\ Fits(buffered - ReplacedSize(uid) + size)
  <2>1. PICK t \in NewToken(tok) : store' = Put(store, uid, NewEntry(t, size, gated, once))
    BY <1>4 DEF RegisterNew
  <2> DEFINE e == NewEntry(t, size, gated, once)
  <2>2. EntryBytes(e) = size /\ Unpaid(e)
    BY <1>2, NewEntryBytes
  <2> HIDE DEF e
  <2>3. store' = Put(store, uid, e)
    BY <2>1 DEF e
  <2>4. StoredBytes' = StoredBytes + size
    BY <1>1, <1>4, <2>2, <2>3, NewBytes
  <2>5. buffered' = buffered + size /\ buffered' <= MaxBytes
    BY <1>1, <1>2, <1>4 DEF RegisterNew, Fits, ReplacedSize
  <2>6. AllUnpaid'
    BY <2>2, <2>3 DEF Accounts, AllUnpaid, Put
  <2>7. QED
    BY <1>1, <1>2, <2>4, <2>5, <2>6 DEF Balanced, Kept, Slack
<1>5. CASE /\ uid \in DOMAIN store /\ RegisterAgain(uid, size, gated, once)
           /\ Fits(buffered - ReplacedSize(uid) + size)
  <2> DEFINE e == store[uid]
             e2 == Refreshed(e, size, gated, once)
  <2>1. IsEntry(e, serial) /\ serial \in Nat
    BY <1>1, <1>5 DEF IsStore
  <2>2. EntryBytes(e2) = EntryBytes(e) - e.size + size /\ Unpaid(e2)
    BY <1>2, <1>5, <2>1, RefreshedBytes DEF Accounts, AllUnpaid
  <2>3. store' = [store EXCEPT ![uid] = e2]
    BY <1>5 DEF RegisterAgain
  <2> HIDE DEF e2
  <2>4. e.size \in Nat /\ EntryBytes(e) \in Nat /\ e.size <= EntryBytes(e)
    <3>1. e.size \in Nat /\ EntryBytes(e) \in Nat /\ Total(ClientSizes(e)) \in Nat /\ Total(ApprovalSizes(e)) \in Nat
      BY <2>1, EntryParts
    <3>2. QED
      BY <3>1 DEF EntryBytes
  <2>5. EntryBytes(e) <= StoredBytes
    <3>1. Bytes(store) = EntryBytes(e) + Bytes(Keep(store, DOMAIN store \ {uid}))
      BY <1>1, <1>5, DeleteBytes
    <3>2. IsStore(Keep(store, DOMAIN store \ {uid}), serial)
      BY <1>1, FS_Subset DEF IsStore, Keep
    <3>3. Bytes(Keep(store, DOMAIN store \ {uid})) \in Nat
      BY <3>2, StoreParts
    <3>4. QED
      BY <1>1, <2>4, <3>1, <3>3
  <2>6. buffered' = buffered - e.size + size /\ buffered' <= MaxBytes
    <3>1. StoredBytes <= buffered
      BY DEF Accounts, BytesCovered
    <3>2. buffered' = Max0(buffered - e.size + size) /\ buffered - e.size + size <= MaxBytes
      BY <1>5 DEF RegisterAgain, Fits, ReplacedSize
    <3>3. QED
      BY <1>1, <1>2, <2>4, <2>5, <3>1, <3>2 DEF Max0
  <2>7. Kept /\ StoredBytes' = StoredBytes - EntryBytes(e) + EntryBytes(e2) /\ EntryBytes(e2) \in Nat
    BY <1>5, <2>2, <2>3, <2>6, UpdateAccounts
  <2>8. QED
    BY <1>1, <1>2, <2>2, <2>4, <2>6, <2>7 DEF Balanced, Slack
<1>6. QED
  BY <1>3, <1>4, <1>5 DEF Register

LEMMA RequestAccounts ==
  ASSUME Ages, Ages', Accounts, NEW ip \in Ips, NEW uid \in Uids, NEW size \in Sizes \cup {Malformed},
         RequestApproval(ip, uid, size)
  PROVE  Balanced /\ Kept
<1>1. /\ IsStore(store, serial) /\ StoredBytes \in Nat /\ StoredBytes' \in Nat
      /\ buffered \in Int /\ buffered' \in Int
  BY CountersAreNumbers, CountersAreNumbersNext
<1>2. size \in Nat
  BY SizeType
<1>3. CASE Violates(ip)
  BY <1>3, SameAccounts DEF Violates, storeVars
<1>4. CASE size # Malformed
  <2> DEFINE e == store[uid]
             freed == EvictedBytes(ApprovalSizes(e), MaxApprovals)
             e2 == [e EXCEPT !.approvals = PushBounded(e.approvals, NewApproval(e, ip, size), MaxApprovals)]
  <2>1. IsEntry(e, serial) /\ serial \in Nat /\ uid \in DOMAIN store
    BY <1>1, <1>4 DEF IsStore, RequestApproval
  <2>2. EntryBytes(e2) = EntryBytes(e) + size - freed /\ (Unpaid(e) => Unpaid(e2))
    BY <1>2, <2>1, RequestBytes
  <2>3. store' = [store EXCEPT ![uid] = e2]
    BY <1>4 DEF RequestApproval
  <2>4. buffered' = buffered + size - freed /\ buffered - freed + size <= MaxBytes
    BY <1>4 DEF RequestApproval, Fits
  <2>5. freed \in Nat
    <3>1. DOMAIN ApprovalSizes(e) \subseteq 1..serial /\ \A i \in DOMAIN ApprovalSizes(e) : ApprovalSizes(e)[i] \in Nat
      BY <2>1, EntryMaps DEF IsEntry
    <3>2. QED
      BY <2>1, <3>1, BrokerAssumption, EvictedType DEF BrokerAssumption
  <2> HIDE DEF e2, freed
  <2>6. buffered' <= MaxBytes
    BY <1>1, <1>2, <2>4, <2>5, BrokerAssumption DEF BrokerAssumption
  <2>7. Unpaid(e2)
    BY <2>1, <2>2 DEF Accounts, AllUnpaid
  <2>8. /\ Kept /\ StoredBytes' = StoredBytes - EntryBytes(e) + EntryBytes(e2)
        /\ EntryBytes(e) \in Nat /\ EntryBytes(e2) \in Nat
    BY <2>1, <2>3, <2>6, <2>7, UpdateAccounts
  <2>9. QED
    BY <1>1, <1>2, <2>2, <2>4, <2>5, <2>8 DEF Balanced, Slack
<1>5. QED
  BY <1>3, <1>4 DEF RequestApproval

LEMMA TelemetryAccounts ==
  ASSUME Ages, Ages', Accounts, NEW ip \in Ips, NEW uid \in Uids, NEW size \in Sizes \cup {Malformed},
         PushTelemetry(ip, uid, size)
  PROVE  Balanced /\ Kept
<1>1. /\ IsStore(store, serial) /\ StoredBytes \in Nat /\ StoredBytes' \in Nat
      /\ buffered \in Int /\ buffered' \in Int
  BY CountersAreNumbers, CountersAreNumbersNext
<1>2. size \in Nat
  BY SizeType
<1>3. CASE Violates(ip)
  BY <1>3, SameAccounts DEF Violates, storeVars
<1>4. CASE size # Malformed
  <2> DEFINE e == store[uid]
             freed == EvictedBytes(ClientSizes(e), MaxClients)
             e2 == [e EXCEPT !.clients = PushBounded(e.clients, [size |-> size, seenAt |-> clock], MaxClients)]
  <2>1. IsEntry(e, serial) /\ serial \in Nat /\ uid \in DOMAIN store
    BY <1>1, <1>4 DEF IsStore, PushTelemetry
  <2>2. EntryBytes(e2) = EntryBytes(e) + size - freed /\ (Unpaid(e) => Unpaid(e2))
    BY <1>2, <2>1, TelemetryBytes
  <2>3. store' = [store EXCEPT ![uid] = e2]
    BY <1>4 DEF PushTelemetry
  <2>4. buffered' = buffered + size - freed /\ buffered - freed + size <= MaxBytes
    BY <1>4 DEF PushTelemetry, Fits
  <2>5. freed \in Nat
    <3>1. DOMAIN ClientSizes(e) \subseteq 1..serial /\ \A i \in DOMAIN ClientSizes(e) : ClientSizes(e)[i] \in Nat
      BY <2>1, EntryMaps DEF IsEntry
    <3>2. QED
      BY <2>1, <3>1, BrokerAssumption, EvictedType DEF BrokerAssumption
  <2> HIDE DEF e2, freed
  <2>6. buffered' <= MaxBytes
    BY <1>1, <1>2, <2>4, <2>5, BrokerAssumption DEF BrokerAssumption
  <2>7. Unpaid(e2)
    BY <2>1, <2>2 DEF Accounts, AllUnpaid
  <2>8. /\ Kept /\ StoredBytes' = StoredBytes - EntryBytes(e) + EntryBytes(e2)
        /\ EntryBytes(e) \in Nat /\ EntryBytes(e2) \in Nat
    BY <2>1, <2>3, <2>6, <2>7, UpdateAccounts
  <2>9. QED
    BY <1>1, <1>2, <2>2, <2>4, <2>5, <2>8 DEF Balanced, Slack
<1>5. QED
  BY <1>3, <1>4 DEF PushTelemetry

LEMMA DecideAccounts ==
  ASSUME Ages, Ages', Accounts, NEW ip \in Ips, NEW uid \in Uids, NEW rid, NEW tok,
         NEW decision \in {"approved", "denied"}, NEW body \in Bodies,
         Decide(ip, uid, rid, tok, decision, body)
  PROVE  Balanced /\ Kept
<1>1. /\ IsStore(store, serial) /\ StoredBytes \in Nat /\ StoredBytes' \in Nat
      /\ buffered \in Int /\ buffered' \in Int
  BY CountersAreNumbers, CountersAreNumbersNext
<1>2. CASE ~Owns(tok, uid)
  BY <1>2, SameAccounts DEF Decide, Violates, storeVars
<1>3. CASE Owns(tok, uid)
  <2> DEFINE e == store[uid]
             attached == IF decision = "approved" /\ body \in Sizes THEN body ELSE NoPayload
             a == [e.approvals[rid] EXCEPT !.status = decision, !.approvedPayload = attached]
             e2 == [e EXCEPT !.approvals[rid] = a]
  <2>1. uid \in DOMAIN store /\ rid \in DOMAIN e.approvals /\ Undecided(e.approvals[rid])
    BY <1>3 DEF Decide
  <2>2. IsEntry(e, serial) /\ serial \in Nat /\ Unpaid(e)
    BY <1>1, <2>1 DEF IsStore, Accounts, AllUnpaid
  <2>3. attached \in Nat
    BY BrokerAssumption DEF BrokerAssumption, NoPayload
  <2>4. buffered' = buffered + attached
    BY <1>3 DEF Decide
  <2>5. store' = [store EXCEPT ![uid].approvals[rid].status = decision,
                               ![uid].approvals[rid].approvedPayload = attached]
    BY <1>3 DEF Decide
  <2> HIDE DEF attached
  <2>6. store' = [store EXCEPT ![uid] = e2]
    BY ZenonT(60), <2>1, <2>2, <2>5 DEF IsEntry, Entry, Approval
  <2>7. EntryBytes(e2) = EntryBytes(e) + attached /\ PlainBytes(e2) = PlainBytes(e) /\ Unpaid(e2)
    <3>1. /\ a.size = e.approvals[rid].size /\ a.approvedPayload = attached
          /\ ~Undecided(a)
      BY <2>1, <2>2 DEF IsEntry, Entry, Approval, Undecided
    <3> HIDE DEF a
    <3>2. /\ e2.size = e.size /\ e2.clients = e.clients /\ DOMAIN e2.approvals = DOMAIN e.approvals
          /\ \A i \in DOMAIN e.approvals : i # rid => e2.approvals[i] = e.approvals[i]
          /\ e2.approvals[rid] = a
      BY <2>1, <2>2 DEF IsEntry, Entry
    <3> HIDE DEF e, e2
    <3>3. QED
      BY <2>1, <2>2, <2>3, <3>1, <3>2, VerdictBytes
  <2> HIDE DEF e2
  <2>8. PlainBytes(e2) <= PlainBytes(e)
    <3>1. PlainBytes(e) \in Nat
      BY <2>2, EntryParts
    <3>2. QED
      BY <2>7, <3>1
  <2>9. /\ Kept /\ StoredBytes' = StoredBytes - EntryBytes(e) + EntryBytes(e2)
        /\ EntryBytes(e) \in Nat /\ EntryBytes(e2) \in Nat
    BY <2>1, <2>6, <2>7, <2>8, UpdateAccounts
  <2>10. QED
    BY <1>1, <2>3, <2>4, <2>7, <2>9 DEF Balanced, Slack
<1>4. QED
  BY <1>2, <1>3

\* A resolve that keeps the record, and an extension, leave its bytes alone.
LEMMA ScalarAccounts ==
  ASSUME Ages, Ages', Accounts, NEW uid \in DOMAIN store, NEW e2, store' = [store EXCEPT ![uid] = e2],
         e2.size = store[uid].size, e2.clients = store[uid].clients, e2.approvals = store[uid].approvals,
         UNCHANGED buffered
  PROVE  Balanced /\ Kept
<1>1. /\ IsStore(store, serial) /\ StoredBytes \in Nat /\ StoredBytes' \in Nat /\ buffered \in Int
  BY CountersAreNumbers, CountersAreNumbersNext
<1>2. EntryBytes(e2) = EntryBytes(store[uid]) /\ PlainBytes(e2) = PlainBytes(store[uid]) /\ Unpaid(e2)
  BY SameBytes DEF Accounts, AllUnpaid
<1>3. PlainBytes(e2) <= PlainBytes(store[uid])
  <2>1. PlainBytes(store[uid]) \in Nat
    BY <1>1, EntryParts DEF IsStore
  <2>2. QED
    BY <1>2, <2>1
<1>4. /\ Kept /\ StoredBytes' = StoredBytes - EntryBytes(store[uid]) + EntryBytes(e2)
      /\ EntryBytes(store[uid]) \in Nat /\ EntryBytes(e2) \in Nat
  BY <1>2, <1>3, UpdateAccounts
<1>5. QED
  BY <1>1, <1>2, <1>4 DEF Balanced, Slack

LEMMA ResolveAccounts ==
  ASSUME Ages, Ages', Accounts, NEW ip \in Ips, NEW uid \in Uids, NEW rid, Resolve(ip, uid, rid)
  PROVE  Balanced /\ Kept
<1>1. uid \in DOMAIN store
  BY DEF Resolve
<1>2. CASE DeleteStoreEntry(uid)
  BY <1>1, <1>2, DeleteAccounts
<1>3. CASE store' = [store EXCEPT ![uid].resolveCount = @ + 1] /\ UNCHANGED buffered
  <2> DEFINE e2 == [store[uid] EXCEPT !.resolveCount = store[uid].resolveCount + 1]
  <2>1. IsEntry(store[uid], serial)
    BY <1>1 DEF Ages, TypeOK, StoreTypeOK
  <2>2. store' = [store EXCEPT ![uid] = e2]
    BY <1>1, <1>3
  <2>3. e2.size = store[uid].size /\ e2.clients = store[uid].clients /\ e2.approvals = store[uid].approvals
    BY <2>1 DEF IsEntry, Entry
  <2> HIDE DEF e2
  <2>4. QED
    BY <1>1, <1>3, <2>2, <2>3, ScalarAccounts
<1>4. QED
  BY <1>2, <1>3 DEF Resolve, Deliver

LEMMA ExtendAccounts ==
  ASSUME Ages, Ages', Accounts, NEW ip \in Ips, NEW uid \in Uids, NEW tok, NEW minutes, Extend(ip, uid, tok, minutes)
  PROVE  Balanced /\ Kept
<1> DEFINE e2 == [store[uid] EXCEPT !.createdAt = Adjusted(store[uid].createdAt, minutes)]
<1>1. uid \in DOMAIN store /\ UNCHANGED buffered /\ store' = [store EXCEPT ![uid] = e2]
  BY DEF Extend
<1>2. IsEntry(store[uid], serial)
  BY <1>1 DEF Ages, TypeOK, StoreTypeOK
<1>3. e2.size = store[uid].size /\ e2.clients = store[uid].clients /\ e2.approvals = store[uid].approvals
  BY <1>2 DEF IsEntry, Entry
<1> HIDE DEF e2
<1>4. QED
  BY <1>1, <1>3, ScalarAccounts

\* Kicking one address frees bytes that the counter goes on counting.
LEMMA KickAccounts ==
  ASSUME Ages, Ages', Accounts, NEW ip \in Ips, NEW uid \in Uids, NEW tok, NEW target \in Ips \cup {Everyone},
         Kick(ip, uid, tok, target)
  PROVE  /\ Kept
         /\ Balanced \/ (Slack' > Slack /\ target \in Ips /\ tok \in Tokens)
<1>1. /\ IsStore(store, serial) /\ StoredBytes \in Nat /\ StoredBytes' \in Nat /\ buffered \in Int
      /\ IsStore(store', serial')
  BY CountersAreNumbers, CountersAreNumbersNext
<1>2. uid \in DOMAIN store /\ Owns(tok, uid) /\ serial' = serial
  BY DEF Kick
<1>3. IsEntry(store[uid], serial) /\ serial \in Nat
  BY <1>1, <1>2 DEF IsStore
<1>4. CASE target = Everyone
  BY <1>2, <1>4, DeleteAccounts DEF Kick
<1>5. CASE target # Everyone
  <2> DEFINE e == store[uid]
             a == Keep(e.approvals, {i \in DOMAIN e.approvals : e.approvals[i].ip # target})
             e2 == [e EXCEPT !.kickedIps = e.kickedIps \cup {target}, !.approvals = a]
  <2>1. store' = [store EXCEPT ![uid] = e2] /\ UNCHANGED buffered
    <3>1. store' = [store EXCEPT ![uid].kickedIps = @ \cup {target},
                   ![uid].approvals = Keep(@, {i \in DOMAIN @ : @[i].ip # target})] /\ UNCHANGED buffered
      BY <1>5 DEF Kick
    <3>2. QED
      BY <1>2, <1>3, <3>1 DEF IsEntry, Entry
  <2>2. DOMAIN a \subseteq DOMAIN e.approvals /\ \A i \in DOMAIN a : a[i] = e.approvals[i]
    BY DEF Keep
  <2> HIDE DEF a
  <2>3. e2.size = e.size /\ e2.clients = e.clients /\ e2.approvals = a
    BY <1>3 DEF IsEntry, Entry
  <2> HIDE DEF e2
  <2>4. IsEntry(e2, serial)
    BY <1>1, <1>2, <2>1 DEF IsStore
  <2>5. EntryBytes(e2) <= EntryBytes(e) /\ PlainBytes(e2) <= PlainBytes(e) /\ (Unpaid(e) => Unpaid(e2))
    <3> HIDE DEF e
    <3>1. QED
      BY <1>3, <2>2, <2>3, <2>4, FewerBytes DEF e
  <2>6. Unpaid(e2)
    BY <1>2, <2>5 DEF Accounts, AllUnpaid
  <2>7. /\ Kept /\ StoredBytes' = StoredBytes - EntryBytes(e) + EntryBytes(e2)
        /\ EntryBytes(e) \in Nat /\ EntryBytes(e2) \in Nat
    BY <1>2, <2>1, <2>5, <2>6, UpdateAccounts
  <2>8. Slack' >= Slack /\ Slack \in Int /\ Slack' \in Int
    BY <1>1, <2>1, <2>5, <2>7 DEF Slack
  <2>9. tok \in Tokens
    BY <1>2, <1>3 DEF Owns, IsEntry, Entry
  <2>10. QED
    BY <1>5, <2>7, <2>8, <2>9 DEF Balanced
<1>6. QED
  BY <1>4, <1>5

\* The prune takes from the counter what it takes from the store.
LEMMA PruneAccounts ==
  ASSUME Ages, Ages', Accounts, Prune
  PROVE  Balanced /\ Kept
<1>1. /\ IsStore(store, serial) /\ StoredBytes \in Nat /\ StoredBytes' \in Nat /\ buffered \in Int
      /\ IsStore(store', serial') /\ serial' = serial /\ serial \in Nat
  BY CountersAreNumbers, CountersAreNumbersNext DEF Prune, IsStore
<1>2. DOMAIN store' = Unexpired /\ Unexpired \subseteq DOMAIN store
      /\ \A uid \in Unexpired : store'[uid] = Trimmed(store[uid])
  BY DEF Prune, Unexpired
<1>3. Total([uid \in Unexpired |-> EntryBytes(Trimmed(store[uid]))]) = StoredBytes'
  <2>1. [uid \in Unexpired |-> EntryBytes(Trimmed(store[uid]))] = [uid \in DOMAIN store' |-> EntryBytes(store'[uid])]
    BY <1>2
  <2>2. QED
    BY <2>1 DEF StoredBytes
<1>4. buffered' = Max0(buffered - StoredBytes + StoredBytes')
  BY <1>3 DEF Prune
<1>5. Balanced
  <2>1. StoredBytes <= buffered
    BY DEF Accounts, BytesCovered
  <2>2. \A b \in Int, m, n \in Nat : m <= b => Max0(b - m + n) = b - m + n /\ Max0(b - m + n) - n = b - m
    BY DEF Max0
  <2>3. buffered' - StoredBytes' = buffered - StoredBytes
    <3>1. buffered \in Int /\ StoredBytes \in Nat /\ StoredBytes' \in Nat
      BY <1>1
    <3>2. QED
      BY <1>4, <2>1, <2>2, <3>1
  <2>4. QED
    BY <2>3 DEF Balanced, Slack
<1>6. ASSUME NEW uid \in Unexpired
      PROVE  PlainBytes(store'[uid]) <= PlainBytes(store[uid]) /\ Unpaid(store'[uid])
  <2> DEFINE e == store[uid]
             e2 == store'[uid]
  <2>1. IsEntry(e, serial) /\ IsEntry(e2, serial) /\ e2 = Trimmed(e) /\ Unpaid(e)
    BY <1>1, <1>2 DEF IsStore, Accounts, AllUnpaid
  <2>2. /\ e2.size = e.size
        /\ e2.approvals = Newest(Keep(e.approvals, {i \in DOMAIN e.approvals : clock - e.approvals[i].createdAt <= ApprovalTTL}), MaxApprovals)
        /\ e2.clients = Newest(Keep(e.clients, {i \in DOMAIN e.clients : clock - e.clients[i].seenAt <= TelemetryTTL}), MaxClients)
    <3> HIDE DEF e, e2
    <3>1. QED
      BY <2>1 DEF Trimmed, IsEntry, Entry
  <2>3. \A f, S, limit : /\ DOMAIN Newest(Keep(f, S), limit) \subseteq DOMAIN f
                         /\ \A i \in DOMAIN Newest(Keep(f, S), limit) : Newest(Keep(f, S), limit)[i] = f[i]
    BY DEF Newest, Keep
  <2>4. QED
    <3> HIDE DEF e, e2
    <3>1. PlainBytes(e2) <= PlainBytes(e) /\ Unpaid(e2)
      BY <1>1, <2>1, <2>2, <2>3, FewerBytes
    <3>2. QED
      BY <3>1 DEF e, e2
<1>7. Plain(store') <= Plain(store)
  BY <1>1, <1>2, <1>6, PlainLesser
<1>8. AllUnpaid'
  BY <1>2, <1>6 DEF AllUnpaid
<1>9. QED
  BY <1>5, <1>7, <1>8 DEF Kept

LEMMA RestartAccounts ==
  ASSUME store = EmptyMap, buffered = 0
  PROVE  Accounts
<1>1. DOMAIN store = {}
  BY DEF EmptyMap
<1>2. StoredBytes = 0 /\ Plain(store) = 0
  BY <1>1, TotalNone DEF StoredBytes, Plain
<1>3. QED
  BY <1>1, <1>2, BrokerAssumption DEF BrokerAssumption, Accounts, BytesCovered, AllUnpaid
\* The only steps that move the counter and the store apart.
KickedApart == \E ip, target \in Ips, uid \in Uids, tok \in Tokens : Slack' > Slack /\ Kick(ip, uid, tok, target)

LEMMA AccountsStep ==
  ASSUME Ages, Ages', Accounts, [Next]_vars
  PROVE  \/ (Balanced \/ KickedApart) /\ Kept
         \/ Restart
<1> DEFINE Goal == (Balanced \/ KickedApart) /\ Kept
<1>1. \A ip : Violates(ip) => Goal
  BY SameAccounts DEF Violates, storeVars
<1>2. ASSUME NEW ip \in Ips, NEW uid \in Uids, NEW tok, NEW size \in Sizes \cup {Malformed}, NEW gated, NEW once,
             Register(ip, uid, tok, size, gated, once)
      PROVE  Goal
  BY <1>2, RegisterAccounts
<1>3. ASSUME NEW ip \in Ips, NEW uid \in Uids, NEW tok, ListForHost(ip, uid, tok) \/ Revoke(ip, uid, tok)
      PROVE  Goal
  BY <1>1, <1>3, DeleteAccounts DEF ListForHost, Revoke
<1>4. ASSUME NEW ip \in Ips, NEW uid \in Uids, NEW rid, NEW tok, NEW decision \in {"approved", "denied"},
             NEW body \in Bodies, Decide(ip, uid, rid, tok, decision, body)
      PROVE  Goal
  BY <1>4, DecideAccounts
<1>5. ASSUME NEW ip \in Ips, NEW uid \in Uids, NEW tok, NEW target \in Ips \cup {Everyone}, Kick(ip, uid, tok, target)
      PROVE  Goal
  <2>1. Kept /\ (Balanced \/ (Slack' > Slack /\ target \in Ips /\ tok \in Tokens))
    BY <1>5, KickAccounts
  <2>2. QED
    BY <1>5, <2>1 DEF KickedApart
<1>6. ASSUME NEW ip \in Ips, NEW uid \in Uids, NEW tok, NEW minutes, Extend(ip, uid, tok, minutes)
      PROVE  Goal
  BY <1>6, ExtendAccounts
<1>7. ASSUME NEW ip \in Ips, NEW uid \in Uids, NEW rid, Resolve(ip, uid, rid)
      PROVE  Goal
  BY <1>7, ResolveAccounts
<1>8. ASSUME NEW ip, NEW uid, NEW rid, ShowStatus(ip, uid, rid)
       PROVE  Goal
  BY <1>8, SameAccounts DEF ShowStatus
<1>9. ASSUME NEW ip \in Ips, NEW uid \in Uids, NEW size \in Sizes \cup {Malformed},
             RequestApproval(ip, uid, size) \/ PushTelemetry(ip, uid, size)
      PROVE  Goal
  BY <1>9, RequestAccounts, TelemetryAccounts
<1>10. ASSUME NEW ip \in Ips, BadParameter(ip)
      PROVE  Goal
  BY <1>1, <1>10 DEF BadParameter
<1>11. ASSUME Prune PROVE Goal
  BY <1>11, PruneAccounts
<1>12. ASSUME Tick PROVE Goal
  BY <1>12, SameAccounts DEF Tick, storeVars
<1>13. ASSUME UNCHANGED vars PROVE Goal
  BY <1>13, SameAccounts DEF vars
<1> HIDE DEF Goal
<1>14. ASSUME Next PROVE Goal \/ Restart
  BY <1>2, <1>3, <1>4, <1>5, <1>6, <1>7, <1>8, <1>9, <1>10, <1>11, <1>12, <1>14 DEF Next
<1>15. Goal \/ Restart
  BY <1>13, <1>14
<1>16. QED
  BY <1>15 DEF Goal

\* No order of registrations, evictions, attachments, kicks, prunes and deletions
\* breaks the books of the broker.
LEMMA AccountsKept == Spec => []Accounts
<1>1. Init => Accounts
  BY RestartAccounts DEF Init
<1>2. Ages /\ Ages' /\ Accounts /\ [Next]_vars => Accounts'
  <2>1. SUFFICES ASSUME Ages, Ages', Accounts, [Next]_vars PROVE Accounts'
    OBVIOUS
  <2>2. CASE Restart
    <3>1. DOMAIN store' = {} /\ buffered' = 0
      BY <2>2 DEF Restart, EmptyMap
    <3>2. StoredBytes' = 0 /\ Plain(store') = 0
      BY <3>1, TotalNone DEF StoredBytes, Plain
    <3>3. QED
      BY <3>1, <3>2, BrokerAssumption DEF BrokerAssumption, Accounts, BytesCovered, AllUnpaid, Plain
  <2>3. CASE (Balanced \/ KickedApart) /\ Kept
    <3>1. /\ StoredBytes \in Nat /\ StoredBytes' \in Nat /\ Plain(store) \in Nat /\ Plain(store') \in Nat
          /\ Attached(store') \in Nat /\ StoredBytes' = Plain(store') + Attached(store')
          /\ buffered \in Int /\ buffered' \in Int /\ MaxBytes \in Nat
      BY <2>1, CountersAreNumbers, CountersAreNumbersNext
    <3>2. buffered' - StoredBytes' >= buffered - StoredBytes
      BY <2>3, <3>1 DEF Balanced, KickedApart, Slack
    <3>3. StoredBytes <= buffered /\ Plain(store) <= MaxBytes
      BY <2>1 DEF Accounts, BytesCovered
    <3>4. StoredBytes' <= buffered'
      BY <3>1, <3>2, <3>3
    <3>5. Plain(store') <= MaxBytes
      BY <2>3, <3>1, <3>3, <3>4 DEF Kept
    <3>6. QED
      BY <2>3, <3>4, <3>5 DEF Accounts, BytesCovered, Kept, Plain
  <2>4. QED
    BY <2>1, <2>2, <2>3, AccountsStep
<1>3. QED
  BY <1>1, <1>2, TypeCorrect, PTL DEF Spec

\* The counter never falls below what the store holds (bufferedPayloadBytes in
\* the routes, deleteStoreEntry and pruneExpired), so the limit checked against
\* it never admits more than it says.
THEOREM Covered == Spec => []BytesCovered
<1>1. Accounts => BytesCovered
  BY DEF Accounts
<1>2. QED
  BY <1>1, AccountsKept, PTL

\* What the routes check against the limit, which is everything but the payloads
\* that hosts attach to their verdicts, stays within it.
THEOREM Checked == Spec => []CheckedBytesBounded
<1>1. Ages /\ Accounts => CheckedBytesBounded
  <2>1. SUFFICES ASSUME Ages, Accounts PROVE CheckedBytesBounded
    OBVIOUS
  <2>2. AttachedBytes = Attached(store)
    BY DEF AttachedBytes, Attached, Payloads
  <2>3. StoredBytes - AttachedBytes = Plain(store)
    BY <2>1, <2>2, CountersAreNumbers
  <2>4. QED
    BY <2>1, <2>3 DEF Accounts, CheckedBytesBounded
<1>2. QED
  BY <1>1, AccountsKept, TypeCorrect, PTL

\* The counter drifts above the store in one place only, the kick of a single
\* address (POST /kick), and comes back in one place only, a restart.
THEOREM Drift == Spec => SlackOnlyFromKick
<1>1. Ages /\ Ages' /\ Accounts /\ [Next]_vars =>
        [Slack' # Slack => \/ Restart
                           \/ \E ip, target \in Ips, uid \in Uids, tok \in Tokens :
                                Slack' > Slack /\ Kick(ip, uid, tok, target)]_vars
  BY AccountsStep DEF Balanced, KickedApart
<1>2. QED
  BY <1>1, AccountsKept, TypeCorrect, PTL DEF Spec, SlackOnlyFromKick

----------------------------------------------------------------------------
(* Delivery and the session gate.                                          *)

\* The bookkeeping behind a delivery: a record counts its own deliveries, and no
\* two records share the id of an approval request.
Linked ==
  /\ serial <= MaxSerial
  /\ \A uid \in DOMAIN store : store[uid].resolveCount = uses[uid].total
  /\ \A u, v \in DOMAIN store : u # v => DOMAIN store[u].approvals \cap DOMAIN store[v].approvals = {}

\* What a step that delivers has checked.
Delivers(uid, rid) ==
  /\ uid \in DOMAIN store
  /\ ~Unservable(store[uid])
  /\ Consented(store[uid], rid)
  /\ Deliver(uid)
  /\ UNCHANGED serial

\* How a step may change the store, the deliveries and the ids.
Untouched == UNCHANGED <<store, serial, uses>>

Removed(uid) == uid \in DOMAIN store /\ DeleteStoreEntry(uid) /\ UNCHANGED <<serial, uses>>

Delivered(uid) == \E rid : Delivers(uid, rid)

Begun(uid) ==
  \E tok \in Tokens \cup {NoToken}, size \in Nat, gated, once \in BOOLEAN :
    uid \notin DOMAIN store /\ RegisterNew(uid, tok, size, gated, once) /\ UNCHANGED serial

Renewed(uid) ==
  \E size \in Nat, gated, once \in BOOLEAN :
    uid \in DOMAIN store /\ RegisterAgain(uid, size, gated, once) /\ UNCHANGED serial

Asked(uid) == \E ip \in Ips, size \in Nat \ {0} : RequestApproval(ip, uid, size)

Told(uid) == \E ip \in Ips, size \in Nat \ {0} : PushTelemetry(ip, uid, size)

Ruled(uid) ==
  \E ip \in Ips, rid \in 1..serial, tok \in Tokens \cup {NoToken}, decision \in {"approved", "denied"}, body \in Bodies :
    Owns(tok, uid) /\ Decide(ip, uid, rid, tok, decision, body)

Kicked(uid) == \E ip, target \in Ips, tok \in Tokens \cup {NoToken} : Kick(ip, uid, tok, target)

Extended(uid) == \E ip \in Ips, tok \in Tokens \cup {NoToken}, minutes \in Offered : Extend(ip, uid, tok, minutes)

Displayed(uid) == \E ip \in Ips, rid \in 1..serial : ShowStatus(ip, uid, rid)

LEMMA GateSteps ==
  ASSUME [Next]_vars
  PROVE  \/ Untouched \/ Prune \/ Restart
         \/ \E uid \in Uids : \/ Removed(uid) \/ Delivered(uid) \/ Begun(uid) \/ Renewed(uid)
                              \/ Asked(uid) \/ Told(uid) \/ Ruled(uid) \/ Kicked(uid) \/ Extended(uid) \/ Displayed(uid)
<1> DEFINE Goal(uid) == \/ Untouched
                        \/ Removed(uid) \/ Delivered(uid) \/ Begun(uid) \/ Renewed(uid)
                        \/ Asked(uid) \/ Told(uid) \/ Ruled(uid) \/ Kicked(uid) \/ Extended(uid) \/ Displayed(uid)
<1>1. Sizes \subseteq Nat \ {0} /\ \A size \in Sizes \cup {Malformed} : size \in Nat /\ (size # Malformed => size \in Nat \ {0})
  BY SizeType, BrokerAssumption DEF BrokerAssumption, Malformed
<1>2. \A ip : Violates(ip) => Untouched
  BY DEF Violates, storeVars, Untouched
<1>3. ASSUME NEW ip \in Ips, NEW uid \in Uids, NEW tok \in Tokens \cup {NoToken}, NEW size \in Sizes \cup {Malformed},
             NEW gated \in BOOLEAN, NEW once \in BOOLEAN, Register(ip, uid, tok, size, gated, once)
      PROVE  Goal(uid)
  <2>1. CASE Violates(ip)
    BY <1>2, <2>1
  <2>2. size \in Nat
    BY <1>1
  <2>3. CASE uid \notin DOMAIN store /\ RegisterNew(uid, tok, size, gated, once) /\ UNCHANGED serial
    <3>1. Begun(uid)
      BY <2>2, <2>3, Zenon DEF Begun
    <3>2. QED
      BY <3>1
  <2>4. CASE uid \in DOMAIN store /\ RegisterAgain(uid, size, gated, once) /\ UNCHANGED serial
    <3>1. Renewed(uid)
      BY <2>2, <2>4, Zenon DEF Renewed
    <3>2. QED
      BY <3>1
  <2> HIDE DEF Goal
  <2>5. QED
    BY <1>3, <2>1, <2>3, <2>4 DEF Register
<1>4. ASSUME NEW ip \in Ips, NEW uid \in Uids, NEW tok \in Tokens \cup {NoToken}, ListForHost(ip, uid, tok) \/ Revoke(ip, uid, tok)
      PROVE  Goal(uid)
  <2>1. Untouched \/ Removed(uid)
    BY <1>2, <1>4 DEF ListForHost, Revoke, Removed
  <2>2. QED
    BY <2>1
<1>5. ASSUME NEW ip \in Ips, NEW uid \in Uids, NEW rid \in 1..serial, NEW tok \in Tokens \cup {NoToken}, NEW decision \in {"approved", "denied"},
             NEW body \in Bodies, Decide(ip, uid, rid, tok, decision, body)
      PROVE  Goal(uid)
  <2>1. CASE Owns(tok, uid)
    <3>1. Ruled(uid)
      BY <1>5, <2>1, Zenon DEF Ruled
    <3>2. QED
      BY <3>1
  <2>2. CASE ~Owns(tok, uid)
    BY <1>2, <1>5, <2>2 DEF Decide
  <2>3. QED
    BY <2>1, <2>2
<1>6. ASSUME NEW ip \in Ips, NEW uid \in Uids, NEW tok \in Tokens \cup {NoToken}, NEW target \in Ips \cup {Everyone}, Kick(ip, uid, tok, target)
      PROVE  Goal(uid)
  <2>1. CASE target = Everyone
    BY <1>6, <2>1 DEF Kick, Removed
  <2>2. CASE target # Everyone
    BY <1>6, <2>2 DEF Kicked
  <2>3. QED
    BY <2>1, <2>2
<1>7. ASSUME NEW ip \in Ips, NEW uid \in Uids, NEW tok \in Tokens \cup {NoToken}, NEW minutes \in Offered, Extend(ip, uid, tok, minutes)
      PROVE  Goal(uid)
  BY <1>7 DEF Extended
<1>8. ASSUME NEW ip \in Ips, NEW uid \in Uids, NEW rid, Resolve(ip, uid, rid)
      PROVE  Goal(uid)
  <2>1. CASE Unservable(store[uid])
    BY <1>8, <2>1 DEF Resolve, Removed
  <2>2. CASE ~Unservable(store[uid])
    BY <1>8, <2>2 DEF Resolve, Delivers, Delivered
  <2>3. QED
    BY <2>1, <2>2
<1>9. ASSUME NEW ip \in Ips, NEW uid \in Uids, NEW rid \in 1..serial, ShowStatus(ip, uid, rid)
       PROVE  Goal(uid)
  BY <1>9 DEF Displayed
<1>10. ASSUME NEW ip \in Ips, NEW uid \in Uids, NEW size \in Sizes \cup {Malformed},
             RequestApproval(ip, uid, size) \/ PushTelemetry(ip, uid, size)
      PROVE  Goal(uid)
  <2>1. CASE size = Malformed
    BY <1>2, <1>10, <2>1 DEF RequestApproval, PushTelemetry
  <2>2. CASE size # Malformed
    BY <1>1, <1>10, <2>2 DEF Asked, Told
  <2>3. QED
    BY <2>1, <2>2
<1>11. ASSUME NEW ip \in Ips, BadParameter(ip)
       PROVE  Untouched
  BY <1>2, <1>11 DEF BadParameter
<1>12. ASSUME Tick \/ UNCHANGED vars
       PROVE  Untouched
  BY <1>12 DEF Tick, storeVars, vars, Untouched
<1> HIDE DEF Goal
<1>13. ASSUME Next PROVE Prune \/ Restart \/ Untouched \/ \E uid \in Uids : Goal(uid)
  <2>1. ASSUME HostStep PROVE \E uid \in Uids : Goal(uid)
    BY <1>3, <1>4, <1>5, <1>6, <1>7, <2>1 DEF HostStep
  <2>2. ASSUME ClientStep PROVE \E uid \in Uids : Goal(uid)
    BY <1>8, <1>9, <1>10, <2>2 DEF ClientStep
  <2>3. QED
    BY <1>11, <1>12, <1>13, <2>1, <2>2, NextParts
<1>14. Prune \/ Restart \/ Untouched \/ \E uid \in Uids : Goal(uid)
  BY <1>12, <1>13
<1>15. QED
  BY <1>14 DEF Goal

\* What the books say after a step that adds no request: ids only disappear.
LEMMA LinkedFewer ==
  ASSUME Linked, serial' <= MaxSerial, DOMAIN store' \subseteq DOMAIN store,
         \A u \in DOMAIN store' : /\ DOMAIN store'[u].approvals \subseteq DOMAIN store[u].approvals
                                  /\ store'[u].resolveCount = uses'[u].total
  PROVE  Linked'
BY DEF Linked

\* A record that is served counts it; the others keep their counts.
LEMMA LinkedDelivered ==
  ASSUME Ages, Linked, NEW uid \in Uids, Delivered(uid)
  PROVE  Linked'
<1>1. /\ uses \in [Uids -> [total : Nat, once : Nat, shown : SUBSET Nat]] /\ DOMAIN store \subseteq Uids
      /\ \A u \in DOMAIN store : IsEntry(store[u], serial)
  BY DEF Ages, TypeOK, StoreTypeOK
<1>2. uid \in DOMAIN store /\ Deliver(uid) /\ serial' = serial
  BY DEF Delivered, Delivers
<1>3. \A u \in Uids : uses'[u].total = IF u = uid THEN uses[u].total + 1 ELSE uses[u].total
  BY <1>1, <1>2 DEF Deliver
<1>4. CASE store[uid].oneTime
  <2>1. store' = Keep(store, DOMAIN store \ {uid})
    BY <1>2, <1>4 DEF Deliver, DeleteStoreEntry
  <2>2. /\ DOMAIN store' \subseteq DOMAIN store /\ uid \notin DOMAIN store'
        /\ \A u \in DOMAIN store' : store'[u] = store[u]
    BY <2>1 DEF Keep
  <2>3. QED
    BY <1>1, <1>2, <1>3, <2>2, LinkedFewer DEF Linked
<1>5. CASE ~store[uid].oneTime
  <2>1. store' = [store EXCEPT ![uid].resolveCount = @ + 1]
    BY <1>2, <1>5 DEF Deliver
  <2>2. /\ DOMAIN store' = DOMAIN store
        /\ \A u \in DOMAIN store : u # uid => store'[u] = store[u]
        /\ store'[uid].resolveCount = store[uid].resolveCount + 1
        /\ store'[uid].approvals = store[uid].approvals
    BY <1>1, <1>2, <2>1 DEF IsEntry, Entry
  <2>3. \A u \in DOMAIN store' : /\ DOMAIN store'[u].approvals \subseteq DOMAIN store[u].approvals
                                 /\ store'[u].resolveCount = uses'[u].total
    BY <1>1, <1>2, <1>3, <2>2 DEF Linked
  <2>4. QED
    BY <1>2, <2>2, <2>3, LinkedFewer DEF Linked
<1>6. QED
  BY <1>4, <1>5

\* A new record starts its counts and its list.
LEMMA LinkedBegun ==
  ASSUME Ages, Linked, NEW uid \in Uids, Begun(uid)
  PROVE  Linked'
<1>1. uses \in [Uids -> [total : Nat, once : Nat, shown : SUBSET Nat]] /\ DOMAIN store \subseteq Uids
  BY DEF Ages, TypeOK, StoreTypeOK
<1>2. PICK tok \in Tokens \cup {NoToken}, size \in Nat, gated \in BOOLEAN, once \in BOOLEAN :
        uid \notin DOMAIN store /\ RegisterNew(uid, tok, size, gated, once) /\ UNCHANGED serial
  BY DEF Begun
<1>3. PICK t \in NewToken(tok) : store' = Put(store, uid, NewEntry(t, size, gated, once))
  BY <1>2 DEF RegisterNew
<1>4. /\ DOMAIN store' = DOMAIN store \cup {uid}
      /\ \A u \in DOMAIN store : u # uid /\ store'[u] = store[u]
      /\ store'[uid].resolveCount = 0 /\ DOMAIN store'[uid].approvals = {}
  BY <1>2, <1>3 DEF Put, NewEntry, EmptyMap
<1>5. uses'[uid].total = 0 /\ \A u \in DOMAIN store : uses'[u] = uses[u]
  BY <1>1, <1>2 DEF RegisterNew, Unused
<1>6. QED
  BY <1>2, <1>4, <1>5 DEF Linked

\* A request takes an id that no record has.
LEMMA LinkedAsked ==
  ASSUME Ages, Linked, NEW uid \in Uids, Asked(uid) \/ Told(uid)
  PROVE  Linked'
<1>1. /\ serial \in Nat /\ serial < MaxSerial /\ serial' = serial + 1 /\ UNCHANGED uses /\ uid \in DOMAIN store
      /\ \A u \in DOMAIN store : IsEntry(store[u], serial)
  BY DEF Ages, TypeOK, StoreTypeOK, Asked, Told, RequestApproval, PushTelemetry, Malformed
<1>2. PICK e : /\ store' = [store EXCEPT ![uid] = e]
               /\ e.resolveCount = store[uid].resolveCount
               /\ DOMAIN e.approvals \subseteq DOMAIN store[uid].approvals \cup {serial + 1}
  <2>1. CASE Asked(uid)
    <3>1. PICK ip \in Ips, size \in Nat \ {0} : RequestApproval(ip, uid, size)
      BY <2>1 DEF Asked
    <3> DEFINE a == PushBounded(store[uid].approvals, NewApproval(store[uid], ip, size), MaxApprovals)
               e == [store[uid] EXCEPT !.approvals = a]
    <3>2. store' = [store EXCEPT ![uid] = e]
      BY <3>1 DEF RequestApproval, Malformed
    <3>3. DOMAIN a \subseteq DOMAIN store[uid].approvals \cup {serial + 1}
      BY PushParts
    <3> HIDE DEF a
    <3>4. e.resolveCount = store[uid].resolveCount /\ e.approvals = a
      BY <1>1 DEF IsEntry, Entry
    <3> HIDE DEF e
    <3>5. QED
      BY <3>2, <3>3, <3>4
  <2>2. CASE Told(uid)
    <3>1. PICK ip \in Ips, size \in Nat \ {0} : PushTelemetry(ip, uid, size)
      BY <2>2 DEF Told
    <3> DEFINE c == PushBounded(store[uid].clients, [size |-> size, seenAt |-> clock], MaxClients)
               e == [store[uid] EXCEPT !.clients = c]
    <3>2. store' = [store EXCEPT ![uid] = e]
      BY <3>1 DEF PushTelemetry, Malformed
    <3> HIDE DEF c
    <3>3. e.resolveCount = store[uid].resolveCount /\ e.approvals = store[uid].approvals
      BY <1>1 DEF IsEntry, Entry
    <3> HIDE DEF e
    <3>4. QED
      BY <3>2, <3>3
  <2>3. QED
    BY <2>1, <2>2
<1>3. /\ DOMAIN store' = DOMAIN store /\ store'[uid] = e
      /\ \A u \in DOMAIN store : u # uid => store'[u] = store[u]
  BY <1>1, <1>2
<1>4. \A u \in DOMAIN store : DOMAIN store[u].approvals \subseteq 1..serial /\ serial + 1 \notin DOMAIN store[u].approvals
  BY <1>1 DEF IsEntry
<1>5. serial' <= MaxSerial
  BY <1>1, BrokerAssumption DEF BrokerAssumption
<1>6. \A u \in DOMAIN store' : store'[u].resolveCount = uses'[u].total
  BY <1>1, <1>2, <1>3 DEF Linked
<1>7. \A u, v \in DOMAIN store' : u # v => DOMAIN store'[u].approvals \cap DOMAIN store'[v].approvals = {}
  BY <1>2, <1>3, <1>4 DEF Linked
<1>8. QED
  BY <1>5, <1>6, <1>7 DEF Linked

LEMMA LinkedStep ==
  ASSUME Ages, Linked, [Next]_vars
  PROVE  Linked'
<1>1. /\ uses \in [Uids -> [total : Nat, once : Nat, shown : SUBSET Nat]] /\ DOMAIN store \subseteq Uids /\ MaxSerial \in Nat
      /\ serial \in Nat /\ \A u \in DOMAIN store : IsEntry(store[u], serial)
  BY BrokerAssumption DEF BrokerAssumption, Ages, TypeOK, StoreTypeOK
<1>2. CASE Untouched
  BY <1>2 DEF Untouched, Linked
\* Steps that count no delivery and add no request.
<1>3. ASSUME DOMAIN store' \subseteq DOMAIN store, UNCHANGED <<serial, uses>>,
             \A u \in DOMAIN store' : /\ store'[u].resolveCount = store[u].resolveCount
                                      /\ DOMAIN store'[u].approvals \subseteq DOMAIN store[u].approvals
      PROVE  Linked'
  <2>1. serial' <= MaxSerial /\ \A u \in DOMAIN store' : store'[u].resolveCount = uses'[u].total
    BY <1>3 DEF Linked
  <2>2. QED
    BY <1>3, <2>1, LinkedFewer
<1>4. ASSUME NEW uid \in Uids, Removed(uid) PROVE Linked'
  BY <1>3, <1>4 DEF Removed, DeleteStoreEntry, Keep
<1>5. ASSUME NEW uid \in Uids, Renewed(uid) PROVE Linked'
  <2>1. PICK size \in Nat, gated \in BOOLEAN, once \in BOOLEAN :
          uid \in DOMAIN store /\ RegisterAgain(uid, size, gated, once) /\ UNCHANGED serial
    BY <1>5 DEF Renewed
  <2> DEFINE e == Refreshed(store[uid], size, gated, once)
  <2>2. store' = [store EXCEPT ![uid] = e] /\ UNCHANGED <<serial, uses>>
    BY <2>1 DEF RegisterAgain
  <2>3. e.resolveCount = store[uid].resolveCount /\ e.approvals = store[uid].approvals
    BY <1>1, <2>1 DEF Refreshed, IsEntry, Entry
  <2> HIDE DEF e
  <2>4. QED
    BY <1>3, <2>1, <2>2, <2>3
<1>6. ASSUME NEW uid \in Uids, Ruled(uid) PROVE Linked'
  <2>1. PICK ip \in Ips, rid \in 1..serial, tok \in Tokens \cup {NoToken}, decision \in {"approved", "denied"},
             body \in Bodies : Owns(tok, uid) /\ Decide(ip, uid, rid, tok, decision, body)
    BY <1>6 DEF Ruled
  <2> DEFINE attached == IF decision = "approved" /\ body \in Sizes THEN body ELSE NoPayload
  <2>2. /\ uid \in DOMAIN store /\ rid \in DOMAIN store[uid].approvals
        /\ store' = [store EXCEPT ![uid].approvals[rid].status = decision,
                                  ![uid].approvals[rid].approvedPayload = attached]
        /\ UNCHANGED <<serial, uses>>
    BY <2>1 DEF Decide
  <2> HIDE DEF attached
  <2>3. /\ DOMAIN store' = DOMAIN store
        /\ \A u \in DOMAIN store : /\ store'[u].resolveCount = store[u].resolveCount
                                   /\ DOMAIN store'[u].approvals = DOMAIN store[u].approvals
    BY <1>1, <2>2 DEF IsEntry, Entry
  <2>4. QED
    BY <1>3, <2>2, <2>3
<1>7. ASSUME NEW uid \in Uids, Kicked(uid) PROVE Linked'
  <2>1. PICK target \in Ips :
          /\ uid \in DOMAIN store
          /\ store' = [store EXCEPT ![uid].kickedIps = @ \cup {target},
                                    ![uid].approvals = Keep(@, {i \in DOMAIN @ : @[i].ip # target})]
          /\ UNCHANGED <<serial, uses>>
    BY <1>7, BrokerAssumption DEF BrokerAssumption, Kicked, Kick
  <2>2. /\ DOMAIN store' = DOMAIN store
        /\ \A u \in DOMAIN store : /\ store'[u].resolveCount = store[u].resolveCount
                                   /\ DOMAIN store'[u].approvals \subseteq DOMAIN store[u].approvals
    BY <1>1, <2>1 DEF IsEntry, Entry, Keep
  <2>3. QED
    BY <1>3, <2>1, <2>2
<1>8. ASSUME NEW uid \in Uids, Extended(uid) PROVE Linked'
  <2>1. PICK t : uid \in DOMAIN store /\ store' = [store EXCEPT ![uid].createdAt = t] /\ UNCHANGED <<serial, uses>>
    BY <1>8 DEF Extended, Extend
  <2>2. /\ DOMAIN store' = DOMAIN store
        /\ \A u \in DOMAIN store : /\ store'[u].resolveCount = store[u].resolveCount
                                   /\ DOMAIN store'[u].approvals = DOMAIN store[u].approvals
    BY <1>1, <2>1 DEF IsEntry, Entry
  <2>3. QED
    BY <1>3, <2>1, <2>2
<1>9. CASE Prune
  <2>1. /\ DOMAIN store' \subseteq DOMAIN store /\ UNCHANGED <<serial, uses>>
        /\ \A u \in DOMAIN store' : store'[u] = Trimmed(store[u])
    BY <1>9 DEF Prune, Unexpired
  <2>2. \A u \in DOMAIN store : /\ Trimmed(store[u]).resolveCount = store[u].resolveCount
                                /\ DOMAIN Trimmed(store[u]).approvals \subseteq DOMAIN store[u].approvals
    BY <1>1 DEF Trimmed, Newest, Keep, IsEntry, Entry
  <2>3. QED
    BY <1>3, <2>1, <2>2
<1>10. CASE Restart
  BY <1>10 DEF Restart, EmptyMap, Linked
<1>11. ASSUME NEW uid \in Uids, Displayed(uid) PROVE Linked'
  <2>1. PICK rid : UNCHANGED <<store, serial>> /\ uses' = [uses EXCEPT ![uid].shown = @ \cup {rid}]
    BY <1>11 DEF Displayed, ShowStatus
  <2>2. \A u \in DOMAIN store : uses'[u].total = uses[u].total
    BY <1>1, <2>1
  <2>3. QED
    BY <2>1, <2>2 DEF Linked
<1>12. QED
  BY <1>2, <1>4, <1>5, <1>6, <1>7, <1>8, <1>9, <1>10, <1>11, GateSteps, LinkedDelivered, LinkedBegun, LinkedAsked
LEMMA BooksKept == Spec => []Linked
<1>1. Init => Linked
  BY BrokerAssumption DEF BrokerAssumption, Init, EmptyMap, Linked
<1>2. Ages /\ Linked /\ [Next]_vars => Linked'
  BY LinkedStep
<1>3. QED
  BY <1>1, <1>2, TypeCorrect, PTL DEF Spec

\* A step that shows the two ends nothing.
LEMMA GateSame ==
  ASSUME DOMAIN store' = DOMAIN store, \A u \in DOMAIN store : Terms(store'[u]) = Terms(store[u])
  PROVE  Sessions' = Sessions
BY DEF Sessions

LEMMA TermsParts ==
  \A e : Terms(e) = [gated |-> e.approvalRequired, once |-> e.oneTime, verdicts |-> Terms(e).verdicts]
BY DEF Terms

\* Records and requests go, and nothing else changes.
LEMMA GateForget ==
  ASSUME DOMAIN store' \subseteq DOMAIN store, UNCHANGED <<serial, uses>>, NEW kept,
         \A u \in DOMAIN store' :
           /\ store'[u].approvalRequired = store[u].approvalRequired
           /\ store'[u].oneTime = store[u].oneTime
           /\ DOMAIN store'[u].approvals = kept \cap DOMAIN store[u].approvals
           /\ \A i \in DOMAIN store'[u].approvals : store'[u].approvals[i].status = store[u].approvals[i].status
  PROVE  Gate!Forget(DOMAIN store', kept)
<1> DEFINE Cut(r) == [r EXCEPT !.verdicts = [id \in kept \cap DOMAIN @ |-> @[id]]]
<1>1. ASSUME NEW u \in DOMAIN store'
      PROVE  Terms(store'[u]) = Cut(Terms(store[u]))
  <2> DEFINE v == Terms(store[u]).verdicts
             w == [id \in kept \cap DOMAIN v |-> v[id]]
  <2>1. /\ DOMAIN v = DOMAIN store[u].approvals
        /\ \A i \in DOMAIN v : v[i] = store[u].approvals[i].status
    BY DEF Terms
  <2>2. Terms(store'[u]).verdicts = w
    <3> HIDE DEF v
    <3>1. QED
      BY <2>1 DEF Terms
  <2> HIDE DEF w
  <2>3. [Terms(store[u]) EXCEPT !.verdicts = w] = [gated |-> store[u].approvalRequired, once |-> store[u].oneTime, verdicts |-> w]
    BY SMTT(60), TermsParts
  <2>4. Terms(store'[u]) = [gated |-> store[u].approvalRequired, once |-> store[u].oneTime, verdicts |-> Terms(store'[u]).verdicts]
    BY TermsParts
  <2>5. QED
    BY <2>2, <2>3, <2>4 DEF w, v
<1>2. \A u \in DOMAIN store' : Sessions[u] = Terms(store[u])
  BY DEF Sessions
<1>3. DOMAIN Sessions = DOMAIN store
  BY DEF Sessions
<1>4. Sessions' = [u \in DOMAIN store' |-> Cut(Sessions[u])]
  <2>1. Sessions' = [u \in DOMAIN store' |-> Terms(store'[u])]
    BY DEF Sessions
  <2> HIDE DEF Cut
  <2>2. QED
    BY <1>1, <1>2, <2>1
<1>5. QED
  BY <1>3, <1>4 DEF Gate!Forget

LEMMA GateBegun ==
  ASSUME NEW uid \in Uids, Begun(uid)
  PROVE  \E gated, once \in BOOLEAN : Gate!Open(uid, gated, once)
<1>1. PICK tok \in Tokens \cup {NoToken}, size \in Nat, gated \in BOOLEAN, once \in BOOLEAN :
        uid \notin DOMAIN store /\ RegisterNew(uid, tok, size, gated, once) /\ UNCHANGED serial
  BY DEF Begun
<1>2. PICK t \in NewToken(tok) : store' = Put(store, uid, NewEntry(t, size, gated, once))
  BY <1>1 DEF RegisterNew
<1>3. DOMAIN Sessions = DOMAIN store /\ \A u \in DOMAIN store : Sessions[u] = Terms(store[u])
  BY DEF Sessions
<1>4. /\ DOMAIN store' = DOMAIN store \cup {uid}
      /\ \A u \in DOMAIN store : u # uid /\ store'[u] = store[u]
      /\ store'[uid].approvalRequired = gated /\ store'[uid].oneTime = once
      /\ store'[uid].approvals = [i \in {} |-> i]
  BY <1>1, <1>2 DEF Put, NewEntry, EmptyMap
<1>5. Terms(store'[uid]) = [gated |-> gated, once |-> once, verdicts |-> [i \in {} |-> i]]
  BY <1>4 DEF Terms
<1>6. Sessions' = Gate!With(Sessions, uid, [gated |-> gated, once |-> once, verdicts |-> [i \in {} |-> i]])
  <2>1. Sessions' = [u \in DOMAIN store' |-> Terms(store'[u])]
    BY DEF Sessions
  <2>2. QED
    BY <1>3, <1>4, <1>5, <2>1 DEF Gate!With
<1>7. uid \notin DOMAIN Sessions /\ uses' = [uses EXCEPT ![uid] = Unused] /\ UNCHANGED serial
  BY <1>1, <1>3 DEF RegisterNew
<1>8. Gate!Open(uid, gated, once)
  BY <1>6, <1>7 DEF Gate!Open, Gate!Unserved, Unused
<1>9. QED
  BY <1>8

LEMMA GateRenewed ==
  ASSUME Ages, NEW uid \in Uids, Renewed(uid)
  PROVE  \E gated, once \in BOOLEAN : Gate!Renew(uid, gated, once)
<1>1. PICK size \in Nat, gated \in BOOLEAN, once \in BOOLEAN :
        uid \in DOMAIN store /\ RegisterAgain(uid, size, gated, once) /\ UNCHANGED serial
  BY DEF Renewed
<1> DEFINE e == Refreshed(store[uid], size, gated, once)
<1>2. store' = [store EXCEPT ![uid] = e] /\ UNCHANGED <<serial, uses>>
  BY <1>1 DEF RegisterAgain
<1>3. e.approvalRequired = gated /\ e.oneTime = once /\ e.approvals = store[uid].approvals
  BY <1>1 DEF Refreshed, Ages, TypeOK, StoreTypeOK, IsEntry, Entry
<1> HIDE DEF e
<1>4. DOMAIN Sessions = DOMAIN store /\ \A u \in DOMAIN store : Sessions[u] = Terms(store[u])
  BY DEF Sessions
<1>5. Terms(e) = [[Terms(store[uid]) EXCEPT !.gated = gated] EXCEPT !.once = once]
  <2>1. Terms(e).verdicts = Terms(store[uid]).verdicts
    BY <1>3 DEF Terms
  <2>2. [Terms(store[uid]) EXCEPT !.gated = gated]
          = [gated |-> gated, once |-> store[uid].oneTime, verdicts |-> Terms(e).verdicts]
    BY <2>1, TermsParts
  <2>3. [[Terms(store[uid]) EXCEPT !.gated = gated] EXCEPT !.once = once]
          = [gated |-> gated, once |-> once, verdicts |-> Terms(e).verdicts]
    <3> DEFINE r == [Terms(store[uid]) EXCEPT !.gated = gated]
    <3>1. r = [gated |-> gated, once |-> store[uid].oneTime, verdicts |-> Terms(e).verdicts]
      BY <2>2
    <3> HIDE DEF r
    <3>2. [r EXCEPT !.once = once] = [gated |-> gated, once |-> once, verdicts |-> Terms(e).verdicts]
      BY <3>1
    <3>3. QED
      BY <3>2 DEF r
  <2>4. Terms(e) = [gated |-> gated, once |-> once, verdicts |-> Terms(e).verdicts]
    BY <1>3, TermsParts
  <2>5. QED
    BY <2>3, <2>4
<1>6. Sessions' = [Sessions EXCEPT ![uid].gated = gated, ![uid].once = once]
  <2>1. Sessions' = [u \in DOMAIN store |-> IF u = uid THEN Terms(e) ELSE Sessions[u]]
    BY <1>1, <1>2, <1>4 DEF Sessions
  <2>2. [Sessions EXCEPT ![uid].gated = gated, ![uid].once = once]
          = [Sessions EXCEPT ![uid] = [[Sessions[uid] EXCEPT !.gated = gated] EXCEPT !.once = once]]
    BY <1>1, <1>4
  <2>3. QED
    BY <1>1, <1>4, <1>5, <2>1, <2>2
<1>7. Gate!Renew(uid, gated, once)
  BY <1>1, <1>2, <1>4, <1>6 DEF Gate!Renew
<1>8. QED
  BY <1>7

LEMMA GateDelivered ==
  ASSUME Ages, Linked, NEW uid \in Uids, Delivered(uid)
  PROVE  Gate!Serve(uid)
<1>1. PICK rid : Delivers(uid, rid)
  BY DEF Delivered
<1>2. /\ uid \in DOMAIN store /\ IsEntry(store[uid], serial) /\ DOMAIN store \subseteq Uids
      /\ uses \in [Uids -> [total : Nat, once : Nat, shown : SUBSET Nat]] /\ MaxResolves \in Nat
      /\ \A u \in DOMAIN store : IsEntry(store[u], serial)
  BY <1>1, BrokerAssumption DEF BrokerAssumption, Delivers, Ages, TypeOK, StoreTypeOK
<1>3. DOMAIN Sessions = DOMAIN store /\ \A u \in DOMAIN store : Sessions[u] = Terms(store[u])
  BY DEF Sessions
<1>4. /\ Sessions[uid].gated = store[uid].approvalRequired /\ Sessions[uid].once = store[uid].oneTime
      /\ DOMAIN Sessions[uid].verdicts = DOMAIN store[uid].approvals
      /\ \A i \in DOMAIN store[uid].approvals : Sessions[uid].verdicts[i] = store[uid].approvals[i].status
  BY <1>2, <1>3 DEF Terms
<1>5. Gate!Consent(uid)
  BY <1>1, <1>4 DEF Delivers, Consented, Gate!Consent
<1>6. uses[uid].total = store[uid].resolveCount /\ store[uid].resolveCount \in Nat
  BY <1>2 DEF Linked, IsEntry, Entry
<1>7. uses[uid].total < MaxResolves /\ (Sessions[uid].once => uses[uid].total = 0)
  BY <1>1, <1>2, <1>4, <1>6 DEF Delivers, Unservable
<1>8. UNCHANGED serial /\ Deliver(uid)
  BY <1>1 DEF Delivers
<1>9. CASE store[uid].oneTime
  <2>1. store' = Keep(store, DOMAIN store \ {uid})
    BY <1>8, <1>9 DEF Deliver, DeleteStoreEntry
  <2>2. Sessions' = Gate!Without(Sessions, {uid})
    BY <1>3, <2>1 DEF Sessions, Keep, Gate!Without
  <2>3. uses' = [uses EXCEPT ![uid].total = @ + 1, ![uid].once = @ + 1]
    BY <1>8, <1>9 DEF Deliver
  <2>4. QED
    BY <1>2, <1>3, <1>4, <1>5, <1>7, <1>8, <1>9, <2>2, <2>3 DEF Gate!Serve
<1>10. CASE ~store[uid].oneTime
  <2>1. store' = [store EXCEPT ![uid].resolveCount = @ + 1]
    BY <1>8, <1>10 DEF Deliver
  <2>2. \A u \in DOMAIN store : /\ store'[u].approvalRequired = store[u].approvalRequired
                                /\ store'[u].oneTime = store[u].oneTime
                                /\ store'[u].approvals = store[u].approvals
    BY <1>2, <2>1 DEF IsEntry, Entry
  <2>3. Sessions' = Sessions
    BY <2>1, <2>2, GateSame DEF Terms
  <2>4. uses' = [uses EXCEPT ![uid].total = @ + 1]
    <3>1. uses' = [uses EXCEPT ![uid].total = @ + 1, ![uid].once = @]
      BY <1>8, <1>10 DEF Deliver
    <3>2. QED
      BY <1>2, <3>1
  <2>5. QED
    BY <1>2, <1>3, <1>4, <1>5, <1>7, <1>8, <1>10, <2>3, <2>4 DEF Gate!Serve
<1>11. QED
  BY <1>9, <1>10

LEMMA GateRuled ==
  ASSUME Ages, Linked, NEW uid \in Uids, Ruled(uid)
  PROVE  \E rid \in 1..MaxSerial, decision \in {"approved", "denied"} : Gate!Rule(uid, rid, decision)
<1>1. PICK ip \in Ips, rid \in 1..serial, tok \in Tokens \cup {NoToken}, decision \in {"approved", "denied"},
           body \in Bodies : Owns(tok, uid) /\ Decide(ip, uid, rid, tok, decision, body)
  BY DEF Ruled
<1> DEFINE attached == IF decision = "approved" /\ body \in Sizes THEN body ELSE NoPayload
<1>2. /\ uid \in DOMAIN store /\ rid \in DOMAIN store[uid].approvals
      /\ store[uid].approvals[rid].status = "pending"
      /\ store' = [store EXCEPT ![uid].approvals[rid].status = decision,
                                ![uid].approvals[rid].approvedPayload = attached]
      /\ UNCHANGED <<serial, uses>>
  BY <1>1 DEF Decide, Undecided
<1> HIDE DEF attached
<1>3. \A u \in DOMAIN store : IsEntry(store[u], serial)
  BY DEF Ages, TypeOK, StoreTypeOK
<1>4. DOMAIN Sessions = DOMAIN store /\ \A u \in DOMAIN store : Sessions[u] = Terms(store[u])
  BY DEF Sessions
<1>5. /\ DOMAIN store' = DOMAIN store /\ \A u \in DOMAIN store : u # uid => store'[u] = store[u]
      /\ store'[uid].approvalRequired = store[uid].approvalRequired
      /\ store'[uid].oneTime = store[uid].oneTime
      /\ DOMAIN store'[uid].approvals = DOMAIN store[uid].approvals
      /\ \A i \in DOMAIN store[uid].approvals :
           store'[uid].approvals[i].status = IF i = rid THEN decision ELSE store[uid].approvals[i].status
  <2> DEFINE e == store[uid]
             a == [e.approvals[rid] EXCEPT !.status = decision, !.approvedPayload = attached]
             e2 == [e EXCEPT !.approvals[rid] = a]
  <2>1. store' = [store EXCEPT ![uid] = e2]
    <3>1. uid \in DOMAIN store /\ IsEntry(store[uid], serial) /\ rid \in DOMAIN store[uid].approvals
      BY <1>2, <1>3
    <3>2. store' = [store EXCEPT ![uid].approvals[rid].status = decision,
                                 ![uid].approvals[rid].approvedPayload = attached]
      BY <1>2
    <3>3. QED
      BY ZenonT(60), <3>1, <3>2 DEF IsEntry, Entry, Approval
  <2>2. a.status = decision
    BY <1>2, <1>3 DEF IsEntry, Entry, Approval
  <2> HIDE DEF a
  <2>3. /\ e2.approvalRequired = e.approvalRequired /\ e2.oneTime = e.oneTime
        /\ e2.approvals = [e.approvals EXCEPT ![rid] = a]
    BY <1>2, <1>3 DEF IsEntry, Entry
  <2> HIDE DEF e2
  <2>4. QED
    BY <1>2, <2>1, <2>2, <2>3
<1> DEFINE v == Terms(store[uid]).verdicts
<1>6. DOMAIN v = DOMAIN store[uid].approvals /\ \A i \in DOMAIN v : v[i] = store[uid].approvals[i].status
  BY DEF Terms
<1>7. Terms(store'[uid]) = [Terms(store[uid]) EXCEPT !.verdicts[rid] = decision]
  <2>1. Terms(store'[uid]).verdicts = [v EXCEPT ![rid] = decision]
    <3> HIDE DEF v
    <3>1. QED
      BY ZenonT(60), <1>5, <1>6 DEF Terms
  <2>2. Terms(store'[uid]) = [gated |-> store[uid].approvalRequired, once |-> store[uid].oneTime,
                              verdicts |-> Terms(store'[uid]).verdicts]
    BY <1>5, TermsParts
  <2>3. [Terms(store[uid]) EXCEPT !.verdicts[rid] = decision]
          = [gated |-> store[uid].approvalRequired, once |-> store[uid].oneTime, verdicts |-> [v EXCEPT ![rid] = decision]]
    BY SMTT(60), TermsParts
  <2>4. QED
    BY <2>1, <2>2, <2>3
<1>8. Sessions' = [Sessions EXCEPT ![uid].verdicts[rid] = decision]
  <2>1. Sessions' = [u \in DOMAIN store |-> IF u = uid THEN Terms(store'[uid]) ELSE Sessions[u]]
    <3>1. Sessions' = [u \in DOMAIN store |-> Terms(store'[u])]
      BY <1>5 DEF Sessions
    <3>2. \A u \in DOMAIN store :
            Terms(store'[u]) = IF u = uid THEN Terms(store'[uid]) ELSE Sessions[u]
      BY <1>4, <1>5
    <3>3. QED
      BY <3>1, <3>2
  <2>2. [Sessions EXCEPT ![uid].verdicts[rid] = decision]
          = [Sessions EXCEPT ![uid] = [Sessions[uid] EXCEPT !.verdicts[rid] = decision]]
    BY <1>2, <1>4
  <2>3. QED
    BY <1>2, <1>4, <1>7, <2>1, <2>2
<1>9. Gate!Rule(uid, rid, decision)
  BY <1>2, <1>4, <1>6, <1>8 DEF Gate!Rule
<1>10. rid \in 1..MaxSerial
  BY BrokerAssumption DEF BrokerAssumption, Linked, Ages, TypeOK, StoreTypeOK
<1>11. QED
  BY <1>9, <1>10
\* A request for consent gets the next id, and those its push evicted are forgotten.
LEMMA GateAsked ==
  ASSUME Ages, NEW uid \in Uids, Asked(uid)
  PROVE  \E forgotten \in SUBSET (1..MaxSerial) : Gate!Ask(uid, forgotten)
<1>1. PICK ip \in Ips, size \in Nat \ {0} : RequestApproval(ip, uid, size)
  BY DEF Asked
<1> DEFINE e == store[uid]
           v == NewApproval(e, ip, size)
           a == PushBounded(e.approvals, v, MaxApprovals)
           e2 == [e EXCEPT !.approvals = a]
           forgotten == (DOMAIN e.approvals \cup {serial + 1}) \ DOMAIN a
           verdict == IF Sessions[uid].gated THEN "pending" ELSE "approved"
           old == Terms(e).verdicts
           new == Gate!Without(Gate!With(old, serial + 1, verdict), forgotten)
<1>2. /\ uid \in DOMAIN store /\ IsEntry(e, serial) /\ serial \in Nat
      /\ serial < MaxSerial /\ serial' = serial + 1 /\ UNCHANGED uses
      /\ store' = [store EXCEPT ![uid] = e2]
  BY <1>1 DEF RequestApproval, Malformed, Ages, TypeOK, StoreTypeOK
<1>3. DOMAIN Sessions = DOMAIN store /\ \A u \in DOMAIN store : Sessions[u] = Terms(store[u])
  BY DEF Sessions
<1>4. v.status = verdict
  BY <1>2, <1>3 DEF NewApproval, Terms
<1> HIDE DEF v
<1>5. /\ DOMAIN a \subseteq DOMAIN e.approvals \cup {serial + 1}
      /\ \A i \in DOMAIN a : a[i] = IF i = serial + 1 THEN v ELSE e.approvals[i]
  BY PushParts
<1> HIDE DEF a
<1>6. e2.approvalRequired = e.approvalRequired /\ e2.oneTime = e.oneTime /\ e2.approvals = a
  BY <1>2 DEF IsEntry, Entry
<1> HIDE DEF e2, verdict
<1>7. Terms(e2).verdicts = new
  <2>1. DOMAIN old = DOMAIN e.approvals /\ \A i \in DOMAIN old : old[i] = e.approvals[i].status
    BY DEF Terms
  <2>2. DOMAIN Terms(e2).verdicts = DOMAIN a /\ \A i \in DOMAIN a : Terms(e2).verdicts[i] = a[i].status
    BY <1>6 DEF Terms
  <2>3. Terms(e2).verdicts = [i \in DOMAIN a |-> IF i = serial + 1 THEN verdict ELSE old[i]]
    <3> HIDE DEF old
    <3>1. \A i \in DOMAIN a : a[i].status = IF i = serial + 1 THEN verdict ELSE old[i]
      BY <1>4, <1>5, <2>1
    <3>2. QED
      BY <1>6, <3>1 DEF Terms
  <2>4. (DOMAIN old \cup {serial + 1}) \ forgotten = DOMAIN a
    BY <1>5, <2>1
  <2> HIDE DEF old, forgotten
  <2>5. new = [i \in DOMAIN a |-> IF i = serial + 1 THEN verdict ELSE old[i]]
    BY <2>4 DEF Gate!With, Gate!Without
  <2>6. QED
    BY <2>3, <2>5
<1> HIDE DEF new
<1>8. Terms(e2) = [Terms(e) EXCEPT !.verdicts = new]
  <2>1. [Terms(e) EXCEPT !.verdicts = new] = [gated |-> e.approvalRequired, once |-> e.oneTime, verdicts |-> new]
    BY TermsParts
  <2>2. Terms(e2) = [gated |-> e.approvalRequired, once |-> e.oneTime, verdicts |-> new]
    BY <1>6, <1>7, TermsParts
  <2>3. QED
    BY <2>1, <2>2
<1>9. Sessions' = [Sessions EXCEPT ![uid].verdicts = new]
  <2>1. Sessions' = [u \in DOMAIN store |-> IF u = uid THEN Terms(e2) ELSE Sessions[u]]
    BY <1>2, <1>3 DEF Sessions
  <2>2. [Sessions EXCEPT ![uid].verdicts = new] = [Sessions EXCEPT ![uid] = [Sessions[uid] EXCEPT !.verdicts = new]]
    BY <1>2, <1>3
  <2>3. QED
    BY <1>2, <1>3, <1>8, <2>1, <2>2
<1>10. new = Gate!Without(Gate!With(Sessions[uid].verdicts, serial + 1, verdict), forgotten)
  BY <1>2, <1>3 DEF new
<1>11. Gate!Ask(uid, forgotten)
  <2> HIDE DEF forgotten
  <2>1. QED
    BY <1>2, <1>3, <1>9, <1>10 DEF Gate!Ask, verdict
<1>12. forgotten \in SUBSET (1..MaxSerial)
  <2>1. DOMAIN e.approvals \subseteq 1..serial /\ MaxSerial \in Nat
    BY <1>2, BrokerAssumption DEF BrokerAssumption, IsEntry
  <2>2. QED
    BY <1>2, <2>1
<1>13. QED
  BY <1>11, <1>12

LEMMA GateTold ==
  ASSUME Ages, NEW uid \in Uids, Told(uid)
  PROVE  Gate!SkipId
<1>1. PICK ip \in Ips, size \in Nat \ {0} : PushTelemetry(ip, uid, size)
  BY DEF Told
<1> DEFINE c == PushBounded(store[uid].clients, [size |-> size, seenAt |-> clock], MaxClients)
           e2 == [store[uid] EXCEPT !.clients = c]
<1>2. /\ uid \in DOMAIN store /\ IsEntry(store[uid], serial) /\ serial' = serial + 1 /\ UNCHANGED uses
      /\ store' = [store EXCEPT ![uid] = e2]
  BY <1>1 DEF PushTelemetry, Malformed, Ages, TypeOK, StoreTypeOK
<1> HIDE DEF c
<1>3. /\ e2.approvalRequired = store[uid].approvalRequired /\ e2.oneTime = store[uid].oneTime
      /\ e2.approvals = store[uid].approvals
  BY <1>2 DEF IsEntry, Entry
<1> HIDE DEF e2
<1>4. Sessions' = Sessions
  <2>1. Terms(e2) = Terms(store[uid])
    BY <1>3 DEF Terms
  <2>2. QED
    BY <1>2, <2>1, GateSame
<1>5. QED
  BY <1>2, <1>4 DEF Gate!SkipId

LEMMA GateExtended ==
  ASSUME Ages, NEW uid \in Uids, Extended(uid)
  PROVE  UNCHANGED <<Sessions, serial, uses>>
<1>1. PICK t : uid \in DOMAIN store /\ store' = [store EXCEPT ![uid].createdAt = t] /\ UNCHANGED <<serial, uses>>
  BY DEF Extended, Extend
<1> DEFINE e2 == [store[uid] EXCEPT !.createdAt = t]
<1>2. store' = [store EXCEPT ![uid] = e2]
  BY <1>1
<1>3. /\ e2.approvalRequired = store[uid].approvalRequired /\ e2.oneTime = store[uid].oneTime
      /\ e2.approvals = store[uid].approvals
  BY <1>1 DEF Ages, TypeOK, StoreTypeOK, IsEntry, Entry
<1> HIDE DEF e2
<1>4. Terms(e2) = Terms(store[uid])
  BY <1>3 DEF Terms
<1>5. QED
  BY <1>1, <1>2, <1>4, GateSame

LEMMA GateDisplayed ==
  ASSUME Ages, Linked, NEW uid \in Uids, Displayed(uid)
  PROVE  \E rid \in 1..MaxSerial : Gate!Show(uid, rid)
<1>1. PICK rid \in 1..serial :
        /\ uid \in DOMAIN store
        /\ rid \in DOMAIN store[uid].approvals
        /\ store[uid].approvals[rid].status = "approved"
        /\ uses' = [uses EXCEPT ![uid].shown = @ \cup {rid}]
        /\ UNCHANGED <<store, serial>>
  BY DEF Displayed, ShowStatus
<1>2. rid \in 1..MaxSerial
  BY <1>1, BrokerAssumption DEF BrokerAssumption, Linked, Ages, TypeOK, StoreTypeOK
<1>3. uid \in DOMAIN Sessions /\ Sessions[uid] = Terms(store[uid]) /\ UNCHANGED Sessions
  BY <1>1 DEF Sessions
<1>4. rid \in DOMAIN Sessions[uid].verdicts /\ Sessions[uid].verdicts[rid] = "approved"
  BY <1>1, <1>3 DEF Terms
<1>5. Gate!Show(uid, rid)
  BY <1>1, <1>3, <1>4 DEF Gate!Show
<1>6. QED
  BY <1>2, <1>5

LEMMA GateRemoved ==
  ASSUME Ages, Linked, NEW uid \in Uids, Removed(uid)
  PROVE  Gate!Forget(DOMAIN store', 1..MaxSerial)
<1>1. /\ serial \in Nat /\ serial <= MaxSerial /\ MaxSerial \in Nat
      /\ \A u \in DOMAIN store : DOMAIN store[u].approvals \subseteq 1..serial
  BY BrokerAssumption DEF BrokerAssumption, Linked, Ages, TypeOK, StoreTypeOK, IsEntry
<1>2. /\ DOMAIN store' \subseteq DOMAIN store /\ UNCHANGED <<serial, uses>>
      /\ \A u \in DOMAIN store' : store'[u] = store[u]
  BY DEF Removed, DeleteStoreEntry, Keep
<1>3. \A u \in DOMAIN store' : DOMAIN store'[u].approvals = (1..MaxSerial) \cap DOMAIN store[u].approvals
  BY <1>1, <1>2
<1>4. QED
  BY <1>2, <1>3, GateForget

\* Ids are forgotten one record at a time because no two records share one.
LEMMA GateFewer ==
  ASSUME Ages, Linked, UNCHANGED <<serial, uses>>, DOMAIN store' \subseteq DOMAIN store,
         \A u \in DOMAIN store' :
           /\ store'[u].approvalRequired = store[u].approvalRequired
           /\ store'[u].oneTime = store[u].oneTime
           /\ DOMAIN store'[u].approvals \subseteq DOMAIN store[u].approvals
           /\ \A i \in DOMAIN store'[u].approvals : store'[u].approvals[i] = store[u].approvals[i]
  PROVE  \E kept \in SUBSET (1..MaxSerial) : Gate!Forget(DOMAIN store', kept)
<1> DEFINE kept == UNION {DOMAIN store'[u].approvals : u \in DOMAIN store'}
<1>1. /\ serial \in Nat /\ serial <= MaxSerial /\ MaxSerial \in Nat
      /\ \A u \in DOMAIN store : DOMAIN store[u].approvals \subseteq 1..serial
  BY BrokerAssumption DEF BrokerAssumption, Linked, Ages, TypeOK, StoreTypeOK, IsEntry
<1>2. kept \in SUBSET (1..MaxSerial)
  BY <1>1
<1>3. ASSUME NEW u \in DOMAIN store'
      PROVE  DOMAIN store'[u].approvals = kept \cap DOMAIN store[u].approvals
  <2>1. ASSUME NEW i \in kept \cap DOMAIN store[u].approvals PROVE i \in DOMAIN store'[u].approvals
    <3>1. PICK w \in DOMAIN store' : i \in DOMAIN store'[w].approvals
      OBVIOUS
    <3>2. w = u
      BY <2>1, <3>1 DEF Linked
    <3>3. QED
      BY <3>1, <3>2
  <2>2. QED
    BY <2>1
<1> HIDE DEF kept
<1>4. Gate!Forget(DOMAIN store', kept)
  BY <1>3, GateForget
<1>5. QED
  BY <1>2, <1>4

LEMMA GateKicked ==
  ASSUME Ages, Linked, NEW uid \in Uids, Kicked(uid)
  PROVE  \E kept \in SUBSET (1..MaxSerial) : Gate!Forget(DOMAIN store', kept)
<1>1. PICK target \in Ips :
        /\ uid \in DOMAIN store
        /\ store' = [store EXCEPT ![uid].kickedIps = @ \cup {target},
                                  ![uid].approvals = Keep(@, {i \in DOMAIN @ : @[i].ip # target})]
        /\ UNCHANGED <<serial, uses>>
  BY BrokerAssumption DEF BrokerAssumption, Kicked, Kick
<1>2. \A u \in DOMAIN store : IsEntry(store[u], serial)
  BY DEF Ages, TypeOK, StoreTypeOK
<1>3. DOMAIN store' = DOMAIN store
  BY <1>1
<1>4. \A u \in DOMAIN store :
        /\ store'[u].approvalRequired = store[u].approvalRequired
        /\ store'[u].oneTime = store[u].oneTime
        /\ DOMAIN store'[u].approvals \subseteq DOMAIN store[u].approvals
        /\ \A i \in DOMAIN store'[u].approvals : store'[u].approvals[i] = store[u].approvals[i]
  BY <1>1, <1>2 DEF IsEntry, Entry, Keep
<1>5. QED
  BY <1>1, <1>3, <1>4, GateFewer

LEMMA GatePruned ==
  ASSUME Ages, Linked, Prune
  PROVE  \E kept \in SUBSET (1..MaxSerial) : Gate!Forget(DOMAIN store', kept)
<1>1. /\ DOMAIN store' \subseteq DOMAIN store /\ UNCHANGED <<serial, uses>>
      /\ \A u \in DOMAIN store' : store'[u] = Trimmed(store[u])
  BY DEF Prune, Unexpired
<1>2. ASSUME NEW u \in DOMAIN store, NEW e, e = Trimmed(store[u])
      PROVE  /\ e.approvalRequired = store[u].approvalRequired
             /\ e.oneTime = store[u].oneTime
             /\ DOMAIN e.approvals \subseteq DOMAIN store[u].approvals
             /\ \A i \in DOMAIN e.approvals : e.approvals[i] = store[u].approvals[i]
  <2>1. IsEntry(store[u], serial)
    BY DEF Ages, TypeOK, StoreTypeOK
  <2>2. /\ e.approvalRequired = store[u].approvalRequired /\ e.oneTime = store[u].oneTime
        /\ e.approvals = Newest(Keep(store[u].approvals,
             {i \in DOMAIN store[u].approvals : clock - store[u].approvals[i].createdAt <= ApprovalTTL}), MaxApprovals)
    BY <1>2, <2>1 DEF Trimmed, IsEntry, Entry
  <2>3. \A f, S, limit : /\ DOMAIN Newest(Keep(f, S), limit) \subseteq DOMAIN f
                         /\ \A i \in DOMAIN Newest(Keep(f, S), limit) : Newest(Keep(f, S), limit)[i] = f[i]
    BY DEF Newest, Keep
  <2>4. QED
    BY <2>2, <2>3
<1>3. \A u \in DOMAIN store' :
        /\ store'[u].approvalRequired = store[u].approvalRequired
        /\ store'[u].oneTime = store[u].oneTime
        /\ DOMAIN store'[u].approvals \subseteq DOMAIN store[u].approvals
        /\ \A i \in DOMAIN store'[u].approvals : store'[u].approvals[i] = store[u].approvals[i]
  BY <1>1, <1>2
<1>4. QED
  BY <1>1, <1>3, GateFewer

LEMMA GateStep ==
  ASSUME Ages, Linked, [Next]_vars
  PROVE  Gate!GateNext \/ UNCHANGED <<Sessions, serial, uses>>
<1>1. DOMAIN store \subseteq Uids
  BY DEF Ages, TypeOK, StoreTypeOK
<1>2. CASE Untouched
  BY <1>2 DEF Untouched, Sessions
<1>3. ASSUME NEW kept, kept \in SUBSET (1..MaxSerial), DOMAIN store' \subseteq DOMAIN store,
             Gate!Forget(DOMAIN store', kept)
      PROVE  Gate!GateNext
  BY <1>1, <1>3 DEF Gate!GateNext
<1>4. CASE Prune
  <2>1. DOMAIN store' \subseteq DOMAIN store
    BY <1>4 DEF Prune, Unexpired
  <2>2. QED
    BY <1>3, <1>4, <2>1, GatePruned
<1>5. CASE Restart
  <2>1. DOMAIN store' = {} /\ UNCHANGED <<serial, uses>>
    BY <1>5 DEF Restart, EmptyMap
  <2>2. Gate!Forget(DOMAIN store', {})
    BY <2>1, GateForget
  <2>3. QED
    BY <1>3, <2>1, <2>2
<1>6. ASSUME NEW uid \in Uids, Removed(uid) PROVE Gate!GateNext
  <2>1. DOMAIN store' \subseteq DOMAIN store
    BY <1>6 DEF Removed, DeleteStoreEntry, Keep
  <2>2. QED
    BY <1>3, <1>6, <2>1, GateRemoved
<1>7. ASSUME NEW uid \in Uids, Kicked(uid) PROVE Gate!GateNext
  <2>1. DOMAIN store' \subseteq DOMAIN store
    BY <1>7, BrokerAssumption DEF BrokerAssumption, Kicked, Kick
  <2>2. QED
    BY <1>3, <1>7, <2>1, GateKicked
<1>8. ASSUME NEW uid \in Uids, Begun(uid) \/ Renewed(uid) PROVE Gate!GateNext
  BY <1>8, GateBegun, GateRenewed DEF Gate!GateNext
<1>9. ASSUME NEW uid \in Uids, Delivered(uid) PROVE Gate!GateNext
  BY <1>9, GateDelivered DEF Gate!GateNext
<1>10. ASSUME NEW uid \in Uids, Asked(uid) PROVE Gate!GateNext
  BY <1>10, GateAsked DEF Gate!GateNext
<1>11. ASSUME NEW uid \in Uids, Told(uid) PROVE Gate!GateNext
  BY <1>11, GateTold DEF Gate!GateNext
<1>12. ASSUME NEW uid \in Uids, Ruled(uid) PROVE Gate!GateNext
  BY <1>12, GateRuled DEF Gate!GateNext
<1>13. ASSUME NEW uid \in Uids, Displayed(uid) PROVE Gate!GateNext
  BY <1>13, GateDisplayed DEF Gate!GateNext
<1>14. QED
  BY <1>2, <1>4, <1>5, <1>6, <1>7, <1>8, <1>9, <1>10, <1>11, <1>12, <1>13, GateSteps, GateExtended

\* Seen from the two ends, the broker is the session gate: every route, timer and
\* restart is a step of it or shows nothing.
THEOREM IsGate == Spec => ImplementsGate
<1>1. Init => Gate!GateInit
  BY DEF Init, EmptyMap, Unused, Sessions, Gate!Unserved, Gate!GateInit
<1>2. Ages /\ Linked /\ [Next]_vars => [Gate!GateNext]_(Gate!gateVars)
  BY GateStep DEF Gate!gateVars
<1>3. QED
  BY <1>1, <1>2, TypeCorrect, BooksKept, PTL DEF Spec, ImplementsGate, Gate!GateSpec
=============================================================================
