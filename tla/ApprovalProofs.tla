--------------------------- MODULE ApprovalProofs ---------------------------
(***************************************************************************)
(* Theorems about the approval of clients, for every number of clients,    *)
(* addresses, rooms, faults and kicks.                                     *)
(***************************************************************************)
EXTENDS ApprovalFlow, WellFoundedInduction, TLAPS

----------------------------------------------------------------------------
(* Type correctness: what TypeOK says, and what it leaves open, namely the *)
(* record of a session that has none and which functions there are.        *)

RecordShape ==
  /\ made \in 0..MaxRequests
  /\ record = NoRecord \/ record.open = TRUE
  /\ record.open => /\ DOMAIN record.requests \subseteq 1..made
                    /\ record \in Record(DOMAIN record.requests)

ClientShape ==
  /\ pc \in [Clients -> {"resolving", "asking", "waiting", "collecting", "using",
                         "left", "disconnected"}]
  /\ goal \in [Clients -> {"connect", "chat"}]
  /\ rid \in [Clients -> 0..made]
  /\ round \in [Clients -> 0..MaxRounds]
  /\ addr \in [Clients -> Addresses]
  /\ lookup \in [Clients -> {"none", "joined", "missing"}]
  /\ served \subseteq Clients \X (0..made)
  /\ read \subseteq Clients

HostShape ==
  /\ room \in Rooms /\ rooms \in Rooms
  /\ unsaid \in BOOLEAN
  /\ menu \in {"idle", "reviewing", "revoking"} \cup Addresses
  /\ review \subseteq 1..made
  /\ posting \in [AllDeciders -> Post \cup {NoPost}]
  /\ \A d \in AllDeciders : posting[d] # NoPost => posting[d].id <= made
  /\ granted \subseteq Clients \X Ids
  /\ banned \subseteq Addresses
  /\ over \in BOOLEAN /\ spared \in BOOLEAN

Shape == RecordShape /\ ClientShape /\ HostShape

LEMMA Bounds ==
  /\ MaxRequests \in Nat /\ MaxRooms \in Nat /\ MaxRounds \in Nat
  /\ Gated \in BOOLEAN /\ OneTime \in BOOLEAN
BY FlowAssumption DEF FlowAssumption

LEMMA Smallest ==
  ASSUME NEW S \in SUBSET Nat, S # {}
  PROVE  Next1(S) \in S
<1>1. PICK x \in S : \A y \in S : ~(<<y, x>> \in OpToRel(<, Nat))
  BY WFMin, NatLessThanWellFounded
<1>2. ASSUME NEW y \in S PROVE x <= y
  <2>1. <<y, x>> \in Nat \X Nat /\ <<y, x>> \notin OpToRel(<, Nat)
    BY <1>1
  <2>2. ~(<<y, x>>[1] < <<y, x>>[2])
    BY <2>1 DEF OpToRel
  <2>3. QED
    BY <2>2
<1>3. QED
  BY <1>2 DEF Next1

LEMMA ShapeTypes == Shape => TypeOK
BY Bounds DEF Shape, RecordShape, ClientShape, HostShape, TypeOK, Ids

LEMMA RequestsType ==
  ASSUME Shape
  PROVE  /\ DOMAIN Requests \subseteq 1..made
         /\ \A i \in DOMAIN Requests : Requests[i] \in Request
         /\ record.open \in BOOLEAN
         /\ 1..made \subseteq Ids
         /\ made \in Nat
<1>1. 1..made \subseteq Ids /\ made \in Nat
  BY Bounds DEF Shape, RecordShape, Ids
<1>2. CASE record.open = TRUE
  BY <1>1, <1>2 DEF Shape, RecordShape, Requests, Record
<1>3. CASE record = NoRecord
  <2>1. record.open = FALSE /\ Requests = <<>> /\ DOMAIN Requests = {}
    BY <1>3 DEF Requests, NoRecord
  <2>2. QED
    BY <1>1, <2>1
<1>4. QED
  BY <1>2, <1>3 DEF Shape, RecordShape

\* The requests that are there are ones that were there.
Shrinks ==
  /\ DOMAIN Requests' \subseteq DOMAIN Requests
  /\ \A i \in DOMAIN Requests' : Requests'[i] = Requests[i]

LEMMA ShrinkEnded ==
  ASSUME record' = NoRecord
  PROVE  Shrinks
BY DEF Shrinks, Requests, NoRecord

LEMMA ShrinkSame ==
  ASSUME UNCHANGED record
  PROVE  Shrinks
BY DEF Shrinks, Requests

LEMMA ShrinkKicked ==
  ASSUME Shape, record.open, NEW a \in Addresses, record' = Kicked(a), UNCHANGED made
  PROVE  Shrinks /\ RecordShape' /\ record'.open = TRUE
BY DEF Shape, RecordShape, Record, Shrinks, Requests, Kicked, NoRecord

LEMMA ShrinkRegistered ==
  ASSUME Shape, Register
  PROVE  Shrinks /\ RecordShape' /\ record'.open = TRUE
<1>1. CASE record.open
  BY <1>1 DEF Shape, RecordShape, HostShape, Record, Shrinks, Requests, Register, NoRecord, Fresh
<1>2. CASE ~record.open
  BY <1>2 DEF Shape, RecordShape, HostShape, Record, Shrinks, Requests, Register, NoRecord, Fresh
<1>3. QED
  BY <1>1, <1>2

LEMMA RecordSame ==
  ASSUME RecordShape, UNCHANGED <<record, made>>
  PROVE  RecordShape'
BY DEF RecordShape

LEMMA RecordEnded ==
  ASSUME RecordShape, record' = NoRecord, UNCHANGED made
  PROVE  RecordShape'
BY DEF RecordShape, NoRecord

LEMMA HostSame ==
  ASSUME HostShape, UNCHANGED hostVars, UNCHANGED endings,
         made' \in Nat, made \in Nat, made <= made'
  PROVE  HostShape'
<1>1. \A d \in AllDeciders : posting[d] # NoPost => posting[d].id \in Nat
  BY Bounds DEF HostShape, Post, Ids
<1>2. QED
  BY <1>1 DEF HostShape, hostVars, endings

LEMMA ClientSame ==
  ASSUME ClientShape, UNCHANGED <<clientVars, addr, made>>
  PROVE  ClientShape'
BY DEF ClientShape, clientVars

\* The client's actions.
LEMMA DeliverShape ==
  ASSUME Shape, NEW c \in Clients, Deliver(c), UNCHANGED <<made, rid, goal, round, addr>>
  PROVE  RecordShape' /\ ClientShape'
<1>1. RecordShape'
  BY RecordSame, RecordEnded DEF Deliver, Shape
<1>2. ClientShape'
  <2>1. <<c, rid[c]>> \in Clients \X (0..made)
    BY DEF Shape, ClientShape
  <2>2. QED
    BY <2>1 DEF Deliver, Shape, ClientShape, Goes
<1>3. QED
  BY <1>1, <1>2

LEMMA ResolveShape ==
  ASSUME Shape, NEW c \in Clients, Resolve(c) \/ Collect(c) \/ ResolveFails(c)
  PROVE  Shape'
<1>1. UNCHANGED <<made, hostVars, goal, rid, round, addr, endings>>
  BY DEF Resolve, Collect, ResolveFails
<1>2. RecordShape' /\ ClientShape'
  <2>1. CASE Deliver(c)
    BY <1>1, <2>1, DeliverShape
  <2>2. CASE ~Deliver(c)
    <3>1. UNCHANGED <<served, read>> /\ (record' = record \/ record' = NoRecord)
      BY <2>2 DEF Resolve, Collect, ResolveFails
    <3>2. RecordShape'
      BY <1>1, <3>1, RecordSame, RecordEnded DEF Shape
    <3>3. ClientShape'
      BY <1>1, <2>2, <3>1 DEF Resolve, Collect, ResolveFails, Shape, ClientShape, Goes, GivesUp
    <3>4. QED
      BY <3>2, <3>3
  <2>3. QED
    BY <2>1, <2>2
<1>3. HostShape'
  BY <1>1, HostSame, Bounds DEF Shape, RecordShape
<1>4. QED
  BY <1>2, <1>3 DEF Shape

LEMMA AskedRequests ==
  ASSUME Shape, NEW c \in Clients, made' = made + 1, record.open,
         record' = [record EXCEPT !.requests =
             [i \in DOMAIN @ \cup {made'} |-> IF i = made' THEN NewRequest(c) ELSE @[i]]]
  PROVE  /\ DOMAIN Requests' = DOMAIN Requests \cup {made'}
         /\ Requests'[made'] = NewRequest(c)
         /\ \A i \in DOMAIN Requests : Requests'[i] = Requests[i]
         /\ record'.open = TRUE
         /\ record'.kicked = record.kicked
         /\ record'.room = record.room
         /\ made' \notin DOMAIN Requests
         /\ NewRequest(c) \in Request
<1>1. made \in Nat /\ DOMAIN Requests \subseteq 1..made
  BY RequestsType, Bounds DEF Shape, RecordShape
<1>2. NewRequest(c) \in Request
  BY Bounds DEF Shape, ClientShape, NewRequest, Request, Keys, Rooms, NoRoom, NoKey
<1>3. QED
  BY <1>1, <1>2 DEF Shape, RecordShape, Record, Requests, NoRecord

LEMMA AskShape ==
  ASSUME Shape, NEW c \in Clients, Ask(c)
  PROVE  Shape'
<1>1. UNCHANGED <<hostVars, goal, round, addr, lookup, served, read, endings>>
  BY DEF Ask
<1>2. made \in Nat /\ made' \in Nat /\ made <= made'
  BY Bounds DEF Ask, Shape, RecordShape
<1>3. RecordShape'
  <2>1. CASE record.open
    <3>1. /\ made' = made + 1 /\ made' \in 0..MaxRequests
          /\ record' = [record EXCEPT !.requests =
                [i \in DOMAIN @ \cup {made'} |-> IF i = made' THEN NewRequest(c) ELSE @[i]]]
      BY <1>2, <2>1, Bounds DEF Ask
    <3>2. NewRequest(c) \in Request
      BY <2>1, <3>1, AskedRequests
    <3>3. record \in Record(DOMAIN record.requests) /\ DOMAIN record.requests \subseteq 1..made
      BY <2>1 DEF Shape, RecordShape
    <3>4. DOMAIN record'.requests = DOMAIN record.requests \cup {made'} /\ record'.open = TRUE
      BY <3>1, <3>3 DEF Record
    <3>5. record' \in Record(DOMAIN record'.requests)
      BY <3>1, <3>2, <3>3, <3>4 DEF Record
    <3>6. QED
      BY <1>2, <3>1, <3>3, <3>4, <3>5 DEF RecordShape
  <2>2. CASE ~record.open
    BY <2>2, RecordSame DEF Ask, Shape
  <2>3. QED
    BY <2>1, <2>2
<1>4. ClientShape'
  BY <1>1, <1>2 DEF Ask, Shape, ClientShape, Goes, GivesUp
<1>5. HostShape'
  BY <1>1, <1>2, HostSame DEF Shape
<1>6. QED
  BY <1>3, <1>4, <1>5 DEF Shape

LEMMA ClientStepShape ==
  ASSUME Shape, NEW c \in Clients,
         \/ HearVerdict(c) \/ StopWaiting(c) \/ JoinChat(c) \/ Act(c) \/ Disconnect(c) \/ Quit(c)
         \/ Move(c)
  PROVE  Shape'
<1>1. UNCHANGED <<record, made, hostVars, endings>>
  BY DEF HearVerdict, StopWaiting, JoinChat, Act, Disconnect, Quit, Move
<1>2. RecordShape' /\ HostShape'
  BY <1>1, RecordSame, HostSame, Bounds DEF Shape, RecordShape
<1>3. ClientShape'
  <2>1. made \in Nat
    BY Bounds DEF Shape, RecordShape
  <2>2. CASE HearVerdict(c) \/ StopWaiting(c) \/ Disconnect(c) \/ Quit(c)
    BY <1>1, <2>2 DEF HearVerdict, StopWaiting, Disconnect, Quit, Shape, ClientShape, Goes, GivesUp
  <2>3. CASE JoinChat(c) \/ Act(c)
    BY <1>1, <2>1, <2>3, Bounds DEF JoinChat, Act, Shape, ClientShape, Goes, Remembered, NoRequest
  <2>4. CASE Move(c)
    BY <1>1, <2>4 DEF Move, Shape, ClientShape, clientVars
  <2>5. QED
    BY <2>2, <2>3, <2>4
<1>4. QED
  BY <1>2, <1>3 DEF Shape

\* The host's actions.
LEMMA DecisionType ==
  ASSUME Shape, NEW d \in AllDeciders, NEW id \in Ids, NEW v \in {"approved", "denied"},
         NEW ip \in Addresses
  PROVE  Decision(d, id, v, ip) \in Post /\ Decision(d, id, v, ip) # NoPost
<1>1. Key(d, ip) \in Keys /\ NoKey \in Keys
  BY DEF Key, Keys
<1>2. room \in Rooms /\ NoRoom \in Rooms
  BY Bounds DEF Shape, HostShape, Rooms, NoRoom
<1>3. QED
  BY <1>1, <1>2, Bounds DEF Decision, Post, NoPost, Ids, NoRequest

LEMMA GrantsType ==
  ASSUME Shape, NEW id \in Ids, NEW v, Grants(id, v)
  PROVE  granted' \subseteq Clients \X Ids
<1>1. id \in DOMAIN Requests => <<Requests[id].owner, id>> \in Clients \X Ids
  BY RequestsType DEF Request
<1>2. QED
  BY <1>1 DEF Shape, HostShape, Grants

LEMMA ReviewShape ==
  ASSUME Shape,
         \/ BeginReview \/ Skip \/ EndReview \/ SetRoom
         \/ \E a \in Addresses : BeginKick(a)
  PROVE  Shape'
<1>1. UNCHANGED <<record, made, clientVars, addr>>
  BY DEF BeginReview, Skip, EndReview, SetRoom, BeginKick
<1>2. RecordShape' /\ ClientShape'
  BY <1>1, RecordSame, ClientSame DEF Shape
<1>3. HostShape'
  <2>1. CASE BeginReview
    BY <1>1, <2>1, RequestsType DEF BeginReview, Shape, HostShape, endings
  <2>2. CASE Skip \/ EndReview
    BY <1>1, <2>2 DEF Skip, EndReview, Shape, HostShape, endings
  <2>3. CASE SetRoom
    BY <1>1, <2>3, Bounds DEF SetRoom, Shape, HostShape, endings, Rooms, NoRoom
  <2>4. ASSUME NEW a \in Addresses, BeginKick(a) PROVE HostShape'
    BY <1>1, <2>4 DEF BeginKick, Shape, HostShape
  <2>5. QED
    BY <2>1, <2>2, <2>3, <2>4
<1>4. QED
  BY <1>2, <1>3 DEF Shape

LEMMA DecideShape ==
  ASSUME Shape, NEW a \in Addresses, NEW v \in {"approved", "denied"}, NEW d \in AllDeciders,
         NEW id \in 1..made,
         posting' = [posting EXCEPT ![d] = Decision(d, id, v, a)],
         Grants(id, v), review' \subseteq review,
         UNCHANGED <<record, made, room, rooms, unsaid, menu, clientVars, addr, endings>>
  PROVE  Shape'
<1>1. RecordShape' /\ ClientShape'
  BY RecordSame, ClientSame DEF Shape
<1>2. HostShape'
  <2>1. id \in Ids
    BY RequestsType
  <2>2. Decision(d, id, v, a) \in Post /\ granted' \subseteq Clients \X Ids
    BY <2>1, DecisionType, GrantsType
  <2>3. Decision(d, id, v, a).id <= made
    BY Bounds DEF Decision, Shape, RecordShape
  <2>4. QED
    BY <2>2, <2>3 DEF Shape, HostShape, endings
<1>3. QED
  BY <1>1, <1>2 DEF Shape

LEMMA NextOfReview ==
  ASSUME Shape, review # {}
  PROVE  Next1(review) \in review /\ Next1(review) \in 1..made
<1>1. review \subseteq 1..made /\ made \in Nat
  BY RequestsType DEF Shape, HostShape
<1>2. review \in SUBSET Nat
  BY <1>1
<1>3. QED
  BY <1>1, <1>2, Smallest

\* What a decision does to the record.
LEMMA HandledRequests ==
  ASSUME Shape, NEW d \in AllDeciders, posting[d] # NoPost, Accepted(posting[d]),
         record' = [record EXCEPT !.requests[posting[d].id].status = posting[d].decision,
                                  !.requests[posting[d].id].key = posting[d].key,
                                  !.requests[posting[d].id].room = posting[d].room],
         UNCHANGED made
  PROVE  LET p == posting[d]
         IN  /\ RecordShape'
             /\ record'.open = TRUE
             /\ DOMAIN Requests' = DOMAIN Requests
             /\ \A i \in DOMAIN Requests \ {p.id} : Requests'[i] = Requests[i]
             /\ Requests'[p.id] = [Requests[p.id] EXCEPT !.status = p.decision, !.key = p.key,
                                                         !.room = p.room]
<1> DEFINE p == posting[d]
           new == [Requests[p.id] EXCEPT !.status = p.decision, !.key = p.key, !.room = p.room]
<1>1. /\ p \in Post /\ p.id \in DOMAIN Requests
  BY DEF Shape, HostShape, Accepted
<1>2. record.open = TRUE /\ Requests = record.requests /\ record \in Record(DOMAIN record.requests)
  BY <1>1 DEF Shape, RecordShape, Requests, NoRecord
<1>3. new \in Request
  BY ZenonT(60), <1>1, RequestsType DEF Request, Post
<1>4. record' = [record EXCEPT !.requests = [Requests EXCEPT ![p.id] = new]]
  BY <1>1, <1>2 DEF Record, Request
<1>5. record'.open = TRUE /\ record'.requests = [Requests EXCEPT ![p.id] = new]
  BY <1>2, <1>4 DEF Record
<1>6. Requests' = [Requests EXCEPT ![p.id] = new]
  BY <1>5 DEF Requests
<1>7. RecordShape'
  <2>1. [Requests EXCEPT ![p.id] = new] \in [DOMAIN record.requests -> Request]
    BY <1>1, <1>2, <1>3 DEF Record
  <2>2. record' \in Record(DOMAIN record'.requests) /\ DOMAIN record'.requests = DOMAIN record.requests
    BY <1>1, <1>2, <1>4, <1>5, <2>1 DEF Record
  <2>3. QED
    BY <1>2, <1>5, <2>2 DEF Shape, RecordShape
<1>8. QED
  BY <1>1, <1>5, <1>6, <1>7

LEMMA SendShape ==
  ASSUME Shape, NEW d \in AllDeciders, SendDecision(d)
  PROVE  Shape'
<1>1. UNCHANGED <<made, clientVars, addr, endings, room, rooms, unsaid, menu, granted>>
  BY DEF SendDecision
<1>2. posting[d] # NoPost /\ posting' = [posting EXCEPT ![d] = NoPost] /\ review' \subseteq review
  BY DEF SendDecision
<1>3. RecordShape'
  BY <1>1, <1>2, HandledRequests, RecordSame DEF SendDecision, Shape
<1>4. ClientShape'
  BY <1>1, ClientSame DEF Shape
<1>5. HostShape'
  BY <1>1, <1>2 DEF Shape, HostShape, endings
<1>6. QED
  BY <1>3, <1>4, <1>5 DEF Shape

\* The actions of the host that only take requests away.
HostEnds ==
  (\E a \in Addresses : Kick(a)) \/ Fallback \/ Register \/ EndRecord

LEMMA EndsShape ==
  ASSUME Shape, HostEnds
  PROVE  Shape' /\ Shrinks
<1>1. UNCHANGED <<made, room, rooms, review, posting, granted, clientVars, addr, banned>>
  BY DEF HostEnds, Kick, Fallback, Register, EndRecord, hostVars, endings
<1>2. RecordShape' /\ Shrinks
  <2>1. CASE record' = record \/ record' = NoRecord
    BY <1>1, <2>1, RecordSame, RecordEnded, ShrinkSame, ShrinkEnded DEF Shape
  <2>2. ASSUME NEW a \in Addresses, Kick(a), ~(record' = record) PROVE RecordShape' /\ Shrinks
    BY <1>1, <2>2, ShrinkKicked DEF Kick
  <2>3. CASE Register
    BY <2>3, ShrinkRegistered
  <2>4. QED
    BY <2>1, <2>2, <2>3 DEF HostEnds, Fallback, EndRecord
<1>3. ClientShape'
  BY <1>1, ClientSame DEF Shape
<1>4. HostShape'
  <2>1. unsaid' \in BOOLEAN
    BY DEF HostEnds, Kick, Fallback, Register, EndRecord, hostVars, Shape, HostShape
  <2>2. menu' \in {"idle", "reviewing", "revoking"} \cup Addresses
    BY DEF HostEnds, Kick, Fallback, Register, EndRecord, hostVars, Shape, HostShape
  <2>3. over' \in BOOLEAN /\ spared' \in BOOLEAN
    BY DEF HostEnds, Kick, Fallback, Register, EndRecord, endings, Shape, HostShape
  <2>4. QED
    BY <1>1, <2>1, <2>2, <2>3 DEF Shape, HostShape
<1>5. QED
  BY <1>2, <1>3, <1>4 DEF Shape

LEMMA DecidedShape ==
  ASSUME Shape,
         \/ \E a \in Addresses, v \in {"approved", "denied"} : Decide(a, v)
         \/ \E d \in Deciders, id \in Ids, v \in {"approved", "denied"} : DecideElsewhere(d, id, v)
  PROVE  /\ Shape'
         /\ \E d \in AllDeciders, id \in 1..made, v \in {"approved", "denied"}, a \in Addresses :
              /\ posting' = [posting EXCEPT ![d] = Decision(d, id, v, a)]
              /\ id \in DOMAIN Requests => a = Requests[id].ip
              /\ Grants(id, v)
         /\ UNCHANGED <<record, made, menu, clientVars, addr, endings>>
<1>1. ASSUME NEW a \in Addresses, NEW v \in {"approved", "denied"}, Decide(a, v)
      PROVE  /\ Shape'
             /\ \E d \in AllDeciders, id \in 1..made, w \in {"approved", "denied"},
                   b \in Addresses :
                  /\ posting' = [posting EXCEPT ![d] = Decision(d, id, w, b)]
                  /\ id \in DOMAIN Requests => b = Requests[id].ip
                  /\ Grants(id, w)
             /\ UNCHANGED <<record, made, menu, clientVars, addr, endings>>
  <2> DEFINE id == Next1(review)
  <2>1. id \in 1..made /\ "menu" \in AllDeciders
    BY <1>1, NextOfReview DEF Decide, AllDeciders
  <2>2. /\ posting' = [posting EXCEPT !["menu"] = Decision("menu", id, v, a)]
        /\ id \in DOMAIN Requests => a = Requests[id].ip
        /\ Grants(id, v) /\ review' \subseteq review
        /\ UNCHANGED <<record, made, room, rooms, unsaid, menu, clientVars, addr, endings>>
    BY <1>1 DEF Decide
  <2>3. Shape'
    BY <2>1, <2>2, DecideShape
  <2> HIDE DEF id
  <2>4. QED
    BY <2>1, <2>2, <2>3
<1>2. ASSUME NEW d \in Deciders, NEW id \in Ids, NEW v \in {"approved", "denied"},
             DecideElsewhere(d, id, v)
      PROVE  /\ Shape'
             /\ \E e \in AllDeciders, j \in 1..made, w \in {"approved", "denied"},
                   b \in Addresses :
                  /\ posting' = [posting EXCEPT ![e] = Decision(e, j, w, b)]
                  /\ j \in DOMAIN Requests => b = Requests[j].ip
                  /\ Grants(j, w)
             /\ UNCHANGED <<record, made, menu, clientVars, addr, endings>>
  <2>1. d \in AllDeciders /\ id \in 1..made /\ Requests[id].ip \in Addresses
    BY <1>2, RequestsType DEF DecideElsewhere, AllDeciders, Request
  <2>2. /\ posting' = [posting EXCEPT ![d] = Decision(d, id, v, Requests[id].ip)]
        /\ Grants(id, v) /\ review' = review
        /\ UNCHANGED <<record, made, room, rooms, unsaid, menu, clientVars, addr, endings>>
    BY <1>2 DEF DecideElsewhere
  <2>3. Shape'
    BY <2>1, <2>2, DecideShape
  <2>4. QED
    BY <2>1, <2>2, <2>3
<1>3. QED
  BY <1>1, <1>2

LEMMA ShapeInit ==
  ASSUME Init
  PROVE  Shape
<1>1. RecordShape
  BY Bounds DEF Init, RecordShape, Fresh, Record, Rooms, NoRoom, Request
<1>2. ClientShape
  BY Bounds DEF Init, ClientShape, NoRequest
<1>3. HostShape
  <2>1. room \in Rooms /\ rooms \in Rooms
    BY Bounds DEF Init, Rooms, NoRoom
  <2>2. /\ posting \in [AllDeciders -> Post \cup {NoPost}]
        /\ \A d \in AllDeciders : posting[d] = NoPost
    BY DEF Init
  <2>3. QED
    BY <2>1, <2>2 DEF Init, HostShape
<1>4. QED
  BY <1>1, <1>2, <1>3 DEF Shape

LEMMA ShapeStep ==
  ASSUME Shape, [Next]_vars
  PROVE  Shape'
<1>1. CASE UNCHANGED vars
  <2>1. UNCHANGED <<record, made, hostVars, clientVars, addr, endings>>
    BY <1>1 DEF vars
  <2>2. QED
    BY <2>1, RecordSame, ClientSame, HostSame, RequestsType DEF Shape
<1>2. CASE Next
  BY <1>2, ResolveShape, AskShape, ClientStepShape, ReviewShape, DecidedShape, SendShape,
     EndsShape DEF Next, HostEnds
<1>3. QED
  BY <1>1, <1>2

\* However clients, host and broker take their turns, each variable keeps its
\* type; in particular the broker's requests are among those ever made.
THEOREM Types == Spec => []TypeOK
<1>1. Init => Shape
  BY ShapeInit
<1>2. Shape /\ [Next]_vars => Shape'
  BY ShapeStep
<1>3. QED
  BY <1>1, <1>2, ShapeTypes, PTL DEF Spec

----------------------------------------------------------------------------
(* Consent.                                                                *)

\* A request that a client remembers is its own.
Own == \A c \in Clients : rid[c] \in DOMAIN Requests => Requests[rid[c]].owner = c

\* The broker has only approvals of the host.
Approved ==
  \A i \in DOMAIN Requests :
    Requests[i].status = "approved" => <<Requests[i].owner, i>> \in granted

\* An approval under way was chosen for the request that has its number.
Chosen ==
  \A d \in AllDeciders :
    /\ posting[d] # NoPost
    /\ posting[d].decision = "approved"
    /\ posting[d].id \in DOMAIN Requests
    => <<Requests[posting[d].id].owner, posting[d].id>> \in granted

Consent == Own /\ Approved /\ Chosen /\ ServedByConsent

\* Requests go, nothing is decided, and clients at most forget.
LEMMA ConsentShrinks ==
  ASSUME Shape, Consent, Shrinks,
         granted \subseteq granted', served' = served,
         \A d \in AllDeciders : posting'[d] \in {posting[d], NoPost},
         \A c \in Clients : rid'[c] \in {rid[c], NoRequest}
  PROVE  Consent'
<1>1. NoRequest \notin DOMAIN Requests'
  BY RequestsType DEF Shrinks, NoRequest
<1>2. Own'
  BY <1>1 DEF Consent, Own, Shrinks
<1>3. Approved'
  BY DEF Consent, Approved, Shrinks
<1>4. Chosen'
  BY DEF Consent, Chosen, Shrinks
<1>5. ServedByConsent'
  BY DEF Consent, ServedByConsent
<1>6. QED
  BY <1>2, <1>3, <1>4, <1>5 DEF Consent

LEMMA ConsentDelivered ==
  ASSUME Shape, Consent, NEW c \in Clients, Consented(rid[c]), Deliver(c),
         UNCHANGED <<rid, posting, granted>>
  PROVE  Consent'
<1>1. Shrinks
  BY ShrinkSame, ShrinkEnded DEF Deliver
<1>2. Gated => <<c, rid[c]>> \in granted
  BY DEF Consented, Consent, Own, Approved
<1>3. ServedByConsent'
  BY <1>2 DEF Deliver, Consent, ServedByConsent
<1>4. Own'
  BY <1>1 DEF Consent, Own, Shrinks
<1>5. Approved'
  BY <1>1 DEF Consent, Approved, Shrinks
<1>6. Chosen'
  BY <1>1 DEF Consent, Chosen, Shrinks
<1>7. QED
  BY <1>3, <1>4, <1>5, <1>6 DEF Consent

LEMMA ConsentAsk ==
  ASSUME Shape, Consent, NEW c \in Clients, Ask(c)
  PROVE  Consent'
<1>1. UNCHANGED <<posting, granted, served>>
  BY DEF Ask, hostVars
<1>2. CASE ~record.open
  <2>1. UNCHANGED <<record, rid>>
    BY <1>2 DEF Ask
  <2>2. QED
    BY <1>1, <2>1, ShrinkSame, ConsentShrinks
<1>3. CASE record.open
  <2>1. /\ DOMAIN Requests' = DOMAIN Requests \cup {made'}
        /\ Requests'[made'] = NewRequest(c)
        /\ \A i \in DOMAIN Requests : Requests'[i] = Requests[i]
        /\ made' \notin DOMAIN Requests
    BY <1>3, AskedRequests DEF Ask
  <2>2. made' = made + 1 /\ made \in Nat
    BY <1>3, RequestsType DEF Ask
  <2>3. \A e \in Clients : rid[e] # made'
    BY <2>2 DEF Shape, ClientShape
  <2>4. Own'
    <3>1. \/ rid' = [rid EXCEPT ![c] = made']
          \/ rid' = rid
      BY <1>3 DEF Ask
    <3>2. rid \in [Clients -> 0..made]
      BY DEF Shape, ClientShape
    <3>3. QED
      BY <2>1, <2>3, <3>1, <3>2 DEF Consent, Own, NewRequest
  <2>5. Approved'
    BY <1>1, <2>1 DEF Consent, Approved, NewRequest
  <2>6. Chosen'
    <3>1. \A d \in AllDeciders : posting[d] # NoPost => posting[d].id # made'
      BY <2>2 DEF Shape, HostShape
    <3>2. QED
      BY <1>1, <2>1, <3>1 DEF Consent, Chosen
  <2>7. ServedByConsent'
    BY <1>1 DEF Consent, ServedByConsent
  <2>8. QED
    BY <2>4, <2>5, <2>6, <2>7 DEF Consent
<1>4. QED
  BY <1>2, <1>3

LEMMA ConsentDecided ==
  ASSUME Shape, Consent, NEW d \in AllDeciders, NEW id \in 1..made,
         NEW v \in {"approved", "denied"}, NEW a \in Addresses,
         posting' = [posting EXCEPT ![d] = Decision(d, id, v, a)], Grants(id, v),
         UNCHANGED <<record, clientVars>>
  PROVE  Consent'
<1>1. Requests' = Requests /\ granted \subseteq granted'
  BY DEF Requests, Grants
<1>2. Own' /\ Approved' /\ ServedByConsent'
  BY <1>1 DEF Consent, Own, Approved, ServedByConsent, clientVars
<1>3. Chosen'
  <2>1. Decision(d, id, v, a).decision = v /\ Decision(d, id, v, a).id = id
    BY DEF Decision
  <2>2. v = "approved" /\ id \in DOMAIN Requests => <<Requests[id].owner, id>> \in granted'
    BY DEF Grants
  <2>3. QED
    BY <1>1, <2>1, <2>2 DEF Consent, Chosen, Shape, HostShape
<1>4. QED
  BY <1>2, <1>3 DEF Consent

LEMMA ConsentSent ==
  ASSUME Shape, Consent, NEW d \in AllDeciders, SendDecision(d)
  PROVE  Consent'
<1>1. UNCHANGED <<made, clientVars, granted>> /\ posting' = [posting EXCEPT ![d] = NoPost]
      /\ posting[d] # NoPost
  BY DEF SendDecision
<1>2. posting \in [AllDeciders -> Post \cup {NoPost}]
  BY DEF Shape, HostShape
<1>3. CASE UNCHANGED record
  BY <1>1, <1>2, <1>3, ShrinkSame, ConsentShrinks DEF clientVars
<1>4. CASE ~UNCHANGED record
  <2> DEFINE p == posting[d]
  <2>1. /\ Accepted(p)
        /\ DOMAIN Requests' = DOMAIN Requests
        /\ \A i \in DOMAIN Requests \ {p.id} : Requests'[i] = Requests[i]
        /\ Requests'[p.id] = [Requests[p.id] EXCEPT !.status = p.decision, !.key = p.key,
                                                    !.room = p.room]
    BY <1>1, <1>4, HandledRequests DEF SendDecision
  <2>2. p.id \in DOMAIN Requests /\ Requests[p.id] \in Request
    BY <2>1, RequestsType DEF Accepted
  <2>3. Requests'[p.id].owner = Requests[p.id].owner /\ Requests'[p.id].status = p.decision
    BY <2>1, <2>2 DEF Request
  <2>4. \A i \in DOMAIN Requests : Requests'[i].owner = Requests[i].owner
    BY <2>1, <2>3
  <2>5. Own'
    BY <1>1, <2>1, <2>4 DEF Consent, Own, clientVars
  <2>6. Approved'
    BY ZenonT(60), <1>1, <2>1, <2>2, <2>3 DEF Consent, Approved, Chosen
  <2>7. Chosen'
    BY <1>1, <1>2, <2>1, <2>4 DEF Consent, Chosen
  <2>8. ServedByConsent'
    BY <1>1 DEF Consent, ServedByConsent, clientVars
  <2>9. QED
    BY <2>5, <2>6, <2>7, <2>8 DEF Consent
<1>5. QED
  BY <1>3, <1>4

\* The actions at which no client is delivered anything, asks or hears a decision.
Quiet ==
  \/ \E c \in Clients : \/ ResolveFails(c) \/ HearVerdict(c) \/ StopWaiting(c) \/ JoinChat(c)
                        \/ Act(c) \/ Disconnect(c) \/ Quit(c) \/ Move(c)
  \/ BeginReview \/ Skip \/ EndReview \/ SetRoom \/ \E a \in Addresses : BeginKick(a)
  \/ HostEnds

LEMMA QuietStep ==
  ASSUME Shape, Quiet
  PROVE  Shrinks /\ UNCHANGED <<posting, granted, served, read>>
         /\ \A c \in Clients : rid'[c] \in {rid[c], NoRequest}
<1>1. rid \in [Clients -> 0..made]
  BY DEF Shape, ClientShape
<1>2. ASSUME NEW c \in Clients, ResolveFails(c)
      PROVE  Shrinks /\ UNCHANGED <<posting, granted, served, read, rid>>
  BY <1>2, ShrinkSame, ShrinkEnded DEF ResolveFails, hostVars
<1>3. ASSUME NEW c \in Clients,
             HearVerdict(c) \/ StopWaiting(c) \/ Disconnect(c) \/ Quit(c) \/ Move(c)
      PROVE  Shrinks /\ UNCHANGED <<posting, granted, served, read, rid>>
  BY <1>3, ShrinkSame
     DEF HearVerdict, StopWaiting, Disconnect, Quit, Move, hostVars, clientVars
<1>4. ASSUME NEW c \in Clients, JoinChat(c) \/ Act(c)
      PROVE  Shrinks /\ UNCHANGED <<posting, granted, served, read>>
             /\ \A e \in Clients : rid'[e] \in {rid[e], NoRequest}
  BY <1>1, <1>4, ShrinkSame DEF JoinChat, Act, hostVars, Remembered
<1>5. CASE BeginReview \/ Skip \/ EndReview \/ SetRoom \/ \E a \in Addresses : BeginKick(a)
  BY <1>5, ShrinkSame DEF BeginReview, Skip, EndReview, SetRoom, BeginKick, clientVars
<1>6. CASE HostEnds
  <2>1. UNCHANGED <<posting, granted, clientVars>>
    BY <1>6 DEF HostEnds, Kick, Fallback, Register, EndRecord, hostVars
  <2>2. QED
    BY <1>6, <2>1, EndsShape DEF clientVars
<1>7. QED
  BY <1>2, <1>3, <1>4, <1>5, <1>6 DEF Quiet

\* Every step is quiet, a delivery, a request or a decision.
LEMMA Steps ==
  ASSUME Next
  PROVE  \/ Quiet
         \/ \E c \in Clients : Resolve(c) \/ Collect(c)
         \/ \E c \in Clients : Ask(c)
         \/ \E a \in Addresses, v \in {"approved", "denied"} : Decide(a, v)
         \/ \E d \in Deciders, id \in Ids, v \in {"approved", "denied"} : DecideElsewhere(d, id, v)
         \/ \E d \in AllDeciders : SendDecision(d)
BY DEF Next, Quiet, HostEnds

\* A resolution delivers the record, or it fails and takes nothing.
LEMMA Resolution ==
  ASSUME NEW c \in Clients, Resolve(c) \/ Collect(c)
  PROVE  /\ \/ record.open /\ Consented(rid[c]) /\ Deliver(c)
            \/ UNCHANGED <<record, served, read>>
         /\ UNCHANGED <<rid, posting, granted>>
BY DEF Resolve, Collect, hostVars

LEMMA ConsentStep ==
  ASSUME Shape, Consent, [Next]_vars
  PROVE  Consent'
<1>1. CASE UNCHANGED vars
  <2>1. UNCHANGED <<record, hostVars, clientVars>>
    BY <1>1 DEF vars
  <2>2. QED
    BY <2>1, ShrinkSame, ConsentShrinks DEF hostVars, clientVars
<1>2. CASE Quiet
  BY <1>2, QuietStep, ConsentShrinks
<1>3. ASSUME NEW c \in Clients, Resolve(c) \/ Collect(c) PROVE Consent'
  BY <1>3, Resolution, ConsentDelivered, ShrinkSame, ConsentShrinks
<1>4. ASSUME NEW c \in Clients, Ask(c) PROVE Consent'
  BY <1>4, ConsentAsk
<1>5. CASE \/ \E a \in Addresses, v \in {"approved", "denied"} : Decide(a, v)
           \/ \E d \in Deciders, id \in Ids, v \in {"approved", "denied"} :
                DecideElsewhere(d, id, v)
  BY <1>5, DecidedShape, ConsentDecided
<1>6. ASSUME NEW d \in AllDeciders, SendDecision(d) PROVE Consent'
  BY <1>6, ConsentSent
<1>7. QED
  BY <1>1, <1>2, <1>3, <1>4, <1>5, <1>6, Steps

LEMMA ConsentInit ==
  ASSUME Init
  PROVE  Consent
<1>1. DOMAIN Requests = {}
  BY DEF Init, Requests, Fresh
<1>2. Own /\ Approved /\ Chosen
  BY <1>1 DEF Own, Approved, Chosen
<1>3. ServedByConsent
  BY DEF Init, ServedByConsent
<1>4. QED
  BY <1>2, <1>3 DEF Consent

\* No client of a gated session is given its configuration but on a request of
\* its own that the host chose to approve, with decisions sent late or twice, and
\* requests, records and addresses that go and come back.
THEOREM ConsentHolds == Spec => []ServedByConsent
<1>1. Init => Shape /\ Consent
  BY ShapeInit, ConsentInit
<1>2. Shape /\ Consent /\ [Next]_vars => Shape' /\ Consent'
  BY ShapeStep, ConsentStep
<1>3. Shape /\ Consent => ServedByConsent
  BY DEF Consent
<1>4. QED
  BY <1>1, <1>2, <1>3, PTL DEF Spec

----------------------------------------------------------------------------
(* Keys.  The dashboard derives another key than the client: the theorem   *)
(* is about a host that does not decide there.                             *)

\* A payload encrypted for a request of address a can be read by its client.
Suits(key, a) == key = NoKey \/ key = Key("client", a)

KeysSuit == \A i \in DOMAIN Requests : Suits(Requests[i].key, Requests[i].ip)

PostsSuit ==
  \A d \in AllDeciders :
    posting[d] # NoPost /\ posting[d].id \in DOMAIN Requests =>
      Suits(posting[d].key, Requests[posting[d].id].ip)

Keyed == KeysSuit /\ PostsSuit /\ PayloadsReadable

LEMMA KeyedShrinks ==
  ASSUME Shape, Keyed, Shrinks, read' = read,
         \A d \in AllDeciders : posting'[d] \in {posting[d], NoPost}
  PROVE  Keyed'
<1>1. KeysSuit'
  BY DEF Keyed, KeysSuit, Shrinks
<1>2. PostsSuit'
  BY DEF Keyed, PostsSuit, Shrinks
<1>3. PayloadsReadable'
  BY DEF Keyed, PayloadsReadable
<1>4. QED
  BY <1>1, <1>2, <1>3 DEF Keyed

LEMMA KeyedDelivered ==
  ASSUME Shape, Keyed, NEW c \in Clients, Consented(rid[c]), Deliver(c), UNCHANGED posting
  PROVE  Keyed'
<1>1. Readable(c, Delivered(rid[c]))
  BY DEF Keyed, KeysSuit, Suits, Readable, Delivered
<1>2. read' = read
  BY <1>1 DEF Deliver
<1>3. Shrinks
  BY ShrinkSame, ShrinkEnded DEF Deliver
<1>4. QED
  BY <1>2, <1>3, KeyedShrinks

LEMMA KeyedAsk ==
  ASSUME Shape, Keyed, NEW c \in Clients, Ask(c)
  PROVE  Keyed'
<1>1. UNCHANGED <<posting, read>>
  BY DEF Ask, hostVars
<1>2. CASE ~record.open
  BY <1>1, <1>2, ShrinkSame, KeyedShrinks DEF Ask
<1>3. CASE record.open
  <2>1. /\ DOMAIN Requests' = DOMAIN Requests \cup {made'}
        /\ Requests'[made'] = NewRequest(c)
        /\ \A i \in DOMAIN Requests : Requests'[i] = Requests[i]
    BY <1>3, AskedRequests DEF Ask
  <2>2. made' = made + 1 /\ made \in Nat
    BY <1>3, RequestsType DEF Ask
  <2>3. KeysSuit'
    BY <2>1 DEF Keyed, KeysSuit, Suits, NewRequest
  <2>4. PostsSuit'
    <3>1. \A d \in AllDeciders : posting[d] # NoPost => posting[d].id # made'
      BY <2>2 DEF Shape, HostShape
    <3>2. QED
      BY <1>1, <2>1, <3>1 DEF Keyed, PostsSuit
  <2>5. QED
    BY <1>1, <2>3, <2>4 DEF Keyed, PayloadsReadable
<1>4. QED
  BY <1>2, <1>3

LEMMA KeyedDecided ==
  ASSUME Shape, Keyed, "dashboard" \notin Deciders,
         NEW d \in AllDeciders, NEW id \in 1..made,
         NEW v \in {"approved", "denied"}, NEW a \in Addresses,
         posting' = [posting EXCEPT ![d] = Decision(d, id, v, a)],
         id \in DOMAIN Requests => a = Requests[id].ip,
         UNCHANGED <<record, clientVars>>
  PROVE  Keyed'
<1>1. Requests' = Requests
  BY DEF Requests
<1>2. Decision(d, id, v, a).id = id /\ Suits(Decision(d, id, v, a).key, a)
  BY DEF Decision, Suits, Key, AllDeciders
<1>3. PostsSuit'
  BY <1>1, <1>2 DEF Keyed, PostsSuit, Shape, HostShape
<1>4. QED
  BY <1>1, <1>3 DEF Keyed, KeysSuit, PayloadsReadable, clientVars

LEMMA KeyedSent ==
  ASSUME Shape, Keyed, NEW d \in AllDeciders, SendDecision(d)
  PROVE  Keyed'
<1>1. UNCHANGED <<made, clientVars>> /\ posting' = [posting EXCEPT ![d] = NoPost]
      /\ posting[d] # NoPost
  BY DEF SendDecision
<1>2. posting \in [AllDeciders -> Post \cup {NoPost}]
  BY DEF Shape, HostShape
<1>3. CASE UNCHANGED record
  BY <1>1, <1>2, <1>3, ShrinkSame, KeyedShrinks DEF clientVars
<1>4. CASE ~UNCHANGED record
  <2> DEFINE p == posting[d]
  <2>1. /\ Accepted(p)
        /\ DOMAIN Requests' = DOMAIN Requests
        /\ \A i \in DOMAIN Requests \ {p.id} : Requests'[i] = Requests[i]
        /\ Requests'[p.id] = [Requests[p.id] EXCEPT !.status = p.decision, !.key = p.key,
                                                    !.room = p.room]
    BY <1>1, <1>4, HandledRequests DEF SendDecision
  <2>2. p.id \in DOMAIN Requests /\ Requests[p.id] \in Request
    BY <2>1, RequestsType DEF Accepted
  <2>3. Requests'[p.id].ip = Requests[p.id].ip /\ Requests'[p.id].key = p.key
    BY <2>1, <2>2 DEF Request
  <2>4. \A i \in DOMAIN Requests : Requests'[i].ip = Requests[i].ip
    BY <2>1, <2>3
  <2>5. KeysSuit'
    BY <1>1, <2>1, <2>2, <2>3 DEF Keyed, KeysSuit, PostsSuit
  <2>6. PostsSuit'
    BY <1>1, <1>2, <2>1, <2>4 DEF Keyed, PostsSuit
  <2>7. QED
    BY <1>1, <2>5, <2>6 DEF Keyed, PayloadsReadable, clientVars
<1>5. QED
  BY <1>3, <1>4

LEMMA KeyedStep ==
  ASSUME Shape, Keyed, "dashboard" \notin Deciders, [Next]_vars
  PROVE  Keyed'
<1>1. CASE UNCHANGED vars
  <2>1. UNCHANGED <<record, hostVars, clientVars>>
    BY <1>1 DEF vars
  <2>2. QED
    BY <2>1, ShrinkSame, KeyedShrinks DEF hostVars, clientVars
<1>2. CASE Quiet
  BY <1>2, QuietStep, KeyedShrinks
<1>3. ASSUME NEW c \in Clients, Resolve(c) \/ Collect(c) PROVE Keyed'
  BY <1>3, Resolution, KeyedDelivered, ShrinkSame, KeyedShrinks
<1>4. ASSUME NEW c \in Clients, Ask(c) PROVE Keyed'
  BY <1>4, KeyedAsk
<1>5. CASE \/ \E a \in Addresses, v \in {"approved", "denied"} : Decide(a, v)
           \/ \E d \in Deciders, id \in Ids, v \in {"approved", "denied"} :
                DecideElsewhere(d, id, v)
  BY <1>5, DecidedShape, KeyedDecided
<1>6. ASSUME NEW d \in AllDeciders, SendDecision(d) PROVE Keyed'
  BY <1>6, KeyedSent
<1>7. QED
  BY <1>1, <1>2, <1>3, <1>4, <1>5, <1>6, Steps

\* A client can decrypt each payload it is given, however often its address has
\* changed since it asked, when the menu and the chat page are where the host
\* decides.
THEOREM PayloadsAreReadable ==
  ASSUME "dashboard" \notin Deciders
  PROVE  Spec => []PayloadsReadable
<1>1. Init => Shape /\ Keyed
  <2>1. ASSUME Init PROVE Keyed
    <3>1. DOMAIN Requests = {} /\ read = Clients
      BY <2>1 DEF Init, Requests, Fresh
    <3>2. QED
      BY <3>1 DEF Keyed, KeysSuit, PostsSuit, PayloadsReadable
  <2>2. QED
    BY <2>1, ShapeInit
<1>2. Shape /\ Keyed /\ [Next]_vars => Shape' /\ Keyed'
  BY ShapeStep, KeyedStep
<1>3. Shape /\ Keyed => PayloadsReadable
  BY DEF Keyed
<1>4. QED
  BY <1>1, <1>2, <1>3, PTL DEF Spec

----------------------------------------------------------------------------
(* Honest goodbyes.                                                        *)

\* A record goes only when the host or the broker ends it, and it names no
\* address but those the host chose to kick.
Warned ==
  /\ ~record.open => over
  /\ record.open => record.kicked \subseteq banned
  /\ menu \in Addresses => menu \in banned

LEMMA WarnedStep ==
  ASSUME Shape, Warned, OneTime = FALSE, [Next]_vars
  PROVE  Warned'
<1>1. CASE UNCHANGED <<record, endings, menu>>
  BY <1>1 DEF Warned, endings
<1>2. CASE UNCHANGED vars
  BY <1>1, <1>2 DEF vars, hostVars
<1>3. ASSUME NEW c \in Clients, Resolve(c) \/ Collect(c) \/ ResolveFails(c) PROVE Warned'
  BY <1>1, <1>3 DEF Resolve, Collect, ResolveFails, Deliver, hostVars
<1>4. ASSUME NEW c \in Clients, Ask(c) PROVE Warned'
  <2>1. UNCHANGED <<endings, menu>>
    BY <1>4 DEF Ask, hostVars
  <2>2. CASE record.open
    <3>1. record'.open = TRUE /\ record'.kicked = record.kicked
      BY <1>4, <2>2, AskedRequests DEF Ask
    <3>2. QED
      BY <2>1, <2>2, <3>1 DEF Warned, endings
  <2>3. CASE ~record.open
    BY <1>1, <1>4, <2>1, <2>3 DEF Ask
  <2>4. QED
    BY <2>2, <2>3
<1>5. ASSUME NEW c \in Clients,
             \/ HearVerdict(c) \/ StopWaiting(c) \/ JoinChat(c) \/ Act(c) \/ Disconnect(c)
             \/ Quit(c) \/ Move(c)
      PROVE Warned'
  BY <1>1, <1>5 DEF HearVerdict, StopWaiting, JoinChat, Act, Disconnect, Quit, Move, hostVars
<1>6. CASE BeginReview \/ Skip \/ EndReview \/ SetRoom
  <2>1. UNCHANGED <<record, endings>> /\ menu' \in {menu, "idle", "reviewing"}
    BY <1>6 DEF BeginReview, Skip, EndReview, SetRoom
  <2>2. QED
    BY <2>1, FlowAssumption DEF FlowAssumption, Warned, endings
<1>7. ASSUME NEW a \in Addresses, BeginKick(a) PROVE Warned'
  BY <1>7 DEF BeginKick, Warned
<1>8. ASSUME NEW a \in Addresses, Kick(a) PROVE Warned'
  <2>1. UNCHANGED endings /\ menu' \in {"idle", "revoking"} /\ a \in banned
    BY <1>8 DEF Kick, Warned
  <2>2. CASE UNCHANGED record
    BY <2>1, <2>2, FlowAssumption DEF FlowAssumption, Warned, endings
  <2>3. CASE record.open /\ record' = Kicked(a)
    <3>1. record \in Record(DOMAIN record.requests)
      BY <2>3 DEF Shape, RecordShape
    <3>2. record'.open = TRUE /\ record'.kicked = record.kicked \cup {a}
      BY <2>3, <3>1 DEF Kicked, Record
    <3>3. QED
      BY <2>1, <2>3, <3>2, FlowAssumption DEF FlowAssumption, Warned, endings
  <2>4. QED
    BY <1>8, <2>2, <2>3 DEF Kick
<1>9. CASE Fallback \/ EndRecord
  <2>1. banned' = banned /\ menu' \in {menu, "idle"}
    BY <1>9 DEF Fallback, EndRecord, hostVars
  <2>2. (record' = NoRecord /\ over' = TRUE) \/ UNCHANGED <<record, over>>
    BY <1>9 DEF Fallback, EndRecord
  <2>3. QED
    BY <2>1, <2>2, FlowAssumption DEF FlowAssumption, Warned, NoRecord
<1>10. CASE Register
  <2>1. UNCHANGED <<menu, banned>>
    BY <1>10 DEF Register
  <2>2. record'.open = TRUE /\ record'.kicked \in {record.kicked, {}}
        /\ (record'.kicked = {} \/ record.open)
    <3>1. CASE record.open
      <4>1. record \in Record(DOMAIN record.requests)
        BY <3>1 DEF Shape, RecordShape
      <4>2. QED
        BY <1>10, <3>1, <4>1 DEF Register, Record
    <3>2. CASE ~record.open
      BY <1>10, <3>2 DEF Register, Fresh
    <3>3. QED
      BY <3>1, <3>2
  <2>3. QED
    BY <2>1, <2>2 DEF Warned
<1>11. CASE \/ \E a \in Addresses, v \in {"approved", "denied"} : Decide(a, v)
            \/ \E d \in Deciders, id \in Ids, v \in {"approved", "denied"} :
                 DecideElsewhere(d, id, v)
  BY <1>1, <1>11, DecidedShape
<1>12. ASSUME NEW d \in AllDeciders, SendDecision(d) PROVE Warned'
  <2>1. UNCHANGED <<endings, menu, made>> /\ posting[d] # NoPost
    BY <1>12 DEF SendDecision
  <2>2. CASE ~UNCHANGED record
    <3>1. record.open /\ record \in Record(DOMAIN record.requests)
      BY <1>12, <2>2 DEF SendDecision, Accepted, Requests, Shape, RecordShape
    <3>2. record'.open = TRUE /\ record'.kicked = record.kicked
      BY <1>12, <2>2, <3>1 DEF SendDecision, Record
    <3>3. QED
      BY <2>1, <3>1, <3>2 DEF Warned, endings
  <2>3. QED
    BY <1>1, <2>1, <2>2
<1>13. QED
  BY <1>2, <1>3, <1>4, <1>5, <1>6, <1>7, <1>8, <1>9, <1>10, <1>11, <1>12 DEF Next

\* Only the poll of the status tells a client that its host has terminated the
\* session, and then it has, or the host chose to kick the client's address.
LEMMA GoodbyeStep ==
  ASSUME Shape, Warned, [Next]_vars, NEW c \in Clients,
         pc[c] # "disconnected", pc'[c] = "disconnected"
  PROVE  over \/ addr[c] \in banned
<1>1. Disconnect(c)
  <2>1. pc \in [Clients -> {"resolving", "asking", "waiting", "collecting", "using", "left",
                            "disconnected"}]
    BY DEF Shape, ClientShape
  <2>2. ~UNCHANGED pc
    OBVIOUS
  <2>3. ASSUME NEW e \in Clients,
               \/ Resolve(e) \/ Collect(e) \/ ResolveFails(e) \/ Ask(e) \/ HearVerdict(e)
               \/ StopWaiting(e) \/ JoinChat(e) \/ Quit(e)
        PROVE  FALSE
    <3>1. \E place \in {"resolving", "asking", "waiting", "collecting", "using", "left"} :
            Goes(e, place)
      BY <2>3 DEF Resolve, Collect, ResolveFails, Ask, HearVerdict, StopWaiting, JoinChat, Quit,
                  Deliver, GivesUp
    <3>2. QED
      BY <2>1, <3>1 DEF Goes
  <2>4. ASSUME NEW e \in Clients, Disconnect(e) PROVE e = c
    BY <2>1, <2>4 DEF Disconnect, Goes
  <2>5. \A e \in Clients : ~Act(e) /\ ~Move(e)
    BY <2>2 DEF Act, Move, clientVars
  <2>6. ~(BeginReview \/ Skip \/ EndReview \/ SetRoom \/ Fallback \/ Register \/ EndRecord)
    BY <2>2 DEF BeginReview, Skip, EndReview, SetRoom, Fallback, Register, EndRecord, clientVars
  <2>7. \A a \in Addresses : ~BeginKick(a) /\ ~Kick(a)
    BY <2>2 DEF BeginKick, Kick, clientVars
  <2>8. \A d \in AllDeciders : ~SendDecision(d)
    BY <2>2 DEF SendDecision, clientVars
  <2>9. ~(\/ \E a \in Addresses, v \in {"approved", "denied"} : Decide(a, v)
          \/ \E d \in Deciders, id \in Ids, v \in {"approved", "denied"} :
               DecideElsewhere(d, id, v))
    BY <2>2 DEF Decide, DecideElsewhere, clientVars
  <2>10. ~UNCHANGED vars
    BY <2>2 DEF vars, clientVars
  <2>11. QED
    BY <2>3, <2>4, <2>5, <2>6, <2>7, <2>8, <2>9, <2>10 DEF Next
<1>2. QED
  BY <1>1 DEF Disconnect, Active, Warned

\* A client that is told that its host has terminated the session is not misled,
\* unless records are for one use, when the use of another client ends them.
THEOREM HonestGoodbyes ==
  ASSUME OneTime = FALSE
  PROVE  Spec => HonestDisconnect
<1>1. Init => Shape /\ Warned
  <2>1. ASSUME Init PROVE Warned
    BY <2>1, FlowAssumption DEF FlowAssumption, Init, Fresh, Warned
  <2>2. QED
    BY <2>1, ShapeInit
<1>2. Shape /\ Warned /\ [Next]_vars => Shape' /\ Warned'
  BY ShapeStep, WarnedStep
<1>3. Shape /\ Warned /\ [Next]_vars =>
        [\A c \in Clients : pc[c] # "disconnected" /\ pc'[c] = "disconnected" =>
           over \/ addr[c] \in banned]_vars
  BY GoodbyeStep
<1>4. QED
  BY <1>1, <1>2, <1>3, PTL DEF Spec, HonestDisconnect
=============================================================================
