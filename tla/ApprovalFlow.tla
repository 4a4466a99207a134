--------------------------- MODULE ApprovalFlow ---------------------------
(***************************************************************************)
(* The approval of clients: a client process that resolves a session, asks *)
(* for approval, waits and uses the session (modes/client.js), the three   *)
(* places where the host decides (modes/host.js) and the calls of both to  *)
(* the broker (lib/client/broker.js), which is reduced to the one record.  *)
(*                                                                         *)
(* Abstractions: a payload is the chat room it names and the key it is     *)
(* encrypted with; a call is one step, at which the broker handles it and  *)
(* the caller has its answer, or fails with or without the broker having   *)
(* handled it. Each decider sends one decision at a time. Of what a client *)
(* does with the session only its looks for the chat room are shown in     *)
(* detail. Time is not kept: whatever waits may time out, and the record   *)
(* may expire.                                                             *)
(***************************************************************************)
EXTENDS Naturals, FiniteSets

CONSTANTS
  Clients, Addresses, \* client processes; the addresses the broker sees them at
  Deciders,    \* where the host decides, other than its menu
  Gated,       \* approvalRequired
  OneTime,     \* oneTime
  MaxRequests, \* bound: approval requests ever made
  MaxRooms,    \* bound: chat rooms ever opened
  MaxRounds,   \* bound: actions of a client's menu
  MaxMoves,    \* bound: changes of a client's address
  MaxFaults,   \* bound: calls that fail
  MaxKicks     \* bound: kicks begun

ASSUME FlowAssumption ==
  /\ IsFiniteSet(Clients) /\ IsFiniteSet(Addresses)
  /\ Addresses \cap {"idle", "reviewing", "revoking"} = {}
  /\ Deciders \subseteq {"dashboard", "page"}
  /\ {Gated, OneTime} \subseteq BOOLEAN
  /\ {MaxRequests, MaxRooms, MaxRounds, MaxMoves, MaxFaults, MaxKicks} \subseteq Nat

VARIABLES
  record,   \* the broker's record of the session, or NoRecord
  made,     \* number of approval requests ever made
  room,     \* the host's chat room (serviceConfig.chatUrl), or NoRoom
  rooms,    \* number of rooms ever opened
  unsaid,   \* the host has yet to register its latest configuration
  menu,     \* what the host's menu is doing
  review,   \* the requests the menu has yet to review
  posting,  \* decider -> the decision it is sending, or NoPost
  pc,       \* client -> where it is
  goal,     \* client -> what it resolves for
  rid,      \* client -> the request it remembers, or NoRequest
  round,    \* client -> which of its actions it is at
  addr,     \* client -> its address
  lookup,   \* client -> what its search for the chat room found
  moves, faults, kicks, \* counted against their bounds
  served,   \* history: <<client, request>> of each payload received, readable or not
  read,     \* history: clients that could read each payload they received
  granted,  \* history: <<owner, request>> of each request the host chose to approve
  over,     \* history: the host or the broker ended the record, and it is not made anew
  banned,   \* history: addresses the host chose to kick
  spared    \* history: no kick of one address has ended the record

hostVars == <<room, rooms, unsaid, menu, review, posting, granted>>
clientVars == <<pc, goal, rid, round, lookup, served, read>>
bounds == <<moves, faults, kicks>>
endings == <<over, banned, spared>>
vars == <<record, made, hostVars, clientVars, addr, bounds, endings>>

NoRoom == 0
NoRequest == 0
Rooms == 0..MaxRooms
Ids == 1..MaxRequests
NoRecord == [open |-> FALSE]
NoPost == [id |-> NoRequest]
AllDeciders == Deciders \cup {"menu"}

\* The host derives a key from the password, the address and the uid; its
\* dashboard from the password, the address and the details of the request.
Key(decider, a) == <<a, IF decider = "dashboard" THEN "details" ELSE "uid">>

NoKey == <<>>
Keys == (Addresses \X {"uid", "details"}) \cup {NoKey}

Request == [owner : Clients, ip : Addresses, status : {"pending", "approved", "denied"},
            key : Keys, room : Rooms]
Record(ids) == [open : {TRUE}, room : Rooms, kicked : SUBSET Addresses,
                requests : [ids -> Request]]
Post == [id : Ids, decision : {"approved", "denied"}, key : Keys, room : Rooms]

Requests == IF record.open THEN record.requests ELSE <<>>

TypeOK ==
  /\ record.open => /\ DOMAIN record.requests \subseteq 1..made
                    /\ record \in Record(DOMAIN record.requests)
  /\ made \in 0..MaxRequests
  /\ room \in Rooms /\ rooms \in Rooms
  /\ unsaid \in BOOLEAN
  /\ menu \in {"idle", "reviewing", "revoking"} \cup Addresses
  /\ review \subseteq Ids
  /\ \A d \in AllDeciders : posting[d] \in Post \cup {NoPost}
  /\ pc \in [Clients -> {"resolving", "asking", "waiting", "collecting", "using",
                         "left", "disconnected"}]
  /\ goal \in [Clients -> {"connect", "chat"}]
  /\ rid \in [Clients -> 0..made]
  /\ round \in [Clients -> 0..MaxRounds]
  /\ addr \in [Clients -> Addresses]
  /\ lookup \in [Clients -> {"none", "joined", "missing"}]
  /\ served \subseteq Clients \X (0..made)
  /\ granted \subseteq Clients \X Ids
  /\ read \subseteq Clients
  /\ banned \subseteq Addresses
  /\ {over, spared} \subseteq BOOLEAN

Fresh(r) == [open |-> TRUE, room |-> r, kicked |-> {}, requests |-> <<>>]

Init ==
  /\ record = Fresh(NoRoom)
  /\ made = 0
  /\ room = NoRoom /\ rooms = 0 /\ unsaid = FALSE
  /\ menu = "idle" /\ review = {}
  /\ posting = [d \in AllDeciders |-> NoPost]
  /\ pc = [c \in Clients |-> "resolving"]
  /\ goal = [c \in Clients |-> "connect"]
  /\ rid = [c \in Clients |-> NoRequest]
  /\ round = [c \in Clients |-> 0]
  /\ addr \in [Clients -> Addresses]
  /\ lookup = [c \in Clients |-> "none"]
  /\ moves = 0 /\ faults = 0 /\ kicks = 0
  /\ served = {} /\ read = Clients /\ granted = {}
  /\ over = FALSE /\ banned = {} /\ spared = TRUE

Goes(c, place) == pc' = [pc EXCEPT ![c] = place]

\* A call fails for its caller.
Fault ==
  /\ faults < MaxFaults
  /\ faults' = faults + 1
  /\ UNCHANGED <<moves, kicks>>
NoFault == UNCHANGED bounds

\* The session is in use and its status is polled.
Live(c) == pc[c] \notin {"left", "disconnected"} /\ (goal[c] = "chat" \/ pc[c] = "using")

\* An attempt of c fails: a search for the room goes back to the menu, the
\* connection is given up.
GivesUp(c) == Goes(c, IF goal[c] = "chat" THEN "using" ELSE "left")

----------------------------------------------------------------------------
(* The client.                                                             *)

\* Mutant: who names no request is not checked.
ConsentedUnlessNamed(id) ==
  Gated /\ id # NoRequest => id \in DOMAIN Requests /\ Requests[id].status = "approved"

\* The broker delivers the record on this request.
Consented(id) == Gated => id \in DOMAIN Requests /\ Requests[id].status = "approved"

\* What is delivered: the payload the host encrypted for the request, or the
\* record's own, which every client with the password reads.
Delivered(id) ==
  IF Gated /\ id \in DOMAIN Requests /\ Requests[id].key # NoKey
  THEN [room |-> Requests[id].room, key |-> Requests[id].key]
  ELSE [room |-> record.room, key |-> NoKey]

\* Mutant: the key is derived from the address the client has now.
ReadableByCurrent(c, p) == p.key = NoKey \/ p.key = Key("client", addr[c])

\* The client derives its key from the address the broker noted for the request.
Readable(c, p) == p.key = NoKey \/ p.key = Key("client", Requests[rid[c]].ip)

\* The broker delivers the record to c; a one-time record goes with it.
Deliver(c) ==
  LET p == Delivered(rid[c])
      found == Readable(c, p) /\ p.room # NoRoom
  IN  /\ record' = IF OneTime THEN NoRecord ELSE record
      /\ served' = served \cup {<<c, rid[c]>>}
      /\ read' = IF Readable(c, p) THEN read ELSE read \ {c}
      /\ Goes(c, IF goal[c] = "chat" \/ Readable(c, p) THEN "using" ELSE "left")
      /\ lookup' = [lookup EXCEPT ![c] =
           IF goal[c] = "connect" THEN @
           ELSE IF found THEN "joined"
           ELSE IF Readable(c, p) \/ pc[c] = "collecting" THEN "missing" ELSE @]

\* resolveUID(), the first time.
Resolve(c) ==
  /\ pc[c] = "resolving"
  /\ \/ /\ record.open /\ Consented(rid[c])
        /\ Deliver(c)
        /\ UNCHANGED rid
     \/ /\ record.open /\ ~Consented(rid[c])
        /\ Goes(c, "asking")
        /\ UNCHANGED <<record, rid, lookup, served, read>>
     \/ /\ ~record.open
        /\ GivesUp(c)
        /\ UNCHANGED <<record, rid, lookup, served, read>>
  /\ UNCHANGED <<made, hostVars, goal, round, addr, endings>>
  /\ NoFault

\* resolveUID(), once the request is approved.  That it is no longer is told as
\* if there were no room.
Collect(c) ==
  /\ pc[c] = "collecting"
  /\ \/ /\ record.open /\ Consented(rid[c])
        /\ Deliver(c)
     \/ /\ ~(record.open /\ Consented(rid[c]))
        /\ GivesUp(c)
        /\ lookup' = [lookup EXCEPT ![c] = IF goal[c] = "chat" THEN "missing" ELSE @]
        /\ UNCHANGED <<record, served, read>>
  /\ UNCHANGED <<made, hostVars, goal, rid, round, addr, endings>>
  /\ NoFault

\* resolveUID() fails, with a one-time record perhaps consumed.
ResolveFails(c) ==
  /\ pc[c] \in {"resolving", "collecting"}
  /\ Fault
  /\ \E handled \in BOOLEAN :
       record' = IF handled /\ OneTime /\ record.open /\ Consented(rid[c])
                 THEN NoRecord ELSE record
  /\ GivesUp(c)
  /\ lookup' = [lookup EXCEPT ![c] =
       IF goal[c] = "chat" /\ pc[c] = "collecting" THEN "missing" ELSE @]
  /\ UNCHANGED <<made, hostVars, goal, rid, round, addr, served, read, endings>>

NewRequest(c) == [owner |-> c, ip |-> addr[c], status |-> "pending", key |-> NoKey,
                  room |-> NoRoom]

\* requestHostApproval()
Ask(c) ==
  /\ pc[c] = "asking"
  /\ \/ /\ record.open
        /\ made < MaxRequests
        /\ made' = made + 1
        /\ record' = [record EXCEPT !.requests =
             [i \in DOMAIN @ \cup {made'} |-> IF i = made' THEN NewRequest(c) ELSE @[i]]]
        /\ \/ /\ Goes(c, "waiting")
              /\ rid' = [rid EXCEPT ![c] = made']
              /\ NoFault
           \/ Fault /\ GivesUp(c) /\ UNCHANGED rid
     \/ /\ ~record.open
        /\ GivesUp(c)
        /\ UNCHANGED <<record, made, rid>>
        /\ NoFault
  /\ UNCHANGED <<hostVars, goal, round, addr, lookup, served, read, endings>>

\* A poll of waitForApproval(); a request the broker does not know is polled on.
HearVerdict(c) ==
  /\ pc[c] = "waiting"
  /\ rid[c] \in DOMAIN Requests
  /\ \/ Requests[rid[c]].status = "approved" /\ Goes(c, "collecting")
     \/ Requests[rid[c]].status = "denied" /\ GivesUp(c)
  /\ UNCHANGED <<record, made, hostVars, goal, rid, round, addr, lookup, served, read, endings>>
  /\ NoFault

\* The wait is over after five minutes, or at the first poll that fails.
StopWaiting(c) ==
  /\ pc[c] = "waiting"
  /\ GivesUp(c)
  /\ UNCHANGED <<record, made, hostVars, goal, rid, round, addr, lookup, served, read, endings>>
  /\ NoFault

\* The request a round of the client's menu starts with: the second has that of
\* the first, the others have none.
Remembered(c) == IF round[c] = 1 THEN rid[c] ELSE NoRequest

\* The user looks for the chat room.
JoinChat(c) ==
  /\ pc[c] = "using"
  /\ round[c] < MaxRounds
  /\ round' = [round EXCEPT ![c] = @ + 1]
  /\ goal' = [goal EXCEPT ![c] = "chat"]
  /\ rid' = [rid EXCEPT ![c] = Remembered(c)]
  /\ lookup' = [lookup EXCEPT ![c] = "none"]
  /\ Goes(c, "resolving")
  /\ UNCHANGED <<record, made, hostVars, addr, served, read, endings>>
  /\ NoFault

\* The user connects or transfers files instead; a menu that starts so has no request.
Act(c) ==
  /\ pc[c] = "using"
  /\ round[c] < MaxRounds
  /\ round' = [round EXCEPT ![c] = @ + 1]
  /\ goal' = [goal EXCEPT ![c] = "connect"]
  /\ rid' = [rid EXCEPT ![c] = NoRequest]
  /\ lookup' = [lookup EXCEPT ![c] = "none"]
  /\ UNCHANGED <<record, made, hostVars, pc, addr, served, read, endings>>
  /\ NoFault

\* Mutant: a status that cannot be had counts as inactive.
ActiveWhenKnown(c) == faults = 0 /\ record.open /\ addr[c] \notin record.kicked

\* Mutant: the kicked addresses are not looked at.
ActiveWhileOpen(c) == record.open

\* checkUidStatus() of c; a call that fails counts as active.
Active(c) == record.open /\ addr[c] \notin record.kicked

\* The poll finds the session inactive: the client says that its host has
\* terminated it and exits.
Disconnect(c) ==
  /\ Live(c)
  /\ ~Active(c)
  /\ Goes(c, "disconnected")
  /\ UNCHANGED <<record, made, hostVars, goal, rid, round, addr, lookup, served, read, endings>>
  /\ NoFault

\* The user quits.
Quit(c) ==
  /\ pc[c] = "using"
  /\ Goes(c, "left")
  /\ UNCHANGED <<record, made, hostVars, goal, rid, round, addr, lookup, served, read, endings>>
  /\ NoFault

\* The network gives the client another address.
Move(c) ==
  /\ moves < MaxMoves
  /\ moves' = moves + 1
  /\ \E a \in Addresses \ {addr[c]} : addr' = [addr EXCEPT ![c] = a]
  /\ UNCHANGED <<record, made, hostVars, clientVars, faults, kicks, endings>>

----------------------------------------------------------------------------
(* The host.                                                               *)

\* approvals: the menu fetches the requests that are pending.
BeginReview ==
  /\ menu = "idle"
  /\ record.open
  /\ review' = {i \in DOMAIN Requests : Requests[i].status = "pending"}
  /\ review' # {}
  /\ menu' = "reviewing"
  /\ UNCHANGED <<record, made, room, rooms, unsaid, posting, granted, clientVars, addr, endings>>
  /\ NoFault

Next1(s) == CHOOSE i \in s : \A j \in s : i <= j

\* A decision is taken: an approval carries the configuration of this moment.
Decision(d, id, decision, ip) ==
  [id |-> id, decision |-> decision,
   key |-> IF decision = "approved" THEN Key(d, ip) ELSE NoKey,
   room |-> IF decision = "approved" THEN room ELSE NoRoom]

\* The host approves a request.
Grants(id, decision) ==
  granted' = IF decision = "approved" /\ id \in DOMAIN Requests
             THEN granted \cup {<<Requests[id].owner, id>>} ELSE granted

\* The menu shows the next request it fetched, whatever became of it since.
Decide(ip, decision) ==
  /\ menu = "reviewing"
  /\ review # {}
  /\ posting["menu"] = NoPost
  /\ LET id == Next1(review)
     IN  /\ id \in DOMAIN Requests => ip = Requests[id].ip
         /\ review' = review \ {id}
         /\ posting' = [posting EXCEPT !["menu"] = Decision("menu", id, decision, ip)]
         /\ Grants(id, decision)
  /\ UNCHANGED <<record, made, room, rooms, unsaid, menu, clientVars, addr, endings>>
  /\ NoFault

\* The user skips the request.
Skip ==
  /\ menu = "reviewing"
  /\ review # {}
  /\ posting["menu"] = NoPost
  /\ review' = review \ {Next1(review)}
  /\ UNCHANGED <<record, made, room, rooms, unsaid, menu, posting, granted, clientVars, addr,
                 endings>>
  /\ NoFault

EndReview ==
  /\ menu = "reviewing"
  /\ review = {}
  /\ posting["menu"] = NoPost
  /\ menu' = "idle"
  /\ UNCHANGED <<record, made, room, rooms, unsaid, review, posting, granted, clientVars, addr,
                 endings>>
  /\ NoFault

\* /api/approval of the dashboard, and decideApproval of the chat page.
DecideElsewhere(d, id, decision) ==
  /\ d = "page" => room # NoRoom
  /\ posting[d] = NoPost
  /\ id \in DOMAIN Requests
  /\ posting' = [posting EXCEPT ![d] = Decision(d, id, decision, Requests[id].ip)]
  /\ Grants(id, decision)
  /\ UNCHANGED <<record, made, room, rooms, unsaid, menu, review, clientVars, addr, endings>>
  /\ NoFault

\* The decision p reaches the broker, which refuses it unless the request is pending.
Accepted(p) == p.id \in DOMAIN Requests /\ Requests[p.id].status = "pending"

\* decideApprovalRequest(); a refusal or a failure ends the review of the menu.
SendDecision(d) ==
  LET p == posting[d]
      handled == record' = [record EXCEPT !.requests[p.id].status = p.decision,
                                          !.requests[p.id].key = p.key,
                                          !.requests[p.id].room = p.room]
      abandoned == review' = IF d = "menu" THEN {} ELSE review
  IN  /\ p # NoPost
      /\ posting' = [posting EXCEPT ![d] = NoPost]
      /\ \/ Accepted(p) /\ handled /\ NoFault /\ UNCHANGED review
         \/ Accepted(p) /\ handled /\ Fault /\ abandoned
         \/ ~Accepted(p) /\ abandoned /\ NoFault /\ UNCHANGED record
         \/ Fault /\ abandoned /\ UNCHANGED record
      /\ UNCHANGED <<made, room, rooms, unsaid, menu, granted, clientVars, addr, endings>>

\* kick: the user selects one of the addresses that made requests.
BeginKick(a) ==
  /\ menu = "idle"
  /\ kicks < MaxKicks
  /\ kicks' = kicks + 1
  /\ \E i \in DOMAIN Requests : Requests[i].ip = a
  /\ menu' = a
  /\ banned' = banned \cup {a}
  /\ UNCHANGED <<record, made, room, rooms, unsaid, review, posting, granted, clientVars, addr,
                 moves, faults, over, spared>>

\* The broker notes the address and forgets its requests.
Kicked(a) ==
  [record EXCEPT !.kicked = @ \cup {a},
                 !.requests = [i \in {j \in DOMAIN @ : @[j].ip # a} |-> @[i]]]

\* kickClient(); when it fails, or there is no record, it revokes the session.
Kick(a) ==
  /\ menu = a
  /\ \/ /\ record.open
        /\ record' = Kicked(a)
        /\ \/ menu' = "idle" /\ NoFault
           \/ menu' = "revoking" /\ Fault
     \/ /\ UNCHANGED record
        /\ menu' = "revoking"
        /\ IF record.open THEN Fault ELSE NoFault
  /\ UNCHANGED <<made, room, rooms, unsaid, review, posting, granted, clientVars, addr, endings>>

\* revokeUID() of kickClient().
Fallback ==
  /\ menu = "revoking"
  /\ menu' = "idle"
  /\ \/ record' = NoRecord /\ over' = TRUE /\ spared' = (spared /\ ~record.open) /\ NoFault
     \/ Fault /\ UNCHANGED <<record, over, spared>>
  /\ UNCHANGED <<made, room, rooms, unsaid, review, posting, granted, clientVars, addr, banned>>

\* A chat room opens (or closes) and the host goes on to register it.
SetRoom ==
  /\ \/ room = NoRoom /\ rooms < MaxRooms /\ rooms' = rooms + 1 /\ room' = rooms'
     \/ room # NoRoom /\ room' = NoRoom /\ UNCHANGED rooms
  /\ unsaid' = TRUE
  /\ UNCHANGED <<record, made, menu, review, posting, granted, clientVars, addr, endings>>
  /\ NoFault

\* registerWithBroker(): the record's payload is replaced, or a record made anew.
Register ==
  /\ unsaid
  /\ unsaid' = FALSE
  /\ record' = IF record.open THEN [record EXCEPT !.room = room] ELSE Fresh(room)
  /\ over' = FALSE
  /\ UNCHANGED <<made, room, rooms, menu, review, posting, granted, clientVars, addr, banned,
                 spared>>
  /\ NoFault

\* The host terminates, or the record expires or is lost.
EndRecord ==
  /\ record.open
  /\ record' = NoRecord
  /\ over' = TRUE
  /\ UNCHANGED <<made, hostVars, clientVars, addr, banned, spared>>
  /\ NoFault

Next ==
  \/ \E c \in Clients :
       \/ Resolve(c) \/ Collect(c) \/ ResolveFails(c) \/ Ask(c) \/ HearVerdict(c)
       \/ StopWaiting(c) \/ JoinChat(c) \/ Act(c) \/ Disconnect(c) \/ Quit(c) \/ Move(c)
  \/ \E a \in Addresses : BeginKick(a) \/ Kick(a)
  \/ \E a \in Addresses, v \in {"approved", "denied"} : Decide(a, v)
  \/ \E d \in AllDeciders : SendDecision(d)
  \/ \E d \in Deciders, id \in Ids, v \in {"approved", "denied"} : DecideElsewhere(d, id, v)
  \/ BeginReview \/ Skip \/ EndReview \/ Fallback \/ SetRoom \/ Register \/ EndRecord

Spec == Init /\ [][Next]_vars

\* The status is polled every five seconds, the wait has a deadline, and the
\* calls of a client get their answer.
Fairness ==
  \A c \in Clients : /\ WF_vars(Disconnect(c)) /\ WF_vars(StopWaiting(c))
                     /\ WF_vars(Resolve(c)) /\ WF_vars(Collect(c)) /\ WF_vars(Ask(c))

FairSpec == Spec /\ Fairness

----------------------------------------------------------------------------
(* Properties.                                                             *)

\* Each time a client is given the configuration of a gated session, it is on a
\* request of its own that the host approved, whatever was kicked, moved, lost or
\* decided twice meanwhile, and whichever request it remembers.
ServedByConsent == Gated => served \subseteq granted

\* A client that receives a payload can decrypt it, wherever it was approved
\* and whatever its address has become.
PayloadsReadable == read = Clients

\* A client told that the host terminated the session was not misled: its
\* address was kicked or the record had been ended.
HonestDisconnect ==
  [][\A c \in Clients : pc[c] # "disconnected" /\ pc'[c] = "disconnected" =>
       over \/ addr[c] \in banned]_vars

\* A kicked client leaves, unless it changes its address or the record is lost.
KickedLeaves ==
  \A c \in Clients, a \in Addresses :
    (Live(c) /\ addr[c] = a /\ record.open /\ a \in record.kicked)
      ~> (~Live(c) \/ addr[c] # a \/ ~record.open \/ a \notin record.kicked)

----------------------------------------------------------------------------
(* Statements of the documentation that the code does not keep.            *)

\* client.js:935, "If client is already approved for session": it is not asked again.
AskedOnce == \A c \in Clients :
  pc[c] = "asking" => ~\E i \in Ids : <<c, i>> \in served

\* client.js:947, "The host has not started a chat room yet."
NoRoomWhenNone ==
  [][\A c \in Clients : lookup[c] # "missing" /\ lookup'[c] = "missing" =>
       ~record.open \/ record.room = NoRoom]_vars

\* host.js:1718, "Kicked client IP": the others keep the session.
KickSpares == spared
=============================================================================
