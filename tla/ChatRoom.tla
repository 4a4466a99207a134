----------------------------- MODULE ChatRoom -----------------------------
(***************************************************************************)
(* The chat room of a host (src/src/lib/services/chat.js): a WebSocket     *)
(* server in the host process and the page it serves, open in browsers.    *)
(* Each connection is a pair of FIFO channels; a page encrypts before it   *)
(* sends and decrypts after it receives, and other events come in between. *)
(*                                                                         *)
(* Abstractions: a page is opened once and stands for its user's name; a   *)
(* message is its sender and a number; some break a limit on size.  What a *)
(* page that closes showed, or would have received, is forgotten.          *)
(***************************************************************************)
EXTENDS Naturals, Sequences, FiniteSets

CONSTANTS
  Pages,      \* pages that may be opened
  TokenPages, \* those opened with a hostControlToken in their address
  HostPages,  \* those whose token is the one of this server
  LocalPages, \* those opened on the host's machine: their page says "isHost"
  Oversized,  \* the messages that break a limit on size
  MaxSent     \* bound: messages a user submits

ASSUME ChatAssumption ==
  /\ HostPages \subseteq LocalPages \cap TokenPages
  /\ TokenPages \subseteq Pages
  /\ LocalPages \subseteq Pages
  /\ Oversized \subseteq Pages \X Nat
  /\ MaxSent \in Nat

VARIABLES
  listening,  \* the server accepts connections
  connected,  \* wss.clients, those whose close event is still to come included
  clients,    \* the keys of the map of names
  isHost,     \* connections with ws.isHost
  page,       \* page -> its state
  up, down,   \* page -> messages to the server, and from it
  encrypting, \* page -> messages being encrypted
  decrypting, \* page -> messages being decrypted
  shown,      \* page -> messages appended to the page
  users,      \* page -> the names in its sidebar
  sent,       \* page -> number of messages submitted
  due,        \* history: page -> messages the server had while it was connected
  closer      \* history: the page whose request closed the room, or Nobody

server == <<listening, connected, clients, isHost, closer>>
view == <<encrypting, decrypting, shown, users, sent>>
vars == <<server, page, up, down, view, due>>

Nobody == "nobody"
Messages == Pages \X (0..MaxSent) \* number 0 announces the join

HostAuth(t) == [type |-> "host_auth", token |-> t]
JoinEvent == [type |-> "join_event"]
HostClose == [type |-> "host_close"]
Close == [type |-> "close"]
E2E(m) == [type |-> "e2e", payload |-> m]
State(u) == [type |-> "state", users |-> u]

TypeOK ==
  /\ listening \in BOOLEAN
  /\ connected \subseteq Pages
  /\ clients \subseteq connected
  /\ isHost \subseteq HostPages
  /\ page \in [Pages -> {"away", "opening", "open", "closing", "closed"}]
  /\ {encrypting, decrypting, shown, due} \subseteq [Pages -> SUBSET Messages]
  /\ users \in [Pages -> SUBSET Pages]
  /\ sent \in [Pages -> 0..MaxSent]
  /\ closer \in Pages \cup {Nobody}

Everywhere(v) == [p \in Pages |-> v]

Init ==
  /\ listening = TRUE
  /\ connected = {} /\ clients = {} /\ isHost = {}
  /\ closer = Nobody
  /\ page = Everywhere("away")
  /\ up = Everywhere(<<>>)
  /\ down = Everywhere(<<>>)
  /\ encrypting = Everywhere({})
  /\ decrypting = Everywhere({})
  /\ shown = Everywhere({})
  /\ users = Everywhere({})
  /\ sent = Everywhere(0)
  /\ due = Everywhere({})

----------------------------------------------------------------------------
(* The page.                                                               *)

\* The page is connected, as far as it knows.
Usable(p) == page[p] \in {"opening", "open"}

\* The connection opens; the page begins to encrypt the announcement of its join.
Open(p) ==
  /\ listening
  /\ page[p] = "away"
  /\ page' = [page EXCEPT ![p] = "opening"]
  /\ connected' = connected \cup {p}
  /\ encrypting' = [encrypting EXCEPT ![p] = {<<p, 0>>}]
  /\ UNCHANGED <<listening, clients, isHost, closer, up, down, decrypting, shown, users, sent,
                 due>>

\* The token in the address of p: of this server, or of one that is gone.
Token(p) == IF p \in HostPages THEN "this" ELSE "old"

\* What onopen sends once the announcement is encrypted.
Greeting(p) ==
  (IF p \in TokenPages THEN <<HostAuth(Token(p))>> ELSE <<>>) \o <<JoinEvent, E2E(<<p, 0>>)>>

\* The announcement is encrypted.
Greet(p) ==
  /\ page[p] = "opening"
  /\ page' = [page EXCEPT ![p] = "open"]
  /\ encrypting' = [encrypting EXCEPT ![p] = @ \ {<<p, 0>>}]
  /\ up' = [up EXCEPT ![p] = @ \o Greeting(p)]
  /\ UNCHANGED <<server, down, decrypting, shown, users, sent, due>>

\* The form is submitted, as soon as the connection is open.
Submit(p) ==
  /\ Usable(p)
  /\ sent[p] < MaxSent
  /\ sent' = [sent EXCEPT ![p] = @ + 1]
  /\ encrypting' = [encrypting EXCEPT ![p] = @ \cup {<<p, sent'[p]>>}]
  /\ UNCHANGED <<server, page, up, down, decrypting, shown, users, due>>

\* A submitted message is encrypted and sent, whatever became of the ones before.
SendChat(p, m) ==
  /\ m \in encrypting[p]
  /\ m[2] # 0
  /\ encrypting' = [encrypting EXCEPT ![p] = @ \ {m}]
  /\ up' = [up EXCEPT ![p] = Append(@, E2E(m))]
  /\ UNCHANGED <<server, page, down, decrypting, shown, users, sent, due>>

\* The page's message handler.
Receive(p) ==
  /\ Usable(p)
  /\ down[p] # <<>>
  /\ Head(down[p]) # Close
  /\ LET msg == Head(down[p])
     IN  \/ /\ msg.type = "state"
            /\ users' = [users EXCEPT ![p] = msg.users]
            /\ UNCHANGED decrypting
         \/ /\ msg.type = "e2e"
            /\ decrypting' = [decrypting EXCEPT ![p] = @ \cup {msg.payload}]
            /\ UNCHANGED users
  /\ down' = [down EXCEPT ![p] = Tail(@)]
  /\ UNCHANGED <<server, page, up, encrypting, shown, sent, due>>

\* The page p is left in a state in which it neither sends nor receives.
LeftAs(p, state, last) ==
  /\ page' = [page EXCEPT ![p] = state]
  /\ up' = [up EXCEPT ![p] = last]
  /\ down' = [down EXCEPT ![p] = <<>>]
  /\ encrypting' = [encrypting EXCEPT ![p] = {}]
  /\ decrypting' = [decrypting EXCEPT ![p] = {}]
  /\ shown' = [shown EXCEPT ![p] = {}]
  /\ due' = [due EXCEPT ![p] = {}]
  /\ users' = [users EXCEPT ![p] = {}]
  /\ UNCHANGED sent

\* Mutant: the page says so but does not close its connection.
ReceiveCloseIdle(p) ==
  /\ Usable(p)
  /\ down[p] # <<>>
  /\ Head(down[p]) = Close
  /\ down' = [down EXCEPT ![p] = Tail(@)]
  /\ UNCHANGED <<server, page, up, view, due>>

\* The page's message handler, when the host has closed the room.
ReceiveClose(p) ==
  /\ Usable(p)
  /\ down[p] # <<>>
  /\ Head(down[p]) = Close
  /\ LeftAs(p, "closing", up[p])
  /\ UNCHANGED server

\* A message is decrypted and appended, in whatever order they finish.
Show(p, m) ==
  /\ m \in decrypting[p]
  /\ decrypting' = [decrypting EXCEPT ![p] = @ \ {m}]
  /\ shown' = [shown EXCEPT ![p] = @ \cup {m}]
  /\ UNCHANGED <<server, page, up, down, encrypting, users, sent, due>>

\* The leave button: a local page asks to close the room, then closes its window;
\* any other closes its connection.
Leave(p) ==
  /\ Usable(p)
  /\ LeftAs(p, "closing", IF p \in LocalPages THEN Append(up[p], HostClose) ELSE up[p])
  /\ UNCHANGED server

----------------------------------------------------------------------------
(* The server.                                                             *)

\* The connections whose state is OPEN, and whose page still listens.
Ready == {p \in connected : Usable(p)}

\* broadcastMsg()
Broadcast(msg) == [p \in Pages |-> IF p \in Ready THEN Append(down[p], msg) ELSE down[p]]

\* Mutant: the sender is left out.
RelayToOthers(p, m) ==
  down' = [q \in Pages |-> IF q \in Ready \ {p} THEN Append(down[q], E2E(m)) ELSE down[q]]

\* An encrypted message goes to everyone, its sender included.
Relay(p, m) == down' = Broadcast(E2E(m))

\* The message shows the token of this server.
ShowsToken(msg) == msg.type = "host_auth" /\ msg.token = "this"

\* Mutant: any connection on the host's machine may close the room.
MayCloseLocal(p) == p \in LocalPages

\* Only a connection that showed the token may close the room.
MayClose(p) == p \in isHost

\* The server's handler of a message of p.  The host's onClose then stops the
\* room's tunnel.
Handle(p) ==
  /\ up[p] # <<>>
  /\ p \in connected
  /\ up' = [up EXCEPT ![p] = Tail(@)]
  /\ LET msg == Head(up[p])
     IN  \/ /\ msg.type = "host_auth"
            /\ isHost' = IF ShowsToken(msg) THEN isHost \cup {p} ELSE isHost
            /\ UNCHANGED <<listening, clients, closer, down, due>>
         \/ /\ msg.type = "e2e"
            /\ msg.payload \in Oversized
            /\ UNCHANGED <<listening, clients, isHost, closer, down, due>>
         \/ /\ msg.type = "e2e"
            /\ msg.payload \notin Oversized
            /\ Relay(p, msg.payload)
            /\ due' = [q \in Pages |-> IF q \in Ready THEN due[q] \cup {msg.payload} ELSE due[q]]
            /\ UNCHANGED <<listening, clients, isHost, closer>>
         \/ /\ msg = JoinEvent
            /\ clients' = clients \cup {p}
            /\ down' = Broadcast(State(clients'))
            /\ UNCHANGED <<listening, isHost, closer, due>>
         \/ /\ msg = HostClose
            /\ MayClose(p)
            /\ down' = Broadcast(Close)
            /\ listening' = FALSE
            /\ closer' = IF closer = Nobody THEN p ELSE closer
            /\ UNCHANGED <<clients, isHost, due>>
         \/ /\ msg = HostClose
            /\ ~MayClose(p)
            /\ UNCHANGED <<listening, clients, isHost, closer, down, due>>
  /\ UNCHANGED <<connected, page, view>>

\* A page goes away without a word: its browser is closed, its network fails, or
\* the server closes the connection because a message exceeds 64 KiB.
Drop(p) ==
  /\ Usable(p)
  /\ LeftAs(p, "closed", <<>>)
  /\ UNCHANGED server

\* A page that closes its connection does so after what it had sent.
HangUp(p) ==
  /\ page[p] = "closing"
  /\ up[p] = <<>>
  /\ page' = [page EXCEPT ![p] = "closed"]
  /\ UNCHANGED <<server, up, down, view, due>>

\* Mutant: the others are told before the name is removed.
RemainingLate(p) == clients

\* The names that remain when p has gone.
Remaining(p) == clients \ {p}

\* The server's handler of the close event.
HandleClosed(p) ==
  /\ p \in connected
  /\ page[p] = "closed"
  /\ connected' = connected \ {p}
  /\ clients' = clients \ {p}
  /\ isHost' = isHost \ {p}
  /\ down' = Broadcast(State(Remaining(p)))
  /\ UNCHANGED <<listening, closer, page, up, view, due>>

Next ==
  \E p \in Pages :
    \/ Open(p) \/ Greet(p) \/ Submit(p) \/ Receive(p) \/ ReceiveClose(p) \/ Leave(p)
    \/ \E m \in Messages : SendChat(p, m) \/ Show(p, m)
    \/ Handle(p) \/ Drop(p) \/ HangUp(p) \/ HandleClosed(p)

\* Connections deliver, browsers compute and close; users do as they please.
Fairness ==
  \A p \in Pages :
    /\ WF_vars(Greet(p)) /\ WF_vars(Receive(p)) /\ WF_vars(ReceiveClose(p))
    /\ WF_vars(Handle(p)) /\ WF_vars(HangUp(p)) /\ WF_vars(HandleClosed(p))

Spec == Init /\ [][Next]_vars
FairSpec == Spec /\ Fairness

----------------------------------------------------------------------------
(* Properties.                                                             *)

\* Nothing is on its way to, from or inside the pages.
Quiet ==
  /\ \A p \in Pages : /\ up[p] = <<>> /\ encrypting[p] = {} /\ decrypting[p] = {}
                      /\ Usable(p) => down[p] = <<>>
                      /\ page[p] # "closing"
                      /\ page[p] = "closed" => p \notin connected

\* When all is quiet the sidebar of every page lists exactly those in the room,
\* whatever the order in which they came, announced themselves and left.
SidebarsAgree ==
  Quiet => \A p \in Pages : page[p] = "open" => users[p] = {q \in Pages : page[q] = "open"}

\* When all is quiet a page shows all that the server relayed while it was connected,
\* and all that its own user said, but what breaks a limit: the server drops that and
\* tells nobody.
EverythingShown ==
  Quiet => \A p \in Pages : page[p] = "open" =>
             /\ shown[p] = due[p]
             /\ {<<p, k>> : k \in 0..sent[p]} \subseteq shown[p] \cup Oversized

\* README.md: only the separate host capability closes the room.
ClosedByHost == ~listening => closer \in HostPages

\* A room that was closed empties: nobody is left in it.
ClosedRoomEmpties == ~listening ~> \A p \in Pages : page[p] \in {"away", "closed"}

\* chat.js: the leave button of a host page closes the room for everyone.
LocalLeaveCloses ==
  \A p \in LocalPages : page[p] = "closing" ~> ~listening
=============================================================================
