----------------------------- MODULE ChatProofs -----------------------------
(***************************************************************************)
(* Theorems about the chat room, for every number of pages and messages.   *)
(***************************************************************************)
EXTENDS ChatRoom, SequenceTheorems, TLAPS

----------------------------------------------------------------------------
(* Channels.                                                               *)

Right == HostAuth("this")
Auths == {Right, HostAuth("old")}
UpMsgs == Auths \cup {JoinEvent, HostClose} \cup {E2E(m) : m \in Messages}
DownMsgs == {Close} \cup {E2E(m) : m \in Messages} \cup {State(u) : u \in SUBSET Pages}

\* msg is on its way in the channel s.
In(s, msg) == \E i \in DOMAIN s : s[i] = msg

LEMMA InEmpty == \A msg : ~In(<<>>, msg)
BY DEF In

LEMMA InAppend ==
  ASSUME NEW S, NEW s \in Seq(S), NEW x \in S
  PROVE  /\ Append(s, x) \in Seq(S)
         /\ \A msg : In(Append(s, x), msg) <=> In(s, msg) \/ msg = x
<1>1. /\ Append(s, x) \in Seq(S)
      /\ Len(Append(s, x)) = Len(s) + 1 /\ Len(s) \in Nat
      /\ \A i \in 1..Len(s) : Append(s, x)[i] = s[i]
      /\ Append(s, x)[Len(s) + 1] = x
  BY AppendProperties
<1>2. DOMAIN s = 1..Len(s) /\ DOMAIN Append(s, x) = 1..(Len(s) + 1)
  BY <1>1
<1>3. QED
  BY <1>1, <1>2 DEF In

LEMMA InTail ==
  ASSUME NEW S, NEW s \in Seq(S), s # <<>>
  PROVE  /\ Head(s) \in S /\ Tail(s) \in Seq(S)
         /\ In(s, Head(s))
         /\ \A msg : In(s, msg) <=> In(Tail(s), msg) \/ msg = Head(s)
<1>1. /\ Head(s) \in S /\ Tail(s) \in Seq(S) /\ Len(Tail(s)) = Len(s) - 1
      /\ Len(s) \in Nat \ {0} /\ Head(s) = s[1]
      /\ \A i \in 1..Len(Tail(s)) : Tail(s)[i] = s[i + 1]
  OBVIOUS
<1>2. DOMAIN s = 1..Len(s) /\ DOMAIN Tail(s) = 1..(Len(s) - 1)
  BY <1>1
<1>3. In(s, Head(s))
  BY <1>1, <1>2 DEF In
<1>4. ASSUME NEW msg, In(Tail(s), msg) PROVE In(s, msg)
  <2>1. PICK i \in 1..(Len(s) - 1) : Tail(s)[i] = msg
    BY <1>2, <1>4 DEF In
  <2>2. i + 1 \in DOMAIN s /\ s[i + 1] = msg
    BY <1>1, <1>2, <2>1
  <2>3. QED
    BY <2>2 DEF In
<1>5. ASSUME NEW msg, In(s, msg), msg # Head(s) PROVE In(Tail(s), msg)
  <2>1. PICK i \in 1..Len(s) : s[i] = msg
    BY <1>2, <1>5 DEF In
  <2>2. i - 1 \in DOMAIN Tail(s) /\ Tail(s)[i - 1] = msg
    BY <1>1, <1>2, <1>5, <2>1
  <2>3. QED
    BY <2>2 DEF In
<1>6. QED
  BY <1>1, <1>3, <1>4, <1>5

LEMMA InConcat ==
  ASSUME NEW S, NEW s \in Seq(S), NEW t \in Seq(S)
  PROVE  /\ s \o t \in Seq(S)
         /\ \A msg : In(s \o t, msg) <=> In(s, msg) \/ In(t, msg)
<1>1. /\ s \o t \in Seq(S) /\ Len(s \o t) = Len(s) + Len(t)
      /\ Len(s) \in Nat /\ Len(t) \in Nat
      /\ \A i \in 1..(Len(s) + Len(t)) :
           (s \o t)[i] = IF i <= Len(s) THEN s[i] ELSE t[i - Len(s)]
  BY ConcatProperties
<1>2. DOMAIN s = 1..Len(s) /\ DOMAIN t = 1..Len(t) /\ DOMAIN (s \o t) = 1..(Len(s) + Len(t))
  BY <1>1
<1>3. ASSUME NEW msg, In(t, msg) PROVE In(s \o t, msg)
  <2>1. PICK i \in 1..Len(t) : t[i] = msg
    BY <1>2, <1>3 DEF In
  <2>2. i + Len(s) \in 1..(Len(s) + Len(t)) /\ ~(i + Len(s) <= Len(s)) /\ i + Len(s) - Len(s) = i
    BY <1>1, <2>1
  <2>3. (s \o t)[i + Len(s)] = msg
    BY <1>1, <2>1, <2>2
  <2>4. QED
    BY <1>2, <2>2, <2>3 DEF In
<1>4. ASSUME NEW msg, In(s, msg) PROVE In(s \o t, msg)
  BY <1>1, <1>2, <1>4 DEF In
<1>5. ASSUME NEW msg, In(s \o t, msg) PROVE In(s, msg) \/ In(t, msg)
  <2>1. PICK i \in 1..(Len(s) + Len(t)) : (s \o t)[i] = msg
    BY <1>2, <1>5 DEF In
  <2>2. CASE i <= Len(s)
    BY <1>1, <1>2, <2>1, <2>2 DEF In
  <2>3. CASE ~(i <= Len(s))
    <3>1. i - Len(s) \in DOMAIN t /\ t[i - Len(s)] = msg
      BY <1>1, <1>2, <2>1, <2>3
    <3>2. QED
      BY <3>1 DEF In
  <2>4. QED
    BY <2>2, <2>3
<1>6. QED
  BY <1>1, <1>3, <1>4, <1>5

\* The messages are told apart by their types.
LEMMA Kinds ==
  /\ \A m, n : E2E(m) = E2E(n) => m = n
  /\ \A m : E2E(m) \notin Auths \cup {JoinEvent, HostClose, Close}
  /\ \A m, u : E2E(m) # State(u)
  /\ \A u, v : State(u) = State(v) => u = v
  /\ \A u : State(u) # Close
  /\ JoinEvent \notin Auths /\ HostClose \notin Auths /\ HostClose # JoinEvent
  /\ \A m : E2E(m).type = "e2e" /\ E2E(m).payload = m
  /\ \A u : State(u).type = "state" /\ State(u).users = u
  /\ \A msg \in Auths : msg.type = "host_auth" /\ (msg.token = "this" <=> msg = Right)
  /\ JoinEvent.type = "join_event"
  /\ HostClose.type = "host_close" /\ Close.type = "close"
BY DEF E2E, HostAuth, Right, Auths, JoinEvent, HostClose, Close, State

\* u is the list of names that a page that shows v has seen last, once it has
\* received what is in the channel s.
Latest(s, v, u) ==
  \/ \E i \in DOMAIN s : /\ s[i] = State(u)
                         /\ \A j \in DOMAIN s : j > i => s[j].type # "state"
  \/ v = u /\ \A j \in DOMAIN s : s[j].type # "state"

LEMMA LatestState ==
  ASSUME NEW s \in Seq(DownMsgs), NEW u \in SUBSET Pages, NEW v
  PROVE  Latest(Append(s, State(u)), v, u)
<1>1. State(u) \in DownMsgs
  BY DEF DownMsgs
<1>2. /\ Len(Append(s, State(u))) = Len(s) + 1 /\ Len(s) \in Nat
      /\ Append(s, State(u))[Len(s) + 1] = State(u)
      /\ Append(s, State(u)) \in Seq(DownMsgs)
  BY <1>1, AppendProperties
<1>3. DOMAIN Append(s, State(u)) = 1..(Len(s) + 1)
  BY <1>2
<1>4. QED
  BY <1>2, <1>3 DEF Latest

LEMMA LatestOther ==
  ASSUME NEW s \in Seq(DownMsgs), NEW u, NEW v, Latest(s, v, u),
         NEW x \in DownMsgs, x.type # "state"
  PROVE  Latest(Append(s, x), v, u)
<1>1. /\ Len(Append(s, x)) = Len(s) + 1 /\ Len(s) \in Nat
      /\ \A i \in 1..Len(s) : Append(s, x)[i] = s[i]
      /\ Append(s, x)[Len(s) + 1] = x
      /\ Append(s, x) \in Seq(DownMsgs)
  BY AppendProperties
<1>2. DOMAIN s = 1..Len(s) /\ DOMAIN Append(s, x) = 1..(Len(s) + 1)
  BY <1>1
<1>3. QED
  BY <1>1, <1>2 DEF Latest

LEMMA LatestTail ==
  ASSUME NEW s \in Seq(DownMsgs), s # <<>>, NEW u, NEW v, NEW w, Latest(s, v, u),
         IF Head(s).type = "state" THEN Head(s) = State(w) ELSE w = v
  PROVE  Latest(Tail(s), w, u)
<1>1. /\ Len(Tail(s)) = Len(s) - 1 /\ Len(s) \in Nat \ {0} /\ Head(s) = s[1]
      /\ \A i \in 1..Len(Tail(s)) : Tail(s)[i] = s[i + 1]
  OBVIOUS
<1>2. DOMAIN s = 1..Len(s) /\ DOMAIN Tail(s) = 1..(Len(s) - 1)
  BY <1>1
<1>3. \A j \in DOMAIN Tail(s) : j + 1 \in DOMAIN s /\ Tail(s)[j] = s[j + 1]
  BY <1>1, <1>2
<1>4. CASE \E i \in DOMAIN s : s[i] = State(u) /\ \A j \in DOMAIN s : j > i => s[j].type # "state"
  <2>1. PICK i \in DOMAIN s : s[i] = State(u) /\ \A j \in DOMAIN s : j > i => s[j].type # "state"
    BY <1>4
  <2>2. CASE i = 1
    <3>1. w = u
      BY <1>1, <2>1, <2>2, Kinds
    <3>2. \A j \in DOMAIN Tail(s) : Tail(s)[j].type # "state"
      BY <1>2, <1>3, <2>1, <2>2
    <3>3. QED
      BY <3>1, <3>2 DEF Latest
  <2>3. CASE i # 1
    <3>1. i - 1 \in DOMAIN Tail(s) /\ Tail(s)[i - 1] = State(u)
      BY <1>1, <1>2, <2>1, <2>3
    <3>2. \A j \in DOMAIN Tail(s) : j > i - 1 => Tail(s)[j].type # "state"
      BY <1>2, <1>3, <2>1
    <3>3. QED
      BY <3>1, <3>2 DEF Latest
  <2>4. QED
    BY <2>2, <2>3
<1>5. CASE v = u /\ \A j \in DOMAIN s : s[j].type # "state"
  <2>1. w = v
    BY <1>1, <1>2, <1>5
  <2>2. QED
    BY <1>3, <1>5, <2>1 DEF Latest
<1>6. QED
  BY <1>4, <1>5 DEF Latest

----------------------------------------------------------------------------
(* Type correctness.                                                       *)

Typed ==
  /\ listening \in BOOLEAN
  /\ connected \in SUBSET Pages
  /\ clients \in SUBSET Pages
  /\ page \in [Pages -> {"away", "opening", "open", "closing", "closed"}]
  /\ up \in [Pages -> Seq(UpMsgs)]
  /\ down \in [Pages -> Seq(DownMsgs)]
  /\ encrypting \in [Pages -> SUBSET Messages]
  /\ decrypting \in [Pages -> SUBSET Messages]
  /\ shown \in [Pages -> SUBSET Messages]
  /\ due \in [Pages -> SUBSET Messages]
  /\ users \in [Pages -> SUBSET Pages]
  /\ sent \in [Pages -> 0..MaxSent]

LEMMA Numbers == MaxSent \in Nat /\ HostPages \subseteq Pages /\ 0 \in 0..MaxSent
BY ChatAssumption DEF ChatAssumption

\* What a broadcast does to each channel.
LEMMA BroadcastType ==
  ASSUME Typed, NEW msg \in DownMsgs
  PROVE  /\ Broadcast(msg) \in [Pages -> Seq(DownMsgs)]
         /\ \A q \in Pages : Broadcast(msg)[q] = IF q \in Ready THEN Append(down[q], msg) ELSE down[q]
BY InAppend DEF Broadcast, Typed

LEMMA LeftType ==
  ASSUME Typed, NEW p \in Pages, NEW state \in {"closing", "closed"}, NEW last \in Seq(UpMsgs),
         LeftAs(p, state, last), UNCHANGED server
  PROVE  Typed'
<1>1. page' \in [Pages -> {"away", "opening", "open", "closing", "closed"}]
  BY DEF LeftAs, Typed
<1>2. up' \in [Pages -> Seq(UpMsgs)] /\ down' \in [Pages -> Seq(DownMsgs)]
  BY DEF LeftAs, Typed
<1>3. encrypting' \in [Pages -> SUBSET Messages] /\ decrypting' \in [Pages -> SUBSET Messages]
  BY DEF LeftAs, Typed
<1>4. shown' \in [Pages -> SUBSET Messages] /\ due' \in [Pages -> SUBSET Messages]
      /\ users' \in [Pages -> SUBSET Pages]
  BY DEF LeftAs, Typed
<1>5. QED
  BY <1>1, <1>2, <1>3, <1>4 DEF LeftAs, Typed, server

\* The forms of the next message of a page, and what the server makes of it.
LEMMA HandleCases ==
  ASSUME Typed, NEW p \in Pages, Handle(p)
  PROVE  /\ p \in connected /\ up[p] # <<>> /\ up' = [up EXCEPT ![p] = Tail(@)]
         /\ Head(up[p]) \in UpMsgs
         /\ UNCHANGED <<connected, page, encrypting, decrypting, shown, users, sent>>
         /\ \/ /\ Head(up[p]) \in Auths
               /\ isHost' = (IF Head(up[p]) = Right THEN isHost \cup {p} ELSE isHost)
               /\ UNCHANGED <<listening, clients, closer, down, due>>
            \/ /\ Head(up[p]) \in {HostClose} \cup {E2E(m) : m \in Messages \cap Oversized}
               /\ UNCHANGED <<listening, clients, isHost, closer, down, due>>
            \/ \E m \in Messages :
                 /\ Head(up[p]) = E2E(m) /\ down' = Broadcast(E2E(m))
                 /\ due' = [q \in Pages |-> IF q \in Ready THEN due[q] \cup {m} ELSE due[q]]
                 /\ UNCHANGED <<listening, clients, isHost, closer>>
            \/ /\ Head(up[p]) = JoinEvent /\ clients' = clients \cup {p}
               /\ down' = Broadcast(State(clients'))
               /\ UNCHANGED <<listening, isHost, closer, due>>
            \/ /\ Head(up[p]) = HostClose /\ p \in isHost
               /\ down' = Broadcast(Close)
               /\ listening' = FALSE
               /\ closer' = (IF closer = Nobody THEN p ELSE closer)
               /\ UNCHANGED <<clients, isHost, due>>
<1>1. up[p] \in Seq(UpMsgs) /\ up[p] # <<>>
  BY DEF Typed, Handle
<1>2. Head(up[p]) \in UpMsgs
  BY <1>1, InTail
<1>3. Head(up[p]).type = "e2e" => \E m \in Messages : Head(up[p]) = E2E(m) /\ Head(up[p]).payload = m
  BY <1>2, Kinds DEF UpMsgs
<1>4. QED
  <2>1. Head(up[p]).type = "host_auth" =>
          Head(up[p]) \in Auths /\ (ShowsToken(Head(up[p])) <=> Head(up[p]) = Right)
    BY <1>2, Kinds DEF UpMsgs, ShowsToken
  <2>2. QED
    BY <1>1, <1>2, <1>3, <2>1 DEF Handle, Relay, MayClose, view

\* What a page says once its announcement is encrypted.
LEMMA GreetingFacts ==
  ASSUME NEW p \in Pages
  PROVE  /\ Greeting(p) \in Seq(UpMsgs)
         /\ In(Greeting(p), JoinEvent) /\ In(Greeting(p), E2E(<<p, 0>>))
         /\ In(Greeting(p), Right) => p \in HostPages
<1>1. JoinEvent \in UpMsgs /\ E2E(<<p, 0>>) \in UpMsgs /\ HostAuth(Token(p)) \in UpMsgs
  BY Numbers DEF UpMsgs, Messages, Auths, Right, Token
<1>2. PICK t \in Seq(UpMsgs) :
        /\ t = <<JoinEvent, E2E(<<p, 0>>)>>
        /\ In(t, JoinEvent) /\ In(t, E2E(<<p, 0>>)) /\ ~In(t, Right)
  <2>1. <<JoinEvent, E2E(<<p, 0>>)>> \in Seq(UpMsgs)
    BY <1>1
  <2>2. /\ In(<<JoinEvent, E2E(<<p, 0>>)>>, JoinEvent)
        /\ In(<<JoinEvent, E2E(<<p, 0>>)>>, E2E(<<p, 0>>))
        /\ ~In(<<JoinEvent, E2E(<<p, 0>>)>>, Right)
    BY Kinds DEF In, Auths
  <2>3. QED
    BY <2>1, <2>2
<1>3. PICK g \in Seq(UpMsgs) :
        /\ g = IF p \in TokenPages THEN <<HostAuth(Token(p))>> ELSE <<>>
        /\ In(g, Right) => p \in HostPages
  <2>1. <<HostAuth(Token(p))>> \in Seq(UpMsgs) /\ <<>> \in Seq(UpMsgs)
    BY <1>1
  <2>2. In(<<HostAuth(Token(p))>>, Right) => p \in HostPages
    BY DEF In, Token, HostAuth, Right
  <2>3. QED
    BY <2>1, <2>2, InEmpty
<1>4. Greeting(p) = g \o t
  BY <1>2, <1>3 DEF Greeting
<1>5. g \o t \in Seq(UpMsgs) /\ \A msg : In(g \o t, msg) <=> In(g, msg) \/ In(t, msg)
  BY InConcat
<1>6. QED
  BY <1>2, <1>3, <1>4, <1>5

LEMMA TypedStep ==
  ASSUME Typed, Next
  PROVE  Typed'
<1> PICK p \in Pages :
      \/ Open(p) \/ Greet(p) \/ Submit(p) \/ Receive(p) \/ ReceiveClose(p) \/ Leave(p)
      \/ \E m \in Messages : SendChat(p, m) \/ Show(p, m)
      \/ Handle(p) \/ Drop(p) \/ HangUp(p) \/ HandleClosed(p)
  BY DEF Next
<1>1. <<p, 0>> \in Messages /\ up[p] \in Seq(UpMsgs) /\ down[p] \in Seq(DownMsgs)
  BY Numbers DEF Typed, Messages
<1>2. CASE Open(p)
  BY <1>1, <1>2 DEF Open, Typed
<1>3. CASE Greet(p)
  <2>1. Greeting(p) \in Seq(UpMsgs)
    BY GreetingFacts
  <2>2. up[p] \o Greeting(p) \in Seq(UpMsgs)
    BY <1>1, <2>1, InConcat
  <2>3. QED
    BY <1>3, <2>2 DEF Greet, Typed, server
<1>4. CASE Submit(p)
  <2>1. sent[p] + 1 \in 0..MaxSent /\ <<p, sent[p] + 1>> \in Messages
    BY <1>4, Numbers DEF Submit, Typed, Messages
  <2>2. sent' \in [Pages -> 0..MaxSent] /\ encrypting' \in [Pages -> SUBSET Messages]
    BY <1>4, <2>1 DEF Submit, Typed
  <2>3. QED
    BY <1>4, <2>2 DEF Submit, Typed, server
<1>5. CASE Receive(p)
  <2>1. Head(down[p]) \in DownMsgs /\ Tail(down[p]) \in Seq(DownMsgs)
    BY <1>1, <1>5, InTail DEF Receive
  <2>2. /\ Head(down[p]).type = "state" => Head(down[p]).users \in SUBSET Pages
        /\ Head(down[p]).type = "e2e" => Head(down[p]).payload \in Messages
    BY <2>1, Kinds DEF DownMsgs
  <2>3. users' \in [Pages -> SUBSET Pages] /\ decrypting' \in [Pages -> SUBSET Messages]
    <3>1. CASE /\ Head(down[p]).type = "state"
               /\ users' = [users EXCEPT ![p] = Head(down[p]).users] /\ decrypting' = decrypting
      BY <2>2, <3>1 DEF Typed
    <3>2. CASE /\ Head(down[p]).type = "e2e" /\ users' = users
               /\ decrypting' = [decrypting EXCEPT ![p] = @ \cup {Head(down[p]).payload}]
      BY <2>2, <3>2 DEF Typed
    <3>3. QED
      BY <1>5, <3>1, <3>2 DEF Receive
  <2>4. QED
    BY <1>5, <2>1, <2>3 DEF Receive, Typed, server
<1>6. CASE ReceiveClose(p)
  BY <1>1, <1>6, LeftType DEF ReceiveClose
<1>7. CASE Leave(p)
  <2>1. HostClose \in UpMsgs
    BY DEF UpMsgs
  <2>2. Append(up[p], HostClose) \in Seq(UpMsgs)
    BY <1>1, <2>1, InAppend
  <2>3. QED
    BY <1>1, <1>7, <2>2, LeftType DEF Leave
<1>8. ASSUME NEW m \in Messages, SendChat(p, m) PROVE Typed'
  <2>1. E2E(m) \in UpMsgs
    BY DEF UpMsgs
  <2>2. Append(up[p], E2E(m)) \in Seq(UpMsgs)
    BY <1>1, <2>1, InAppend
  <2>3. QED
    BY <1>8, <2>2 DEF SendChat, Typed, server
<1>9. ASSUME NEW m \in Messages, Show(p, m) PROVE Typed'
  BY <1>9 DEF Show, Typed, server
<1>10. CASE Handle(p)
  <2>1. up' \in [Pages -> Seq(UpMsgs)]
    <3>1. up[p] # <<>> /\ up' = [up EXCEPT ![p] = Tail(@)]
      BY <1>10, HandleCases
    <3>2. Tail(up[p]) \in Seq(UpMsgs)
      BY <1>1, <3>1, InTail
    <3>3. QED
      BY <3>1, <3>2 DEF Typed
  <2>2. listening' \in BOOLEAN /\ clients' \in SUBSET Pages
    BY <1>10, HandleCases DEF Typed
  <2>3. down' \in [Pages -> Seq(DownMsgs)]
    <3>1. Close \in DownMsgs /\ (\A m \in Messages : E2E(m) \in DownMsgs) /\ State(clients') \in DownMsgs
      BY <2>2 DEF DownMsgs
    <3>2. \/ down' = down \/ down' = Broadcast(Close) \/ down' = Broadcast(State(clients'))
          \/ \E m \in Messages : down' = Broadcast(E2E(m))
      BY <1>10, HandleCases
    <3>3. down \in [Pages -> Seq(DownMsgs)]
      BY DEF Typed
    <3>4. QED
      BY <3>1, <3>2, <3>3, BroadcastType
  <2>4. due' \in [Pages -> SUBSET Messages]
    <3>1. \/ due' = due
          \/ \E m \in Messages :
               due' = [q \in Pages |-> IF q \in Ready THEN due[q] \cup {m} ELSE due[q]]
      BY <1>10, HandleCases
    <3>2. \A m \in Messages, q \in Pages : due[q] \cup {m} \in SUBSET Messages
      BY DEF Typed
    <3>3. due \in [Pages -> SUBSET Messages]
      BY DEF Typed
    <3>4. QED
      BY <3>1, <3>2, <3>3
  <2>5. UNCHANGED <<connected, page, encrypting, decrypting, shown, users, sent>>
    BY <1>10, HandleCases
  <2>6. QED
    BY <2>1, <2>2, <2>3, <2>4, <2>5 DEF Typed
<1>11. CASE Drop(p)
  <2>1. <<>> \in Seq(UpMsgs)
    OBVIOUS
  <2>2. QED
    BY <1>11, <2>1, LeftType DEF Drop
<1>12. CASE HangUp(p)
  <2>1. page' \in [Pages -> {"away", "opening", "open", "closing", "closed"}]
    BY <1>12 DEF HangUp, Typed
  <2>2. /\ UNCHANGED <<listening, connected, clients, up, down>>
        /\ UNCHANGED <<encrypting, decrypting, shown, users, sent, due>>
    BY <1>12 DEF HangUp, server, view
  <2>3. QED
    BY <2>1, <2>2 DEF Typed
<1>13. CASE HandleClosed(p)
  <2>1. State(Remaining(p)) \in DownMsgs
    BY DEF Typed, Remaining, DownMsgs
  <2>2. down' \in [Pages -> Seq(DownMsgs)]
    BY <1>13, <2>1, BroadcastType DEF HandleClosed
  <2>3. QED
    BY <1>13, <2>2 DEF HandleClosed, Typed, view
<1>14. QED
  BY <1>2, <1>3, <1>4, <1>5, <1>6, <1>7, <1>8, <1>9, <1>10, <1>11, <1>12, <1>13
----------------------------------------------------------------------------
(* Who is in the room.                                                     *)

\* A page that announced itself, or is about to, is connected and has opened; one that
\* is open has announced itself; only a page that was given the right token shows it.
Where(p) ==
  /\ Usable(p) => p \in connected
  /\ p \in clients => p \in connected
  /\ p \in clients \/ In(up[p], JoinEvent) => page[p] \notin {"away", "opening"}
  /\ page[p] = "open" => p \in clients \/ In(up[p], JoinEvent)
  /\ In(up[p], Right) => p \in HostPages

\* What a page that leaves had sent stays on its way, or is lost.
LEMMA WhereLeft ==
  ASSUME Typed, NEW p \in Pages, NEW state \in {"closing", "closed"}, NEW last \in Seq(UpMsgs),
         LeftAs(p, state, last), UNCHANGED server,
         \A msg \in {JoinEvent, Right} : In(last, msg) => In(up[p], msg),
         NEW q \in Pages, Where(q)
  PROVE  Where(q)'
<1>1. page'[p] = state /\ up'[p] = last
  BY DEF LeftAs, Typed
<1>2. q # p => page'[q] = page[q] /\ up'[q] = up[q]
  BY DEF LeftAs, Typed
<1>3. UNCHANGED <<connected, clients>>
  BY DEF server
<1>4. CASE q = p
  BY <1>1, <1>3, <1>4 DEF Where, Usable, In
<1>5. CASE q # p
  BY <1>2, <1>3, <1>5 DEF Where, Usable, In
<1>6. QED
  BY <1>4, <1>5

LEMMA WhereStep ==
  ASSUME Typed, Next, \A q \in Pages : Where(q)
  PROVE  \A q \in Pages : Where(q)'
<1> PICK p \in Pages :
      \/ Open(p) \/ Greet(p) \/ Submit(p) \/ Receive(p) \/ ReceiveClose(p) \/ Leave(p)
      \/ \E m \in Messages : SendChat(p, m) \/ Show(p, m)
      \/ Handle(p) \/ Drop(p) \/ HangUp(p) \/ HandleClosed(p)
  BY DEF Next
<1> TAKE q \in Pages
<1>1. Where(q) /\ Where(p) /\ up[p] \in Seq(UpMsgs)
  BY DEF Typed
<1>2. CASE Open(p)
  BY <1>1, <1>2 DEF Open, Typed, Where, Usable, In
<1>3. CASE Greet(p)
  <2>1. /\ In(up[p] \o Greeting(p), JoinEvent)
        /\ In(up[p] \o Greeting(p), Right) => p \in HostPages
    BY <1>1, GreetingFacts, InConcat DEF Where
  <2>2. /\ up'[p] = up[p] \o Greeting(p) /\ page'[p] = "open" /\ page[p] = "opening"
        /\ (q # p => up'[q] = up[q] /\ page'[q] = page[q])
        /\ UNCHANGED <<connected, clients>>
    BY <1>3 DEF Greet, Typed, server
  <2>3. QED
    BY <1>1, <2>1, <2>2 DEF Where, Usable, In
<1>4. CASE Submit(p)
  BY <1>1, <1>4 DEF Submit, Where, Usable, In, server
<1>5. CASE Receive(p)
  BY <1>1, <1>5 DEF Receive, Where, Usable, In, server
<1>6. CASE ReceiveClose(p)
  BY <1>1, <1>6, WhereLeft DEF ReceiveClose
<1>7. CASE Leave(p)
  <2>1. HostClose \in UpMsgs
    BY DEF UpMsgs
  <2>2. /\ Append(up[p], HostClose) \in Seq(UpMsgs)
        /\ \A msg \in {JoinEvent, Right} : In(Append(up[p], HostClose), msg) => In(up[p], msg)
    BY <1>1, <2>1, InAppend, Kinds DEF Auths
  <2>3. QED
    BY <1>1, <1>7, <2>2, WhereLeft DEF Leave
<1>8. ASSUME NEW m \in Messages, SendChat(p, m) PROVE Where(q)'
  <2>1. E2E(m) \in UpMsgs
    BY DEF UpMsgs
  <2>2. \A msg \in {JoinEvent, Right} : In(Append(up[p], E2E(m)), msg) <=> In(up[p], msg)
    BY <1>1, <2>1, InAppend, Kinds DEF Auths
  <2>3. /\ up'[p] = Append(up[p], E2E(m)) /\ (q # p => up'[q] = up[q])
        /\ UNCHANGED <<connected, clients, page>>
    BY <1>8 DEF SendChat, Typed, server
  <2>4. QED
    BY <1>1, <2>2, <2>3 DEF Where, Usable, In
<1>9. ASSUME NEW m \in Messages, Show(p, m) PROVE Where(q)'
  BY <1>1, <1>9 DEF Show, Where, Usable, In, server
<1>10. CASE Handle(p)
  <2>1. /\ p \in connected /\ up[p] # <<>> /\ up'[p] = Tail(up[p]) /\ (q # p => up'[q] = up[q])
        /\ UNCHANGED <<connected, page>>
    BY <1>10, HandleCases DEF Typed
  <2>2. \A msg : In(up[p], msg) <=> In(Tail(up[p]), msg) \/ msg = Head(up[p])
    BY <1>1, <2>1, InTail
  <2>3. \/ Head(up[p]) # JoinEvent /\ clients' = clients
        \/ Head(up[p]) = JoinEvent /\ clients' = clients \cup {p}
    <3>1. JoinEvent \notin Auths /\ JoinEvent # HostClose /\ \A m : JoinEvent # E2E(m)
      BY Kinds
    <3>2. QED
      BY <1>10, <3>1, HandleCases
  <2>4. CASE q = p
    <3>1. In(up'[p], Right) => In(up[p], Right)
      BY <2>1, <2>2
    <3>2. /\ p \in clients' \/ In(up'[p], JoinEvent) <=> p \in clients \/ In(up[p], JoinEvent)
          /\ p \in clients' => p \in connected
      BY <1>1, <2>1, <2>2, <2>3 DEF Where
    <3>3. QED
      BY <1>1, <2>1, <2>4, <3>1, <3>2 DEF Where, Usable, In
  <2>5. CASE q # p
    BY <1>1, <2>1, <2>3, <2>5 DEF Where, Usable, In
  <2>6. QED
    BY <2>4, <2>5
<1>11. CASE Drop(p)
  <2>1. <<>> \in Seq(UpMsgs)
    OBVIOUS
  <2>2. QED
    BY <1>1, <1>11, <2>1, WhereLeft, InEmpty DEF Drop
<1>12. CASE HangUp(p)
  <2>1. /\ page'[p] = "closed" /\ (q # p => page'[q] = page[q])
        /\ UNCHANGED <<connected, clients, up>>
    BY <1>12 DEF HangUp, Typed, server
  <2>2. CASE q = p
    BY <1>1, <1>12, <2>1, <2>2 DEF HangUp, Where, Usable, In
  <2>3. CASE q # p
    BY <1>1, <2>1, <2>3 DEF Where, Usable, In
  <2>4. QED
    BY <2>2, <2>3
<1>13. CASE HandleClosed(p)
  <2>1. /\ page[p] = "closed" /\ connected' = connected \ {p} /\ clients' = clients \ {p}
        /\ UNCHANGED <<page, up>>
    BY <1>13 DEF HandleClosed
  <2>2. CASE q = p
    BY <1>1, <2>1, <2>2 DEF Where, Usable, In
  <2>3. CASE q # p
    BY <1>1, <2>1, <2>3 DEF Where, Usable, In
  <2>4. QED
    BY <2>2, <2>3
<1>14. QED
  BY <1>2, <1>3, <1>4, <1>5, <1>6, <1>7, <1>8, <1>9, <1>10, <1>11, <1>12, <1>13

----------------------------------------------------------------------------
(* Who closes the room.                                                    *)

Closer ==
  /\ isHost \subseteq HostPages
  /\ closer \in HostPages \cup {Nobody}
  /\ ~listening => closer \in HostPages

LEMMA CloserStep ==
  ASSUME Typed, Next, \A q \in Pages : Where(q), Closer
  PROVE  Closer'
<1> PICK p \in Pages :
      \/ Open(p) \/ Greet(p) \/ Submit(p) \/ Receive(p) \/ ReceiveClose(p) \/ Leave(p)
      \/ \E m \in Messages : SendChat(p, m) \/ Show(p, m)
      \/ Handle(p) \/ Drop(p) \/ HangUp(p) \/ HandleClosed(p)
  BY DEF Next
<1>1. CASE UNCHANGED <<listening, isHost, closer>>
  BY <1>1 DEF Closer
<1>2. CASE Handle(p)
  <2>1. up[p] \in Seq(UpMsgs) /\ up[p] # <<>>
    BY <1>2, HandleCases DEF Typed
  <2>2. CASE Head(up[p]) = Right
    <3>1. p \in HostPages
      BY <2>1, <2>2, InTail DEF Where
    <3>2. Right \notin {HostClose, JoinEvent} \cup {E2E(m) : m \in Messages}
      BY Kinds DEF Auths
    <3>3. isHost' = isHost \cup {p} /\ UNCHANGED <<listening, closer>>
      BY <1>2, <2>2, <3>2, HandleCases
    <3>4. QED
      BY <3>1, <3>3 DEF Closer
  <2>3. CASE UNCHANGED <<listening, isHost, closer>>
    BY <2>3 DEF Closer
  <2>4. CASE /\ p \in isHost /\ isHost' = isHost
             /\ closer' = (IF closer = Nobody THEN p ELSE closer)
    BY <2>4 DEF Closer
  <2>5. QED
    BY <1>2, <2>2, <2>3, <2>4, HandleCases
<1>3. CASE HandleClosed(p)
  BY <1>3 DEF HandleClosed, Closer
<1>4. CASE Open(p) \/ Greet(p) \/ Submit(p) \/ Receive(p) \/ ReceiveClose(p) \/ Leave(p)
  BY <1>1, <1>4 DEF Open, Greet, Submit, Receive, ReceiveClose, Leave, server
<1>5. CASE (\E m \in Messages : SendChat(p, m) \/ Show(p, m)) \/ Drop(p) \/ HangUp(p)
  BY <1>1, <1>5 DEF SendChat, Show, Drop, HangUp, server
<1>6. QED
  BY <1>2, <1>3, <1>4, <1>5

----------------------------------------------------------------------------
(* What the pages show.                                                    *)

\* The server has had for p exactly the messages that p shows, decrypts or is sent.
Delivered(p) ==
  \A m \in Messages :
    m \in due[p] <=> m \in shown[p] \/ m \in decrypting[p] \/ In(down[p], E2E(m))

LEMMA DeliveredLeft ==
  ASSUME Typed, NEW p \in Pages, NEW state, NEW last, LeftAs(p, state, last),
         NEW q \in Pages, Delivered(q)
  PROVE  Delivered(q)'
<1>1. CASE q = p
  <2>1. due'[p] = {} /\ shown'[p] = {} /\ decrypting'[p] = {} /\ down'[p] = <<>>
    BY DEF LeftAs, Typed
  <2>2. QED
    BY <1>1, <2>1, InEmpty DEF Delivered
<1>2. CASE q # p
  <2>1. /\ due'[q] = due[q] /\ shown'[q] = shown[q]
        /\ decrypting'[q] = decrypting[q] /\ down'[q] = down[q]
    BY <1>2 DEF LeftAs, Typed
  <2>2. QED
    BY <2>1 DEF Delivered, In
<1>3. QED
  BY <1>1, <1>2

\* A broadcast of anything but a message leaves the messages on their way as they are.
LEMMA DeliveredBroadcast ==
  ASSUME Typed, NEW msg \in DownMsgs, \A m \in Messages : msg # E2E(m),
         down' = Broadcast(msg), UNCHANGED <<due, shown, decrypting>>,
         NEW q \in Pages, Delivered(q)
  PROVE  Delivered(q)'
<1>1. down'[q] = IF q \in Ready THEN Append(down[q], msg) ELSE down[q]
  BY BroadcastType
<1>2. down[q] \in Seq(DownMsgs)
  BY DEF Typed
<1>3. \A m \in Messages : In(down'[q], E2E(m)) <=> In(down[q], E2E(m))
  BY <1>1, <1>2, InAppend
<1>4. QED
  BY <1>3 DEF Delivered, In

LEMMA DeliveredStep ==
  ASSUME Typed, Next, \A q \in Pages : Delivered(q)
  PROVE  \A q \in Pages : Delivered(q)'
<1> PICK p \in Pages :
      \/ Open(p) \/ Greet(p) \/ Submit(p) \/ Receive(p) \/ ReceiveClose(p) \/ Leave(p)
      \/ \E m \in Messages : SendChat(p, m) \/ Show(p, m)
      \/ Handle(p) \/ Drop(p) \/ HangUp(p) \/ HandleClosed(p)
  BY DEF Next
<1> TAKE q \in Pages
<1>1. Delivered(q) /\ Delivered(p) /\ down[p] \in Seq(DownMsgs) /\ down[q] \in Seq(DownMsgs)
  BY DEF Typed
<1>2. CASE UNCHANGED <<due, shown, decrypting, down>>
  BY <1>1, <1>2 DEF Delivered, In
<1>3. CASE Receive(p)
  <2>1. /\ down[p] # <<>> /\ Head(down[p]) # Close
        /\ down'[p] = Tail(down[p]) /\ (q # p => down'[q] = down[q])
        /\ UNCHANGED <<due, shown>>
    BY <1>3 DEF Receive, Typed
  <2>2. /\ Head(down[p]) \in DownMsgs
        /\ \A msg : In(down[p], msg) <=> In(Tail(down[p]), msg) \/ msg = Head(down[p])
    BY <1>1, <2>1, InTail
  <2>3. CASE q = p
    <3>1. CASE Head(down[p]).type = "state" /\ decrypting' = decrypting
      <4>1. \A m \in Messages : Head(down[p]) # E2E(m)
        BY <3>1, Kinds
      <4>2. \A n \in Messages : In(down'[p], E2E(n)) <=> In(down[p], E2E(n))
        BY <2>1, <2>2, <4>1
      <4>3. QED
        BY <1>1, <2>1, <2>3, <3>1, <4>2 DEF Delivered, In
    <3>2. CASE /\ Head(down[p]).type = "e2e"
               /\ decrypting' = [decrypting EXCEPT ![p] = @ \cup {Head(down[p]).payload}]
      <4>1. PICK m \in Messages : Head(down[p]) = E2E(m)
        BY <2>1, <2>2, <3>2, Kinds DEF DownMsgs
      <4>2. decrypting'[p] = decrypting[p] \cup {m}
        BY <3>2, <4>1, Kinds DEF Typed
      <4>3. \A n \in Messages : In(down[p], E2E(n)) <=> In(Tail(down[p]), E2E(n)) \/ n = m
        BY <2>2, <4>1, Kinds
      <4>4. \A n \in Messages :
              n \in due'[p] <=> n \in shown'[p] \/ n \in decrypting'[p] \/ In(down'[p], E2E(n))
        BY <1>1, <2>1, <4>2, <4>3 DEF Delivered
      <4>5. QED
        BY <2>3, <4>4 DEF Delivered, In
    <3>3. QED
      BY <1>3, <3>1, <3>2 DEF Receive
  <2>4. CASE q # p
    <3>1. decrypting'[q] = decrypting[q]
      BY <1>3, <2>4 DEF Receive, Typed
    <3>2. QED
      BY <1>1, <2>1, <2>4, <3>1 DEF Delivered, In
  <2>5. QED
    BY <2>3, <2>4
<1>4. ASSUME NEW m \in Messages, Show(p, m) PROVE Delivered(q)'
  <2>1. /\ m \in decrypting[p]
        /\ decrypting'[p] = decrypting[p] \ {m} /\ shown'[p] = shown[p] \cup {m}
        /\ (q # p => decrypting'[q] = decrypting[q] /\ shown'[q] = shown[q])
        /\ UNCHANGED <<due, down>>
    BY <1>4 DEF Show, Typed
  <2>2. QED
    BY <1>1, <2>1 DEF Delivered, In
<1>5. CASE Handle(p)
  <2>1. UNCHANGED <<shown, decrypting>> /\ (clients' \in SUBSET Pages)
    BY <1>5, HandleCases DEF Typed
  <2>2. Close \in DownMsgs /\ State(clients') \in DownMsgs
    BY <2>1 DEF DownMsgs
  <2>3. ASSUME NEW m \in Messages, down' = Broadcast(E2E(m)),
               due' = [r \in Pages |-> IF r \in Ready THEN due[r] \cup {m} ELSE due[r]]
        PROVE  Delivered(q)'
    <3>1. E2E(m) \in DownMsgs
      BY DEF DownMsgs
    <3>2. /\ down'[q] = IF q \in Ready THEN Append(down[q], E2E(m)) ELSE down[q]
          /\ due'[q] = IF q \in Ready THEN due[q] \cup {m} ELSE due[q]
      BY <2>3, <3>1, BroadcastType
    <3>3. \A n \in Messages : In(Append(down[q], E2E(m)), E2E(n)) <=> In(down[q], E2E(n)) \/ n = m
      BY <1>1, <3>1, InAppend, Kinds
    <3>4. QED
      BY <1>1, <2>1, <3>2, <3>3 DEF Delivered, In
  <2>4. CASE down' = Broadcast(Close) /\ due' = due
    BY <1>1, <2>1, <2>2, <2>4, DeliveredBroadcast, Kinds
  <2>5. CASE down' = Broadcast(State(clients')) /\ due' = due
    BY <1>1, <2>1, <2>2, <2>5, DeliveredBroadcast, Kinds
  <2>6. QED
    BY <1>2, <1>5, <2>1, <2>3, <2>4, <2>5, HandleCases
<1>6. CASE HandleClosed(p)
  <2>1. State(Remaining(p)) \in DownMsgs
    BY DEF Typed, Remaining, DownMsgs
  <2>2. down' = Broadcast(State(Remaining(p))) /\ UNCHANGED <<due, shown, decrypting>>
    BY <1>6 DEF HandleClosed, view
  <2>3. QED
    BY <1>1, <2>1, <2>2, DeliveredBroadcast, Kinds
<1>7. CASE ReceiveClose(p) \/ Leave(p) \/ Drop(p)
  BY <1>1, <1>7, DeliveredLeft DEF ReceiveClose, Leave, Drop
<1>8. CASE Open(p) \/ Greet(p) \/ Submit(p) \/ HangUp(p)
  BY <1>2, <1>8 DEF Open, Greet, Submit, HangUp, view
<1>9. ASSUME NEW m \in Messages, SendChat(p, m) PROVE Delivered(q)'
  BY <1>2, <1>9 DEF SendChat
<1>10. QED
  BY <1>3, <1>4, <1>5, <1>6, <1>7, <1>8, <1>9
\* A page in the room has been sent the names of all who are in it, after any other list.
Seen(p) == Usable(p) /\ p \in clients => Latest(down[p], users[p], clients)

LEMMA SeenLeft ==
  ASSUME Typed, NEW p \in Pages, NEW state \in {"closing", "closed"}, NEW last,
         LeftAs(p, state, last), UNCHANGED server, NEW q \in Pages, Seen(q)
  PROVE  Seen(q)'
<1>1. page'[p] = state /\ clients' = clients
  BY DEF LeftAs, Typed, server
<1>2. q # p => page'[q] = page[q] /\ down'[q] = down[q] /\ users'[q] = users[q]
  BY DEF LeftAs, Typed
<1>3. QED
  BY <1>1, <1>2 DEF Seen, Usable, Latest

\* A broadcast of anything but a list of names changes no sidebar.
LEMMA SeenBroadcast ==
  ASSUME Typed, NEW msg \in DownMsgs, msg.type # "state",
         down' = Broadcast(msg), UNCHANGED <<clients, page, users>>,
         NEW q \in Pages, Seen(q)
  PROVE  Seen(q)'
<1>1. down'[q] = IF q \in Ready THEN Append(down[q], msg) ELSE down[q]
  BY BroadcastType
<1>2. down[q] \in Seq(DownMsgs)
  BY DEF Typed
<1>3. Latest(down[q], users[q], clients) => Latest(down'[q], users[q], clients)
  BY <1>1, <1>2, LatestOther
<1>4. QED
  BY <1>3 DEF Seen, Usable, Latest

\* Whoever is connected receives a new list of names.
LEMMA SeenState ==
  ASSUME Typed, clients' \in SUBSET Pages, down' = Broadcast(State(clients')),
         UNCHANGED <<page, users>>, \A q \in Pages : Where(q), NEW q \in Pages
  PROVE  Seen(q)'
<1>1. State(clients') \in DownMsgs
  BY DEF DownMsgs
<1>2. down'[q] = IF q \in Ready THEN Append(down[q], State(clients')) ELSE down[q]
  BY <1>1, BroadcastType
<1>3. SUFFICES ASSUME Usable(q)' PROVE Latest(down'[q], users'[q], clients')
  BY DEF Seen
<1>4. q \in Ready
  BY <1>3 DEF Ready, Usable, Where
<1>5. down[q] \in Seq(DownMsgs)
  BY DEF Typed
<1>6. Latest(Append(down[q], State(clients')), users[q], clients')
  BY <1>5, LatestState
<1>7. QED
  BY <1>2, <1>4, <1>6

LEMMA SeenStep ==
  ASSUME Typed, Next, \A q \in Pages : Where(q), \A q \in Pages : Seen(q)
  PROVE  \A q \in Pages : Seen(q)'
<1> PICK p \in Pages :
      \/ Open(p) \/ Greet(p) \/ Submit(p) \/ Receive(p) \/ ReceiveClose(p) \/ Leave(p)
      \/ \E m \in Messages : SendChat(p, m) \/ Show(p, m)
      \/ Handle(p) \/ Drop(p) \/ HangUp(p) \/ HandleClosed(p)
  BY DEF Next
<1> TAKE q \in Pages
<1>1. Seen(q) /\ Where(q) /\ Where(p) /\ down[p] \in Seq(DownMsgs)
  BY DEF Typed
<1>2. CASE UNCHANGED <<down, users, clients>> /\ (page'[q] = page[q] \/ q \notin clients \/ ~Usable(q)')
  BY <1>1, <1>2 DEF Seen, Usable, Latest
<1>3. CASE Open(p)
  <2>1. page[p] = "away" /\ (q # p => page'[q] = page[q]) /\ UNCHANGED <<down, users, clients>>
    BY <1>3 DEF Open, Typed
  <2>2. QED
    BY <1>1, <1>2, <2>1 DEF Where
<1>4. CASE Greet(p)
  <2>1. page[p] = "opening" /\ (q # p => page'[q] = page[q]) /\ UNCHANGED <<down, users, clients>>
    BY <1>4 DEF Greet, Typed, server
  <2>2. QED
    BY <1>1, <1>2, <2>1 DEF Where
<1>5. CASE Receive(p)
  <2>1. /\ down[p] # <<>> /\ Head(down[p]) # Close
        /\ down'[p] = Tail(down[p]) /\ (q # p => down'[q] = down[q])
        /\ UNCHANGED <<page, clients>>
    BY <1>5 DEF Receive, Typed, server
  <2>2. Head(down[p]) \in DownMsgs
    BY <1>1, <2>1, InTail
  <2>3. CASE q = p
    <3>1. IF Head(down[p]).type = "state" THEN Head(down[p]) = State(users'[p]) ELSE users'[p] = users[p]
      <4>1. CASE /\ Head(down[p]).type = "state"
                 /\ users' = [users EXCEPT ![p] = Head(down[p]).users]
        <5>1. PICK u \in SUBSET Pages : Head(down[p]) = State(u)
          BY <2>1, <2>2, <4>1, Kinds DEF DownMsgs
        <5>2. users'[p] = u
          BY <4>1, <5>1, Kinds DEF Typed
        <5>3. QED
          BY <4>1, <5>1, <5>2
      <4>2. CASE Head(down[p]).type = "e2e" /\ users' = users
        BY <4>2
      <4>3. QED
        BY <1>5, <4>1, <4>2 DEF Receive
    <3>2. Latest(down[p], users[p], clients) => Latest(Tail(down[p]), users'[p], clients)
      BY <1>1, <2>1, <3>1, LatestTail
    <3>3. QED
      BY <1>1, <2>1, <2>3, <3>2 DEF Seen, Usable
  <2>4. CASE q # p
    <3>1. users'[q] = users[q]
      BY <1>5, <2>4 DEF Receive, Typed
    <3>2. QED
      BY <1>1, <2>1, <2>4, <3>1 DEF Seen, Usable, Latest
  <2>5. QED
    BY <2>3, <2>4
<1>6. CASE Handle(p)
  <2>1. UNCHANGED <<users, page>> /\ (clients' \in SUBSET Pages)
    BY <1>6, HandleCases DEF Typed
  <2>2. CASE down' = Broadcast(Close) /\ clients' = clients
    <3>1. Close \in DownMsgs
      BY DEF DownMsgs
    <3>2. QED
      BY <1>1, <2>1, <2>2, <3>1, SeenBroadcast, Kinds
  <2>3. CASE down' = Broadcast(State(clients'))
    BY <2>1, <2>3, SeenState
  <2>4. ASSUME NEW m \in Messages, down' = Broadcast(E2E(m)), clients' = clients PROVE Seen(q)'
    <3>1. E2E(m) \in DownMsgs
      BY DEF DownMsgs
    <3>2. QED
      BY <1>1, <2>1, <2>4, <3>1, SeenBroadcast, Kinds
  <2>5. CASE UNCHANGED <<down, clients>>
    BY <1>2, <2>1, <2>5
  <2>6. QED
    BY <1>6, <2>2, <2>3, <2>4, <2>5, HandleCases
<1>7. CASE HandleClosed(p)
  <2>1. /\ clients' = clients \ {p} /\ down' = Broadcast(State(clients \ {p}))
        /\ UNCHANGED <<page, users>>
    BY <1>7 DEF HandleClosed, Remaining, view
  <2>2. clients' \in SUBSET Pages
    BY <2>1 DEF Typed
  <2>3. QED
    BY <2>1, <2>2, SeenState
<1>8. CASE ReceiveClose(p) \/ Leave(p) \/ Drop(p)
  BY <1>1, <1>8, SeenLeft DEF ReceiveClose, Leave, Drop
<1>9. CASE Submit(p) \/ \E m \in Messages : SendChat(p, m) \/ Show(p, m)
  BY <1>2, <1>9 DEF Submit, SendChat, Show, server
<1>10. CASE HangUp(p)
  <2>1. page'[p] = "closed" /\ (q # p => page'[q] = page[q]) /\ UNCHANGED <<down, users, clients>>
    BY <1>10 DEF HangUp, Typed, server, view
  <2>2. QED
    BY <1>2, <2>1 DEF Usable
<1>11. QED
  BY <1>3, <1>4, <1>5, <1>6, <1>7, <1>8, <1>9, <1>10

----------------------------------------------------------------------------
(* What becomes of a page's own words.                                     *)

\* What the user of p has said is being encrypted, on its way to the server, had by
\* the server for p too, or too long.
Own(p) ==
  /\ page[p] = "away" => sent[p] = 0
  /\ Usable(p) =>
       \A k \in 0..sent[p] : \/ <<p, k>> \in encrypting[p] \cup due[p] \cup Oversized
                            \/ In(up[p], E2E(<<p, k>>))

LEMMA OwnSame ==
  ASSUME NEW q \in Pages, Own(q), UNCHANGED <<sent[q], encrypting[q], up[q]>>, due[q] \subseteq due'[q],
         Usable(q)' => Usable(q), page'[q] = "away" => page[q] = "away"
  PROVE  Own(q)'
BY DEF Own, In

LEMMA OwnStep ==
  ASSUME Typed, Next, \A q \in Pages : Own(q)
  PROVE  \A q \in Pages : Own(q)'
<1> PICK p \in Pages :
      \/ Open(p) \/ Greet(p) \/ Submit(p) \/ Receive(p) \/ ReceiveClose(p) \/ Leave(p)
      \/ \E m \in Messages : SendChat(p, m) \/ Show(p, m)
      \/ Handle(p) \/ Drop(p) \/ HangUp(p) \/ HandleClosed(p)
  BY DEF Next
<1> TAKE q \in Pages
<1>1. Own(q) /\ Own(p) /\ up[p] \in Seq(UpMsgs) /\ sent[p] \in Nat
  BY Numbers DEF Typed
<1>2. CASE q # p
  <2>1. UNCHANGED <<sent[q], encrypting[q], up[q], page[q]>>
    BY <1>2 DEF Typed, Open, Greet, Submit, Receive, ReceiveClose, Leave, SendChat, Show, Handle, Drop,
                HangUp, HandleClosed, LeftAs, server, view
  <2>2. due[q] \subseteq due'[q]
    <3>1. CASE Handle(p)
      BY <3>1, HandleCases
    <3>2. CASE ReceiveClose(p) \/ Leave(p) \/ Drop(p)
      BY <1>2, <3>2 DEF ReceiveClose, Leave, Drop, LeftAs, Typed
    <3>3. CASE /\ ~Handle(p)
               /\ ~(ReceiveClose(p) \/ Leave(p) \/ Drop(p))
      BY <3>3 DEF Open, Greet, Submit, Receive, SendChat, Show, HangUp, HandleClosed
    <3>4. QED
      BY <3>1, <3>2, <3>3
  <2>3. QED
    BY <1>1, <2>1, <2>2, OwnSame DEF Usable
<1>3. CASE q = p /\ (ReceiveClose(p) \/ Leave(p) \/ Drop(p) \/ HangUp(p))
  <2>1. page'[p] \in {"closing", "closed"}
    BY <1>3 DEF ReceiveClose, Leave, Drop, HangUp, LeftAs, Typed
  <2>2. QED
    BY <1>3, <2>1 DEF Own, Usable
<1>4. CASE q = p /\ (Receive(p) \/ HandleClosed(p) \/ \E m \in Messages : Show(p, m))
  <2>1. UNCHANGED <<sent, encrypting, up, due, page>>
    BY <1>4 DEF Receive, HandleClosed, Show, view
  <2>2. QED
    BY <1>1, <1>4, <2>1, OwnSame DEF Usable
<1>5. CASE q = p /\ Open(p)
  <2>1. sent'[p] = 0 /\ page'[p] = "opening" /\ encrypting'[p] = {<<p, 0>>}
    BY <1>1, <1>5 DEF Open, Own, Typed
  <2>2. QED
    BY <1>5, <2>1 DEF Own
<1>6. CASE q = p /\ Greet(p)
  <2>1. Greeting(p) \in Seq(UpMsgs) /\ In(Greeting(p), E2E(<<p, 0>>))
    BY GreetingFacts
  <2>2. \A msg : In(up[p] \o Greeting(p), msg) <=> In(up[p], msg) \/ In(Greeting(p), msg)
    BY <1>1, <2>1, InConcat
  <2>3. /\ UNCHANGED <<sent, due>> /\ Usable(p) /\ page'[p] = "open"
        /\ encrypting'[p] = encrypting[p] \ {<<p, 0>>} /\ up'[p] = up[p] \o Greeting(p)
    BY <1>6 DEF Greet, Typed, Usable
  <2>4. \A k \in 0..sent[p] : k # 0 => <<p, k>> # <<p, 0>>
    OBVIOUS
  <2>5. ASSUME NEW k \in 0..sent[p]
        PROVE  <<p, k>> \in encrypting'[p] \cup due'[p] \cup Oversized \/ In(up'[p], E2E(<<p, k>>))
    BY <1>1, <2>1, <2>2, <2>3, <2>4 DEF Own
  <2>6. QED
    BY <1>6, <2>3, <2>5 DEF Own, In
<1>7. CASE q = p /\ Submit(p)
  <2>1. /\ Usable(p) /\ UNCHANGED <<page, up, due>> /\ sent'[p] = sent[p] + 1
        /\ encrypting'[p] = encrypting[p] \cup {<<p, sent[p] + 1>>}
    BY <1>7 DEF Submit, Typed
  <2>2. \A k \in 0..sent'[p] : k \in 0..sent[p] \/ k = sent[p] + 1
    BY <1>1, <2>1
  <2>3. QED
    BY <1>1, <1>7, <2>1, <2>2 DEF Own, Usable, In
<1>8. ASSUME q = p, NEW m \in Messages, SendChat(p, m) PROVE Own(q)'
  <2>1. /\ UNCHANGED <<page, due, sent>> /\ up'[p] = Append(up[p], E2E(m))
        /\ encrypting'[p] = encrypting[p] \ {m}
    BY <1>8 DEF SendChat, Typed
  <2>2. E2E(m) \in UpMsgs
    BY DEF UpMsgs
  <2>3. \A msg : In(Append(up[p], E2E(m)), msg) <=> In(up[p], msg) \/ msg = E2E(m)
    BY <1>1, <2>2, InAppend
  <2>4. ASSUME Usable(p)', NEW k \in 0..sent'[p]
        PROVE  <<p, k>> \in encrypting'[p] \cup due'[p] \cup Oversized \/ In(up'[p], E2E(<<p, k>>))
    BY <1>1, <2>1, <2>3, <2>4 DEF Own, Usable
  <2>5. QED
    BY <1>1, <1>8, <2>1, <2>4 DEF Own, In
<1>9. CASE q = p /\ Handle(p)
  <2>1. /\ UNCHANGED <<page, sent, encrypting>> /\ up'[p] = Tail(up[p]) /\ up[p] # <<>>
        /\ p \in connected
    BY <1>9, HandleCases DEF Typed
  <2>2. \A msg : In(up[p], msg) <=> In(Tail(up[p]), msg) \/ msg = Head(up[p])
    BY <1>1, <2>1, InTail
  <2>3. due[p] \subseteq due'[p]
    BY <1>9, HandleCases
  <2>4. ASSUME Usable(p), NEW m \in Messages, Head(up[p]) = E2E(m) PROVE m \in due'[p] \cup Oversized
    <3>1. p \in Ready
      BY <2>1, <2>4 DEF Ready
    <3>2. \/ m \in Oversized
          \/ due' = [r \in Pages |-> IF r \in Ready THEN due[r] \cup {m} ELSE due[r]]
      <4>1. E2E(m) \notin Auths /\ E2E(m) \notin {JoinEvent, HostClose} /\ \A n : E2E(m) = E2E(n) => m = n
        BY Kinds
      <4>2. QED
        BY <1>9, <2>4, <4>1, HandleCases
    <3>3. QED
      BY <3>1, <3>2
  <2>5. ASSUME Usable(p)', NEW k \in 0..sent'[p]
        PROVE  <<p, k>> \in encrypting'[p] \cup due'[p] \cup Oversized \/ In(up'[p], E2E(<<p, k>>))
    <3>1. Usable(p) /\ k \in 0..sent[p] /\ <<p, k>> \in Messages
      BY <2>1, <2>5, Numbers DEF Typed, Usable, Messages
    <3>2. <<p, k>> \in encrypting[p] \cup due[p] \cup Oversized \/ In(up[p], E2E(<<p, k>>))
      BY <1>1, <3>1 DEF Own
    <3>3. CASE Head(up[p]) = E2E(<<p, k>>)
      BY <2>4, <3>1, <3>3
    <3>4. CASE Head(up[p]) # E2E(<<p, k>>)
      BY <2>1, <2>2, <2>3, <3>2, <3>4
    <3>5. QED
      BY <3>3, <3>4
  <2>6. QED
    BY <1>1, <1>9, <2>1, <2>5 DEF Own, In
<1>10. QED
  BY <1>2, <1>3, <1>4, <1>5, <1>6, <1>7, <1>8, <1>9

----------------------------------------------------------------------------
(* The theorems.                                                           *)

IInv == /\ Typed /\ Closer
        /\ \A p \in Pages : Where(p) /\ Delivered(p) /\ Seen(p) /\ Own(p)

LEMMA Initially == Init => IInv
<1> SUFFICES ASSUME Init PROVE IInv
  OBVIOUS
<1>1. Typed
  <2>1. /\ page \in [Pages -> {"away", "opening", "open", "closing", "closed"}]
        /\ up \in [Pages -> Seq(UpMsgs)] /\ down \in [Pages -> Seq(DownMsgs)]
    BY DEF Init, Everywhere
  <2>2. /\ encrypting \in [Pages -> SUBSET Messages] /\ decrypting \in [Pages -> SUBSET Messages]
        /\ shown \in [Pages -> SUBSET Messages] /\ due \in [Pages -> SUBSET Messages]
        /\ users \in [Pages -> SUBSET Pages]
    BY DEF Init, Everywhere
  <2>3. sent \in [Pages -> 0..MaxSent]
    BY Numbers DEF Init, Everywhere
  <2>4. QED
    BY <2>1, <2>2, <2>3 DEF Init, Typed
<1>2. Closer
  BY DEF Init, Closer
<1>3. ASSUME NEW p \in Pages PROVE Where(p) /\ Delivered(p) /\ Seen(p) /\ Own(p)
  <2>1. /\ page[p] = "away" /\ up[p] = <<>> /\ down[p] = <<>> /\ clients = {}
        /\ due[p] = {} /\ shown[p] = {} /\ decrypting[p] = {} /\ sent[p] = 0
    BY DEF Init, Everywhere
  <2>2. QED
    BY <2>1, InEmpty DEF Where, Delivered, Seen, Own, Usable
<1>4. QED
  BY <1>1, <1>2, <1>3 DEF IInv

LEMMA Inductive == IInv /\ [Next]_vars => IInv'
<1> SUFFICES ASSUME IInv, [Next]_vars PROVE IInv'
  OBVIOUS
<1>1. CASE Next
  BY <1>1, TypedStep, CloserStep, WhereStep, DeliveredStep, SeenStep, OwnStep DEF IInv
<1>2. CASE UNCHANGED vars
  BY <1>2 DEF IInv, Typed, Closer, Where, Delivered, Seen, Own, Usable, Latest, In, vars, server, view
<1>3. QED
  BY <1>1, <1>2

LEMMA Invariance == Spec => []IInv
BY Initially, Inductive, PTL DEF Spec

\* The types of the server's maps and of what the pages keep; whoever has a name in the
\* room still has a connection, and a host page is one that was given the token.
THEOREM Types == Spec => []TypeOK
<1>1. IInv => TypeOK
  <2>1. Pages \cap HostPages = HostPages
    BY Numbers
  <2>2. QED
    BY <2>1 DEF IInv, Typed, Closer, Where, TypeOK
<1>2. QED
  BY <1>1, Invariance, PTL

\* The room is closed only by a page that was given the separate host capability,
\* however many pages on the host's machine ask for it, and whatever they sent before.
THEOREM ClosedByCapability == Spec => []ClosedByHost
<1>1. IInv => ClosedByHost
  BY DEF IInv, Closer, ClosedByHost
<1>2. QED
  BY <1>1, Invariance, PTL

\* No message is lost between a page, the server's relay and the pages: when nothing
\* is on its way, a page shows what the server relayed while it was connected, and all
\* that its own user said and the server did not find too long.
THEOREM Shown == Spec => []EverythingShown
<1>1. IInv => EverythingShown
  <2> SUFFICES ASSUME IInv, Quiet, NEW p \in Pages, page[p] = "open"
               PROVE  /\ shown[p] = due[p]
                      /\ {<<p, k>> : k \in 0..sent[p]} \subseteq shown[p] \cup Oversized
    BY DEF EverythingShown
  <2>1. down[p] = <<>> /\ decrypting[p] = {} /\ up[p] = <<>> /\ encrypting[p] = {}
    BY DEF Quiet, Usable
  <2>2. \A m \in Messages : m \in due[p] <=> m \in shown[p]
    BY <2>1, InEmpty DEF IInv, Delivered
  <2>3. due[p] \subseteq Messages /\ shown[p] \subseteq Messages
    BY DEF IInv, Typed
  <2>4. \A k \in 0..sent[p] : <<p, k>> \in due[p] \cup Oversized
    BY <2>1, InEmpty DEF IInv, Own, Usable
  <2>5. QED
    BY <2>2, <2>3, <2>4
<1>2. QED
  BY <1>1, Invariance, PTL

\* The sidebars agree: whatever the order in which pages announce themselves and leave,
\* the list a page received last names exactly those who are in the room.
THEOREM Sidebars == Spec => []SidebarsAgree
<1>1. IInv => SidebarsAgree
  <2> SUFFICES ASSUME IInv, Quiet, NEW p \in Pages, page[p] = "open"
               PROVE  users[p] = {q \in Pages : page[q] = "open"}
    BY DEF SidebarsAgree
  <2>1. ASSUME NEW q \in Pages PROVE q \in clients <=> page[q] = "open"
    <3>1. up[q] = <<>> /\ page[q] # "closing" /\ (page[q] = "closed" => q \notin connected)
      BY DEF Quiet
    <3>2. Where(q) /\ page[q] \in {"away", "opening", "open", "closing", "closed"}
      BY DEF IInv, Typed
    <3>3. QED
      BY <3>1, <3>2, InEmpty DEF Where
  <2>2. down[p] = <<>>
    BY DEF Quiet, Usable
  <2>3. Latest(<<>>, users[p], clients)
    BY <2>1, <2>2 DEF IInv, Seen, Usable
  <2>4. users[p] = clients
    BY <2>3 DEF Latest
  <2>5. clients \subseteq Pages
    BY DEF IInv, Typed
  <2>6. QED
    BY <2>1, <2>4, <2>5
<1>2. QED
  BY <1>1, Invariance, PTL
=============================================================================
