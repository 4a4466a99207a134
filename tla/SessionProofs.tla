--------------------------- MODULE SessionProofs ---------------------------
(***************************************************************************)
(* Theorems about the process of a host, for every number of chats,        *)
(* children and operations, and about the logs that processes keep, for    *)
(* every number of processes and lines.                                    *)
(***************************************************************************)
EXTENDS HostSession, SessionLog, TLAPS

----------------------------------------------------------------------------
(* The host process: its tunnels, its calls to the broker, its end.        *)

\* A child that runs is the one its loop waits for; only the dashboard has chats, and it
\* opens with a token.
Supervised ==
  /\ \A s \in Tunnels :
       /\ active[s] <= spawned
       /\ IF loop[s] = "running" THEN active[s] # 0 ELSE active[s] \notin alive
  /\ phase = "dashboard" \/ chatTunnel # "session" \/ (\E s \in Chats : loop[s] # "unborn")
       \/ revokeOnExit => hostToken # 0
  /\ calls # {} \/ hostToken # 0 => tunnelUrl # 0
  /\ \A c \in Registrations : c.url # 0 /\ c.token # 0

Shaped == TypeOK /\ Supervised

LEMMA SessionNumbers ==
  /\ MaxSpawns \in Nat /\ MaxMenu \in Nat /\ MaxLosses \in Nat /\ "session" \notin Chats
  /\ "session" \in Tunnels /\ Chats \subseteq Tunnels
  /\ None = 0 /\ NoChat = "session"
BY HostAssumption DEF HostAssumption, Tunnels, None, NoChat

\* A call goes on its way: to the broker, there, or nowhere.
LEMMA CallsShaped ==
  ASSUME Shaped, NEW c \in calls,
         \/ Send(c) \/ AnswerRegister(c) \/ AnswerRevoke(c) \/ Lose(c)
  PROVE  Shaped'
<1>1. /\ UNCHANGED <<loop, active, announced, stop, spawned, alive, tracked, tunnelUrl,
                     hostToken, chatUrl, chatTunnel, chatRegistered, phase, menu,
                     revokeOnExit, cleanup, runner, signalled, artifacts, menuOps, losses>>
      /\ raced' \in BOOLEAN
  BY DEF Send, AnswerRegister, AnswerRevoke, Lose, tunnelVars, hostVars, endVars, bounds,
         Shaped, TypeOK
<1>2. PICK d \in Call : /\ calls' = (calls \ {c}) \union {d}
                        /\ d.kind = c.kind /\ d.url = c.url /\ d.token = c.token
  <2>1. c \in Call /\ chatUrl \in Children \union {None}
    BY DEF Shaped, TypeOK
  <2>2. "sent" \in Stages /\ "accepted" \in Stages /\ "failed" \in Stages
    BY DEF Stages
  <2>3. CASE Send(c)
    <3>1. calls' = (calls \ {c}) \union {[c EXCEPT !.stage = "sent", !.chat = chatUrl]}
      BY <2>3 DEF Send
    <3>2. PICK d : d = [c EXCEPT !.stage = "sent", !.chat = chatUrl]
      OBVIOUS
    <3>3. d \in Call /\ d.kind = c.kind /\ d.url = c.url /\ d.token = c.token
      BY <2>1, <2>2, <3>2 DEF Call
    <3>4. QED
      BY <3>1, <3>2, <3>3
  <2>4. ASSUME NEW stage \in Stages, calls' = Moved(c, stage)
        PROVE  \E d \in Call : /\ calls' = (calls \ {c}) \union {d}
                               /\ d.kind = c.kind /\ d.url = c.url /\ d.token = c.token
    <3>1. calls' = (calls \ {c}) \union {[c EXCEPT !.stage = stage]}
      BY <2>4 DEF Moved
    <3>2. PICK d : d = [c EXCEPT !.stage = stage]
      OBVIOUS
    <3>3. d \in Call /\ d.kind = c.kind /\ d.url = c.url /\ d.token = c.token
      BY <2>1, <2>4, <3>2 DEF Call
    <3>4. QED
      BY <3>1, <3>2, <3>3
  <2>5. \/ Send(c)
        \/ \E stage \in Stages : calls' = Moved(c, stage)
    BY <2>2 DEF AnswerRegister, AnswerRevoke, Lose
  <2>6. QED
    BY <2>3, <2>4, <2>5
<1>3. calls' \subseteq Call /\ calls # {}
  BY <1>2 DEF Shaped, TypeOK
<1>4. \A x \in Registrations' : x.url # 0 /\ x.token # 0
  BY <1>2 DEF Shaped, Supervised, Registrations, Revocations
<1>5. record' \in Record \union {NoRecord}
  <2>1. CASE UNCHANGED record \/ record' = NoRecord
    BY <2>1 DEF Shaped, TypeOK
  <2>2. CASE c.kind \notin Revocations /\ record' = [url |-> c.url, chat |-> c.chat, token |-> c.token]
    BY <2>2, SessionNumbers DEF Shaped, Supervised, TypeOK, Registrations, Call, Record
  <2>3. QED
    BY <2>1, <2>2 DEF Send, AnswerRegister, AnswerRevoke, Lose
<1>6. Supervised'
  BY <1>1, <1>3, <1>4 DEF Shaped, Supervised
<1>7. QED
  BY <1>1, <1>3, <1>5, <1>6 DEF Shaped, TypeOK

\* A registration is made of the tunnel's URL.
LEMMA RegisteringShaped ==
  ASSUME Shaped, calls \subseteq Call,
         NEW kind \in {"tunnel", "chat", "close", "menu"}, NEW url \in Children,
         NEW chat \in Children \union {0}, NEW token \in Children \union {0},
         NEW silent \in BOOLEAN, Registering(kind, url, chat, token, silent)
  PROVE  /\ calls' \subseteq Call /\ raced' \in BOOLEAN
         /\ \A c \in Registrations' : c.url # 0 /\ c.token # 0
<1>1. PICK d : /\ calls' = calls \union {d}
               /\ d = [kind |-> kind, url |-> url, chat |-> IF silent THEN chat ELSE None,
                       token |-> IF token = None THEN url ELSE token,
                       stage |-> IF silent THEN "sent" ELSE "preparing"]
  BY DEF Registering
<1>2. d \in Call /\ d.url # 0 /\ d.token # 0
  BY <1>1, SessionNumbers DEF Call, Children, Kinds, Stages
<1>3. raced' \in BOOLEAN
  BY DEF Registering, Shaped, TypeOK
<1>4. QED
  BY <1>1, <1>2, <1>3 DEF Shaped, Supervised, Registrations

\* A revocation is made when the token is there.
LEMMA RevokingShaped ==
  ASSUME Shaped, NEW kind \in Revocations,
         Revoking(kind), hostToken # 0
  PROVE  /\ calls' \subseteq Call /\ raced' \in BOOLEAN
         /\ \A c \in Registrations' : c.url # 0 /\ c.token # 0
<1>1. PICK d : /\ calls' = calls \union {d}
               /\ d = [kind |-> kind, url |-> None, chat |-> None,
                       token |-> hostToken, stage |-> "sent"]
  BY DEF Revoking
<1>2. d \in Call /\ d.kind = kind
  BY <1>1 DEF Call, Kinds, Stages, Revocations, Shaped, TypeOK
<1>3. raced' \in BOOLEAN
  BY DEF Revoking, Shaped, TypeOK
<1>4. QED
  BY <1>1, <1>2, <1>3 DEF Shaped, Supervised, Registrations, TypeOK

\* The supervision loop of a tunnel.
LEMMA TunnelShaped ==
  ASSUME Shaped, NEW s \in Tunnels,
         Spawn(s) \/ ChildExited(s) \/ PauseOver(s)
  PROVE  Shaped'
<1>1. /\ UNCHANGED <<stop, tunnelUrl, hostToken, chatUrl, chatTunnel, chatRegistered, phase,
                     menu, revokeOnExit, cleanup, runner, signalled, artifacts, calls, raced,
                     record, menuOps, losses>>
      /\ loop[s] # "unborn"
  BY DEF Spawn, ChildExited, PauseOver, hostVars, endVars, netVars, bounds
<1>2. CASE Spawn(s)
  <2>1. PICK m \in Nat : m = spawned + 1
    BY DEF Shaped, TypeOK
  <2>2. /\ loop[s] = "locating" /\ spawned < MaxSpawns /\ spawned' = m
        /\ loop' = [loop EXCEPT ![s] = "running"] /\ active' = [active EXCEPT ![s] = m]
        /\ announced' = [announced EXCEPT ![s] = FALSE]
        /\ alive' = alive \union {m} /\ tracked' = tracked \union {m}
    BY <1>2, <2>1 DEF Spawn
  <2>3. m \in Children /\ m \in 0..MaxSpawns /\ \A t \in Tunnels : active[t] < m
    <3>1. spawned \in Nat /\ \A t \in Tunnels : active[t] \in Nat /\ active[t] <= spawned
      BY SessionNumbers DEF Shaped, Supervised, TypeOK, Children
    <3>2. QED
      BY <2>1, <2>2, <3>1, SessionNumbers DEF Children
  <2>4. TypeOK'
    BY <1>1, <2>2, <2>3 DEF Shaped, Supervised, TypeOK
  <2>5. Supervised'
    <3>1. /\ loop'[s] = "running" /\ active'[s] = m /\ m # 0
          /\ \A t \in Tunnels \ {s} : loop'[t] = loop[t] /\ active'[t] = active[t]
      BY <2>2, <2>3 DEF Shaped, TypeOK, Children
    <3>2. \A t \in Tunnels : active[t] \in Nat /\ active[t] < m
      BY <2>3 DEF Shaped, TypeOK, None, Children
    <3>3. \A t \in Tunnels :
            /\ active'[t] <= spawned'
            /\ IF loop'[t] = "running" THEN active'[t] # 0 ELSE active'[t] \notin alive'
      BY <2>1, <2>2, <3>1, <3>2 DEF Shaped, Supervised
    <3>4. \A t \in Chats : loop'[t] # "unborn" => loop[t] # "unborn"
      BY <1>1, <3>1, SessionNumbers
    <3>5. QED
      BY <1>1, <3>3, <3>4 DEF Shaped, Supervised, Registrations
  <2>6. QED
    BY <2>4, <2>5 DEF Shaped
<1>3. CASE ChildExited(s)
  <2>1. /\ loop[s] = "running" /\ active[s] \notin alive /\ tracked' \subseteq tracked
        /\ loop' = [loop EXCEPT ![s] = Head(s, "pausing")]
        /\ UNCHANGED <<active, announced, spawned, alive>>
    BY <1>3 DEF ChildExited
  <2>2. Head(s, "pausing") \in {"pausing", "over"}
    BY DEF Head
  <2>3. QED
    BY <1>1, <2>1, <2>2 DEF Shaped, Supervised, TypeOK, Registrations
<1>4. CASE PauseOver(s)
  <2>1. /\ loop[s] = "pausing" /\ loop' = [loop EXCEPT ![s] = Head(s, "locating")]
        /\ UNCHANGED <<active, announced, spawned, alive, tracked>>
    BY <1>4 DEF PauseOver
  <2>2. Head(s, "locating") \in {"locating", "over"}
    BY DEF Head
  <2>3. QED
    BY <1>1, <2>1, <2>2 DEF Shaped, Supervised, TypeOK, Registrations
<1>5. QED
  BY <1>2, <1>3, <1>4

\* Steps that leave the loops of the tunnels alone.
LEMMA AsideShaped ==
  ASSUME Shaped,
         alive' \subseteq alive, tracked' \subseteq tracked,
         UNCHANGED <<loop, active, spawned, hostToken>>,
         announced' \in [Tunnels -> BOOLEAN], stop' \in [Tunnels -> BOOLEAN],
         tunnelUrl' \in Children \union {tunnelUrl},
         chatUrl' \in Children \union {0, chatUrl},
         chatTunnel' \in {chatTunnel, "session"}, chatRegistered' \in BOOLEAN,
         phase' \in {"starting", "dashboard", "left", "gone"},
         menu' \in {"idle", "chat", "close", "menu", "terminate", "leaving"},
         revokeOnExit' \in BOOLEAN, cleanup' \in {"none", "hooks", "revoking", "done"},
         runner' \in {"nobody", "menu", "signal", "fatal"}, signalled' \in BOOLEAN,
         artifacts' \in BOOLEAN, record' \in {record, NoRecord},
         menuOps' \in 0..MaxMenu, losses' \in 0..MaxLosses, raced' \in BOOLEAN,
         calls' \subseteq Call,
         \A c \in Registrations' : c.url # 0 /\ c.token # 0,
         calls' # {} => calls # {} \/ tunnelUrl' # 0,
         phase' = "dashboard" \/ revokeOnExit' =>
           phase = "dashboard" \/ revokeOnExit \/ hostToken # 0
  PROVE  Shaped'
<1>1. TypeOK'
  BY SessionNumbers DEF Shaped, TypeOK
<1>2. tunnelUrl' # tunnelUrl => tunnelUrl' # 0
  BY DEF Children
<1>3. Supervised'
  BY <1>2 DEF Shaped, Supervised, TypeOK, Registrations
<1>4. QED
  BY <1>1, <1>3 DEF Shaped

\* A step that makes no call leaves the calls' types alone.
LEMMA FewerCalls ==
  ASSUME Shaped, calls' \subseteq calls
  PROVE  /\ calls' \subseteq Call
         /\ \A c \in Registrations' : c.url # 0 /\ c.token # 0
         /\ calls' # {} => calls # {}
BY DEF Shaped, Supervised, TypeOK, Registrations

\* The ways a process ends.
LEMMA EndShaped ==
  ASSUME Shaped,
         \/ EndCleanup \/ RunOut \/ Signal \/ WaitTimeout
         \/ Leave \/ Forget \/ Open \/ ChatReady
         \/ (\E n \in Children : Die(n))
         \/ (\E c \in calls : EndRevocation(c) \/ Terminated(c))
  PROVE  Shaped'
<1> USE DEF endVars, hostVars, netVars, bounds, tunnelVars
<1>1. /\ stop \in [Tunnels -> BOOLEAN] /\ losses \in 0..MaxLosses
      /\ \A S : Stopped(S) \in [Tunnels -> BOOLEAN]
      /\ MaxLosses \in Nat
  BY SessionNumbers DEF Stopped, Shaped, TypeOK
<1>2. /\ alive' \subseteq alive /\ tracked' \subseteq tracked /\ calls' \subseteq calls
      /\ UNCHANGED <<loop, active, announced, spawned, tunnelUrl, hostToken, chatUrl,
                     chatTunnel, chatRegistered>>
      /\ runner' \in {runner, "menu", "signal", "fatal"} /\ signalled' \in {signalled, TRUE}
      /\ artifacts' = artifacts /\ record' \in {record, NoRecord}
      /\ cleanup' \in {cleanup, "hooks", "done"} /\ phase' \in {phase, "dashboard", "left", "gone"}
      /\ revokeOnExit' \in {revokeOnExit, TRUE} /\ menu' \in {menu, "idle", "leaving"}
      /\ menuOps' = menuOps /\ raced' = raced /\ losses' \in 0..MaxLosses
      /\ stop' \in [Tunnels -> BOOLEAN]
      /\ phase' = "dashboard" \/ revokeOnExit' =>
           phase = "dashboard" \/ revokeOnExit \/ hostToken # 0
  <2>1. CASE EndCleanup
    BY <1>1, <2>1 DEF EndCleanup, Exit
  <2>2. CASE RunOut
    BY <1>1, <2>2 DEF RunOut, Exit
  <2>3. CASE Signal
    BY <1>1, <2>3 DEF Signal, CleanupAll, Exit, Shaped, TypeOK
  <2>4. CASE WaitTimeout
    BY <1>1, <2>4 DEF WaitTimeout, Fatal, CleanupAll, Exit, Shaped, TypeOK
  <2>5. CASE Leave
    BY <1>1, <2>5 DEF Leave, CleanupAll
  <2>6. CASE Forget
    BY <1>1, <2>6 DEF Forget
  <2>7. CASE Open
    BY <1>1, <2>7, SessionNumbers DEF Open
  <2>8. CASE ChatReady
    BY <1>1, <2>8 DEF ChatReady
  <2>9. CASE \E n \in Children : Die(n)
    BY <1>1, <2>9 DEF Die
  <2>10. CASE \E c \in calls : EndRevocation(c)
    BY <1>1, <2>10 DEF EndRevocation
  <2>11. CASE \E c \in calls : Terminated(c)
    BY <1>1, <2>11 DEF Terminated
  <2>12. QED
    BY <2>1, <2>2, <2>3, <2>4, <2>5, <2>6, <2>7, <2>8, <2>9, <2>10, <2>11
<1>3. /\ announced' \in [Tunnels -> BOOLEAN] /\ menuOps' \in 0..MaxMenu
      /\ chatRegistered' \in BOOLEAN /\ raced' \in BOOLEAN /\ revokeOnExit' \in BOOLEAN
      /\ signalled' \in BOOLEAN /\ artifacts' \in BOOLEAN
  BY <1>2 DEF Shaped, TypeOK
<1>4. /\ phase' \in {"starting", "dashboard", "left", "gone"}
      /\ menu' \in {"idle", "chat", "close", "menu", "terminate", "leaving"}
      /\ cleanup' \in {"none", "hooks", "revoking", "done"}
      /\ runner' \in {"nobody", "menu", "signal", "fatal"}
  BY <1>2 DEF Shaped, TypeOK
<1>5. QED
  BY <1>2, <1>3, <1>4, FewerCalls, AsideShaped

\* The actions that call the broker.
LEMMA CallingShaped ==
  ASSUME Shaped,
         \/ SessionUrl \/ (\E s \in Chats : ChatUrl(s)) \/ CloseChat
         \/ Reregister \/ Terminate \/ RunHooks
  PROVE  Shaped'
<1> USE DEF endVars, hostVars, netVars, bounds, tunnelVars
<1>1. /\ TypeOK /\ None = 0 /\ calls \subseteq Call
      /\ {hostToken, chatUrl, tunnelUrl} \subseteq Children \union {0}
      /\ tunnelUrl # 0 => tunnelUrl \in Children
      /\ hostToken # 0 => tunnelUrl # 0
  BY SessionNumbers DEF Shaped, Supervised, TypeOK
<1>2. \A s \in Tunnels : loop[s] = "running" =>
        active[s] \in Children /\ active[s] # 0
  BY <1>1 DEF Shaped, Supervised, TypeOK
<1>3. CASE SessionUrl
  <2>1. /\ loop["session"] = "running" /\ active["session"] \in Children
        /\ tunnelUrl' = active["session"] /\ tunnelUrl' # 0
        /\ announced' = [announced EXCEPT !["session"] = TRUE]
        /\ Registering("tunnel", active["session"], chatUrl, hostToken, hostToken # 0)
        /\ UNCHANGED <<loop, active, stop, spawned, alive, tracked, hostToken, chatUrl,
                       chatTunnel, chatRegistered, phase, menu, revokeOnExit, cleanup, runner,
                       signalled, artifacts, record, menuOps, losses>>
    BY <1>1, <1>2, <1>3, SessionNumbers DEF SessionUrl, Callback
  <2>2. (hostToken # 0) \in BOOLEAN
    OBVIOUS
  <2>3. /\ calls' \subseteq Call /\ raced' \in BOOLEAN
        /\ \A c \in Registrations' : c.url # 0 /\ c.token # 0
    BY <1>1, <2>1, <2>2, RegisteringShaped
  <2>4. announced' \in [Tunnels -> BOOLEAN]
    BY <1>1, <2>1 DEF TypeOK
  <2>5. QED
    BY <1>1, <2>1, <2>3, <2>4, AsideShaped DEF TypeOK
<1>4. ASSUME NEW s \in Chats, ChatUrl(s) PROVE Shaped'
  <2>1. /\ loop[s] = "running" /\ active[s] \in Children /\ tunnelUrl # 0
        /\ tunnelUrl \in Children /\ chatUrl' = active[s]
        /\ announced' = [announced EXCEPT ![s] = TRUE]
        /\ Registering("chat", tunnelUrl, active[s], hostToken, TRUE)
        /\ UNCHANGED <<loop, active, stop, spawned, alive, tracked, tunnelUrl, hostToken,
                       chatTunnel, chatRegistered, phase, menu, revokeOnExit, cleanup, runner,
                       signalled, artifacts, record, menuOps, losses>>
    BY <1>1, <1>2, <1>4, SessionNumbers DEF ChatUrl, Shaped, Supervised
  <2>2. TRUE \in BOOLEAN
    OBVIOUS
  <2>3. /\ calls' \subseteq Call /\ raced' \in BOOLEAN
        /\ \A c \in Registrations' : c.url # 0 /\ c.token # 0
    BY <1>1, <2>1, <2>2, RegisteringShaped
  <2>4. announced' \in [Tunnels -> BOOLEAN]
    BY <1>1, <2>1 DEF TypeOK
  <2>5. QED
    BY <1>1, <2>1, <2>3, <2>4, AsideShaped DEF TypeOK
<1>5. CASE CloseChat
  <2>1. /\ hostToken # 0 /\ tunnelUrl # 0 /\ tunnelUrl \in Children
        /\ chatTunnel' = "session" /\ chatUrl' = 0
        /\ \E S : stop' = Stopped(S)
        /\ alive' \subseteq alive /\ tracked' \subseteq tracked
        /\ Registering("close", tunnelUrl, 0, hostToken, FALSE)
        /\ UNCHANGED <<loop, active, announced, spawned, tunnelUrl, hostToken,
                       chatRegistered, phase, menu, revokeOnExit, cleanup, runner,
                       signalled, artifacts, record, menuOps, losses>>
    BY <1>1, <1>5, SessionNumbers DEF CloseChat, Shaped, Supervised
  <2>2. FALSE \in BOOLEAN /\ 0 \in Children \union {0}
    OBVIOUS
  <2>3. /\ calls' \subseteq Call /\ raced' \in BOOLEAN
        /\ \A c \in Registrations' : c.url # 0 /\ c.token # 0
    BY <1>1, <2>1, <2>2, RegisteringShaped
  <2>4. stop' \in [Tunnels -> BOOLEAN]
    BY <1>1, <2>1 DEF TypeOK, Stopped
  <2>5. QED
    BY <1>1, <2>1, <2>3, <2>4, AsideShaped DEF TypeOK
<1>6. CASE Reregister
  <2>1. /\ hostToken # 0 /\ tunnelUrl # 0 /\ tunnelUrl \in Children /\ menu' = "menu"
        /\ Registering("menu", tunnelUrl, chatUrl, hostToken, FALSE)
        /\ menuOps' = menuOps + 1 /\ menuOps < MaxMenu
        /\ UNCHANGED <<loop, active, announced, stop, spawned, alive, tracked, tunnelUrl,
                       hostToken, chatUrl, chatTunnel, chatRegistered, phase, revokeOnExit,
                       cleanup, runner, signalled, artifacts, record, losses>>
    BY <1>1, <1>6, SessionNumbers DEF Reregister, Choose, Shaped, Supervised
  <2>2. FALSE \in BOOLEAN
    OBVIOUS
  <2>3. /\ calls' \subseteq Call /\ raced' \in BOOLEAN
        /\ \A c \in Registrations' : c.url # 0 /\ c.token # 0
    BY <1>1, <2>1, <2>2, RegisteringShaped
  <2>4. menuOps' \in 0..MaxMenu
    BY <1>1, <2>1, SessionNumbers DEF TypeOK
  <2>5. QED
    BY <1>1, <2>1, <2>3, <2>4, AsideShaped DEF TypeOK
<1>7. CASE Terminate
  <2>1. /\ hostToken # 0 /\ tunnelUrl # 0 /\ menu' = "terminate"
        /\ Revoking("terminate")
        /\ menuOps' = menuOps + 1 /\ menuOps < MaxMenu
        /\ UNCHANGED <<loop, active, announced, stop, spawned, alive, tracked, tunnelUrl,
                       hostToken, chatUrl, chatTunnel, chatRegistered, phase, revokeOnExit,
                       cleanup, runner, signalled, artifacts, record, losses>>
    BY <1>1, <1>7, SessionNumbers DEF Terminate, Choose, Shaped, Supervised
  <2>2. "terminate" \in Revocations
    BY DEF Revocations
  <2>3. /\ calls' \subseteq Call /\ raced' \in BOOLEAN
        /\ \A c \in Registrations' : c.url # 0 /\ c.token # 0
    BY <2>1, <2>2, RevokingShaped
  <2>4. menuOps' \in 0..MaxMenu
    BY <1>1, <2>1, SessionNumbers DEF TypeOK
  <2>5. QED
    BY <1>1, <2>1, <2>3, <2>4, AsideShaped DEF TypeOK
<1>8. CASE RunHooks
  <2>1. /\ artifacts' = FALSE /\ cleanup' \in {"revoking", "done"}
        /\ UNCHANGED <<loop, active, announced, stop, spawned, alive, tracked, tunnelUrl,
                       hostToken, chatUrl, chatTunnel, chatRegistered, phase, menu,
                       revokeOnExit, runner, signalled, record, menuOps, losses>>
        /\ \/ UNCHANGED <<calls, raced>>
           \/ revokeOnExit /\ Revoking("exit")
    BY <1>8 DEF RunHooks, Revokes
  <2>2. /\ calls' \subseteq Call /\ raced' \in BOOLEAN
        /\ \A c \in Registrations' : c.url # 0 /\ c.token # 0
        /\ calls' # {} => calls # {} \/ tunnelUrl' # 0
    <3>1. CASE UNCHANGED <<calls, raced>>
      BY <1>1, <3>1, FewerCalls DEF TypeOK
    <3>2. CASE revokeOnExit /\ Revoking("exit")
      <4>1. hostToken # 0 /\ "exit" \in Revocations
        BY <3>2 DEF Shaped, Supervised, Revocations
      <4>2. QED
        BY <1>1, <2>1, <3>2, <4>1, RevokingShaped
    <3>3. QED
      BY <2>1, <3>1, <3>2
  <2>3. /\ cleanup' \in {"none", "hooks", "revoking", "done"} /\ artifacts' \in BOOLEAN
        /\ phase' \in {"starting", "dashboard", "left", "gone"} /\ record' \in {record}
    BY <1>1, <2>1 DEF TypeOK
  <2>4. /\ announced' \in [Tunnels -> BOOLEAN] /\ stop' \in [Tunnels -> BOOLEAN]
        /\ chatRegistered' \in BOOLEAN /\ revokeOnExit' \in BOOLEAN /\ signalled' \in BOOLEAN
        /\ menu' \in {"idle", "chat", "close", "menu", "terminate", "leaving"}
        /\ runner' \in {"nobody", "menu", "signal", "fatal"}
        /\ menuOps' \in 0..MaxMenu /\ losses' \in 0..MaxLosses
    BY <1>1, <2>1 DEF TypeOK
  <2>5. QED
    BY <2>1, <2>2, <2>3, <2>4, AsideShaped
<1>9. QED
  BY <1>3, <1>4, <1>5, <1>6, <1>7, <1>8

\* The rest: a chat's tunnel is asked for, and a registration was answered.
LEMMA OtherShaped ==
  ASSUME Shaped,
         \/ (\E s \in Chats : StartChat(s))
         \/ (\E c \in calls : RegistrationDone(c))
  PROVE  Shaped'
<1> USE DEF endVars, hostVars, netVars, bounds, tunnelVars
<1>1. ASSUME NEW s \in Chats, StartChat(s) PROVE Shaped'
  <2>1. /\ hostToken # 0 /\ loop[s] = "unborn" /\ loop' = [loop EXCEPT ![s] = "locating"]
        /\ chatTunnel' = s /\ chatRegistered' = FALSE /\ menu' = "chat"
        /\ menuOps' = menuOps + 1 /\ menuOps < MaxMenu
        /\ UNCHANGED <<active, announced, stop, spawned, alive, tracked, tunnelUrl, hostToken,
                       chatUrl, phase, revokeOnExit, cleanup, runner, signalled, artifacts,
                       calls, raced, record, losses>>
    BY <1>1 DEF StartChat, Choose, Shaped, Supervised
  <2>2. menuOps' \in 0..MaxMenu
    BY <2>1, SessionNumbers DEF Shaped, TypeOK
  <2>3. loop' \in [Tunnels -> {"unborn", "locating", "running", "pausing", "over"}]
    BY <2>1 DEF Shaped, TypeOK
  <2>4. /\ chatTunnel' \in Chats \union {NoChat} /\ chatRegistered' \in BOOLEAN
        /\ menu' \in {"idle", "chat", "close", "menu", "terminate", "leaving"}
    BY <2>1
  <2>5. TypeOK'
    BY <2>1, <2>2, <2>3, <2>4 DEF Shaped, TypeOK
  <2>6. Supervised'
    BY <2>1, SessionNumbers DEF Shaped, Supervised, TypeOK, Registrations
  <2>7. QED
    BY <2>5, <2>6 DEF Shaped
<1>2. ASSUME NEW c \in calls, RegistrationDone(c) PROVE Shaped'
  <2>1. /\ UNCHANGED <<loop, active, announced, stop, spawned, tracked, tunnelUrl, chatUrl,
                       chatTunnel, revokeOnExit, cleanup, runner, signalled, artifacts,
                       raced, record, menuOps, losses>>
        /\ c \in Registrations /\ calls' \subseteq calls /\ alive' \subseteq alive
        /\ hostToken' \in {hostToken, c.token} /\ chatRegistered' \in BOOLEAN
        /\ menu' \in {menu, "idle"} /\ phase' \in {phase, "gone"}
    BY <1>2 DEF RegistrationDone, Exit, Registrations, Shaped, TypeOK
  <2>2. c.token \in Children /\ c.token # 0 /\ tunnelUrl # 0
    BY <2>1, SessionNumbers DEF Shaped, Supervised, TypeOK, Call
  <2>3. {tunnelUrl', hostToken', chatUrl'} \subseteq Children \union {None}
    BY <2>1, <2>2 DEF Shaped, TypeOK
  <2>4. /\ phase' \in {"starting", "dashboard", "left", "gone"} /\ calls' \subseteq Call
        /\ menu' \in {"idle", "chat", "close", "menu", "terminate", "leaving"}
    BY <2>1 DEF Shaped, TypeOK
  <2>5. /\ alive' \subseteq {active'[t] : t \in Tunnels'} /\ chatRegistered' \in BOOLEAN
        /\ tracked' \subseteq Children
    BY ZenonT(60), <2>1 DEF Shaped, TypeOK, Tunnels
  <2>6. TypeOK'
    BY <2>1, <2>3, <2>4, <2>5 DEF Shaped, TypeOK
  <2>7. Supervised'
    BY <2>1, <2>2, FewerCalls DEF Shaped, Supervised
  <2>8. QED
    BY <2>6, <2>7 DEF Shaped
<1>3. QED
  BY <1>1, <1>2

----------------------------------------------------------------------------
\* While registrations overlap no other call: one at a time is under way, with the host's
\* own URL and token; the broker knows the session by them, or hears of a new URL; and
\* after a cleanup nothing is left to revoke, or the revocation is on its way.
InTurn ==
  /\ \A c \in Registrations :
       /\ \A d \in calls : d = c
       /\ c.url = tunnelUrl
       /\ IF hostToken = 0 THEN c.kind = "tunnel" ELSE c.token = hostToken
       /\ c.stage = "accepted" /\ record # NoRecord =>
            record.url = c.url /\ record.token = c.token
  /\ \A c \in calls : c.kind \in Revocations => c.token = hostToken /\ hostToken # 0

Registered ==
  record # NoRecord =>
    /\ hostToken # 0 => record.token = hostToken
    /\ phase # "gone" => \/ hostToken # 0 /\ record.url = tunnelUrl
                         \/ \E c \in Registrations : c.kind = "tunnel"

Revoked ==
  revokeOnExit /\ cleanup \in {"revoking", "done"} =>
    /\ Registrations = {}
    /\ \/ record = NoRecord
       \/ \E c \in calls : c.kind = "exit" /\ c.stage = "sent"

Serial == ~raced => InTurn /\ Registered /\ Revoked

\* What only forgets calls that are not on their way, or ends the process.
LEMMA AsideSerial ==
  ASSUME Serial, UNCHANGED <<tunnelUrl, hostToken, record, raced>>, calls' \subseteq calls,
         \A c \in calls : c.stage = "sent" => c \in calls',
         phase' # "gone" => phase # "gone" /\ Registrations \subseteq calls',
         revokeOnExit' /\ cleanup' \in {"revoking", "done"} =>
           revokeOnExit /\ cleanup \in {"revoking", "done"}
  PROVE  Serial'
<1>1. SUFFICES ASSUME ~raced PROVE (InTurn /\ Registered /\ Revoked)'
  BY DEF Serial
<1>2. InTurn /\ Registered /\ Revoked
  BY <1>1 DEF Serial
<1>3. InTurn'
  BY <1>2 DEF InTurn, Registrations
<1>4. Registered'
  BY <1>2 DEF Registered, Registrations
<1>5. Revoked'
  BY <1>2 DEF Revoked, Registrations
<1>6. QED
  BY <1>3, <1>4, <1>5

\* The calls on their way.
LEMMA CallsSerial ==
  ASSUME Shaped, Serial, NEW c \in calls,
         \/ Send(c) \/ AnswerRegister(c) \/ AnswerRevoke(c) \/ Lose(c)
  PROVE  Serial'
<1>1. SUFFICES ASSUME ~raced' PROVE (InTurn /\ Registered /\ Revoked)'
  BY DEF Serial
<1>2. UNCHANGED <<tunnelUrl, hostToken, phase, revokeOnExit, cleanup>> /\ ~raced
  <2>1. raced \in BOOLEAN
    BY DEF Shaped, TypeOK
  <2>2. UNCHANGED raced \/ raced' = (raced \/ c.kind \in Revocations)
    BY DEF Send, AnswerRegister, AnswerRevoke, Lose
  <2>3. ~raced
    BY <1>1, <2>1, <2>2
  <2>4. QED
    BY <2>3 DEF Send, AnswerRegister, AnswerRevoke, Lose, hostVars, endVars
<1>3. InTurn /\ Registered /\ Revoked
  BY <1>1, <1>2 DEF Serial
<1>4. PICK d : /\ calls' = (calls \ {c}) \union {d}
               /\ d.kind = c.kind /\ d.url = c.url /\ d.token = c.token
               /\ \/ c.stage = "preparing" /\ d.stage = "sent" /\ UNCHANGED record
                  \/ /\ c.kind \notin Revocations /\ d.stage = "accepted"
                     /\ record' = [url |-> c.url, chat |-> c.chat, token |-> c.token]
                  \/ c.kind \in Revocations /\ record' = NoRecord
                  \/ /\ c.kind \notin Revocations /\ d.stage = "failed"
                     /\ UNCHANGED record
  <2>1. c \in Call
    BY DEF Shaped, TypeOK
  <2>2. CASE Send(c)
    <3>1. PICK d : d = [c EXCEPT !.stage = "sent", !.chat = chatUrl]
      OBVIOUS
    <3>2. d.kind = c.kind /\ d.url = c.url /\ d.token = c.token /\ d.stage = "sent"
      BY <2>1, <3>1 DEF Call
    <3>3. calls' = (calls \ {c}) \union {d} /\ c.stage = "preparing" /\ UNCHANGED record
      BY <2>2, <3>1 DEF Send
    <3>4. QED
      BY <3>2, <3>3
  <2>3. PICK accepted : accepted = [c EXCEPT !.stage = "accepted"]
    OBVIOUS
  <2>4. PICK failed : failed = [c EXCEPT !.stage = "failed"]
    OBVIOUS
  <2>5. /\ accepted.kind = c.kind /\ accepted.url = c.url /\ accepted.token = c.token
        /\ accepted.stage = "accepted"
    BY <2>1, <2>3 DEF Call
  <2>6. /\ failed.kind = c.kind /\ failed.url = c.url /\ failed.token = c.token
        /\ failed.stage = "failed"
    BY <2>1, <2>4 DEF Call
  <2>7. Moved(c, "accepted") = (calls \ {c}) \union {accepted}
    BY <2>3 DEF Moved
  <2>8. Moved(c, "failed") = (calls \ {c}) \union {failed}
    BY <2>4 DEF Moved
  <2>9. CASE AnswerRegister(c)
    BY <2>5, <2>6, <2>7, <2>8, <2>9 DEF AnswerRegister
  <2>10. CASE AnswerRevoke(c)
    <3>1. record = NoRecord \/ record.token = c.token
      BY <1>3, <2>10 DEF AnswerRevoke, InTurn, Registered
    <3>2. QED
      BY <2>5, <2>6, <2>7, <2>8, <2>10, <3>1 DEF AnswerRevoke
  <2>11. CASE Lose(c)
    BY <1>1, <2>6, <2>8, <2>11 DEF Lose
  <2>12. QED
    BY <2>2, <2>9, <2>10, <2>11
<1>5. \A x \in Registrations' : x \in Registrations \/ (x = d /\ c \in Registrations)
  BY <1>4 DEF Registrations
<1>6. CASE c \in Registrations
  <2>1. c.kind \notin Revocations /\ calls = {c} /\ calls' = {d} /\ Registrations' = {d}
    BY <1>3, <1>4, <1>6 DEF InTurn, Registrations
  <2>2. PICK r : r = [url |-> c.url, chat |-> c.chat, token |-> c.token]
    OBVIOUS
  <2>3. r.url = c.url /\ r.token = c.token
    BY <2>2
  <2>4. \/ record' = r /\ d.stage = "accepted"
        \/ UNCHANGED record /\ d.stage \in {"sent", "failed"}
    BY <1>4, <2>1, <2>2
  <2>5. InTurn'
    BY <1>2, <1>3, <1>4, <1>6, <2>1, <2>3, <2>4 DEF InTurn
  <2>6. Registered'
    BY <1>2, <1>3, <1>4, <1>6, <2>1, <2>3, <2>4 DEF InTurn, Registered
  <2>7. Revoked'
    BY <1>2, <1>3, <1>6 DEF Revoked
  <2>8. QED
    BY <2>5, <2>6, <2>7
<1>7. CASE c \notin Registrations
  <2>1. c.kind \in Revocations /\ Registrations = {} /\ Registrations' = {}
    BY <1>3, <1>4, <1>5, <1>7 DEF InTurn, Registrations
  <2>2. InTurn'
    BY <1>2, <1>3, <1>4, <2>1 DEF InTurn
  <2>3. record' = NoRecord \/ (UNCHANGED record /\ d.stage = "sent" /\ c.stage = "preparing")
    BY <1>4, <2>1
  <2>4. Registered'
    BY <1>2, <1>3, <2>1, <2>3 DEF Registered
  <2>5. Revoked'
    BY <1>2, <1>3, <1>4, <2>1, <2>3 DEF Revoked
  <2>6. QED
    BY <2>2, <2>4, <2>5
<1>8. QED
  BY <1>6, <1>7

\* The operations that register: one that overlaps nothing is made of the URL and the token
\* the host has then.
LEMMA RegisteringSerial ==
  ASSUME Shaped, Serial,
         \/ SessionUrl \/ (\E s \in Chats : ChatUrl(s)) \/ CloseChat
         \/ Reregister
  PROVE  Serial'
<1>1. SUFFICES ASSUME ~raced' PROVE (InTurn /\ Registered /\ Revoked)'
  BY DEF Serial
<1>2. UNCHANGED <<hostToken, record, phase, revokeOnExit, cleanup>>
  BY DEF SessionUrl, ChatUrl, CloseChat, Reregister, endVars, hostVars
<1>3. PICK kind, url, chat, silent :
        /\ Registering(kind, url, chat, hostToken, silent)
        /\ url = tunnelUrl' /\ kind \in {"tunnel", "chat", "close", "menu"}
        /\ kind # "tunnel" => hostToken # 0 /\ tunnelUrl' = tunnelUrl
  <2>1. CASE SessionUrl
    BY <2>1 DEF SessionUrl, Callback
  <2>2. ASSUME NEW s \in Chats, ChatUrl(s)
        PROVE  /\ Registering("chat", tunnelUrl, active[s], hostToken, TRUE)
               /\ hostToken # 0 /\ tunnelUrl' = tunnelUrl
    BY <2>2, SessionNumbers DEF ChatUrl, Shaped, Supervised
  <2>3. CASE CloseChat
    <3>1. /\ Registering("close", tunnelUrl, None, hostToken, FALSE)
          /\ hostToken # 0 /\ tunnelUrl' = tunnelUrl
      BY <2>3, SessionNumbers DEF CloseChat, Shaped, Supervised
    <3>2. QED
      BY <3>1
  <2>4. CASE Reregister
    <3>1. /\ Registering("menu", tunnelUrl, chatUrl, hostToken, FALSE)
          /\ hostToken # 0 /\ tunnelUrl' = tunnelUrl
      BY <2>4, SessionNumbers DEF Reregister, Choose, hostVars, Shaped, Supervised
    <3>2. QED
      BY <3>1
  <2>5. QED
    BY <2>1, <2>2, <2>3, <2>4
<1>4. PICK d : d = [kind |-> kind, url |-> url, chat |-> IF silent THEN chat ELSE None,
                    token |-> IF hostToken = None THEN url ELSE hostToken,
                    stage |-> IF silent THEN "sent" ELSE "preparing"]
  OBVIOUS
<1>5. /\ d.kind = kind /\ d.url = url /\ d.stage \in {"sent", "preparing"}
      /\ hostToken # 0 => d.token = hostToken
  BY <1>4 DEF None
<1>6. ~raced /\ calls = {} /\ calls' = {d} /\ cleanup = "none"
  BY <1>1, <1>3, <1>4 DEF Registering
<1>7. Registrations' = {d} /\ kind \notin Revocations
  BY <1>3, <1>5, <1>6 DEF Registrations, Revocations
<1>8. Registered
  BY <1>6 DEF Serial
<1>9. InTurn'
  BY <1>2, <1>3, <1>5, <1>6, <1>7 DEF InTurn
<1>10. Registered'
  <2>1. CASE kind = "tunnel"
    BY <1>2, <1>5, <1>7, <1>8, <2>1 DEF Registered
  <2>2. CASE kind # "tunnel"
    BY <1>2, <1>3, <1>6, <1>8, <2>2 DEF Registered, Registrations
  <2>3. QED
    BY <2>1, <2>2
<1>11. Revoked'
  BY <1>2, <1>6 DEF Revoked
<1>12. QED
  BY <1>9, <1>10, <1>11

\* The answer to a registration: the token it was made with is the session's.
LEMMA RegistrationDoneSerial ==
  ASSUME Shaped, Serial, NEW c \in calls, RegistrationDone(c)
  PROVE  Serial'
<1>1. SUFFICES ASSUME ~raced' PROVE (InTurn /\ Registered /\ Revoked)'
  BY DEF Serial
<1>2. /\ UNCHANGED <<tunnelUrl, record, revokeOnExit, cleanup, raced>>
      /\ c \in Registrations
      /\ calls' \subseteq calls
      /\ \/ /\ phase' = "gone" /\ UNCHANGED hostToken
            /\ \A x \in calls : x.stage = "sent" => x \in calls'
         \/ /\ ~(c.kind = "tunnel" /\ c.stage = "failed") /\ calls' = calls \ {c}
            /\ UNCHANGED phase /\ c.stage \in {"accepted", "failed"}
            /\ hostToken' = IF c.stage = "accepted" THEN c.token ELSE hostToken
  BY DEF RegistrationDone, Registrations, endVars, hostVars, Exit
<1>3. InTurn /\ Registered /\ Revoked
  BY <1>1, <1>2 DEF Serial
<1>4. calls = {c} /\ c.kind \notin Revocations
  BY <1>2, <1>3 DEF InTurn, Registrations
<1>5. Revoked'
  BY <1>2, <1>3 DEF Revoked
<1>6. CASE phase' = "gone" /\ UNCHANGED hostToken
  <2>1. InTurn'
    BY <1>2, <1>3, <1>6 DEF InTurn, Registrations
  <2>2. Registered'
    BY <1>2, <1>3, <1>6 DEF Registered
  <2>3. QED
    BY <1>5, <2>1, <2>2
<1>7. CASE /\ ~(c.kind = "tunnel" /\ c.stage = "failed") /\ calls' = calls \ {c}
           /\ UNCHANGED phase /\ c.stage \in {"accepted", "failed"}
           /\ hostToken' = IF c.stage = "accepted" THEN c.token ELSE hostToken
  <2>1. calls' = {} /\ Registrations' = {} /\ Registrations = {c}
    BY <1>2, <1>4, <1>7 DEF Registrations
  <2>2. InTurn'
    BY <2>1 DEF InTurn
  <2>3. CASE c.stage = "accepted"
    <3>1. hostToken' = c.token /\ c.token # 0
      BY <1>2, <1>7, <2>3 DEF Shaped, Supervised
    <3>2. record # NoRecord => record.url = tunnelUrl /\ record.token = c.token
      BY <1>2, <1>3, <2>3 DEF InTurn
    <3>3. QED
      BY <1>2, <1>5, <2>2, <3>1, <3>2 DEF Registered
  <2>4. CASE c.stage = "failed"
    <3>1. c.kind # "tunnel" /\ UNCHANGED hostToken
      BY <1>7, <2>4
    <3>2. QED
      BY <1>2, <1>3, <1>5, <1>7, <2>1, <2>2, <3>1 DEF Registered
  <2>5. QED
    BY <1>7, <2>3, <2>4
<1>8. QED
  BY <1>2, <1>6, <1>7

\* The operations that revoke: no registration is under way, and the token is the host's.
LEMMA RevokingSerial ==
  ASSUME Shaped, Serial,
         Terminate \/ (RunHooks /\ Revokes)
  PROVE  Serial'
<1>1. SUFFICES ASSUME ~raced' PROVE (InTurn /\ Registered /\ Revoked)'
  BY DEF Serial
<1>2. PICK kind \in Revocations :
        /\ Revoking(kind) /\ hostToken # 0
        /\ UNCHANGED <<tunnelUrl, hostToken, record, phase, revokeOnExit>>
        /\ kind = "exit" \/ (cleanup = "none" /\ cleanup' = "none")
  <2>1. CASE Terminate
    BY <2>1 DEF Terminate, Choose, Revocations, endVars, hostVars, Shaped, Supervised
  <2>2. CASE RunHooks /\ Revokes
    BY <2>2 DEF RunHooks, Revokes, Revocations, hostVars, Shaped, Supervised
  <2>3. QED
    BY <2>1, <2>2
<1>3. PICK d : d = [kind |-> kind, url |-> None, chat |-> None,
                    token |-> hostToken, stage |-> "sent"]
  OBVIOUS
<1>4. d.kind = kind /\ d.token = hostToken /\ d.stage = "sent"
  BY <1>3
<1>5. ~raced /\ Registrations = {} /\ calls' = calls \union {d}
  BY <1>1, <1>2, <1>3 DEF Revoking
<1>6. InTurn /\ Registered
  BY <1>5 DEF Serial
<1>7. Registrations' = {}
  BY <1>4, <1>5 DEF Registrations
<1>8. InTurn'
  BY <1>2, <1>4, <1>5, <1>6, <1>7 DEF InTurn
<1>9. Registered'
  BY <1>2, <1>5, <1>6 DEF Registered
<1>10. Revoked'
  BY <1>2, <1>4, <1>5, <1>7 DEF Revoked
<1>11. QED
  BY <1>8, <1>9, <1>10

\* The broker forgets the record.
LEMMA ForgetSerial ==
  ASSUME Serial, Forget
  PROVE  Serial'
<1>1. /\ UNCHANGED <<tunnelUrl, hostToken, phase, revokeOnExit, cleanup, calls, raced>>
      /\ record' = NoRecord
  BY DEF Forget, hostVars, endVars, netVars
<1>2. QED
  BY <1>1 DEF Serial, InTurn, Registered, Revoked, Registrations

\* Every other step forgets calls at most.
LEMMA OtherSerial ==
  ASSUME Shaped, Serial,
         \/ EndCleanup \/ RunOut \/ Signal \/ WaitTimeout
         \/ Leave \/ Open \/ ChatReady
         \/ (RunHooks /\ ~Revokes)
         \/ (\E n \in Children : Die(n))
         \/ (\E s \in Chats : StartChat(s))
         \/ (\E s \in Tunnels : Spawn(s) \/ ChildExited(s) \/ PauseOver(s))
         \/ (\E c \in calls : EndRevocation(c) \/ Terminated(c))
  PROVE  Serial'
<1> USE DEF endVars, hostVars, netVars, bounds, tunnelVars
<1>1. /\ UNCHANGED <<tunnelUrl, hostToken, record, raced>> /\ calls' \subseteq calls
      /\ \A c \in calls : c.stage = "sent" => c \in calls'
      /\ phase' # "gone" => phase # "gone" /\ Registrations \subseteq calls'
      /\ revokeOnExit' /\ cleanup' \in {"revoking", "done"} =>
           revokeOnExit /\ cleanup \in {"revoking", "done"}
  <2>1. CASE EndCleanup
    BY <2>1 DEF EndCleanup, Exit, Running, Registrations
  <2>2. CASE RunOut
    BY <2>2 DEF RunOut, Exit
  <2>3. CASE Signal
    BY <2>3 DEF Signal, CleanupAll, Exit, Running, Registrations
  <2>4. CASE WaitTimeout
    BY <2>4 DEF WaitTimeout, Fatal, CleanupAll, Exit, Running, Registrations
  <2>5. CASE Leave
    BY <2>5 DEF Leave, CleanupAll, Registrations
  <2>6. CASE Open
    BY <2>6 DEF Open, Registrations
  <2>7. CASE ChatReady
    BY <2>7 DEF ChatReady, Running, Registrations
  <2>8. CASE RunHooks /\ ~Revokes
    BY <2>8 DEF RunHooks, Revokes, Running, Registrations
  <2>9. CASE \E n \in Children : Die(n)
    BY <2>9 DEF Die, Registrations
  <2>10. CASE \E s \in Chats : StartChat(s)
    BY <2>10 DEF StartChat, Choose, Registrations
  <2>11. CASE \E s \in Tunnels : Spawn(s) \/ ChildExited(s) \/ PauseOver(s)
    BY <2>11 DEF Spawn, ChildExited, PauseOver, Running, Registrations
  <2>12. CASE \E c \in calls : EndRevocation(c)
    BY <2>12 DEF EndRevocation, Running, Registrations, Revocations
  <2>13. CASE \E c \in calls : Terminated(c)
    BY <2>13 DEF Terminated, Running, Registrations, Revocations
  <2>14. QED
    BY <2>1, <2>2, <2>3, <2>4, <2>5, <2>6, <2>7, <2>8, <2>9, <2>10, <2>11, <2>12, <2>13
<1>2. QED
  BY <1>1, AsideSerial

----------------------------------------------------------------------------
\* Every action, and a step of another.
LEMMA SessionSteps ==
  ASSUME Shaped, [Next]_vars
  PROVE  Shaped' /\ (Serial => Serial')
<1>1. CASE \E c \in calls : \/ Send(c) \/ AnswerRegister(c)
                            \/ AnswerRevoke(c) \/ Lose(c)
  BY <1>1, CallsShaped, CallsSerial
<1>2. CASE \/ SessionUrl \/ (\E s \in Chats : ChatUrl(s)) \/ CloseChat
           \/ Reregister
  BY <1>2, CallingShaped, RegisteringSerial
<1>3. CASE Terminate \/ (RunHooks /\ Revokes)
  BY <1>3, CallingShaped, RevokingSerial
<1>4. CASE \E c \in calls : RegistrationDone(c)
  BY <1>4, OtherShaped, RegistrationDoneSerial
<1>5. CASE \E s \in Chats : StartChat(s)
  BY <1>5, OtherShaped, OtherSerial
<1>6. CASE \E s \in Tunnels : Spawn(s) \/ ChildExited(s) \/ PauseOver(s)
  BY <1>6, TunnelShaped, OtherSerial
<1>7. CASE RunHooks /\ ~Revokes
  BY <1>7, CallingShaped, OtherSerial
<1>8. CASE Forget
  BY <1>8, EndShaped, ForgetSerial
<1>9. CASE \/ EndCleanup \/ RunOut \/ Signal \/ WaitTimeout
           \/ Leave \/ Open \/ ChatReady
           \/ (\E n \in Children : Die(n))
           \/ (\E c \in calls : EndRevocation(c) \/ Terminated(c))
  BY <1>9, EndShaped, OtherSerial
<1>10. CASE UNCHANGED vars
  BY <1>10 DEF vars, tunnelVars, hostVars, endVars,
     netVars, bounds, Shaped, Supervised, TypeOK, Serial, InTurn,
     Registered, Revoked, Registrations
<1>11. QED
  BY <1>1, <1>2, <1>3, <1>4, <1>5, <1>6, <1>7, <1>8, <1>9, <1>10 DEF Next

\* The process as it starts.
LEMMA SessionStarts ==
  ASSUME Init
  PROVE  Shaped /\ Serial
<1>1. Shaped
  <2>1. /\ loop \in [Tunnels -> {"unborn", "locating", "running", "pausing", "over"}]
        /\ active \in [Tunnels -> {0}] /\ calls = {}
        /\ \A s \in Chats : loop[s] = "unborn"
    BY SessionNumbers DEF Init
  <2>2. TypeOK
    <3>1. /\ loop \in [Tunnels -> {"unborn", "locating", "running", "pausing", "over"}]
          /\ active \in [Tunnels -> Children \union {None}]
          /\ announced \in [Tunnels -> BOOLEAN] /\ stop \in [Tunnels -> BOOLEAN]
      BY <2>1, SessionNumbers DEF Init
    <3>2. /\ spawned \in 0..MaxSpawns /\ menuOps \in 0..MaxMenu /\ losses \in 0..MaxLosses
          /\ alive = {} /\ tracked = {} /\ calls = {}
      BY SessionNumbers DEF Init
    <3>3. /\ {tunnelUrl, hostToken, chatUrl} \subseteq Children \union {None}
          /\ chatTunnel \in Chats \union {NoChat}
          /\ record \in Record \union {NoRecord}
      BY DEF Init
    <3>4. /\ phase \in {"starting", "dashboard", "left", "gone"}
          /\ menu \in {"idle", "chat", "close", "menu", "terminate", "leaving"}
          /\ cleanup \in {"none", "hooks", "revoking", "done"}
          /\ runner \in {"nobody", "menu", "signal", "fatal"}
          /\ {chatRegistered, revokeOnExit, signalled, artifacts, raced} \subseteq BOOLEAN
      BY DEF Init
    <3>5. QED
      BY <3>1, <3>2, <3>3, <3>4 DEF TypeOK
  <2>3. Supervised
    BY <2>1, SessionNumbers DEF Init, Supervised, Registrations
  <2>4. QED
    BY <2>2, <2>3 DEF Shaped
<1>2. Serial
  BY DEF Init, Serial, InTurn, Registered, Revoked, Registrations
<1>3. QED
  BY <1>1, <1>2

\* The invariant of the host process: its calls, children and wishes agree, and unless
\* registrations overlap the broker keeps what the host last told it.
LEMMA SessionSound ==
  Spec => [](Shaped /\ Serial)
<1>1. Init => Shaped /\ Serial
  BY SessionStarts
<1>2. (Shaped /\ Serial) /\ [Next]_vars => (Shaped /\ Serial)'
  BY SessionSteps
<1>3. QED
  BY <1>1, <1>2, PTL DEF Spec

\* The variables of a host process keep their types, every payload has a URL and a token:
\* tunnel.js, client/broker.js, cleanup.js.
THEOREM SessionTypes ==
  Spec => []TypeOK
<1>1. Shaped /\ Serial => TypeOK
  BY DEF Shaped
<1>2. QED
  BY <1>1, SessionSound, PTL

\* registerWithBroker() called from the tunnel's callback, the chat's, onClose and the
\* dashboard: as long as no two calls overlap, the record has the URL announced last.
THEOREM UrlIsCurrent ==
  Spec => []SerialUrlCurrent
<1>1. Shaped /\ Serial => SerialUrlCurrent
  BY DEF Serial, Registered, SerialUrlCurrent, Running
<1>2. QED
  BY <1>1, SessionSound, PTL

\* registerWithBroker() sends the token it was given back: the record answers to it also
\* after the broker forgot the session, as long as no two calls overlap.
THEOREM TokenIsKept ==
  Spec => []SerialTokenKept
<1>1. Shaped /\ Serial => SerialTokenKept
  BY DEF Serial, Registered, SerialTokenKept, None
<1>2. QED
  BY <1>1, SessionSound, PTL

\* cleanupAll() after setRevokeOnExit(): a session that ended is not in the broker, whoever
\* ended it, unless a registration overlapped the cleanup or the revocation was lost.
THEOREM EndIsRevoked ==
  Spec => []SerialEndRevoked
<1>1. Shaped /\ Serial => SerialEndRevoked
  BY DEF Serial, Revoked, SerialEndRevoked
<1>2. QED
  BY <1>1, SessionSound, PTL

----------------------------------------------------------------------------
(* The logs.                                                               *)

LEMMA Limits ==
  /\ Sizes \subseteq Nat \ {0} /\ MaxSession \in Nat /\ MaxHistory \in Nat
  /\ FlushBytes \in Nat /\ MaxLines \in Nat /\ MaxCleanups \in Nat
  /\ \A n \in Sizes : n <= MaxSession /\ n <= MaxHistory
  /\ Absent = -1 /\ Null = -1
BY LogAssumption DEF LogAssumption, Absent, Null

----------------------------------------------------------------------------
(* The session logs.  What is in the file and the buffer was counted; a log *)
(* that is closed has neither, so that no timer can bring its file back.    *)

Typed ==
  /\ open \in [Processes -> BOOLEAN]
  /\ disabled \in [Processes -> BOOLEAN]
  /\ timer \in [Processes -> BOOLEAN]
  /\ bytes \in [Processes -> Nat]
  /\ buffer \in [Processes -> Nat]
  /\ file \in [Processes -> Nat \cup {Absent}]

\* bytes never exceeds the limit, nor does what it stands for.
Capped(p) ==
  /\ bytes[p] <= MaxSession
  /\ open[p] => Length(file[p]) + buffer[p] <= bytes[p]
  /\ ~open[p] => file[p] = Absent /\ buffer[p] = 0

Logs == Typed /\ \A p \in Processes : Capped(p)

LEMMA Lengths == \A f \in Nat \cup {Absent} : Length(f) \in Nat /\ (f # Absent => Length(f) = f)
BY Limits DEF Length

\* flushSessionLog() keeps a log of which b bytes were counted within them.
LEMMA FlushKeeps ==
  ASSUME Typed, NEW p \in Processes, NEW n \in Nat, NEW ok \in BOOLEAN, NEW b \in Nat,
         Flush(p, open[p], n, ok),
         open[p] => Length(file[p]) + n <= b, ~open[p] => file[p] = Absent /\ n = 0
  PROVE  /\ timer' \in [Processes -> BOOLEAN] /\ disabled' \in [Processes -> BOOLEAN]
         /\ buffer' \in [Processes -> Nat] /\ file' \in [Processes -> Nat \cup {Absent}]
         /\ open[p] => Length(file'[p]) + buffer'[p] <= b
         /\ ~open[p] => file'[p] = Absent /\ buffer'[p] = 0
         /\ \A q \in Processes \ {p} : file'[q] = file[q] /\ buffer'[q] = buffer[q]
<1>1. file[p] \in Nat \cup {Absent} /\ Length(file[p]) \in Nat
  BY Lengths DEF Typed
<1>2. timer' \in [Processes -> BOOLEAN]
  BY DEF Flush, Typed
<1>3. CASE Writable(open[p], n) /\ ok
  <2>1. /\ buffer' = [buffer EXCEPT ![p] = 0]
        /\ file' = [file EXCEPT ![p] = Length(file[p]) + n]
        /\ disabled' = [disabled EXCEPT ![p] = disabled[p] \/ ~ok]
    BY <1>3 DEF Flush
  <2>2. Length(file'[p]) = Length(file[p]) + n /\ open[p]
    <3>1. Length(file[p]) + n \in Nat /\ Length(file[p]) + n # Absent
      BY <1>1, Limits
    <3>2. file'[p] = Length(file[p]) + n /\ Length(Length(file[p]) + n) = Length(file[p]) + n
      BY <2>1, <3>1, Lengths DEF Typed
    <3>3. QED
      BY <1>3, <3>2 DEF Writable
  <2>3. disabled' \in [Processes -> BOOLEAN]
    BY <2>1 DEF Typed
  <2>4. QED
    BY <1>1, <1>2, <2>1, <2>2, <2>3 DEF Typed
<1>4. CASE Writable(open[p], n) /\ ~ok
  <2>1. /\ buffer' = [buffer EXCEPT ![p] = 0] /\ file' = file
        /\ disabled' = [disabled EXCEPT ![p] = disabled[p] \/ ~ok]
    BY <1>4 DEF Flush
  <2>2. disabled' \in [Processes -> BOOLEAN]
    BY <2>1 DEF Typed
  <2>3. QED
    BY <1>1, <1>2, <1>4, <2>1, <2>2 DEF Typed, Writable
<1>5. CASE ~Writable(open[p], n)
  <2>1. buffer' = [buffer EXCEPT ![p] = n] /\ file' = file /\ disabled' = disabled
    BY <1>5 DEF Flush
  <2>2. QED
    BY <1>1, <1>2, <2>1 DEF Typed
<1>6. QED
  BY <1>3, <1>4, <1>5

\* logSessionEvent(), by itself or for an event of the history.
LEMMA AppendKeeps ==
  ASSUME Logs, NEW p \in Processes, NEW n \in Sizes, NEW ok \in BOOLEAN, Append(p, n, ok)
  PROVE  Logs'
<1>1. /\ n \in Nat /\ buffer[p] \in Nat /\ bytes[p] \in Nat /\ Length(file[p]) \in Nat
      /\ open[p] \in BOOLEAN
  BY Limits, Lengths DEF Logs, Typed
<1>2. CASE ~open[p] \/ disabled[p]
  BY <1>2 DEF Append, Logs, Typed, Capped, memory
<1>3. CASE ~(~open[p] \/ disabled[p]) /\ ~Fits(p, n)
  <2>1. /\ disabled' = [disabled EXCEPT ![p] = TRUE]
        /\ UNCHANGED <<open, bytes, buffer, timer, file>>
    BY <1>3 DEF Append
  <2>2. QED
    BY <2>1 DEF Logs, Typed, Capped
<1>4. CASE ~(~open[p] \/ disabled[p]) /\ Fits(p, n)
  <2>1. /\ bytes' = [bytes EXCEPT ![p] = bytes[p] + n] /\ open' = open
        /\ bytes' \in [Processes -> Nat]
        /\ open[p] /\ bytes[p] + n <= MaxSession
    BY <1>1, <1>4 DEF Append, Logs, Typed, Fits
  <2>2. Length(file[p]) + (buffer[p] + n) <= bytes[p] + n
    BY <1>1, <2>1 DEF Logs, Capped
  <2>3. CASE buffer[p] + n >= FlushBytes
    <3>1. PICK m \in Nat, b \in Nat : m = buffer[p] + n /\ b = bytes[p] + n
      BY <1>1
    <3>2. /\ Flush(p, open[p], m, ok) /\ Length(file[p]) + m <= b
          /\ Typed /\ (~open[p] => file[p] = Absent /\ m = 0)
      <4>1. Flush(p, open[p], m, ok)
        BY <1>4, <2>3, <3>1 DEF Append
      <4>2. Typed
        BY DEF Logs
      <4>3. QED
        BY <2>1, <2>2, <3>1, <4>1, <4>2
    <3>3. /\ timer' \in [Processes -> BOOLEAN] /\ disabled' \in [Processes -> BOOLEAN]
          /\ buffer' \in [Processes -> Nat] /\ file' \in [Processes -> Nat \cup {Absent}]
          /\ Length(file'[p]) + buffer'[p] <= bytes[p] + n
          /\ \A q \in Processes \ {p} : file'[q] = file[q] /\ buffer'[q] = buffer[q]
      <4>1. Length(file'[p]) + buffer'[p] <= b
        BY ZenonT(60), <2>1, <3>2, FlushKeeps
      <4>2. QED
        BY <3>1, <3>2, <4>1, FlushKeeps
    <3>4. Typed'
      BY <2>1, <3>3 DEF Logs, Typed
    <3>5. ASSUME NEW q \in Processes \ {p} PROVE Capped(q)'
      BY <2>1, <3>3 DEF Logs, Typed, Capped, Length
    <3>6. Capped(p)'
      BY <1>1, <2>1, <3>3 DEF Logs, Typed, Capped, Length
    <3>7. QED
      BY <3>4, <3>5, <3>6 DEF Logs
  <2>4. CASE ~(buffer[p] + n >= FlushBytes)
    <3>1. /\ buffer' = [buffer EXCEPT ![p] = buffer[p] + n]
          /\ timer' = [timer EXCEPT ![p] = TRUE]
          /\ UNCHANGED <<file, disabled>>
      BY <1>4, <2>4 DEF Append, Schedule
    <3>2. Typed'
      BY <1>1, <2>1, <3>1 DEF Logs, Typed
    <3>3. ASSUME NEW q \in Processes \ {p} PROVE Capped(q)'
      BY <2>1, <3>1 DEF Logs, Typed, Capped, Length
    <3>4. Capped(p)'
      BY <1>1, <2>1, <2>2, <3>1 DEF Logs, Typed, Capped, Length
    <3>5. QED
      BY <3>2, <3>3, <3>4 DEF Logs
  <2>5. QED
    BY <2>3, <2>4
<1>5. QED
  BY <1>2, <1>3, <1>4

LEMMA LogsStep ==
  ASSUME Logs, LogNext
  PROVE  Logs'
<1> PICK p \in Processes :
      \/ \E n \in Sizes, ok \in BOOLEAN : LogEvent(p, n, ok)
      \/ \E n \in Sizes, ok \in BOOLEAN : RecordEvent(p, n, ok)
      \/ \E n \in Sizes : RecordFails(p, n)
      \/ \E n \in Sizes, stale \in SUBSET (Processes \ {p}) : Start(p, n, stale)
      \/ \E noted \in BOOLEAN : StartFails(p, noted)
      \/ \E ok \in BOOLEAN : FlushTimer(p, ok)
      \/ \E ok \in BOOLEAN : Cleanup(p, ok)
  BY DEF LogNext
<1>1. buffer[p] \in Nat /\ bytes[p] \in Nat /\ Length(file[p]) \in Nat /\ Capped(p)
  BY Lengths DEF Logs, Typed
<1>2. CASE \E n \in Sizes, ok \in BOOLEAN : LogEvent(p, n, ok) \/ RecordEvent(p, n, ok)
  BY <1>2, AppendKeeps DEF LogEvent, RecordEvent
<1>3. ASSUME NEW n \in Sizes, RecordFails(p, n) PROVE Logs'
  BY <1>3 DEF RecordFails, Logs, Typed, Capped, memory
<1>4. ASSUME NEW n \in Sizes, NEW stale \in SUBSET (Processes \ {p}), Start(p, n, stale) PROVE Logs'
  <2>1. n \in Nat /\ n <= MaxSession
    BY Limits
  <2>2. Typed'
    BY <1>4, <2>1 DEF Start, Logs, Typed
  <2>3. /\ open'[p] /\ file'[p] = 0 /\ bytes'[p] = n /\ buffer'[p] = n
        /\ \A q \in Processes \ {p} :
             /\ open'[q] = open[q] /\ bytes'[q] = bytes[q] /\ buffer'[q] = buffer[q]
             /\ file'[q] = Absent \/ file'[q] = file[q]
    BY <1>4 DEF Start, Logs, Typed
  <2>4. Capped(p)'
    BY <2>1, <2>3, Lengths, Limits DEF Capped
  <2>5. ASSUME NEW q \in Processes \ {p} PROVE Capped(q)'
    <3>1. Capped(q) /\ Length(file[q]) \in Nat /\ Length(Absent) = 0 /\ buffer[q] \in Nat
      BY Lengths DEF Logs, Typed, Length
    <3>2. QED
      BY <2>3, <3>1 DEF Capped, Length, Logs, Typed
  <2>6. QED
    BY <2>2, <2>4, <2>5 DEF Logs
<1>5. ASSUME NEW noted \in BOOLEAN, StartFails(p, noted) PROVE Logs'
  <2>1. /\ open' = [open EXCEPT ![p] = noted] /\ disabled' = [disabled EXCEPT ![p] = TRUE]
        /\ ~open[p] /\ UNCHANGED <<bytes, buffer, timer, file>>
    BY <1>5 DEF StartFails
  <2>2. Typed'
    BY <2>1 DEF Logs, Typed
  <2>3. file[p] = Absent /\ buffer[p] = 0
    BY <1>1, <2>1 DEF Capped
  <2>4. QED
    BY <1>1, <2>1, <2>2, <2>3 DEF Logs, Typed, Capped, Length
<1>6. ASSUME NEW ok \in BOOLEAN, FlushTimer(p, ok) PROVE Logs'
  <2>1. Flush(p, open[p], buffer[p], ok) /\ UNCHANGED <<open, bytes>>
    BY <1>6 DEF FlushTimer
  <2>2. /\ timer' \in [Processes -> BOOLEAN] /\ disabled' \in [Processes -> BOOLEAN]
        /\ buffer' \in [Processes -> Nat] /\ file' \in [Processes -> Nat \cup {Absent}]
        /\ open[p] => Length(file'[p]) + buffer'[p] <= bytes[p]
        /\ ~open[p] => file'[p] = Absent /\ buffer'[p] = 0
        /\ \A q \in Processes \ {p} : file'[q] = file[q] /\ buffer'[q] = buffer[q]
    BY <1>1, <2>1, FlushKeeps DEF Logs, Capped
  <2>3. QED
    BY <2>1, <2>2 DEF Logs, Typed, Capped, Length
<1>7. ASSUME NEW ok \in BOOLEAN, Cleanup(p, ok) PROVE Logs'
  <2>1. CASE open[p]
    <3>1. /\ open' = [open EXCEPT ![p] = FALSE] /\ file' = [file EXCEPT ![p] = Absent]
          /\ buffer' = [buffer EXCEPT ![p] = 0] /\ timer' = [timer EXCEPT ![p] = FALSE]
          /\ disabled' \in [Processes -> BOOLEAN] /\ UNCHANGED bytes
      BY <1>7, <2>1 DEF Cleanup, Logs, Typed
    <3>2. QED
      BY <3>1 DEF Logs, Typed, Capped, Length
  <2>2. CASE ~open[p]
    BY <1>7, <2>2 DEF Cleanup, Logs, Typed, Capped
  <2>3. QED
    BY <2>1, <2>2
<1>8. QED
  BY <1>2, <1>3, <1>4, <1>5, <1>6, <1>7

LEMMA LogsInit == LogInit => Logs
BY Limits DEF LogInit, Everywhere, Logs, Typed, Capped

LEMMA LogsInvariance == LogSpec => []Logs
<1>1. Logs /\ [LogNext]_logVars => Logs'
  <2>1. Logs /\ UNCHANGED logVars => Logs'
    BY DEF Logs, Typed, Capped, logVars, memory
  <2>2. QED
    BY <2>1, LogsStep
<1>2. QED
  BY <1>1, LogsInit, PTL DEF LogSpec

\* logSessionEvent: what a session log holds and is still to get stays within
\* MAX_SESSION_LOG_BYTES, although its file may be removed as stale by another process,
\* writes may fail and a process may start one log after the other.
THEOREM Capping == LogSpec => []SessionCapped
<1>1. Logs => SessionCapped
  <2>1. SUFFICES ASSUME Logs, NEW p \in Processes
                 PROVE  Length(file[p]) + buffer[p] <= MaxSession
    BY DEF SessionCapped
  <2>2. /\ Capped(p) /\ Length(file[p]) \in Nat /\ buffer[p] \in Nat /\ bytes[p] \in Nat
        /\ Length(Absent) = 0
    BY <2>1, Lengths DEF Logs, Typed, Length
  <2>3. QED
    BY <2>2, Limits DEF Capped
<1>2. QED
  BY <1>1, LogsInvariance, PTL

\* cleanupSessionLog: a timer that fires after the cleanup of a process does not create
\* its log anew, because nothing is left in the buffer and no path is set.
THEOREM ClosedGone == LogSpec => []ClosedLogIsGone
<1>1. Logs => ClosedLogIsGone
  BY DEF Logs, Capped, ClosedLogIsGone
<1>2. QED
  BY <1>1, LogsInvariance, PTL

----------------------------------------------------------------------------
(* The history.                                                            *)

HistoryTyped ==
  /\ cached \in [Processes -> Nat \cup {Null}]
  /\ history \in Nat \cup {Absent}
  /\ previous \in Nat \cup {Absent}
  /\ lines \in [Processes -> 0..MaxLines]
  /\ cleanups \in [Processes -> 0..MaxCleanups]

LEMMA Believing ==
  ASSUME HistoryTyped, NEW p \in Processes
  PROVE  Believed(p) \in Nat /\ Length(history) \in Nat
<1>1. Length(history) \in Nat
  BY Lengths DEF HistoryTyped
<1>2. QED
  BY <1>1 DEF Believed, HistoryTyped

LEMMA CountedKeeps ==
  ASSUME HistoryTyped, NEW p \in Processes, Counted(p)
  PROVE  lines' \in [Processes -> 0..MaxLines] /\ cleanups' \in [Processes -> 0..MaxCleanups]
BY Limits DEF HistoryTyped, Counted

LEMMA HistoryTypedStep ==
  ASSUME HistoryTyped, LogNext
  PROVE  HistoryTyped'
<1> PICK p \in Processes :
      \/ \E n \in Sizes, ok \in BOOLEAN : LogEvent(p, n, ok)
      \/ \E n \in Sizes, ok \in BOOLEAN : RecordEvent(p, n, ok)
      \/ \E n \in Sizes : RecordFails(p, n)
      \/ \E n \in Sizes, stale \in SUBSET (Processes \ {p}) : Start(p, n, stale)
      \/ \E noted \in BOOLEAN : StartFails(p, noted)
      \/ \E ok \in BOOLEAN : FlushTimer(p, ok)
      \/ \E ok \in BOOLEAN : Cleanup(p, ok)
  BY DEF LogNext
<1>1. Believed(p) \in Nat /\ Length(history) \in Nat
  BY Believing
<1>2. ASSUME NEW n \in Sizes, NEW ok \in BOOLEAN, RecordEvent(p, n, ok) PROVE HistoryTyped'
  <2>1. n \in Nat
    BY Limits
  <2>2. Counted(p)
    BY <1>2 DEF RecordEvent
  <2>3. CASE Full(p, n)
    <3>1. /\ cached' = [cached EXCEPT ![p] = n] /\ history' = n
          /\ previous' \in {history, previous, Absent}
      BY <1>2, <2>3 DEF RecordEvent
    <3>2. QED
      BY <2>1, <2>2, <3>1, CountedKeeps DEF HistoryTyped
  <2>4. CASE ~Full(p, n)
    <3>1. /\ cached' = [cached EXCEPT ![p] = Believed(p) + n]
          /\ history' = Length(history) + n /\ previous' = previous
      BY <1>2, <2>4 DEF RecordEvent
    <3>2. QED
      BY <1>1, <2>1, <2>2, <3>1, CountedKeeps DEF HistoryTyped
  <2>5. QED
    BY <2>3, <2>4
<1>3. ASSUME NEW n \in Sizes, RecordFails(p, n) PROVE HistoryTyped'
  <2>1. Counted(p)
    BY <1>3 DEF RecordFails
  <2>2. CASE Full(p, n)
    <3>1. cached' = [cached EXCEPT ![p] = 0] /\ Rotated
      BY <1>3, <2>2 DEF RecordFails
    <3>2. QED
      BY <2>1, <3>1, CountedKeeps DEF HistoryTyped, Rotated
  <2>3. CASE ~Full(p, n)
    <3>1. cached' = [cached EXCEPT ![p] = Believed(p)] /\ UNCHANGED <<history, previous>>
      BY <1>3, <2>3 DEF RecordFails
    <3>2. QED
      BY <1>1, <2>1, <3>1, CountedKeeps DEF HistoryTyped
  <2>4. QED
    BY <2>2, <2>3
<1>4. CASE UNCHANGED shared /\ (Counted(p) \/ UNCHANGED counts)
  BY <1>4, CountedKeeps DEF HistoryTyped, shared, counts
<1>5. CASE \E ok \in BOOLEAN : Cleanup(p, ok)
  BY <1>5, Limits DEF Cleanup, HistoryTyped
<1>6. QED
  BY <1>2, <1>3, <1>4, <1>5 DEF LogEvent, Start, StartFails, FlushTimer

\* The types of the logs' state, with the limit on what a session log counts, buffers
\* and holds on the disk.
THEOREM LogTypes == LogSpec => []LogTypeOK
<1>1. LogInit => HistoryTyped
  BY Limits DEF LogInit, Everywhere, HistoryTyped
<1>2. HistoryTyped /\ [LogNext]_logVars => HistoryTyped'
  <2>1. HistoryTyped /\ UNCHANGED logVars => HistoryTyped'
    BY DEF HistoryTyped, logVars, shared, counts
  <2>2. QED
    BY <2>1, HistoryTypedStep
<1>3. Logs /\ HistoryTyped => LogTypeOK
  <2> SUFFICES ASSUME Logs, HistoryTyped PROVE LogTypeOK
    OBVIOUS
  <2>1. ASSUME NEW p \in Processes
        PROVE  /\ bytes[p] \in 0..MaxSession /\ buffer[p] \in 0..MaxSession
               /\ file[p] \in 0..MaxSession \cup {Absent}
    <3>1. /\ Capped(p) /\ Length(file[p]) \in Nat /\ (file[p] # Absent => Length(file[p]) = file[p])
          /\ bytes[p] \in Nat /\ buffer[p] \in Nat /\ file[p] \in Nat \cup {Absent}
          /\ open[p] \in BOOLEAN
      BY Lengths DEF Logs, Typed
    <3>2. QED
      BY <3>1, Limits DEF Capped
  <2>2. /\ bytes \in [Processes -> 0..MaxSession] /\ buffer \in [Processes -> 0..MaxSession]
        /\ file \in [Processes -> 0..MaxSession \cup {Absent}]
    BY <2>1 DEF Logs, Typed
  <2>3. QED
    BY <2>2 DEF Logs, Typed, HistoryTyped, LogTypeOK
<1>4. QED
  BY <1>1, <1>2, <1>3, LogsInvariance, PTL DEF LogSpec

\* recordEvent keeps the history and the file it was rotated into within the limit as long
\* as one process appends to them: what it believes of the history's size is never less
\* than the truth.
THEOREM OneProcess ==
  ASSUME NEW p, Processes = {p}
  PROVE  LogSpec => []HistoryCapped
<1> DEFINE Known == /\ HistoryTyped
                    /\ Length(history) <= Believed(p) /\ Believed(p) <= MaxHistory
                    /\ Length(previous) <= MaxHistory
<1>1. LogInit => Known
  <2> SUFFICES ASSUME LogInit PROVE Known
    OBVIOUS
  <2>1. HistoryTyped
    BY Limits DEF LogInit, Everywhere, HistoryTyped
  <2>2. history = Absent /\ previous = Absent /\ cached[p] = Null
    BY DEF LogInit, Everywhere
  <2>3. QED
    BY <2>1, <2>2, Limits DEF Believed, Length
<1>2. ASSUME Known, LogNext PROVE Known'
  <2>1. HistoryTyped'
    BY <1>2, HistoryTypedStep
  <2>2. /\ Believed(p) \in Nat /\ Length(history) \in Nat /\ Length(Absent) = 0 /\ Length(0) = 0
        /\ Length(previous) \in Nat /\ MaxHistory \in Nat
    BY <1>2, Believing, Lengths, Limits DEF HistoryTyped, Length
  <2>3. CASE UNCHANGED shared
    BY <1>2, <2>1, <2>3 DEF shared, Believed
  <2>4. CASE \E ok \in BOOLEAN : Cleanup(p, ok)
    <3>1. history' = Absent /\ previous' = Absent /\ cached' = cached
      BY <2>4 DEF Cleanup
    <3>2. Length(history') = 0 /\ Length(previous') = 0
      BY <2>2, <3>1
    <3>3. Believed(p)' = (IF cached[p] = Null THEN 0 ELSE cached[p])
      BY <3>1, <3>2 DEF Believed
    <3>4. cached[p] # Null => Believed(p) = cached[p]
      BY DEF Believed
    <3>5. Believed(p)' \in Nat
      BY <2>1, <3>1, Believing, <3>3, <3>4, <2>2
    <3>6. QED
      BY <1>2, <2>1, <2>2, <3>2, <3>3, <3>4, <3>5
  <2>5. ASSUME NEW n \in Sizes, NEW ok \in BOOLEAN, RecordEvent(p, n, ok) PROVE Known'
    <3>1. n \in Nat /\ n <= MaxHistory /\ n # Null
      BY Limits
    <3>2. \A k \in Nat : Length(k) = k
      BY Lengths, Limits
    <3>3. CASE Full(p, n)
      <4>1. /\ cached' = [cached EXCEPT ![p] = n] /\ history' = n
            /\ previous' \in {history, previous, Absent}
        BY <2>5, <3>3 DEF RecordEvent
      <4>2. Believed(p)' = n
        BY <1>2, <3>1, <4>1 DEF Believed, HistoryTyped
      <4>3. Length(previous') <= MaxHistory
        BY <1>2, <2>2, <4>1
      <4>4. QED
        BY <2>1, <3>1, <3>2, <4>1, <4>2, <4>3
    <3>4. CASE ~Full(p, n)
      <4>1. /\ cached' = [cached EXCEPT ![p] = Believed(p) + n]
            /\ history' = Length(history) + n /\ previous' = previous
        BY <2>5, <3>4 DEF RecordEvent
      <4>2. Believed(p) + n <= MaxHistory /\ Believed(p) + n # Null
        BY <2>2, <3>1, <3>4, Limits DEF Full
      <4>3. Believed(p)' = Believed(p) + n
        BY <1>2, <4>1, <4>2 DEF Believed, HistoryTyped
      <4>4. Length(history') = Length(history) + n
        BY <2>2, <3>1, <3>2, <4>1
      <4>5. QED
        BY <1>2, <2>1, <2>2, <3>1, <4>1, <4>2, <4>3, <4>4
    <3>5. QED
      BY <3>3, <3>4
  <2>6. ASSUME NEW n \in Sizes, RecordFails(p, n) PROVE Known'
    <3>1. CASE Full(p, n)
      <4>1. cached' = [cached EXCEPT ![p] = 0] /\ Rotated
        BY <2>6, <3>1 DEF RecordFails
      <4>2. Believed(p)' = 0
        BY <1>2, <4>1, Limits DEF Believed, HistoryTyped
      <4>3. Length(history') = 0 /\ Length(previous') <= MaxHistory
        BY <1>2, <2>2, <4>1 DEF Rotated
      <4>4. QED
        BY <2>1, <2>2, <4>2, <4>3
    <3>2. CASE ~Full(p, n)
      <4>1. cached' = [cached EXCEPT ![p] = Believed(p)] /\ UNCHANGED <<history, previous>>
        BY <2>6, <3>2 DEF RecordFails
      <4>2. Believed(p)' = Believed(p)
        BY <1>2, <2>2, <4>1 DEF Believed, HistoryTyped
      <4>3. QED
        BY <1>2, <2>1, <4>1, <4>2
    <3>3. QED
      BY <3>1, <3>2
  <2>7. QED
    BY <1>2, <2>3, <2>4, <2>5, <2>6 DEF LogNext, LogEvent, Start, StartFails, FlushTimer
<1>3. Known /\ UNCHANGED logVars => Known'
  BY DEF HistoryTyped, Believed, logVars, shared, counts
<1>4. Known => HistoryCapped
  <2> SUFFICES ASSUME Known PROVE HistoryCapped
    OBVIOUS
  <2>1. Believed(p) \in Nat /\ Length(history) \in Nat /\ MaxHistory \in Nat
    BY Believing, Limits
  <2>2. QED
    BY <2>1 DEF HistoryCapped
<1>5. QED
  BY <1>1, <1>2, <1>3, <1>4, PTL DEF LogSpec
=============================================================================
