---------------------------- MODULE HostSession ----------------------------
(***************************************************************************)
(* A host process: the supervised tunnels (lib/services/tunnel.js), their  *)
(* registration with the broker (lib/client/broker.js), the operations of  *)
(* the dashboard that register or revoke (modes/host.js), and the way the  *)
(* process ends (lib/mod/cleanup.js).  All of it runs on one event loop,   *)
(* so an action is the code between two awaits.                            *)
(*                                                                         *)
(* Abstractions: a child is the number of its start and also its URL; the  *)
(* broker keeps one record, that of this host; timers may fire at any      *)
(* time; all that the cleanup hooks remove is one flag.  Killing a child   *)
(* takes effect at once, as on POSIX.                                      *)
(***************************************************************************)
EXTENDS Naturals, FiniteSets

CONSTANTS
  Chats,      \* the chat rooms the host may open, one after the other
  MaxSpawns,  \* bound: children ever started
  MaxMenu,    \* bound: dashboard operations other than leaving
  MaxLosses,  \* bound: times the broker forgets the record
  Faulty      \* whether the network may lose a request or an answer

ASSUME HostAssumption ==
  /\ IsFiniteSet(Chats)
  /\ "session" \notin Chats
  /\ MaxSpawns \in Nat /\ MaxMenu \in Nat /\ MaxLosses \in Nat
  /\ Faulty \in BOOLEAN

VARIABLES
  loop,      \* tunnel -> where its supervision loop is
  active,    \* tunnel -> activeChild, or None
  announced, \* tunnel -> the child's URL was seen (resolved)
  stop,      \* tunnel -> isShuttingDown
  spawned,   \* number of children ever started
  alive,     \* the children running
  tracked,   \* trackedPIDs
  tunnelUrl, hostToken,  \* sessionState
  chatUrl,   \* serviceConfig.chatUrl, or None
  chatTunnel,     \* chatTunnelProcess, or NoChat
  chatRegistered, \* chatBrokerRegistered
  phase,     \* of the process: "starting", "dashboard", "left" or "gone"
  menu,      \* what the dashboard is waiting for
  revokeOnExit, \* setRevokeOnExit was called
  cleanup,   \* where cleanupAll is
  runner,    \* who runs cleanupAll
  signalled, \* shuttingDown in the signal handlers
  artifacts, \* the key, folder and log that the hooks remove are there
  calls,     \* calls to the broker under way
  record,    \* the broker's record of this host, or NoRecord
  menuOps, losses, \* counted against their bounds
  raced      \* history: a registration was made during another call or the cleanup,
             \* or a revocation was lost

tunnelVars == <<loop, active, announced, stop, spawned, alive, tracked>>
hostVars == <<tunnelUrl, hostToken, chatUrl, chatTunnel, chatRegistered>>
endVars == <<revokeOnExit, cleanup, runner, signalled, artifacts>>
netVars == <<calls, raced>>
bounds == <<menuOps, losses>>
vars == <<tunnelVars, hostVars, phase, menu, endVars, netVars, record, bounds>>

None == 0
NoChat == "session"
Tunnels == {"session"} \cup Chats
Children == 1..MaxSpawns

\* url and token are numbers of children: the random token of a registration
\* without one is named after its URL.
Record == [url : Children, chat : Children \cup {None}, token : Children]
NoRecord == [url |-> None]

Kinds == {"tunnel", "chat", "close", "menu", "terminate", "exit"}
Revocations == {"terminate", "exit"}
Stages == {"preparing", "sent", "accepted", "failed"}
Call == [kind : Kinds, url : Children \cup {None}, chat : Children \cup {None},
         token : Children \cup {None}, stage : Stages]

TypeOK ==
  /\ loop \in [Tunnels -> {"unborn", "locating", "running", "pausing", "over"}]
  /\ active \in [Tunnels -> Children \cup {None}]
  /\ announced \in [Tunnels -> BOOLEAN]
  /\ stop \in [Tunnels -> BOOLEAN]
  /\ spawned \in 0..MaxSpawns
  /\ alive \subseteq {active[s] : s \in Tunnels}
  /\ tracked \subseteq Children
  /\ {tunnelUrl, hostToken, chatUrl} \subseteq Children \cup {None}
  /\ chatTunnel \in Chats \cup {NoChat}
  /\ chatRegistered \in BOOLEAN
  /\ phase \in {"starting", "dashboard", "left", "gone"}
  /\ menu \in {"idle", "chat", "close", "menu", "terminate", "leaving"}
  /\ revokeOnExit \in BOOLEAN
  /\ cleanup \in {"none", "hooks", "revoking", "done"}
  /\ runner \in {"nobody", "menu", "signal", "fatal"}
  /\ signalled \in BOOLEAN
  /\ artifacts \in BOOLEAN
  /\ calls \subseteq Call
  /\ record \in Record \cup {NoRecord}
  /\ menuOps \in 0..MaxMenu
  /\ losses \in 0..MaxLosses
  /\ raced \in BOOLEAN

\* The process as it starts to supervise the session's tunnel, its key injected.
Init ==
  /\ loop = [s \in Tunnels |-> IF s = "session" THEN "locating" ELSE "unborn"]
  /\ active = [s \in Tunnels |-> None]
  /\ announced = [s \in Tunnels |-> FALSE]
  /\ stop = [s \in Tunnels |-> FALSE]
  /\ spawned = 0
  /\ alive = {}
  /\ tracked = {}
  /\ tunnelUrl = None /\ hostToken = None /\ chatUrl = None
  /\ chatTunnel = NoChat
  /\ chatRegistered = FALSE
  /\ phase = "starting"
  /\ menu = "idle"
  /\ revokeOnExit = FALSE
  /\ cleanup = "none"
  /\ runner = "nobody"
  /\ signalled = FALSE
  /\ artifacts = TRUE
  /\ calls = {}
  /\ record = NoRecord
  /\ menuOps = 0
  /\ losses = 0
  /\ raced = FALSE

Running == phase # "gone"

----------------------------------------------------------------------------
(* Calls to the broker.                                                    *)

Registrations == {c \in calls : c.kind \notin Revocations}

\* registerWithBroker() for kind, called with this URL and this token.  A silent
\* call reads the chat's URL at once, any other after its 600 milliseconds.
Registering(kind, url, chat, token, silent) ==
  /\ calls' = calls \cup {[kind |-> kind, url |-> url,
                           chat |-> IF silent THEN chat ELSE None,
                           token |-> IF token = None THEN url ELSE token,
                           stage |-> IF silent THEN "sent" ELSE "preparing"]}
  /\ raced' = (raced \/ calls # {} \/ cleanup # "none")

\* revokeUID(), and the revocation of cleanupAll().
Revoking(kind) ==
  /\ calls' = calls \cup {[kind |-> kind, url |-> None, chat |-> None,
                           token |-> hostToken, stage |-> "sent"]}
  /\ raced' = (raced \/ Registrations # {})

\* The call c moves on to a stage.
Moved(c, stage) == (calls \ {c}) \cup {[c EXCEPT !.stage = stage]}

\* The 600 milliseconds are over: the payload is built, encrypted and sent.
Send(c) ==
  /\ Running
  /\ c.stage = "preparing"
  /\ calls' = (calls \ {c}) \cup {[c EXCEPT !.stage = "sent", !.chat = chatUrl]}
  /\ UNCHANGED <<tunnelVars, hostVars, phase, menu, endVars, record, bounds, raced>>

\* The broker on a registration: a record admits only its own token.
AnswerRegister(c) ==
  /\ c.kind \notin Revocations
  /\ c.stage = "sent"
  /\ IF record = NoRecord \/ record.token = c.token
     THEN /\ record' = [url |-> c.url, chat |-> c.chat, token |-> c.token]
          /\ calls' = Moved(c, "accepted")
     ELSE /\ calls' = Moved(c, "failed")
          /\ UNCHANGED record
  /\ UNCHANGED <<tunnelVars, hostVars, phase, menu, endVars, bounds, raced>>

\* The broker on a revocation.
AnswerRevoke(c) ==
  /\ c.kind \in Revocations
  /\ c.stage = "sent"
  /\ IF record # NoRecord /\ record.token = c.token
     THEN record' = NoRecord /\ calls' = Moved(c, "accepted")
     ELSE calls' = Moved(c, "failed") /\ UNCHANGED record
  /\ UNCHANGED <<tunnelVars, hostVars, phase, menu, endVars, bounds, raced>>

\* The request or its answer is lost.
Lose(c) ==
  /\ Faulty
  /\ c.stage \in {"sent", "accepted"}
  /\ calls' = Moved(c, "failed")
  /\ raced' = (raced \/ c.kind \in Revocations)
  /\ UNCHANGED <<tunnelVars, hostVars, phase, menu, endVars, record, bounds>>

\* The broker forgets the record: it expires, is pruned, or the broker restarts.
Forget ==
  /\ record # NoRecord
  /\ losses < MaxLosses
  /\ losses' = losses + 1
  /\ record' = NoRecord
  /\ UNCHANGED <<tunnelVars, hostVars, phase, menu, endVars, netVars, menuOps>>

----------------------------------------------------------------------------
(* The end of the process.                                                 *)

\* process.exit(): execa kills the children; requests already sent may arrive.
Exit ==
  /\ phase' = "gone"
  /\ alive' = {}
  /\ calls' = {c \in calls : c.stage = "sent"}

\* cleanupAll() up to its first await: the tracked children are killed.
CleanupAll(who, pids) ==
  /\ cleanup' = "hooks"
  /\ runner' = who
  /\ alive' = alive \ pids
  /\ tracked' = {}

\* Mutant: the revocation is skipped when a signal ended the session.
RevokesUnlessSignalled == revokeOnExit /\ runner # "signal"

\* Whether there is a session to revoke.
Revokes == revokeOnExit

\* The hooks have run; the revocation, if setRevokeOnExit was called.
RunHooks ==
  /\ Running
  /\ cleanup = "hooks"
  /\ artifacts' = FALSE
  /\ IF Revokes
     THEN cleanup' = "revoking" /\ Revoking("exit")
     ELSE cleanup' = "done" /\ UNCHANGED netVars
  /\ UNCHANGED <<tunnelVars, hostVars, phase, menu, revokeOnExit, runner, signalled, record,
                 bounds>>

\* Mutant: the cleanup waits for the broker's answer.
RevocationAnswered(c) == c.stage \in {"accepted", "failed"}

\* The revocation was answered or its 400 milliseconds are over.
RevocationOver(c) == c.stage \in {"sent", "accepted", "failed"}

\* cleanupAll() goes on after the revocation, which may still be on its way.
EndRevocation(c) ==
  /\ Running
  /\ cleanup = "revoking"
  /\ c.kind = "exit"
  /\ RevocationOver(c)
  /\ cleanup' = "done"
  /\ calls' = IF c.stage = "sent" THEN calls ELSE calls \ {c}
  /\ UNCHANGED <<tunnelVars, hostVars, phase, menu, revokeOnExit, runner, signalled, artifacts,
                 record, bounds, raced>>

\* What the one who ran cleanupAll() does next: the signal handlers and fatal()
\* exit; the dashboard returns, and the process lives on while a tunnel does.
EndCleanup ==
  /\ Running
  /\ cleanup = "done"
  /\ \/ /\ runner \in {"signal", "fatal"}
        /\ Exit
        /\ UNCHANGED tracked
     \/ /\ runner = "menu"
        /\ phase # "left"
        /\ phase' = "left"
        /\ UNCHANGED <<alive, tracked, calls>>
  /\ UNCHANGED <<loop, active, announced, stop, spawned, hostVars, menu, endVars,
                 record, bounds, raced>>

\* Nothing keeps the process alive any longer.
RunOut ==
  /\ phase = "left"
  /\ \A s \in Tunnels : loop[s] \in {"unborn", "over"}
  /\ Registrations = {}
  /\ Exit
  /\ UNCHANGED <<loop, active, announced, stop, spawned, tracked, hostVars, menu, endVars,
                 record, bounds, raced>>

\* SIGINT, SIGTERM, or an error nobody caught.  While somebody else runs
\* cleanupAll() it returns at once, and the handler exits.
Signal ==
  /\ Running
  /\ ~signalled
  /\ signalled' = TRUE
  /\ IF cleanup = "none"
     THEN /\ CleanupAll("signal", tracked)
          /\ UNCHANGED <<phase, calls>>
     ELSE /\ Exit
          /\ UNCHANGED <<cleanup, runner, tracked>>
  /\ UNCHANGED <<loop, active, announced, stop, spawned, hostVars, menu, revokeOnExit,
                 artifacts, record, bounds, raced>>

\* fatal(), when a wait of startHostMode or the dashboard times out.
Fatal ==
  IF cleanup = "none"
  THEN /\ CleanupAll("fatal", tracked)
       /\ UNCHANGED <<phase, calls>>
  ELSE /\ Exit
       /\ UNCHANGED <<cleanup, runner, tracked>>

----------------------------------------------------------------------------
(* The supervision loop of a tunnel.                                       *)

\* A stopped loop ends when it comes to its head.
Head(s, otherwise) == IF stop[s] THEN "over" ELSE otherwise

\* cloudflared was located and is started, whether or not the loop was stopped
\* in the meantime.
Spawn(s) ==
  /\ Running
  /\ loop[s] = "locating"
  /\ spawned < MaxSpawns
  /\ spawned' = spawned + 1
  /\ loop' = [loop EXCEPT ![s] = "running"]
  /\ active' = [active EXCEPT ![s] = spawned']
  /\ announced' = [announced EXCEPT ![s] = FALSE]
  /\ alive' = alive \cup {spawned'}
  /\ tracked' = tracked \cup {spawned'}
  /\ UNCHANGED <<stop, hostVars, phase, menu, endVars, netVars, record, bounds>>

\* A child ends.
Die(n) ==
  /\ n \in alive
  /\ alive' = alive \ {n}
  /\ UNCHANGED <<loop, active, announced, stop, spawned, tracked, hostVars, phase, menu,
                 endVars, netVars, record, bounds>>

\* The exit event of the tunnel's child.
ChildExited(s) ==
  /\ Running
  /\ loop[s] = "running"
  /\ active[s] \notin alive
  /\ tracked' = tracked \ {active[s]}
  /\ loop' = [loop EXCEPT ![s] = Head(s, "pausing")]
  /\ UNCHANGED <<active, announced, stop, spawned, alive, hostVars, phase, menu, endVars,
                 netVars, record, bounds>>

\* The two seconds are over.
PauseOver(s) ==
  /\ Running
  /\ loop[s] = "pausing"
  /\ loop' = [loop EXCEPT ![s] = Head(s, "locating")]
  /\ UNCHANGED <<active, announced, stop, spawned, alive, tracked, hostVars, phase, menu,
                 endVars, netVars, record, bounds>>

\* kill() of the supervisors S.
Stopped(S) == [s \in Tunnels |-> stop[s] \/ s \in S]
Victims(S) == {active[s] : s \in S}

----------------------------------------------------------------------------
(* The callbacks of the tunnels.                                           *)

\* Mutants: the callback registers the URL before, and without its token.
CallbackOld(url) ==
  Registering("tunnel", IF tunnelUrl = None THEN url ELSE tunnelUrl, chatUrl, hostToken,
              hostToken # None)
CallbackTokenless(url) == Registering("tunnel", url, chatUrl, None, hostToken # None)

\* The registration by the callback of the session's tunnel.
Callback(url) == Registering("tunnel", url, chatUrl, hostToken, hostToken # None)

\* The URL of the session's tunnel appears in the output of its child.
SessionUrl ==
  /\ Running
  /\ loop["session"] = "running"
  /\ ~announced["session"]
  /\ announced' = [announced EXCEPT !["session"] = TRUE]
  /\ tunnelUrl' = active["session"]
  /\ Callback(active["session"])
  /\ UNCHANGED <<loop, active, stop, spawned, alive, tracked, hostToken, chatUrl, chatTunnel,
                 chatRegistered, phase, menu, endVars, record, bounds>>

\* The URL of a chat's tunnel, whether or not that chat is still open.
ChatUrl(s) ==
  /\ Running
  /\ loop[s] = "running"
  /\ ~announced[s]
  /\ announced' = [announced EXCEPT ![s] = TRUE]
  /\ chatUrl' = active[s]
  /\ Registering("chat", tunnelUrl, active[s], hostToken, TRUE)
  /\ UNCHANGED <<loop, active, stop, spawned, alive, tracked, tunnelUrl, hostToken, chatTunnel,
                 chatRegistered, phase, menu, endVars, record, bounds>>

\* The answer to a registration.  The one of the session's callback must not fail.
RegistrationDone(c) ==
  /\ Running
  /\ c.kind \notin Revocations
  /\ c.stage \in {"accepted", "failed"}
  /\ IF c.kind = "tunnel" /\ c.stage = "failed"
     THEN /\ Exit
          /\ UNCHANGED <<hostVars, menu, tracked>>
     ELSE /\ hostToken' = IF c.stage = "accepted" THEN c.token ELSE hostToken
          /\ chatRegistered' = (chatRegistered \/ c.kind = "chat")
          /\ menu' = IF c.kind = "menu" THEN "idle" ELSE menu
          /\ calls' = calls \ {c}
          /\ UNCHANGED <<phase, alive, tracked, tunnelUrl, chatUrl, chatTunnel>>
  /\ UNCHANGED <<loop, active, announced, stop, spawned, endVars, record, bounds, raced>>

----------------------------------------------------------------------------
(* The dashboard.                                                          *)

\* waitForValue() on the token: setRevokeOnExit(), and the dashboard opens.
Open ==
  /\ phase = "starting"
  /\ cleanup = "none"
  /\ hostToken # None
  /\ phase' = "dashboard"
  /\ revokeOnExit' = TRUE
  /\ UNCHANGED <<tunnelVars, hostVars, menu, cleanup, runner, signalled, artifacts, netVars,
                 record, bounds>>

\* The user picks an operation.
Choose ==
  /\ phase = "dashboard"
  /\ menu = "idle"
  /\ cleanup = "none"
  /\ menuOps < MaxMenu
  /\ menuOps' = menuOps + 1

\* "chat": a supervised tunnel for the chat server.
StartChat(s) ==
  /\ Choose
  /\ chatTunnel = NoChat
  /\ loop[s] = "unborn"
  /\ loop' = [loop EXCEPT ![s] = "locating"]
  /\ chatTunnel' = s
  /\ chatRegistered' = FALSE
  /\ menu' = "chat"
  /\ UNCHANGED <<active, announced, stop, spawned, alive, tracked, tunnelUrl, hostToken,
                 chatUrl, phase, endVars, netVars, record, losses>>

ChatReady ==
  /\ Running
  /\ menu = "chat"
  /\ chatUrl # None
  /\ chatRegistered
  /\ menu' = "idle"
  /\ UNCHANGED <<tunnelVars, hostVars, phase, endVars, netVars, record, bounds>>

\* onClose of the chat server: its tunnel stops and the session is registered
\* again without the chat.
CloseChat ==
  /\ Running
  /\ chatTunnel # NoChat
  /\ stop' = Stopped({chatTunnel})
  /\ alive' = alive \ Victims({chatTunnel})
  /\ tracked' = tracked \ Victims({chatTunnel})
  /\ chatTunnel' = NoChat
  /\ chatUrl' = None
  /\ Registering("close", tunnelUrl, None, hostToken, FALSE)
  /\ UNCHANGED <<loop, active, announced, spawned, tunnelUrl, hostToken, chatRegistered,
                 phase, menu, endVars, record, bounds>>

\* "reregister"
Reregister ==
  /\ Choose
  /\ Registering("menu", tunnelUrl, chatUrl, hostToken, FALSE)
  /\ menu' = "menu"
  /\ UNCHANGED <<tunnelVars, hostVars, phase, endVars, record, losses>>

\* "terminate"
Terminate ==
  /\ Choose
  /\ Revoking("terminate")
  /\ menu' = "terminate"
  /\ UNCHANGED <<tunnelVars, hostVars, phase, endVars, record, losses>>

\* The revocation was answered, or failed: the session's tunnel is stopped.
Terminated(c) ==
  /\ Running
  /\ c.kind = "terminate"
  /\ c.stage \in {"accepted", "failed"}
  /\ calls' = calls \ {c}
  /\ stop' = Stopped({"session"})
  /\ alive' = alive \ Victims({"session"})
  /\ tracked' = tracked \ Victims({"session"})
  /\ menu' = "idle"
  /\ UNCHANGED <<loop, active, announced, spawned, hostVars, phase, endVars, record, bounds,
                 raced>>

\* "exit": every supervisor is stopped, then cleanupAll().
Leave ==
  /\ phase = "dashboard"
  /\ menu = "idle"
  /\ cleanup = "none"
  /\ LET S == {"session", chatTunnel}
     IN  /\ stop' = Stopped(S)
         /\ CleanupAll("menu", tracked \cup Victims(S))
  /\ menu' = "leaving"
  /\ UNCHANGED <<loop, active, announced, spawned, hostVars, phase, revokeOnExit,
                 signalled, artifacts, netVars, record, bounds>>

\* waitForValue() may run into its 30 seconds.
Waiting ==
  \/ phase = "starting" /\ hostToken = None
  \/ menu = "chat" /\ ~(chatUrl # None /\ chatRegistered)

\* Mutant: the wait for a chat has no timeout.
WaitTimeoutAtStart ==
  /\ phase = "starting"
  /\ Running
  /\ Waiting
  /\ runner # "fatal"
  /\ Fatal
  /\ UNCHANGED <<loop, active, announced, stop, spawned, hostVars, menu, revokeOnExit,
                 signalled, artifacts, record, bounds, raced>>

WaitTimeout ==
  /\ Running
  /\ Waiting
  /\ runner # "fatal"
  /\ Fatal
  /\ UNCHANGED <<loop, active, announced, stop, spawned, hostVars, menu, revokeOnExit,
                 signalled, artifacts, record, bounds, raced>>

----------------------------------------------------------------------------
Next ==
  \/ \E c \in calls :
       \/ Send(c) \/ AnswerRegister(c) \/ AnswerRevoke(c) \/ Lose(c)
       \/ RegistrationDone(c) \/ Terminated(c) \/ EndRevocation(c)
  \/ \E s \in Tunnels : Spawn(s) \/ ChildExited(s) \/ PauseOver(s)
  \/ \E n \in Children : Die(n)
  \/ \E s \in Chats : ChatUrl(s) \/ StartChat(s)
  \/ SessionUrl \/ Open \/ ChatReady \/ CloseChat \/ Reregister \/ Terminate \/ Leave
  \/ RunHooks \/ EndCleanup \/ RunOut \/ Signal \/ WaitTimeout \/ Forget

\* Timers fire and the steps of the cleanup are taken; nothing is assumed of the
\* user, the network, the broker or cloudflared.
Fairness ==
  /\ WF_vars(RunHooks) /\ WF_vars(EndCleanup) /\ WF_vars(WaitTimeout)
  /\ WF_vars(\E c \in calls : EndRevocation(c))
  /\ WF_vars(Open) /\ WF_vars(ChatReady)

Spec == Init /\ [][Next]_vars
FairSpec == Spec /\ Fairness

----------------------------------------------------------------------------
(* Safety.                                                                 *)

\* Registrations that overlap no other call leave the broker with the URL of the tunnel
\* that was announced last, as long as the host runs: no payload is built from an
\* earlier URL.
SerialUrlCurrent ==
  ~raced /\ Running /\ Registrations = {} /\ record # NoRecord => record.url = tunnelUrl

\* The record the broker keeps answers to the token the host keeps, also after
\* the broker forgot the record, unless registrations overlapped.
SerialTokenKept ==
  ~raced /\ record # NoRecord /\ hostToken # None => record.token = hostToken

\* A session that ends with its cleanup complete is revoked, whoever ended it,
\* unless a registration was under way or made after the cleanup began, or the
\* revocation was lost.
SerialEndRevoked ==
  ~raced /\ revokeOnExit /\ phase = "gone" /\ cleanup = "done" /\ calls = {} =>
    record = NoRecord

----------------------------------------------------------------------------
(* Liveness.                                                               *)

\* Once it was told to stop, the process ends, whatever the network does.
SignalEnds == signalled ~> phase = "gone"

\* Nobody waits for a tunnel for ever.
WaitsEnd == Waiting ~> ~Waiting \/ phase = "gone"

----------------------------------------------------------------------------
(* What the documentation says and the code does not do.                   *)

\* host.js: the session is registered again whenever its tunnel comes back; so,
\* once every registration was answered, the record has the current URL.
UrlCurrent ==
  phase = "dashboard" /\ calls = {} /\ record # NoRecord => record.url = tunnelUrl

\* README.md: the cleanup revokes the broker's record.
RevokedAtEnd ==
  revokeOnExit /\ phase = "gone" /\ cleanup = "done" /\ calls = {} => record = NoRecord

\* README.md: ending the session with its dashboard controls or Ctrl+C removes the
\* temporary artifacts; here with both.
InterruptedEndIsClean ==
  phase = "gone" /\ runner = "menu" /\ signalled => ~artifacts

\* README.md: the ephemeral key is removed during cleanup; so there is one.
NoEndWithoutCleanup == phase = "gone" => runner # "nobody"
=============================================================================
