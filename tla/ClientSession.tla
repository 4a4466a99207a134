--------------------------- MODULE ClientSession ---------------------------
(***************************************************************************)
(* What a client does once it may access a host (modes/client.js): the key *)
(* file, the telemetry, the poll, the copies of its log, its actions, and  *)
(* how all of it ends (lib/mod/cleanup.js, the fatal handler of cli.js).   *)
(* How it is let in is in ApprovalFlow.                                    *)
(*                                                                         *)
(* at names the wait of the source where the session is; an action is the  *)
(* code from one wait to the next.                                         *)
(*                                                                         *)
(* Abstractions: a log is the number of its events; a child killed has no  *)
(* effect; Ctrl-C at a prompt is an exception, elsewhere it is a signal.   *)
(***************************************************************************)
EXTENDS PathBrowser, Sequences

CONSTANTS
  Offers,      \* payloads a host may have registered
  AgentOffers, \* bound: those that the assistant comes upon
  MaxSessions, \* bound: sessions of one process
  MaxLog,      \* bound: events in a session's log
  MaxFaults    \* bound: copies of the log that fail

ASSUME ClientAssumption ==
  /\ Offers \subseteq [type : {"http", "tcp", "ssh"}, key : BOOLEAN,
                       drop : BOOLEAN, once : BOOLEAN]
  /\ AgentOffers \subseteq Offers
  /\ MaxSessions \in Nat \ {0}
  /\ {MaxLog, MaxFaults} \subseteq Nat

VARIABLES
  mode,     \* the command: "connect" or "ai"
  at,       \* the wait that the program is at
  task,     \* the action chosen in the menu
  auth,     \* connectSSH was given the key
  n,        \* the current session; 0: none yet
  offer,    \* its payload
  usable,   \* privateKeyPath is set
  keys,     \* owners of the key files on disk
  hooks,    \* _cleanupHooks
  timers,   \* intervals that are set
  kid,      \* the tracked child awaited: "none", "alive" or "killed"
  hook,     \* the hook that cleanupAll awaits; 0: it was not called; or Done
  runner,   \* who runs it
  swept,    \* owners of keys whose work had begun when it was called
  signalled, \* shuttingDown in the signal handlers
  running,  \* the process runs
  log,      \* events in the session log; 0: there is no file
  sent,     \* events in the host's copy of it
  copy,     \* the copy under way: events at its statSync; 0: none
  last,     \* lastSize, lastMtime: the events then; 0: none
  faults    \* failed copies, counted against their bound

place == <<at, task, auth>>
session == <<n, offer, usable>>
ending == <<hook, runner, swept>>
logging == <<log, sent, copy, last, faults>>
clientVars == <<browse, mode, place, session, keys, hooks, timers, kid, ending,
                signalled, running, logging>>

NoOffer == [type |-> "none", key |-> FALSE, drop |-> FALSE, once |-> FALSE]

Done == -1

\* The owner of the key that the assistant itself uses; sessions count from 1.
Assistant == 0

Hook(what, owner) == [what |-> what, owner |-> owner]

At(stage) == running /\ at = stage

\* From one wait to another, nothing else being changed.
Goes(from, to) ==
  /\ At(from) /\ at' = to
  /\ UNCHANGED <<browse, mode, task, auth, session, keys, hooks, timers, kid, ending,
                 signalled, running, logging>>

\* What most actions leave alone.
Unended == UNCHANGED <<mode, ending, signalled, running>>

----------------------------------------------------------------------------
(* The end: cleanupAll and its callers.                                    *)

\* The hooks run in order without a wait, up to one that sends telemetry.
NextFarewell(from) ==
  Min({i \in from..Len(hooks) : hooks[i].what = "farewell"} \union {Len(hooks) + 1})

Reached(from, what) ==
  {hooks[i].owner : i \in {j \in from..NextFarewell(from) - 1 : hooks[j].what = what}}

\* Without the file nothing is copied; what was copied matters no more.
LogRemoved == log' = 0 /\ sent' = 0 /\ last' = 0 /\ faults' = 0 /\ UNCHANGED copy

\* The variables of a mode end with it.
Forgotten == task' = "none" /\ auth' = FALSE /\ offer' = NoOffer /\ usable' = FALSE
Remembered == UNCHANGED <<task, auth, offer, usable>>

\* Of a process that has exited only its files are left; children die with it.
Exit(left) ==
  /\ running' = FALSE /\ keys' = left
  /\ at' = "gone" /\ browse' = NoBrowser /\ kid' = "none" /\ Forgotten
  /\ hooks' = <<>> /\ timers' = {}
  /\ log' = 0 /\ sent' = 0 /\ copy' = 0 /\ last' = 0 /\ faults' = 0

\* process.exit without the hooks.
ExitAtOnce == Exit(keys) /\ UNCHANGED <<mode, n, ending, signalled>>

\* Signals and fatal errors exit after cleanupAll; a mode returns.
Exits(who) == who \in {"signal", "fatal"}

Returns(who) ==
  IF who = "session" /\ mode = "ai" THEN at' = "ready" /\ Forgotten
                                    ELSE at' = "over" /\ Remembered

\* A mode waits for the farewell; one that has thrown is over; others go on.
Awaits(who) ==
  /\ CASE who \in {"session", "ai"} -> at' = "cleaning"
       [] who = "fatal"             -> at' = "thrown"
       [] OTHER                     -> at' = at
  /\ Remembered

\* The tracked child is killed; only a signal comes while one is awaited.
Killed(who) == IF kid # "none" /\ who = "signal" THEN "killed" ELSE "none"

\* Once all have run the list is not read again, and left empty here.
RunHooks(from, who) ==
  LET left == keys \ Reached(from, "key")
      done == NextFarewell(from) > Len(hooks)
  IN  /\ hook' = IF done THEN Done ELSE NextFarewell(from)
      /\ IF done /\ Exits(who)
           THEN Exit(left)
           ELSE /\ keys' = left
                /\ timers' = {t \in timers : t[2] \notin Reached(from, t[1])}
                /\ IF Reached(from, "log") # {} \/ who = "fatal"
                     THEN LogRemoved ELSE UNCHANGED logging
                /\ hooks' = IF done THEN <<>> ELSE hooks
                /\ IF done THEN Returns(who) ELSE Awaits(who)
                /\ kid' = IF from = 1 THEN Killed(who) ELSE kid
                /\ browse' = IF who = "signal" THEN browse ELSE NoBrowser
                /\ UNCHANGED running

AddHooks(added) == hooks' = IF hook = Done THEN <<>> ELSE hooks \o added

\* What cleanupAll has to clean: the keys, and the sessions that may write one; the
\* assistant hooks its own only when ssh-keygen has read it.
Begun == (keys \union 1..n) \ (IF at = "aiKeygen" THEN {Assistant} ELSE {})

\* The flag is set first: whoever calls again goes on at once.
CleanupAll(who) ==
  /\ \/ /\ hook = 0
        /\ RunHooks(1, who)
        /\ runner' = who /\ swept' = Begun
     \/ /\ hook # 0 /\ Exits(who)
        /\ Exit(keys) /\ UNCHANGED ending
     \/ /\ hook # 0 /\ ~Exits(who)
        /\ Returns(who) /\ kid' = "none" /\ browse' = NoBrowser
        /\ UNCHANGED <<keys, hooks, timers, ending, running, logging>>
  /\ UNCHANGED <<mode, n>>

\* The farewell was sent, or given up.
FarewellOver ==
  /\ running /\ hook > 0
  /\ RunHooks(hook + 1, runner)
  /\ UNCHANGED <<mode, n, runner, swept, signalled>>

Signal == running /\ ~signalled /\ signalled' = TRUE /\ CleanupAll("signal")

\* fatal() of cli.js, which also removes the session log.
Fatal == CleanupAll("fatal") /\ UNCHANGED signalled

EndSession == CleanupAll("session") /\ UNCHANGED signalled

\* Only the interval of the copies, a child and a call under way keep the process.
Referenced ==
  (\E t \in timers : t[1] = "sync") \/ copy > 0 \/ hook > 0

Drain == running /\ at \in {"over", "hung"} /\ ~Referenced /\ ExitAtOnce

\* The host has left, and the poll finds out.
PollFindsEnd == running /\ (\E t \in timers : t[1] = "poll") /\ ExitAtOnce

----------------------------------------------------------------------------
(* The beginning: access, key, telemetry, timers.                          *)

StartSession ==
  /\ n < MaxSessions
  /\ n' = n + 1 /\ at' = "resolve" /\ task' = "none"
  /\ offer' = NoOffer /\ usable' = FALSE
  /\ AddHooks(<<Hook("log", n + 1)>>)
  /\ log' = 1 /\ sent' = 0 /\ copy' = 0 /\ last' = 0 /\ faults' = 0
  /\ UNCHANGED <<browse, mode, auth, keys, timers, kid, ending, signalled, running>>

\* Not found, denied, or not answered.
Refused == At("resolve") /\ ExitAtOnce

\* Mutant: the hook is added once ssh-keygen has read the key.
WriteKeyUnhooked(owner) == keys' = keys \union {owner} /\ UNCHANGED hooks

WriteKey(owner) ==
  /\ keys' = keys \union {owner}
  /\ AddHooks(<<Hook("key", owner)>>)

Resolved(o) ==
  /\ At("resolve")
  /\ mode = "ai" => o \in AgentOffers
  /\ offer' = o
  /\ CASE o.type = "http" -> at' = "hung"   /\ UNCHANGED <<kid, keys, hooks>>
       [] o.type = "tcp"  -> at' = "proxy"  /\ kid' = "alive" /\ UNCHANGED <<keys, hooks>>
       [] o.key           -> at' = "keygen" /\ WriteKey(n) /\ UNCHANGED kid
       [] OTHER           -> at' = "greet"  /\ UNCHANGED <<kid, keys, hooks>>
  /\ UNCHANGED <<browse, task, auth, n, usable, timers, logging>> /\ Unended

\* The proxy of a TCP service ends.
ProxyOver == At("proxy") /\ EndSession

\* ssh-keygen has read the key, which gets a second hook; or it could not, and the
\* session goes on without the key.
KeyVerified ==
  /\ At("keygen")
  /\ \/ usable' = TRUE /\ AddHooks(<<Hook("key", n)>>) /\ UNCHANGED keys
     \/ usable' = FALSE /\ keys' = keys \ {n} /\ UNCHANGED hooks
  /\ at' = "greet"
  /\ UNCHANGED <<browse, task, auth, n, offer, timers, kid, logging>> /\ Unended

\* The host was told; the farewell, the poll and the copies of the log are set up.
Greeted ==
  /\ At("greet")
  /\ LET sync == IF offer.drop THEN {"sync"} ELSE {}
     IN  /\ timers' = timers \union ({"poll"} \union sync) \X {n}
         /\ AddHooks(<<Hook("farewell", n), Hook("poll", n)>>
                        \o (IF offer.drop THEN <<Hook("sync", n)>> ELSE <<>>))
  /\ IF offer.once THEN at' = "local" /\ browse' = LocalPrompt /\ task' = "once"
                   ELSE at' = "menu" /\ UNCHANGED <<browse, task>>
  /\ UNCHANGED <<auth, session, keys, kid, logging>> /\ Unended

----------------------------------------------------------------------------
(* The copies of the log, every three seconds.                             *)

Syncing == running /\ <<"sync", n>> \in timers

\* Nothing is copied that was copied before.
SyncTick ==
  /\ Syncing /\ copy = 0
  /\ log > 0 /\ log # last
  /\ copy' = log
  /\ UNCHANGED <<browse, mode, place, session, keys, hooks, timers, kid, ending,
                 signalled, running, log, sent, last, faults>>

\* Mutant: the size is taken after the copy.
CopiedThenStat == \E events \in copy..log : sent' = events /\ last' = log /\ UNCHANGED faults

\* The file may have grown since its size was taken.
Copied == \E events \in copy..log : sent' = events /\ last' = copy /\ UNCHANGED faults

CopyFailed == faults < MaxFaults /\ faults' = faults + 1 /\ UNCHANGED <<sent, last>>

SyncOver ==
  /\ running /\ copy > 0
  /\ copy' = 0
  /\ Copied \/ CopyFailed \/ (log = 0 /\ UNCHANGED <<sent, last, faults>>)
  /\ UNCHANGED <<browse, mode, place, session, keys, hooks, timers, kid, ending,
                 signalled, running, log>>

----------------------------------------------------------------------------
(* The actions.                                                            *)

Choose(action) ==
  /\ At("menu")
  /\ at' = "tell" /\ task' = action
  /\ log' = IF log \in 1..MaxLog - 1 THEN log + 1 ELSE log
  /\ UNCHANGED <<browse, auth, session, keys, hooks, timers, kid, sent, copy, last, faults>>
  /\ Unended

\* The menu of a second action has an entry that leaves.
LeaveMenu == At("menu") /\ task # "none" /\ EndSession

\* Where an action goes once the host was told of it, and with which child or browser.
First ==
  CASE task = "ssh"      -> [at |-> "verify", kid |-> "none",  browse |-> NoBrowser]
    [] task = "upload"   -> [at |-> IF offer.drop THEN "drop" ELSE "remote",
                             kid |-> "none",
                             browse |-> IF offer.drop THEN NoBrowser ELSE RemotePrompt(Tilde)]
    [] task = "download" -> [at |-> "local",  kid |-> "none",  browse |-> LocalPrompt]
    [] task = "once"     -> [at |-> "fetch",  kid |-> "alive", browse |-> NoBrowser]
    [] task = "reverse"  -> [at |-> "ports",  kid |-> "none",  browse |-> NoBrowser]
    [] OTHER             -> [at |-> "chat",   kid |-> "none",  browse |-> NoBrowser]

Enters(to, child, browser) ==
  /\ at' = to /\ kid' = child /\ browse' = browser
  /\ UNCHANGED <<task, session, keys, hooks, timers, logging>> /\ Unended

Told ==
  /\ At("tell")
  /\ Enters(First.at, First.kid, First.browse)
  /\ auth' = usable

\* connectSSH: a check first, then the shell of the user.
Verified == At("verify") /\ Enters("shell", "alive", NoBrowser) /\ UNCHANGED auth
KeyRefused == auth /\ Goes("verify", "fallback")
FallBack ==
  /\ At("fallback")
  /\ \/ Enters("verify", "none", NoBrowser) /\ auth' = FALSE
     \/ Enters("again", "none", NoBrowser) /\ UNCHANGED auth

\* The shell ends; when the connection was lost it may be tried again.
ShellOver ==
  /\ At("shell")
  /\ \/ Enters("again", "none", NoBrowser)
     \/ kid = "alive" /\ Enters("retry", "none", NoBrowser)
  /\ UNCHANGED auth
Retry == Goes("retry", "verify") \/ Goes("retry", "again")

\* A prompt inside connectSSH's try: its exception is taken for an error of SSH.
RetryInterrupted == Goes("retry", IF auth THEN "fallback" ELSE "again")

\* performSCP: where on the host, when it has a drop folder.
ChooseDrop ==
  /\ At("drop")
  /\ \/ Enters("remote", "none", Chosen)
     \/ Enters("remote", "none", RemotePrompt(Tilde))
     \/ task = "download" /\ Enters("remote", "none", RemotePrompt(DropDepth))
  /\ UNCHANGED auth

\* A path was chosen: the other one is next, or the transfer.
PathChosen ==
  /\ browse = Chosen
  /\ CASE At("remote") /\ task = "upload" -> Enters("local", "none", LocalPrompt)
       [] At("local") /\ task = "upload"  -> Enters("hash", "none", NoBrowser)
       [] At("remote")                    -> Enters("transfer", "alive", NoBrowser)
       [] At("local") /\ task = "once"    -> Enters("tell", "none", NoBrowser)
       [] OTHER -> /\ At("local")
                   /\ IF offer.drop THEN Enters("drop", "none", NoBrowser)
                                    ELSE Enters("remote", "none", RemotePrompt(Tilde))
  /\ UNCHANGED auth

Hashed == At("hash") /\ Enters("transfer", "alive", NoBrowser) /\ UNCHANGED auth

\* A transfer that succeeds is checked, without consequences; the next question is
\* asked whatever came of it.
TransferOver ==
  /\ At("transfer")
  /\ \/ kid = "alive" /\ Enters("check", "none", NoBrowser)
     \/ Enters("again", "none", NoBrowser)
  /\ UNCHANGED auth
Checked == Goes("check", "again")

OpenReverse == At("ports") /\ Enters("reverse", "alive", NoBrowser) /\ UNCHANGED auth
ReverseOver == At("reverse") /\ Enters("again", "none", NoBrowser) /\ UNCHANGED auth

ChatOver == Goes("chat", "again")

Again == Goes("again", "menu")
LeaveAgain == At("again") /\ EndSession

\* The one-time file: a download that succeeds is followed by a revocation.
FetchOver ==
  \/ At("fetch") /\ kid = "alive" /\ Enters("revoke", "none", NoBrowser) /\ UNCHANGED auth
  \/ At("fetch") /\ EndSession
RevokeOver == At("revoke") /\ EndSession

----------------------------------------------------------------------------
(* What happens by itself, and what the user does.                         *)

Rest == <<mode, place, session, keys, hooks, timers, kid, ending, signalled, running,
          logging>>

ListDirectory == running /\ ListingEnds /\ UNCHANGED Rest
Navigate == running /\ UserBrowses /\ UNCHANGED Rest

\* Every directory above was closed: the exception of the recursion.
Overflow == running /\ browse.at = "overflow" /\ Fatal

\* Ctrl-C at a prompt.
Interrupt ==
  /\ running
  /\ Prompting \/ at \in {"resolve", "menu", "drop", "fallback", "ports", "again"}
  /\ Fatal

\* The code goes on at once, waiting for nothing outside the process.
ClientOwn == PathChosen \/ Hashed \/ Overflow

\* The broker, the host, ssh or scp answers or fails, most of them without a deadline.  The
\* code up to Resolved also asks the user; ssh without a key asks for the password.
ClientAnswers ==
  \/ Refused \/ (\E o \in Offers : Resolved(o)) \/ KeyVerified \/ Greeted \/ Told
  \/ Verified \/ KeyRefused \/ TransferOver \/ Checked \/ ChatOver \/ FetchOver
  \/ RevokeOver \/ ListDirectory

ClientProgram == ClientOwn \/ ClientAnswers

ClientUser ==
  \/ (\E a \in {"ssh", "upload", "download", "reverse", "chat"} : Choose(a))
  \/ LeaveMenu \/ FallBack \/ ShellOver \/ Retry \/ RetryInterrupted \/ ChooseDrop
  \/ OpenReverse \/ ReverseOver \/ Again \/ LeaveAgain \/ Navigate \/ Interrupt
  \/ ProxyOver \/ Signal

Background == FarewellOver \/ Drain \/ PollFindsEnd \/ SyncTick \/ SyncOver
=============================================================================
