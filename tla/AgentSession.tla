---------------------------- MODULE AgentSession ----------------------------
(***************************************************************************)
(* A client process: the command connect, or the task assistant of         *)
(* modes/ai.js, which may run client sessions of its own.  The assistant   *)
(* keeps a conversation, answers the tools that the model calls, and cuts  *)
(* the conversation when it has grown too long.                            *)
(*                                                                         *)
(* Abstractions: a text of the conversation has size 1 and a message that  *)
(* calls tools has none; what the model says is any of a few replies; a    *)
(* command or a path is blocked, refused or run as the model and the user  *)
(* may have it.  The function that starts a host is left out.              *)
(***************************************************************************)
EXTENDS ClientSession

CONSTANTS
  MaxSteps,  \* requests of one turn
  MaxSize,   \* size that a conversation is cut to
  MaxCalls,  \* bound: tools called by one message
  MaxKept,   \* bound: messages there may be when a session or transfer is started
  MaxBefore, \* bound: sessions after which turns are still taken
  Transfer   \* the owner of the key of a transfer

ASSUME AgentAssumption ==
  /\ {MaxSteps, MaxSize, MaxCalls} \subseteq Nat \ {0}
  /\ {MaxKept, MaxBefore} \subseteq Nat
  /\ Transfer \notin 0..MaxSessions /\ Transfer \in Nat

VARIABLES
  scope,    \* "local" or "remote"
  messages, \* the conversation without the two system messages
  step      \* requests made in this turn

agentVars == <<scope, messages, step>>
vars == <<clientVars, agentVars>>

User == [role |-> "user", count |-> 0]
Say == [role |-> "say", count |-> 0]
Calls(k) == [role |-> "calls", count |-> k]
Answer(k) == [role |-> "tool", count |-> k]

TypeOK ==
  /\ BrowserTypeOK
  /\ mode \in {"connect", "ai"}
  /\ {n, log, sent, copy, last, faults, step} \subseteq Nat
  /\ n <= MaxSessions /\ sent <= MaxLog /\ copy <= MaxLog /\ step <= MaxSteps
  /\ {auth, usable, signalled, running} \subseteq BOOLEAN
  /\ offer \in Offers \union {NoOffer}
  /\ keys \subseteq (0..MaxSessions) \union {Transfer}
  /\ \A i \in DOMAIN hooks : hooks[i].what \in {"log", "key", "farewell", "poll", "sync"}
  /\ timers \subseteq {"poll", "sync"} \X (1..MaxSessions)
  /\ kid \in {"none", "alive", "killed"}
  /\ hook \in {Done} \union Nat
  /\ runner \in {"nobody", "session", "ai", "signal", "fatal"}
  /\ scope \in {"local", "remote"}
  /\ \A i \in DOMAIN messages :
       messages[i] \in [role : {"user", "say", "calls", "tool"}, count : 0..MaxCalls]

----------------------------------------------------------------------------
(* Setting up.                                                             *)

Consent == mode = "ai" /\ (Goes("consent", "models") \/ Goes("consent", "over"))
ModelsListed == Goes("models", "scope")

ChooseScope ==
  /\ At("scope")
  /\ \/ scope' = "local" /\ at' = "ready"
     \/ scope' = "remote" /\ at' = "lookup"
  /\ UNCHANGED <<browse, mode, task, auth, session, keys, hooks, timers, kid, ending,
                 signalled, running, logging>>

\* Only an SSH session will do; a key is written, and hooked once it was read.
LookUp ==
  /\ At("lookup")
  /\ \/ Fatal
     \/ \E o \in {o \in AgentOffers : o.type = "ssh"} :
          /\ IF o.key THEN at' = "aiKeygen" /\ keys' = keys \union {Assistant}
                      ELSE at' = "ready" /\ UNCHANGED keys
          /\ UNCHANGED <<browse, task, auth, session, hooks, timers, kid, logging>> /\ Unended

AgentKeyRead ==
  /\ At("aiKeygen")
  /\ AddHooks(<<Hook("key", Assistant)>>) /\ at' = "ready"
  /\ UNCHANGED <<browse, task, auth, session, keys, timers, kid, logging>> /\ Unended

\* The file is removed; the exception meets no handler but the last.
AgentKeyRefused ==
  /\ At("aiKeygen") /\ at' = "failing" /\ keys' = keys \ {Assistant}
  /\ UNCHANGED <<browse, task, auth, session, hooks, timers, kid, logging>> /\ Unended
Failing == At("failing") /\ Fatal

----------------------------------------------------------------------------
(* One turn.                                                               *)

Size(conversation) == Cardinality({i \in DOMAIN conversation : conversation[i].role # "calls"})

\* The oldest messages are removed one by one until the rest is small enough.
Trimmed(conversation) ==
  LET From(k) == SubSeq(conversation, k, Len(conversation))
      fits == {k \in 1..Len(conversation) + 1 : Size(From(k)) <= MaxSize}
  IN  From(Min(fits))

Unspoken == UNCHANGED <<scope, messages, step>>
Speaks == UNCHANGED <<browse, mode, task, auth, session, keys, hooks, timers, ending,
                      signalled, running, logging, scope>>

TurnOver(conversation) == messages' = conversation /\ step' = 0 /\ at' = "ready"

StartTurn ==
  /\ At("ready") /\ n <= MaxBefore
  /\ messages' = Append(messages, User) /\ step' = 0
  /\ at' = "thinking"
  /\ Speaks /\ UNCHANGED kid

\* The turn is over when the service refuses for its rate limit.
RateLimited == At("thinking") /\ TurnOver(Trimmed(messages)) /\ Speaks /\ UNCHANGED kid

\* Any other failure ends the process.
ServiceFailed == At("thinking") /\ Fatal /\ Unspoken

ModelAnswers ==
  /\ At("thinking")
  /\ TurnOver(Trimmed(Append(messages, Say)))
  /\ Speaks /\ UNCHANGED kid

ModelCalls(k) ==
  /\ At("thinking")
  /\ messages' = Append(messages, Calls(k)) /\ step' = step + 1
  /\ at' = "calling"
  /\ Speaks /\ UNCHANGED kid

\* The calls of the last message are executed in order; Pending is the next one.
LastCalls == Max({i \in DOMAIN messages : messages[i].role = "calls"})
Pending == Len(messages) - LastCalls + 1

\* Whatever comes of a call, the model is told; after the last one it is asked again,
\* unless it was asked often enough.
AnswerCall ==
  LET told == Append(messages, Answer(Pending))
  IN  /\ IF Pending < messages[LastCalls].count
           THEN messages' = told /\ at' = "calling" /\ UNCHANGED step
           ELSE IF step < MaxSteps
             THEN messages' = told /\ at' = "thinking" /\ UNCHANGED step
             ELSE TurnOver(Trimmed(told))
      /\ Speaks

\* A blocked command or path, or a tool that does not exist, is answered at once; for
\* the others the user is asked, whatever the classification says.
CallBlocked == At("calling") /\ AnswerCall /\ UNCHANGED kid
AskUser == Goes("calling", "approve") /\ Unspoken

\* Mutant: a denial goes back to the model without an answer to the call.
DeniedUnanswered ==
  /\ At("approve") /\ at' = "thinking"
  /\ Speaks /\ UNCHANGED <<kid, messages, step>>

\* The user denies it or presses Ctrl-C, the text cannot be parsed, or it is a file.
CallDenied == At("approve") /\ AnswerCall /\ UNCHANGED kid
CallAllowed ==
  /\ At("approve")
  /\ kid' = "alive" /\ at' = "command"
  /\ Speaks /\ UNCHANGED <<messages, step>>
CallOver == At("command") /\ AnswerCall /\ kid' = "none"

----------------------------------------------------------------------------
(* The other things a task may be.                                         *)

\* An upload or a download of the session that is there, through a tracked child.
StartTransfer ==
  /\ At("ready") /\ scope = "remote" /\ Len(messages) <= MaxKept
  /\ Enters("moving", "alive", NoBrowser) /\ UNCHANGED auth

\* Without one, the user gives a session, whose key is written for the transfer only.
AskTransfer ==
  /\ scope = "local" /\ Len(messages) <= MaxKept
  /\ Hook("key", Transfer) \notin {hooks[i] : i \in DOMAIN hooks}
  /\ Goes("ready", "transferPrompt")
ResolveTransfer == Goes("transferPrompt", "resolving")

TransferUnresolved == Goes("resolving", "ready")
TransferResolved ==
  /\ At("resolving")
  /\ \E o \in AgentOffers :
       IF o.key THEN at' = "transferKeygen" /\ WriteKey(Transfer) /\ UNCHANGED kid
                ELSE at' = "moving" /\ kid' = "alive" /\ UNCHANGED <<keys, hooks>>
  /\ UNCHANGED <<browse, task, auth, session, timers, logging>> /\ Unended

TransferKeyRead ==
  /\ At("transferKeygen")
  /\ \/ at' = "moving" /\ kid' = "alive" /\ UNCHANGED keys
     \/ at' = "ready" /\ keys' = keys \ {Transfer} /\ UNCHANGED kid
  /\ UNCHANGED <<browse, task, auth, session, hooks, timers, logging>> /\ Unended

MoveOver ==
  /\ At("moving")
  /\ at' = "ready" /\ kid' = "none" /\ keys' = keys \ {Transfer}
  /\ UNCHANGED <<browse, task, auth, session, hooks, timers, logging>> /\ Unended

\* The function that connects: a client session inside the assistant.
Connect == At("ready") /\ Len(messages) <= MaxKept /\ StartSession

Quit == At("ready") /\ CleanupAll("ai") /\ UNCHANGED signalled

\* Ctrl-C at a prompt of the assistant; at the approval of a call it is an answer.
AgentInterrupt == running /\ at \in {"consent", "scope", "ready", "transferPrompt"} /\ Fatal

----------------------------------------------------------------------------
(* The specification.                                                      *)

Init ==
  /\ mode \in {"connect", "ai"}
  /\ at = IF mode = "ai" THEN "consent" ELSE "resolve"
  /\ n = IF mode = "ai" THEN 0 ELSE 1
  /\ hooks = IF mode = "ai" THEN <<>> ELSE <<Hook("log", 1)>>
  /\ log = n
  /\ browse = NoBrowser /\ task = "none" /\ auth = FALSE
  /\ offer = NoOffer /\ usable = FALSE
  /\ keys = {} /\ timers = {} /\ kid = "none"
  /\ hook = 0 /\ runner = "nobody" /\ swept = {}
  /\ signalled = FALSE /\ running = TRUE
  /\ sent = 0 /\ copy = 0 /\ last = 0 /\ faults = 0
  /\ scope = "local" /\ messages = <<>> /\ step = 0

\* A command that the model wants run is given thirty seconds.
AgentOwn ==
  \/ Failing /\ Unspoken
  \/ CallBlocked \/ AskUser \/ CallOver

\* The service, the broker, ssh-keygen or scp answers or fails, without a deadline.
AgentAnswers ==
  \/ (ModelsListed \/ LookUp \/ AgentKeyRead \/ AgentKeyRefused \/ TransferUnresolved
      \/ TransferResolved \/ TransferKeyRead \/ MoveOver) /\ Unspoken
  \/ RateLimited \/ ServiceFailed \/ ModelAnswers \/ (\E k \in 1..MaxCalls : ModelCalls(k))

AgentProgram == AgentOwn \/ AgentAnswers

AgentUser ==
  \/ (Consent \/ StartTransfer \/ AskTransfer \/ ResolveTransfer \/ Connect \/ Quit
      \/ AgentInterrupt) /\ Unspoken
  \/ ChooseScope /\ UNCHANGED <<messages, step>>
  \/ StartTurn \/ CallDenied \/ CallAllowed

Own == AgentOwn \/ (ClientOwn /\ Unspoken)
Answers == AgentAnswers \/ (ClientAnswers /\ Unspoken)

Next ==
  \/ Own \/ Answers
  \/ AgentUser
  \/ (ClientUser \/ Background) /\ Unspoken

Spec == Init /\ [][Next]_vars

\* The code goes on, the interval of the copies fires, and a process that nothing
\* keeps exits: nothing of the network, of a child or of the user.
Fairness ==
  /\ WF_vars(Own)
  /\ WF_vars(Drain /\ Unspoken)
  /\ WF_vars(SyncTick /\ Unspoken)

FairSpec == Spec /\ Fairness

----------------------------------------------------------------------------
(* Properties.                                                             *)

(***************************************************************************)
(* A process that exits after cleanupAll was called leaves none of the key *)
(* files whose work had begun by then, whichever of Ctrl-C, a signal, the  *)
(* fatal handler or the end of a session called it, and whatever went on   *)
(* meanwhile: ssh-keygen, a shell, a second signal.  This is why           *)
(* writeEphemeralPrivateKey of client.js adds its hook before its wait,    *)
(* and why the loop over the hooks reads the list as it grows.             *)
(***************************************************************************)
KeysRemoved == ~running /\ hook # 0 => keys \cap swept = {}

\* Assumed of the environment, where a property names it: every scp that copies the log
\* ends, and whatever else was called, a service, a child or the host, does so too.
\* The code has no deadline for them.
CopiesEnd == WF_vars(SyncOver /\ Unspoken)
CallsEnd == CopiesEnd /\ WF_vars(Answers) /\ WF_vars(FarewellOver /\ Unspoken)

(***************************************************************************)
(* If every copy ends, one way or the other, what a client logs reaches    *)
(* the copy in the host's drop folder, although copies fail and the file   *)
(* grows while it is copied, unless the session ends or the file is        *)
(* removed: nothing is taken for copied that was not.  The hazard is       *)
(* lastSize and lastMtime of startLiveLogSync.  A copy that hangs leaves   *)
(* isSyncing set, and no other is made.                                    *)
(***************************************************************************)
LogCaughtUp == CopiesEnd =>
  \A events \in 1..MaxLog :
    (Syncing /\ log >= events) ~> (sent >= events \/ ~Syncing \/ log = 0)

\* Of a call every answer follows, in order; behind a user's message every answer
\* has its call.  In front of the first one the cut may have taken the call.
Sound(conversation) ==
  LET user == {i \in DOMAIN conversation : conversation[i].role = "user"}
      Is(i, message) == i \in DOMAIN conversation /\ conversation[i] = message
  IN  \A i \in DOMAIN conversation :
        /\ conversation[i].role = "calls" =>
             \A k \in 1..conversation[i].count : Is(i + k, Answer(k))
        /\ conversation[i].role = "tool" /\ (\E u \in user : u < i) =>
             \E k \in conversation[i].count..MaxCalls : Is(i - conversation[i].count, Calls(k))

(***************************************************************************)
(* Whenever the model is asked, each of its calls has been answered once,  *)
(* whether it was blocked, denied, interrupted, run or failed, and however *)
(* the conversation was cut after earlier turns (runAgentTurn and the cut  *)
(* in startAIMode): the service refuses a conversation that lacks an       *)
(* answer, for good, as the next request would repeat it.                  *)
(***************************************************************************)
ConversationSound == at = "thinking" => Sound(messages)

\* The program does not wait for its user, whether at a prompt, some of which are in the
\* code that looks for a host or a model, or for a child that the user talks to.
Busy ==
  /\ running
  /\ \/ at \notin {"consent", "models", "scope", "lookup", "ready", "approve",
                   "transferPrompt", "resolve", "menu", "drop", "fallback", "retry",
                   "ports", "again", "proxy", "shell", "reverse", "local", "remote"}
     \/ browse.at \in {"listing", "overflow", "chosen"}

\* A session that began after the cleanup of the process, which no second one follows.
Late == n > 0 /\ hook # 0 /\ n \notin swept

(***************************************************************************)
(* If everything that it calls answers or fails, and a password that ssh   *)
(* asks for is typed, the program always comes back to its user, or exits: *)
(* a directory that cannot be listed is not listed for ever                *)
(* (path-browser.js), a model that never stops calling tools is stopped    *)
(* (runAgentTurn), a cleanup whose farewell is under way ends, and after   *)
(* the last session nothing keeps the process.  The premise is not the     *)
(* code's to give: ssh, scp and the requests have no deadline.  Left out   *)
(* are the sessions that the assistant starts after its process was        *)
(* cleaned up: their timers are never cleared.                             *)
(***************************************************************************)
ComesBack == CallsEnd => []<>(~Busy \/ Late)

----------------------------------------------------------------------------
(* What the documentation says and the code does not do.                   *)

\* README.md: the ephemeral key is removed during cleanup.  It is left by a poll that
\* finds the host gone, and by the sessions after the first of an assistant.
NoKeyLeft == ~running => keys = {}

\* client.js: a client of an HTTP service keeps its process alive until Ctrl-C.
HttpKeptAlive == [][offer.type = "http" /\ ~running' => signalled']_vars
=============================================================================
