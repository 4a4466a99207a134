# iPingYou: models, checks and proofs

iPingYou connects two machines without opening a port. A *host* process starts
SSH behind a Cloudflare tunnel, encrypts the tunnel's URL with the session
password and leaves the ciphertext with a *broker* under a random UID. A
*client* process fetches it, decrypts it and connects. Around this core are an
approval gate, one-time sessions, file transfers, a chat room, a local dashboard,
a session log, an assistant that runs commands through a language model, and a
cleanup that must leave nothing behind.

This directory holds TLA+ models of the parts in which order matters, the TLC
configurations that check them and the proofs TLAPS checks. `PROJECT.json` maps
every definition to the lines it models.

    tlc -config BrokerSessions.cfg MCBroker      check one configuration
    tlapm BrokerProofs.tla                       check the proofs

## 1. The system

Paths are relative to `src/src`.

| Part | State | Operations | Interacts with |
|---|---|---|---|
| Broker, `server.js` | `store` (UID -> payload, flags, token, approvals, telemetry, kicked addresses, age, resolve count), `bufferedPayloadBytes`, `ipViolations`, `blacklistedIPs` | 13 routes, a prune every five minutes | host and client, over HTTP |
| Host session, `modes/host.js` | tunnel URL, host token, service configuration, chat room, prompt | register, re-register, chat, approvals, kick, extend, terminate, exit | broker, tunnels, chat, dashboard, cleanup |
| Tunnel supervisor, `lib/services/tunnel.js` | current child, shutdown flag, whether a URL was announced | start, restart after a death, kill | host (callback), cleanup (tracked PIDs) |
| Cleanup, `lib/mod/cleanup.js` | hooks, tracked PIDs, revocation function, two flags | `cleanupAll`, signal handlers | every part that registers a hook |
| Client access, `modes/client.js`, `lib/client/broker.js` | remembered request id, status poll, menu | resolve, ask, wait, collect, chat, quit | broker; SSH and SCP |
| Client session, `modes/client.js` | key file, hooks, status poll, copies of the log, menu, child | verify the key, shell, transfers, reverse tunnel, one-time file, leave, signals | cleanup, broker, path browser, log, host's drop folder |
| Path browser, `lib/client/path-browser.js` | current directory | list, climb, open, choose, type | the host through `ssh`; the client's disk |
| AI assistant, `modes/ai.js`, `lib/ai` | conversation, requests in this turn, scope, key file | consent, task, request, tool call, approval, cut, transfer, quit | language model; client session nested in it; cleanup |
| Crypto worker, `lib/mod/worker-runtime.js`, `crypto.js`, `checksum.js`, `lib/workers` | worker, map of pending calls, idle timer | post, reply, error, exit, idle shutdown, fallback | everything that encrypts |
| Session log, `lib/mod/session-log.js` | buffer, byte counts, timer, files | log, flush, rotate, start, cleanup | other iPingYou processes, through the file system |
| Chat room, `lib/services/chat.js` | connections, names, host capability; in each page transcript and sidebar | join, send, relay, leave, close | host menu, browsers |
| Dashboard, `modes/host.js` | active event streams, what each sent last, a cache of decrypted clients; in each page the shown lists and a fallback timer | stream, poll, decide, revoke, close | broker client, browsers |
| Private broker, `modes/host.js` | child process and tunnel of its own | start, health check, end | host session |
| Ephemeral key and managed sshd, `modes/host.js`, `lib/services/ssh.js` | line in `authorized_keys`, key files, daemon, drop folder | inject, verify, start, remove | cleanup; other hosts, the wipe and the user, through `authorized_keys` |
| Panic wipe, `lib/mod/panic-wipe.js` | none of its own | remove folders, temporary files, lines of `authorized_keys` | the files of every host on the machine |
| Audit signer, guardrails, recorder, web terminal, doctor, CLI, platform layer | little or none beyond a call | | |

### What is hard, and what correct means

*Broker.* Handlers are atomic, but a record lives through many of them: it is
renewed with other flags, pruned late, filled up to four limits, kicked and
adjusted. Correct: bytes are accounted for; one-time records are resolved
once; consent is required and final; no adjustment outlives the TTL; a ban
has its violations behind it.

*Host session.* Half a dozen coroutines of one event loop register the same
record with different delays while children die and the user leaves. Correct:
the broker has the URL of the running tunnel under the token the host knows;
whoever ends the session, it ends, revoked and clean.

*Keys.* What the set-up creates is hooked for removal only some awaits later, and
`authorized_keys` is read, emptied and written back without a lock beside other
hosts, the wipe and the user. Correct: the key that is advertised is accepted, a
session that ends leaves nothing, and no line of the user is lost to two of them
taking turns, but those the wipe takes for the program's.

*Worker.* Messages and events of a dead thread arrive after its successor was
started; a timer fires just when work arrives. Correct: every accepted call is
answered once, rightly, and the process can exit.

*Client and approvals.* Three places decide from stale copies, keys are derived
on both sides from data that can differ, calls fail half-way. Correct: nobody is
served without consent, who is served can read it, and a client leaves exactly
when it should.

*Client session.* A key file is written before `ssh-keygen` has answered; hooks are
added while others run; a signal, the poll, an exception and the user may end it
at any wait, and the first who calls `cleanupAll` makes it a no-op for the rest.
The log is copied to the host while it grows. Correct: what was begun is removed,
whoever ends the process; what is logged reaches the host; nothing keeps a
process that is through.

*Path browser.* A directory that cannot be listed is left for its parent, and
`dirname` has fixed points. Correct: as long as each listing ends, the user is asked
again after finitely many steps.

*Assistant.* One message may call several tools, each blocked, denied, interrupted
or failing, and the conversation is cut from its front between turns; sessions
run inside it and end without it. Correct: every call is answered before the
model is asked again, and each turn ends.

*Log.* Several processes share a history and remove each other's leavings.
Correct: limits hold, no file outlives its process, nothing stays in the buffer.

*Dashboard.* A page has two sources of news, either of which may be late, fail or
stop. Correct: it comes to show the current list, and closing it releases all
that served it.

*Chat.* Sockets open, announce a name and close in any order; messages are
encrypted and decrypted asynchronously, and dropped when too long. Correct: when all
is quiet the sidebars agree and the transcripts hold what was relayed and what the
own user said within the limits; only who shows this room's token closes it, and
then it empties.

`PROJECT.json` lists these hazards line by line ("hazards") with the properties
that would notice; those no run covers say why.

## 2. Modules

| Module | Models |
|---|---|
| `BrokerDefense` | violations, bans and their pruning |
| `Broker` (extends it) | every route of the broker and the prune timer |
| `SessionGate` | what the broker promises; `Broker` implements it |
| `BrokerProofs` | theorems about `Broker` |
| `WorkerRuntime` | main thread and worker threads |
| `AsyncCalls` | what the callers are promised; `WorkerRuntime` implements it |
| `HostSession` | tunnels, registrations, menu, ends of the process |
| `ApprovalFlow` | client processes, the host's decisions, the record between them |
| `PathBrowser` | the browsers for the host's and the client's files |
| `ClientSession` (extends it) | a client from its key file to its end; `cleanupAll` |
| `AgentSession` (extends it) | the assistant, with client sessions inside it; a client alone is its other mode |
| `SessionLog` | logs of several processes |
| `ChatRoom` | server, channels and pages |
| `Dashboard` | the dashboard's server, its event streams and its pages |
| `HostKeys` | what several hosts put on their machine and remove, and the panic wipe |
| `WorkerProofs`, `ApprovalProofs`, `HostKeysProofs`, `ChatProofs`, `DashboardProofs` | theorems about the module of that name, `WorkerRuntime` and `ApprovalFlow` for the first two |
| `SessionProofs` | theorems about `HostSession` and `SessionLog`, whose definitions have names of their own so that one module can extend both |
| `AgentProofs` | theorems about `AgentSession`, and so about `ClientSession` and `PathBrowser` |
| `MCBroker`, `MCAgentSession`, `MCApprovalFlow`, `MCChatRoom`, `MCHostKeys` | constant values and symmetries for TLC |

**Broker.** Node runs one handler at a time and none awaits, so a request is one
action, with its validation, its `recordViolation` and its answer. A payload is
its size (0 stands for one that fails validation); ids and arrival order are one
serial number. Times are whole units. The ban middleware is a guard of every
action. `Adjusted` keeps NaN as a value: comparisons with it are false, as in
JavaScript. `uses` is a history of deliveries: those by `/resolve`, those of them
made one-time, and the requests whose attached payload `/approval-status` handed out
(`ShowStatus`), which changes nothing else. The map keeps insertion
times, since the prune drops the oldest insertion, not the oldest offence.
`Restart` is the loss of all of it.

**SessionGate** knows neither time nor memory nor addresses: sessions open,
renew, are asked, ruled on, served, shown what was attached to an approved request, and
closed. The mapping takes a record to its flags and
the status of its requests, and `uses` to what was served and shown.

**WorkerRuntime.** One action per synchronous stretch of either side: a call
(`CallPosted`, `CallRefused`), a reply, the three events, the timer, and in the
thread `Execute`, `Fail`, `End`. A dead thread's error and exit events are
delivered separately and late; replies that were posted before still arrive.
`Compute` is the work done at the caller after a failure.

**HostSession.** One action per stretch between two awaits. A registration is
built (`Registering`), sent (`Send`), handled by the broker and answered
(`AnswerRegister`), and only then does its continuation run, which differs by
who made it: session tunnel, chat tunnel, chat close, menu. `cleanupAll` is
four actions (`CleanupAll`, `RunHooks`, `EndRevocation`, `EndCleanup`), because
a second caller returns at the flag. When the process exits its children die
with it (execa's default), but a revocation already sent still arrives.

**HostKeys.** One action per effect on the machine and per continuation that adds
a hook, so a signal can fall between the two; the set-up goes on beside the
cleanup a signal started, as in the code. A rewriting of `authorized_keys` is
three actions (`RemoveRead`, `RemoveCut`, `RemoveWrite`): `fs.promises.writeFile`
truncates before it writes. `torn` records that somebody else changed the file,
or read it empty, in between, or that the process ended there; `faulted` that a
call failed whose effect the code never undoes (the start of the managed sshd
after its directory was made, a removal, the drop folder). The wipe drops every line
that holds the word "ipingyou" (`Kept`): those of all hosts, and the keys of the user
in `Branded`. HostSession has
all of this as one flag, `artifacts`, and in return the broker.

**Dashboard.** A stream is one of `Streams` and runs `pushLoop` in two steps, before
and after its await (`PushLoop`, `Push`), between which its connection may close
(`CloseEvent`). What was sent and not yet read is a channel. A page hears of a list
by its stream (`Receive`) or by a poll (`PollFallback`, `ShowPoll`), and the two do
not know of each other. Approvals and clients, treated alike by the code, are one
list, numbered by its changes; an empty list and a failed request look the same
to a stream, and a poll drops its failures.

**ApprovalFlow.** A client is one of eight places; the calls of `ApprovalFlow`
are atomic at the broker but may fail for the caller before or after they were
handled. The menu holds a list it fetched earlier (`review`), and each decider
a decision on its way (`posting`). `Remembered` is the request id that
`handleSubsequentActions` passes on in its first round and drops afterwards.

**PathBrowser.** A path is its depth: `Dirname` subtracts one, up to the fixed points
`0` (the root) and `Dot`, which is also the parent of `Tilde`. The local browser
reads directories without a wait, so climbing is one step (`OpenLocal`); the
remote one asks `ssh`, and every failure is a step (`ListingFailed`).

**ClientSession.** An action is the code from one wait to the next, and `at` names
the wait. `hooks` is the list that `cleanupAll` walks as it grows; `hook` is the
one it awaits (only the farewell to the broker is awaited long enough to matter), `runner` who
called it, and `swept` the owners of keys whose work had begun by then. A child
that is killed stays until its caller notices. The logs are counted by events; a
copy takes the size, then copies, then remembers the size (`SyncTick`,
`SyncOver`). `Drain` is Node leaving when no referenced handle is left.

**AgentSession.** A conversation is the sequence of its roles; a message with calls
has their number, an answer the position of its call. Texts have size 1 and
messages with calls size 0, as their content is null. `Connect` starts a session
of `ClientSession` within the same process, with the same hooks and the same
flag in `cleanupAll`; when it is over, the assistant goes on. The steps of both
modules that wait for nothing outside the process are `Own`, those that wait for an
answer `Answers`.

**SessionLog.** Writes and renames fail at any time; a failed write disables the
log, in the cleanup too. A process that starts may remove the log of another as stale. The size of
the history is cached per process (`cached`).

**ChatRoom.** A page encrypts, sends, receives and decrypts in steps of their
own, and closing a socket, the close event and the removal of its name are three. A
page opened with a token shows it (`HostAuth`); the server compares it with its own
(`ShowsToken`), which that of an earlier room is not.

## 3. Runs

| Run | States | What it shows |
|---|---|---|
| `broker_sessions` | two UIDs, two tokens, payloads of 1 and 2 in a buffer of 3, one request kept per record, two serial numbers | `BytesCovered`: the counter is never less than what is stored. `CheckedBytesBounded`: whatever is consulted against the limit respects it. `SlackOnlyFromKick`: the counter drifts by kicks and by nothing else. `OneTimeDeliveredOnce`, and `ImplementsGate`: consent and verdicts among the rest |
| `broker_time` | TTL 3, adjustments beyond it and unparsable ones, five units | `TypeOK`, `RemainingWithinTTL`, `BansMatchViolations` |
| `worker_calls` | four calls, one on bad input, a queue of two, three threads | `PendingAnswerable`, `IdleWorkerReleased`, `HealthyWorkKept`; with fairness `ImplementsCalls` |
| `host_session` | two children, one chat, one menu operation, one loss of the record, lost calls | `SerialUrlCurrent`, `SerialTokenKept`, `SerialEndRevoked` (while registrations do not overlap); `SignalEnds`, `WaitsEnd` whatever the network does |
| `log_files` | two processes, two lines each | `SessionCapped`: file and buffer stay within the limit. `ClosedLogIsGone`, `Flushed` |
| `chat_room` | two pages on the host's machine, one with this room's token and one with an old one, one message each, some too long | `SidebarsAgree`, `EverythingShown`, `ClosedByHost`, `ClosedRoomEmpties` |
| `flow_consent` | two clients on two addresses that may change or coincide, menu and chat page deciding, one kick, one room | `ServedByConsent`, `PayloadsReadable` |
| `flow_chat` | one client, two rounds of its menu, one failing call, one kick | `HonestDisconnect`, `KickedLeaves` |
| `flow_dashboard` | one client approved in the dashboard | `PayloadsReadable` fails |
| `host_keys` | two hosts, one of which may be killed, two keys of the user, one of which names the program, one wipe | `SoloKeepsUserKeys`, `CleanEnd`, `AdvertisedAccepted` |
| `agent_session` | a client alone or two sessions inside an assistant, five kinds of payload, two log events, one failed copy, trees of depth two; two requests a turn, two calls a message, a conversation cut to two texts | `KeysRemoved`: no key begun before the cleanup outlives it, whatever interrupts. `ConversationSound`: the model is never asked with a call unanswered. With fairness `LogCaughtUp`, if its copies end, and `ComesBack`, if all that it calls answers or fails: the program returns to its user or exits |
| `dashboard` | two tabs and one stream, one change, one failure, one broken connection | `StreamAgrees`: a page without polls shows what the server sent it last. With fairness `CatchesUp`: it comes to show the current list however its news reach it, and `EndsWithPages`: after the host left, only an open page keeps the process |

`TypeOK` is checked in `broker_time` and proved; in `Broker` it includes the
relations between tables that the code relies on without testing them. The other
modules state theirs, which are proved but for that of `AgentSession`; the runs spend their time on what could be wrong.

### Bounds

Two sessions are the least that compete for the buffer, and sizes 1 and 2
against a limit of 3 make replacement fit or not; with one request kept, the
second evicts. Two tokens are an owner and a stranger. The clock of
`broker_time` passes the TTL once after any adjustment. A queue of two with four
calls is full, refused and drained; three threads are a dead one, its
replacement and one more. Two children are a tunnel and its successor, or a
tunnel and a chat. Two clients are enough to share an address. Two pages are a
speaker and a listener, either of which may be the host. Two tabs and one stream are a page served
and one refused; one change tells an old list from a new one, and one failure
makes an empty one between them. Two hosts are one that rewrites the file and one
that meets it half-way; in `host_keys` what follows a torn file is not explored
(`Whole`): `SoloKeepsUserKeys` and `AdvertisedAccepted` then claim nothing, and `CleanEnd`
is checked of whole files only. The key that names the program is there before
anything else happens, the other one comes at any time up to the wipe. In `agent_session` two
sessions are one that the cleanup serves and one that comes after it; a tree of
depth two has a root, a home and a folder in it, so climbing meets both fixed
points; two calls are answered in order and in between, and a cut to two texts
takes a call from its answer. Conversation and session do not touch each
other's variables, so turns are taken before the first session (`MaxBefore`), and
sessions and transfers start with an empty conversation (`MaxKept`). Every bound is a constant
named in the module, in the guard of the action it limits.

Deadlock is not checked (`CHECK_DEADLOCK FALSE`): with the bounds reached, or
the process gone, the systems stop rightly.

### Fairness

Each module names its own, and it is of three kinds. Nothing is ever assumed of what a
user does.

* What the process does by itself: the next piece of code, events that are delivered
  and timers that fire. All of `SessionLog`; in `WorkerRuntime`, with a thread that
  works on what it was posted unless it fails or ends (`Fail`, `End`); in `HostSession`, where
  `SignalEnds` rests on the 400 ms limit of the revocation and `WaitsEnd` on the 30
  seconds of the wait, so nothing is assumed of the network, the broker or the tunnel's
  child; in `AgentSession` (`Fairness`) the steps in `Own`, the interval of the copies,
  and the end of a process that nothing keeps.
* That a browser and a server on one machine, or a connection that holds, deliver: a page
  of the chat or the dashboard sends, receives and closes, and a poll of the dashboard is
  answered or fails. A connection may break at any time (`Drop`, `CloseEvent`).
* That a call ends, well or badly, though the code gives it no deadline. In
  `ApprovalFlow` a client's own calls to the broker do (`fetch`); `KickedLeaves` means
  this: it claims nothing of a call that hangs. In `AgentSession` no such assumption is
  in the specification. It is the premise of the two properties that need it: `CopiesEnd`, the
  `scp` of the log (`client.js:68`), for `LogCaughtUp`; `CallsEnd`, everything that the
  program calls, for `ComesBack`: listings (`path-browser.js:120`) and transfers
  (`client.js:370`, `448`, `907`, `ai.js:704`), checks of a key, requests to the broker
  and to the model's service (`groq.js`), and a password that `ssh` or `scp` asks for
  where the host gave no key. Waits for the user, or in code that also asks the user
  (`resolve`, `models`, `lookup`), are not `Busy`.

A call that hangs is therefore seen by the safety properties only: a listing or transfer that hangs keeps the client where it is until Ctrl-C, and
a copy that hangs leaves `isSyncing` set, so that the log is not copied again.

## 4. Where code and documentation disagree

One run ends in the violation of a statement the repository makes:

* `flow_dashboard`: the dashboard encrypts an approved client's payload with a
  key made from the client's user, host and system names (`host.js:1168`); the
  client derives it from the UID (`lib/client/broker.js:296`, "must match host
  side exactly"). A client approved there cannot decrypt.

Others are stated in the modules, were seen violated by TLC in small instances
and have no run of their own:

* `CapacityRespected`: a payload attached to an approval is not checked against
  the buffer's limit (`server.js:620`).
* `NothingPastTTL`: `/approval-status` hands out the payload attached to an approved
  request without a look at the record's age (`server.js:626`), so past the TTL of
  README.md:80 until the next prune; nor does it count or consume: that of
  a one-time record is shown as often as it is asked for. `OneTimeDeliveredOnce` is
  about `/resolve`.
* `UserKeysUntouched`: the wipe removes every line that holds the word "ipingyou", in
  the comment of a user's own key too (`panic-wipe.js:42`), although "non-ipingyou ...
  SSH keys remain completely untouched" (`panic-wipe.js:11`).
* `RecordsHaveTTL`: minutes that do not parse make `createdAt` NaN; the record
  never expires (`server.js:334`).
* `ExtendAddsMinutes`: an extension adds no more than the record's age and
  reports the full minutes.
* `UrlCurrent`: a registration from the menu, overtaken by that of a new tunnel,
  puts the dead URL back.
* `RevokedAtEnd`: a registration under way at the end arrives after the
  revocation and makes the record anew.
* `InterruptedEndIsClean`: `cleanupAll` returns at once to its second caller, so
  Ctrl-C during the shutdown from the menu exits before the hooks are done.
* `NoEndWithoutCleanup`: a failing registration in the tunnel's callback exits
  without the hooks (`host.js:2257`).
* `HistoryCapped`: two processes, each counting its own lines, outgrow the limit
  of the history.
* `LocalLeaveCloses`: the page reopened from the menu has no host capability but
  asks whether to close the room for everyone.
* `AskedOnce`, `NoRoomWhenNone`: an approved client that looks for the chat asks
  for approval again, and a payload attached before the room opened tells it
  that there is none.
* `HonestDisconnect` of a one-time session: the broker deletes the record when it
  delivers it; the client's poll finds it inactive five seconds later and exits as
  if the host had left (`client.js:753`), before or during the download, which
  `client.js:776` announces as coming before the revocation.
* `HistoryRetained`: the cleanup of every process removes the directory that holds
  the history (`session-log.js:141`), which README.md:112 calls retained.
* `SoloKeepsUserKeys` without its premise: two rewritings of `authorized_keys` that
  overlap, or an exit between emptying and writing it, lose the user's lines.
* `KeyRemovedAtEnd`: the hook that removes the key from `authorized_keys` is added
  after the key was injected and verified (`host.js:2192`), up to twelve seconds
  later; Ctrl-C in between leaves the key, which README.md:14 says is removed.
* `LeaveEnds`: leaving by the menu does not end the process while a page of the
  dashboard is open: `server.close()` keeps its event stream, and the hook that
  means to cut it off finds no `closeAllConnections` (`host.js:1946`).
* `NoKeyLeft`: the poll that finds the host gone exits without the hooks
  (`client.js:759`) and leaves the client's key, which README.md:14 says is removed.
  So do sessions after the first in an assistant: `cleanupAll` has set its flag in
  the first one and returns at once in the others (`cleanup.js:99`).
* `HttpKeptAlive`: a client of an HTTP service awaits a promise that nothing
  settles, "so cleanup handlers work" (`client.js:669`); no handle is left and Node
  exits at once, without Ctrl-C and without the hooks.
* `KickSpares`: when a kick fails the client library revokes the whole session.

Read in the code, and part of the models without a formula of their own:

* A chat message that breaks a limit is dropped by the server without a word to its
  sender (`chat.js:489`): the page shows it to nobody, its own user included.
  `EverythingShown` leaves these out (`Oversized`).
* When a table of bans or violations overflows, the oldest insertions of each are dropped and
  the two may part; `BansMatchViolations` claims nothing then.
* The properties of registrations and of the end of a host hold while calls do not
  overlap (`raced`), those of the machine's files while nothing is `torn` or `faulted` and the
  set-up was completed (`ready`); what happens otherwise is `UrlCurrent`, `RevokedAtEnd` and
  `KeyRemovedAtEnd` above.
* Ctrl-C at the approval of a command denies it and the turn goes on, while
  `ai.js:625` announces that it terminates the session at any time.
* The assistant hooks its own key only when `ssh-keygen` has read it (`ai.js:119`);
  `KeysRemoved` leaves that stretch out (`Begun`).
* The cut of the conversation takes messages one by one (`ai.js:642`) and may leave
  answers in front whose call is gone; `Sound` claims nothing of those.
* The client of a one-time session prints "Session revoked" (`client.js:796`) after a
  call that it makes without the host's token.

## 5. Proofs

TLC checks the instances of section 3; the theorems hold for every value of the
constants that satisfies the assumption named in the module. Each module of
proofs has an inductive invariant, lemmas on the operators it is made of, one
step for each action, and theorems that follow. All safety properties that the
runs check are proved.

### Broker (`BrokerProofs`)

* `TypeInvariant` (`TypeOK`). TypeOK alone is not inductive: `/extend`
  computes the oldest `createdAt` that leaves the minimum, clock - TTL +
  MinRemaining, which is a date only because the clock starts at TTL or later.
  `Ages` is TypeOK with that fact about the clock; `TypeCorrect` proves
  `Spec => []Ages`. Each handler has a lemma of its own (`AdjustedType`, ...), and
  they rest on lemmas about the maps (`Put`, `Keep`) and about `Newest` and
  `PushBounded`, which choose what a full list keeps.
* `OneTime` (`OneTimeDeliveredOnce`). `OnceInvariant` adds that a UID that
  has a record was not yet served as one-time: a one-time delivery deletes its
  record in the same step, and a new record starts a new count.
* `Remains` (`RemainingWithinTTL`). The two clamps of `/extend` and the
  clock's monotony; NaN is a case of its own.
* `Bans` (`BansMatchViolations`), inductive beside `Ages`. It needs that
  a banned address is refused before it can be counted, that both tables age by
  one limit, and that pruning to a size is the identity while there are no more
  addresses than the limit.
* `Covered` (`BytesCovered`) and `Checked` (`CheckedBytesBounded`), from `Accounts`:
  the counter covers what is stored, a request that waits for its verdict has no
  payload, and what was checked is within the limit. A sum over a
  function cannot be computed by induction here, so a sum is the number of
  its units, pairs of a slot and a number up to its size, and two sums are
  compared by a bijection between their units. With it, storing, replacing
  and deleting a record are lemmas about three sums (`Balanced`, `KickedApart`).
* `Drift` (`SlackOnlyFromKick`): every step but a kick of one address moves counter and
  store by the same amount; from `Accounts`, with one lemma per route.
* `IsGate` (`ImplementsGate`): the refinement of `SessionGate`, initial state and every
  step. It needs `Linked`: ids of requests are at most the serial number, and are those of one
  record only, and `resolveCount` is the number of deliveries counted in `uses`; without it
  an id might be given out twice, and an old verdict serve a new request.

### Worker (`WorkerProofs`)

* `Types`, `Answerable` (`PendingAnswerable`), `Released` (`IdleWorkerReleased`). Neither
  property is inductive by itself: events of dead threads are delivered late, so the invariant
  says that a worker which is current was started and has not been seen to die (`Alive`), that
  what lies in a queue belongs to its thread (`Posted`), and that who waits is in the
  map and owned by the current worker (`Waited`, `Held`).
* `HealthyWork` (`HealthyWorkKept`), an action property.
* `CallsImplemented`: the safety part of `ImplementsCalls`. Its fairness stays with the run.

### Approvals (`ApprovalProofs`)

* `Types`, which need that whatever number is in a client's or decider's hand was handed out.
* `ConsentHolds` (`ServedByConsent`): a client's request is its own, an approval at
  the broker was chosen by the host, and so was each approval still under way, for the
  request that has its number *now* (`Own`, `Approved`, `Chosen`). The last is where a
  re-registered record with fresh numbers matters.
* `PayloadsAreReadable` (`PayloadsReadable`) for hosts that decide in the menu or on
  the chat page ("dashboard" \notin Deciders): `flow_dashboard` shows that it fails in the
  dashboard, which is a finding of section 4.
* `HonestGoodbyes` (`HonestDisconnect`) for records that are not one-time (OneTime = FALSE):
  for the others section 4 has the counterexample.

### Keys of the host (`HostKeysProofs`)

* `UserKeysKept` (`SoloKeepsUserKeys`, whichever keys of the user name the program),
  `KeyAccepted` (`AdvertisedAccepted`), `EndsClean` (`CleanEnd`), `Types`. `Content` is the file, or what a host that has
  emptied it is about to write; while nothing was torn, at most one process is there (`FileInv`),
  and everything a host has put on its machine is owed to a place in its set-up or
  to a hook still in its list (`Owed`). `Placed` ties the place of each host to its hooks,
  its cleanup and its rewriting of the file, since the set-up goes on while
  hooks run.

### Chat room (`ChatProofs`)

* `Types`, `ClosedByCapability` (`ClosedByHost`), `Shown` (`EverythingShown`), `Sidebars`
  (`SidebarsAgree`). The properties speak of quiet states; the invariant says what holds while
  messages are on their way: each message due to a page is shown, being decrypted or
  in its channel (`Delivered`), each message of its own user is due to it, too long or on its
  way (`Own`); the last list in the channel, or the one shown,
  names the room (`Seen`); and who has a name has a connection, or its announcement is
  under way (`Where`).

### Host session (`SessionProofs`)

* `SessionTypes`, `UrlIsCurrent` (`SerialUrlCurrent`), `TokenIsKept` (`SerialTokenKept`),
  `EndIsRevoked` (`SerialEndRevoked`). Types need that a child that runs is the one its loop
  waits for, that a call
  is made only once there is a URL, and that the dashboard opens only with a token
  (`Supervised`). For the others, as long as `raced` is false: a registration under way
  is the only call, has the host's URL and, if the host has one, its token, and what it
  has left in the broker is what it says (`InTurn`); a record has the current URL, or
  the callback that will report the new one is on its way, whose failure ends the process
  (`Registered`); after the hooks the record is gone, or its revocation was sent
  (`Revoked`). Without `raced` the first and the last fail, as section 4 shows.

### Session log (`SessionProofs`, its second part)

* `Capping` (`SessionCapped`), `ClosedGone` (`ClosedLogIsGone`), `LogTypes`, for any number of
  processes: what is counted never exceeds the limit, and the file with what is buffered
  never what was counted, although writes fail and another process may remove the file
  (`Capped`).
* `OneProcess`: with a single process the history keeps its limit (`HistoryCapped`); with
  two it does not, which section 4 says.

### Dashboard (`DashboardProofs`)

* `Types` and `Agrees` (`StreamAgrees`). A page that is attached has a handler of its own that
  was neither cut off nor closed, and what is on its way ends with what the handler sent
  last (`Joined`, `InStep`); only handlers that go on are counted (`Counted`), so
  a stream that is taken again has no old reader.

### Client and assistant (`AgentProofs`)

* `KeysGone` (`KeysRemoved`). Until cleanupAll is called, every key on the disk has its hook, but
  for the one the assistant waits to read, and no hook of a key stands behind the first
  farewell, for which the hooks are first interrupted (`Uncalled`): so all keys
  are gone when the loop first waits. Afterwards no key of `swept` is written again
  (`CleanedUp`): the session that might do so is past the place where it writes.
* `ConversationKept` (`ConversationSound`). Outside a message's calls the conversation is `Sound`;
  while they are answered it ends in a message with calls and the answers so far
  (`Asked`). The cut needs that `Sound` is kept by every suffix (`SoundSuffix`), for which it says
  that an answer's number is one of its call's numbers.

### Assumptions

Those of each module are evaluated by TLC on its runs: sets that are finite, bounds that are
numbers, and a few that say what the code's constants are or that values differ which the code
keeps apart. The queue of the worker admits a call (`MaxPending` is not 0), a client has a
session (`MaxSessions` is not 0), a line of the log fits into the log (strings are cut at 16 KiB),
`-1`, for no stream, is not a stream, and the words for states of the menu and for the
wiper and the user are not names of addresses or hosts.

### Only model-checked

Everything under fairness (`Flushed`, `ClosedRoomEmpties`, `CatchesUp`, `EndsWithPages`, `LogCaughtUp`,
`ComesBack`, `KickedLeaves`, `SignalEnds`, `WaitsEnd`, and that accepted calls are answered in
`ImplementsCalls`): liveness and ENABLED are outside the prover. The type invariant of
`AgentSession`, of which `KeysGone` proves what it needs.

## 6. Not modelled

* HTTP, Express, the rate limiters and the size limits on bodies; a refused
  request that changes nothing is a stutter.
* The ciphers: ciphertexts are readable by those who derive the same key.
* What travels over SSH, SCP and the reverse tunnel: a child of the client is alive,
  killed or over. The wording of the browsers' prompts is left out too.
* In the assistant: which command or path is blocked (patterns over text; the model
  blocks any), redaction, the summary of a log, and starting a host from a task.
* A client session's access and its life after it are two models, joined by what
  was offered: `ApprovalFlow` ends where `ClientSession` has its `Resolved`.
* The private broker: to `HostSession` a broker is something that may fail, forget
  or be unreachable at any time, and a private one that ends is no more than that.
* The rest of the panic wipe, `~/.ipingyou` and the binaries it keeps: it removes
  whatever it finds and decides from nothing else.
* The chain of the audit signer, guardrails and the recorder: one call each, and no
  state that a second actor shares.
* `IPINGYOU_DISABLE_WORKERS`, a thread that exits with code 0 (nothing in it does), and payloads
  that cannot be cloned (all are strings and paths).
* Services other than SSH in `HostKeys`, which set up nothing, the administrators'
  key file of Windows, and the death of a managed sshd, which nobody notices.
* Killing children on Windows; killing takes effect at once in the model.
* The parts marked `not_modelled` in `PROJECT.json`, for the reasons given there.

## 7. Plan

Done, in this order: broker and its defence, gate, worker, host session, log,
chat, approvals, keys and wipe, dashboard, proofs of the broker, path browser,
client session, assistant, proofs of all components. To come:

1. Proofs: the type invariant of `AgentSession`.
2. Starting a host from the assistant: `HostSession` inside `AgentSession`, as the
   client session is now.
