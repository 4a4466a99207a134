------------------------------ MODULE HostKeys ------------------------------
(***************************************************************************)
(* What a host puts on its machine for a session and takes away again: the *)
(* drop folder, the ephemeral key, its line in authorized_keys, the        *)
(* managed sshd (modes/host.js), the hooks of cleanupAll that remove them  *)
(* (lib/mod/cleanup.js), and `ipingyou panic`, a process of its own that   *)
(* wipes the traces of all (lib/mod/panic-wipe.js).  The hosts of a        *)
(* machine share authorized_keys with each other, with the wiper and with  *)
(* the user, and nobody locks it.                                          *)
(*                                                                         *)
(* Abstractions: a line of authorized_keys is the host whose key it is, or *)
(* a key of the user; a file is the set of its lines; one AuthorizedKeys-  *)
(* File; an append is atomic.  A write of a whole file is not: it empties  *)
(* the file first.  A host starts one session, of a service over SSH; the  *)
(* others set up nothing.  A managed sshd does not die by itself: nobody   *)
(* would notice.                                                           *)
(***************************************************************************)
EXTENDS Naturals, Sequences

CONSTANTS
  Hosts,     \* the host processes of the machine
  UserKeys,  \* the keys the user may add
  Branded,   \* those of them whose line holds the word "ipingyou"
  MaxKills   \* bound: processes that are killed without notice

ASSUME KeysAssumption ==
  /\ Hosts \cap UserKeys = {}
  /\ Branded \subseteq UserKeys
  /\ Hosts \cap {"wiper", "user"} = {}
  /\ MaxKills \in Nat

VARIABLES
  file,      \* the lines of authorized_keys
  installed, \* the keys the user has added
  pc,        \* host -> what startHostMode waits for
  via,       \* host -> how the advertised private key is accepted
  hooks,     \* host -> _cleanupHooks, less those cleanupAll has run
  things,    \* host -> what it has on the machine besides its line
  io,        \* process -> where its rewriting of authorized_keys is
  buf,       \* process -> what it will write
  cleanup,   \* host -> where cleanupAll is
  signalled, \* host -> shuttingDown
  ended,     \* host -> how the process ended
  wiper,     \* where performPanicWipe is
  ready,     \* history: hosts whose set-up went no further once cleanupAll began
  faulted,   \* history: hosts something failed for that is never retried
  wiped,     \* history: the wiper has removed something
  torn,      \* history: authorized_keys changed during a rewriting
  kills      \* counted against its bound

fileVars == <<file, io, buf, torn>>
hostVars == <<pc, via, hooks, things, cleanup, signalled, ended>>
history == <<ready, faulted, wiped>>
vars == <<fileVars, installed, hostVars, wiper, history, kills>>

Keys == Hosts \cup UserKeys
Wiper == "wiper"
Processes == Hosts \cup {Wiper}
Things == {"folder", "keyfile", "sshd", "base"}
Setup == {"folder", "foldered", "keygen", "inject", "verify", "unkey", "sshd", "probe"}

TypeOK ==
  /\ file \subseteq Keys /\ installed \subseteq UserKeys
  /\ pc \in [Hosts -> Setup \cup {"serving", "left"}]
  /\ via \in [Hosts -> {"none", "system", "managed"}]
  /\ \A h \in Hosts : hooks[h] \in Seq({"folder", "key", "sshd"})
  /\ things \in [Hosts -> SUBSET Things]
  /\ io \in [Processes -> {"idle", "read", "cut"}]
  /\ buf \in [Processes -> SUBSET Keys]
  /\ cleanup \in [Hosts -> {"none", "hooks"}]
  /\ signalled \in [Hosts -> BOOLEAN]
  /\ ended \in [Hosts -> {"no", "cleaned", "exited", "killed"}]
  /\ wiper \in {"idle", "files", "keys", "over"}
  /\ ready \subseteq Hosts
  /\ faulted \subseteq Hosts
  /\ wiped \in BOOLEAN /\ torn \in BOOLEAN
  /\ kills \in 0..MaxKills

Init ==
  /\ file = {} /\ installed = {}
  /\ pc = [h \in Hosts |-> "folder"]
  /\ via = [h \in Hosts |-> "none"]
  /\ hooks = [h \in Hosts |-> <<>>]
  /\ things = [h \in Hosts |-> {}]
  /\ io = [p \in Processes |-> "idle"]
  /\ buf = [p \in Processes |-> {}]
  /\ cleanup = [h \in Hosts |-> "none"]
  /\ signalled = [h \in Hosts |-> FALSE]
  /\ ended = [h \in Hosts |-> "no"]
  /\ wiper = "idle"
  /\ ready = {}
  /\ faulted = {}
  /\ wiped = FALSE /\ torn = FALSE
  /\ kills = 0

Running(h) == ended[h] = "no"
At(h, place) == Running(h) /\ pc[h] = place
Goto(h, place) == pc' = [pc EXCEPT ![h] = place]
Has(h, thing) == thing \in things[h]
Gain(h, more) == things' = [things EXCEPT ![h] = @ \cup more]
Lose(h, less) == things' = [things EXCEPT ![h] = @ \ less]
Hook(h, hook) == hooks' = [hooks EXCEPT ![h] = Append(@, hook)]
Spoil(h) == faulted' = faulted \cup {h}

----------------------------------------------------------------------------
(* The shared authorized_keys.                                             *)

Midway(p, places) == \E q \in Processes \ {p} : io[q] \in places

\* Process p (or the user, if it is none) changes the file; p reads it.
Touches(p) == torn' = (torn \/ Midway(p, {"read", "cut"}))
Looks(p) == torn' = (torn \/ Midway(p, {"cut"}))

\* The lines of the file, or those that the process that has emptied it will write.
Content == IF \E p \in Processes : io[p] = "cut"
           THEN UNION {buf[p] : p \in {q \in Processes : io[q] = "cut"}}
           ELSE file

\* Mutant: the file is written back with the key.
LineKept(h) == file
\* Mutant: the file is written without any ephemeral key.
NoLines(h) == file \cap UserKeys

\* The text removePublicKey() writes for what it has read.
Without(h) == file \ {h}

\* The user adds a key, with ssh-copy-id or an editor.
UserAdds(k) ==
  /\ k \notin installed
  /\ installed' = installed \cup {k}
  /\ file' = file \cup {k}
  /\ Touches("user")
  /\ UNCHANGED <<io, buf, hostVars, wiper, history, kills>>

----------------------------------------------------------------------------
(* The set-up.                                                             *)

\* prepareSharedDropFolder(), and the hook once its promise is settled.
MakeFolder(h) ==
  /\ At(h, "folder")
  /\ \/ Gain(h, {"folder"}) /\ Goto(h, "foldered")
     \/ UNCHANGED things /\ Goto(h, "keygen")
  /\ UNCHANGED <<fileVars, installed, via, hooks, cleanup, signalled, ended, wiper,
                 history, kills>>

HookFolder(h) ==
  /\ At(h, "foldered")
  /\ Hook(h, "folder")
  /\ Goto(h, "keygen")
  /\ UNCHANGED <<fileVars, installed, via, things, cleanup, signalled, ended, wiper,
                 history, kills>>

\* generateEphemeralKey().  Without a key there is no passwordless entry.
Generate(h) ==
  /\ At(h, "keygen")
  /\ \/ Gain(h, {"keyfile"}) /\ Goto(h, "inject")
     \/ UNCHANGED things /\ Goto(h, "serving")
  /\ UNCHANGED <<fileVars, installed, via, hooks, cleanup, signalled, ended, wiper,
                 history, kills>>

\* injectPublicKey() appends the line, or finds no file it may write.  A user without
\* a name gets neither key nor fallback, and the key's files are forgotten.
Inject(h) ==
  /\ At(h, "inject")
  /\ \/ /\ file' = file \cup {h}
        /\ Touches(h)
        /\ Goto(h, "verify")
        /\ UNCHANGED faulted
     \/ /\ Goto(h, "sshd")
        /\ UNCHANGED <<file, torn, faulted>>
     \/ /\ Goto(h, "serving")
        /\ Spoil(h)
        /\ UNCHANGED <<file, torn>>
  /\ UNCHANGED <<io, buf, installed, via, hooks, things, cleanup, signalled, ended, wiper,
                 ready, wiped, kills>>

\* The system's sshd can take the key of h: verifyHostAcceptsEphemeralKey().
Accepted(h) == h \in file /\ Has(h, "keyfile")

\* The key is advertised and hooked, if sshd takes it; sshd may refuse all keys.
Verify(h) ==
  /\ At(h, "verify")
  /\ \/ /\ Accepted(h)
        /\ via' = [via EXCEPT ![h] = "system"]
        /\ Hook(h, "key")
        /\ Goto(h, "serving")
     \/ /\ Goto(h, "unkey")
        /\ UNCHANGED <<via, hooks>>
  /\ UNCHANGED <<fileVars, installed, things, cleanup, signalled, ended, wiper, history,
                 kills>>

\* startManagedSshd() up to the start of the child.  What fails before leaves the
\* directory, if it was made; only the key's files are unlinked.
StartSshd(h) ==
  /\ At(h, "sshd")
  /\ \/ /\ Gain(h, {"sshd", "base"})
        /\ Goto(h, "probe")
        /\ UNCHANGED faulted
     \/ /\ things' = [things EXCEPT ![h] = @ \ {"keyfile"}]
        /\ Goto(h, "serving")
        /\ UNCHANGED faulted
     \/ /\ things' = [things EXCEPT ![h] = (@ \ {"keyfile"}) \cup {"base"}]
        /\ Goto(h, "serving")
        /\ Spoil(h)
  /\ UNCHANGED <<fileVars, installed, via, hooks, cleanup, signalled, ended, wiper, ready,
                 wiped, kills>>

\* The managed sshd takes the key and is hooked, refuses it, or does not listen
\* within three seconds: then neither child nor directory are removed.
Probe(h) ==
  /\ At(h, "probe")
  /\ Goto(h, "serving")
  /\ \/ /\ {"sshd", "base", "keyfile"} \subseteq things[h]
        /\ via' = [via EXCEPT ![h] = "managed"]
        /\ Hook(h, "sshd")
        /\ UNCHANGED <<things, faulted>>
     \/ /\ Lose(h, {"sshd", "base", "keyfile"})
        /\ UNCHANGED <<via, hooks, faulted>>
     \/ /\ Lose(h, {"keyfile"})
        /\ Spoil(h)
        /\ UNCHANGED <<via, hooks>>
  /\ UNCHANGED <<fileVars, installed, cleanup, signalled, ended, wiper, ready, wiped,
                 kills>>

----------------------------------------------------------------------------
(* The ends of a process.                                                  *)

\* A process that ends forgets all; while authorized_keys is empty, it leaves it so.
Ends(h, how, less) ==
  /\ ended' = [ended EXCEPT ![h] = how]
  /\ Lose(h, less)
  /\ pc' = [pc EXCEPT ![h] = "left"]
  /\ via' = [via EXCEPT ![h] = "none"]
  /\ hooks' = [hooks EXCEPT ![h] = <<>>]
  /\ cleanup' = [cleanup EXCEPT ![h] = "none"]
  /\ signalled' = [signalled EXCEPT ![h] = FALSE]
  /\ io' = [io EXCEPT ![h] = "idle"]
  /\ buf' = [buf EXCEPT ![h] = {}]
  /\ torn' = (torn \/ io[h] = "cut")
  /\ ready' = ready \ {h}
  /\ faulted' = faulted \ {h}
  /\ UNCHANGED file

\* process.exit(): execa ends the children of the process.
Exit(h, how) == Ends(h, how, {"sshd"})

\* cleanupAll() up to the first hook: the tracked children are killed.
CleanupAll(h, place) ==
  /\ cleanup' = [cleanup EXCEPT ![h] = "hooks"]
  /\ ready' = ready \cup (IF place \in Setup THEN {} ELSE {h})
  /\ Lose(h, {"sshd"})
  /\ pc' = [pc EXCEPT ![h] = place]
  /\ UNCHANGED <<fileVars, via, hooks, ended, faulted>>

\* SIGINT, SIGTERM, or an error nobody caught.  Cleanup and set-up go on side by
\* side; while someone else runs cleanupAll() it returns at once.
Signal(h) ==
  /\ Running(h)
  /\ ~signalled[h]
  /\ IF cleanup[h] = "none"
     THEN CleanupAll(h, pc[h]) /\ signalled' = [signalled EXCEPT ![h] = TRUE]
     ELSE Exit(h, "exited")
  /\ UNCHANGED <<installed, wiper, wiped, kills>>

\* fatal(): a prompt is cancelled, or the wait for the tunnel times out.
Fatal(h) ==
  /\ Running(h)
  /\ pc[h] \in {"folder", "keygen", "serving"}
  /\ IF cleanup[h] = "none"
     THEN CleanupAll(h, "left") /\ UNCHANGED signalled
     ELSE Exit(h, "exited")
  /\ UNCHANGED <<installed, wiper, wiped, kills>>

\* The dashboard is left.
Leave(h) ==
  /\ At(h, "serving")
  /\ IF cleanup[h] = "none"
     THEN CleanupAll(h, "left")
     ELSE /\ Goto(h, "left")
          /\ UNCHANGED <<fileVars, via, hooks, things, ended, cleanup, ready, faulted>>
  /\ UNCHANGED <<installed, signalled, wiper, wiped, kills>>

\* A registration fails: the tunnel's callback exits without cleanup.
RegisterFails(h) ==
  /\ Running(h)
  /\ pc[h] \in {"serving", "left"}
  /\ Exit(h, "exited")
  /\ UNCHANGED <<installed, wiper, wiped, kills>>

\* SIGKILL, or the machine goes down; the managed sshd may survive its parent.
Kill(h) ==
  /\ Running(h)
  /\ kills < MaxKills
  /\ kills' = kills + 1
  /\ \E less \in {{}, {"sshd"}} : Ends(h, "killed", less)
  /\ UNCHANGED <<installed, wiper, wiped>>

----------------------------------------------------------------------------
(* The hooks.                                                              *)

\* A hook added while the loop of cleanupAll() runs is still its to run.
AtHook(h, hook) ==
  /\ Running(h)
  /\ cleanup[h] = "hooks"
  /\ hooks[h] # <<>>
  /\ Head(hooks[h]) = hook

HookDone(h) == hooks' = [hooks EXCEPT ![h] = Tail(@)]

\* cleanupSharedDropFolder(), whose failure is only logged.
RemoveFolder(h) ==
  /\ AtHook(h, "folder")
  /\ HookDone(h)
  /\ \/ Lose(h, {"folder"}) /\ UNCHANGED faulted
     \/ UNCHANGED things /\ Spoil(h)
  /\ UNCHANGED <<fileVars, installed, pc, via, cleanup, signalled, ended, wiper, ready,
                 wiped, kills>>

\* managedSshd.cleanup(), then the key's files.
StopSshd(h) ==
  /\ AtHook(h, "sshd")
  /\ HookDone(h)
  /\ Lose(h, {"sshd", "base", "keyfile"})
  /\ UNCHANGED <<fileVars, installed, pc, via, cleanup, signalled, ended, wiper,
                 history, kills>>

\* removePublicKey() is run by startHostMode when the key was refused, and by the
\* hook of a key that was accepted.
Removing(h) == At(h, "unkey") \/ AtHook(h, "key")

\* removePublicKey() returns, to the fallback or to the hook.
Removed(h) ==
  IF pc[h] = "unkey"
  THEN Goto(h, "sshd") /\ UNCHANGED <<hooks, things>>
  ELSE HookDone(h) /\ Lose(h, {"keyfile"}) /\ UNCHANGED pc

RemoveRead(h) ==
  /\ Removing(h)
  /\ io[h] = "idle"
  /\ io' = [io EXCEPT ![h] = "read"]
  /\ buf' = [buf EXCEPT ![h] = Without(h)]
  /\ Looks(h)
  /\ UNCHANGED <<file, installed, hostVars, wiper, history, kills>>

RemoveCut(h) ==
  /\ Removing(h)
  /\ io[h] = "read"
  /\ io' = [io EXCEPT ![h] = "cut"]
  /\ file' = {}
  /\ Touches(h)
  /\ UNCHANGED <<buf, installed, hostVars, wiper, history, kills>>

RemoveWrite(h) ==
  /\ Removing(h)
  /\ io[h] = "cut"
  /\ io' = [io EXCEPT ![h] = "idle"]
  /\ file' = buf[h]
  /\ buf' = [buf EXCEPT ![h] = {}]
  /\ Touches(h)
  /\ Removed(h)
  /\ UNCHANGED <<installed, via, cleanup, signalled, ended, wiper, history, kills>>

\* The file cannot be read or opened: the fallback goes on, the hook is over and
\* leaves the key's files too.
RemoveFails(h) ==
  /\ Removing(h)
  /\ io[h] \in {"idle", "read"}
  /\ io' = [io EXCEPT ![h] = "idle"]
  /\ buf' = [buf EXCEPT ![h] = {}]
  /\ Spoil(h)
  /\ IF pc[h] = "unkey"
     THEN Goto(h, "sshd") /\ UNCHANGED hooks
     ELSE HookDone(h) /\ UNCHANGED pc
  /\ UNCHANGED <<file, torn, installed, via, things, cleanup, signalled, ended,
                 wiper, ready, wiped, kills>>

\* The loop of cleanupAll() is over, and so is the process.
HooksOver(h) ==
  /\ Running(h)
  /\ cleanup[h] = "hooks"
  /\ hooks[h] = <<>>
  /\ Exit(h, "cleaned")
  /\ UNCHANGED <<installed, wiper, wiped, kills>>

----------------------------------------------------------------------------
(* ipingyou panic.                                                         *)

\* performPanicWipe() up to authorized_keys: folders and what is in the temporary
\* directory.  Each of the two stops at the first thing it cannot remove; here, at
\* once or never.
WipeFiles ==
  /\ wiper = "idle"
  /\ wiper' = "files"
  /\ wiped' = TRUE
  /\ \E folders, temporary \in {{}, Hosts} :
       things' = [h \in Hosts |-> things[h] \ ((IF h \in folders THEN {"folder"} ELSE {})
                                  \cup (IF h \in temporary THEN {"keyfile", "base"} ELSE {}))]
  /\ UNCHANGED <<fileVars, installed, pc, via, hooks, cleanup, signalled, ended, ready,
                 faulted, kills>>

\* Mutant: the lines to keep are taken for those to remove.
KeptInverted == file \cap (Hosts \cup Branded)

\* What sanitizeAuthorizedKeysFile() keeps of what it reads: the lines without the
\* word that generateEphemeralKey() puts into the comment of each key.
Kept == file \ (Hosts \cup Branded)

\* It reads the file, and gives up if there is nothing to remove.
SanitizeRead ==
  /\ wiper = "files"
  /\ IF Kept # file
     THEN /\ wiper' = "keys"
          /\ io' = [io EXCEPT ![Wiper] = "read"]
          /\ buf' = [buf EXCEPT ![Wiper] = Kept]
     ELSE /\ wiper' = "over"
          /\ UNCHANGED <<io, buf>>
  /\ Looks(Wiper)
  /\ UNCHANGED <<file, installed, hostVars, history, kills>>

\* It writes a temporary file and renames it, or fails.
SanitizeRename ==
  /\ wiper = "keys"
  /\ wiper' = "over"
  /\ io' = [io EXCEPT ![Wiper] = "idle"]
  /\ buf' = [buf EXCEPT ![Wiper] = {}]
  /\ \/ file' = buf[Wiper] /\ Touches(Wiper)
     \/ UNCHANGED <<file, torn>>
  /\ UNCHANGED <<installed, hostVars, history, kills>>

----------------------------------------------------------------------------
HostNext(h) ==
  \/ MakeFolder(h) \/ HookFolder(h) \/ Generate(h) \/ Inject(h) \/ Verify(h)
  \/ StartSshd(h) \/ Probe(h)
  \/ Signal(h) \/ Fatal(h) \/ Leave(h) \/ RegisterFails(h) \/ Kill(h)
  \/ RemoveFolder(h) \/ StopSshd(h)
  \/ RemoveRead(h) \/ RemoveCut(h) \/ RemoveWrite(h) \/ RemoveFails(h)
  \/ HooksOver(h)

Next ==
  \/ \E h \in Hosts : HostNext(h)
  \/ \E k \in UserKeys : UserAdds(k)
  \/ WipeFiles \/ SanitizeRead \/ SanitizeRename

Spec == Init /\ [][Next]_vars

----------------------------------------------------------------------------
\* The user's keys that the wipe takes for the program's, once it is over.
Taken == IF wiper = "over" THEN Branded ELSE {}

\* As long as nobody changes authorized_keys, and nobody ends, while another has read
\* it and not written it back, several hosts, the wiper and the user take their turns
\* in any order and no line of the user is lost, but one with the program's name in
\* it, and that only to the wipe.
SoloKeepsUserKeys == ~torn => installed \ Taken \subseteq Content

\* A session whose set-up went no further once its cleanup began, and for which no
\* call failed that is never retried, leaves nothing on the machine when the cleanup
\* is over: not its line, key, folder, daemon or directory.
CleanEnd ==
  [][\A h \in ready \ faulted :
       ended[h] # "cleaned" /\ ended'[h] = "cleaned" /\ ~torn
         => h \notin file' /\ things'[h] = {}]_vars

\* The private key that clients are given opens the machine while the session
\* lasts: whatever sshd it is for has its public half, unless the wiper came.
AdvertisedAccepted ==
  \A h \in Hosts :
    (Running(h) /\ cleanup[h] = "none" /\ h \notin faulted /\ ~wiped /\ ~torn)
      => /\ via[h] = "system" => h \in Content
         /\ via[h] = "managed" => {"sshd", "base"} \subseteq things[h]

\* "Non-ipingyou ... SSH keys remain completely untouched" (panic-wipe.js:11).  The
\* code does not keep it: the wipe knows a key of the program by a word anywhere in
\* its line, the comment of a user's own key included.
UserKeysUntouched == ~torn => installed \subseteq Content

\* "Create an ephemeral SSH key ... and remove it during cleanup" (README.md:14):
\* a session that went through its cleanup has no line in authorized_keys.  The
\* code does not keep it: the hook is added after the key was verified.
KeyRemovedAtEnd == \A h \in Hosts : ended[h] = "cleaned" => h \notin file
=============================================================================
