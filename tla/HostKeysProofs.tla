--------------------------- MODULE HostKeysProofs ---------------------------
(***************************************************************************)
(* Theorems about what hosts put on their machine and take away again, for *)
(* every number of hosts, keys of the user and kills.                      *)
(***************************************************************************)
EXTENDS HostKeys, SequenceTheorems, TLAPS

----------------------------------------------------------------------------
(* The lists of hooks.                                                     *)

HookLists == {<<>>, <<"folder">>, <<"key">>, <<"sshd">>, <<"folder", "key">>,
              <<"folder", "sshd">>}

\* The lists that the set-up has made before it knows which sshd is used.
EarlyLists == {<<>>, <<"folder">>}

In(s, hook) == \E i \in DOMAIN s : s[i] = hook

LEMMA Lists ==
  ASSUME NEW x, NEW y
  PROVE  /\ Head(<<x>>) = x /\ Tail(<<x>>) = <<>> /\ Append(<<>>, x) = <<x>>
         /\ Head(<<x, y>>) = x /\ Tail(<<x, y>>) = <<y>> /\ Append(<<x>>, y) = <<x, y>>
<1>1. Head(<<x>>) = x /\ Append(<<>>, x) = <<x>>
  OBVIOUS
<1>2. Head(<<x, y>>) = x
  OBVIOUS
<1>3. Tail(<<x>>) = <<>>
  OBVIOUS
<1>4. Tail(<<x, y>>) = <<y>>
  OBVIOUS
<1>5. Append(<<x>>, y) = <<x, y>>
  <2> DEFINE S == {x, y}
  <2>1. <<x>> \in Seq(S) /\ <<x, y>> \in Seq(S) /\ y \in S
    OBVIOUS
  <2>2. /\ Append(<<x>>, y) \in Seq(S)
        /\ Len(Append(<<x>>, y)) = 2 /\ Len(<<x, y>>) = 2
        /\ Append(<<x>>, y)[1] = x /\ Append(<<x>>, y)[2] = y
    BY <2>1
  <2>3. \A i \in 1..Len(Append(<<x>>, y)) : Append(<<x>>, y)[i] = <<x, y>>[i]
    BY <2>2
  <2> HIDE DEF S
  <2>4. QED
    BY <2>1, <2>2, <2>3, SeqEqual
<1>6. QED
  BY <1>1, <1>2, <1>3, <1>4, <1>5

LEMMA Members ==
  ASSUME NEW x, NEW y
  PROVE  /\ \A z : ~In(<<>>, z)
         /\ \A z : In(<<x>>, z) <=> z = x
         /\ \A z : In(<<x, y>>, z) <=> z \in {x, y}
<1>1. DOMAIN <<x>> = {1} /\ DOMAIN <<x, y>> = {1, 2}
  OBVIOUS
<1>2. QED
  BY <1>1 DEF In

LEMMA TailFacts ==
  ASSUME NEW s \in HookLists, s # <<>>
  PROVE  /\ Tail(s) \in HookLists
         /\ s \in EarlyLists => Tail(s) \in EarlyLists
         /\ Head(s) \in {"folder", "key", "sshd"}
         /\ In(s, Head(s))
         /\ \A hook : In(Tail(s), hook) <=> In(s, hook) /\ hook # Head(s)
<1>1. ASSUME NEW x \in {"folder", "key", "sshd"}, s = <<x>>
      PROVE  /\ Head(s) = x /\ Tail(s) = <<>> /\ In(s, x)
             /\ \A hook : In(Tail(s), hook) <=> In(s, hook) /\ hook # Head(s)
  <2>1. Head(s) = x /\ Tail(s) = <<>>
    BY <1>1, Lists
  <2>2. \A hook : (In(s, hook) <=> hook = x) /\ ~In(Tail(s), hook)
    <3>1. \A hook : In(<<x>>, hook) <=> hook = x
      BY Members
    <3>2. \A hook : ~In(<<>>, hook)
      BY Members
    <3>3. QED
      BY <1>1, <2>1, <3>1, <3>2, Zenon
  <2>3. QED
    BY <2>1, <2>2
<1>2. ASSUME NEW x \in {"key", "sshd"}, s = <<"folder", x>>
      PROVE  /\ Head(s) = "folder" /\ Tail(s) = <<x>> /\ s \notin EarlyLists /\ In(s, "folder")
             /\ \A hook : In(Tail(s), hook) <=> In(s, hook) /\ hook # Head(s)
  <2>1. Len(s) = 2 /\ Len(<<>>) = 0 /\ Len(<<"folder">>) = 1
    BY <1>2
  <2>2. s \notin EarlyLists
    BY <2>1 DEF EarlyLists
  <2>3. Head(s) = "folder" /\ Tail(s) = <<x>>
    BY <1>2, Lists
  <2>4. \A hook : In(s, hook) <=> hook \in {"folder", x}
    <3>1. \A hook : In(<<"folder", x>>, hook) <=> hook \in {"folder", x}
      BY Members, Zenon
    <3>2. QED
      BY <1>2, <3>1, Zenon
  <2>5. \A hook : In(Tail(s), hook) <=> hook = x
    <3>1. \A hook : In(<<x>>, hook) <=> hook = x
      BY Members
    <3>2. QED
      BY <2>3, <3>1, Zenon
  <2>6. QED
    BY <2>2, <2>3, <2>4, <2>5
<1>3. \/ \E x \in {"folder", "key", "sshd"} : s = <<x>>
      \/ \E x \in {"key", "sshd"} : s = <<"folder", x>>
  BY DEF HookLists
<1>4. QED
  BY <1>1, <1>2, <1>3 DEF HookLists, EarlyLists

LEMMA AppendFacts ==
  ASSUME NEW s \in EarlyLists, NEW hook \in {"folder", "key", "sshd"}, hook = "folder" => s = <<>>
  PROVE  /\ Append(s, hook) \in HookLists
         /\ hook = "folder" => Append(s, hook) \in EarlyLists
         /\ \A other : In(Append(s, hook), other) <=> In(s, other) \/ other = hook
<1>1. CASE s = <<>>
  <2>1. Append(s, hook) = <<hook>>
    BY <1>1, Lists
  <2>2. \A other : In(<<hook>>, other) <=> other = hook
    BY Members
  <2>3. \A other : ~In(<<>>, other)
    BY Members
  <2>4. \A other : (In(Append(s, hook), other) <=> other = hook) /\ ~In(s, other)
    BY <1>1, <2>1, <2>2, <2>3, Zenon
  <2>5. QED
    BY <2>1, <2>4 DEF HookLists, EarlyLists
<1>2. CASE s = <<"folder">>
  <2>1. Append(s, hook) = <<"folder", hook>> /\ hook # "folder"
    BY <1>2, Lists
  <2>2. \A other : In(<<"folder", hook>>, other) <=> other \in {"folder", hook}
    BY Members, Zenon
  <2>3. \A other : In(<<"folder">>, other) <=> other = "folder"
    BY Members
  <2>4. /\ \A other : In(Append(s, hook), other) <=> other \in {"folder", hook}
        /\ \A other : In(s, other) <=> other = "folder"
    BY <1>2, <2>1, <2>2, <2>3, Zenon
  <2>5. QED
    BY <2>1, <2>4 DEF HookLists
<1>3. QED
  BY <1>1, <1>2 DEF EarlyLists

LEMMA ListFacts ==
  /\ EarlyLists \subseteq HookLists
  /\ HookLists \subseteq Seq({"folder", "key", "sshd"})
  /\ \A hook : ~In(<<>>, hook)
  /\ \A s \in EarlyLists : ~In(s, "key") /\ ~In(s, "sshd")
BY DEF EarlyLists, HookLists, In

----------------------------------------------------------------------------
(* Type correctness, and where each process can be.                        *)

Typed == TypeOK /\ hooks \in [Hosts -> HookLists]

\* The hooks and the way in are settled last.
Early(h) == pc[h] \in Setup => hooks[h] \in EarlyLists /\ via[h] = "none"
Unhooked(h) == pc[h] \in {"folder", "foldered"} => hooks[h] = <<>>

\* Who has read authorized_keys and not written it back is in removePublicKey().
Rewriting(h) == io[h] # "idle" => Removing(h)

\* A set-up that cleanupAll found complete does not begin anew.
Settled(h) == h \in ready => pc[h] \notin Setup

Placed == \A h \in Hosts : Early(h) /\ Unhooked(h) /\ Rewriting(h) /\ Settled(h)

WiperPlaced ==
  /\ io[Wiper] = (IF wiper = "keys" THEN "read" ELSE "idle")
  /\ wiper # "idle" => wiped

LEMMA Names == Wiper \notin Hosts /\ "user" \notin Processes /\ MaxKills \in Nat
BY KeysAssumption DEF KeysAssumption, Wiper, Processes

\* What a host does to itself alone.
LEMMA Frame ==
  ASSUME Typed, NEW h \in Hosts, HostNext(h), NEW g \in Hosts \ {h}
  PROVE  /\ UNCHANGED <<pc[g], via[g], hooks[g], things[g], cleanup[g], ended[g], io[g], buf[g]>>
         /\ g \in ready' <=> g \in ready
         /\ g \in faulted' <=> g \in faulted
<1> USE Names DEF Typed, TypeOK, Processes
<1>1. CASE MakeFolder(h) \/ HookFolder(h) \/ Generate(h)
  BY <1>1 DEF MakeFolder, HookFolder, Generate, Gain, Goto, Hook, fileVars, history
<1>2. CASE Inject(h)
  BY <1>2 DEF Inject, Goto, Spoil
<1>3. CASE Verify(h)
  BY <1>3 DEF Verify, Goto, Hook, fileVars, history
<1>4. CASE StartSshd(h)
  BY <1>4 DEF StartSshd, Gain, Goto, Spoil, fileVars
<1>5. CASE Probe(h)
  BY <1>5 DEF Probe, Goto, Hook, Lose, Spoil, fileVars
<1>6. CASE Signal(h) \/ Fatal(h) \/ Leave(h)
  BY <1>6 DEF Signal, Fatal, Leave, CleanupAll, Exit, Ends, Lose, Goto, fileVars
<1>7. CASE RegisterFails(h) \/ Kill(h) \/ HooksOver(h)
  BY <1>7 DEF RegisterFails, Kill, HooksOver, Exit, Ends, Lose
<1>8. CASE RemoveFolder(h) \/ StopSshd(h)
  BY <1>8 DEF RemoveFolder, StopSshd, HookDone, Lose, Spoil, fileVars, history
<1>9. CASE RemoveRead(h) \/ RemoveCut(h)
  BY <1>9 DEF RemoveRead, RemoveCut, hostVars, history
<1>10. CASE RemoveWrite(h)
  BY <1>10 DEF RemoveWrite, Removed, Goto, HookDone, Lose, history
<1>11. CASE RemoveFails(h)
  BY <1>11 DEF RemoveFails, Goto, HookDone, Spoil
<1>12. QED
  BY <1>1, <1>2, <1>3, <1>4, <1>5, <1>6, <1>7, <1>8, <1>9, <1>10, <1>11 DEF HostNext

\* And what it leaves alone whatever happens to others.
LEMMA WiperSame ==
  ASSUME Typed, NEW h \in Hosts, HostNext(h)
  PROVE  UNCHANGED <<installed, wiper, wiped, io[Wiper], buf[Wiper]>>
<1>1. UNCHANGED <<installed, wiper, wiped>>
  BY DEF HostNext, MakeFolder, HookFolder, Generate, Inject, Verify, StartSshd, Probe, Signal, Fatal,
         Leave, RegisterFails, Kill, RemoveFolder, StopSshd, RemoveRead, RemoveCut, RemoveWrite,
         RemoveFails, HooksOver, history
<1>2. \/ UNCHANGED <<io, buf>>
      \/ \E x, y : io' = [io EXCEPT ![h] = x] /\ buf' = [buf EXCEPT ![h] = y]
      \/ \E x : io' = [io EXCEPT ![h] = x] /\ buf' = buf
  BY DEF HostNext, MakeFolder, HookFolder, Generate, Inject, Verify, StartSshd, Probe, Signal, Fatal,
         Leave, RegisterFails, Kill, RemoveFolder, StopSshd, RemoveRead, RemoveCut, RemoveWrite,
         RemoveFails, HooksOver, CleanupAll, Exit, Ends, fileVars
<1>3. QED
  BY <1>1, <1>2, Names DEF Typed, TypeOK, Processes

\* What becomes of the hooks.
LEMMA HooksStep ==
  ASSUME Typed, Placed, NEW h \in Hosts, HostNext(h)
  PROVE  /\ hooks' \in [Hosts -> HookLists]
         /\ \/ hooks' = hooks
            \/ hooks'[h] = <<>>
            \/ hooks[h] # <<>> /\ HookDone(h)
            \/ \E hook \in {"folder", "key", "sshd"} : Hook(h, hook)
<1> USE DEF Typed, TypeOK
<1>1. CASE \/ MakeFolder(h) \/ Generate(h) \/ Inject(h) \/ StartSshd(h) \/ Signal(h) \/ Fatal(h)
           \/ Leave(h) \/ RegisterFails(h) \/ Kill(h) \/ RemoveRead(h) \/ RemoveCut(h)
           \/ HooksOver(h)
  <2>1. hooks' = hooks \/ hooks' = [hooks EXCEPT ![h] = <<>>]
    BY <1>1 DEF MakeFolder, Generate, Inject, StartSshd, Signal, Fatal, Leave, RegisterFails, Kill,
                RemoveRead, RemoveCut, HooksOver, CleanupAll, Exit, Ends, hostVars
  <2>2. <<>> \in HookLists
    BY DEF HookLists
  <2>3. QED
    BY <2>1, <2>2
<1>2. CASE HookFolder(h)
  <2>1. Hook(h, "folder") /\ hooks[h] = <<>>
    BY <1>2 DEF HookFolder, At, Placed, Unhooked
  <2>2. Append(hooks[h], "folder") \in HookLists
    BY <2>1, AppendFacts DEF EarlyLists
  <2>3. QED
    BY <2>1, <2>2 DEF Hook
<1>3. CASE Verify(h) \/ Probe(h)
  <2>1. hooks[h] \in EarlyLists
    BY <1>3 DEF Verify, Probe, At, Placed, Early, Setup
  <2>2. hooks' = hooks \/ Hook(h, "key") \/ Hook(h, "sshd")
    BY <1>3 DEF Verify, Probe
  <2>3. Append(hooks[h], "key") \in HookLists /\ Append(hooks[h], "sshd") \in HookLists
    BY <2>1, AppendFacts
  <2>4. QED
    BY <2>2, <2>3 DEF Hook
<1>4. CASE RemoveFolder(h) \/ StopSshd(h) \/ RemoveWrite(h) \/ RemoveFails(h)
  <2>1. hooks' = hooks \/ (hooks[h] # <<>> /\ HookDone(h))
    BY <1>4 DEF RemoveFolder, StopSshd, RemoveWrite, RemoveFails, AtHook, Removing, Removed, At
  <2>2. hooks[h] # <<>> => Tail(hooks[h]) \in HookLists
    BY TailFacts
  <2>3. QED
    BY <2>1, <2>2 DEF HookDone
<1>5. QED
  BY <1>1, <1>2, <1>3, <1>4 DEF HostNext

\* What becomes of a host that ends, or whose cleanup begins.
Over(h) ==
  \E how \in {"cleaned", "exited", "killed"}, less \in {{}, {"sshd"}} :
    Ends(h, how, less) /\ (how # "killed" => less = {"sshd"})
Begun(h) ==
  /\ cleanup[h] = "none"
  /\ \/ CleanupAll(h, pc[h])
     \/ pc[h] \in {"folder", "keygen", "serving"} /\ CleanupAll(h, "left")

LEMMA Stops ==
  ASSUME Typed, NEW h \in Hosts,
         Signal(h) \/ Fatal(h) \/ Leave(h) \/ RegisterFails(h) \/ Kill(h) \/ HooksOver(h)
  PROVE  /\ \/ Over(h) /\ UNCHANGED kills
            \/ Over(h) /\ kills' = kills + 1 /\ kills < MaxKills
            \/ Begun(h) /\ signalled' \in {signalled, [signalled EXCEPT ![h] = TRUE]}
               /\ UNCHANGED kills
            \/ /\ Running(h) /\ cleanup[h] = "hooks" /\ pc[h] = "serving" /\ Goto(h, "left")
               /\ UNCHANGED <<fileVars, via, hooks, things, ended, cleanup, ready, faulted, kills,
                              signalled>>
         /\ UNCHANGED <<installed, wiper, wiped>>
         /\ Running(h)
<1>1. CASE Signal(h)
  BY <1>1 DEF Signal, Exit, Over, Begun
<1>2. CASE Fatal(h)
  BY <1>2 DEF Fatal, Exit, Over, Begun
<1>3. CASE Leave(h)
  BY <1>3 DEF Leave, Begun, Typed, TypeOK, At
<1>4. CASE RegisterFails(h) \/ HooksOver(h)
  BY <1>4 DEF RegisterFails, HooksOver, Exit, Over, Running
<1>5. CASE Kill(h)
  BY <1>5 DEF Kill, Over
<1>6. QED
  BY <1>1, <1>2, <1>3, <1>4, <1>5

LEMMA TypedHost ==
  ASSUME Typed, Placed, NEW h \in Hosts, HostNext(h)
  PROVE  Typed'
<1>1. hooks' \in [Hosts -> HookLists] /\ \A g \in Hosts : hooks'[g] \in Seq({"folder", "key", "sshd"})
  BY HooksStep, ListFacts
<1>2. ASSUME Signal(h) \/ Fatal(h) \/ Leave(h) \/ RegisterFails(h) \/ Kill(h) \/ HooksOver(h)
      PROVE  UNCHANGED <<installed, wiper, wiped>> /\ kills' \in 0..MaxKills
  <2>1. kills' = kills \/ (kills' = kills + 1 /\ kills < MaxKills)
    BY <1>2, Stops
  <2>2. kills \in 0..MaxKills
    BY DEF Typed, TypeOK
  <2>3. QED
    BY <1>2, <2>1, <2>2, Stops, Names
<1> USE DEF Typed, TypeOK, Setup
<1>3. CASE MakeFolder(h) \/ HookFolder(h) \/ Generate(h)
  <2>1. things' \in [Hosts -> SUBSET Things]
    BY <1>3 DEF MakeFolder, HookFolder, Generate, Gain, Things
  <2>2. pc' \in [Hosts -> Setup \cup {"serving", "left"}]
    BY <1>3 DEF MakeFolder, HookFolder, Generate, Goto
  <2>3. UNCHANGED <<fileVars, installed, via, cleanup, signalled, ended, wiper, history, kills>>
    BY <1>3 DEF MakeFolder, HookFolder, Generate
  <2>4. QED
    BY <1>1, <2>1, <2>2, <2>3 DEF fileVars, history
<1>4. CASE Inject(h)
  <2>1. file' \subseteq Keys /\ torn' \in BOOLEAN /\ faulted' \subseteq Hosts
    BY <1>4 DEF Inject, Touches, Keys, Spoil
  <2>2. pc' \in [Hosts -> Setup \cup {"serving", "left"}]
    BY <1>4 DEF Inject, Goto
  <2>3. QED
    BY <1>1, <1>4, <2>1, <2>2 DEF Inject
<1>5. CASE Verify(h)
  BY <1>1, <1>5 DEF Verify, Goto, fileVars, history
<1>6. CASE StartSshd(h)
  <2>1. things' \in [Hosts -> SUBSET Things] /\ faulted' \subseteq Hosts
    <3>1. \E more \in SUBSET Things : things' = [things EXCEPT ![h] = more]
      <4>1. things[h] \subseteq Things
        OBVIOUS
      <4>2. \/ Gain(h, {"sshd", "base"})
            \/ things' = [things EXCEPT ![h] = @ \ {"keyfile"}]
            \/ things' = [things EXCEPT ![h] = (@ \ {"keyfile"}) \cup {"base"}]
        BY <1>6 DEF StartSshd
      <4>3. QED
        BY <4>1, <4>2 DEF Gain, Things
    <3>2. faulted' \subseteq Hosts
      BY <1>6 DEF StartSshd, Spoil
    <3>3. QED
      BY <3>1, <3>2
  <2>2. pc' \in [Hosts -> Setup \cup {"serving", "left"}]
    BY <1>6 DEF StartSshd, Goto
  <2>3. QED
    BY <1>1, <1>6, <2>1, <2>2 DEF StartSshd, fileVars
<1>7. CASE Probe(h)
  <2>1. things' \in [Hosts -> SUBSET Things] /\ faulted' \subseteq Hosts
    BY ZenonT(60), <1>7 DEF Probe, Lose, Spoil
  <2>2. via' \in [Hosts -> {"none", "system", "managed"}]
    BY <1>7 DEF Probe
  <2>3. QED
    BY <1>1, <1>7, <2>1, <2>2 DEF Probe, Goto, fileVars
<1>8. CASE Signal(h) \/ Fatal(h) \/ Leave(h) \/ RegisterFails(h) \/ Kill(h) \/ HooksOver(h)
  <2>1. UNCHANGED <<installed, wiper, wiped>> /\ kills' \in 0..MaxKills
    BY <1>2, <1>8
  <2>2. CASE Over(h)
    <3>1. PICK how \in {"cleaned", "exited", "killed"}, less \in {{}, {"sshd"}} : Ends(h, how, less)
      BY <2>2 DEF Over
    <3>2. /\ things' \in [Hosts -> SUBSET Things] /\ torn' \in BOOLEAN
          /\ io' \in [Processes -> {"idle", "read", "cut"}] /\ buf' \in [Processes -> SUBSET Keys]
      BY <3>1 DEF Ends, Lose, Processes
    <3>3. /\ pc' \in [Hosts -> Setup \cup {"serving", "left"}]
          /\ via' \in [Hosts -> {"none", "system", "managed"}]
          /\ cleanup' \in [Hosts -> {"none", "hooks"}]
          /\ signalled' \in [Hosts -> BOOLEAN]
          /\ ended' \in [Hosts -> {"no", "cleaned", "exited", "killed"}]
      BY <3>1 DEF Ends
    <3>4. file' = file /\ ready' \subseteq Hosts /\ faulted' \subseteq Hosts
      BY <3>1 DEF Ends
    <3>5. QED
      BY <1>1, <2>1, <3>2, <3>3, <3>4
  <2>3. CASE Begun(h) /\ signalled' \in {signalled, [signalled EXCEPT ![h] = TRUE]}
    <3>1. PICK place \in {pc[h], "left"} : CleanupAll(h, place)
      BY <2>3 DEF Begun
    <3>2. signalled' \in [Hosts -> BOOLEAN]
      BY <2>3
    <3>3. things' \in [Hosts -> SUBSET Things] /\ ready' \subseteq Hosts
      BY <3>1 DEF CleanupAll, Lose
    <3>4. pc' \in [Hosts -> Setup \cup {"serving", "left"}] /\ cleanup' \in [Hosts -> {"none", "hooks"}]
      BY <3>1 DEF CleanupAll
    <3>5. UNCHANGED <<fileVars, via, ended, faulted>>
      BY <3>1 DEF CleanupAll
    <3>6. QED
      BY <1>1, <2>1, <3>2, <3>3, <3>4, <3>5 DEF fileVars
  <2>4. CASE /\ Goto(h, "left")
             /\ UNCHANGED <<fileVars, via, hooks, things, ended, cleanup, ready, faulted, signalled>>
    BY <1>1, <2>1, <2>4 DEF Goto, fileVars
  <2>5. QED
    BY <1>8, <2>2, <2>3, <2>4, Stops
<1>9. CASE RemoveFolder(h) \/ StopSshd(h)
  <2>1. things' \in [Hosts -> SUBSET Things] /\ faulted' \subseteq Hosts
    BY <1>9 DEF RemoveFolder, StopSshd, Lose, Spoil, history
  <2>2. QED
    BY <1>1, <1>9, <2>1 DEF RemoveFolder, StopSshd, fileVars, history
<1>10. CASE RemoveRead(h) \/ RemoveCut(h)
  <2>1. /\ io' \in [Processes -> {"idle", "read", "cut"}] /\ buf' \in [Processes -> SUBSET Keys]
        /\ file' \subseteq Keys /\ torn' \in BOOLEAN
    <3>1. CASE RemoveRead(h)
      BY <3>1 DEF RemoveRead, Without, Looks, Processes
    <3>2. CASE RemoveCut(h)
      BY <3>2 DEF RemoveCut, Touches, Processes
    <3>3. QED
      BY <1>10, <3>1, <3>2
  <2>2. UNCHANGED <<installed, hostVars, wiper, history, kills>>
    BY <1>10 DEF RemoveRead, RemoveCut
  <2>3. QED
    BY <1>1, <2>1, <2>2 DEF hostVars, history
<1>11. CASE RemoveWrite(h) \/ RemoveFails(h)
  <2>1. /\ io' \in [Processes -> {"idle", "read", "cut"}] /\ buf' \in [Processes -> SUBSET Keys]
        /\ file' \subseteq Keys /\ torn' \in BOOLEAN
    <3>1. CASE RemoveWrite(h)
      BY <3>1 DEF RemoveWrite, Touches, Processes
    <3>2. CASE RemoveFails(h)
      BY <3>2 DEF RemoveFails, Processes
    <3>3. QED
      BY <1>11, <3>1, <3>2
  <2>2. /\ pc' \in [Hosts -> Setup \cup {"serving", "left"}]
        /\ things' \in [Hosts -> SUBSET Things] /\ faulted' \subseteq Hosts
    <3>1. CASE RemoveWrite(h)
      BY ZenonT(60), <3>1 DEF RemoveWrite, Removed, Goto, Lose, history
    <3>2. CASE RemoveFails(h)
      BY <3>2 DEF RemoveFails, Goto, Spoil
    <3>3. QED
      BY <1>11, <3>1, <3>2
  <2>3. UNCHANGED <<installed, via, cleanup, signalled, ended, wiper, ready, wiped, kills>>
    BY <1>11 DEF RemoveWrite, RemoveFails, history
  <2>4. QED
    BY <1>1, <2>1, <2>2, <2>3
<1>12. QED
  BY <1>3, <1>4, <1>5, <1>6, <1>7, <1>8, <1>9, <1>10, <1>11 DEF HostNext

\* Who sets up rewrites authorized_keys only to take a refused key away.
LEMMA IdleEarly ==
  ASSUME Typed, Placed, NEW h \in Hosts, pc[h] \in Setup
  PROVE  /\ pc[h] # "unkey" => io[h] = "idle"
         /\ ~AtHook(h, "key") /\ ~AtHook(h, "sshd")
<1>1. hooks[h] \in EarlyLists
  BY DEF Placed, Early
<1>2. hooks[h] # <<>> => Head(hooks[h]) = "folder"
  BY <1>1, Lists DEF EarlyLists
<1>3. QED
  BY <1>2 DEF Placed, Rewriting, Removing, AtHook, At

LEMMA LocalSetup ==
  ASSUME Typed, Placed, NEW h \in Hosts,
         \/ MakeFolder(h) \/ HookFolder(h) \/ Generate(h) \/ Inject(h) \/ Verify(h)
         \/ StartSshd(h) \/ Probe(h)
  PROVE  (Early(h) /\ Unhooked(h) /\ Rewriting(h) /\ Settled(h))'
<1>1. pc[h] \in Setup \ {"unkey"} /\ HostNext(h)
  BY DEF HostNext, MakeFolder, HookFolder, Generate, Inject, Verify, StartSshd, Probe, At, Setup
<1>2. io[h] = "idle" /\ io' = io /\ h \notin ready /\ ready' = ready
  BY <1>1, IdleEarly
     DEF MakeFolder, HookFolder, Generate, Inject, Verify, StartSshd, Probe, fileVars, history,
         Placed, Settled
<1>3. hooks[h] \in EarlyLists /\ via[h] = "none" /\ hooks \in [Hosts -> HookLists]
      /\ pc \in [Hosts -> Setup \cup {"serving", "left"}]
  BY <1>1 DEF Placed, Early, Typed, TypeOK
<1>4. CASE MakeFolder(h) \/ Generate(h) \/ Inject(h) \/ StartSshd(h)
  <2>1. UNCHANGED <<hooks, via>>
    BY <1>4 DEF MakeFolder, Generate, Inject, StartSshd
  <2>2. pc[h] = "folder" \/ pc'[h] \notin {"folder", "foldered"}
    BY <1>3, <1>4 DEF MakeFolder, Generate, Inject, StartSshd, Goto, At
  <2>3. pc[h] = "folder" => hooks[h] = <<>>
    BY DEF Placed, Unhooked
  <2>4. QED
    BY <1>2, <1>3, <2>1, <2>2, <2>3 DEF Early, Unhooked, Rewriting, Settled
<1>5. CASE HookFolder(h)
  <2>1. hooks[h] = <<>> /\ Hook(h, "folder") /\ via' = via /\ pc'[h] = "keygen"
    BY <1>3, <1>5 DEF HookFolder, At, Placed, Unhooked, Goto
  <2>2. hooks'[h] \in EarlyLists
    BY <1>3, <2>1, AppendFacts DEF Hook, EarlyLists
  <2>3. QED
    BY <1>2, <1>3, <2>1, <2>2 DEF Early, Unhooked, Rewriting, Settled
<1>6. CASE Verify(h) \/ Probe(h)
  <2>1. pc'[h] = "serving" \/ (pc'[h] = "unkey" /\ UNCHANGED <<hooks, via>>)
    BY <1>3, <1>6 DEF Verify, Probe, Goto
  <2>2. QED
    BY <1>2, <1>3, <2>1 DEF Early, Unhooked, Rewriting, Settled, Setup
<1>7. QED
  BY <1>4, <1>5, <1>6

LEMMA LocalStop ==
  ASSUME Typed, Placed, NEW h \in Hosts,
         Signal(h) \/ Fatal(h) \/ Leave(h) \/ RegisterFails(h) \/ Kill(h) \/ HooksOver(h)
  PROVE  (Early(h) /\ Unhooked(h) /\ Rewriting(h) /\ Settled(h))'
<1> USE DEF Processes
<1>1. /\ pc \in [Hosts -> Setup \cup {"serving", "left"}]
      /\ cleanup \in [Hosts -> {"none", "hooks"}] /\ io \in [Processes -> {"idle", "read", "cut"}]
  BY DEF Typed, TypeOK
<1>2. CASE Over(h)
  BY <1>1, <1>2 DEF Over, Ends, Early, Unhooked, Rewriting, Settled, Setup
<1>3. CASE Begun(h)
  <2>1. io[h] # "idle" => At(h, "unkey")
    BY <1>3 DEF Begun, Placed, Rewriting, Removing, AtHook
  <2>2. CASE CleanupAll(h, pc[h])
    <3>1. UNCHANGED <<pc, via, hooks, io, ended>> /\ (h \in ready' => h \in ready \/ pc[h] \notin Setup)
      BY <1>1, <2>2 DEF CleanupAll, fileVars
    <3>2. Early(h)' /\ Unhooked(h)' /\ Settled(h)'
      BY <3>1 DEF Placed, Early, Unhooked, Settled
    <3>3. Rewriting(h)'
      BY <2>1, <3>1 DEF Rewriting, Removing, At, Running
    <3>4. QED
      BY <3>2, <3>3
  <2>3. CASE pc[h] \in {"folder", "keygen", "serving"} /\ CleanupAll(h, "left")
    <3>1. pc'[h] = "left" /\ io' = io /\ io[h] = "idle"
      BY <1>1, <2>1, <2>3 DEF CleanupAll, fileVars, At
    <3>2. QED
      BY <3>1 DEF Early, Unhooked, Rewriting, Settled, Setup
  <2>4. QED
    BY <1>3, <2>2, <2>3 DEF Begun
<1>4. CASE /\ pc[h] = "serving" /\ Goto(h, "left")
           /\ UNCHANGED <<fileVars, hooks, ended, cleanup>>
  <2>1. pc'[h] = "left" /\ io' = io
    BY <1>1, <1>4 DEF Goto, fileVars
  <2>2. QED
    BY <1>4, <2>1 DEF Placed, Early, Unhooked, Rewriting, Settled, Removing, At, AtHook, Running, Setup
<1>5. QED
  BY <1>2, <1>3, <1>4, Stops

LEMMA LocalHook ==
  ASSUME Typed, Placed, NEW h \in Hosts,
         \/ RemoveFolder(h) \/ StopSshd(h) \/ RemoveRead(h) \/ RemoveCut(h) \/ RemoveWrite(h)
         \/ RemoveFails(h)
  PROVE  (Early(h) /\ Unhooked(h) /\ Rewriting(h) /\ Settled(h))'
<1> USE DEF Processes
<1>1. /\ pc \in [Hosts -> Setup \cup {"serving", "left"}] /\ hooks \in [Hosts -> HookLists]
      /\ cleanup \in [Hosts -> {"none", "hooks"}] /\ io \in [Processes -> {"idle", "read", "cut"}]
  BY DEF Typed, TypeOK
<1>2. UNCHANGED <<ready, via, ended, cleanup>>
  BY DEF RemoveFolder, StopSshd, RemoveRead, RemoveCut, RemoveWrite, RemoveFails, history, hostVars
<1>3. CASE RemoveFolder(h) \/ StopSshd(h)
  <2>1. UNCHANGED <<pc, io>> /\ hooks[h] # <<>> /\ hooks'[h] = Tail(hooks[h])
        /\ Head(hooks[h]) # "key"
    BY <1>1, <1>3 DEF RemoveFolder, StopSshd, fileVars, AtHook, HookDone, history
  <2>2. io[h] # "idle" => At(h, "unkey")
    BY <2>1 DEF Placed, Rewriting, Removing, AtHook
  <2>3. hooks[h] \in EarlyLists => hooks'[h] \in EarlyLists
    BY <1>1, <2>1, TailFacts
  <2>4. Early(h)' /\ Unhooked(h)'
    BY <1>2, <2>1, <2>3 DEF Placed, Early, Unhooked
  <2>5. Rewriting(h)' /\ Settled(h)'
    BY <1>2, <2>1, <2>2 DEF Placed, Rewriting, Settled, Removing, At, Running
  <2>6. QED
    BY <2>4, <2>5
<1>4. CASE RemoveRead(h) \/ RemoveCut(h)
  <2>1. UNCHANGED hostVars /\ Removing(h)
    BY <1>4 DEF RemoveRead, RemoveCut
  <2>2. Removing(h)'
    BY <2>1 DEF hostVars, Removing, At, AtHook, Running
  <2>3. QED
    BY <1>2, <2>1, <2>2 DEF hostVars, Placed, Early, Unhooked, Rewriting, Settled
<1>5. CASE RemoveWrite(h) \/ RemoveFails(h)
  <2>1. io'[h] = "idle"
    BY <1>1, <1>5 DEF RemoveWrite, RemoveFails
  <2>2. CASE pc[h] = "unkey"
    <3>1. hooks' = hooks /\ pc'[h] = "sshd"
      BY <1>1, <1>5, <2>2 DEF RemoveWrite, RemoveFails, Removed, Goto
    <3>2. pc[h] \in Setup /\ Early(h) /\ Settled(h)
      BY <2>2 DEF Placed, Setup
    <3>3. Early(h)' /\ Settled(h)'
      BY <1>2, <3>1, <3>2 DEF Early, Settled
    <3>4. Unhooked(h)' /\ Rewriting(h)'
      BY <2>1, <3>1 DEF Unhooked, Rewriting
    <3>5. QED
      BY <3>3, <3>4
  <2>3. CASE pc[h] # "unkey"
    <3>1. pc[h] \notin Setup /\ pc' = pc
      BY <1>5, <2>3, IdleEarly DEF RemoveWrite, RemoveFails, Removed, Removing, At
    <3>2. QED
      BY <1>2, <2>1, <3>1 DEF Early, Unhooked, Rewriting, Settled, Setup
  <2>4. QED
    BY <2>2, <2>3
<1>6. QED
  BY <1>3, <1>4, <1>5

LEMMA PlacedHost ==
  ASSUME Typed, Placed, WiperPlaced, NEW h \in Hosts, HostNext(h)
  PROVE  Placed' /\ WiperPlaced'
<1>1. (Early(h) /\ Unhooked(h) /\ Rewriting(h) /\ Settled(h))'
  BY LocalSetup, LocalStop, LocalHook DEF HostNext
<1>2. ASSUME NEW g \in Hosts \ {h}
      PROVE  (Early(g) /\ Unhooked(g) /\ Rewriting(g) /\ Settled(g))'
  <2>1. /\ UNCHANGED <<pc[g], via[g], hooks[g], cleanup[g], ended[g], io[g]>>
        /\ g \in ready' <=> g \in ready
    BY <1>2, Frame
  <2>2. Early(g) /\ Unhooked(g) /\ Rewriting(g) /\ Settled(g)
    BY <1>2 DEF Placed
  <2>3. QED
    BY <2>1, <2>2 DEF Early, Unhooked, Rewriting, Settled, Removing, At, AtHook, Running
<1>3. Placed'
  BY <1>1, <1>2 DEF Placed
<1>4. WiperPlaced'
  <2>1. UNCHANGED <<wiper, wiped, io[Wiper]>>
    BY WiperSame
  <2>2. QED
    BY <2>1 DEF WiperPlaced
<1>5. QED
  BY <1>3, <1>4

----------------------------------------------------------------------------
(* The shared file.                                                        *)

\* What p writes back is what it read, less what it removes.
Rest(p) == IF p = Wiper THEN file \ (Hosts \cup Branded) ELSE file \ {p}
ReadExact == \A p \in Processes : io[p] = "read" => buf[p] = Rest(p)

\* The file is empty only while the one process that is at it goes on to write.
CutAlone ==
  \A p \in Processes : io[p] = "cut" =>
    p \in Hosts /\ file = {} /\ p \notin buf[p] /\ \A q \in Processes \ {p} : io[q] = "idle"

FileInv == ~torn => ReadExact /\ CutAlone /\ installed \ Taken \subseteq Content

LEMMA ContentWhole ==
  ASSUME \A p \in Processes : io[p] # "cut"
  PROVE  Content = file
BY DEF Content

LEMMA ContentCut ==
  ASSUME NEW h \in Processes, io[h] = "cut", \A q \in Processes \ {h} : io[q] # "cut"
  PROVE  Content = buf[h]
BY DEF Content

\* Someone gives up what it has read.
LEMMA FileDropped ==
  ASSUME Typed, ReadExact, CutAlone, NEW h \in Hosts, io[h] # "cut", file' = file,
         io' = [io EXCEPT ![h] = "idle"], buf' = [buf EXCEPT ![h] = {}]
  PROVE  ReadExact' /\ CutAlone' /\ Content' = Content
<1>1. io \in [Processes -> {"idle", "read", "cut"}] /\ buf \in [Processes -> SUBSET Keys]
      /\ h \in Processes
  BY DEF Typed, TypeOK, Processes
<1>2. ReadExact' /\ CutAlone'
  BY <1>1 DEF ReadExact, CutAlone, Rest
<1>3. \A p \in Processes : (io'[p] = "cut" <=> io[p] = "cut") /\ (io[p] = "cut" => buf'[p] = buf[p])
  BY <1>1
<1>4. Content' = Content
  <2>1. CASE \A p \in Processes : io[p] # "cut"
    BY <1>3, <2>1 DEF Content
  <2>2. ASSUME NEW p \in Processes, io[p] = "cut" PROVE Content' = Content
    <3>1. \A q \in Processes \ {p} : io[q] = "idle"
      BY <2>2 DEF CutAlone
    <3>2. Content = buf[p]
      BY <2>2, <3>1, ContentCut
    <3>3. Content' = buf'[p]
      BY <1>3, <2>2, <3>1 DEF Content
    <3>4. QED
      BY <1>3, <2>2, <3>2, <3>3
  <2>3. QED
    BY <2>1, <2>2
<1>5. QED
  BY <1>2, <1>4

LEMMA FileRewritten ==
  ASSUME Typed, Placed, ReadExact, CutAlone, NEW h \in Hosts, ~torn',
         RemoveRead(h) \/ RemoveCut(h) \/ RemoveWrite(h)
  PROVE  /\ ReadExact' /\ CutAlone'
         /\ Content' = Content \/ (RemoveCut(h) /\ Content' = Content \ {h})
<1>1. io \in [Processes -> {"idle", "read", "cut"}] /\ buf \in [Processes -> SUBSET Keys]
      /\ h \in Processes /\ h # Wiper
  BY Names DEF Typed, TypeOK, Processes
<1>2. CASE RemoveRead(h)
  <2>1. /\ io[h] = "idle" /\ io' = [io EXCEPT ![h] = "read"] /\ file' = file
        /\ buf' = [buf EXCEPT ![h] = file \ {h}]
        /\ \A q \in Processes \ {h} : io[q] # "cut"
    BY <1>2 DEF RemoveRead, Without, Looks, Midway
  <2>2. \A q \in Processes : io[q] # "cut" /\ io'[q] # "cut"
    BY <1>1, <2>1
  <2>3. Content = file /\ Content' = file'
    BY <2>2 DEF Content
  <2>4. ReadExact' /\ CutAlone'
    BY <1>1, <2>1, <2>2 DEF ReadExact, CutAlone, Rest
  <2>5. QED
    BY <2>1, <2>3, <2>4
<1>3. CASE RemoveCut(h)
  <2>1. /\ io[h] = "read" /\ io' = [io EXCEPT ![h] = "cut"] /\ file' = {} /\ buf' = buf
        /\ \A q \in Processes \ {h} : io[q] \notin {"read", "cut"}
    BY <1>3 DEF RemoveCut, Touches, Midway
  <2>2. \A q \in Processes \ {h} : io[q] = "idle" /\ io'[q] = "idle"
    BY <1>1, <2>1
  <2>3. Content = file
    BY <2>1, <2>2, ContentWhole
  <2>4. buf[h] = file \ {h}
    BY <1>1, <2>1 DEF ReadExact, Rest
  <2>5. io'[h] = "cut" /\ buf'[h] = file \ {h}
    BY <1>1, <2>1, <2>4
  <2>6. Content' = buf'[h]
    BY <1>1, <2>2, <2>5 DEF Content
  <2>7. ReadExact' /\ CutAlone'
    BY <1>1, <2>1, <2>2, <2>5 DEF ReadExact, CutAlone, Rest
  <2>8. QED
    BY <1>3, <2>3, <2>5, <2>6, <2>7
<1>4. CASE RemoveWrite(h)
  <2>1. /\ io[h] = "cut" /\ io' = [io EXCEPT ![h] = "idle"] /\ file' = buf[h]
        /\ \A q \in Processes \ {h} : io[q] = "idle"
    BY <1>1, <1>4 DEF RemoveWrite, CutAlone
  <2>2. \A q \in Processes : io'[q] = "idle"
    BY <1>1, <2>1
  <2>3. Content = buf[h]
    BY <1>1, <2>1, ContentCut
  <2>4. Content' = file'
    BY <2>2 DEF Content
  <2>5. ReadExact' /\ CutAlone'
    BY <2>2 DEF ReadExact, CutAlone
  <2>6. QED
    BY <2>1, <2>3, <2>4, <2>5
<1>5. QED
  BY <1>2, <1>3, <1>4

LEMMA FileSame ==
  ASSUME ReadExact, CutAlone, UNCHANGED <<file, io, buf>>
  PROVE  ReadExact' /\ CutAlone' /\ Content' = Content
BY DEF ReadExact, CutAlone, Rest, Content

\* A line is added while nobody is at the file.
LEMMA FileAppended ==
  ASSUME Typed, UNCHANGED <<io, buf>>, \A q \in Processes : io[q] = "idle",
         NEW k, file' = file \cup {k}
  PROVE  ReadExact' /\ CutAlone' /\ Content' = Content \cup {k}
BY DEF ReadExact, CutAlone, Content

\* In any order that does not tear it, a host only adds its line and removes it.
LEMMA FileHost ==
  ASSUME Typed, Placed, FileInv, NEW h \in Hosts, HostNext(h), ~torn'
  PROVE  /\ ~torn /\ ReadExact' /\ CutAlone'
         /\ \/ Content' = Content /\ ~RemoveCut(h)
            \/ Content' = Content \cup {h} /\ Inject(h) /\ pc'[h] = "verify" /\ ~RemoveCut(h)
            \/ RemoveCut(h) /\ Content' = Content \ {h}
<1> USE DEF Processes
<1>1. torn \in BOOLEAN /\ io \in [Processes -> {"idle", "read", "cut"}] /\ h # Wiper
      /\ pc \in [Hosts -> Setup \cup {"serving", "left"}]
  BY Names DEF Typed, TypeOK
<1>2. CASE \/ MakeFolder(h) \/ HookFolder(h) \/ Generate(h) \/ Verify(h) \/ StartSshd(h) \/ Probe(h)
           \/ RemoveFolder(h) \/ StopSshd(h)
  <2>1. UNCHANGED fileVars
    BY <1>2 DEF MakeFolder, HookFolder, Generate, Verify, StartSshd, Probe, RemoveFolder, StopSshd
  <2>2. ~RemoveCut(h)
    BY <1>1, <1>2, <2>1 DEF fileVars, RemoveCut
  <2>3. QED
    BY <2>1, <2>2, FileSame DEF fileVars, FileInv
<1>3. CASE Inject(h)
  <2>1. io[h] = "idle" /\ UNCHANGED <<io, buf>>
    BY <1>3, IdleEarly DEF Inject, At, Setup
  <2>2. ~RemoveCut(h)
    BY <1>1, <2>1 DEF RemoveCut
  <2>3. CASE UNCHANGED <<file, torn>>
    BY <2>1, <2>2, <2>3, FileSame DEF FileInv
  <2>4. CASE file' = file \cup {h} /\ Touches(h) /\ Goto(h, "verify")
    <3>1. ~torn /\ \A q \in Processes \ {h} : io[q] \notin {"read", "cut"}
      BY <1>1, <2>4 DEF Touches, Midway
    <3>2. \A q \in Processes : io[q] = "idle"
      BY <1>1, <2>1, <3>1
    <3>3. pc'[h] = "verify"
      BY <1>1, <2>4 DEF Goto
    <3>4. QED
      BY <1>3, <2>1, <2>2, <2>4, <3>1, <3>2, <3>3, FileAppended
  <2>5. QED
    BY <1>3, <2>3, <2>4 DEF Inject
<1>4. CASE Signal(h) \/ Fatal(h) \/ Leave(h) \/ RegisterFails(h) \/ Kill(h) \/ HooksOver(h)
  <2>1. CASE Over(h)
    <3>1. /\ ~torn /\ io[h] # "cut" /\ file' = file
          /\ io' = [io EXCEPT ![h] = "idle"] /\ buf' = [buf EXCEPT ![h] = {}]
      BY <1>1, <2>1 DEF Over, Ends
    <3>2. ~RemoveCut(h)
      BY <1>1, <3>1 DEF RemoveCut
    <3>3. QED
      BY <3>1, <3>2, FileDropped DEF FileInv
  <2>2. CASE UNCHANGED fileVars
    <3>1. ~RemoveCut(h)
      BY <1>1, <2>2 DEF RemoveCut, fileVars
    <3>2. QED
      BY <2>2, <3>1, FileSame DEF fileVars, FileInv
  <2>3. QED
    BY <1>4, <2>1, <2>2, Stops DEF Begun, CleanupAll
<1>5. CASE RemoveRead(h) \/ RemoveCut(h) \/ RemoveWrite(h)
  <2>1. ~torn
    BY <1>1, <1>5 DEF RemoveRead, RemoveCut, RemoveWrite, Looks, Touches
  <2>2. CASE RemoveCut(h)
    <3>1. Content' = Content \ {h}
      <4>1. Content' = Content \/ Content' = Content \ {h}
        BY <1>5, <2>1, FileRewritten DEF FileInv
      <4>2. ~Midway(h, {"read", "cut"}) /\ io[h] = "read" /\ buf' = buf /\ io' = [io EXCEPT ![h] = "cut"]
        BY <1>1, <2>2 DEF RemoveCut, Touches
      <4>3. buf'[h] = file \ {h}
        BY <1>1, <2>1, <4>2 DEF FileInv, ReadExact, Rest
      <4>4. Content' = buf'[h]
        BY <1>1, <4>2 DEF Content, Midway
      <4>5. QED
        BY <4>1, <4>3, <4>4
    <3>2. QED
      BY <1>5, <2>1, <2>2, <3>1, FileRewritten DEF FileInv
  <2>3. CASE ~RemoveCut(h)
    BY <1>5, <2>1, <2>3, FileRewritten DEF FileInv
  <2>4. QED
    BY <2>2, <2>3
<1>6. CASE RemoveFails(h)
  <2>1. /\ ~torn /\ io[h] # "cut" /\ file' = file
        /\ io' = [io EXCEPT ![h] = "idle"] /\ buf' = [buf EXCEPT ![h] = {}]
    BY <1>1, <1>6 DEF RemoveFails
  <2>2. ~RemoveCut(h)
    BY <1>1, <2>1 DEF RemoveCut
  <2>3. QED
    BY <2>1, <2>2, FileDropped DEF FileInv
<1>7. QED
  BY <1>2, <1>3, <1>4, <1>5, <1>6 DEF HostNext

\* The steps of the user and of the wiper.
OthersNext == (\E k \in UserKeys : UserAdds(k)) \/ WipeFiles \/ SanitizeRead \/ SanitizeRename

LEMMA OthersSame ==
  ASSUME Typed, OthersNext, NEW h \in Hosts
  PROVE  /\ UNCHANGED <<pc, via, hooks, cleanup, signalled, ended, io[h], buf[h], ready, faulted>>
         /\ things'[h] \subseteq things[h]
<1>1. UNCHANGED <<pc, via, hooks, cleanup, signalled, ended, ready, faulted>>
  BY DEF OthersNext, UserAdds, WipeFiles, SanitizeRead, SanitizeRename, hostVars, history
<1>2. things'[h] \subseteq things[h]
  BY DEF OthersNext, UserAdds, WipeFiles, SanitizeRead, SanitizeRename, hostVars
<1>3. UNCHANGED <<io[h], buf[h]>>
  BY Names DEF OthersNext, UserAdds, WipeFiles, SanitizeRead, SanitizeRename, fileVars, Typed, TypeOK,
               Processes
<1>4. QED
  BY <1>1, <1>2, <1>3

LEMMA OthersTyped ==
  ASSUME Typed, Placed, WiperPlaced, OthersNext
  PROVE  Typed' /\ Placed' /\ WiperPlaced'
<1>1. Typed'
  <2> USE DEF Typed, TypeOK
  <2>1. CASE \E k \in UserKeys : UserAdds(k)
    BY <2>1 DEF UserAdds, Touches, Keys, hostVars, history
  <2>2. CASE WipeFiles
    <3>1. things' \in [Hosts -> SUBSET Things]
      BY <2>2 DEF WipeFiles
    <3>2. QED
      BY <2>2, <3>1 DEF WipeFiles, fileVars
  <2>3. CASE SanitizeRead
    <3>1. /\ io' \in [Processes -> {"idle", "read", "cut"}] /\ buf' \in [Processes -> SUBSET Keys]
          /\ torn' \in BOOLEAN
      BY ZenonT(60), <2>3 DEF SanitizeRead, Kept, Looks
    <3>2. QED
      BY <2>3, <3>1 DEF SanitizeRead, hostVars, history
  <2>4. CASE SanitizeRename
    <3>1. /\ io' \in [Processes -> {"idle", "read", "cut"}] /\ buf' \in [Processes -> SUBSET Keys]
          /\ torn' \in BOOLEAN /\ file' \subseteq Keys
      BY <2>4 DEF SanitizeRename, Touches, Processes
    <3>2. QED
      BY <2>4, <3>1 DEF SanitizeRename, hostVars, history
  <2>5. QED
    BY <2>1, <2>2, <2>3, <2>4 DEF OthersNext
<1>2. Placed'
  BY OthersSame DEF Placed, Early, Unhooked, Rewriting, Settled, Removing, At, AtHook, Running
<1>3. WiperPlaced'
  <2>1. io \in [Processes -> {"idle", "read", "cut"}] /\ Wiper \in Processes
    BY DEF Typed, TypeOK, Processes
  <2>2. QED
    BY <2>1 DEF WiperPlaced, OthersNext, UserAdds, WipeFiles, SanitizeRead, SanitizeRename, fileVars,
                history
<1>4. QED
  BY <1>1, <1>2, <1>3

\* Nor do the user and the wiper tear it.
LEMMA FileOthers ==
  ASSUME Typed, Placed, WiperPlaced, FileInv, OthersNext, ~torn'
  PROVE  /\ ~torn /\ ReadExact' /\ CutAlone'
         /\ \/ Content' = Content /\ installed' = installed
            \/ \E k \in UserKeys : Content' = Content \cup {k} /\ installed' = installed \cup {k}
            \/ /\ Content' = Content \ (Hosts \cup Branded) /\ installed' = installed
               /\ wiper' = "over" /\ wiped'
<1> USE DEF Processes
<1>1. torn \in BOOLEAN /\ io \in [Processes -> {"idle", "read", "cut"}]
      /\ buf \in [Processes -> SUBSET Keys]
  BY DEF Typed, TypeOK
<1>2. ASSUME NEW k \in UserKeys, UserAdds(k)
      PROVE  /\ ~torn /\ ReadExact' /\ CutAlone'
             /\ Content' = Content \cup {k} /\ installed' = installed \cup {k}
  <2>1. ~torn /\ \A q \in Processes \ {"user"} : io[q] \notin {"read", "cut"}
    BY <1>1, <1>2 DEF UserAdds, Touches, Midway
  <2>2. \A q \in Processes : io[q] = "idle"
    BY <1>1, <2>1, Names
  <2>3. QED
    BY <1>2, <2>1, <2>2, FileAppended DEF UserAdds
<1>3. CASE WipeFiles
  BY <1>3, FileSame DEF WipeFiles, fileVars, FileInv
<1>4. CASE SanitizeRead
  <2>1. ~torn /\ \A q \in Processes \ {Wiper} : io[q] # "cut"
    BY <1>1, <1>4 DEF SanitizeRead, Looks, Midway
  <2>2. \A q \in Processes : io[q] # "cut"
    BY <1>4, <2>1 DEF SanitizeRead, WiperPlaced
  <2>3. /\ file' = file /\ UNCHANGED installed
        /\ \/ UNCHANGED <<io, buf>>
           \/ io' = [io EXCEPT ![Wiper] = "read"] /\ buf' = [buf EXCEPT ![Wiper] = file \ (Hosts \cup Branded)]
    BY <1>4 DEF SanitizeRead, Kept
  <2>4. \A q \in Processes : io'[q] # "cut"
    BY <1>1, <2>2, <2>3
  <2>5. Content = file /\ Content' = file'
    BY <2>2, <2>4 DEF Content
  <2>6. ReadExact' /\ CutAlone'
    <3>1. ReadExact
      BY <2>1 DEF FileInv
    <3>2. QED
      BY <1>1, <2>3, <2>4, <3>1 DEF ReadExact, CutAlone, Rest
  <2>7. QED
    BY <2>1, <2>3, <2>5, <2>6
<1>5. CASE SanitizeRename
  <2>1. io[Wiper] = "read" /\ wiped /\ wiped' = wiped /\ wiper' = "over"
    BY <1>5 DEF SanitizeRename, WiperPlaced, history
  <2>2. /\ ~torn /\ UNCHANGED installed
        /\ io' = [io EXCEPT ![Wiper] = "idle"] /\ buf' = [buf EXCEPT ![Wiper] = {}]
    BY <1>1, <1>5 DEF SanitizeRename, Touches
  <2>3. ReadExact /\ CutAlone
    BY <2>2 DEF FileInv
  <2>4. \A q \in Processes : io[q] # "cut" /\ io'[q] # "cut"
    BY <1>1, <2>1, <2>2, <2>3 DEF CutAlone
  <2>5. Content = file /\ Content' = file'
    BY <2>4 DEF Content
  <2>6. CASE file' = buf[Wiper] /\ Touches(Wiper)
    <3>1. \A q \in Processes \ {Wiper} : io[q] \notin {"read", "cut"}
      BY <2>6 DEF Touches, Midway
    <3>2. \A q \in Processes : io'[q] = "idle"
      BY <1>1, <2>2, <3>1
    <3>3. file' = file \ (Hosts \cup Branded)
      BY <2>1, <2>3, <2>6 DEF ReadExact, Rest
    <3>4. ReadExact' /\ CutAlone'
      BY <3>2 DEF ReadExact, CutAlone
    <3>5. QED
      BY <2>1, <2>2, <2>5, <3>3, <3>4
  <2>7. CASE file' = file
    <3>1. ReadExact' /\ CutAlone'
      BY <1>1, <2>2, <2>3, <2>4, <2>7 DEF ReadExact, CutAlone, Rest
    <3>2. QED
      BY <2>2, <2>5, <2>7, <3>1
  <2>8. QED
    BY <1>5, <2>6, <2>7 DEF SanitizeRename
<1>6. QED
  BY <1>2, <1>3, <1>4, <1>5 DEF OthersNext

Base == Typed /\ Placed /\ WiperPlaced /\ FileInv

LEMMA BaseInit ==
  ASSUME Init
  PROVE  Base
<1>1. Typed
  <2>1. hooks \in [Hosts -> HookLists] /\ \A h \in Hosts : hooks[h] \in Seq({"folder", "key", "sshd"})
    BY DEF Init, HookLists
  <2>2. kills \in 0..MaxKills
    BY Names DEF Init
  <2>3. QED
    BY <2>1, <2>2 DEF Init, Typed, TypeOK, Setup
<1>2. Placed /\ WiperPlaced
  BY DEF Init, Placed, Early, Unhooked, Rewriting, Settled, WiperPlaced, Processes, EarlyLists
<1>3. FileInv
  BY DEF Init, FileInv, ReadExact, CutAlone, Content, Taken
<1>4. QED
  BY <1>1, <1>2, <1>3 DEF Base

LEMMA SameStep ==
  ASSUME UNCHANGED vars
  PROVE  UNCHANGED <<file, io, buf, torn, installed, pc, via, hooks, things, cleanup, signalled,
                     ended, wiper, ready, faulted, wiped, kills>>
BY DEF vars, fileVars, hostVars, history

LEMMA BaseStep ==
  ASSUME Base, [Next]_vars
  PROVE  Base'
<1>1. CASE UNCHANGED vars
  <2>1. Typed'
    BY <1>1, SameStep DEF Base, Typed, TypeOK
  <2>2. Placed' /\ WiperPlaced'
    BY <1>1, SameStep DEF Base, Placed, Early, Unhooked, Rewriting, Settled, WiperPlaced, Removing,
                          At, AtHook, Running
  <2>3. FileInv'
    BY <1>1, SameStep DEF Base, FileInv, ReadExact, CutAlone, Rest, Content, Taken
  <2>4. QED
    BY <2>1, <2>2, <2>3 DEF Base
<1>2. ASSUME NEW h \in Hosts, HostNext(h) PROVE Base'
  <2>1. Typed' /\ Placed' /\ WiperPlaced'
    BY <1>2, TypedHost, PlacedHost DEF Base
  <2>2. ASSUME ~torn' PROVE ReadExact' /\ CutAlone' /\ installed' \ Taken' \subseteq Content'
    <3>1. /\ ~torn /\ ReadExact' /\ CutAlone'
          /\ Content' \in {Content, Content \cup {h}, Content \ {h}}
      BY <1>2, <2>2, FileHost DEF Base
    <3>2. installed' = installed /\ installed \subseteq UserKeys /\ Taken' = Taken
      BY <1>2, WiperSame DEF Base, Typed, TypeOK, Taken
    <3>3. h \notin installed
      BY <3>2, KeysAssumption DEF KeysAssumption
    <3>4. QED
      BY <3>1, <3>2, <3>3 DEF Base, FileInv
  <2>3. QED
    BY <2>1, <2>2 DEF Base, FileInv
<1>3. CASE OthersNext
  <2>1. Typed' /\ Placed' /\ WiperPlaced'
    BY <1>3, OthersTyped DEF Base
  <2>2. ASSUME ~torn' PROVE ReadExact' /\ CutAlone' /\ installed' \ Taken' \subseteq Content'
    <3>1. /\ ~torn /\ ReadExact' /\ CutAlone'
          /\ \/ Content' = Content /\ installed' = installed
             \/ \E k \in UserKeys : Content' = Content \cup {k} /\ installed' = installed \cup {k}
             \/ /\ Content' = Content \ (Hosts \cup Branded) /\ installed' = installed
                /\ Taken' = Branded
      BY <1>3, <2>2, FileOthers DEF Base, Taken
    <3>2. Taken \subseteq Taken'
      BY <1>3 DEF OthersNext, UserAdds, WipeFiles, SanitizeRead, SanitizeRename, Taken
    <3>3. installed \subseteq UserKeys /\ installed \cap Hosts = {}
      BY KeysAssumption DEF KeysAssumption, Base, Typed, TypeOK
    <3>4. QED
      BY <3>1, <3>2, <3>3 DEF Base, FileInv
  <2>3. QED
    BY <2>1, <2>2 DEF Base, FileInv
<1>4. QED
  BY <1>1, <1>2, <1>3 DEF Next, OthersNext

\* Each variable of the hosts, the file and the wiper keeps its type; in particular
\* the hooks of a host are one of six lists.
THEOREM Types == Spec => []TypeOK
<1>1. Base => TypeOK
  BY DEF Base, Typed
<1>2. QED
  BY <1>1, BaseInit, BaseStep, PTL DEF Spec

\* Hosts, the wiper and the user take turns at authorized_keys without a lock; until
\* one changes it between another's reading and writing, the user loses no key but
\* those the wiper takes for the program's.
THEOREM UserKeysKept == Spec => []SoloKeepsUserKeys
<1>1. Base => SoloKeepsUserKeys
  BY DEF Base, FileInv, SoloKeepsUserKeys
<1>2. QED
  BY <1>1, BaseInit, BaseStep, PTL DEF Spec

----------------------------------------------------------------------------
(* What a host has on the machine.                                         *)

\* A thing of h is there only while its set-up will decide about it, or a hook will
\* remove it.
ThingsOwed(h) ==
  /\ "folder" \in things[h] => pc[h] = "foldered" \/ In(hooks[h], "folder")
  /\ "keyfile" \in things[h] =>
       \/ pc[h] \in {"inject", "verify", "unkey", "sshd", "probe"}
       \/ In(hooks[h], "key") \/ In(hooks[h], "sshd")
  /\ "sshd" \in things[h] \/ "base" \in things[h] => pc[h] = "probe" \/ In(hooks[h], "sshd")

LineOwed(h) ==
  /\ h \in Content => pc[h] \in {"verify", "unkey"} \/ In(hooks[h], "key")
  /\ io[h] = "cut" => h \notin Content

Owed(h) == Running(h) /\ h \notin faulted => ThingsOwed(h) /\ (~torn => LineOwed(h))

\* The private key that clients are given.
Promise(h) ==
  Running(h) /\ cleanup[h] = "none" /\ h \notin faulted /\ ~wiped =>
    /\ ~torn /\ via[h] = "system" => h \in Content
    /\ via[h] = "managed" => {"sshd", "base"} \subseteq things[h]

Accounted(h) == Owed(h) /\ Promise(h)

\* Nobody but h brings its line or takes it away, except the wiper.
LEMMA OtherLine ==
  ASSUME Base, ~torn', NEW h \in Hosts,
         OthersNext \/ \E g \in Hosts \ {h} : HostNext(g)
  PROVE  /\ ~torn /\ (h \in Content' => h \in Content)
         /\ wiped' \/ (h \in Content => h \in Content')
<1>1. ASSUME NEW g \in Hosts \ {h}, HostNext(g)
      PROVE  ~torn /\ (h \in Content' <=> h \in Content)
  <2>1. ~torn /\ Content' \in {Content, Content \cup {g}, Content \ {g}}
    BY <1>1, FileHost DEF Base
  <2>2. QED
    BY <1>1, <2>1
<1>2. CASE OthersNext
  <2>1. /\ ~torn
        /\ \/ Content' = Content
           \/ \E k \in UserKeys : Content' = Content \cup {k}
           \/ Content' = Content \ (Hosts \cup Branded) /\ wiped'
    BY <1>2, FileOthers DEF Base
  <2>2. h \notin UserKeys
    BY KeysAssumption DEF KeysAssumption
  <2>3. QED
    BY <2>1, <2>2
<1>3. QED
  BY <1>1, <1>2

LEMMA AccountedOthers ==
  ASSUME Base, NEW h \in Hosts, Accounted(h), OthersNext \/ \E g \in Hosts \ {h} : HostNext(g)
  PROVE  Accounted(h)'
<1>1. /\ UNCHANGED <<pc[h], via[h], hooks[h], cleanup[h], ended[h], io[h]>>
      /\ h \in faulted' <=> h \in faulted
      /\ things'[h] \subseteq things[h]
  BY Frame, OthersSame DEF Base
<1>2. wiped' \/ (things'[h] = things[h] /\ ~wiped)
  BY Frame, WiperSame DEF Base, OthersNext, UserAdds, WipeFiles, SanitizeRead, SanitizeRename, hostVars,
     history, WiperPlaced
<1>3. Owed(h)'
  BY <1>1, OtherLine DEF Accounted, Owed, ThingsOwed, LineOwed, Running
<1>4. Promise(h)'
  BY <1>1, <1>2, OtherLine DEF Accounted, Promise, Running
<1>5. QED
  BY <1>3, <1>4 DEF Accounted

\* What h itself does about its line.
LEMMA OwnLine ==
  ASSUME Base, NEW h \in Hosts, HostNext(h), ~torn'
  PROVE  /\ ~torn /\ CutAlone
         /\ h \in Content' => h \in Content \/ (Inject(h) /\ pc'[h] = "verify")
         /\ h \in Content => h \in Content' \/ RemoveCut(h)
         /\ RemoveCut(h) => h \notin Content'
<1>1. ~torn /\ CutAlone
  BY FileHost DEF Base, FileInv
<1>2. \/ Content' = Content /\ ~RemoveCut(h)
      \/ Content' = Content \cup {h} /\ Inject(h) /\ pc'[h] = "verify" /\ ~RemoveCut(h)
      \/ RemoveCut(h) /\ Content' = Content \ {h}
  BY FileHost DEF Base
<1>3. QED
  BY <1>1, <1>2

LEMMA AccountedSetup ==
  ASSUME Base, NEW h \in Hosts, Accounted(h),
         \/ MakeFolder(h) \/ HookFolder(h) \/ Generate(h) \/ Inject(h) \/ Verify(h)
         \/ StartSshd(h) \/ Probe(h)
  PROVE  Accounted(h)'
<1>1. HostNext(h) /\ Running(h) /\ pc[h] \in Setup \ {"unkey"}
  BY DEF HostNext, MakeFolder, HookFolder, Generate, Inject, Verify, StartSshd, Probe, At, Setup
<1>2. UNCHANGED <<ended, cleanup, io, wiped>> /\ io[h] = "idle" /\ faulted \subseteq faulted'
  BY <1>1, IdleEarly
     DEF Base, MakeFolder, HookFolder, Generate, Inject, Verify, StartSshd, Probe, Spoil, fileVars, history
<1>3. /\ pc \in [Hosts -> Setup \cup {"serving", "left"}] /\ hooks \in [Hosts -> HookLists]
      /\ things \in [Hosts -> SUBSET Things] /\ via \in [Hosts -> {"none", "system", "managed"}]
      /\ hooks[h] \in EarlyLists /\ via[h] = "none"
      /\ ~In(hooks[h], "key") /\ ~In(hooks[h], "sshd")
  BY <1>1, ListFacts DEF Base, Typed, TypeOK, Placed, Early
<1>4. ASSUME h \notin faulted' PROVE ThingsOwed(h)
  BY <1>1, <1>2, <1>4 DEF Accounted, Owed
<1>5. ASSUME h \notin faulted', ~torn' PROVE h \in Content => pc[h] = "verify"
  <2>1. LineOwed(h)
    BY <1>1, <1>2, <1>5, OwnLine DEF Accounted, Owed
  <2>2. QED
    BY <1>1, <1>3, <2>1 DEF LineOwed
<1>6. ~RemoveCut(h)
  BY <1>2 DEF RemoveCut
<1>7. ASSUME h \notin faulted', ~torn'
      PROVE  h \in Content' => pc'[h] = "verify" \/ (pc[h] = "verify" /\ h \in Content)
  BY <1>1, <1>5, <1>7, OwnLine
<1>8. CASE MakeFolder(h) \/ Generate(h) \/ Inject(h) \/ StartSshd(h)
  <2>1. UNCHANGED <<hooks, via>> /\ pc[h] # "verify"
    BY <1>8 DEF MakeFolder, Generate, Inject, StartSshd, At
  <2>2. ASSUME h \notin faulted' PROVE ThingsOwed(h)'
    <3>1. CASE MakeFolder(h)
      BY <1>3, <1>4, <2>1, <2>2, <3>1 DEF MakeFolder, At, ThingsOwed, Gain, Goto
    <3>2. CASE Generate(h)
      BY <1>3, <1>4, <2>1, <2>2, <3>2 DEF Generate, At, ThingsOwed, Gain, Goto
    <3>3. CASE Inject(h)
      BY <1>3, <1>4, <2>1, <2>2, <3>3 DEF Inject, At, ThingsOwed, Goto, Spoil
    <3>4. CASE StartSshd(h)
      BY <1>3, <1>4, <2>1, <2>2, <3>4 DEF StartSshd, At, ThingsOwed, Gain, Goto, Spoil
    <3>5. QED
      BY <1>8, <3>1, <3>2, <3>3, <3>4
  <2>3. Owed(h)'
    BY <1>2, <1>7, <2>1, <2>2 DEF Owed, LineOwed
  <2>4. Promise(h)'
    BY <1>3, <2>1 DEF Promise
  <2>5. QED
    BY <2>3, <2>4 DEF Accounted
<1>9. CASE HookFolder(h)
  <2>1. hooks[h] = <<>> /\ Hook(h, "folder") /\ UNCHANGED <<via, things>> /\ pc'[h] = "keygen"
        /\ pc[h] = "foldered"
    BY <1>3, <1>9 DEF HookFolder, At, Base, Placed, Unhooked, Goto
  <2>2. \A hook : In(hooks'[h], hook) <=> In(hooks[h], hook) \/ hook = "folder"
    BY <1>3, <2>1, AppendFacts DEF Hook
  <2>3. Owed(h)'
    BY <1>2, <1>4, <1>7, <2>1, <2>2 DEF Owed, ThingsOwed, LineOwed
  <2>4. Promise(h)'
    BY <1>3, <2>1 DEF Promise
  <2>5. QED
    BY <2>3, <2>4 DEF Accounted
<1>10. CASE Verify(h)
  <2>1. things' = things /\ pc[h] = "verify" /\ faulted' = faulted
    BY <1>10 DEF Verify, At, history
  <2>2. CASE Accepted(h) /\ Hook(h, "key") /\ via' = [via EXCEPT ![h] = "system"]
    <3>1. \A hook : In(hooks'[h], hook) <=> In(hooks[h], hook) \/ hook = "key"
      BY <1>3, <2>2, AppendFacts DEF Hook
    <3>2. Owed(h)'
      BY <1>2, <1>4, <2>1, <3>1 DEF Owed, ThingsOwed, LineOwed
    <3>3. ASSUME ~torn' PROVE h \in Content'
      <4>1. h \in file /\ CutAlone
        BY <1>1, <2>2, <3>3, OwnLine DEF Accepted
      <4>2. Content = file
        BY <4>1, ContentWhole DEF CutAlone
      <4>3. QED
        BY <1>1, <1>6, <3>3, <4>1, <4>2, OwnLine
    <3>4. Promise(h)'
      BY <1>3, <2>2, <3>3 DEF Promise
    <3>5. QED
      BY <3>2, <3>4 DEF Accounted
  <2>3. CASE Goto(h, "unkey") /\ UNCHANGED <<via, hooks>>
    <3>1. pc'[h] = "unkey"
      BY <1>3, <2>3 DEF Goto
    <3>2. Owed(h)'
      BY <1>2, <1>4, <2>1, <2>3, <3>1 DEF Owed, ThingsOwed, LineOwed
    <3>3. Promise(h)'
      BY <1>3, <2>3 DEF Promise
    <3>4. QED
      BY <3>2, <3>3 DEF Accounted
  <2>4. QED
    BY <1>10, <2>2, <2>3 DEF Verify
<1>11. CASE Probe(h)
  <2>1. pc[h] = "probe" /\ pc'[h] = "serving"
    BY <1>3, <1>11 DEF Probe, At, Goto
  <2>2. CASE /\ {"sshd", "base", "keyfile"} \subseteq things[h]
             /\ via' = [via EXCEPT ![h] = "managed"]
             /\ Hook(h, "sshd") /\ UNCHANGED <<things, faulted>>
    <3>1. \A hook : In(hooks'[h], hook) <=> In(hooks[h], hook) \/ hook = "sshd"
      BY <1>3, <2>2, AppendFacts DEF Hook
    <3>2. Owed(h)'
      BY <1>2, <1>4, <1>7, <2>1, <2>2, <3>1 DEF Owed, ThingsOwed, LineOwed
    <3>3. Promise(h)'
      BY <1>3, <2>2 DEF Promise
    <3>4. QED
      BY <3>2, <3>3 DEF Accounted
  <2>3. CASE Lose(h, {"sshd", "base", "keyfile"}) /\ UNCHANGED <<via, hooks, faulted>>
    <3>1. Owed(h)'
      BY <1>2, <1>3, <1>4, <1>7, <2>1, <2>3 DEF Owed, ThingsOwed, LineOwed, Lose
    <3>2. Promise(h)'
      BY <1>3, <2>3 DEF Promise
    <3>3. QED
      BY <3>1, <3>2 DEF Accounted
  <2>4. CASE Spoil(h) /\ UNCHANGED via
    BY <1>3, <2>4 DEF Spoil, Accounted, Owed, Promise
  <2>5. QED
    BY <1>11, <2>2, <2>3, <2>4 DEF Probe
<1>12. QED
  BY <1>8, <1>9, <1>10, <1>11

LEMMA AccountedStop ==
  ASSUME Base, NEW h \in Hosts, Accounted(h),
         Signal(h) \/ Fatal(h) \/ Leave(h) \/ RegisterFails(h) \/ Kill(h) \/ HooksOver(h)
  PROVE  Accounted(h)'
<1>1. /\ pc \in [Hosts -> Setup \cup {"serving", "left"}] /\ things \in [Hosts -> SUBSET Things]
      /\ cleanup \in [Hosts -> {"none", "hooks"}]
      /\ ended \in [Hosts -> {"no", "cleaned", "exited", "killed"}]
  BY DEF Base, Typed, TypeOK
<1>2. CASE Over(h)
  <2>1. ended'[h] \in {"cleaned", "exited", "killed"}
        /\ (ended'[h] # "killed" => "sshd" \notin things'[h])
    BY <1>1, <1>2 DEF Over, Ends, Lose
  <2>2. QED
    BY <2>1 DEF Accounted, Owed, Promise, Running
<1>3. CASE /\ UNCHANGED <<fileVars, hooks, ended, faulted>> /\ cleanup'[h] = "hooks"
           /\ things'[h] \subseteq things[h]
           /\ \/ pc'[h] = pc[h]
              \/ pc[h] \in {"folder", "keygen", "serving"} /\ pc'[h] = "left"
  <2>1. Content' = Content /\ UNCHANGED <<io, torn>>
    BY <1>3 DEF Content, fileVars
  <2>2. Running(h)
    BY Stops DEF Base
  <2>3. Owed(h)'
    <3>1. ASSUME h \notin faulted' PROVE ThingsOwed(h)'
      BY <1>3, <2>2, <3>1 DEF Accounted, Owed, ThingsOwed
    <3>2. ASSUME h \notin faulted', ~torn' PROVE LineOwed(h)'
      BY <1>3, <2>1, <2>2, <3>2 DEF Accounted, Owed, LineOwed
    <3>3. QED
      BY <3>1, <3>2 DEF Owed
  <2>4. Promise(h)'
    BY <1>3, <2>2 DEF Promise, Running
  <2>5. QED
    BY <2>3, <2>4 DEF Accounted
<1>4. ASSUME Begun(h)
      PROVE  /\ UNCHANGED <<fileVars, hooks, ended, faulted>> /\ cleanup'[h] = "hooks"
             /\ things'[h] \subseteq things[h]
             /\ \/ pc'[h] = pc[h]
                \/ pc[h] \in {"folder", "keygen", "serving"} /\ pc'[h] = "left"
  BY <1>1, <1>4 DEF Begun, CleanupAll, Lose
<1>5. ASSUME /\ cleanup[h] = "hooks" /\ pc[h] = "serving" /\ Goto(h, "left")
             /\ UNCHANGED <<fileVars, hooks, things, ended, cleanup, faulted>>
      PROVE  pc'[h] = "left" /\ cleanup'[h] = "hooks" /\ things'[h] = things[h]
  BY <1>1, <1>5 DEF Goto
<1>6. QED
  BY <1>2, <1>3, <1>4, <1>5, Stops DEF Base

LEMMA AccountedHook ==
  ASSUME Base, NEW h \in Hosts, Accounted(h),
         \/ RemoveFolder(h) \/ StopSshd(h) \/ RemoveRead(h) \/ RemoveCut(h) \/ RemoveWrite(h)
         \/ RemoveFails(h)
  PROVE  Accounted(h)'
<1> USE DEF Processes
<1>1. /\ pc \in [Hosts -> Setup \cup {"serving", "left"}] /\ things \in [Hosts -> SUBSET Things]
      /\ hooks \in [Hosts -> HookLists] /\ io \in [Processes -> {"idle", "read", "cut"}]
  BY DEF Base, Typed, TypeOK
<1>2. HostNext(h) /\ Running(h) /\ UNCHANGED <<ended, cleanup, via>> /\ faulted \subseteq faulted'
  BY DEF HostNext, RemoveFolder, StopSshd, RemoveRead, RemoveCut, RemoveWrite, RemoveFails, AtHook,
         Removing, At, hostVars, history, Spoil
<1>3. Promise(h)'
  <2>1. cleanup[h] = "hooks" \/ pc[h] = "unkey"
    BY DEF RemoveFolder, StopSshd, RemoveRead, RemoveCut, RemoveWrite, RemoveFails, Removing, AtHook, At
  <2>2. pc[h] = "unkey" => via[h] = "none"
    BY DEF Base, Placed, Early, Setup
  <2>3. QED
    BY <1>2, <2>1, <2>2 DEF Promise
<1>4. ASSUME h \notin faulted' PROVE ThingsOwed(h)
  BY <1>2, <1>4 DEF Accounted, Owed
<1>5. ASSUME h \notin faulted', ~torn' PROVE LineOwed(h)
  BY <1>2, <1>5, OwnLine DEF Accounted, Owed
<1>6. CASE h \in faulted'
  BY <1>3, <1>6 DEF Accounted, Owed
<1>7. CASE (RemoveFolder(h) \/ StopSshd(h)) /\ h \notin faulted'
  <2>1. /\ UNCHANGED <<pc, fileVars>> /\ hooks[h] # <<>> /\ hooks'[h] = Tail(hooks[h])
        /\ \/ Head(hooks[h]) = "folder" /\ things'[h] = things[h] \ {"folder"}
           \/ Head(hooks[h]) = "sshd" /\ things'[h] = things[h] \ {"sshd", "base", "keyfile"}
    BY <1>1, <1>7 DEF RemoveFolder, StopSshd, AtHook, HookDone, Lose, Spoil, history
  <2>2. \A hook : In(hooks'[h], hook) <=> In(hooks[h], hook) /\ hook # Head(hooks[h])
    BY <1>1, <2>1, TailFacts
  <2>3. Content' = Content /\ io' = io
    BY <2>1 DEF Content, fileVars
  <2>4. ThingsOwed(h)'
    BY <1>4, <1>7, <2>1, <2>2 DEF ThingsOwed
  <2>5. ASSUME ~torn' PROVE LineOwed(h)'
    BY <1>5, <1>7, <2>1, <2>2, <2>3, <2>5 DEF LineOwed
  <2>6. QED
    BY <1>3, <2>4, <2>5 DEF Accounted, Owed
<1>8. CASE (RemoveRead(h) \/ RemoveCut(h)) /\ h \notin faulted'
  <2>1. UNCHANGED <<pc, hooks, things>>
    BY <1>8 DEF RemoveRead, RemoveCut, hostVars
  <2>2. ThingsOwed(h)'
    BY <1>4, <1>8, <2>1 DEF ThingsOwed
  <2>3. ASSUME ~torn' PROVE LineOwed(h)'
    <3>1. io'[h] = "cut" => RemoveCut(h)
      BY <1>1, <1>8 DEF RemoveRead
    <3>2. QED
      BY <1>2, <1>5, <1>8, <2>1, <2>3, <3>1, OwnLine DEF LineOwed
  <2>4. QED
    BY <1>3, <2>2, <2>3 DEF Accounted, Owed
<1>9. CASE RemoveWrite(h) /\ h \notin faulted'
  <2>1. io[h] = "cut" /\ io'[h] = "idle" /\ Removed(h)
    BY <1>1, <1>9 DEF RemoveWrite
  <2>2. ASSUME ~torn' PROVE LineOwed(h)'
    BY <1>2, <1>5, <1>9, <2>1, <2>2, OwnLine DEF LineOwed
  <2>3. CASE pc[h] = "unkey"
    <3>1. pc'[h] = "sshd" /\ UNCHANGED <<hooks, things>>
      BY <1>1, <2>1, <2>3 DEF Removed, Goto
    <3>2. ThingsOwed(h)'
      BY <1>4, <1>9, <2>3, <3>1 DEF ThingsOwed
    <3>3. QED
      BY <1>3, <2>2, <3>2 DEF Accounted, Owed
  <2>4. CASE pc[h] # "unkey"
    <3>1. /\ pc' = pc /\ hooks[h] # <<>> /\ Head(hooks[h]) = "key"
          /\ hooks'[h] = Tail(hooks[h]) /\ things'[h] = things[h] \ {"keyfile"}
      BY <1>1, <1>9, <2>1, <2>4 DEF Removed, RemoveWrite, Removing, At, AtHook, HookDone, Lose
    <3>2. \A hook : In(hooks'[h], hook) <=> In(hooks[h], hook) /\ hook # "key"
      BY <1>1, <3>1, TailFacts
    <3>3. ThingsOwed(h)'
      BY <1>4, <1>9, <3>1, <3>2 DEF ThingsOwed
    <3>4. QED
      BY <1>3, <2>2, <3>3 DEF Accounted, Owed
  <2>5. QED
    BY <2>3, <2>4
<1>10. CASE RemoveFails(h) /\ h \notin faulted'
  BY <1>10 DEF RemoveFails, Spoil
<1>11. QED
  BY <1>6, <1>7, <1>8, <1>9, <1>10

AllAccounted == \A h \in Hosts : Accounted(h)

LEMMA AccountedInit ==
  ASSUME Init
  PROVE  AllAccounted
BY KeysAssumption
   DEF KeysAssumption, Init, AllAccounted, Accounted, Owed, ThingsOwed, LineOwed, Promise,
       Content, Processes

LEMMA AccountedStep ==
  ASSUME Base, AllAccounted, [Next]_vars
  PROVE  AllAccounted'
<1> SUFFICES ASSUME NEW h \in Hosts PROVE Accounted(h)'
  BY DEF AllAccounted
<1>1. Accounted(h)
  BY DEF AllAccounted
<1>2. CASE UNCHANGED vars
  BY <1>1, <1>2, SameStep
     DEF Accounted, Owed, ThingsOwed, LineOwed, Promise, Content, Running
<1>3. CASE HostNext(h)
  BY <1>1, <1>3, AccountedSetup, AccountedStop, AccountedHook DEF HostNext
<1>4. CASE OthersNext \/ \E g \in Hosts \ {h} : HostNext(g)
  BY <1>1, <1>4, AccountedOthers
<1>5. QED
  BY <1>2, <1>3, <1>4 DEF Next, OthersNext

LEMMA Invariant == Spec => [](Base /\ AllAccounted)
<1>1. Init => Base /\ AllAccounted
  BY BaseInit, AccountedInit
<1>2. Base /\ AllAccounted /\ [Next]_vars => Base' /\ AllAccounted'
  BY BaseStep, AccountedStep
<1>3. QED
  BY <1>1, <1>2, PTL DEF Spec

\* The private key that clients are given is one that the sshd it is for takes, for
\* as long as the session lasts.
THEOREM KeyAccepted == Spec => []AdvertisedAccepted
<1>1. AllAccounted => AdvertisedAccepted
  BY DEF AllAccounted, Accounted, Promise, AdvertisedAccepted
<1>2. QED
  BY <1>1, Invariant, PTL

\* What a completed set-up made, its hooks have removed when the cleanup is over.
LEMMA EndStep ==
  ASSUME Base, AllAccounted, [Next]_vars, NEW h \in ready \ faulted,
         ended[h] # "cleaned", ended'[h] = "cleaned", ~torn
  PROVE  h \notin file' /\ things'[h] = {}
<1>1. /\ h \in Hosts /\ ended \in [Hosts -> {"no", "cleaned", "exited", "killed"}]
      /\ things \in [Hosts -> SUBSET Things]
  BY DEF Base, Typed, TypeOK
<1>2. HooksOver(h)
  <2>1. ~UNCHANGED vars
    BY SameStep
  <2>2. ~OthersNext
    BY <1>1, OthersSame DEF Base
  <2>3. \A g \in Hosts \ {h} : ~HostNext(g)
    BY <1>1, Frame DEF Base
  <2>4. HostNext(h)
    BY <1>1, <2>1, <2>2, <2>3 DEF Next, OthersNext
  <2>5. ~(\/ MakeFolder(h) \/ HookFolder(h) \/ Generate(h) \/ Inject(h) \/ Verify(h)
          \/ StartSshd(h) \/ Probe(h) \/ RemoveFolder(h) \/ StopSshd(h) \/ RemoveRead(h)
          \/ RemoveCut(h) \/ RemoveWrite(h) \/ RemoveFails(h))
    BY DEF MakeFolder, HookFolder, Generate, Inject, Verify, StartSshd, Probe, RemoveFolder, StopSshd,
           RemoveRead, RemoveCut, RemoveWrite, RemoveFails, hostVars
  <2>6. ~(Signal(h) \/ Fatal(h) \/ Leave(h) \/ RegisterFails(h) \/ Kill(h))
    BY <1>1 DEF Signal, Fatal, Leave, RegisterFails, Kill, CleanupAll, Exit, Ends
  <2>7. QED
    BY <2>4, <2>5, <2>6 DEF HostNext
<1>3. hooks[h] = <<>> /\ Running(h) /\ file' = file /\ things'[h] \subseteq things[h]
  BY <1>1, <1>2 DEF HooksOver, Exit, Ends, Lose
<1>4. pc[h] \notin Setup
  BY <1>1 DEF Base, Placed, Settled
<1>5. ThingsOwed(h) /\ LineOwed(h)
  BY <1>1, <1>3 DEF AllAccounted, Accounted, Owed
<1>6. \A hook : ~In(hooks[h], hook)
  BY <1>3, ListFacts
<1>7. things[h] = {}
  BY <1>1, <1>4, <1>5, <1>6 DEF ThingsOwed, Setup, Things
<1>8. h \notin Content
  BY <1>4, <1>5, <1>6 DEF LineOwed, Setup
<1>9. h \notin file
  BY <1>8, ContentWhole DEF Base, FileInv, CutAlone
<1>10. QED
  BY <1>3, <1>7, <1>9

\* Once a completed set-up is cleaned up without a failed call, nothing of the
\* session is on the machine: no line in authorized_keys, key, folder, daemon or
\* directory, whatever other hosts, the wiper and the user do meanwhile.
THEOREM EndsClean == Spec => CleanEnd
<1>1. Base /\ AllAccounted /\ [Next]_vars =>
        [\A h \in ready \ faulted :
           ended[h] # "cleaned" /\ ended'[h] = "cleaned" /\ ~torn
             => h \notin file' /\ things'[h] = {}]_vars
  BY EndStep
<1>2. QED
  BY <1>1, Invariant, PTL DEF Spec, CleanEnd
=============================================================================
