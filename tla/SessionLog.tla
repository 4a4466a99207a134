---------------------------- MODULE SessionLog ----------------------------
(***************************************************************************)
(* The logs of the iPingYou processes of one user                          *)
(* (src/src/lib/mod/session-log.js): each process has a buffered session   *)
(* log of its own, removed when it ends, and all append to one history     *)
(* that is rotated into one earlier file.                                  *)
(*                                                                         *)
(* Abstractions: a line is its size, a file its length, Absent when there  *)
(* is none; writes and renames fail at any time, removals do not.          *)
(***************************************************************************)
EXTENDS Integers, FiniteSets

CONSTANTS
  Processes,
  Sizes,      \* of lines
  MaxSession, \* MAX_SESSION_LOG_BYTES
  MaxHistory, \* MAX_HISTORY_LOG_BYTES
  FlushBytes, \* SESSION_LOG_FLUSH_BYTES
  MaxLines,   \* bound: lines a process logs or records
  MaxCleanups \* bound: calls of cleanupSessionLog by a process

ASSUME LogAssumption ==
  /\ Sizes \subseteq Nat \ {0}
  /\ {MaxSession, MaxHistory, FlushBytes, MaxLines, MaxCleanups} \subseteq Nat
  /\ \A n \in Sizes : n <= MaxSession /\ n <= MaxHistory \* strings are cut at 16 KiB

VARIABLES
  open,      \* process -> sessionLogPath is set
  disabled,  \* sessionLogDisabled
  bytes,     \* sessionLogBytes
  buffer,    \* the length of sessionLogBuffer
  timer,     \* sessionLogFlushTimer is running
  file,      \* process -> its session log
  cached,    \* historyLogBytes, Null before the first event
  history,   \* the history's file, common to all
  previous,  \* the file it was rotated into
  lines, cleanups \* counted against their bounds

memory == <<open, disabled, bytes, buffer, timer>>
shared == <<cached, history, previous>>
counts == <<lines, cleanups>>
logVars == <<memory, file, shared, counts>>

Absent == -1
Null == -1
Length(f) == IF f = Absent THEN 0 ELSE f

LogTypeOK ==
  /\ {open, disabled, timer} \subseteq [Processes -> BOOLEAN]
  /\ {bytes, buffer} \subseteq [Processes -> 0..MaxSession]
  /\ file \in [Processes -> 0..MaxSession \cup {Absent}]
  /\ cached \in [Processes -> Nat \cup {Null}]
  /\ {history, previous} \subseteq Nat \cup {Absent}
  /\ lines \in [Processes -> 0..MaxLines]
  /\ cleanups \in [Processes -> 0..MaxCleanups]

Everywhere(v) == [p \in Processes |-> v]

LogInit ==
  /\ open = Everywhere(FALSE)
  /\ disabled = Everywhere(FALSE)
  /\ bytes = Everywhere(0)
  /\ buffer = Everywhere(0)
  /\ timer = Everywhere(FALSE)
  /\ file = Everywhere(Absent)
  /\ cached = Everywhere(Null)
  /\ history = Absent
  /\ previous = Absent
  /\ lines = Everywhere(0)
  /\ cleanups = Everywhere(0)

----------------------------------------------------------------------------
(* The session log.                                                        *)

\* flushSessionLog() writes when there is a log and something to write.
Writable(isOpen, n) == isOpen /\ n # 0

\* flushSessionLog() on a buffer of n bytes; ok tells whether the disk takes them.
Flush(p, isOpen, n, ok) ==
  /\ timer' = [timer EXCEPT ![p] = FALSE]
  /\ IF Writable(isOpen, n)
     THEN /\ buffer' = [buffer EXCEPT ![p] = 0]
          /\ file' = IF ok THEN [file EXCEPT ![p] = Length(@) + n] ELSE file
          /\ disabled' = [disabled EXCEPT ![p] = @ \/ ~ok]
     ELSE /\ buffer' = [buffer EXCEPT ![p] = n]
          /\ UNCHANGED <<file, disabled>>

\* Mutant: only the first flush is ever scheduled.
ScheduleOnce(p) == timer' = [timer EXCEPT ![p] = @ \/ file[p] = 0]

\* scheduleSessionLogFlush()
Schedule(p) == timer' = [timer EXCEPT ![p] = TRUE]

\* Mutant: the limit is looked at before the line is counted.
FitsBefore(p, n) == bytes[p] <= MaxSession

\* The line fits the session log.
Fits(p, n) == bytes[p] + n <= MaxSession

\* logSessionEvent() with a line of n bytes.
Append(p, n, ok) ==
  IF ~open[p] \/ disabled[p]
  THEN UNCHANGED <<memory, file>>
  ELSE IF ~Fits(p, n)
  THEN /\ disabled' = [disabled EXCEPT ![p] = TRUE]
       /\ UNCHANGED <<open, bytes, buffer, timer, file>>
  ELSE /\ bytes' = [bytes EXCEPT ![p] = @ + n]
       /\ IF buffer[p] + n >= FlushBytes
          THEN Flush(p, open[p], buffer[p] + n, ok)
          ELSE /\ buffer' = [buffer EXCEPT ![p] = @ + n]
               /\ Schedule(p)
               /\ UNCHANGED <<file, disabled>>
       /\ UNCHANGED open

Counted(p) ==
  /\ lines[p] < MaxLines
  /\ lines' = [lines EXCEPT ![p] = @ + 1]
  /\ UNCHANGED cleanups

LogEvent(p, n, ok) ==
  /\ Counted(p)
  /\ Append(p, n, ok)
  /\ UNCHANGED shared

\* The timer of scheduleSessionLogFlush().
FlushTimer(p, ok) ==
  /\ timer[p]
  /\ Flush(p, open[p], buffer[p], ok)
  /\ UNCHANGED <<open, bytes, shared, counts>>

\* initSessionLog(): a log is started, with a line of n bytes in its buffer, unless
\* one is open or logging was given up; logs nobody wrote to for a day are removed.
Start(p, n, stale) ==
  /\ Counted(p)
  /\ ~open[p] /\ ~disabled[p]
  /\ open' = [open EXCEPT ![p] = TRUE]
  /\ file' = [q \in Processes |-> IF q = p THEN 0 ELSE IF q \in stale THEN Absent ELSE file[q]]
  /\ bytes' = [bytes EXCEPT ![p] = n]
  /\ buffer' = [buffer EXCEPT ![p] = n]
  /\ timer' = [timer EXCEPT ![p] = TRUE]
  /\ UNCHANGED <<disabled, shared>>

\* initSessionLog() when the disk refuses the directory, or the file, whose path
\* it has already noted.
StartFails(p, noted) ==
  /\ Counted(p)
  /\ ~open[p] /\ ~disabled[p]
  /\ open' = [open EXCEPT ![p] = noted]
  /\ disabled' = [disabled EXCEPT ![p] = TRUE]
  /\ UNCHANGED <<bytes, buffer, timer, file, shared>>

\* Mutant: the file is removed before the buffer is written out.
CleanupUnlinksFirst(p, ok) ==
  /\ cleanups[p] < MaxCleanups
  /\ cleanups' = [cleanups EXCEPT ![p] = @ + 1]
  /\ IF open[p]
     THEN /\ open' = [open EXCEPT ![p] = FALSE]
          /\ file' = [file EXCEPT ![p] = IF Writable(TRUE, buffer[p]) /\ ok THEN buffer[p] ELSE Absent]
          /\ buffer' = [buffer EXCEPT ![p] = 0]
          /\ timer' = [timer EXCEPT ![p] = FALSE]
     ELSE UNCHANGED <<open, file, buffer, timer>>
  /\ disabled' = [disabled EXCEPT ![p] = @ \/ (Writable(open[p], buffer[p]) /\ ~ok)]
  /\ history' = Absent
  /\ previous' = Absent
  /\ UNCHANGED <<bytes, cached, lines>>

\* cleanupSessionLog(): the session log is written out, if the disk takes it, and
\* removed, then the directory of the history with all that is in it.
Cleanup(p, ok) ==
  /\ cleanups[p] < MaxCleanups
  /\ cleanups' = [cleanups EXCEPT ![p] = @ + 1]
  /\ IF open[p]
     THEN /\ open' = [open EXCEPT ![p] = FALSE]
          /\ file' = [file EXCEPT ![p] = Absent]
          /\ buffer' = [buffer EXCEPT ![p] = 0]
          /\ timer' = [timer EXCEPT ![p] = FALSE]
     ELSE UNCHANGED <<open, file, buffer, timer>>
  /\ disabled' = [disabled EXCEPT ![p] = @ \/ (Writable(open[p], buffer[p]) /\ ~ok)]
  /\ history' = Absent
  /\ previous' = Absent
  /\ UNCHANGED <<bytes, cached, lines>>

----------------------------------------------------------------------------
(* The history.                                                            *)

\* The size of the history as process p believes it.
Believed(p) == IF cached[p] = Null THEN Length(history) ELSE cached[p]

\* With a line of n bytes the history would be too long.
Full(p, n) == Believed(p) + n > MaxHistory

\* The files after a rotation: the earlier file goes, the history takes its place.
\* If the disk refuses, the history is emptied, the earlier file there or not.
Rotated ==
  \/ history' = Absent /\ previous' = history
  \/ history' = 0 /\ previous' \in {previous, Absent}

\* recordEvent() with a line of n bytes, which goes to both logs.
RecordEvent(p, n, ok) ==
  /\ Counted(p)
  /\ IF Full(p, n)
     THEN /\ cached' = [cached EXCEPT ![p] = n]
          /\ history' = n
          /\ previous' \in {history, previous, Absent} \* moved, or the disk refused
     ELSE /\ cached' = [cached EXCEPT ![p] = Believed(p) + n]
          /\ history' = Length(history) + n
          /\ UNCHANGED previous
  /\ Append(p, n, ok)

\* recordEvent() when the line cannot be written, after a rotation or without one.
RecordFails(p, n) ==
  /\ Counted(p)
  /\ IF Full(p, n)
     THEN /\ cached' = [cached EXCEPT ![p] = 0]
          /\ Rotated
     ELSE /\ cached' = [cached EXCEPT ![p] = Believed(p)]
          /\ UNCHANGED <<history, previous>>
  /\ UNCHANGED <<memory, file>>

LogNext ==
  \E p \in Processes :
    \/ \E n \in Sizes, ok \in BOOLEAN : LogEvent(p, n, ok)
    \/ \E n \in Sizes, ok \in BOOLEAN : RecordEvent(p, n, ok)
    \/ \E n \in Sizes : RecordFails(p, n)
    \/ \E n \in Sizes, stale \in SUBSET (Processes \ {p}) : Start(p, n, stale)
    \/ \E noted \in BOOLEAN : StartFails(p, noted)
    \/ \E ok \in BOOLEAN : FlushTimer(p, ok)
    \/ \E ok \in BOOLEAN : Cleanup(p, ok)

\* The event loop of each process fires its timer.
LogFairness == \A p \in Processes : WF_logVars(\E ok \in BOOLEAN : FlushTimer(p, ok))

LogSpec == LogInit /\ [][LogNext]_logVars
FairLogSpec == LogSpec /\ LogFairness

----------------------------------------------------------------------------
(* Properties.                                                             *)

\* A session log never grows beyond its limit, in its file and in the buffer that is
\* still to be appended: also when writes fail, when its file was removed as stale
\* meanwhile, and when a process starts a second log after its first.
SessionCapped ==
  \A p \in Processes : Length(file[p]) + buffer[p] <= MaxSession

\* A log that is closed has no file and gets none from a late timer.
ClosedLogIsGone == \A p \in Processes : ~open[p] => file[p] = Absent

\* What was buffered is written out or given up before long.
Flushed == \A p \in Processes : buffer[p] # 0 ~> buffer[p] = 0 \/ ~open[p]

\* README.md: the retained history rotates at 5 MiB.  It holds for one process.
HistoryCapped == Length(history) <= MaxHistory /\ Length(previous) <= MaxHistory

\* README.md: the history is retained; it shrinks by rotation alone.
HistoryRetained ==
  [][Length(history') >= Length(history) \/ history' \in Sizes]_logVars
=============================================================================
