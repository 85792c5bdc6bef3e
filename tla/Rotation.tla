------------------------------ MODULE Rotation ------------------------------
(***************************************************************************)
(* Size-based rotation (rotate.go) as the worker drives it: a write adds   *)
(* to currentSize, and after a threshold or ticker write rotateIfNeeded    *)
(* may move the live log aside, shift the backups and open a fresh file.   *)
(* Every operation on the file system can fail, the process can crash      *)
(* between any two of them and be started again, and a Close that gave up  *)
(* waiting for the worker can close the file under it (rotationMu keeps it *)
(* out of a rotation).  A worker can end and another be started, by a      *)
(* Start that has looked up its writer before.                             *)
(*                                                                         *)
(* An entry is a number, in the order in which the worker writes them, and *)
(* sizes count entries.  A file is the sequence of its entries.            *)
(***************************************************************************)
EXTENDS Integers, Sequences, FiniteSets, SequencesExt

CONSTANTS
  MaxFileSize,     \* Config.MaxFileSize, in entries
  MaxBackupFiles,  \* Config.MaxBackupFiles
  MaxBatch,        \* the largest buffer handed to writeOut
  MaxEntries,      \* bound: entries written
  MaxFailures,     \* bound: operations that the system makes fail
  MaxCrashes,      \* bound: crashes of the process
  MaxStarts        \* bound: further calls of Start

ASSUME RotationAssumption ==
  /\ MaxFileSize \in Nat \ {0} /\ MaxBackupFiles \in Nat /\ MaxBatch \in Nat \ {0}
  /\ MaxEntries \in Nat /\ MaxFailures \in Nat /\ MaxCrashes \in Nat
  /\ MaxStarts \in Nat

VARIABLES
  live, rotating, backup,  \* the files: OutputFile, .rotating, .1 to .N
  file,            \* currentFile and currentWriter: open? has the bufio.Writer failed?
  currentSize,
  bw,              \* the worker's writer: "current", "stale" (replaced) or "custom"
  offered,         \* the writer that a pending Start will run with
  pc,              \* where the worker is
  shift,           \* the loop variable of step 2
  rotationErrors,
  closed,          \* Close has closed the file
  written,         \* entries handed to writeOut
  missed,          \* history: of those since the file was opened, the ones not in it
  cutOff,          \* history: the worker may have been without a working log file
  rotated,         \* history: what each rotation moved aside, oldest first
  failedOps,       \* history: operations of a rotation that failed
  failures,        \* failures injected by the system
  crashes, starts

files == <<live, rotating, backup>>
writers == <<file, currentSize, bw, missed, cutOff>>
bounded == <<crashes, starts>>
faults == <<failures, bounded>>
vars == <<files, writers, offered, pc, shift, rotationErrors, closed, written, rotated,
          failedOps, faults>>

\* MaxBackupFiles = 0 keeps a single backup.
Keep == IF MaxBackupFiles = 0 THEN 1 ELSE MaxBackupFiles

NoFile == [exists |-> FALSE, data |-> <<>>]
FileOf(data) == [exists |-> TRUE, data |-> data]

\* The worker holds rotationMu.
Rotating == pc \in {"release", "aside", "reopen", "shift", "first", "create"}

\* The system lets an operation fail, within the bound.
Fails == failures < MaxFailures /\ failures' = failures + 1
Succeeds == UNCHANGED failures

-----------------------------------------------------------------------------
(* Opening the file: openLogFile, reopenAppendLocked, step 4. *)

\* The size that Stat reports is taken for nothing ...
NoSizeAtOpen(data) == 0

\* ... or, in the code, as what currentSize starts from.
SizeAtOpen(data) == Len(data)

\* A writer becomes stale when a new one takes its place.
Outdated(w) == IF w = "current" THEN "stale" ELSE w

\* A new currentFile and currentWriter over a file that holds `data`.
Opened(data) ==
  /\ live' = FileOf(data)
  /\ file' = [open |-> TRUE, broken |-> FALSE]
  /\ currentSize' = SizeAtOpen(data)
  /\ missed' = 0
  /\ offered' = Outdated(offered)

\* What cuts the worker off from its log: a torn write, a failed opening, Close,
\* or a run with another writer than the current one.
CutOffIf(cause) == cutOff' = (cutOff \/ cause)

\* OpenFile or Stat failed; the first may have created an empty file by then.
NotOpened ==
  /\ Fails
  /\ live' \in {live, FileOf(live.data)}
  /\ CutOffIf(TRUE)
  /\ UNCHANGED <<file, currentSize, bw, missed, offered>>

\* The worker's writer if rotateIfNeeded always returned its argument.
NotRefreshed == Outdated(bw)

\* ... after rotateLogFile has opened a file and returned true.
Refreshed == "current"

\* Start takes currentWriter, StartWithWriter a writer of the caller's.
StartWriter == {"current", "custom"}

Init ==
  /\ live = FileOf(<<>>) /\ rotating = NoFile /\ backup = [i \in 1..Keep |-> NoFile]
  /\ file = [open |-> TRUE, broken |-> FALSE]
  /\ currentSize = 0 /\ missed = 0 /\ bw \in StartWriter /\ cutOff = (bw # "current")
  /\ offered = "none" /\ pc = "run" /\ shift = 0
  /\ rotationErrors = 0 /\ closed = FALSE
  /\ written = 0 /\ rotated = <<>> /\ failedOps = 0
  /\ failures = 0 /\ crashes = 0 /\ starts = 0

-----------------------------------------------------------------------------
(* writeOut. *)

\* What writeOut adds to currentSize for n entries of which k were written ...
SizeOfWritten(n, k) == k

\* ... which is the length of the buffer, whatever became of it.
SizeOf(n, k) == n

CanWrite == file.open /\ ~file.broken

\* n entries are handed over and k of them reach the live log: none from a
\* writer of the caller's or one whose file is closed.  `checks` is true of the
\* threshold and ticker cases, which call rotateIfNeeded, and false of a Flush
\* sweep and the drain at shutdown.
WriteOut(n, k, checks) ==
  /\ pc = "run" /\ written + n =< MaxEntries
  /\ written' = written + n
  /\ currentSize' = currentSize + SizeOf(n, k)
  /\ missed' = missed + n - k
  /\ IF bw = "current" /\ CanWrite
       THEN /\ live' = FileOf(live.data \o [i \in 1..k |-> written + i])
            /\ file' = [file EXCEPT !.broken = k < n]
            /\ IF k = n THEN Succeeds ELSE Fails
            /\ CutOffIf(k < n)
       ELSE /\ k = 0 /\ Succeeds
            /\ file' = [file EXCEPT !.broken = @ \/ bw = "current"]
            /\ UNCHANGED <<live, cutOff>>
  /\ pc' = IF checks THEN "check" ELSE "run"
  /\ UNCHANGED <<rotating, backup, bw, offered, shift, rotationErrors, closed, rotated,
                 failedOps, bounded>>

-----------------------------------------------------------------------------
(* rotateIfNeeded and rotateLogFile. *)

Goto(place) == pc' = place

\* Failed operations of a rotation, and how many of them are counted.
Report(failed, counted) ==
  /\ failedOps' = failedOps + failed
  /\ rotationErrors' = rotationErrors + counted

NoReport == UNCHANGED <<failedOps, rotationErrors>>

CheckSize ==
  /\ pc = "check"
  /\ Goto(IF currentSize < MaxFileSize THEN "run" ELSE "release")
  /\ NoReport
  /\ UNCHANGED <<files, writers, offered, shift, closed, written, rotated, faults>>

\* The old writer is flushed and its file closed.  The flush repeats the
\* writer's earlier error; closing fails if the file is closed already.
ReleaseOld ==
  /\ pc = "release"
  /\ \E badFlush, badClose \in 0..1 :
       /\ badFlush = IF file.broken THEN 1 ELSE 0
       /\ ~file.open => badClose = 1
       /\ IF file.open /\ badClose = 1 THEN Fails ELSE Succeeds
       /\ Report(badFlush + badClose, badFlush + badClose)
  /\ file' = [file EXCEPT !.open = FALSE]
  /\ Goto("aside")
  /\ UNCHANGED <<files, currentSize, bw, missed, cutOff, offered, shift, closed, written, rotated,
                 bounded>>

\* After a failed step 1: a fresh log over the old one, or the old one reopened.
TruncateAfterFailedMove == "create"

AfterFailedMove == "reopen"

\* Off by one either way: MaxBackupFiles - 1 backups are kept, or one too many.
FirstShiftShort == MaxBackupFiles - 2
FirstShiftLong == MaxBackupFiles

\* Step 2 starts with the last backup but one, which replaces the oldest.
FirstShift == MaxBackupFiles - 1

\* Step 1.  It fails by itself when there is no live log.
MoveAside ==
  /\ pc = "aside"
  /\ \/ /\ live.exists /\ Succeeds
        /\ rotating' = live /\ live' = NoFile
        /\ rotated' = Append(rotated, live.data)
        /\ shift' = FirstShift
        /\ NoReport /\ Goto("shift")
     \/ /\ IF live.exists THEN Fails ELSE Succeeds
        /\ Report(1, 1) /\ Goto(AfterFailedMove)
        /\ UNCHANGED <<live, rotating, rotated, shift>>
  /\ UNCHANGED <<backup, writers, offered, closed, written, bounded>>

\* The live log is opened again in append mode, not truncated; true is
\* returned, with the error of step 1.
Reopen ==
  /\ pc = "reopen"
  /\ \/ Succeeds /\ Opened(live.data) /\ bw' = Refreshed /\ CutOffIf(FALSE) /\ NoReport
     \/ NotOpened /\ Report(1, 0)
  /\ Goto("run")
  /\ UNCHANGED <<rotating, backup, shift, closed, written, rotated, bounded>>

\* Step 2: .i becomes .i+1; a missing .i is not a failure.
MoveBackup(b, i) == [b EXCEPT ![i + 1] = b[i], ![i] = NoFile]

MoreThanOneToShift == shift > 1

\* The condition of the loop.
MoreToShift == shift > 0

ShiftBackup ==
  /\ pc = "shift" /\ MoreToShift
  /\ \/ /\ backup' = IF backup[shift].exists THEN MoveBackup(backup, shift) ELSE backup
        /\ Succeeds /\ NoReport
     \/ /\ Fails /\ Report(1, 1)
        /\ UNCHANGED backup
  /\ shift' = shift - 1
  /\ UNCHANGED <<live, rotating, writers, offered, pc, closed, written, rotated, bounded>>

ShiftDone ==
  /\ pc = "shift" /\ ~MoreToShift
  /\ Goto("first") /\ NoReport
  /\ UNCHANGED <<files, writers, offered, shift, closed, written, rotated, faults>>

\* Step 3.  If it fails, .rotating is left in place.
MoveToFirst ==
  /\ pc = "first"
  /\ \/ /\ backup' = [backup EXCEPT ![1] = rotating] /\ rotating' = NoFile
        /\ Succeeds /\ NoReport
     \/ Fails /\ Report(1, 1) /\ UNCHANGED <<backup, rotating>>
  /\ Goto("create")
  /\ UNCHANGED <<live, writers, offered, shift, closed, written, rotated, bounded>>

\* Step 4.  A failure is returned, but not counted; the worker keeps its writer.
Create ==
  /\ pc = "create"
  /\ \/ Succeeds /\ Opened(<<>>) /\ bw' = Refreshed /\ CutOffIf(FALSE) /\ NoReport
     \/ NotOpened /\ Report(1, 0)
  /\ Goto("run")
  /\ UNCHANGED <<rotating, backup, shift, closed, written, rotated, bounded>>

-----------------------------------------------------------------------------
(* Other goroutines: Start and Close. *)

\* Start looks up defaultWriter, or has a writer of the caller's, before it
\* knows whether a worker runs.
TakeWriter ==
  /\ pc # "down" /\ offered = "none" /\ starts < MaxStarts
  /\ starts' = starts + 1
  /\ offered' \in StartWriter
  /\ UNCHANGED <<files, writers, pc, shift, rotationErrors, closed, written, rotated,
                 failedOps, failures, crashes>>

\* The worker was cancelled, and has drained the channel (WriteOut).
EndRun ==
  /\ pc = "run"
  /\ Goto("idle") /\ NoReport
  /\ UNCHANGED <<files, writers, offered, shift, closed, written, rotated, faults>>

\* The next run, with the writer that was looked up for it.
BeginRun ==
  /\ pc = "idle" /\ offered # "none"
  /\ bw' = offered /\ CutOffIf(offered # "current") /\ offered' = "none"
  /\ Goto("run") /\ NoReport
  /\ UNCHANGED <<files, file, currentSize, missed, shift, closed, written, rotated, faults>>

RefuseStart ==
  /\ pc \notin {"idle", "down"} /\ offered # "none"
  /\ offered' = "none" /\ NoReport
  /\ UNCHANGED <<files, writers, pc, shift, closed, written, rotated, faults>>

\* The end of a Close that did not wait for the worker, under rotationMu.
CloseFile ==
  /\ ~Rotating /\ pc # "down" /\ ~closed
  /\ closed' = TRUE
  /\ file' = [file EXCEPT !.open = FALSE] /\ CutOffIf(TRUE)
  /\ UNCHANGED <<files, currentSize, bw, missed, offered, pc, shift, rotationErrors, written,
                 rotated, failedOps, faults>>

-----------------------------------------------------------------------------
(* The process. *)

Crash ==
  /\ pc # "down" /\ crashes < MaxCrashes
  /\ crashes' = crashes + 1
  /\ Goto("down")
  /\ file' = [open |-> FALSE, broken |-> FALSE] /\ offered' = "none"
  /\ UNCHANGED <<files, currentSize, bw, missed, cutOff, shift, rotationErrors, closed, written,
                 rotated, failedOps, failures, starts>>

\* NewLogger opens the live log in append mode; the counters start again, which
\* the history of failures takes no notice of.
Restart ==
  /\ pc = "down"
  /\ Opened(live.data) /\ bw' \in StartWriter /\ CutOffIf(bw' # "current")
  /\ closed' = FALSE /\ shift' = 0
  /\ Goto("run")
  /\ UNCHANGED <<rotating, backup, rotationErrors, written, rotated, failedOps, faults>>

-----------------------------------------------------------------------------
Write == \E n \in 1..MaxBatch, checks \in BOOLEAN : \E k \in 0..n : WriteOut(n, k, checks)

Rotate == \/ CheckSize \/ ReleaseOld \/ MoveAside \/ Reopen
          \/ ShiftBackup \/ ShiftDone \/ MoveToFirst \/ Create

Start == TakeWriter \/ BeginRun \/ RefuseStart

Next == Write \/ Rotate \/ EndRun \/ Start \/ CloseFile \/ Crash \/ Restart

Spec == Init /\ [][Next]_vars

-----------------------------------------------------------------------------
Contents == [exists : BOOLEAN, data : Seq(1..MaxEntries)]

TypeOK ==
  /\ live \in Contents /\ rotating \in Contents /\ backup \in [1..Keep -> Contents]
  /\ file \in [open : BOOLEAN, broken : BOOLEAN]
  /\ currentSize \in Nat /\ missed \in Nat /\ cutOff \in BOOLEAN /\ written \in 0..MaxEntries
  /\ bw \in {"current", "stale", "custom"} /\ offered \in {"none", "current", "stale", "custom"}
  /\ pc \in {"run", "check", "release", "aside", "reopen", "shift", "first", "create",
             "idle", "down"}
  /\ shift \in -1..(Keep - 1)
  /\ rotationErrors \in Nat /\ failedOps \in Nat /\ closed \in BOOLEAN
  /\ rotated \in Seq(Seq(1..MaxEntries))
  /\ failures \in 0..MaxFailures /\ crashes \in 0..MaxCrashes
  /\ starts \in 0..MaxStarts

\* Whatever fails and wherever the process crashes, the live log is never
\* truncated: what was in it stays in it, or is in .rotating (rotate.go:92-94).
LiveKept ==
  [][IsPrefix(live.data, live'.data) \/ rotating'.data = live.data]_vars

\* Generations that are gone although fewer than Keep newer ones were rotated.
LostEarly ==
  {g \in DOMAIN rotated :
     /\ rotated[g] # <<>> /\ Len(rotated) - g < Keep
     /\ rotating.data # rotated[g]
     /\ \A i \in 1..Keep : backup[i].data # rotated[g]}

\* A backup is lost before its time only to a counted failure or to a crash,
\* and each of those loses at most one: a failed shift lets the next rename
\* overwrite it, and a leftover .rotating is overwritten by the next rotation.
OneLossPerFault == Cardinality(LostEarly) =< rotationErrors + crashes

\* As long as nothing failed, .i holds the i-th newest rotated log, up to
\* MaxBackupFiles of them (rotate.go:95-97).
BackupIsNth ==
  pc = "run" /\ failedOps = 0 /\ crashes = 0 =>
    \A i \in 1..Keep : i =< Len(rotated) =>
      backup[i] = FileOf(rotated[Len(rotated) - i + 1])

\* currentSize is the size of the live log plus what was handed to a writer and
\* did not reach it, across rotations, reopens, restarts and failures
\* (worker.go:193-195 promises that it is accurate; the difference is exact).
SizeAccounts == file.open => currentSize = Len(live.data) + missed

\* A writer that fails, or that a Start looked up too early, is not kept for
\* long: when a check of the size returns and did not fail itself, the log has
\* missed less than MaxFileSize since it was opened, because what it missed
\* counts towards the next rotation, which replaces the writer.
LossBounded ==
  [][pc \notin {"run", "idle", "down"} /\ pc' = "run" /\ failedOps' = failedOps
       => missed' < MaxFileSize]_vars

\* Unless it was cut off, the worker's entries are all in the log, once and in
\* order: the logs moved aside, one after the other, and then the live log.  No
\* rename that fails, no crash and restart and no new run makes a rotation leave
\* the worker with the writer it replaced (worker.go:153-155), or move or open a
\* log twice or none.
AllEntriesKept ==
  ~cutOff => FlattenSeq(rotated) \o live.data = [i \in 1..written |-> i]
=============================================================================
