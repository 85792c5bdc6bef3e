------------------------------ MODULE SyncTiers -----------------------------
(***************************************************************************)
(* SyncMode: each goroutine that logs writes its entry itself, in the way  *)
(* of the configured DurabilityTier (syncWrite); Flush and Close go        *)
(* through syncFlush.  The buffered tiers share one bufio.Writer under     *)
(* syncMu; the others write to the file without a lock.  Every write and   *)
(* every fsync can fail.                                                   *)
(*                                                                         *)
(* What a crash of the process leaves is `written`, what a crash of the    *)
(* operating system leaves for certain is the first `synced` entries of    *)
(* it: a crash may come in any state, so what must survive it is an        *)
(* invariant of every state.                                               *)
(***************************************************************************)
EXTENDS Integers, Sequences, FiniteSets, SequencesExt

CONSTANTS
  Callers,           \* goroutines that log, flush and close
  Nobody,            \* none of them: syncMu is free
  FsyncEveryNCount,
  BufferSize,        \* capacity of syncBw, in entries
  MaxCalls,          \* bound: calls of one goroutine
  MaxFailures        \* bound: writes and fsyncs that the system makes fail

ASSUME SyncAssumption ==
  /\ Nobody \notin Callers
  /\ FsyncEveryNCount \in Nat \ {0} /\ BufferSize \in Nat \ {0}
  /\ MaxCalls \in Nat /\ MaxFailures \in Nat

VARIABLES
  tier,           \* Config.DurabilityTier
  written,        \* the entries in the file, in order
  synced,         \* how many of them an fsync has covered
  fileOpen,       \* syncFile
  buf, broken,    \* syncBw: its buffer, and whether it keeps an error
  syncMu,         \* who holds it
  syncWriteCount,
  due,            \* 10 ms have passed since syncLastFlushMs
  syncWriteErrors,
  closed,
  pc, op,         \* where each goroutine is, and in which method
  calls,          \* calls begun by each goroutine: entry <<c, n>> is the n-th
  returned,       \* history: entries whose logging call has returned
  mark,           \* history: `returned` when a Flush or Close was called
  failed,         \* history: the last Flush or Close reported an error
  failures

disk == <<written, synced, fileOpen>>
writer == <<buf, broken>>
counts == <<syncWriteCount, due, syncWriteErrors>>
flow == <<pc, op, calls>>
history == <<returned, mark, failed>>
vars == <<tier, disk, writer, syncMu, counts, closed, flow, history, failures>>

Tiers == {"OSBuffered", "Direct", "FsyncEveryN", "FsyncEveryWrite"}
Buffered == tier \in {"OSBuffered", "FsyncEveryN"}

Entry(c) == <<c, calls[c]>>

-----------------------------------------------------------------------------
Init ==
  /\ tier \in Tiers
  /\ written = <<>> /\ synced = 0 /\ fileOpen = TRUE
  /\ buf = <<>> /\ broken = FALSE
  /\ syncMu = Nobody
  /\ syncWriteCount = 0 /\ due = FALSE /\ syncWriteErrors = 0
  /\ closed = FALSE
  /\ pc = [c \in Callers |-> "idle"] /\ op = [c \in Callers |-> "log"]
  /\ calls = [c \in Callers |-> 0]
  /\ returned = {} /\ mark = [c \in Callers |-> {}] /\ failed = [c \in Callers |-> FALSE]
  /\ failures = 0

Goto(c, place) == pc' = [pc EXCEPT ![c] = place]

\* noteSyncError
NoteErrors(c, n) ==
  /\ syncWriteErrors' = syncWriteErrors + n
  /\ failed' = [failed EXCEPT ![c] = @ \/ n > 0]

NoErrors == UNCHANGED <<syncWriteErrors, failed>>

\* A write(2) of `entries`, of which k get to the file.  It is `whole`, or there is
\* an error.  A closed file takes nothing.
Writes(entries, k, whole) ==
  /\ k \in 0..Len(entries)
  /\ whole => fileOpen /\ k = Len(entries)
  /\ ~fileOpen => k = 0
  /\ failures' = IF fileOpen /\ ~whole THEN failures + 1 ELSE failures
  /\ failures' =< MaxFailures
  /\ written' = written \o SubSeq(entries, 1, k)

\* What a flush that wrote k entries leaves in the buffer: all of them ...
KeptAll(k) == buf

\* ... or those it did not write.
Kept(k) == SubSeq(buf, k + 1, Len(buf))

\* bufio.Writer.Flush: an earlier error is returned again; an empty buffer
\* needs no write; after a failed one the rest stays in the buffer.
FlushBuffer(k) ==
  IF broken \/ buf = <<>>
    THEN k = 0 /\ UNCHANGED <<written, writer, failures>>
    ELSE /\ Writes(buf, k, k = Len(buf))
         /\ buf' = Kept(k)
         /\ broken' = (k < Len(buf))

-----------------------------------------------------------------------------
(* Logging: syncWrite. *)

LogCall(c) ==
  /\ pc[c] \in {"idle", "done"} /\ calls[c] < MaxCalls
  /\ calls' = [calls EXCEPT ![c] = @ + 1]
  /\ op' = [op EXCEPT ![c] = "log"]
  /\ Goto(c, IF Buffered THEN "lock" ELSE "write")
  /\ UNCHANGED <<tier, disk, writer, syncMu, counts, closed, history, failures>>

Lock(c) ==
  /\ pc[c] = "lock" /\ syncMu = Nobody
  /\ syncMu' = c
  /\ Goto(c, IF op[c] = "log" THEN "buffer" ELSE "flush")
  /\ UNCHANGED <<tier, disk, writer, counts, closed, op, calls, history, failures>>

\* Has this entry gone past FsyncEveryNCount, or reached it?
CountPassed == syncWriteCount + 1 > FsyncEveryNCount

CountReached == syncWriteCount + 1 >= FsyncEveryNCount

\* Is a flush called for after the copy, with `fill` entries in the buffer?
\* OSBuffered: nearly full, or 10 ms since the last flush.  FsyncEveryN: the
\* N-th entry.
WantsFlush(fill) ==
  IF tier = "OSBuffered" THEN fill >= BufferSize \/ due ELSE CountReached

\* The errors that a Write to the buffer adds: none, or its own.
RefusalIgnored(refused) == 0

Refusal(refused) == IF refused THEN 1 ELSE 0

\* bufio.Writer.Write of one entry.  A writer with an error refuses it.  A full
\* buffer is written out first, with the first part of the entry behind the
\* others; if that fails, also in this part, the entry is refused as well.
Buffer(c) ==
  /\ pc[c] = "buffer"
  /\ \E k \in 0..Len(buf), whole \in BOOLEAN :
       /\ IF Len(buf) >= BufferSize /\ ~broken
            THEN /\ Writes(buf, k, whole)
                 /\ broken' = ~whole
                 /\ buf' = IF whole THEN <<Entry(c)>> ELSE Kept(k)
            ELSE /\ k = 0 /\ whole /\ UNCHANGED <<written, broken, failures>>
                 /\ buf' = IF broken THEN buf ELSE Append(buf, Entry(c))
       /\ NoteErrors(c, Refusal(broken'))
       /\ Goto(c, IF WantsFlush(Len(buf')) THEN "flush" ELSE "unlock")
  /\ syncWriteCount' = IF tier = "FsyncEveryN" THEN syncWriteCount + 1 ELSE syncWriteCount
  /\ UNCHANGED <<tier, synced, fileOpen, syncMu, due, closed, op, calls, returned, mark>>

\* syncFlush leaves the OSBuffered clock alone; syncWrite restarts it.
Flush(c) ==
  /\ pc[c] = "flush"
  /\ \E k \in 0..Len(buf) : FlushBuffer(k)
  /\ IF broken' THEN NoteErrors(c, 1) ELSE NoErrors
  /\ due' = IF op[c] = "log" THEN FALSE ELSE due
  /\ Goto(c, IF tier = "FsyncEveryN" THEN "fsync" ELSE "unlock")
  /\ UNCHANGED <<tier, synced, fileOpen, syncMu, syncWriteCount, closed, op, calls, returned,
                 mark>>

\* syncFileWrite, for the tiers without a buffer.
Write(c) ==
  /\ pc[c] = "write"
  /\ \E k \in 0..1 : /\ Writes(<<Entry(c)>>, k, k = 1)
                     /\ NoteErrors(c, 1 - k)
  /\ Goto(c, IF tier = "FsyncEveryWrite" THEN "fsync" ELSE "return")
  /\ UNCHANGED <<tier, synced, fileOpen, writer, syncMu, syncWriteCount, due, closed, op,
                 calls, returned, mark>>

CountAfterSync == 0

\* The counter starts again whether or not the fsync worked.
Fsync(c) ==
  /\ pc[c] = "fsync"
  /\ \/ /\ fileOpen
        /\ synced' = Len(written)
        /\ NoErrors /\ UNCHANGED failures
     \/ /\ failures' = IF fileOpen THEN failures + 1 ELSE failures
        /\ failures' =< MaxFailures
        /\ NoteErrors(c, 1) /\ UNCHANGED synced
  /\ syncWriteCount' = CountAfterSync
  /\ Goto(c, IF Buffered THEN "unlock" ELSE "return")
  /\ UNCHANGED <<tier, written, fileOpen, writer, syncMu, due, closed, op, calls, returned,
                 mark>>

Unlock(c) ==
  /\ pc[c] = "unlock"
  /\ syncMu' = Nobody
  /\ Goto(c, IF op[c] = "close" THEN "closefile" ELSE "return")
  /\ UNCHANGED <<tier, disk, writer, counts, closed, op, calls, history, failures>>

Return(c) ==
  /\ pc[c] = "return"
  /\ returned' = IF op[c] = "log" THEN returned \union {Entry(c)} ELSE returned
  /\ Goto(c, IF op[c] = "log" THEN "idle" ELSE "done")
  /\ UNCHANGED <<tier, disk, writer, syncMu, counts, closed, op, calls, mark, failed, failures>>

-----------------------------------------------------------------------------
(* Flush and Close. *)

FlushCall(c) ==
  /\ pc[c] \in {"idle", "done"} /\ calls[c] < MaxCalls
  /\ calls' = [calls EXCEPT ![c] = @ + 1]
  /\ op' = [op EXCEPT ![c] = "flush"]
  /\ mark' = [mark EXCEPT ![c] = returned] /\ failed' = [failed EXCEPT ![c] = FALSE]
  /\ Goto(c, IF Buffered THEN "lock" ELSE "return")
  /\ UNCHANGED <<tier, disk, writer, syncMu, counts, closed, returned, failures>>

\* Close flushes only for a tier with a buffer, and only the first Close does.
CloseWithoutFlush == "closefile"

AfterCloseCall == IF Buffered THEN "lock" ELSE "closefile"

CloseCall(c) ==
  /\ pc[c] \in {"idle", "done"} /\ calls[c] < MaxCalls /\ ~closed
  /\ closed' = TRUE
  /\ calls' = [calls EXCEPT ![c] = @ + 1]
  /\ op' = [op EXCEPT ![c] = "close"]
  /\ mark' = [mark EXCEPT ![c] = returned] /\ failed' = [failed EXCEPT ![c] = FALSE]
  /\ Goto(c, AfterCloseCall)
  /\ UNCHANGED <<tier, disk, writer, syncMu, counts, returned, failures>>

\* syncFile.Close, without syncMu.
CloseFile(c) ==
  /\ pc[c] = "closefile"
  /\ fileOpen' = FALSE
  /\ Goto(c, "return")
  /\ UNCHANGED <<tier, written, synced, writer, syncMu, counts, closed, op, calls, history,
                 failures>>

TimePasses ==
  /\ tier = "OSBuffered" /\ ~due
  /\ due' = TRUE
  /\ UNCHANGED <<tier, disk, writer, syncMu, syncWriteCount, syncWriteErrors, closed, flow,
                 history, failures>>

Step(c) == \/ Lock(c) \/ Buffer(c) \/ Flush(c) \/ Write(c) \/ Fsync(c) \/ Unlock(c)
           \/ CloseFile(c) \/ Return(c)

Next == \/ TimePasses
        \/ \E c \in Callers : LogCall(c) \/ FlushCall(c) \/ CloseCall(c) \/ Step(c)

Spec == Init /\ [][Next]_vars

-----------------------------------------------------------------------------
Entries == Callers \X (1..MaxCalls)

\* The types, with the buffer and the counter of FsyncEveryN within their bounds.
TypeOK ==
  /\ tier \in Tiers
  /\ written \in Seq(Entries) /\ synced \in 0..Len(written) /\ fileOpen \in BOOLEAN
  /\ buf \in Seq(Entries) /\ Len(buf) =< BufferSize /\ broken \in BOOLEAN
  /\ syncMu \in Callers \union {Nobody}
  /\ syncWriteCount \in 0..FsyncEveryNCount /\ due \in BOOLEAN
  /\ syncWriteErrors \in Nat /\ closed \in BOOLEAN
  /\ pc \in [Callers -> {"idle", "lock", "buffer", "flush", "write", "fsync", "unlock",
                         "closefile", "return", "done"}]
  /\ op \in [Callers -> {"log", "flush", "close"}]
  /\ calls \in [Callers -> 0..MaxCalls]
  /\ returned \subseteq Entries /\ mark \in [Callers -> SUBSET Entries]
  /\ failed \in [Callers -> BOOLEAN] /\ failures \in 0..MaxFailures

Synced == ToSet(SubSeq(written, 1, synced))

\* No entry is in the file twice, or in the file and still in the buffer, and
\* the entries of one goroutine are there in the order it logged them, whatever
\* fails and whoever flushes.
InOrder ==
  LET all == written \o buf IN
    \A i, j \in DOMAIN all : i < j /\ all[i][1] = all[j][1] => all[i][2] < all[j][2]

\* What is still on its way to the file.  A writer with an error and a closed file
\* strand whatever is in the buffer.
Flushable == IF fileOpen /\ ~broken THEN ToSet(buf) ELSE {}

\* The entries whose call has returned and that will never be in the file.
Lost == returned \ (ToSet(written) \union Flushable)

\* Losses show in SyncWriteErrors (logger.go:53-56, core.go:311-314).  Without a
\* buffer each lost entry is counted: with Direct and FsyncEveryWrite this is what
\* survives a crash of the process (config.go:65-67, 83-85).  With a buffer each
\* refused entry is counted, but those that a failed flush, or a file that was
\* closed, strands in the buffer are not, at most BufferSize; and until Close has
\* closed the file nothing is lost while the count is zero.
LossesCounted ==
  /\ Cardinality(Lost) =< syncWriteErrors + (IF Buffered THEN BufferSize ELSE 0)
  /\ fileOpen /\ syncWriteErrors = 0 => Lost = {}

\* Close leaves no buffered entry in process memory (worker.go:326-327): when it
\* has closed the file and no error was counted, the file has every entry whose
\* call has returned.  Another caller can log between its flush and the closing.
CloseLeavesNothing ==
  \A c \in Callers :
    op[c] = "close" /\ pc[c] = "return" /\ syncWriteErrors = 0 => Lost = {}

\* What a crash of the operating system may take: with FsyncEveryWrite no entry
\* whose call has returned without an error, with FsyncEveryN at most N - 1
\* entries as long as nothing failed (config.go:72-86).
TierKept ==
  LET atRisk == Cardinality(returned \ Synced) IN
    /\ tier = "FsyncEveryWrite" => atRisk =< syncWriteErrors
    /\ tier = "FsyncEveryN" /\ syncWriteErrors = 0 => atRisk =< FsyncEveryNCount - 1

\* A Flush, or the Close, of a buffered tier that met no error has brought all
\* entries logged before it to the file, and to the disk with FsyncEveryN
\* (worker.go:249-251, 318-319), although others log, flush and close meanwhile.
FlushCovers ==
  \A c \in Callers :
    Buffered /\ pc[c] = "done" /\ ~failed[c] =>
      /\ mark[c] \subseteq ToSet(written)
      /\ tier = "FsyncEveryN" /\ syncWriteErrors = 0 => mark[c] \subseteq Synced
=============================================================================
