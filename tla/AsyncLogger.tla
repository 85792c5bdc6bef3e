---------------------------- MODULE AsyncLogger ----------------------------
(***************************************************************************)
(* The asynchronous half of loggerj: producers send entries into a bounded *)
(* channel (dispatch), one worker goroutine batches them and writes them   *)
(* to the log file (runWorker, formatBatch, writeOut, drainAndFlush), and  *)
(* Flush and Close talk to the worker through a channel, a context and a   *)
(* mutex.  The logger has an OutputFile and no MaxFileSize, so that        *)
(* rotateIfNeeded returns its argument.                                    *)
(*                                                                         *)
(* One action is one step of one goroutine between two points where        *)
(* another goroutine can see the difference.  Time is not modelled: a      *)
(* timer may fire at any moment after it was started.  An entry counts for *)
(* one unit of len(buf), so FlushThreshold is a number of entries.         *)
(***************************************************************************)
EXTENDS Integers, Sequences, FiniteSets, FiniteSetsExt

CONSTANTS
  Producers,       \* goroutines that log
  Runs,            \* calls of Start or StartBackground, each with its own ctx
  Flushes,         \* calls of Flush, each with its own done channel
  Closes,          \* calls of Close
  NoRun, NoFlush,  \* "no worker was ever started", "no request in hand"
  LevelOf,         \* the level a producer logs at (uint8; 3 is LevelError)
  ChannelSize,     \* Config.ChannelSize: capacity of logCh
  FlushThreshold,  \* Config.FlushThreshold, in entries
  WorkerBatchMax,  \* workerBatchMax
  ErrorBlock,      \* Config.ErrorBlockTimeout > 0
  MayFail,         \* may a write to the log file fail?
  MaxPerProducer   \* bound: entries one producer logs

ASSUME SizesAssumption ==
  /\ ChannelSize \in Nat \ {0}
  /\ FlushThreshold \in Nat \ {0}
  /\ WorkerBatchMax \in Nat \ {0}
  /\ MaxPerProducer \in Nat

ASSUME NamesAssumption ==
  /\ NoRun \notin Runs
  /\ NoFlush \notin Flushes
  /\ LevelOf \in [Producers -> 0..255]
  /\ ErrorBlock \in BOOLEAN
  /\ MayFail \in BOOLEAN

\* What the drop counters add up to is a sum over the goroutines that log.
ASSUME ProducersAssumption == IsFiniteSet(Producers)

VARIABLES
  logCh,        \* the entry channel
  flushCh,      \* the request channel of Flush, capacity 1
  confirmed,    \* done channels the worker has closed
  running,      \* Logger.running
  cur,          \* the run workerCancel and workerStopped belong to
  ctxDone,      \* runs whose (derived) context is cancelled
  stopped,      \* runs whose stopped channel is closed
  wpc,          \* where each run of the worker is
  mode,         \* the select case it is serving: loop, flush or drain
  batched,      \* n of formatBatch
  buf,          \* the formatting buffer of each run
  token,        \* the request each run is serving
  accepted,     \* history: entries sent into logCh, in order
  taken,        \* history: entries handed to writeOut, in order
  out,          \* the entries in the log file
  file,         \* the log file: open or closed
  wErr,         \* a write to the open file has failed (bufio.Writer keeps the error)
  fpc,          \* where each Flush call is
  mark,         \* how many entries were accepted when it was called
  closed,       \* Logger.closed
  cpc,          \* where each Close call is
  closeMark,    \* how many entries were accepted when Close was called
  target,       \* the run that stopWorker waits for
  served,       \* had that run not yet found its channel empty for the last time?
  timedOut,     \* Close stopped waiting for it
  ppc,          \* where each producer is in dispatch
  sent,         \* how many entries each producer has logged
  drops,        \* Logger.drops
  dropsByLevel  \* Logger.dropsByLevel

chanVars     == <<logCh, accepted>>
reqVars      == <<flushCh, confirmed>>
lifeVars     == <<running, cur, ctxDone, stopped>>
workVars     == <<wpc, mode, batched, buf, token>>
fileVars     == <<taken, out, file, wErr>>
flusherVars  == <<fpc, mark>>
closerVars   == <<closed, cpc, closeMark, target, served, timedOut>>
producerVars == <<ppc, sent, drops, dropsByLevel>>

callVars     == <<flusherVars, closerVars, producerVars>>
queueVars    == <<chanVars, workVars, fileVars>>

vars == <<queueVars, reqVars, lifeVars, callVars>>

LevelError == 3
Levels     == 0..3                                \* indices of dropsByLevel
Entry      == Producers \X (1..MaxPerProducer)    \* producer and its counter

-----------------------------------------------------------------------------
(* Initial state: NewLogger has opened the file; no goroutine has started. *)

Init ==
  /\ logCh = <<>> /\ accepted = <<>>
  /\ flushCh = <<>> /\ confirmed = {}
  /\ running = FALSE /\ cur = NoRun /\ ctxDone = {} /\ stopped = {}
  /\ wpc = [r \in Runs |-> "off"]
  /\ mode = [r \in Runs |-> "loop"]
  /\ batched = [r \in Runs |-> 0]
  /\ buf = [r \in Runs |-> <<>>]
  /\ token = [r \in Runs |-> NoFlush]
  /\ taken = <<>> /\ out = <<>> /\ file = "open" /\ wErr = FALSE
  /\ fpc = [f \in Flushes |-> "idle"]
  /\ mark = [f \in Flushes |-> 0]
  /\ closed = FALSE /\ cpc = [c \in Closes |-> "idle"] /\ closeMark = 0
  /\ target = NoRun /\ served = FALSE /\ timedOut = FALSE
  /\ ppc = [p \in Producers |-> "idle"]
  /\ sent = [p \in Producers |-> 0]
  /\ drops = 0
  /\ dropsByLevel = [v \in Levels |-> 0]

-----------------------------------------------------------------------------
(* Producers: dispatch. *)

HasSpaceOffByOne == Len(logCh) =< ChannelSize

HasSpace == Len(logCh) < ChannelSize

\* Only LevelError and above wait for space.
MayBlock(p) == ErrorBlock /\ LevelOf[p] >= LevelError

Send(e) == /\ logCh' = Append(logCh, e)
           /\ accepted' = Append(accepted, e)

EnterProducer(p, from, to) == ppc[p] = from /\ ppc' = [ppc EXCEPT ![p] = to]

OthersOfProducer == <<reqVars, lifeVars, workVars, fileVars, flusherVars, closerVars>>

\* log and dispatch up to the first select: the entry goes into the channel,
\* or the producer goes on to wait (ERROR) or to drop.
Log(p) ==
  /\ ppc[p] = "idle" /\ sent[p] < MaxPerProducer
  /\ sent' = [sent EXCEPT ![p] = @ + 1]
  /\ IF HasSpace
       THEN Send(<<p, sent[p] + 1>>) /\ UNCHANGED ppc
       ELSE /\ ppc' = [ppc EXCEPT ![p] = IF MayBlock(p) THEN "blocked" ELSE "drop"]
            /\ UNCHANGED chanVars
  /\ UNCHANGED <<OthersOfProducer, drops, dropsByLevel>>

BlockedSend(p) ==
  /\ EnterProducer(p, "blocked", "idle")
  /\ HasSpace /\ Send(<<p, sent[p]>>)
  /\ UNCHANGED <<OthersOfProducer, sent, drops, dropsByLevel>>

AfterBlockForgotten == "idle"

AfterBlock == "drop"

BlockTimeout(p) ==
  /\ EnterProducer(p, "blocked", AfterBlock)
  /\ UNCHANGED <<OthersOfProducer, chanVars, sent, drops, dropsByLevel>>

Drop(p) ==
  /\ EnterProducer(p, "drop", "count")
  /\ drops' = drops + 1
  /\ UNCHANGED <<OthersOfProducer, chanVars, sent, dropsByLevel>>

CountedClamped(p) == {Min({LevelOf[p], LevelError})}

\* A level outside the four named ones is counted in drops only.
CountedAt(p) == {LevelOf[p]} \cap Levels

CountLevel(p) ==
  /\ EnterProducer(p, "count", "idle")
  /\ dropsByLevel' = [v \in Levels |-> dropsByLevel[v] + IF v \in CountedAt(p) THEN 1 ELSE 0]
  /\ UNCHANGED <<OthersOfProducer, chanVars, sent, drops>>

-----------------------------------------------------------------------------
(* The worker's life: Start, StartBackground, cancellation, exit. *)

Goto(r, pc) == wpc' = [wpc EXCEPT ![r] = pc]

workData == <<mode, batched, buf, token>>

\* go Start(ctx), or StartBackground(ctx) up to its wait for ready.
StartCall(r) ==
  /\ wpc[r] = "off" /\ Goto(r, "called")
  /\ UNCHANGED <<chanVars, reqVars, lifeVars, workData, fileVars, callVars>>

CanRegisterAlways == TRUE

\* running.CompareAndSwap(false, true)
CanRegister == ~running

\* Under workerMu: the run becomes the worker, and Close can find it.
Register(r) ==
  /\ wpc[r] = "called" /\ CanRegister /\ Goto(r, "select")
  /\ running' = TRUE /\ cur' = r
  /\ UNCHANGED <<chanVars, reqVars, ctxDone, stopped, workData, fileVars, callVars>>

\* A worker is running already: the call returns, cancelling its own context.
RefuseStart(r) ==
  /\ wpc[r] = "called" /\ ~CanRegister /\ Goto(r, "refused")
  /\ ctxDone' = ctxDone \cup {r}
  /\ UNCHANGED <<chanVars, reqVars, running, cur, stopped, workData, fileVars, callVars>>

\* The caller cancels the context it gave to Start.
CancelCtx(r) ==
  /\ wpc[r] # "off" /\ r \notin ctxDone
  /\ ctxDone' = ctxDone \cup {r}
  /\ UNCHANGED <<queueVars, reqVars, running, cur, stopped, callVars>>

\* First half of the deferred function: running.Store(false).
Exit(r) ==
  /\ wpc[r] = "exit" /\ Goto(r, "closing")
  /\ running' = FALSE
  /\ UNCHANGED <<chanVars, reqVars, cur, ctxDone, stopped, workData, fileVars, callVars>>

\* Second half, and the deferred cancel: close(stopped).
CloseStopped(r) ==
  /\ wpc[r] = "closing" /\ Goto(r, "finished")
  /\ stopped' = stopped \cup {r} /\ ctxDone' = ctxDone \cup {r}
  /\ UNCHANGED <<chanVars, reqVars, running, cur, workData, fileVars, callVars>>

-----------------------------------------------------------------------------
(* The worker's loop: select, formatBatch, the sweep of a Flush request    *)
(* and of drainAndFlush.                                                   *)

ThresholdReached(r) == Len(buf[r]) >= FlushThreshold

\* Receive one entry and format it.
Take(r) ==
  /\ logCh # <<>>
  /\ buf' = [buf EXCEPT ![r] = Append(@, Head(logCh))]
  /\ logCh' = Tail(logCh)
  /\ UNCHANGED accepted

\* Where the run goes on after a batch that needs no write.
Home(r) == IF mode[r] = "loop" THEN "select" ELSE "sweep"

DrainNothing == "lastwrite"

DrainFirst == "sweep"   \* drainAndFlush starts with the channel

SelectCtxDone(r) ==
  /\ wpc[r] = "select" /\ r \in ctxDone /\ Goto(r, DrainFirst)
  /\ mode' = [mode EXCEPT ![r] = "drain"]
  /\ UNCHANGED <<chanVars, reqVars, lifeVars, batched, buf, token, fileVars, callVars>>

\* case e := <-l.logCh, or the same receive in a sweep; formatBatch follows.
StartBatch(r, pc) ==
  /\ wpc[r] = pc /\ Take(r) /\ Goto(r, "batch")
  /\ batched' = [batched EXCEPT ![r] = 1]
  /\ UNCHANGED <<reqVars, lifeVars, mode, token, fileVars, callVars>>

SelectLog(r) == StartBatch(r, "select")
SweepMore(r) == StartBatch(r, "sweep")

\* formatBatch goes on: bound and threshold not reached, channel not empty.
MoreInBatch(r) == /\ batched[r] < WorkerBatchMax
                  /\ ~ThresholdReached(r)
                  /\ logCh # <<>>

BatchMore(r) ==
  /\ wpc[r] = "batch" /\ MoreInBatch(r) /\ Take(r)
  /\ batched' = [batched EXCEPT ![r] = @ + 1]
  /\ UNCHANGED <<reqVars, lifeVars, wpc, mode, token, fileVars, callVars>>

BatchEnd(r) ==
  /\ wpc[r] = "batch" /\ ~MoreInBatch(r)
  /\ Goto(r, IF ThresholdReached(r) THEN "write" ELSE Home(r))
  /\ batched' = [batched EXCEPT ![r] = 0]
  /\ UNCHANGED <<chanVars, reqVars, lifeVars, mode, buf, token, fileVars, callVars>>

\* The ticker writes whatever there is, the threshold notwithstanding.
TickDue(r) == buf[r] # <<>>

Tick(r) ==
  /\ wpc[r] = "select" /\ TickDue(r) /\ Goto(r, "write")
  /\ UNCHANGED <<chanVars, reqVars, lifeVars, workData, fileVars, callVars>>

RequestAwaited == flushCh # <<>> /\ fpc[Head(flushCh)] = "wait"

RequestReady == flushCh # <<>>

FlushNothing == "lastwrite"

FlushFirst == "sweep"   \* the request drains the channel first

SelectFlush(r) ==
  /\ wpc[r] = "select" /\ RequestReady /\ Goto(r, FlushFirst)
  /\ token' = [token EXCEPT ![r] = Head(flushCh)]
  /\ flushCh' = Tail(flushCh)
  /\ mode' = [mode EXCEPT ![r] = "flush"]
  /\ UNCHANGED <<chanVars, confirmed, lifeVars, batched, buf, fileVars, callVars>>

\* The default case of a sweep: the channel is empty.
SweepEmpty(r) ==
  /\ wpc[r] = "sweep" /\ logCh = <<>> /\ Goto(r, "lastwrite")
  /\ UNCHANGED <<chanVars, reqVars, lifeVars, workData, fileVars, callVars>>

-----------------------------------------------------------------------------
(* writeOut and the bufio.Writer over the log file. *)

KeepBuffer(b) == b

\* buf = buf[:0]
Emptied(b) == <<>>

\* bw.Write and bw.Flush of a whole buffer.  A failure leaves a prefix of it
\* in the file and sticks: later writes put nothing there.
WriteThrough(b) ==
  \/ /\ b = <<>> \/ (file = "open" /\ ~wErr)
     /\ out' = out \o b
     /\ UNCHANGED wErr
  \/ /\ b # <<>> /\ file = "open" /\ ~wErr /\ MayFail
     /\ \E k \in 0..(Len(b) - 1) : out' = out \o SubSeq(b, 1, k)
     /\ wErr' = TRUE
  \/ /\ b # <<>> /\ (file = "closed" \/ wErr)
     /\ UNCHANGED <<out, wErr>>

\* writeOut reports an error to stderr only: the entries count as written.
HandOver(r) ==
  /\ WriteThrough(buf[r])
  /\ taken' = taken \o buf[r]
  /\ buf' = [buf EXCEPT ![r] = Emptied(@)]
  /\ UNCHANGED <<chanVars, reqVars, lifeVars, mode, batched, token, file, callVars>>

WriteOut(r) == wpc[r] = "write" /\ HandOver(r) /\ Goto(r, Home(r))

\* The write that ends a sweep; an empty buffer is not written.
LastWrite(r) ==
  /\ wpc[r] = "lastwrite" /\ HandOver(r)
  /\ Goto(r, IF mode[r] = "flush" THEN "confirm" ELSE "exit")

\* close(done), and back to the select.
Answer(r) ==
  /\ wpc[r] = "confirm" /\ Goto(r, "select")
  /\ confirmed' = confirmed \cup {token[r]}
  /\ token' = [token EXCEPT ![r] = NoFlush]
  /\ mode' = [mode EXCEPT ![r] = "loop"]
  /\ UNCHANGED <<chanVars, flushCh, lifeVars, batched, buf, fileVars, callVars>>

ConfirmBySend(r) == Answer(r) /\ fpc[token[r]] = "wait"

Confirm(r) == Answer(r)

-----------------------------------------------------------------------------
(* Flush. *)

FlushMuHeld == \E f \in Flushes : fpc[f] \in {"send", "wait"}

EnterFlush(f, from, to) == fpc[f] = from /\ fpc' = [fpc EXCEPT ![f] = to]

OthersOfFlush == <<queueVars, lifeVars, closerVars, producerVars>>

FlushCall(f) ==
  /\ EnterFlush(f, "idle", "lock")
  /\ mark' = [mark EXCEPT ![f] = Len(accepted)]
  /\ UNCHANGED <<OthersOfFlush, reqVars>>

\* flushMu.Lock and the test of running.
FlushLock(f) ==
  /\ ~FlushMuHeld
  /\ EnterFlush(f, "lock", IF running THEN "send" ELSE "norun")
  /\ UNCHANGED <<OthersOfFlush, reqVars, mark>>

\* l.flushCh <- done waits while the channel is full.
FlushSend(f) ==
  /\ EnterFlush(f, "send", "wait")
  /\ flushCh = <<>> /\ flushCh' = <<f>>
  /\ UNCHANGED <<OthersOfFlush, confirmed, mark>>

FlushDone(f) ==
  /\ EnterFlush(f, "wait", "ok") /\ f \in confirmed
  /\ UNCHANGED <<OthersOfFlush, reqVars, mark>>

GiveUpAndClose(f) == confirmed' = confirmed \cup {f} /\ UNCHANGED flushCh

\* The request stays where it is, and so does its done channel.
GiveUp(f) == UNCHANGED reqVars

FlushTimeout(f) ==
  /\ EnterFlush(f, "wait", "timeout") /\ GiveUp(f)
  /\ UNCHANGED <<OthersOfFlush, mark>>

-----------------------------------------------------------------------------
(* Close. *)

\* Has run r still a receive of logCh before it that can find it empty?
Serving(r) == \/ wpc[r] \in {"select", "batch", "write", "sweep", "confirm"}
              \/ wpc[r] = "lastwrite" /\ mode[r] = "flush"

EnterClose(c, from, to) == cpc[c] = from /\ cpc' = [cpc EXCEPT ![c] = to]

OthersOfClose == <<chanVars, reqVars, running, cur, stopped, workVars, flusherVars, producerVars>>

\* closed.CompareAndSwap(false, true); a later call returns nil at once.
CloseCall(c) ==
  /\ EnterClose(c, "idle", IF closed THEN "dup" ELSE "stop")
  /\ closed' = TRUE
  /\ closeMark' = IF closed THEN closeMark ELSE Len(accepted)
  /\ UNCHANGED <<OthersOfClose, ctxDone, fileVars, target, served, timedOut>>

NothingToAwait == cur = NoRun \/ cur \in ctxDone

NothingToStop == cur = NoRun

\* stopWorker up to its select.
StopWorker(c) ==
  /\ EnterClose(c, "stop", IF NothingToStop THEN "file" ELSE "await")
  /\ target' = cur
  /\ ctxDone' = ctxDone \cup ({cur} \ {NoRun})
  /\ served' = (~NothingToStop /\ Serving(cur))
  /\ UNCHANGED <<OthersOfClose, fileVars, closed, closeMark, timedOut>>

CloseAwait(c) ==
  /\ EnterClose(c, "await", "file") /\ target \in stopped
  /\ UNCHANGED <<OthersOfClose, ctxDone, fileVars, closed, closeMark, target, served, timedOut>>

CloseTimeout(c) ==
  /\ EnterClose(c, "await", "file")
  /\ timedOut' = TRUE
  /\ UNCHANGED <<OthersOfClose, ctxDone, fileVars, closed, closeMark, target, served>>

\* What the bufio.Writer may hold when Close flushes it: a run that Close did
\* not wait for may be inside writeOut.
InWrite == {buf[r] : r \in {s \in Runs : wpc[s] \in {"write", "lastwrite"}}}

\* currentWriter.Flush and currentFile.Close.  Flush races with such a run:
\* any part of its buffer may reach the file, through either of them.
CloseFile(c) ==
  /\ EnterClose(c, "file", "returned")
  /\ file' = "closed"
  /\ IF wErr
       THEN UNCHANGED out
       ELSE \E b \in InWrite \cup {<<>>} : \E i, j \in 0..Len(b) :
              out' = out \o SubSeq(b, 1, i) \o SubSeq(b, 1, j)
  /\ UNCHANGED <<OthersOfClose, ctxDone, taken, wErr, closed, closeMark, target, served, timedOut>>

-----------------------------------------------------------------------------
(* The system. *)

Produce(p) == Log(p) \/ BlockedSend(p) \/ BlockTimeout(p) \/ Drop(p) \/ CountLevel(p)

\* The steps of a run in which it does not choose.
WorkerStep(r) == \/ Register(r) \/ RefuseStart(r)
                 \/ SweepMore(r) \/ SweepEmpty(r)
                 \/ BatchMore(r) \/ BatchEnd(r)
                 \/ WriteOut(r) \/ LastWrite(r) \/ Confirm(r)
                 \/ Exit(r) \/ CloseStopped(r)

\* The cases of its select.
Select(r) == SelectCtxDone(r) \/ SelectLog(r) \/ Tick(r) \/ SelectFlush(r)

Flush(f) == \/ FlushCall(f) \/ FlushLock(f) \/ FlushSend(f)
            \/ FlushDone(f) \/ FlushTimeout(f)

Close(c) == \/ CloseCall(c) \/ StopWorker(c) \/ CloseAwait(c)
            \/ CloseTimeout(c) \/ CloseFile(c)

Next == \/ \E p \in Producers : Produce(p)
        \/ \E r \in Runs : StartCall(r) \/ CancelCtx(r) \/ WorkerStep(r) \/ Select(r)
        \/ \E f \in Flushes : Flush(f)
        \/ \E c \in Closes : Close(c)

Spec == Init /\ [][Next]_vars

-----------------------------------------------------------------------------
(* Fairness.  The scheduler runs every goroutine; a Go select that is      *)
(* reached again and again with a case ready picks that case eventually;   *)
(* timers fire.  Nobody has to log, start, cancel, flush or close.         *)

WorkerFairness(r) ==
  /\ WF_vars(WorkerStep(r))
  /\ SF_vars(SelectCtxDone(r)) /\ SF_vars(SelectLog(r))
  /\ SF_vars(Tick(r)) /\ SF_vars(SelectFlush(r))

FlushFairness(f) ==
  /\ SF_vars(FlushLock(f)) /\ WF_vars(FlushSend(f))
  /\ WF_vars(FlushDone(f)) /\ WF_vars(FlushTimeout(f))

CloseFairness(c) ==
  /\ WF_vars(StopWorker(c)) /\ WF_vars(CloseAwait(c))
  /\ WF_vars(CloseTimeout(c)) /\ WF_vars(CloseFile(c))

ProducerFairness(p) ==
  WF_vars(BlockedSend(p) \/ BlockTimeout(p) \/ Drop(p) \/ CountLevel(p))

FairSpec == /\ Spec
            /\ \A r \in Runs : WorkerFairness(r)
            /\ \A f \in Flushes : FlushFairness(f)
            /\ \A c \in Closes : CloseFairness(c)
            /\ \A p \in Producers : ProducerFairness(p)

-----------------------------------------------------------------------------
(* Invariants. *)

WorkerPC == {"off", "called", "refused", "select", "batch", "write", "sweep",
             "lastwrite", "confirm", "exit", "closing", "finished"}

ChanTypeOK == /\ logCh \in Seq(Entry) /\ Len(logCh) =< ChannelSize
              /\ accepted \in Seq(Entry)

ReqTypeOK == /\ flushCh \in Seq(Flushes) /\ Len(flushCh) =< 1
             /\ confirmed \in SUBSET (Flushes \cup {NoFlush})

LifeTypeOK == /\ running \in BOOLEAN /\ cur \in Runs \cup {NoRun}
              /\ ctxDone \in SUBSET Runs /\ stopped \in SUBSET Runs

WorkTypeOK == /\ wpc \in [Runs -> WorkerPC]
              /\ mode \in [Runs -> {"loop", "flush", "drain"}]
              /\ batched \in [Runs -> Nat]
              /\ buf \in [Runs -> Seq(Entry)]
              /\ token \in [Runs -> Flushes \cup {NoFlush}]

FileTypeOK == /\ taken \in Seq(Entry) /\ out \in Seq(Entry)
              /\ file \in {"open", "closed"} /\ wErr \in BOOLEAN

FlusherTypeOK ==
  /\ fpc \in [Flushes -> {"idle", "lock", "send", "wait", "ok", "timeout", "norun"}]
  /\ mark \in [Flushes -> Nat]

CloserTypeOK ==
  /\ closed \in BOOLEAN
  /\ cpc \in [Closes -> {"idle", "dup", "stop", "await", "file", "returned"}]
  /\ closeMark \in Nat /\ target \in Runs \cup {NoRun}
  /\ served \in BOOLEAN /\ timedOut \in BOOLEAN

ProducerTypeOK == /\ ppc \in [Producers -> {"idle", "blocked", "drop", "count"}]
                  /\ sent \in [Producers -> 0..MaxPerProducer]
                  /\ \A p \in Producers : ppc[p] # "idle" => sent[p] > 0
                  /\ drops \in Nat
                  /\ dropsByLevel \in [Levels -> Nat]

\* Every variable has its type, and both channels keep to their capacity.
TypeOK == /\ ChanTypeOK /\ ReqTypeOK /\ LifeTypeOK /\ WorkTypeOK
          /\ FileTypeOK /\ FlusherTypeOK /\ CloserTypeOK /\ ProducerTypeOK

\* A run that owns the channel, the buffer and the file.
Active(r) == wpc[r] \in {"select", "batch", "write", "sweep", "lastwrite",
                         "confirm", "exit"}

\* However Start, StartBackground, cancellation and Close interleave, at most
\* one run is between its CompareAndSwap and running.Store(false), it is the
\* one Close would stop, and no other run holds formatted entries.
SingleWorker ==
  \A r \in Runs : /\ Active(r) <=> (running /\ cur = r)
                  /\ buf[r] # <<>> => Active(r)

Held == IF cur = NoRun THEN <<>> ELSE buf[cur]

\* Every entry the channel accepted is, in the order of acceptance and exactly
\* once, handed to the writer, in the worker's buffer, or in the channel: no
\* batch, sweep, restart or shutdown loses, repeats or reorders one.
NothingLost == accepted = taken \o Held \o logCh

\* A worker may write to a file that Close closed only if Close gave up waiting
\* or the run was registered after stopWorker had looked.
Unawaited == file = "closed" /\ (timedOut \/ cur # target)

\* The file holds exactly what was handed to writeOut, unless a write failed
\* or Close did not wait for the run that wrote.
FileIsComplete == out = taken \/ wErr \/ Unawaited

\* A Flush that saw its confirmation (not its timer) has had every entry
\* accepted before the call handed to the writer (worker.go:167-169).
FlushWrites == \A f \in Flushes : fpc[f] = "ok" => mark[f] =< Len(taken)

\* close(done) and close(stopped) happen once: a second one would panic.
ChannelsClosedOnce ==
  \A r \in Runs : /\ wpc[r] = "confirm" => token[r] \in Flushes \ confirmed
                  /\ wpc[r] = "closing" => r \notin stopped

\* A Close that reached its worker while that could still find entries, and
\* did not give up waiting, has had every entry accepted before the call
\* handed to the writer before it closed the file.
CloseDrains == file = "closed" /\ served /\ ~timedOut => closeMark =< Len(taken)

AcceptedBy(p) == Cardinality({i \in 1..Len(accepted) : accepted[i][1] = p})

\* Entries of p that some pc of dispatch still has in hand.
InHand(p, pcs) == IF ppc[p] \in pcs THEN 1 ELSE 0

\* Every logged entry is accepted, counted in Drops(), or still in dispatch.
DropsAccounted ==
  drops = MapThenSumSet(LAMBDA p : sent[p] - AcceptedBy(p) - InHand(p, {"blocked", "drop"}),
                        Producers)

\* DropsByLevel counts, for each named level, the dropped entries of that
\* level and no others; it trails Drops() by the dispatches between their two
\* atomic adds.
LevelDropsAccounted ==
  \A v \in Levels :
    dropsByLevel[v] =
      MapThenSumSet(LAMBDA p : sent[p] - AcceptedBy(p) - InHand(p, {"blocked", "drop", "count"}),
                    {p \in Producers : LevelOf[p] = v})

-----------------------------------------------------------------------------
(* The promise of the pipeline. *)

Pipe == INSTANCE LogPipe WITH pending <- Held \o logCh, delivered <- taken

\* The pipeline implements one queue that a writer empties from the front.
ImplementsPipe == Pipe!PipeSpec

-----------------------------------------------------------------------------
(* Liveness. *)

Occurs(e, s) == \E i \in 1..Len(s) : s[i] = e

\* An entry does not wait for ever under a running worker, however few there
\* are: batch end, ticker, Flush or shutdown brings it to the writer.
AcceptedIsTaken ==
  \A e \in Entry : (Occurs(e, Held \o logCh) /\ running) ~> (Occurs(e, taken) \/ ~running)

\* A worker whose context is cancelled drains and exits, whatever it was doing
\* and whichever requests are pending.
CancelledRunStops ==
  \A r \in Runs : (Active(r) /\ r \in ctxDone) ~> (r \in stopped)

FlushReturned(f) == fpc[f] \in {"ok", "timeout", "norun"}

\* While nobody cancels the worker, every Flush returns, stale requests of
\* timed-out Flushes or not.
FlushReturnsWhileServed ==
  \A f \in Flushes : fpc[f] = "lock" ~> (FlushReturned(f) \/ ctxDone # {})

-----------------------------------------------------------------------------
(* What comments and documents say, and the code does not do. *)

\* worker.go:239-241: Flush blocks until the worker confirms "(or times out
\* after 1 second)"; worker.go:271-272: the send to flushCh "will never block".
FlushReturns == \A f \in Flushes : fpc[f] = "lock" ~> FlushReturned(f)
=============================================================================
