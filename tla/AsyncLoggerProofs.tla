------------------------- MODULE AsyncLoggerProofs -------------------------
(***************************************************************************)
(* Theorems about AsyncLogger, for every number of producers, runs and     *)
(* calls, every channel size, threshold and batch bound.                   *)
(***************************************************************************)
EXTENDS AsyncLogger, SequenceTheorems, FoldLemmas, TLAPS

\* Abbreviations that every step below looks through.
USE DEF vars, callVars, queueVars, workData, OthersOfProducer, OthersOfFlush,
        OthersOfClose, EnterProducer, EnterFlush, EnterClose, Goto

-----------------------------------------------------------------------------
(* Type correctness. *)

\* A group of variables that a step leaves alone keeps its type.
LEMMA TypeFrame ==
  ASSUME TypeOK
  PROVE  /\ UNCHANGED chanVars => ChanTypeOK'
         /\ UNCHANGED reqVars => ReqTypeOK'
         /\ UNCHANGED lifeVars => LifeTypeOK'
         /\ UNCHANGED workVars => WorkTypeOK'
         /\ UNCHANGED fileVars => FileTypeOK'
         /\ UNCHANGED flusherVars => FlusherTypeOK'
         /\ UNCHANGED closerVars => CloserTypeOK'
         /\ UNCHANGED producerVars => ProducerTypeOK'

<1>1. UNCHANGED chanVars => ChanTypeOK'
  BY DEF chanVars, TypeOK, ChanTypeOK
<1>2. UNCHANGED reqVars => ReqTypeOK'
  BY DEF reqVars, TypeOK, ReqTypeOK
<1>3. UNCHANGED lifeVars => LifeTypeOK'
  BY DEF lifeVars, TypeOK, LifeTypeOK
<1>4. UNCHANGED workVars => WorkTypeOK'
  BY DEF workVars, TypeOK, WorkTypeOK
<1>5. UNCHANGED fileVars => FileTypeOK'
  BY DEF fileVars, TypeOK, FileTypeOK
<1>6. UNCHANGED flusherVars => FlusherTypeOK'
  BY DEF flusherVars, TypeOK, FlusherTypeOK
<1>7. UNCHANGED closerVars => CloserTypeOK'
  BY DEF closerVars, TypeOK, CloserTypeOK
<1>8. UNCHANGED producerVars => ProducerTypeOK'
  BY DEF producerVars, TypeOK, ProducerTypeOK
<1> QED BY <1>1, <1>2, <1>3, <1>4, <1>5, <1>6, <1>7, <1>8

\* A send of an entry into a channel that has space.
LEMMA SendType ==
  ASSUME ChanTypeOK, HasSpace, NEW e \in Entry, Send(e)
  PROVE  ChanTypeOK'
<1>1. Append(logCh, e) \in Seq(Entry) /\ Len(Append(logCh, e)) = Len(logCh) + 1
  BY DEF ChanTypeOK
<1>2. Append(accepted, e) \in Seq(Entry)
  BY DEF ChanTypeOK
<1>3. Len(logCh) + 1 =< ChannelSize
  BY SizesAssumption DEF HasSpace, ChanTypeOK
<1> QED BY <1>1, <1>2, <1>3 DEF Send, ChanTypeOK

\* What writeOut does to the file keeps the file's type.
LEMMA WriteType ==
  ASSUME FileTypeOK, NEW b \in Seq(Entry), WriteThrough(b)
  PROVE  out' \in Seq(Entry) /\ wErr' \in BOOLEAN
<1>0. out \in Seq(Entry) /\ wErr \in BOOLEAN
  BY DEF FileTypeOK
<1>1. CASE UNCHANGED out
  <2>1. wErr' = wErr \/ wErr' = TRUE
    BY DEF WriteThrough
  <2> QED BY <1>0, <1>1, <2>1
<1>2. CASE out' = out \o b /\ UNCHANGED wErr
  BY <1>0, <1>2
<1>3. CASE wErr' = TRUE /\ \E k \in 0..(Len(b) - 1) : out' = out \o SubSeq(b, 1, k)
  <2>1. PICK k \in 0..(Len(b) - 1) : out' = out \o SubSeq(b, 1, k)
    BY <1>3
  <2>2. SubSeq(b, 1, k) \in Seq(Entry)
    OBVIOUS
  <2> QED BY <1>0, <1>3, <2>1, <2>2
<1> QED BY <1>1, <1>2, <1>3 DEF WriteThrough

\* Every step of every goroutine keeps the types.
LEMMA TypeStep == TypeOK /\ [Next]_vars => TypeOK'
<1> SUFFICES ASSUME TypeOK, [Next]_vars PROVE TypeOK'
  OBVIOUS
<1> USE SizesAssumption, NamesAssumption
<1>1. ASSUME NEW p \in Producers, Log(p) PROVE TypeOK'
  <2>1. ReqTypeOK' /\ LifeTypeOK' /\ WorkTypeOK' /\ FileTypeOK' /\ FlusherTypeOK' /\ CloserTypeOK'
    BY <1>1, TypeFrame DEF Log
  <2>2. ChanTypeOK'
    <3>1. <<p, sent[p] + 1>> \in Entry
      BY <1>1 DEF Log, TypeOK, ProducerTypeOK, Entry
    <3>2. CASE HasSpace
      BY <1>1, <3>1, <3>2, SendType DEF Log, TypeOK
    <3>3. CASE ~HasSpace
      BY <1>1, <3>3 DEF Log, chanVars, TypeOK, ChanTypeOK
    <3> QED BY <3>2, <3>3
  <2>3. ProducerTypeOK'
    BY <1>1 DEF Log, TypeOK, ProducerTypeOK, Send, HasSpace, Entry
  <2> QED BY <2>1, <2>2, <2>3 DEF TypeOK
<1>2. ASSUME NEW p \in Producers, BlockedSend(p) PROVE TypeOK'
  <2>1. ReqTypeOK' /\ LifeTypeOK' /\ WorkTypeOK' /\ FileTypeOK' /\ FlusherTypeOK' /\ CloserTypeOK'
    BY <1>2, TypeFrame DEF BlockedSend
  <2>2. ChanTypeOK'
    BY <1>2 DEF BlockedSend, TypeOK, ChanTypeOK, Send, HasSpace, Entry, ProducerTypeOK
  <2>3. ProducerTypeOK'
    BY <1>2 DEF BlockedSend, TypeOK, ProducerTypeOK, Send, HasSpace, Entry
  <2> QED BY <2>1, <2>2, <2>3 DEF TypeOK
<1>3. ASSUME NEW p \in Producers, BlockTimeout(p) PROVE TypeOK'
  <2>1. ChanTypeOK' /\ ReqTypeOK' /\ LifeTypeOK' /\ WorkTypeOK' /\ FileTypeOK' /\ FlusherTypeOK' /\ CloserTypeOK'
    BY <1>3, TypeFrame DEF BlockTimeout, AfterBlock
  <2>2. ProducerTypeOK'
    BY <1>3 DEF BlockTimeout, AfterBlock, TypeOK, ProducerTypeOK
  <2> QED BY <2>1, <2>2 DEF TypeOK
<1>4. ASSUME NEW p \in Producers, Drop(p) PROVE TypeOK'
  <2>1. ChanTypeOK' /\ ReqTypeOK' /\ LifeTypeOK' /\ WorkTypeOK' /\ FileTypeOK' /\ FlusherTypeOK' /\ CloserTypeOK'
    BY <1>4, TypeFrame DEF Drop
  <2>2. ProducerTypeOK'
    BY <1>4 DEF Drop, TypeOK, ProducerTypeOK
  <2> QED BY <2>1, <2>2 DEF TypeOK
<1>5. ASSUME NEW p \in Producers, CountLevel(p) PROVE TypeOK'
  <2>1. ChanTypeOK' /\ ReqTypeOK' /\ LifeTypeOK' /\ WorkTypeOK' /\ FileTypeOK' /\ FlusherTypeOK' /\ CloserTypeOK'
    BY <1>5, TypeFrame DEF CountLevel, CountedAt
  <2>2. ProducerTypeOK'
    BY <1>5 DEF CountLevel, CountedAt, TypeOK, ProducerTypeOK, Levels
  <2> QED BY <2>1, <2>2 DEF TypeOK
<1>6. ASSUME NEW r \in Runs, StartCall(r) PROVE TypeOK'
  <2>1. ChanTypeOK' /\ ReqTypeOK' /\ LifeTypeOK' /\ FileTypeOK' /\ FlusherTypeOK' /\ CloserTypeOK' /\ ProducerTypeOK'
    BY <1>6, TypeFrame DEF StartCall
  <2>2. WorkTypeOK'
    BY <1>6 DEF StartCall, TypeOK, WorkTypeOK, WorkerPC
  <2> QED BY <2>1, <2>2 DEF TypeOK
<1>7. ASSUME NEW r \in Runs, CancelCtx(r) PROVE TypeOK'
  <2>1. ChanTypeOK' /\ ReqTypeOK' /\ WorkTypeOK' /\ FileTypeOK' /\ FlusherTypeOK' /\ CloserTypeOK' /\ ProducerTypeOK'
    BY <1>7, TypeFrame DEF CancelCtx
  <2>2. LifeTypeOK'
    BY <1>7 DEF CancelCtx, TypeOK, LifeTypeOK
  <2> QED BY <2>1, <2>2 DEF TypeOK
<1>8. ASSUME NEW r \in Runs, Register(r) PROVE TypeOK'
  <2>1. ChanTypeOK' /\ ReqTypeOK' /\ FileTypeOK' /\ FlusherTypeOK' /\ CloserTypeOK' /\ ProducerTypeOK'
    BY <1>8, TypeFrame DEF Register
  <2>2. LifeTypeOK'
    BY <1>8 DEF Register, TypeOK, LifeTypeOK
  <2>3. WorkTypeOK'
    BY <1>8 DEF Register, TypeOK, WorkTypeOK, WorkerPC
  <2> QED BY <2>1, <2>2, <2>3 DEF TypeOK
<1>9. ASSUME NEW r \in Runs, RefuseStart(r) PROVE TypeOK'
  <2>1. ChanTypeOK' /\ ReqTypeOK' /\ FileTypeOK' /\ FlusherTypeOK' /\ CloserTypeOK' /\ ProducerTypeOK'
    BY <1>9, TypeFrame DEF RefuseStart
  <2>2. LifeTypeOK'
    BY <1>9 DEF RefuseStart, TypeOK, LifeTypeOK
  <2>3. WorkTypeOK'
    BY <1>9 DEF RefuseStart, TypeOK, WorkTypeOK, WorkerPC
  <2> QED BY <2>1, <2>2, <2>3 DEF TypeOK
<1>10. ASSUME NEW r \in Runs, SweepMore(r) PROVE TypeOK'
  <2>1. ReqTypeOK' /\ LifeTypeOK' /\ FileTypeOK' /\ FlusherTypeOK' /\ CloserTypeOK' /\ ProducerTypeOK'
    BY <1>10, TypeFrame DEF SweepMore, StartBatch
  <2>2. ChanTypeOK'
    BY <1>10 DEF SweepMore, TypeOK, ChanTypeOK, StartBatch, Take
  <2>3. WorkTypeOK'
    BY <1>10 DEF SweepMore, TypeOK, WorkTypeOK, StartBatch, Take, WorkerPC, ChanTypeOK
  <2> QED BY <2>1, <2>2, <2>3 DEF TypeOK
<1>11. ASSUME NEW r \in Runs, SweepEmpty(r) PROVE TypeOK'
  <2>1. ChanTypeOK' /\ ReqTypeOK' /\ LifeTypeOK' /\ FileTypeOK' /\ FlusherTypeOK' /\ CloserTypeOK' /\ ProducerTypeOK'
    BY <1>11, TypeFrame DEF SweepEmpty
  <2>2. WorkTypeOK'
    BY <1>11 DEF SweepEmpty, TypeOK, WorkTypeOK, WorkerPC
  <2> QED BY <2>1, <2>2 DEF TypeOK
<1>12. ASSUME NEW r \in Runs, BatchMore(r) PROVE TypeOK'
  <2>1. ReqTypeOK' /\ LifeTypeOK' /\ FileTypeOK' /\ FlusherTypeOK' /\ CloserTypeOK' /\ ProducerTypeOK'
    BY <1>12, TypeFrame DEF BatchMore
  <2>2. ChanTypeOK'
    BY <1>12 DEF BatchMore, TypeOK, ChanTypeOK, Take, MoreInBatch
  <2>3. WorkTypeOK'
    BY <1>12 DEF BatchMore, TypeOK, WorkTypeOK, Take, MoreInBatch, WorkerPC, ChanTypeOK
  <2> QED BY <2>1, <2>2, <2>3 DEF TypeOK
<1>13. ASSUME NEW r \in Runs, BatchEnd(r) PROVE TypeOK'
  <2>1. ChanTypeOK' /\ ReqTypeOK' /\ LifeTypeOK' /\ FileTypeOK' /\ FlusherTypeOK' /\ CloserTypeOK' /\ ProducerTypeOK'
    BY <1>13, TypeFrame DEF BatchEnd
  <2>2. WorkTypeOK'
    BY <1>13 DEF BatchEnd, TypeOK, WorkTypeOK, Home, WorkerPC
  <2> QED BY <2>1, <2>2 DEF TypeOK
<1>14. ASSUME NEW r \in Runs, WriteOut(r) PROVE TypeOK'
  <2>1. ChanTypeOK' /\ ReqTypeOK' /\ LifeTypeOK' /\ FlusherTypeOK' /\ CloserTypeOK' /\ ProducerTypeOK'
    BY <1>14, TypeFrame DEF WriteOut, HandOver
  <2>2. FileTypeOK'
    BY <1>14, WriteType DEF WriteOut, TypeOK, FileTypeOK, HandOver, WorkTypeOK
  <2>3. WorkTypeOK'
    BY <1>14 DEF WriteOut, TypeOK, WorkTypeOK, HandOver, Home, Emptied, WorkerPC
  <2> QED BY <2>1, <2>2, <2>3 DEF TypeOK
<1>15. ASSUME NEW r \in Runs, LastWrite(r) PROVE TypeOK'
  <2>1. ChanTypeOK' /\ ReqTypeOK' /\ LifeTypeOK' /\ FlusherTypeOK' /\ CloserTypeOK' /\ ProducerTypeOK'
    BY <1>15, TypeFrame DEF LastWrite, HandOver
  <2>2. FileTypeOK'
    BY <1>15, WriteType DEF LastWrite, TypeOK, FileTypeOK, HandOver, WorkTypeOK
  <2>3. WorkTypeOK'
    BY <1>15 DEF LastWrite, TypeOK, WorkTypeOK, HandOver, Emptied, WorkerPC
  <2> QED BY <2>1, <2>2, <2>3 DEF TypeOK
<1>16. ASSUME NEW r \in Runs, Confirm(r) PROVE TypeOK'
  <2>1. ChanTypeOK' /\ LifeTypeOK' /\ FileTypeOK' /\ FlusherTypeOK' /\ CloserTypeOK' /\ ProducerTypeOK'
    BY <1>16, TypeFrame DEF Confirm, Answer
  <2>2. ReqTypeOK'
    BY <1>16 DEF Confirm, Answer, TypeOK, ReqTypeOK, WorkTypeOK
  <2>3. WorkTypeOK'
    BY <1>16 DEF Confirm, Answer, TypeOK, WorkTypeOK, WorkerPC
  <2> QED BY <2>1, <2>2, <2>3 DEF TypeOK
<1>17. ASSUME NEW r \in Runs, Exit(r) PROVE TypeOK'
  <2>1. ChanTypeOK' /\ ReqTypeOK' /\ FileTypeOK' /\ FlusherTypeOK' /\ CloserTypeOK' /\ ProducerTypeOK'
    BY <1>17, TypeFrame DEF Exit
  <2>2. LifeTypeOK'
    BY <1>17 DEF Exit, TypeOK, LifeTypeOK
  <2>3. WorkTypeOK'
    BY <1>17 DEF Exit, TypeOK, WorkTypeOK, WorkerPC
  <2> QED BY <2>1, <2>2, <2>3 DEF TypeOK
<1>18. ASSUME NEW r \in Runs, CloseStopped(r) PROVE TypeOK'
  <2>1. ChanTypeOK' /\ ReqTypeOK' /\ FileTypeOK' /\ FlusherTypeOK' /\ CloserTypeOK' /\ ProducerTypeOK'
    BY <1>18, TypeFrame DEF CloseStopped
  <2>2. LifeTypeOK'
    BY <1>18 DEF CloseStopped, TypeOK, LifeTypeOK
  <2>3. WorkTypeOK'
    BY <1>18 DEF CloseStopped, TypeOK, WorkTypeOK, WorkerPC
  <2> QED BY <2>1, <2>2, <2>3 DEF TypeOK
<1>19. ASSUME NEW r \in Runs, SelectCtxDone(r) PROVE TypeOK'
  <2>1. ChanTypeOK' /\ ReqTypeOK' /\ LifeTypeOK' /\ FileTypeOK' /\ FlusherTypeOK' /\ CloserTypeOK' /\ ProducerTypeOK'
    BY <1>19, TypeFrame DEF SelectCtxDone
  <2>2. WorkTypeOK'
    BY <1>19 DEF SelectCtxDone, TypeOK, WorkTypeOK, DrainFirst, WorkerPC
  <2> QED BY <2>1, <2>2 DEF TypeOK
<1>20. ASSUME NEW r \in Runs, SelectLog(r) PROVE TypeOK'
  <2>1. ReqTypeOK' /\ LifeTypeOK' /\ FileTypeOK' /\ FlusherTypeOK' /\ CloserTypeOK' /\ ProducerTypeOK'
    BY <1>20, TypeFrame DEF SelectLog, StartBatch
  <2>2. ChanTypeOK'
    BY <1>20 DEF SelectLog, TypeOK, ChanTypeOK, StartBatch, Take
  <2>3. WorkTypeOK'
    BY <1>20 DEF SelectLog, TypeOK, WorkTypeOK, StartBatch, Take, WorkerPC, ChanTypeOK
  <2> QED BY <2>1, <2>2, <2>3 DEF TypeOK
<1>21. ASSUME NEW r \in Runs, Tick(r) PROVE TypeOK'
  <2>1. ChanTypeOK' /\ ReqTypeOK' /\ LifeTypeOK' /\ FileTypeOK' /\ FlusherTypeOK' /\ CloserTypeOK' /\ ProducerTypeOK'
    BY <1>21, TypeFrame DEF Tick, TickDue
  <2>2. WorkTypeOK'
    BY <1>21 DEF Tick, TickDue, TypeOK, WorkTypeOK, WorkerPC
  <2> QED BY <2>1, <2>2 DEF TypeOK
<1>22. ASSUME NEW r \in Runs, SelectFlush(r) PROVE TypeOK'
  <2>1. ChanTypeOK' /\ LifeTypeOK' /\ FileTypeOK' /\ FlusherTypeOK' /\ CloserTypeOK' /\ ProducerTypeOK'
    BY <1>22, TypeFrame DEF SelectFlush, RequestReady
  <2>2. ReqTypeOK'
    BY <1>22 DEF SelectFlush, RequestReady, TypeOK, ReqTypeOK
  <2>3. WorkTypeOK'
    BY <1>22 DEF SelectFlush, RequestReady, TypeOK, WorkTypeOK, FlushFirst, WorkerPC, ReqTypeOK
  <2> QED BY <2>1, <2>2, <2>3 DEF TypeOK
<1>23. ASSUME NEW f \in Flushes, FlushCall(f) PROVE TypeOK'
  <2>1. ChanTypeOK' /\ ReqTypeOK' /\ LifeTypeOK' /\ WorkTypeOK' /\ FileTypeOK' /\ CloserTypeOK' /\ ProducerTypeOK'
    BY <1>23, TypeFrame DEF FlushCall
  <2>2. FlusherTypeOK'
    BY <1>23 DEF FlushCall, TypeOK, FlusherTypeOK, ChanTypeOK
  <2> QED BY <2>1, <2>2 DEF TypeOK
<1>24. ASSUME NEW f \in Flushes, FlushLock(f) PROVE TypeOK'
  <2>1. ChanTypeOK' /\ ReqTypeOK' /\ LifeTypeOK' /\ WorkTypeOK' /\ FileTypeOK' /\ CloserTypeOK' /\ ProducerTypeOK'
    BY <1>24, TypeFrame DEF FlushLock
  <2>2. FlusherTypeOK'
    BY <1>24 DEF FlushLock, TypeOK, FlusherTypeOK
  <2> QED BY <2>1, <2>2 DEF TypeOK
<1>25. ASSUME NEW f \in Flushes, FlushSend(f) PROVE TypeOK'
  <2>1. ChanTypeOK' /\ LifeTypeOK' /\ WorkTypeOK' /\ FileTypeOK' /\ CloserTypeOK' /\ ProducerTypeOK'
    BY <1>25, TypeFrame DEF FlushSend
  <2>2. ReqTypeOK'
    BY <1>25 DEF FlushSend, TypeOK, ReqTypeOK
  <2>3. FlusherTypeOK'
    BY <1>25 DEF FlushSend, TypeOK, FlusherTypeOK
  <2> QED BY <2>1, <2>2, <2>3 DEF TypeOK
<1>26. ASSUME NEW f \in Flushes, FlushDone(f) PROVE TypeOK'
  <2>1. ChanTypeOK' /\ ReqTypeOK' /\ LifeTypeOK' /\ WorkTypeOK' /\ FileTypeOK' /\ CloserTypeOK' /\ ProducerTypeOK'
    BY <1>26, TypeFrame DEF FlushDone
  <2>2. FlusherTypeOK'
    BY <1>26 DEF FlushDone, TypeOK, FlusherTypeOK
  <2> QED BY <2>1, <2>2 DEF TypeOK
<1>27. ASSUME NEW f \in Flushes, FlushTimeout(f) PROVE TypeOK'
  <2>1. ChanTypeOK' /\ ReqTypeOK' /\ LifeTypeOK' /\ WorkTypeOK' /\ FileTypeOK' /\ CloserTypeOK' /\ ProducerTypeOK'
    BY <1>27, TypeFrame DEF FlushTimeout, GiveUp
  <2>2. FlusherTypeOK'
    BY <1>27 DEF FlushTimeout, GiveUp, TypeOK, FlusherTypeOK
  <2> QED BY <2>1, <2>2 DEF TypeOK
<1>28. ASSUME NEW c \in Closes, CloseCall(c) PROVE TypeOK'
  <2>1. ChanTypeOK' /\ ReqTypeOK' /\ LifeTypeOK' /\ WorkTypeOK' /\ FileTypeOK' /\ FlusherTypeOK' /\ ProducerTypeOK'
    BY <1>28, TypeFrame DEF CloseCall, lifeVars
  <2>2. CloserTypeOK'
    <3>1. Len(accepted) \in Nat
      BY DEF TypeOK, ChanTypeOK
    <3>2. CASE closed
      BY <1>28, <3>2 DEF CloseCall, TypeOK, CloserTypeOK
    <3>3. CASE ~closed
      BY <1>28, <3>1, <3>3 DEF CloseCall, TypeOK, CloserTypeOK
    <3> QED BY <3>2, <3>3
  <2> QED BY <2>1, <2>2 DEF TypeOK
<1>29. ASSUME NEW c \in Closes, StopWorker(c) PROVE TypeOK'
  <2>1. ChanTypeOK' /\ ReqTypeOK' /\ WorkTypeOK' /\ FileTypeOK' /\ FlusherTypeOK' /\ ProducerTypeOK'
    BY <1>29, TypeFrame DEF StopWorker, NothingToStop
  <2>2. LifeTypeOK'
    BY <1>29 DEF StopWorker, NothingToStop, TypeOK, LifeTypeOK
  <2>3. CloserTypeOK'
    <3>1. served' \in BOOLEAN
      BY <1>29 DEF StopWorker, NothingToStop, TypeOK, CloserTypeOK, Serving
    <3>2. CASE cur = NoRun
      BY <1>29, <3>1, <3>2 DEF StopWorker, NothingToStop, TypeOK, CloserTypeOK, LifeTypeOK
    <3>3. CASE cur # NoRun
      BY <1>29, <3>1, <3>3 DEF StopWorker, NothingToStop, TypeOK, CloserTypeOK, LifeTypeOK
    <3> QED BY <3>2, <3>3
  <2> QED BY <2>1, <2>2, <2>3 DEF TypeOK
<1>30. ASSUME NEW c \in Closes, CloseAwait(c) PROVE TypeOK'
  <2>1. ChanTypeOK' /\ ReqTypeOK' /\ LifeTypeOK' /\ WorkTypeOK' /\ FileTypeOK' /\ FlusherTypeOK' /\ ProducerTypeOK'
    BY <1>30, TypeFrame DEF CloseAwait, lifeVars
  <2>2. CloserTypeOK'
    BY <1>30 DEF CloseAwait, TypeOK, CloserTypeOK
  <2> QED BY <2>1, <2>2 DEF TypeOK
<1>31. ASSUME NEW c \in Closes, CloseTimeout(c) PROVE TypeOK'
  <2>1. ChanTypeOK' /\ ReqTypeOK' /\ LifeTypeOK' /\ WorkTypeOK' /\ FileTypeOK' /\ FlusherTypeOK' /\ ProducerTypeOK'
    BY <1>31, TypeFrame DEF CloseTimeout, lifeVars
  <2>2. CloserTypeOK'
    BY <1>31 DEF CloseTimeout, TypeOK, CloserTypeOK
  <2> QED BY <2>1, <2>2 DEF TypeOK
<1>32. ASSUME NEW c \in Closes, CloseFile(c) PROVE TypeOK'
  <2>1. ChanTypeOK' /\ ReqTypeOK' /\ LifeTypeOK' /\ WorkTypeOK' /\ FlusherTypeOK' /\ ProducerTypeOK'
    BY <1>32, TypeFrame DEF CloseFile, lifeVars
  <2>2. FileTypeOK'
    <3>1. InWrite \cup {<<>>} \subseteq Seq(Entry)
      <4>1. \A s \in Runs : buf[s] \in Seq(Entry)
        BY DEF TypeOK, WorkTypeOK
      <4>2. <<>> \in Seq(Entry)
        OBVIOUS
      <4>3. \A b \in InWrite : b \in Seq(Entry)
        BY <4>1 DEF InWrite
      <4> QED BY <4>2, <4>3
    <3>2. CASE wErr
      BY <1>32, <3>2 DEF CloseFile, TypeOK, FileTypeOK
    <3>3. CASE ~wErr
      <4>1. PICK b \in InWrite \cup {<<>>} : \E i, j \in 0..Len(b) :
              out' = out \o SubSeq(b, 1, i) \o SubSeq(b, 1, j)
        BY <1>32, <3>3 DEF CloseFile
      <4>2. PICK i \in 0..Len(b), j \in 0..Len(b) :
              out' = (out \o SubSeq(b, 1, i)) \o SubSeq(b, 1, j)
        BY <4>1
      <4>3. b \in Seq(Entry) /\ out \in Seq(Entry)
        BY <3>1 DEF TypeOK, FileTypeOK
      <4>4. SubSeq(b, 1, i) \in Seq(Entry) /\ SubSeq(b, 1, j) \in Seq(Entry)
        BY <4>3
      <4>5. out \o SubSeq(b, 1, i) \in Seq(Entry)
        BY <4>3, <4>4
      <4>6. out' \in Seq(Entry)
        BY <4>2, <4>4, <4>5
      <4> QED BY <1>32, <4>6 DEF CloseFile, TypeOK, FileTypeOK
    <3> QED BY <3>2, <3>3
  <2>3. CloserTypeOK'
    BY <1>32 DEF CloseFile, TypeOK, CloserTypeOK
  <2> QED BY <2>1, <2>2, <2>3 DEF TypeOK
<1>33. CASE UNCHANGED vars
  BY <1>33, TypeFrame DEF vars, TypeOK
<1> QED
  BY <1>1, <1>2, <1>3, <1>4, <1>5, <1>6, <1>7, <1>8, <1>9, <1>10, <1>11, <1>12, <1>13, <1>14, <1>15, <1>16, <1>17, <1>18, <1>19, <1>20, <1>21, <1>22, <1>23, <1>24, <1>25, <1>26, <1>27, <1>28, <1>29, <1>30, <1>31, <1>32, <1>33
  DEF Next, Produce, WorkerStep, Select, Flush, Close

\* Every variable keeps its type; in particular logCh never holds more than
\* ChannelSize entries and flushCh never more than one request.
THEOREM TypeCorrect == Spec => []TypeOK
<1>1. Init => TypeOK
  <2> SUFFICES ASSUME Init PROVE TypeOK
    OBVIOUS
  <2> USE SizesAssumption, NamesAssumption
  <2>1. ChanTypeOK
    BY DEF Init, ChanTypeOK
  <2>2. ReqTypeOK
    BY DEF Init, ReqTypeOK
  <2>3. LifeTypeOK
    BY DEF Init, LifeTypeOK
  <2>4. WorkTypeOK
    BY DEF Init, WorkTypeOK, WorkerPC
  <2>5. FileTypeOK
    <3>1. taken = <<>> /\ out = <<>> /\ file = "open" /\ wErr = FALSE
      BY DEF Init
    <3>2. <<>> \in Seq(Entry)
      OBVIOUS
    <3> QED BY <3>1, <3>2 DEF FileTypeOK
  <2>6. FlusherTypeOK
    BY DEF Init, FlusherTypeOK
  <2>7. CloserTypeOK
    BY DEF Init, CloserTypeOK
  <2>8. ProducerTypeOK
    BY DEF Init, ProducerTypeOK, Levels
  <2> QED BY <2>1, <2>2, <2>3, <2>4, <2>5, <2>6, <2>7, <2>8 DEF TypeOK
<1> QED BY <1>1, TypeStep, PTL DEF Spec
-----------------------------------------------------------------------------
(* At most one worker. *)

\* SingleWorker is inductive once the buffer of an exiting run is known to
\* have been written.
WorkerInv == /\ SingleWorker
             /\ \A r \in Runs : wpc[r] = "exit" => buf[r] = <<>>

\* Steps that touch neither the run of the worker nor its buffer.
LEMMA WorkerFrame ==
  ASSUME WorkerInv, UNCHANGED <<running, cur, workVars>>
  PROVE  WorkerInv'
BY DEF WorkerInv, SingleWorker, Active, workVars

\* Every step keeps WorkerInv: only Register makes a run active, and only when
\* running is false.
LEMMA WorkerStepInv == TypeOK /\ WorkerInv /\ [Next]_vars => WorkerInv'
<1> SUFFICES ASSUME TypeOK, WorkerInv, [Next]_vars PROVE WorkerInv'
  OBVIOUS
<1>1. ASSUME NEW p \in Producers, Log(p) PROVE WorkerInv'
  BY <1>1, WorkerFrame DEF Log, lifeVars
<1>2. ASSUME NEW p \in Producers, BlockedSend(p) PROVE WorkerInv'
  BY <1>2, WorkerFrame DEF BlockedSend, lifeVars
<1>3. ASSUME NEW p \in Producers, BlockTimeout(p) PROVE WorkerInv'
  BY <1>3, WorkerFrame DEF BlockTimeout, AfterBlock, lifeVars
<1>4. ASSUME NEW p \in Producers, Drop(p) PROVE WorkerInv'
  BY <1>4, WorkerFrame DEF Drop, lifeVars
<1>5. ASSUME NEW p \in Producers, CountLevel(p) PROVE WorkerInv'
  BY <1>5, WorkerFrame DEF CountLevel, CountedAt, lifeVars
<1>6. ASSUME NEW r \in Runs, StartCall(r) PROVE WorkerInv'
  BY <1>6 DEF StartCall, WorkerInv, SingleWorker, Active, WorkTypeOK, TypeOK, lifeVars
<1>7. ASSUME NEW r \in Runs, CancelCtx(r) PROVE WorkerInv'
  BY <1>7, WorkerFrame DEF CancelCtx
<1>8. ASSUME NEW r \in Runs, Register(r) PROVE WorkerInv'
  BY <1>8 DEF Register, CanRegister, WorkerInv, SingleWorker, Active, WorkTypeOK, TypeOK, lifeVars
<1>9. ASSUME NEW r \in Runs, RefuseStart(r) PROVE WorkerInv'
  BY <1>9 DEF RefuseStart, CanRegister, WorkerInv, SingleWorker, Active, WorkTypeOK, TypeOK, lifeVars
<1>10. ASSUME NEW r \in Runs, SweepMore(r) PROVE WorkerInv'
  BY <1>10 DEF SweepMore, StartBatch, Take, WorkerInv, SingleWorker, Active, WorkTypeOK, TypeOK, lifeVars
<1>11. ASSUME NEW r \in Runs, SweepEmpty(r) PROVE WorkerInv'
  BY <1>11 DEF SweepEmpty, WorkerInv, SingleWorker, Active, WorkTypeOK, TypeOK, lifeVars
<1>12. ASSUME NEW r \in Runs, BatchMore(r) PROVE WorkerInv'
  BY <1>12 DEF BatchMore, Take, WorkerInv, SingleWorker, Active, WorkTypeOK, TypeOK, lifeVars
<1>13. ASSUME NEW r \in Runs, BatchEnd(r) PROVE WorkerInv'
  BY <1>13 DEF BatchEnd, Home, WorkerInv, SingleWorker, Active, WorkTypeOK, TypeOK, lifeVars
<1>14. ASSUME NEW r \in Runs, WriteOut(r) PROVE WorkerInv'
  BY <1>14 DEF WriteOut, HandOver, Home, Emptied, WorkerInv, SingleWorker, Active, WorkTypeOK, TypeOK, lifeVars
<1>15. ASSUME NEW r \in Runs, LastWrite(r) PROVE WorkerInv'
  BY <1>15 DEF LastWrite, HandOver, Emptied, WorkerInv, SingleWorker, Active, WorkTypeOK, TypeOK, lifeVars
<1>16. ASSUME NEW r \in Runs, Confirm(r) PROVE WorkerInv'
  BY <1>16 DEF Confirm, Answer, WorkerInv, SingleWorker, Active, WorkTypeOK, TypeOK, lifeVars
<1>17. ASSUME NEW r \in Runs, Exit(r) PROVE WorkerInv'
  BY <1>17 DEF Exit, WorkerInv, SingleWorker, Active, WorkTypeOK, TypeOK, lifeVars
<1>18. ASSUME NEW r \in Runs, CloseStopped(r) PROVE WorkerInv'
  BY <1>18 DEF CloseStopped, WorkerInv, SingleWorker, Active, WorkTypeOK, TypeOK, lifeVars
<1>19. ASSUME NEW r \in Runs, SelectCtxDone(r) PROVE WorkerInv'
  BY <1>19 DEF SelectCtxDone, DrainFirst, WorkerInv, SingleWorker, Active, WorkTypeOK, TypeOK, lifeVars
<1>20. ASSUME NEW r \in Runs, SelectLog(r) PROVE WorkerInv'
  BY <1>20 DEF SelectLog, StartBatch, Take, WorkerInv, SingleWorker, Active, WorkTypeOK, TypeOK, lifeVars
<1>21. ASSUME NEW r \in Runs, Tick(r) PROVE WorkerInv'
  BY <1>21 DEF Tick, TickDue, WorkerInv, SingleWorker, Active, WorkTypeOK, TypeOK, lifeVars
<1>22. ASSUME NEW r \in Runs, SelectFlush(r) PROVE WorkerInv'
  BY <1>22 DEF SelectFlush, RequestReady, FlushFirst, WorkerInv, SingleWorker, Active, WorkTypeOK, TypeOK, lifeVars
<1>23. ASSUME NEW f \in Flushes, FlushCall(f) PROVE WorkerInv'
  BY <1>23, WorkerFrame DEF FlushCall, lifeVars
<1>24. ASSUME NEW f \in Flushes, FlushLock(f) PROVE WorkerInv'
  BY <1>24, WorkerFrame DEF FlushLock, lifeVars
<1>25. ASSUME NEW f \in Flushes, FlushSend(f) PROVE WorkerInv'
  BY <1>25, WorkerFrame DEF FlushSend, lifeVars
<1>26. ASSUME NEW f \in Flushes, FlushDone(f) PROVE WorkerInv'
  BY <1>26, WorkerFrame DEF FlushDone, lifeVars
<1>27. ASSUME NEW f \in Flushes, FlushTimeout(f) PROVE WorkerInv'
  BY <1>27, WorkerFrame DEF FlushTimeout, GiveUp, lifeVars
<1>28. ASSUME NEW c \in Closes, CloseCall(c) PROVE WorkerInv'
  BY <1>28, WorkerFrame DEF CloseCall, lifeVars
<1>29. ASSUME NEW c \in Closes, StopWorker(c) PROVE WorkerInv'
  BY <1>29, WorkerFrame DEF StopWorker, NothingToStop
<1>30. ASSUME NEW c \in Closes, CloseAwait(c) PROVE WorkerInv'
  BY <1>30, WorkerFrame DEF CloseAwait, lifeVars
<1>31. ASSUME NEW c \in Closes, CloseTimeout(c) PROVE WorkerInv'
  BY <1>31, WorkerFrame DEF CloseTimeout, lifeVars
<1>32. ASSUME NEW c \in Closes, CloseFile(c) PROVE WorkerInv'
  BY <1>32, WorkerFrame DEF CloseFile, lifeVars
<1>33. CASE UNCHANGED vars
  BY <1>33, WorkerFrame DEF vars, lifeVars
<1> QED
  BY <1>1, <1>2, <1>3, <1>4, <1>5, <1>6, <1>7, <1>8, <1>9, <1>10, <1>11, <1>12, <1>13, <1>14, <1>15, <1>16, <1>17, <1>18, <1>19, <1>20, <1>21, <1>22, <1>23, <1>24, <1>25, <1>26, <1>27, <1>28, <1>29, <1>30, <1>31, <1>32, <1>33
  DEF Next, Produce, WorkerStep, Select, Flush, Close

\* However Start, StartBackground, cancellation and Close interleave, at most
\* one run is the worker (the CompareAndSwap of runWorker), and no other run
\* holds entries.
THEOREM OneWorker == Spec => []SingleWorker
<1>1. Init => WorkerInv
  BY DEF Init, WorkerInv, SingleWorker, Active
<1>2. WorkerInv => SingleWorker
  BY DEF WorkerInv
<1> QED BY <1>1, <1>2, WorkerStepInv, TypeCorrect, PTL DEF Spec
-----------------------------------------------------------------------------
(* The queue: accepted, held by the worker, handed to the writer. *)

\* Steps that move no entry.
LEMMA QueueFrame ==
  ASSUME NothingLost, UNCHANGED <<logCh, accepted, taken, cur, buf>>
  PROVE  NothingLost'
BY DEF NothingLost, Held

\* What the worker holds is a sequence of entries.
LEMMA HeldType == TypeOK => Held \in Seq(Entry)
BY DEF TypeOK, LifeTypeOK, WorkTypeOK, Held

\* A sent entry joins the queue and the history at their ends.
LEMMA QueueSend ==
  ASSUME TypeOK, NothingLost, NEW e \in Entry, Send(e),
         UNCHANGED <<fileVars, lifeVars, workVars>>
  PROVE  NothingLost'
<1> DEFINE front == taken \o Held
<1>1. front \in Seq(Entry) /\ logCh \in Seq(Entry)
  BY HeldType DEF TypeOK, ChanTypeOK, FileTypeOK
<1> HIDE DEF front
<1>2. Append(front \o logCh, e) = front \o Append(logCh, e)
  BY <1>1
<1>3. taken' \o Held' = front
  BY DEF front, Held, fileVars, lifeVars, workVars
<1> QED BY <1>2, <1>3 DEF NothingLost, Send, front

\* What a producer sends is an entry.
LEMMA EntryOfLog ==
  ASSUME TypeOK, NEW p \in Producers
  PROVE  /\ Log(p) => <<p, sent[p] + 1>> \in Entry
         /\ BlockedSend(p) => <<p, sent[p]>> \in Entry
<1>1. Log(p) => <<p, sent[p] + 1>> \in Entry
  BY SizesAssumption DEF Log, TypeOK, ProducerTypeOK, Entry
<1>2. BlockedSend(p) => <<p, sent[p]>> \in Entry
  BY SizesAssumption DEF BlockedSend, TypeOK, ProducerTypeOK, Entry
<1> QED BY <1>1, <1>2

\* The worker's receive moves the first queued entry to the end of its buffer.
LEMMA QueueTake ==
  ASSUME TypeOK, WorkerInv, NothingLost, NEW r \in Runs, Active(r), Take(r),
         UNCHANGED <<fileVars, lifeVars>>
  PROVE  NothingLost'
<1>1. cur = r /\ r # NoRun
  BY NamesAssumption DEF WorkerInv, SingleWorker
<1>2. Held = buf[r] /\ Held' = Append(buf[r], Head(logCh))
  BY <1>1 DEF Held, Take, lifeVars, TypeOK, WorkTypeOK
<1>3. taken \in Seq(Entry) /\ buf[r] \in Seq(Entry) /\ logCh \in Seq(Entry) /\ logCh # <<>>
  BY DEF TypeOK, FileTypeOK, WorkTypeOK, ChanTypeOK, Take
<1>4. (taken \o buf[r]) \o logCh = (taken \o Append(buf[r], Head(logCh))) \o Tail(logCh)
  <2> DEFINE e == Head(logCh) t == Tail(logCh) b == buf[r]
  <2>1. e \in Entry /\ t \in Seq(Entry) /\ logCh = <<e>> \o t
    BY <1>3
  <2>2. Append(b, e) = b \o <<e>>
    BY <1>3, <2>1
  <2>5. <<e>> \in Seq(Entry) /\ taken \o b \in Seq(Entry) /\ b \in Seq(Entry)
    BY <1>3, <2>1
  <2> HIDE DEF e, t, b
  <2>3. ((taken \o b) \o <<e>>) \o t = (taken \o b) \o (<<e>> \o t)
    BY <2>1, <2>5, ConcatAssociative
  <2>4. (taken \o b) \o <<e>> = taken \o (b \o <<e>>)
    BY <1>3, <2>5, ConcatAssociative
  <2> QED BY <2>1, <2>2, <2>3, <2>4 DEF e, t, b
<1> QED BY <1>2, <1>4 DEF NothingLost, Take, fileVars

\* writeOut moves the whole buffer to the end of what the writer was handed.
LEMMA QueueHandOver ==
  ASSUME TypeOK, WorkerInv, NothingLost, NEW r \in Runs, Active(r), HandOver(r),
         UNCHANGED <<chanVars, lifeVars>>
  PROVE  NothingLost'
<1>1. cur = r /\ r # NoRun
  BY NamesAssumption DEF WorkerInv, SingleWorker
<1>2. Held = buf[r] /\ Held' = <<>>
  BY <1>1 DEF Held, HandOver, Emptied, lifeVars, TypeOK, WorkTypeOK
<1>3. taken' = taken \o buf[r] /\ taken' \in Seq(Entry)
  BY DEF HandOver, TypeOK, FileTypeOK, WorkTypeOK
<1>4. taken' \o <<>> = taken'
  BY <1>3
<1> QED BY <1>2, <1>3, <1>4 DEF NothingLost, chanVars

\* Every step keeps the queue: an entry is sent, taken, written, or left alone.
LEMMA QueueStep ==
  TypeOK /\ WorkerInv /\ NothingLost /\ [Next]_vars => NothingLost'
<1> SUFFICES ASSUME TypeOK, WorkerInv, NothingLost, [Next]_vars PROVE NothingLost'
  OBVIOUS
<1>1. ASSUME NEW p \in Producers, Log(p) PROVE NothingLost'
  <2>1. CASE HasSpace
    BY <1>1, <2>1, QueueSend, EntryOfLog DEF Log
  <2>2. CASE ~HasSpace
    BY <1>1, <2>2, QueueFrame DEF Log, chanVars, fileVars, lifeVars, workVars
  <2> QED BY <2>1, <2>2
<1>2. ASSUME NEW p \in Producers, BlockedSend(p) PROVE NothingLost'
  BY <1>2, QueueSend, EntryOfLog DEF BlockedSend
<1>3. ASSUME NEW p \in Producers, BlockTimeout(p) PROVE NothingLost'
  BY <1>3, QueueFrame DEF BlockTimeout, AfterBlock, chanVars, fileVars, lifeVars, workVars
<1>4. ASSUME NEW p \in Producers, Drop(p) PROVE NothingLost'
  BY <1>4, QueueFrame DEF Drop, chanVars, fileVars, lifeVars, workVars
<1>5. ASSUME NEW p \in Producers, CountLevel(p) PROVE NothingLost'
  BY <1>5, QueueFrame DEF CountLevel, CountedAt, chanVars, fileVars, lifeVars, workVars
<1>6. ASSUME NEW r \in Runs, StartCall(r) PROVE NothingLost'
  BY <1>6, QueueFrame DEF StartCall, chanVars, fileVars, lifeVars, workVars
<1>7. ASSUME NEW r \in Runs, CancelCtx(r) PROVE NothingLost'
  BY <1>7, QueueFrame DEF CancelCtx, chanVars, fileVars, lifeVars, workVars
<1>8. ASSUME NEW r \in Runs, Register(r) PROVE NothingLost'
  <2>1. Held = <<>>
    BY <1>8 DEF Register, CanRegister, Held, WorkerInv, SingleWorker, TypeOK, LifeTypeOK
  <2>2. buf[r] = <<>> /\ r # NoRun
    BY <1>8, NamesAssumption DEF Register, CanRegister, WorkerInv, SingleWorker
  <2>3. Held' = <<>>
    BY <1>8, <2>2 DEF Register, Held
  <2> QED BY <1>8, <2>1, <2>3 DEF Register, NothingLost, chanVars, fileVars
<1>9. ASSUME NEW r \in Runs, RefuseStart(r) PROVE NothingLost'
  BY <1>9, QueueFrame DEF RefuseStart, chanVars, fileVars, lifeVars, workVars
<1>10. ASSUME NEW r \in Runs, SweepMore(r) PROVE NothingLost'
  BY <1>10, QueueTake DEF SweepMore, StartBatch, Active, lifeVars, fileVars
<1>11. ASSUME NEW r \in Runs, SweepEmpty(r) PROVE NothingLost'
  BY <1>11, QueueFrame DEF SweepEmpty, chanVars, fileVars, lifeVars, workVars
<1>12. ASSUME NEW r \in Runs, BatchMore(r) PROVE NothingLost'
  BY <1>12, QueueTake DEF BatchMore, Active, lifeVars, fileVars
<1>13. ASSUME NEW r \in Runs, BatchEnd(r) PROVE NothingLost'
  BY <1>13, QueueFrame DEF BatchEnd, chanVars, fileVars, lifeVars, workVars
<1>14. ASSUME NEW r \in Runs, WriteOut(r) PROVE NothingLost'
  BY <1>14, QueueHandOver DEF WriteOut, HandOver, Active, lifeVars, chanVars
<1>15. ASSUME NEW r \in Runs, LastWrite(r) PROVE NothingLost'
  BY <1>15, QueueHandOver DEF LastWrite, HandOver, Active, lifeVars, chanVars
<1>16. ASSUME NEW r \in Runs, Confirm(r) PROVE NothingLost'
  BY <1>16, QueueFrame DEF Confirm, Answer, chanVars, fileVars, lifeVars, workVars
<1>17. ASSUME NEW r \in Runs, Exit(r) PROVE NothingLost'
  BY <1>17, QueueFrame DEF Exit, chanVars, fileVars, lifeVars, workVars
<1>18. ASSUME NEW r \in Runs, CloseStopped(r) PROVE NothingLost'
  BY <1>18, QueueFrame DEF CloseStopped, chanVars, fileVars, lifeVars, workVars
<1>19. ASSUME NEW r \in Runs, SelectCtxDone(r) PROVE NothingLost'
  BY <1>19, QueueFrame DEF SelectCtxDone, chanVars, fileVars, lifeVars, workVars
<1>20. ASSUME NEW r \in Runs, SelectLog(r) PROVE NothingLost'
  BY <1>20, QueueTake DEF SelectLog, StartBatch, Active, lifeVars, fileVars
<1>21. ASSUME NEW r \in Runs, Tick(r) PROVE NothingLost'
  BY <1>21, QueueFrame DEF Tick, TickDue, chanVars, fileVars, lifeVars, workVars
<1>22. ASSUME NEW r \in Runs, SelectFlush(r) PROVE NothingLost'
  BY <1>22, QueueFrame DEF SelectFlush, RequestReady, chanVars, fileVars, lifeVars, workVars
<1>23. ASSUME NEW f \in Flushes, FlushCall(f) PROVE NothingLost'
  BY <1>23, QueueFrame DEF FlushCall, chanVars, fileVars, lifeVars, workVars
<1>24. ASSUME NEW f \in Flushes, FlushLock(f) PROVE NothingLost'
  BY <1>24, QueueFrame DEF FlushLock, chanVars, fileVars, lifeVars, workVars
<1>25. ASSUME NEW f \in Flushes, FlushSend(f) PROVE NothingLost'
  BY <1>25, QueueFrame DEF FlushSend, chanVars, fileVars, lifeVars, workVars
<1>26. ASSUME NEW f \in Flushes, FlushDone(f) PROVE NothingLost'
  BY <1>26, QueueFrame DEF FlushDone, chanVars, fileVars, lifeVars, workVars
<1>27. ASSUME NEW f \in Flushes, FlushTimeout(f) PROVE NothingLost'
  BY <1>27, QueueFrame DEF FlushTimeout, GiveUp, chanVars, fileVars, lifeVars, workVars
<1>28. ASSUME NEW c \in Closes, CloseCall(c) PROVE NothingLost'
  BY <1>28, QueueFrame DEF CloseCall, chanVars, fileVars, lifeVars, workVars
<1>29. ASSUME NEW c \in Closes, StopWorker(c) PROVE NothingLost'
  BY <1>29, QueueFrame DEF StopWorker, NothingToStop, chanVars, fileVars, lifeVars, workVars
<1>30. ASSUME NEW c \in Closes, CloseAwait(c) PROVE NothingLost'
  BY <1>30, QueueFrame DEF CloseAwait, chanVars, fileVars, lifeVars, workVars
<1>31. ASSUME NEW c \in Closes, CloseTimeout(c) PROVE NothingLost'
  BY <1>31, QueueFrame DEF CloseTimeout, chanVars, fileVars, lifeVars, workVars
<1>32. ASSUME NEW c \in Closes, CloseFile(c) PROVE NothingLost'
  BY <1>32, QueueFrame DEF CloseFile, chanVars, fileVars, lifeVars, workVars
<1>33. CASE UNCHANGED vars
  BY <1>33, QueueFrame DEF vars, chanVars, fileVars, lifeVars, workVars
<1> QED
  BY <1>1, <1>2, <1>3, <1>4, <1>5, <1>6, <1>7, <1>8, <1>9, <1>10, <1>11, <1>12, <1>13, <1>14, <1>15, <1>16, <1>17, <1>18, <1>19, <1>20, <1>21, <1>22, <1>23, <1>24, <1>25, <1>26, <1>27, <1>28, <1>29, <1>30, <1>31, <1>32, <1>33
  DEF Next, Produce, WorkerStep, Select, Flush, Close

\* No interleaving of producers, batches, sweeps, restarts and shutdowns loses,
\* repeats or reorders an accepted entry on its way to the writer.
THEOREM QueueKept == Spec => []NothingLost
<1>1. Init => WorkerInv /\ NothingLost
  BY DEF Init, WorkerInv, SingleWorker, Active, NothingLost, Held
<1>2. TypeOK /\ WorkerInv /\ NothingLost /\ [Next]_vars => (WorkerInv /\ NothingLost)'
  BY WorkerStepInv, QueueStep
<1> QED BY <1>1, <1>2, TypeCorrect, PTL DEF Spec
-----------------------------------------------------------------------------
(* Which select case a run can be serving at each point. *)

ModeInv ==
  \A r \in Runs :
    /\ wpc[r] \in {"off", "called", "refused", "select"} => mode[r] = "loop"
    /\ wpc[r] \in {"sweep", "lastwrite"} => mode[r] # "loop"
    /\ wpc[r] = "confirm" => mode[r] = "flush"
    /\ wpc[r] \in {"exit", "closing", "finished"} => mode[r] = "drain"

\* Steps that leave the worker where it is.
LEMMA ModeFrame ==
  ASSUME ModeInv, UNCHANGED <<wpc, mode>>
  PROVE  ModeInv'
BY DEF ModeInv

\* Every step keeps ModeInv.
LEMMA ModeStep == TypeOK /\ ModeInv /\ [Next]_vars => ModeInv'
<1> SUFFICES ASSUME TypeOK, ModeInv, [Next]_vars PROVE ModeInv'
  OBVIOUS
<1>1. ASSUME NEW p \in Producers, Log(p) PROVE ModeInv'
  BY <1>1, ModeFrame DEF Log, workVars
<1>2. ASSUME NEW p \in Producers, BlockedSend(p) PROVE ModeInv'
  BY <1>2, ModeFrame DEF BlockedSend, workVars
<1>3. ASSUME NEW p \in Producers, BlockTimeout(p) PROVE ModeInv'
  BY <1>3, ModeFrame DEF BlockTimeout, AfterBlock, workVars
<1>4. ASSUME NEW p \in Producers, Drop(p) PROVE ModeInv'
  BY <1>4, ModeFrame DEF Drop, workVars
<1>5. ASSUME NEW p \in Producers, CountLevel(p) PROVE ModeInv'
  BY <1>5, ModeFrame DEF CountLevel, CountedAt, workVars
<1>6. ASSUME NEW r \in Runs, StartCall(r) PROVE ModeInv'
  BY <1>6 DEF StartCall, ModeInv, WorkTypeOK, TypeOK
<1>7. ASSUME NEW r \in Runs, CancelCtx(r) PROVE ModeInv'
  BY <1>7, ModeFrame DEF CancelCtx, workVars
<1>8. ASSUME NEW r \in Runs, Register(r) PROVE ModeInv'
  BY <1>8 DEF Register, ModeInv, WorkTypeOK, TypeOK
<1>9. ASSUME NEW r \in Runs, RefuseStart(r) PROVE ModeInv'
  BY <1>9 DEF RefuseStart, ModeInv, WorkTypeOK, TypeOK
<1>10. ASSUME NEW r \in Runs, SweepMore(r) PROVE ModeInv'
  BY <1>10 DEF SweepMore, StartBatch, Take, ModeInv, WorkTypeOK, TypeOK
<1>11. ASSUME NEW r \in Runs, SweepEmpty(r) PROVE ModeInv'
  BY <1>11 DEF SweepEmpty, ModeInv, WorkTypeOK, TypeOK
<1>12. ASSUME NEW r \in Runs, BatchMore(r) PROVE ModeInv'
  BY <1>12 DEF BatchMore, Take, ModeInv, WorkTypeOK, TypeOK
<1>13. ASSUME NEW r \in Runs, BatchEnd(r) PROVE ModeInv'
  BY <1>13 DEF BatchEnd, Home, ModeInv, WorkTypeOK, TypeOK
<1>14. ASSUME NEW r \in Runs, WriteOut(r) PROVE ModeInv'
  BY <1>14 DEF WriteOut, HandOver, Home, ModeInv, WorkTypeOK, TypeOK
<1>15. ASSUME NEW r \in Runs, LastWrite(r) PROVE ModeInv'
  BY <1>15 DEF LastWrite, HandOver, ModeInv, WorkTypeOK, TypeOK
<1>16. ASSUME NEW r \in Runs, Confirm(r) PROVE ModeInv'
  BY <1>16 DEF Confirm, Answer, ModeInv, WorkTypeOK, TypeOK
<1>17. ASSUME NEW r \in Runs, Exit(r) PROVE ModeInv'
  BY <1>17 DEF Exit, ModeInv, WorkTypeOK, TypeOK
<1>18. ASSUME NEW r \in Runs, CloseStopped(r) PROVE ModeInv'
  BY <1>18 DEF CloseStopped, ModeInv, WorkTypeOK, TypeOK
<1>19. ASSUME NEW r \in Runs, SelectCtxDone(r) PROVE ModeInv'
  BY <1>19 DEF SelectCtxDone, DrainFirst, ModeInv, WorkTypeOK, TypeOK
<1>20. ASSUME NEW r \in Runs, SelectLog(r) PROVE ModeInv'
  BY <1>20 DEF SelectLog, StartBatch, Take, ModeInv, WorkTypeOK, TypeOK
<1>21. ASSUME NEW r \in Runs, Tick(r) PROVE ModeInv'
  BY <1>21 DEF Tick, TickDue, ModeInv, WorkTypeOK, TypeOK
<1>22. ASSUME NEW r \in Runs, SelectFlush(r) PROVE ModeInv'
  BY <1>22 DEF SelectFlush, RequestReady, FlushFirst, ModeInv, WorkTypeOK, TypeOK
<1>23. ASSUME NEW f \in Flushes, FlushCall(f) PROVE ModeInv'
  BY <1>23, ModeFrame DEF FlushCall, workVars
<1>24. ASSUME NEW f \in Flushes, FlushLock(f) PROVE ModeInv'
  BY <1>24, ModeFrame DEF FlushLock, workVars
<1>25. ASSUME NEW f \in Flushes, FlushSend(f) PROVE ModeInv'
  BY <1>25, ModeFrame DEF FlushSend, workVars
<1>26. ASSUME NEW f \in Flushes, FlushDone(f) PROVE ModeInv'
  BY <1>26, ModeFrame DEF FlushDone, workVars
<1>27. ASSUME NEW f \in Flushes, FlushTimeout(f) PROVE ModeInv'
  BY <1>27, ModeFrame DEF FlushTimeout, GiveUp, workVars
<1>28. ASSUME NEW c \in Closes, CloseCall(c) PROVE ModeInv'
  BY <1>28, ModeFrame DEF CloseCall, workVars
<1>29. ASSUME NEW c \in Closes, StopWorker(c) PROVE ModeInv'
  BY <1>29, ModeFrame DEF StopWorker, NothingToStop, workVars
<1>30. ASSUME NEW c \in Closes, CloseAwait(c) PROVE ModeInv'
  BY <1>30, ModeFrame DEF CloseAwait, workVars
<1>31. ASSUME NEW c \in Closes, CloseTimeout(c) PROVE ModeInv'
  BY <1>31, ModeFrame DEF CloseTimeout, workVars
<1>32. ASSUME NEW c \in Closes, CloseFile(c) PROVE ModeInv'
  BY <1>32, ModeFrame DEF CloseFile, workVars
<1>33. CASE UNCHANGED vars
  BY <1>33, ModeFrame DEF vars, workVars
<1> QED
  BY <1>1, <1>2, <1>3, <1>4, <1>5, <1>6, <1>7, <1>8, <1>9, <1>10, <1>11, <1>12, <1>13, <1>14, <1>15, <1>16, <1>17, <1>18, <1>19, <1>20, <1>21, <1>22, <1>23, <1>24, <1>25, <1>26, <1>27, <1>28, <1>29, <1>30, <1>31, <1>32, <1>33
  DEF Next, Produce, WorkerStep, Select, Flush, Close

-----------------------------------------------------------------------------
(* Where a Flush request is. *)

\* The program counters of a Flush call after its request was sent.
Sent == {"wait", "ok", "timeout"}

\* A request is in one place at a time: in flushCh, in the worker's hand, or
\* answered.  A run is stopped once.
OnceInv ==
  /\ \A f \in confirmed : f \in Flushes /\ fpc[f] \in Sent
  /\ flushCh # <<>> => Head(flushCh) \notin confirmed /\ fpc[Head(flushCh)] \in Sent
  /\ \A r \in Runs : mode[r] = "flush" =>
       /\ token[r] \in Flushes \ confirmed /\ fpc[token[r]] \in Sent
       /\ flushCh # <<>> => token[r] # Head(flushCh)
  /\ \A r \in stopped : wpc[r] = "finished"

\* Only the worker serves a request.
LEMMA OneRequest ==
  ASSUME TypeOK, WorkerInv, ModeInv,
         NEW r \in Runs, Active(r), NEW s \in Runs, mode[s] = "flush"
  PROVE  s = r
<1>1. Active(s)
  BY DEF ModeInv, Active, TypeOK, WorkTypeOK, WorkerPC
<1> QED BY <1>1 DEF WorkerInv, SingleWorker

\* Steps that move no request and close no channel.
LEMMA OnceFrame ==
  ASSUME OnceInv, UNCHANGED <<flushCh, confirmed, fpc, token, mode, stopped>>,
         \A r \in Runs : wpc[r] = "finished" => wpc'[r] = "finished",
         stopped \subseteq Runs
  PROVE  OnceInv'
BY DEF OnceInv

\* Every step keeps OnceInv.
LEMMA OnceStep ==
  TypeOK /\ WorkerInv /\ ModeInv /\ OnceInv /\ [Next]_vars => OnceInv'
<1> SUFFICES ASSUME TypeOK, WorkerInv, ModeInv, OnceInv, [Next]_vars PROVE OnceInv'
  OBVIOUS
<1>0. stopped \subseteq Runs
  BY DEF TypeOK, LifeTypeOK
<1>1. ASSUME NEW p \in Producers, Log(p) PROVE OnceInv'
  BY <1>1, <1>0, OnceFrame DEF Log, workVars, reqVars, flusherVars, lifeVars
<1>2. ASSUME NEW p \in Producers, BlockedSend(p) PROVE OnceInv'
  BY <1>2, <1>0, OnceFrame DEF BlockedSend, workVars, reqVars, flusherVars, lifeVars
<1>3. ASSUME NEW p \in Producers, BlockTimeout(p) PROVE OnceInv'
  BY <1>3, <1>0, OnceFrame DEF BlockTimeout, AfterBlock, workVars, reqVars, flusherVars, lifeVars
<1>4. ASSUME NEW p \in Producers, Drop(p) PROVE OnceInv'
  BY <1>4, <1>0, OnceFrame DEF Drop, workVars, reqVars, flusherVars, lifeVars
<1>5. ASSUME NEW p \in Producers, CountLevel(p) PROVE OnceInv'
  BY <1>5, <1>0, OnceFrame DEF CountLevel, CountedAt, workVars, reqVars, flusherVars, lifeVars
<1>6. ASSUME NEW r \in Runs, StartCall(r) PROVE OnceInv'
  BY <1>6, <1>0, OnceFrame DEF StartCall, TypeOK, WorkTypeOK, reqVars, flusherVars, lifeVars
<1>7. ASSUME NEW r \in Runs, CancelCtx(r) PROVE OnceInv'
  BY <1>7, <1>0, OnceFrame DEF CancelCtx, workVars, reqVars, flusherVars, lifeVars
<1>8. ASSUME NEW r \in Runs, Register(r) PROVE OnceInv'
  BY <1>8, <1>0, OnceFrame DEF Register, TypeOK, WorkTypeOK, reqVars, flusherVars, lifeVars
<1>9. ASSUME NEW r \in Runs, RefuseStart(r) PROVE OnceInv'
  BY <1>9, <1>0, OnceFrame DEF RefuseStart, TypeOK, WorkTypeOK, reqVars, flusherVars, lifeVars
<1>10. ASSUME NEW r \in Runs, SweepMore(r) PROVE OnceInv'
  BY <1>10, <1>0, OnceFrame DEF SweepMore, StartBatch, Take, TypeOK, WorkTypeOK, reqVars, flusherVars, lifeVars
<1>11. ASSUME NEW r \in Runs, SweepEmpty(r) PROVE OnceInv'
  BY <1>11, <1>0, OnceFrame DEF SweepEmpty, TypeOK, WorkTypeOK, reqVars, flusherVars, lifeVars
<1>12. ASSUME NEW r \in Runs, BatchMore(r) PROVE OnceInv'
  BY <1>12, <1>0, OnceFrame DEF BatchMore, Take, TypeOK, WorkTypeOK, reqVars, flusherVars, lifeVars
<1>13. ASSUME NEW r \in Runs, BatchEnd(r) PROVE OnceInv'
  BY <1>13, <1>0, OnceFrame DEF BatchEnd, Home, TypeOK, WorkTypeOK, reqVars, flusherVars, lifeVars
<1>14. ASSUME NEW r \in Runs, WriteOut(r) PROVE OnceInv'
  BY <1>14, <1>0, OnceFrame DEF WriteOut, HandOver, Home, TypeOK, WorkTypeOK, reqVars, flusherVars, lifeVars
<1>15. ASSUME NEW r \in Runs, LastWrite(r) PROVE OnceInv'
  BY <1>15, <1>0, OnceFrame DEF LastWrite, HandOver, TypeOK, WorkTypeOK, reqVars, flusherVars, lifeVars
<1>16. ASSUME NEW r \in Runs, Confirm(r) PROVE OnceInv'
  <2>1. Active(r) /\ mode[r] = "flush"
    BY <1>16 DEF Confirm, Answer, Active, ModeInv
  <2>2. \A s \in Runs : mode[s] = "flush" => s = r
    BY <2>1, OneRequest
  <2>3. /\ confirmed' = confirmed \cup {token[r]}
        /\ UNCHANGED <<flushCh, fpc, stopped>>
        /\ \A s \in Runs : mode'[s] # "flush"
    BY <1>16, <2>2 DEF Confirm, Answer, TypeOK, WorkTypeOK, flusherVars, lifeVars
  <2>4. \A s \in Runs : wpc[s] = "finished" => wpc'[s] = "finished"
    BY <1>16 DEF Confirm, Answer, TypeOK, WorkTypeOK
  <2> QED BY <1>0, <2>1, <2>3, <2>4 DEF OnceInv
<1>17. ASSUME NEW r \in Runs, Exit(r) PROVE OnceInv'
  BY <1>17, <1>0, OnceFrame DEF Exit, TypeOK, WorkTypeOK, reqVars, flusherVars, lifeVars
<1>18. ASSUME NEW r \in Runs, CloseStopped(r) PROVE OnceInv'
  BY <1>18 DEF CloseStopped, OnceInv, TypeOK, ReqTypeOK, WorkTypeOK, FlusherTypeOK, reqVars, flusherVars
<1>19. ASSUME NEW r \in Runs, SelectCtxDone(r) PROVE OnceInv'
  BY <1>19, OneRequest DEF SelectCtxDone, DrainFirst, OnceInv, ModeInv, TypeOK, ReqTypeOK, WorkTypeOK, FlusherTypeOK, reqVars, flusherVars, lifeVars
<1>20. ASSUME NEW r \in Runs, SelectLog(r) PROVE OnceInv'
  BY <1>20, <1>0, OnceFrame DEF SelectLog, StartBatch, Take, TypeOK, WorkTypeOK, reqVars, flusherVars, lifeVars
<1>21. ASSUME NEW r \in Runs, Tick(r) PROVE OnceInv'
  BY <1>21, <1>0, OnceFrame DEF Tick, TickDue, TypeOK, WorkTypeOK, reqVars, flusherVars, lifeVars
<1>22. ASSUME NEW r \in Runs, SelectFlush(r) PROVE OnceInv'
  BY <1>22, OneRequest DEF SelectFlush, RequestReady, FlushFirst, OnceInv, ModeInv, TypeOK, ReqTypeOK, WorkTypeOK, FlusherTypeOK, reqVars, flusherVars, lifeVars
<1>23. ASSUME NEW f \in Flushes, FlushCall(f) PROVE OnceInv'
  BY <1>23 DEF FlushCall, OnceInv, Sent, TypeOK, ReqTypeOK, WorkTypeOK, FlusherTypeOK, reqVars, workVars, lifeVars
<1>24. ASSUME NEW f \in Flushes, FlushLock(f) PROVE OnceInv'
  BY <1>24 DEF FlushLock, OnceInv, Sent, TypeOK, ReqTypeOK, WorkTypeOK, FlusherTypeOK, reqVars, workVars, lifeVars
<1>25. ASSUME NEW f \in Flushes, FlushSend(f) PROVE OnceInv'
  BY <1>25 DEF FlushSend, OnceInv, Sent, TypeOK, ReqTypeOK, WorkTypeOK, FlusherTypeOK, reqVars, workVars, lifeVars
<1>26. ASSUME NEW f \in Flushes, FlushDone(f) PROVE OnceInv'
  BY <1>26 DEF FlushDone, OnceInv, Sent, TypeOK, ReqTypeOK, WorkTypeOK, FlusherTypeOK, reqVars, workVars, lifeVars
<1>27. ASSUME NEW f \in Flushes, FlushTimeout(f) PROVE OnceInv'
  BY <1>27 DEF FlushTimeout, GiveUp, OnceInv, Sent, TypeOK, ReqTypeOK, WorkTypeOK, FlusherTypeOK, reqVars, workVars, lifeVars
<1>28. ASSUME NEW c \in Closes, CloseCall(c) PROVE OnceInv'
  BY <1>28, <1>0, OnceFrame DEF CloseCall, workVars, reqVars, flusherVars, lifeVars
<1>29. ASSUME NEW c \in Closes, StopWorker(c) PROVE OnceInv'
  BY <1>29, <1>0, OnceFrame DEF StopWorker, NothingToStop, workVars, reqVars, flusherVars, lifeVars
<1>30. ASSUME NEW c \in Closes, CloseAwait(c) PROVE OnceInv'
  BY <1>30, <1>0, OnceFrame DEF CloseAwait, workVars, reqVars, flusherVars, lifeVars
<1>31. ASSUME NEW c \in Closes, CloseTimeout(c) PROVE OnceInv'
  BY <1>31, <1>0, OnceFrame DEF CloseTimeout, workVars, reqVars, flusherVars, lifeVars
<1>32. ASSUME NEW c \in Closes, CloseFile(c) PROVE OnceInv'
  BY <1>32, <1>0, OnceFrame DEF CloseFile, workVars, reqVars, flusherVars, lifeVars
<1>33. CASE UNCHANGED vars
  BY <1>33, <1>0, OnceFrame DEF vars, workVars, reqVars, flusherVars, lifeVars
<1> QED
  BY <1>1, <1>2, <1>3, <1>4, <1>5, <1>6, <1>7, <1>8, <1>9, <1>10, <1>11, <1>12, <1>13, <1>14, <1>15, <1>16, <1>17, <1>18, <1>19, <1>20, <1>21, <1>22, <1>23, <1>24, <1>25, <1>26, <1>27, <1>28, <1>29, <1>30, <1>31, <1>32, <1>33
  DEF Next, Produce, WorkerStep, Select, Flush, Close

\* No done channel and no stopped channel is closed twice.
THEOREM ClosedOnce == Spec => []ChannelsClosedOnce
<1>1. Init => WorkerInv /\ ModeInv /\ OnceInv
  BY DEF Init, WorkerInv, SingleWorker, Active, ModeInv, OnceInv
<1>2. TypeOK /\ (WorkerInv /\ ModeInv /\ OnceInv) /\ [Next]_vars
        => (WorkerInv /\ ModeInv /\ OnceInv)'
  BY WorkerStepInv, ModeStep, OnceStep
<1>3. WorkerInv /\ ModeInv /\ OnceInv => ChannelsClosedOnce
  BY DEF ModeInv, OnceInv, ChannelsClosedOnce
<1> QED BY <1>1, <1>2, <1>3, TypeCorrect, PTL DEF Spec
-----------------------------------------------------------------------------
(* A confirmed Flush has done its work. *)

\* How far the writer has come when a request reaches each point.  A sweep
\* that finds the channel empty has in its buffer, or has written, everything
\* accepted so far (NothingLost), and so everything accepted before the call.
FlushInv ==
  /\ \A f \in Flushes : mark[f] =< Len(accepted)
  /\ \A f \in Flushes : fpc[f] = "ok" => f \in confirmed
  /\ \A f \in confirmed : mark[f] =< Len(taken)
  /\ \A r \in Runs : mode[r] = "flush" =>
       /\ wpc[r] = "lastwrite" => mark[token[r]] =< Len(taken) + Len(buf[r])
       /\ wpc[r] = "confirm" => mark[token[r]] =< Len(taken)

\* Steps that move no request; the writer may be handed more.
LEMMA RequestFrame ==
  ASSUME TypeOK, FlushInv, OnceInv, Len(accepted') \in Nat, Len(accepted') >= Len(accepted),
         UNCHANGED <<confirmed, fpc, mark, wpc, mode, token, buf, taken>>
  PROVE  FlushInv'
<1>1. Len(accepted) \in Nat /\ \A f \in Flushes : mark[f] \in Nat
  BY DEF TypeOK, ChanTypeOK, FlusherTypeOK
<1> QED BY <1>1 DEF FlushInv

\* Every step keeps FlushInv.
LEMMA FlushStep ==
  TypeOK /\ WorkerInv /\ ModeInv /\ OnceInv /\ NothingLost /\ FlushInv /\ [Next]_vars
    => FlushInv'
<1> SUFFICES ASSUME TypeOK, WorkerInv, ModeInv, OnceInv, NothingLost, FlushInv, [Next]_vars
             PROVE  FlushInv'
  OBVIOUS
<1>0. /\ Len(accepted) \in Nat /\ Len(taken) \in Nat
      /\ Len(accepted') \in Nat /\ Len(taken') \in Nat
      /\ \A r \in Runs : Len(buf[r]) \in Nat
  BY TypeStep DEF TypeOK, ChanTypeOK, FileTypeOK, WorkTypeOK
<1>1. ASSUME NEW p \in Producers, Log(p) PROVE FlushInv'
  <2>1. Len(accepted') >= Len(accepted)
    BY <1>1, <1>0 DEF Log, Send, chanVars, TypeOK, ChanTypeOK
  <2> QED BY <1>1, <2>1, <1>0, RequestFrame DEF Log, workVars, reqVars, flusherVars, fileVars
<1>2. ASSUME NEW p \in Producers, BlockedSend(p) PROVE FlushInv'
  <2>1. Len(accepted') >= Len(accepted)
    BY <1>2, <1>0 DEF BlockedSend, Send, chanVars, TypeOK, ChanTypeOK
  <2> QED BY <1>2, <2>1, <1>0, RequestFrame DEF BlockedSend, workVars, reqVars, flusherVars, fileVars
<1>3. ASSUME NEW p \in Producers, BlockTimeout(p) PROVE FlushInv'
  BY <1>3, <1>0, RequestFrame DEF BlockTimeout, AfterBlock, chanVars, workVars, reqVars, flusherVars, fileVars
<1>4. ASSUME NEW p \in Producers, Drop(p) PROVE FlushInv'
  BY <1>4, <1>0, RequestFrame DEF Drop, chanVars, workVars, reqVars, flusherVars, fileVars
<1>5. ASSUME NEW p \in Producers, CountLevel(p) PROVE FlushInv'
  BY <1>5, <1>0, RequestFrame DEF CountLevel, CountedAt, chanVars, workVars, reqVars, flusherVars, fileVars
<1>6. ASSUME NEW r \in Runs, StartCall(r) PROVE FlushInv'
  BY <1>6, <1>0 DEF StartCall, FlushInv, OnceInv, ModeInv, TypeOK, WorkTypeOK, FlusherTypeOK, chanVars, reqVars, flusherVars, fileVars
<1>7. ASSUME NEW r \in Runs, CancelCtx(r) PROVE FlushInv'
  BY <1>7, <1>0, RequestFrame DEF CancelCtx, chanVars, workVars, reqVars, flusherVars, fileVars
<1>8. ASSUME NEW r \in Runs, Register(r) PROVE FlushInv'
  BY <1>8, <1>0 DEF Register, FlushInv, OnceInv, ModeInv, TypeOK, WorkTypeOK, FlusherTypeOK, chanVars, reqVars, flusherVars, fileVars
<1>9. ASSUME NEW r \in Runs, RefuseStart(r) PROVE FlushInv'
  BY <1>9, <1>0 DEF RefuseStart, FlushInv, OnceInv, ModeInv, TypeOK, WorkTypeOK, FlusherTypeOK, chanVars, reqVars, flusherVars, fileVars
<1>10. ASSUME NEW r \in Runs, SweepMore(r) PROVE FlushInv'
  BY <1>10, <1>0 DEF SweepMore, StartBatch, Take, FlushInv, TypeOK, WorkTypeOK, FlusherTypeOK, reqVars, flusherVars, fileVars
<1>11. ASSUME NEW r \in Runs, SweepEmpty(r) PROVE FlushInv'
  <2>1. cur = r /\ r # NoRun
    BY <1>11, NamesAssumption DEF SweepEmpty, Active, WorkerInv, SingleWorker
  <2>2. accepted = (taken \o buf[r]) \o <<>>
    BY <1>11, <2>1 DEF SweepEmpty, NothingLost, Held
  <2>3. Len(accepted) = Len(taken) + Len(buf[r])
    BY <2>2 DEF TypeOK, FileTypeOK, WorkTypeOK
  <2> QED BY <1>11, <1>0, <2>3 DEF SweepEmpty, FlushInv, OnceInv, TypeOK, WorkTypeOK, FlusherTypeOK, chanVars, reqVars, flusherVars, fileVars
<1>12. ASSUME NEW r \in Runs, BatchMore(r) PROVE FlushInv'
  BY <1>12, <1>0 DEF BatchMore, Take, FlushInv, TypeOK, WorkTypeOK, FlusherTypeOK, reqVars, flusherVars, fileVars
<1>13. ASSUME NEW r \in Runs, BatchEnd(r) PROVE FlushInv'
  BY <1>13, <1>0 DEF BatchEnd, Home, FlushInv, OnceInv, ModeInv, TypeOK, WorkTypeOK, FlusherTypeOK, chanVars, reqVars, flusherVars, fileVars
<1>14. ASSUME NEW r \in Runs, WriteOut(r) PROVE FlushInv'
  <2>1. Len(taken') = Len(taken) + Len(buf[r])
    BY <1>14 DEF WriteOut, HandOver, TypeOK, FileTypeOK, WorkTypeOK
  <2> QED BY <1>14, <1>0, <2>1 DEF WriteOut, HandOver, Home, FlushInv, OnceInv, TypeOK, WorkTypeOK, FlusherTypeOK, reqVars, flusherVars, chanVars
<1>15. ASSUME NEW r \in Runs, LastWrite(r) PROVE FlushInv'
  <2>1. Len(taken') = Len(taken) + Len(buf[r])
    BY <1>15 DEF LastWrite, HandOver, TypeOK, FileTypeOK, WorkTypeOK
  <2> QED BY <1>15, <1>0, <2>1 DEF LastWrite, HandOver, FlushInv, OnceInv, TypeOK, WorkTypeOK, FlusherTypeOK, reqVars, flusherVars, chanVars
<1>16. ASSUME NEW r \in Runs, Confirm(r) PROVE FlushInv'
  BY <1>16, <1>0 DEF Confirm, Answer, FlushInv, OnceInv, ModeInv, TypeOK, WorkTypeOK, FlusherTypeOK, chanVars, reqVars, flusherVars, fileVars
<1>17. ASSUME NEW r \in Runs, Exit(r) PROVE FlushInv'
  BY <1>17, <1>0 DEF Exit, FlushInv, OnceInv, ModeInv, TypeOK, WorkTypeOK, FlusherTypeOK, chanVars, reqVars, flusherVars, fileVars
<1>18. ASSUME NEW r \in Runs, CloseStopped(r) PROVE FlushInv'
  BY <1>18, <1>0 DEF CloseStopped, FlushInv, OnceInv, ModeInv, TypeOK, WorkTypeOK, FlusherTypeOK, chanVars, reqVars, flusherVars, fileVars
<1>19. ASSUME NEW r \in Runs, SelectCtxDone(r) PROVE FlushInv'
  BY <1>19, <1>0 DEF SelectCtxDone, DrainFirst, FlushInv, OnceInv, ModeInv, TypeOK, WorkTypeOK, FlusherTypeOK, chanVars, reqVars, flusherVars, fileVars
<1>20. ASSUME NEW r \in Runs, SelectLog(r) PROVE FlushInv'
  BY <1>20, <1>0 DEF SelectLog, StartBatch, Take, FlushInv, TypeOK, WorkTypeOK, FlusherTypeOK, reqVars, flusherVars, fileVars
<1>21. ASSUME NEW r \in Runs, Tick(r) PROVE FlushInv'
  BY <1>21, <1>0 DEF Tick, TickDue, FlushInv, OnceInv, ModeInv, TypeOK, WorkTypeOK, FlusherTypeOK, chanVars, reqVars, flusherVars, fileVars
<1>22. ASSUME NEW r \in Runs, SelectFlush(r) PROVE FlushInv'
  BY <1>22, <1>0 DEF SelectFlush, RequestReady, FlushFirst, FlushInv, OnceInv, ModeInv, TypeOK, WorkTypeOK, FlusherTypeOK, chanVars, reqVars, flusherVars, fileVars
<1>23. ASSUME NEW f \in Flushes, FlushCall(f) PROVE FlushInv'
  <2>1. f \notin confirmed /\ \A r \in Runs : mode[r] = "flush" => token[r] # f
    BY <1>23 DEF FlushCall, OnceInv, Sent
  <2>2. /\ \A g \in Flushes : g # f => mark'[g] = mark[g] /\ fpc'[g] = fpc[g]
        /\ mark'[f] = Len(accepted) /\ fpc'[f] # "ok"
        /\ UNCHANGED <<accepted, taken, confirmed, mode, wpc, token, buf>>
    BY <1>23 DEF FlushCall, TypeOK, FlusherTypeOK, chanVars, reqVars, workVars, fileVars
  <2>3. \A g \in Flushes : mark'[g] =< Len(accepted')
    BY <1>0, <2>2 DEF FlushInv
  <2>4. \A g \in confirmed' : g \in Flushes /\ mark'[g] =< Len(taken')
    BY <2>1, <2>2 DEF FlushInv, OnceInv
  <2>5. \A r \in Runs : mode[r] = "flush" => mark'[token[r]] = mark[token[r]]
    BY <2>1, <2>2 DEF OnceInv
  <2> QED BY <2>2, <2>3, <2>4, <2>5 DEF FlushInv
<1>24. ASSUME NEW f \in Flushes, FlushLock(f) PROVE FlushInv'
  BY <1>24, <1>0 DEF FlushLock, FlushInv, OnceInv, Sent, TypeOK, WorkTypeOK, FlusherTypeOK, chanVars, reqVars, workVars, fileVars
<1>25. ASSUME NEW f \in Flushes, FlushSend(f) PROVE FlushInv'
  BY <1>25, <1>0 DEF FlushSend, FlushInv, OnceInv, Sent, TypeOK, WorkTypeOK, FlusherTypeOK, chanVars, reqVars, workVars, fileVars
<1>26. ASSUME NEW f \in Flushes, FlushDone(f) PROVE FlushInv'
  BY <1>26, <1>0 DEF FlushDone, FlushInv, OnceInv, Sent, TypeOK, WorkTypeOK, FlusherTypeOK, chanVars, reqVars, workVars, fileVars
<1>27. ASSUME NEW f \in Flushes, FlushTimeout(f) PROVE FlushInv'
  BY <1>27, <1>0 DEF FlushTimeout, GiveUp, FlushInv, OnceInv, Sent, TypeOK, WorkTypeOK, FlusherTypeOK, chanVars, reqVars, workVars, fileVars
<1>28. ASSUME NEW c \in Closes, CloseCall(c) PROVE FlushInv'
  BY <1>28, <1>0, RequestFrame DEF CloseCall, chanVars, workVars, reqVars, flusherVars, fileVars
<1>29. ASSUME NEW c \in Closes, StopWorker(c) PROVE FlushInv'
  BY <1>29, <1>0, RequestFrame DEF StopWorker, NothingToStop, chanVars, workVars, reqVars, flusherVars, fileVars
<1>30. ASSUME NEW c \in Closes, CloseAwait(c) PROVE FlushInv'
  BY <1>30, <1>0, RequestFrame DEF CloseAwait, chanVars, workVars, reqVars, flusherVars, fileVars
<1>31. ASSUME NEW c \in Closes, CloseTimeout(c) PROVE FlushInv'
  BY <1>31, <1>0, RequestFrame DEF CloseTimeout, chanVars, workVars, reqVars, flusherVars, fileVars
<1>32. ASSUME NEW c \in Closes, CloseFile(c) PROVE FlushInv'
  BY <1>32, <1>0, RequestFrame DEF CloseFile, chanVars, workVars, reqVars, flusherVars, fileVars
<1>33. CASE UNCHANGED vars
  BY <1>33, <1>0, RequestFrame DEF vars, chanVars, workVars, reqVars, flusherVars, fileVars
<1> QED
  BY <1>1, <1>2, <1>3, <1>4, <1>5, <1>6, <1>7, <1>8, <1>9, <1>10, <1>11, <1>12, <1>13, <1>14, <1>15, <1>16, <1>17, <1>18, <1>19, <1>20, <1>21, <1>22, <1>23, <1>24, <1>25, <1>26, <1>27, <1>28, <1>29, <1>30, <1>31, <1>32, <1>33
  DEF Next, Produce, WorkerStep, Select, Flush, Close

\* A Flush that returned because the worker confirmed it has had every entry
\* accepted before the call handed to the writer, whatever else was going on.
THEOREM FlushDelivers == Spec => []FlushWrites
<1> DEFINE Inv == WorkerInv /\ ModeInv /\ OnceInv /\ NothingLost /\ FlushInv
<1>1. Init => Inv
  BY DEF Init, WorkerInv, SingleWorker, Active, ModeInv, OnceInv, NothingLost, Held, FlushInv
<1>2. TypeOK /\ Inv /\ [Next]_vars => Inv'
  BY WorkerStepInv, ModeStep, OnceStep, QueueStep, FlushStep
<1>3. Inv => FlushWrites
  BY DEF FlushInv, FlushWrites
<1> HIDE DEF Inv
<1> QED BY <1>1, <1>2, <1>3, TypeCorrect, PTL DEF Spec
-----------------------------------------------------------------------------
(* Close. *)

\* The call of Close that won the CompareAndSwap.
Won(c) == cpc[c] \in {"stop", "await", "file", "returned"}

\* One call does the work, and it closes the file after its wait.
CloserInv ==
  /\ \A c, d \in Closes : Won(c) /\ Won(d) => c = d
  /\ \A c \in Closes : Won(c) => closed
  /\ \A c \in Closes : cpc[c] = "stop" => file = "open" /\ target = NoRun /\ ~served
  /\ \A c \in Closes : cpc[c] \in {"stop", "await"} => file = "open" /\ ~timedOut
  /\ \A c \in Closes : cpc[c] \in {"file", "returned"} =>
       timedOut \/ target = NoRun \/ target \in stopped
  /\ file = "closed" => timedOut \/ target = NoRun \/ target \in stopped
  /\ ~closed => file = "open" /\ target = NoRun /\ ~served /\ ~timedOut
  /\ served => target \in Runs

\* Steps of other goroutines than a Close.
LEMMA CloserFrame ==
  ASSUME CloserInv, UNCHANGED <<closerVars, file>>, stopped \subseteq stopped'
  PROVE  CloserInv'
BY DEF CloserInv, Won, closerVars

\* Every step keeps CloserInv.
LEMMA CloserStep == TypeOK /\ CloserInv /\ [Next]_vars => CloserInv'
<1> SUFFICES ASSUME TypeOK, CloserInv, [Next]_vars PROVE CloserInv'
  OBVIOUS
<1> USE NamesAssumption
<1>1. ASSUME NEW p \in Producers, Log(p) PROVE CloserInv'
  BY <1>1, CloserFrame DEF Log, closerVars, fileVars, lifeVars
<1>2. ASSUME NEW p \in Producers, BlockedSend(p) PROVE CloserInv'
  BY <1>2, CloserFrame DEF BlockedSend, closerVars, fileVars, lifeVars
<1>3. ASSUME NEW p \in Producers, BlockTimeout(p) PROVE CloserInv'
  BY <1>3, CloserFrame DEF BlockTimeout, AfterBlock, closerVars, fileVars, lifeVars
<1>4. ASSUME NEW p \in Producers, Drop(p) PROVE CloserInv'
  BY <1>4, CloserFrame DEF Drop, closerVars, fileVars, lifeVars
<1>5. ASSUME NEW p \in Producers, CountLevel(p) PROVE CloserInv'
  BY <1>5, CloserFrame DEF CountLevel, CountedAt, closerVars, fileVars, lifeVars
<1>6. ASSUME NEW r \in Runs, StartCall(r) PROVE CloserInv'
  BY <1>6, CloserFrame DEF StartCall, closerVars, fileVars, lifeVars
<1>7. ASSUME NEW r \in Runs, CancelCtx(r) PROVE CloserInv'
  BY <1>7, CloserFrame DEF CancelCtx, closerVars, fileVars, lifeVars
<1>8. ASSUME NEW r \in Runs, Register(r) PROVE CloserInv'
  BY <1>8, CloserFrame DEF Register, closerVars, fileVars, lifeVars
<1>9. ASSUME NEW r \in Runs, RefuseStart(r) PROVE CloserInv'
  BY <1>9, CloserFrame DEF RefuseStart, closerVars, fileVars, lifeVars
<1>10. ASSUME NEW r \in Runs, SweepMore(r) PROVE CloserInv'
  BY <1>10, CloserFrame DEF SweepMore, StartBatch, Take, closerVars, fileVars, lifeVars
<1>11. ASSUME NEW r \in Runs, SweepEmpty(r) PROVE CloserInv'
  BY <1>11, CloserFrame DEF SweepEmpty, closerVars, fileVars, lifeVars
<1>12. ASSUME NEW r \in Runs, BatchMore(r) PROVE CloserInv'
  BY <1>12, CloserFrame DEF BatchMore, Take, closerVars, fileVars, lifeVars
<1>13. ASSUME NEW r \in Runs, BatchEnd(r) PROVE CloserInv'
  BY <1>13, CloserFrame DEF BatchEnd, Home, closerVars, fileVars, lifeVars
<1>14. ASSUME NEW r \in Runs, WriteOut(r) PROVE CloserInv'
  BY <1>14, CloserFrame DEF WriteOut, HandOver, Home, closerVars, fileVars, lifeVars
<1>15. ASSUME NEW r \in Runs, LastWrite(r) PROVE CloserInv'
  BY <1>15, CloserFrame DEF LastWrite, HandOver, closerVars, fileVars, lifeVars
<1>16. ASSUME NEW r \in Runs, Confirm(r) PROVE CloserInv'
  BY <1>16, CloserFrame DEF Confirm, Answer, closerVars, fileVars, lifeVars
<1>17. ASSUME NEW r \in Runs, Exit(r) PROVE CloserInv'
  BY <1>17, CloserFrame DEF Exit, closerVars, fileVars, lifeVars
<1>18. ASSUME NEW r \in Runs, CloseStopped(r) PROVE CloserInv'
  BY <1>18, CloserFrame DEF CloseStopped, closerVars, fileVars, lifeVars
<1>19. ASSUME NEW r \in Runs, SelectCtxDone(r) PROVE CloserInv'
  BY <1>19, CloserFrame DEF SelectCtxDone, DrainFirst, closerVars, fileVars, lifeVars
<1>20. ASSUME NEW r \in Runs, SelectLog(r) PROVE CloserInv'
  BY <1>20, CloserFrame DEF SelectLog, StartBatch, Take, closerVars, fileVars, lifeVars
<1>21. ASSUME NEW r \in Runs, Tick(r) PROVE CloserInv'
  BY <1>21, CloserFrame DEF Tick, TickDue, closerVars, fileVars, lifeVars
<1>22. ASSUME NEW r \in Runs, SelectFlush(r) PROVE CloserInv'
  BY <1>22, CloserFrame DEF SelectFlush, RequestReady, FlushFirst, closerVars, fileVars, lifeVars
<1>23. ASSUME NEW f \in Flushes, FlushCall(f) PROVE CloserInv'
  BY <1>23, CloserFrame DEF FlushCall, closerVars, fileVars, lifeVars
<1>24. ASSUME NEW f \in Flushes, FlushLock(f) PROVE CloserInv'
  BY <1>24, CloserFrame DEF FlushLock, closerVars, fileVars, lifeVars
<1>25. ASSUME NEW f \in Flushes, FlushSend(f) PROVE CloserInv'
  BY <1>25, CloserFrame DEF FlushSend, closerVars, fileVars, lifeVars
<1>26. ASSUME NEW f \in Flushes, FlushDone(f) PROVE CloserInv'
  BY <1>26, CloserFrame DEF FlushDone, closerVars, fileVars, lifeVars
<1>27. ASSUME NEW f \in Flushes, FlushTimeout(f) PROVE CloserInv'
  BY <1>27, CloserFrame DEF FlushTimeout, GiveUp, closerVars, fileVars, lifeVars
<1>28. ASSUME NEW c \in Closes, CloseCall(c) PROVE CloserInv'
  BY <1>28 DEF CloseCall, CloserInv, Won, TypeOK, CloserTypeOK, LifeTypeOK, fileVars, lifeVars
<1>29. ASSUME NEW c \in Closes, StopWorker(c) PROVE CloserInv'
  BY <1>29 DEF StopWorker, NothingToStop, CloserInv, Won, TypeOK, CloserTypeOK, LifeTypeOK, fileVars, lifeVars
<1>30. ASSUME NEW c \in Closes, CloseAwait(c) PROVE CloserInv'
  BY <1>30 DEF CloseAwait, CloserInv, Won, TypeOK, CloserTypeOK, LifeTypeOK, fileVars, lifeVars
<1>31. ASSUME NEW c \in Closes, CloseTimeout(c) PROVE CloserInv'
  BY <1>31 DEF CloseTimeout, CloserInv, Won, TypeOK, CloserTypeOK, LifeTypeOK, fileVars, lifeVars
<1>32. ASSUME NEW c \in Closes, CloseFile(c) PROVE CloserInv'
  BY <1>32 DEF CloseFile, CloserInv, Won, TypeOK, CloserTypeOK, LifeTypeOK, fileVars, lifeVars
<1>33. CASE UNCHANGED vars
  BY <1>33, CloserFrame DEF vars, closerVars, fileVars, lifeVars
<1> QED
  BY <1>1, <1>2, <1>3, <1>4, <1>5, <1>6, <1>7, <1>8, <1>9, <1>10, <1>11, <1>12, <1>13, <1>14, <1>15, <1>16, <1>17, <1>18, <1>19, <1>20, <1>21, <1>22, <1>23, <1>24, <1>25, <1>26, <1>27, <1>28, <1>29, <1>30, <1>31, <1>32, <1>33
  DEF Next, Produce, WorkerStep, Select, Flush, Close

\* A run that will not look at the channel again.
PastLast(r) == \/ wpc[r] = "lastwrite" /\ mode[r] = "drain"
               \/ wpc[r] \in {"exit", "closing", "finished"}

\* A run that Close reached in time passes its last look at the channel with
\* everything accepted before the call in its buffer or written.
DrainInv ==
  /\ closeMark =< Len(accepted)
  /\ served => /\ Serving(target) \/ PastLast(target)
               /\ PastLast(target) => closeMark =< Len(taken) + Len(buf[target])

\* Steps that leave the draining run where it is; more may be accepted or
\* handed over.
LEMMA DrainFrame ==
  ASSUME DrainInv, closeMark \in Nat,
         Len(accepted) \in Nat, Len(accepted') \in Nat, Len(accepted') >= Len(accepted),
         UNCHANGED <<workVars, taken, closeMark, served, target>>
  PROVE  DrainInv'
BY DEF DrainInv, Serving, PastLast, workVars

\* Every step keeps DrainInv.
LEMMA DrainStep ==
  TypeOK /\ WorkerInv /\ ModeInv /\ NothingLost /\ CloserInv /\ DrainInv /\ [Next]_vars
    => DrainInv'
<1> SUFFICES ASSUME TypeOK, WorkerInv, ModeInv, NothingLost, CloserInv, DrainInv, [Next]_vars
             PROVE  DrainInv'
  OBVIOUS
<1>0. /\ Len(accepted) \in Nat /\ Len(taken) \in Nat
      /\ Len(accepted') \in Nat /\ Len(taken') \in Nat
      /\ closeMark \in Nat /\ served \in BOOLEAN
      /\ served => target \in Runs
      /\ \A r \in Runs : Len(buf[r]) \in Nat
  <2>1. ChanTypeOK /\ FileTypeOK /\ WorkTypeOK /\ CloserTypeOK /\ ChanTypeOK' /\ FileTypeOK'
    BY TypeStep DEF TypeOK
  <2>2. Len(accepted) \in Nat /\ Len(accepted') \in Nat
    BY <2>1 DEF ChanTypeOK
  <2>3. Len(taken) \in Nat /\ Len(taken') \in Nat
    BY <2>1 DEF FileTypeOK
  <2>4. \A r \in Runs : Len(buf[r]) \in Nat
    BY <2>1 DEF WorkTypeOK
  <2> QED BY <2>1, <2>2, <2>3, <2>4 DEF CloserTypeOK, CloserInv
<1>1. ASSUME NEW p \in Producers, Log(p) PROVE DrainInv'
  <2>1. Len(accepted') >= Len(accepted)
    BY <1>1, <1>0 DEF Log, Send, chanVars, TypeOK, ChanTypeOK
  <2> QED BY <1>1, <1>0, <2>1, DrainFrame DEF Log, workVars, closerVars, fileVars
<1>2. ASSUME NEW p \in Producers, BlockedSend(p) PROVE DrainInv'
  <2>1. Len(accepted') >= Len(accepted)
    BY <1>2, <1>0 DEF BlockedSend, Send, chanVars, TypeOK, ChanTypeOK
  <2> QED BY <1>2, <1>0, <2>1, DrainFrame DEF BlockedSend, workVars, closerVars, fileVars
<1>3. ASSUME NEW p \in Producers, BlockTimeout(p) PROVE DrainInv'
  BY <1>3, <1>0, DrainFrame DEF BlockTimeout, AfterBlock, workVars, closerVars, fileVars, chanVars
<1>4. ASSUME NEW p \in Producers, Drop(p) PROVE DrainInv'
  BY <1>4, <1>0, DrainFrame DEF Drop, workVars, closerVars, fileVars, chanVars
<1>5. ASSUME NEW p \in Producers, CountLevel(p) PROVE DrainInv'
  BY <1>5, <1>0, DrainFrame DEF CountLevel, CountedAt, workVars, closerVars, fileVars, chanVars
<1>6. ASSUME NEW r \in Runs, StartCall(r) PROVE DrainInv'
  BY <1>6, <1>0 DEF StartCall, DrainInv, PastLast, Serving, ModeInv, TypeOK, WorkTypeOK, closerVars, chanVars, fileVars
<1>7. ASSUME NEW r \in Runs, CancelCtx(r) PROVE DrainInv'
  BY <1>7, <1>0, DrainFrame DEF CancelCtx, workVars, closerVars, fileVars, chanVars
<1>8. ASSUME NEW r \in Runs, Register(r) PROVE DrainInv'
  BY <1>8, <1>0 DEF Register, DrainInv, PastLast, Serving, ModeInv, TypeOK, WorkTypeOK, closerVars, chanVars, fileVars
<1>9. ASSUME NEW r \in Runs, RefuseStart(r) PROVE DrainInv'
  BY <1>9, <1>0 DEF RefuseStart, DrainInv, PastLast, Serving, ModeInv, TypeOK, WorkTypeOK, closerVars, chanVars, fileVars
<1>10. ASSUME NEW r \in Runs, SweepMore(r) PROVE DrainInv'
  BY <1>10, <1>0 DEF SweepMore, StartBatch, Take, DrainInv, PastLast, Serving, ModeInv, TypeOK, WorkTypeOK, closerVars, chanVars, fileVars
<1>11. ASSUME NEW r \in Runs, SweepEmpty(r) PROVE DrainInv'
  <2>1. cur = r /\ r # NoRun
    BY <1>11, NamesAssumption DEF SweepEmpty, Active, WorkerInv, SingleWorker
  <2>2. accepted = (taken \o buf[r]) \o <<>>
    BY <1>11, <2>1 DEF SweepEmpty, NothingLost, Held
  <2>3. Len(accepted) = Len(taken) + Len(buf[r])
    BY <2>2 DEF TypeOK, FileTypeOK, WorkTypeOK
  <2>4. /\ UNCHANGED <<accepted, taken, closeMark, served, target, mode, buf>>
        /\ wpc' = [wpc EXCEPT ![r] = "lastwrite"] /\ wpc[r] = "sweep"
    BY <1>11 DEF SweepEmpty, chanVars, closerVars, fileVars
  <2>5. CASE target = r
    BY <1>0, <2>3, <2>4, <2>5 DEF DrainInv, PastLast, Serving, ModeInv, TypeOK, WorkTypeOK
  <2>6. CASE target # r
    BY <1>0, <2>4, <2>6 DEF DrainInv, PastLast, Serving, TypeOK, WorkTypeOK
  <2> QED BY <2>5, <2>6
<1>12. ASSUME NEW r \in Runs, BatchMore(r) PROVE DrainInv'
  BY <1>12, <1>0 DEF BatchMore, Take, DrainInv, PastLast, Serving, ModeInv, TypeOK, WorkTypeOK, closerVars, chanVars, fileVars
<1>13. ASSUME NEW r \in Runs, BatchEnd(r) PROVE DrainInv'
  BY <1>13, <1>0 DEF BatchEnd, Home, DrainInv, PastLast, Serving, ModeInv, TypeOK, WorkTypeOK, closerVars, chanVars, fileVars
<1>14. ASSUME NEW r \in Runs, WriteOut(r) PROVE DrainInv'
  <2>1. Len(taken') = Len(taken) + Len(buf[r])
    BY <1>14 DEF WriteOut, HandOver, TypeOK, FileTypeOK, WorkTypeOK
  <2>2. buf' = [buf EXCEPT ![r] = <<>>]
    BY <1>14 DEF WriteOut, HandOver, Emptied
  <2>3. /\ UNCHANGED <<accepted, closeMark, served, target, mode>>
        /\ wpc[r] = "write" /\ \A s \in Runs \ {r} : wpc'[s] = wpc[s]
        /\ wpc'[r] \in {"select", "sweep"}
    BY <1>14 DEF WriteOut, HandOver, Home, chanVars, closerVars, TypeOK, WorkTypeOK
  <2>4. CASE target = r
    BY <1>0, <2>1, <2>2, <2>3, <2>4 DEF DrainInv, PastLast, Serving, TypeOK, WorkTypeOK
  <2>5. CASE target # r
    <3>1. served => /\ wpc'[target] = wpc[target] /\ buf'[target] = buf[target]
                    /\ Len(buf[target]) \in Nat
      BY <1>0, <2>2, <2>3, <2>5 DEF TypeOK, WorkTypeOK
    <3>2. Len(taken') >= Len(taken)
      BY <1>0, <2>1
    <3> QED BY <1>0, <2>3, <3>1, <3>2 DEF DrainInv, PastLast, Serving
  <2> QED BY <2>4, <2>5
<1>15. ASSUME NEW r \in Runs, LastWrite(r) PROVE DrainInv'
  <2>1. Len(taken') = Len(taken) + Len(buf[r])
    BY <1>15 DEF LastWrite, HandOver, TypeOK, FileTypeOK, WorkTypeOK
  <2>2. buf' = [buf EXCEPT ![r] = <<>>]
    BY <1>15 DEF LastWrite, HandOver, Emptied
  <2>3. /\ UNCHANGED <<accepted, closeMark, served, target, mode>>
        /\ wpc[r] = "lastwrite" /\ \A s \in Runs \ {r} : wpc'[s] = wpc[s]
        /\ wpc'[r] \in {IF mode[r] = "flush" THEN "confirm" ELSE "exit"}
    BY <1>15 DEF LastWrite, HandOver, chanVars, closerVars, TypeOK, WorkTypeOK
  <2>4. CASE target = r
    BY <1>0, <2>1, <2>2, <2>3, <2>4 DEF DrainInv, PastLast, Serving, TypeOK, WorkTypeOK
  <2>5. CASE target # r
    <3>1. served => /\ wpc'[target] = wpc[target] /\ buf'[target] = buf[target]
                    /\ Len(buf[target]) \in Nat
      BY <1>0, <2>2, <2>3, <2>5 DEF TypeOK, WorkTypeOK
    <3>2. Len(taken') >= Len(taken)
      BY <1>0, <2>1
    <3> QED BY <1>0, <2>3, <3>1, <3>2 DEF DrainInv, PastLast, Serving
  <2> QED BY <2>4, <2>5
<1>16. ASSUME NEW r \in Runs, Confirm(r) PROVE DrainInv'
  BY <1>16, <1>0 DEF Confirm, Answer, DrainInv, PastLast, Serving, ModeInv, TypeOK, WorkTypeOK, closerVars, chanVars, fileVars
<1>17. ASSUME NEW r \in Runs, Exit(r) PROVE DrainInv'
  BY <1>17, <1>0 DEF Exit, DrainInv, PastLast, Serving, ModeInv, TypeOK, WorkTypeOK, closerVars, chanVars, fileVars
<1>18. ASSUME NEW r \in Runs, CloseStopped(r) PROVE DrainInv'
  BY <1>18, <1>0 DEF CloseStopped, DrainInv, PastLast, Serving, ModeInv, TypeOK, WorkTypeOK, closerVars, chanVars, fileVars
<1>19. ASSUME NEW r \in Runs, SelectCtxDone(r) PROVE DrainInv'
  BY <1>19, <1>0 DEF SelectCtxDone, DrainFirst, DrainInv, PastLast, Serving, ModeInv, TypeOK, WorkTypeOK, closerVars, chanVars, fileVars
<1>20. ASSUME NEW r \in Runs, SelectLog(r) PROVE DrainInv'
  BY <1>20, <1>0 DEF SelectLog, StartBatch, Take, DrainInv, PastLast, Serving, ModeInv, TypeOK, WorkTypeOK, closerVars, chanVars, fileVars
<1>21. ASSUME NEW r \in Runs, Tick(r) PROVE DrainInv'
  BY <1>21, <1>0 DEF Tick, TickDue, DrainInv, PastLast, Serving, ModeInv, TypeOK, WorkTypeOK, closerVars, chanVars, fileVars
<1>22. ASSUME NEW r \in Runs, SelectFlush(r) PROVE DrainInv'
  BY <1>22, <1>0 DEF SelectFlush, RequestReady, FlushFirst, DrainInv, PastLast, Serving, ModeInv, TypeOK, WorkTypeOK, closerVars, chanVars, fileVars
<1>23. ASSUME NEW f \in Flushes, FlushCall(f) PROVE DrainInv'
  BY <1>23, <1>0, DrainFrame DEF FlushCall, workVars, closerVars, fileVars, chanVars
<1>24. ASSUME NEW f \in Flushes, FlushLock(f) PROVE DrainInv'
  BY <1>24, <1>0, DrainFrame DEF FlushLock, workVars, closerVars, fileVars, chanVars
<1>25. ASSUME NEW f \in Flushes, FlushSend(f) PROVE DrainInv'
  BY <1>25, <1>0, DrainFrame DEF FlushSend, workVars, closerVars, fileVars, chanVars
<1>26. ASSUME NEW f \in Flushes, FlushDone(f) PROVE DrainInv'
  BY <1>26, <1>0, DrainFrame DEF FlushDone, workVars, closerVars, fileVars, chanVars
<1>27. ASSUME NEW f \in Flushes, FlushTimeout(f) PROVE DrainInv'
  BY <1>27, <1>0, DrainFrame DEF FlushTimeout, GiveUp, workVars, closerVars, fileVars, chanVars
<1>28. ASSUME NEW c \in Closes, CloseCall(c) PROVE DrainInv'
  BY <1>28, <1>0 DEF CloseCall, DrainInv, CloserInv, Won, PastLast, Serving, ModeInv, TypeOK, CloserTypeOK, WorkTypeOK, WorkerPC, workVars, closerVars, fileVars, chanVars
<1>29. ASSUME NEW c \in Closes, StopWorker(c) PROVE DrainInv'
  BY <1>29, <1>0 DEF StopWorker, NothingToStop, DrainInv, CloserInv, Won, PastLast, Serving, ModeInv, TypeOK, CloserTypeOK, WorkTypeOK, WorkerPC, workVars, closerVars, fileVars, chanVars
<1>30. ASSUME NEW c \in Closes, CloseAwait(c) PROVE DrainInv'
  BY <1>30, <1>0, DrainFrame DEF CloseAwait, workVars, closerVars, fileVars, chanVars
<1>31. ASSUME NEW c \in Closes, CloseTimeout(c) PROVE DrainInv'
  BY <1>31, <1>0, DrainFrame DEF CloseTimeout, workVars, closerVars, fileVars, chanVars
<1>32. ASSUME NEW c \in Closes, CloseFile(c) PROVE DrainInv'
  BY <1>32, <1>0, DrainFrame DEF CloseFile, workVars, closerVars, fileVars, chanVars
<1>33. CASE UNCHANGED vars
  BY <1>33, <1>0, DrainFrame DEF vars, workVars, closerVars, fileVars, chanVars
<1> QED
  BY <1>1, <1>2, <1>3, <1>4, <1>5, <1>6, <1>7, <1>8, <1>9, <1>10, <1>11, <1>12, <1>13, <1>14, <1>15, <1>16, <1>17, <1>18, <1>19, <1>20, <1>21, <1>22, <1>23, <1>24, <1>25, <1>26, <1>27, <1>28, <1>29, <1>30, <1>31, <1>32, <1>33
  DEF Next, Produce, WorkerStep, Select, Flush, Close

\* A Close that reached its worker in time and did not give up waiting closes
\* the file after everything accepted before the call was written.
THEOREM CloseDelivers == Spec => []CloseDrains
<1> DEFINE Inv == /\ WorkerInv /\ ModeInv /\ OnceInv /\ NothingLost
                  /\ CloserInv /\ DrainInv
<1>1. Init => Inv
  BY DEF Init, WorkerInv, SingleWorker, Active, ModeInv, OnceInv, NothingLost, Held,
         CloserInv, Won, DrainInv
<1>2. TypeOK /\ Inv /\ [Next]_vars => Inv'
  BY WorkerStepInv, ModeStep, OnceStep, QueueStep, CloserStep, DrainStep
<1>3. TypeOK /\ Inv => CloseDrains
  <2> SUFFICES ASSUME TypeOK, Inv, file = "closed", served, ~timedOut
               PROVE  closeMark =< Len(taken)
    BY DEF CloseDrains
  <2>1. target \in stopped /\ target \in Runs
    BY NamesAssumption DEF CloserInv
  <2>2. wpc[target] = "finished"
    BY <2>1 DEF OnceInv
  <2>3. buf[target] = <<>>
    BY <2>1, <2>2 DEF WorkerInv, SingleWorker, Active
  <2>4. closeMark =< Len(taken) + Len(buf[target])
    BY <2>2 DEF DrainInv, PastLast
  <2> QED BY <2>3, <2>4 DEF TypeOK, FileTypeOK, CloserTypeOK
<1> HIDE DEF Inv
<1> QED BY <1>1, <1>2, <1>3, TypeCorrect, PTL DEF Spec
-----------------------------------------------------------------------------
(* What is in the file. *)

\* Steps that write nothing and change no condition of FileIsComplete.
LEMMA FileFrame ==
  ASSUME FileIsComplete, UNCHANGED <<fileVars, cur, target, timedOut>>
  PROVE  FileIsComplete'
BY DEF FileIsComplete, Unawaited, fileVars

\* A write that finds the file closed is a run's that Close did not await.
LEMMA FileHandOver ==
  ASSUME TypeOK, WorkerInv, OnceInv, CloserInv, FileIsComplete,
         NEW r \in Runs, Active(r), HandOver(r), UNCHANGED <<lifeVars, closerVars>>
  PROVE  FileIsComplete'
<1>1. cur = r /\ r # NoRun /\ r \notin stopped
  BY NamesAssumption DEF WorkerInv, SingleWorker, OnceInv, Active
<1>2. file = "closed" => Unawaited'
  BY <1>1 DEF CloserInv, Unawaited, HandOver, lifeVars, closerVars
<1>3. buf[r] \in Seq(Entry) /\ taken \in Seq(Entry) /\ taken' = taken \o buf[r]
  BY DEF HandOver, TypeOK, WorkTypeOK, FileTypeOK
<1>4. CASE file = "closed"
  BY <1>2, <1>4 DEF FileIsComplete
<1>5. CASE file = "open" /\ wErr
  BY <1>5 DEF FileIsComplete, Unawaited, HandOver, WriteThrough
<1>6. CASE file = "open" /\ ~wErr
  <2>1. out = taken
    BY <1>6 DEF FileIsComplete, Unawaited
  <2>2. out' = out \o buf[r] \/ wErr'
    BY <1>6 DEF HandOver, WriteThrough
  <2> QED BY <1>3, <2>1, <2>2 DEF FileIsComplete
<1> QED BY <1>4, <1>5, <1>6 DEF TypeOK, FileTypeOK

\* Every step keeps FileIsComplete.
LEMMA FileStep ==
  TypeOK /\ WorkerInv /\ OnceInv /\ CloserInv /\ FileIsComplete /\ [Next]_vars
    => FileIsComplete'
<1> SUFFICES ASSUME TypeOK, WorkerInv, OnceInv, CloserInv, FileIsComplete, [Next]_vars
             PROVE  FileIsComplete'
  OBVIOUS
<1>1. ASSUME NEW p \in Producers, Log(p) PROVE FileIsComplete'
  BY <1>1, FileFrame DEF Log, fileVars, lifeVars, closerVars
<1>2. ASSUME NEW p \in Producers, BlockedSend(p) PROVE FileIsComplete'
  BY <1>2, FileFrame DEF BlockedSend, fileVars, lifeVars, closerVars
<1>3. ASSUME NEW p \in Producers, BlockTimeout(p) PROVE FileIsComplete'
  BY <1>3, FileFrame DEF BlockTimeout, AfterBlock, fileVars, lifeVars, closerVars
<1>4. ASSUME NEW p \in Producers, Drop(p) PROVE FileIsComplete'
  BY <1>4, FileFrame DEF Drop, fileVars, lifeVars, closerVars
<1>5. ASSUME NEW p \in Producers, CountLevel(p) PROVE FileIsComplete'
  BY <1>5, FileFrame DEF CountLevel, CountedAt, fileVars, lifeVars, closerVars
<1>6. ASSUME NEW r \in Runs, StartCall(r) PROVE FileIsComplete'
  BY <1>6, FileFrame DEF StartCall, fileVars, lifeVars, closerVars
<1>7. ASSUME NEW r \in Runs, CancelCtx(r) PROVE FileIsComplete'
  BY <1>7, FileFrame DEF CancelCtx, fileVars, lifeVars, closerVars
<1>8. ASSUME NEW r \in Runs, Register(r) PROVE FileIsComplete'
  <2>1. r \notin stopped /\ r # NoRun
    BY <1>8, NamesAssumption DEF Register, OnceInv
  <2>2. Unawaited => Unawaited'
    BY <1>8, <2>1 DEF Register, Unawaited, CloserInv, fileVars, closerVars
  <2> QED BY <1>8, <2>2 DEF Register, FileIsComplete, fileVars
<1>9. ASSUME NEW r \in Runs, RefuseStart(r) PROVE FileIsComplete'
  BY <1>9, FileFrame DEF RefuseStart, fileVars, lifeVars, closerVars
<1>10. ASSUME NEW r \in Runs, SweepMore(r) PROVE FileIsComplete'
  BY <1>10, FileFrame DEF SweepMore, StartBatch, fileVars, lifeVars, closerVars
<1>11. ASSUME NEW r \in Runs, SweepEmpty(r) PROVE FileIsComplete'
  BY <1>11, FileFrame DEF SweepEmpty, fileVars, lifeVars, closerVars
<1>12. ASSUME NEW r \in Runs, BatchMore(r) PROVE FileIsComplete'
  BY <1>12, FileFrame DEF BatchMore, fileVars, lifeVars, closerVars
<1>13. ASSUME NEW r \in Runs, BatchEnd(r) PROVE FileIsComplete'
  BY <1>13, FileFrame DEF BatchEnd, fileVars, lifeVars, closerVars
<1>14. ASSUME NEW r \in Runs, WriteOut(r) PROVE FileIsComplete'
  BY <1>14, FileHandOver DEF WriteOut, HandOver, Active, lifeVars, closerVars
<1>15. ASSUME NEW r \in Runs, LastWrite(r) PROVE FileIsComplete'
  BY <1>15, FileHandOver DEF LastWrite, HandOver, Active, lifeVars, closerVars
<1>16. ASSUME NEW r \in Runs, Confirm(r) PROVE FileIsComplete'
  BY <1>16, FileFrame DEF Confirm, Answer, fileVars, lifeVars, closerVars
<1>17. ASSUME NEW r \in Runs, Exit(r) PROVE FileIsComplete'
  BY <1>17, FileFrame DEF Exit, fileVars, lifeVars, closerVars
<1>18. ASSUME NEW r \in Runs, CloseStopped(r) PROVE FileIsComplete'
  BY <1>18, FileFrame DEF CloseStopped, fileVars, lifeVars, closerVars
<1>19. ASSUME NEW r \in Runs, SelectCtxDone(r) PROVE FileIsComplete'
  BY <1>19, FileFrame DEF SelectCtxDone, fileVars, lifeVars, closerVars
<1>20. ASSUME NEW r \in Runs, SelectLog(r) PROVE FileIsComplete'
  BY <1>20, FileFrame DEF SelectLog, StartBatch, fileVars, lifeVars, closerVars
<1>21. ASSUME NEW r \in Runs, Tick(r) PROVE FileIsComplete'
  BY <1>21, FileFrame DEF Tick, TickDue, fileVars, lifeVars, closerVars
<1>22. ASSUME NEW r \in Runs, SelectFlush(r) PROVE FileIsComplete'
  BY <1>22, FileFrame DEF SelectFlush, RequestReady, fileVars, lifeVars, closerVars
<1>23. ASSUME NEW f \in Flushes, FlushCall(f) PROVE FileIsComplete'
  BY <1>23, FileFrame DEF FlushCall, fileVars, lifeVars, closerVars
<1>24. ASSUME NEW f \in Flushes, FlushLock(f) PROVE FileIsComplete'
  BY <1>24, FileFrame DEF FlushLock, fileVars, lifeVars, closerVars
<1>25. ASSUME NEW f \in Flushes, FlushSend(f) PROVE FileIsComplete'
  BY <1>25, FileFrame DEF FlushSend, fileVars, lifeVars, closerVars
<1>26. ASSUME NEW f \in Flushes, FlushDone(f) PROVE FileIsComplete'
  BY <1>26, FileFrame DEF FlushDone, fileVars, lifeVars, closerVars
<1>27. ASSUME NEW f \in Flushes, FlushTimeout(f) PROVE FileIsComplete'
  BY <1>27, FileFrame DEF FlushTimeout, GiveUp, fileVars, lifeVars, closerVars
<1>28. ASSUME NEW c \in Closes, CloseCall(c) PROVE FileIsComplete'
  BY <1>28, FileFrame DEF CloseCall, fileVars, lifeVars, closerVars
<1>29. ASSUME NEW c \in Closes, StopWorker(c) PROVE FileIsComplete'
  BY <1>29 DEF StopWorker, NothingToStop, FileIsComplete, Unawaited, CloserInv, fileVars, lifeVars
<1>30. ASSUME NEW c \in Closes, CloseAwait(c) PROVE FileIsComplete'
  BY <1>30, FileFrame DEF CloseAwait, fileVars, lifeVars, closerVars
<1>31. ASSUME NEW c \in Closes, CloseTimeout(c) PROVE FileIsComplete'
  BY <1>31 DEF CloseTimeout, FileIsComplete, Unawaited, fileVars, lifeVars
<1>32. ASSUME NEW c \in Closes, CloseFile(c) PROVE FileIsComplete'
  <2>1. Unawaited => Unawaited'
    BY <1>32 DEF CloseFile, Unawaited, lifeVars
  <2>2. CASE wErr
    BY <1>32, <2>1, <2>2 DEF CloseFile, FileIsComplete
  <2>3. CASE ~wErr
    <3>1. PICK b \in InWrite \cup {<<>>} : \E i, j \in 0..Len(b) :
            out' = out \o SubSeq(b, 1, i) \o SubSeq(b, 1, j)
      BY <1>32, <2>3 DEF CloseFile
    <3>2. CASE b = <<>>
      <4>1. out' = out
        <5>1. PICK i \in 0..Len(b), j \in 0..Len(b) :
                out' = (out \o SubSeq(b, 1, i)) \o SubSeq(b, 1, j)
          BY <3>1
        <5>2. SubSeq(b, 1, i) = <<>> /\ SubSeq(b, 1, j) = <<>>
          BY <3>2
        <5>3. out \o <<>> = out
          BY DEF TypeOK, FileTypeOK
        <5> QED BY <5>1, <5>2, <5>3
      <4> QED BY <1>32, <2>1, <4>1 DEF CloseFile, FileIsComplete
    <3>3. CASE b # <<>>
      <4>1. PICK s \in Runs : wpc[s] \in {"write", "lastwrite"}
        BY <3>1, <3>3 DEF InWrite
      <4>2. cur = s /\ s # NoRun /\ s \notin stopped
        BY <4>1, NamesAssumption DEF WorkerInv, SingleWorker, Active, OnceInv
      <4>3. timedOut \/ target # cur
        BY <1>32, <4>2 DEF CloseFile, CloserInv
      <4> QED BY <1>32, <4>3 DEF CloseFile, FileIsComplete, Unawaited, lifeVars
    <3> QED BY <3>2, <3>3
  <2> QED BY <2>2, <2>3
<1>33. CASE UNCHANGED vars
  BY <1>33, FileFrame DEF vars, fileVars, lifeVars, closerVars
<1> QED
  BY <1>1, <1>2, <1>3, <1>4, <1>5, <1>6, <1>7, <1>8, <1>9, <1>10, <1>11, <1>12, <1>13, <1>14, <1>15, <1>16, <1>17, <1>18, <1>19, <1>20, <1>21, <1>22, <1>23, <1>24, <1>25, <1>26, <1>27, <1>28, <1>29, <1>30, <1>31, <1>32, <1>33
  DEF Next, Produce, WorkerStep, Select, Flush, Close

\* The log file holds exactly what the worker handed over, in order, unless a
\* write failed or Close closed the file under a run it had not waited for.
THEOREM CompleteFile == Spec => []FileIsComplete
<1> DEFINE Inv == WorkerInv /\ ModeInv /\ OnceInv /\ CloserInv /\ FileIsComplete
<1>1. Init => Inv
  BY DEF Init, WorkerInv, SingleWorker, Active, ModeInv, OnceInv, CloserInv, Won,
         FileIsComplete
<1>2. TypeOK /\ Inv /\ [Next]_vars => Inv'
  BY WorkerStepInv, ModeStep, OnceStep, CloserStep, FileStep
<1>3. Inv => FileIsComplete
  OBVIOUS
<1> HIDE DEF Inv
<1> QED BY <1>1, <1>2, <1>3, TypeCorrect, PTL DEF Spec
-----------------------------------------------------------------------------
(* The pipeline implements LogPipe. *)

\* What is left of a concatenation without its first part is its second part.
LEMMA SuffixOfConcat ==
  ASSUME NEW S, NEW s \in Seq(S), NEW t \in Seq(S)
  PROVE  SubSeq(s \o t, Len(s) + 1, Len(s \o t)) = t
<1> DEFINE u == SubSeq(s \o t, Len(s) + 1, Len(s \o t))
<1>1. s \o t \in Seq(S) /\ Len(s \o t) = Len(s) + Len(t)
  OBVIOUS
<1>2. u \in Seq(S) /\ Len(u) = Len(t)
  BY <1>1
<1>3. \A i \in 1..Len(t) : u[i] = t[i]
  <2> TAKE i \in 1..Len(t)
  <2>1. u[i] = (s \o t)[Len(s) + i]
    BY <1>1, <1>2
  <2>2. (s \o t)[Len(s) + i] = t[i]
    BY <1>1
  <2> QED BY <2>1, <2>2
<1> HIDE DEF u
<1>4. u = t
  BY <1>2, <1>3, SeqEqual
<1> QED BY <1>4 DEF u

\* A step that moves no entry is a stutter of the abstract queue.
LEMMA PipeFrame ==
  ASSUME UNCHANGED <<logCh, taken, cur, buf>>
  PROVE  UNCHANGED Pipe!pipeVars
BY DEF Pipe!pipeVars, Held

\* A send is an Accept.
LEMMA PipeSend ==
  ASSUME TypeOK, NEW e \in Entry, Send(e), UNCHANGED <<fileVars, lifeVars, workVars>>
  PROVE  Pipe!PipeNext
<1>1. Held' = Held /\ taken' = taken
  BY DEF Held, fileVars, lifeVars, workVars
<1>2. Held \o Append(logCh, e) = Append(Held \o logCh, e)
  BY HeldType DEF TypeOK, ChanTypeOK
<1> QED BY <1>1, <1>2 DEF Pipe!PipeNext, Pipe!Accept, Send

\* A receive of the worker moves an entry within pending: a stutter.
LEMMA PipeTake ==
  ASSUME TypeOK, WorkerInv, NEW r \in Runs, Active(r), Take(r),
         UNCHANGED <<fileVars, lifeVars>>
  PROVE  UNCHANGED Pipe!pipeVars
<1>1. cur = r /\ r # NoRun
  BY NamesAssumption DEF WorkerInv, SingleWorker
<1>2. Held = buf[r] /\ Held' = Append(buf[r], Head(logCh))
  BY <1>1 DEF Held, Take, lifeVars, TypeOK, WorkTypeOK
<1>3. buf[r] \in Seq(Entry) /\ logCh \in Seq(Entry) /\ logCh # <<>>
  BY DEF TypeOK, WorkTypeOK, ChanTypeOK, Take
<1>4. Append(buf[r], Head(logCh)) \o Tail(logCh) = buf[r] \o logCh
  BY <1>3
<1> QED BY <1>2, <1>4 DEF Pipe!pipeVars, Take, fileVars

\* A write is a Deliver of the whole buffer, or a stutter if it is empty.
LEMMA PipeHandOver ==
  ASSUME TypeOK, WorkerInv, NEW r \in Runs, Active(r), HandOver(r),
         UNCHANGED <<chanVars, lifeVars>>
  PROVE  [Pipe!PipeNext]_(Pipe!pipeVars)
<1>1. cur = r /\ r # NoRun
  BY NamesAssumption DEF WorkerInv, SingleWorker
<1>2. Held = buf[r] /\ Held' = <<>>
  BY <1>1 DEF Held, HandOver, Emptied, lifeVars, TypeOK, WorkTypeOK
<1>3. taken' = taken \o buf[r] /\ logCh' = logCh
  BY DEF HandOver, chanVars
<1>4. taken \in Seq(Entry) /\ buf[r] \in Seq(Entry) /\ logCh \in Seq(Entry)
  BY DEF TypeOK, FileTypeOK, WorkTypeOK, ChanTypeOK
<1>5. CASE buf[r] = <<>>
  <2>1. taken \o <<>> = taken
    BY <1>4
  <2> QED BY <1>2, <1>3, <1>5, <2>1 DEF Pipe!pipeVars
<1>6. CASE buf[r] # <<>>
  <2> DEFINE pending == buf[r] \o logCh
             k == Len(buf[r])
  <2>1. k \in 1..Len(pending)
    BY <1>4, <1>6
  <2>2. SubSeq(pending, 1, k) = buf[r]
    BY <1>4, ConcatProperties
  <2>3. SubSeq(pending, k + 1, Len(pending)) = logCh
    BY <1>4, SuffixOfConcat
  <2>4. <<>> \o logCh = logCh
    BY <1>4
  <2> HIDE DEF k
  <2> QED BY <1>2, <1>3, <2>1, <2>2, <2>3, <2>4 DEF Pipe!PipeNext, Pipe!Deliver
<1> QED BY <1>5, <1>6

\* Every step is an Accept, a Deliver or a stutter.
LEMMA PipeStep ==
  TypeOK /\ WorkerInv /\ [Next]_vars => [Pipe!PipeNext]_(Pipe!pipeVars)
<1> SUFFICES ASSUME TypeOK, WorkerInv, [Next]_vars PROVE [Pipe!PipeNext]_(Pipe!pipeVars)
  OBVIOUS
<1>1. ASSUME NEW p \in Producers, Log(p) PROVE [Pipe!PipeNext]_(Pipe!pipeVars)
  <2>1. CASE HasSpace
    BY <1>1, <2>1, PipeSend, EntryOfLog DEF Log
  <2>2. CASE ~HasSpace
    BY <1>1, <2>2, PipeFrame DEF Log, chanVars, fileVars, lifeVars, workVars
  <2> QED BY <2>1, <2>2
<1>2. ASSUME NEW p \in Producers, BlockedSend(p) PROVE [Pipe!PipeNext]_(Pipe!pipeVars)
  BY <1>2, PipeSend, EntryOfLog DEF BlockedSend
<1>3. ASSUME NEW p \in Producers, BlockTimeout(p) PROVE [Pipe!PipeNext]_(Pipe!pipeVars)
  BY <1>3, PipeFrame DEF BlockTimeout, AfterBlock, chanVars, fileVars, lifeVars, workVars
<1>4. ASSUME NEW p \in Producers, Drop(p) PROVE [Pipe!PipeNext]_(Pipe!pipeVars)
  BY <1>4, PipeFrame DEF Drop, chanVars, fileVars, lifeVars, workVars
<1>5. ASSUME NEW p \in Producers, CountLevel(p) PROVE [Pipe!PipeNext]_(Pipe!pipeVars)
  BY <1>5, PipeFrame DEF CountLevel, CountedAt, chanVars, fileVars, lifeVars, workVars
<1>6. ASSUME NEW r \in Runs, StartCall(r) PROVE [Pipe!PipeNext]_(Pipe!pipeVars)
  BY <1>6, PipeFrame DEF StartCall, chanVars, fileVars, lifeVars, workVars
<1>7. ASSUME NEW r \in Runs, CancelCtx(r) PROVE [Pipe!PipeNext]_(Pipe!pipeVars)
  BY <1>7, PipeFrame DEF CancelCtx, chanVars, fileVars, lifeVars, workVars
<1>8. ASSUME NEW r \in Runs, Register(r) PROVE [Pipe!PipeNext]_(Pipe!pipeVars)
  <2>1. Held = <<>>
    BY <1>8 DEF Register, CanRegister, Held, WorkerInv, SingleWorker, TypeOK, LifeTypeOK
  <2>2. buf[r] = <<>> /\ r # NoRun
    BY <1>8, NamesAssumption DEF Register, CanRegister, WorkerInv, SingleWorker
  <2>3. Held' = <<>>
    BY <1>8, <2>2 DEF Register, Held
  <2> QED BY <1>8, <2>1, <2>3 DEF Register, Pipe!pipeVars, chanVars, fileVars
<1>9. ASSUME NEW r \in Runs, RefuseStart(r) PROVE [Pipe!PipeNext]_(Pipe!pipeVars)
  BY <1>9, PipeFrame DEF RefuseStart, chanVars, fileVars, lifeVars, workVars
<1>10. ASSUME NEW r \in Runs, SweepMore(r) PROVE [Pipe!PipeNext]_(Pipe!pipeVars)
  BY <1>10, PipeTake DEF SweepMore, StartBatch, Active, lifeVars, fileVars
<1>11. ASSUME NEW r \in Runs, SweepEmpty(r) PROVE [Pipe!PipeNext]_(Pipe!pipeVars)
  BY <1>11, PipeFrame DEF SweepEmpty, chanVars, fileVars, lifeVars, workVars
<1>12. ASSUME NEW r \in Runs, BatchMore(r) PROVE [Pipe!PipeNext]_(Pipe!pipeVars)
  BY <1>12, PipeTake DEF BatchMore, Active, lifeVars, fileVars
<1>13. ASSUME NEW r \in Runs, BatchEnd(r) PROVE [Pipe!PipeNext]_(Pipe!pipeVars)
  BY <1>13, PipeFrame DEF BatchEnd, chanVars, fileVars, lifeVars, workVars
<1>14. ASSUME NEW r \in Runs, WriteOut(r) PROVE [Pipe!PipeNext]_(Pipe!pipeVars)
  BY <1>14, PipeHandOver DEF WriteOut, HandOver, Active, lifeVars, chanVars
<1>15. ASSUME NEW r \in Runs, LastWrite(r) PROVE [Pipe!PipeNext]_(Pipe!pipeVars)
  BY <1>15, PipeHandOver DEF LastWrite, HandOver, Active, lifeVars, chanVars
<1>16. ASSUME NEW r \in Runs, Confirm(r) PROVE [Pipe!PipeNext]_(Pipe!pipeVars)
  BY <1>16, PipeFrame DEF Confirm, Answer, chanVars, fileVars, lifeVars, workVars
<1>17. ASSUME NEW r \in Runs, Exit(r) PROVE [Pipe!PipeNext]_(Pipe!pipeVars)
  BY <1>17, PipeFrame DEF Exit, chanVars, fileVars, lifeVars, workVars
<1>18. ASSUME NEW r \in Runs, CloseStopped(r) PROVE [Pipe!PipeNext]_(Pipe!pipeVars)
  BY <1>18, PipeFrame DEF CloseStopped, chanVars, fileVars, lifeVars, workVars
<1>19. ASSUME NEW r \in Runs, SelectCtxDone(r) PROVE [Pipe!PipeNext]_(Pipe!pipeVars)
  BY <1>19, PipeFrame DEF SelectCtxDone, chanVars, fileVars, lifeVars, workVars
<1>20. ASSUME NEW r \in Runs, SelectLog(r) PROVE [Pipe!PipeNext]_(Pipe!pipeVars)
  BY <1>20, PipeTake DEF SelectLog, StartBatch, Active, lifeVars, fileVars
<1>21. ASSUME NEW r \in Runs, Tick(r) PROVE [Pipe!PipeNext]_(Pipe!pipeVars)
  BY <1>21, PipeFrame DEF Tick, TickDue, chanVars, fileVars, lifeVars, workVars
<1>22. ASSUME NEW r \in Runs, SelectFlush(r) PROVE [Pipe!PipeNext]_(Pipe!pipeVars)
  BY <1>22, PipeFrame DEF SelectFlush, RequestReady, chanVars, fileVars, lifeVars, workVars
<1>23. ASSUME NEW f \in Flushes, FlushCall(f) PROVE [Pipe!PipeNext]_(Pipe!pipeVars)
  BY <1>23, PipeFrame DEF FlushCall, chanVars, fileVars, lifeVars, workVars
<1>24. ASSUME NEW f \in Flushes, FlushLock(f) PROVE [Pipe!PipeNext]_(Pipe!pipeVars)
  BY <1>24, PipeFrame DEF FlushLock, chanVars, fileVars, lifeVars, workVars
<1>25. ASSUME NEW f \in Flushes, FlushSend(f) PROVE [Pipe!PipeNext]_(Pipe!pipeVars)
  BY <1>25, PipeFrame DEF FlushSend, chanVars, fileVars, lifeVars, workVars
<1>26. ASSUME NEW f \in Flushes, FlushDone(f) PROVE [Pipe!PipeNext]_(Pipe!pipeVars)
  BY <1>26, PipeFrame DEF FlushDone, chanVars, fileVars, lifeVars, workVars
<1>27. ASSUME NEW f \in Flushes, FlushTimeout(f) PROVE [Pipe!PipeNext]_(Pipe!pipeVars)
  BY <1>27, PipeFrame DEF FlushTimeout, GiveUp, chanVars, fileVars, lifeVars, workVars
<1>28. ASSUME NEW c \in Closes, CloseCall(c) PROVE [Pipe!PipeNext]_(Pipe!pipeVars)
  BY <1>28, PipeFrame DEF CloseCall, chanVars, fileVars, lifeVars, workVars
<1>29. ASSUME NEW c \in Closes, StopWorker(c) PROVE [Pipe!PipeNext]_(Pipe!pipeVars)
  BY <1>29, PipeFrame DEF StopWorker, NothingToStop, chanVars, fileVars, lifeVars, workVars
<1>30. ASSUME NEW c \in Closes, CloseAwait(c) PROVE [Pipe!PipeNext]_(Pipe!pipeVars)
  BY <1>30, PipeFrame DEF CloseAwait, chanVars, fileVars, lifeVars, workVars
<1>31. ASSUME NEW c \in Closes, CloseTimeout(c) PROVE [Pipe!PipeNext]_(Pipe!pipeVars)
  BY <1>31, PipeFrame DEF CloseTimeout, chanVars, fileVars, lifeVars, workVars
<1>32. ASSUME NEW c \in Closes, CloseFile(c) PROVE [Pipe!PipeNext]_(Pipe!pipeVars)
  BY <1>32, PipeFrame DEF CloseFile, chanVars, fileVars, lifeVars, workVars
<1>33. CASE UNCHANGED vars
  BY <1>33, PipeFrame DEF vars, chanVars, fileVars, lifeVars, workVars
<1> QED
  BY <1>1, <1>2, <1>3, <1>4, <1>5, <1>6, <1>7, <1>8, <1>9, <1>10, <1>11, <1>12, <1>13, <1>14, <1>15, <1>16, <1>17, <1>18, <1>19, <1>20, <1>21, <1>22, <1>23, <1>24, <1>25, <1>26, <1>27, <1>28, <1>29, <1>30, <1>31, <1>32, <1>33
  DEF Next, Produce, WorkerStep, Select, Flush, Close

\* Channel, batches, sweeps, restarts and shutdowns together behave like one
\* queue that is filled at one end and emptied from the other.
THEOREM Implementation == Spec => ImplementsPipe
<1>1. Init => WorkerInv /\ Pipe!PipeInit
  BY DEF Init, WorkerInv, SingleWorker, Active, Pipe!PipeInit, Held
<1> QED BY <1>1, WorkerStepInv, PipeStep, TypeCorrect, PTL DEF Spec, ImplementsPipe, Pipe!PipeSpec
-----------------------------------------------------------------------------
(* Every drop is counted: DropsAccounted and LevelDropsAccounted.          *)

\* What producers have logged and neither got accepted nor have in hand.
Missing(pcs) == [p \in Producers |-> sent[p] - AcceptedBy(p) - InHand(p, pcs)]

InDispatch   == {"blocked", "drop"}
Uncounted    == {"blocked", "drop", "count"}
AtLevel(v)   == {p \in Producers : LevelOf[p] = v}

\* The two properties, written with SumOf.
DropSum  == drops = SumOf(Missing(InDispatch), Producers)
LevelSum == \A v \in Levels : dropsByLevel[v] = SumOf(Missing(Uncounted), AtLevel(v))

\* What the properties write with LAMBDA is SumOf(Missing(pcs), S).
LEMMA MissingSum ==
  ASSUME NEW S, S \subseteq Producers, NEW pcs
  PROVE  MapThenSumSet(LAMBDA p : sent[p] - AcceptedBy(p) - InHand(p, pcs), S)
           = SumOf(Missing(pcs), S)
<1> DEFINE f == Missing(pcs)
           at(p) == sent[p] - AcceptedBy(p) - InHand(p, pcs)
<1>1. \A p \in Producers : f[p] = sent[p] - AcceptedBy(p) - InHand(p, pcs)
  BY DEF Missing
<1> HIDE DEF f
<1>2. \A s \in SUBSET S : s # {} => First(s) \in Producers
  BY DEF First
<1>3. \A g : [s \in SUBSET S |-> IF s = {} THEN 0 ELSE at(First(s)) + g[s \ {First(s)}]]
           = [s \in SUBSET S |-> IF s = {} THEN 0 ELSE f[First(s)] + g[s \ {First(s)}]]
  BY <1>1, <1>2
<1>4. MapThenSumSet(LAMBDA p : sent[p] - AcceptedBy(p) - InHand(p, pcs), S) =
        (CHOOSE g : g = [s \in SUBSET S |->
                           IF s = {} THEN 0 ELSE at(First(s)) + g[s \ {First(s)}]])[S]
  BY DEF MapThenSumSet, MapThenFoldSet, First
<1>5. SumOf(f, S) =
        (CHOOSE g : g = [s \in SUBSET S |->
                           IF s = {} THEN 0 ELSE f[First(s)] + g[s \ {First(s)}]])[S]
  BY DEF SumOf, MapThenSumSet, MapThenFoldSet, First
<1>6. (CHOOSE g : g = [s \in SUBSET S |->
                         IF s = {} THEN 0 ELSE at(First(s)) + g[s \ {First(s)}]])
      = (CHOOSE g : g = [s \in SUBSET S |->
                           IF s = {} THEN 0 ELSE f[First(s)] + g[s \ {First(s)}]])
  BY <1>3
<1> QED BY <1>4, <1>5, <1>6 DEF f

LEMMA SumsAreProperties ==
  /\ DropSum => DropsAccounted
  /\ LevelSum => LevelDropsAccounted
<1>1. DropSum => DropsAccounted
  BY MissingSum DEF DropSum, DropsAccounted, InDispatch
<1>2. LevelSum => LevelDropsAccounted
  <2> SUFFICES ASSUME LevelSum, NEW v \in Levels
               PROVE  dropsByLevel[v] =
                        MapThenSumSet(LAMBDA p : sent[p] - AcceptedBy(p) - InHand(p, Uncounted), AtLevel(v))
    BY DEF LevelDropsAccounted, Uncounted, AtLevel
  <2>1. AtLevel(v) \subseteq Producers
    BY DEF AtLevel
  <2> QED BY <2>1, MissingSum DEF LevelSum
<1> QED BY <1>1, <1>2

\* The positions of producer q's entries in a sequence.
EntriesOf(q, s) == {i \in 1..Len(s) : s[i][1] = q}

LEMMA CountOne ==
  ASSUME NEW s \in Seq(Entry), NEW e \in Entry, NEW q
  PROVE  /\ Cardinality(EntriesOf(q, s)) \in Nat
         /\ Cardinality(EntriesOf(q, Append(s, e)))
              = Cardinality(EntriesOf(q, s)) + IF e[1] = q THEN 1 ELSE 0
<1> DEFINE old == EntriesOf(q, s)
           n == Len(s) + 1
<1>1. Len(s) \in Nat /\ Len(Append(s, e)) = n
  OBVIOUS
<1>2. old \subseteq 1..Len(s) /\ IsFiniteSet(1..Len(s))
  BY <1>1, FS_Interval DEF EntriesOf
<1>3. IsFiniteSet(old) /\ Cardinality(old) \in Nat
  BY <1>2, FS_Subset, FS_CardinalityType
<1>4. \A i \in 1..Len(s) : Append(s, e)[i] = s[i]
  OBVIOUS
<1>5. Append(s, e)[n] = e
  BY <1>1
<1>6. EntriesOf(q, Append(s, e)) = IF e[1] = q THEN old \cup {n} ELSE old
  BY <1>1, <1>4, <1>5 DEF EntriesOf
<1>7. n \notin old
  BY <1>1, <1>2
<1> HIDE DEF old
<1>8. Cardinality(old \cup {n}) = Cardinality(old) + 1
  BY <1>3, <1>7, FS_AddElement
<1> QED BY <1>3, <1>6, <1>8 DEF old

\* A send of p's entry is one accepted entry more of p and of nobody else.
LEMMA AcceptedMore ==
  ASSUME TypeOK, NEW e \in Entry, accepted' = Append(accepted, e)
  PROVE  \A q \in Producers :
            AcceptedBy(q) \in Nat /\ AcceptedBy(q)' = AcceptedBy(q) + IF e[1] = q THEN 1 ELSE 0
<1>1. accepted \in Seq(Entry)
  BY DEF TypeOK, ChanTypeOK
<1>2. \A q : AcceptedBy(q) = Cardinality(EntriesOf(q, accepted))
  BY DEF AcceptedBy, EntriesOf
<1>3. \A q : AcceptedBy(q)' = Cardinality(EntriesOf(q, accepted'))
  BY DEF AcceptedBy, EntriesOf
<1> QED BY <1>1, <1>2, <1>3, CountOne

LEMMA AcceptedSame ==
  ASSUME TypeOK
  PROVE  \A q \in Producers :
            /\ AcceptedBy(q) \in Nat
            /\ UNCHANGED accepted => AcceptedBy(q)' = AcceptedBy(q)
<1>1. accepted \in Seq(Entry)
  BY DEF TypeOK, ChanTypeOK
<1>2. \A q : AcceptedBy(q) = Cardinality(EntriesOf(q, accepted))
  BY DEF AcceptedBy, EntriesOf
<1>3. \A q : AcceptedBy(q) \in Nat
  <2> TAKE q
  <2>1. EntriesOf(q, accepted) \subseteq 1..Len(accepted) /\ IsFiniteSet(1..Len(accepted))
    BY <1>1, FS_Interval DEF EntriesOf
  <2> QED BY <1>2, <2>1, FS_Subset, FS_CardinalityType
<1> QED BY <1>3 DEF AcceptedBy

\* A step in which producer p's share of Missing grows by d and no other's.
LEMMA MissingShift ==
  ASSUME IsFiniteSet(Producers), TypeOK,
         NEW pcs, NEW p \in Producers, NEW d \in Int,
         \A q \in Producers : Missing(pcs)'[q] = Missing(pcs)[q] + (IF q = p THEN d ELSE 0)
  PROVE  \A S \in SUBSET Producers :
            /\ SumOf(Missing(pcs), S) \in Int
            /\ SumOf(Missing(pcs)', S) = SumOf(Missing(pcs), S) + (IF p \in S THEN d ELSE 0)
<1>1. PICK f : f = Missing(pcs)
  OBVIOUS
<1>2. PICK g : g = Missing(pcs)'
  OBVIOUS
<1>3. \A q \in Producers : f[q] \in Int
  <2> TAKE q \in Producers
  <2>1. AcceptedBy(q) \in Nat /\ sent[q] \in Int /\ InHand(q, pcs) \in Int
    BY AcceptedSame DEF TypeOK, ProducerTypeOK, InHand
  <2>2. f[q] = sent[q] - AcceptedBy(q) - InHand(q, pcs)
    BY <1>1 DEF Missing
  <2> QED BY <2>1, <2>2
<1>4. \A q \in Producers : g[q] = f[q] + (IF q = p THEN d ELSE 0)
  BY <1>1, <1>2
<1>5. f = [q \in Producers |-> f[q]] /\ g = [q \in Producers |-> g[q]]
  BY <1>1, <1>2 DEF Missing
<1>6. ASSUME NEW S \in SUBSET Producers
      PROVE  SumOf(f, S) \in Int /\ SumOf(g, S) = SumOf(f, S) + (IF p \in S THEN d ELSE 0)
  <2>1. IsFiniteSet(S)
    BY FS_Subset
  <2>2. \A y \in S : f[y] \in Int /\ g[y] \in Int
    BY <1>3, <1>4
  <2>3. CASE p \in S
    <3>1. SumOf(f, S) \in Int /\ SumOf(g, S) = SumOf(f, S) + (g[p] - f[p])
      <4>1. \A y \in S : y # p => g[y] = f[y]
        BY <1>3, <1>4
      <4>2. \A x \in S : (\A y \in S : y # x => g[y] = f[y])
                          => SumOf(f, S) \in Int /\ SumOf(g, S) = SumOf(f, S) + (g[x] - f[x])
        BY <2>1, <2>2, SumPoint
      <4> QED BY <2>3, <4>1, <4>2
    <3>2. g[p] - f[p] = d
      BY <1>3, <1>4
    <3> QED BY <2>3, <3>1, <3>2
  <2>4. CASE p \notin S
    <3>1. \A y \in S : g[y] = f[y]
      BY <1>3, <1>4, <2>4
    <3>2. SumOf(f, S) \in Int /\ SumOf(g, S) = SumOf(f, S)
      BY <2>1, <2>2, <3>1, SumSame
    <3> QED BY <2>4, <3>2
  <2> QED BY <2>3, <2>4
<1> QED BY <1>1, <1>2, <1>6

\* The sums after a step, from the change of one producer's share.
LEMMA SumsShift ==
  ASSUME IsFiniteSet(Producers), TypeOK, DropSum, LevelSum,
         NEW p \in Producers, NEW d \in {0, 1}, NEW c \in {0, 1},
         \A q \in Producers : Missing(InDispatch)'[q] = Missing(InDispatch)[q] + (IF q = p THEN d ELSE 0),
         \A q \in Producers : Missing(Uncounted)'[q] = Missing(Uncounted)[q] + (IF q = p THEN c ELSE 0),
         drops' = drops + d,
         \A v \in Levels : dropsByLevel'[v] = dropsByLevel[v] + (IF v = LevelOf[p] THEN c ELSE 0)
  PROVE  DropSum' /\ LevelSum'
<1>1. SumOf(Missing(InDispatch)', Producers) = SumOf(Missing(InDispatch), Producers) + d
  BY MissingShift
<1>2. DropSum'
  BY <1>1 DEF DropSum
<1>3. ASSUME NEW v \in Levels
      PROVE  dropsByLevel'[v] = SumOf(Missing(Uncounted)', AtLevel(v))
  <2>1. AtLevel(v) \in SUBSET Producers /\ (p \in AtLevel(v) <=> v = LevelOf[p])
    BY DEF AtLevel
  <2>2. SumOf(Missing(Uncounted)', AtLevel(v))
          = SumOf(Missing(Uncounted), AtLevel(v)) + (IF p \in AtLevel(v) THEN c ELSE 0)
    BY <2>1, MissingShift
  <2> QED BY <2>1, <2>2 DEF LevelSum
<1>4. LevelSum'
  BY <1>3 DEF LevelSum, AtLevel
<1> QED BY <1>2, <1>4

LEMMA SumsFrame ==
  ASSUME TypeOK, DropSum, LevelSum, UNCHANGED <<accepted, producerVars>>
  PROVE  DropSum' /\ LevelSum'
<1>1. \A pcs : Missing(pcs)' = Missing(pcs)
  BY AcceptedSame DEF Missing, InHand, producerVars
<1> QED BY <1>1 DEF DropSum, LevelSum, AtLevel, producerVars

\* Only the producers' own steps touch what the sums are about.
LEMMA ProducersOnly ==
  ASSUME [Next]_vars, ~ \E p \in Producers : Produce(p)
  PROVE  UNCHANGED <<accepted, producerVars>>
<1>1. ASSUME NEW r \in Runs, StartCall(r) \/ CancelCtx(r) PROVE UNCHANGED <<accepted, producerVars>>
  BY <1>1 DEF StartCall, CancelCtx, chanVars
<1>2. ASSUME NEW r \in Runs, WorkerStep(r) PROVE UNCHANGED <<accepted, producerVars>>
  BY <1>2 DEF WorkerStep, Register, RefuseStart, SweepMore, SweepEmpty, BatchMore, BatchEnd, WriteOut,
              LastWrite, Confirm, Answer, Exit, CloseStopped, StartBatch, Take, HandOver, chanVars
<1>3. ASSUME NEW r \in Runs, Select(r) PROVE UNCHANGED <<accepted, producerVars>>
  BY <1>3 DEF Select, SelectCtxDone, SelectLog, Tick, SelectFlush, StartBatch, Take, chanVars
<1>4. ASSUME NEW f \in Flushes, Flush(f) PROVE UNCHANGED <<accepted, producerVars>>
  BY <1>4 DEF Flush, FlushCall, FlushLock, FlushSend, FlushDone, FlushTimeout, chanVars
<1>5. ASSUME NEW c \in Closes, Close(c) PROVE UNCHANGED <<accepted, producerVars>>
  BY <1>5 DEF Close, CloseCall, StopWorker, CloseAwait, CloseTimeout, CloseFile, chanVars
<1>6. CASE UNCHANGED vars
  BY <1>6 DEF chanVars
<1> QED BY <1>1, <1>2, <1>3, <1>4, <1>5, <1>6 DEF Next

LEMMA SumsStep ==
  ASSUME IsFiniteSet(Producers), TypeOK, DropSum, LevelSum, [Next]_vars
  PROVE  DropSum' /\ LevelSum'
<1> USE SizesAssumption, NamesAssumption
<1> DEFINE Shift(p, d, c) ==
             /\ \A q \in Producers : Missing(InDispatch)'[q] = Missing(InDispatch)[q] + (IF q = p THEN d ELSE 0)
             /\ \A q \in Producers : Missing(Uncounted)'[q] = Missing(Uncounted)[q] + (IF q = p THEN c ELSE 0)
<1>0. /\ sent \in [Producers -> Int] /\ drops \in Nat /\ dropsByLevel \in [Levels -> Nat]
      /\ ppc \in [Producers -> {"idle", "blocked", "drop", "count"}]
  BY DEF TypeOK, ProducerTypeOK
<1>a. \A q \in Producers : AcceptedBy(q) \in Int
  BY AcceptedSame
<1>b. \A pcs : \A q \in Producers : /\ Missing(pcs)[q] = sent[q] - AcceptedBy(q) - InHand(q, pcs)
                                    /\ Missing(pcs)'[q] = sent'[q] - AcceptedBy(q)' - InHand(q, pcs)'
  BY DEF Missing
<1>1. ASSUME NEW p \in Producers, Log(p) PROVE DropSum' /\ LevelSum'
  <2>1. drops' = drops /\ dropsByLevel' = dropsByLevel /\ ppc[p] = "idle"
        /\ sent'[p] = sent[p] + 1
        /\ \A q \in Producers : q # p => sent'[q] = sent[q] /\ ppc'[q] = ppc[q]
    BY <1>1, <1>0 DEF Log
  <2>2. CASE HasSpace
    <3>1. <<p, sent[p] + 1>> \in Entry /\ accepted' = Append(accepted, <<p, sent[p] + 1>>) /\ ppc' = ppc
      BY <1>1, <2>2 DEF Log, Send, TypeOK, ProducerTypeOK, Entry
    <3>2. AcceptedBy(p)' = AcceptedBy(p) + 1 /\ \A q \in Producers : q # p => AcceptedBy(q)' = AcceptedBy(q)
      BY <3>1, <1>a, AcceptedMore
    <3>3. \A pcs : \A q \in Producers : InHand(q, pcs)' = InHand(q, pcs) /\ InHand(q, pcs) \in Int
      BY <3>1 DEF InHand
    <3>4. Shift(p, 0, 0)
      BY <1>0, <1>a, <1>b, <2>1, <3>2, <3>3
    <3> QED BY <2>1, <3>4, <1>0, SumsShift
  <2>3. CASE ~HasSpace
    <3>1. UNCHANGED accepted /\ ppc'[p] \in InDispatch
      BY <1>1, <1>0, <2>3 DEF Log, chanVars, InDispatch
    <3>2. \A q \in Producers : AcceptedBy(q)' = AcceptedBy(q)
      BY <3>1, AcceptedSame
    <3>3. Shift(p, 0, 0)
      BY <1>0, <1>a, <1>b, <2>1, <3>1, <3>2 DEF InHand, InDispatch, Uncounted
    <3> QED BY <2>1, <3>3, <1>0, SumsShift
  <2> QED BY <2>2, <2>3
<1>2. ASSUME NEW p \in Producers, BlockedSend(p) PROVE DropSum' /\ LevelSum'
  <2>1. /\ drops' = drops /\ dropsByLevel' = dropsByLevel /\ ppc[p] = "blocked" /\ ppc'[p] = "idle"
        /\ sent' = sent
        /\ \A q \in Producers : q # p => ppc'[q] = ppc[q]
    BY <1>2, <1>0 DEF BlockedSend
  <2>2. <<p, sent[p]>> \in Entry /\ accepted' = Append(accepted, <<p, sent[p]>>)
    BY <1>2 DEF BlockedSend, Send, TypeOK, ProducerTypeOK, Entry
  <2>3. AcceptedBy(p)' = AcceptedBy(p) + 1 /\ \A q \in Producers : q # p => AcceptedBy(q)' = AcceptedBy(q)
    BY <2>2, <1>a, AcceptedMore
  <2>4. Shift(p, 0, 0)
    BY <1>0, <1>a, <1>b, <2>1, <2>3 DEF InHand, InDispatch, Uncounted
  <2> QED BY <2>1, <2>4, <1>0, SumsShift
<1>3. ASSUME NEW p \in Producers, BlockTimeout(p) PROVE DropSum' /\ LevelSum'
  <2>1. /\ drops' = drops /\ dropsByLevel' = dropsByLevel /\ ppc[p] = "blocked" /\ ppc'[p] = "drop"
        /\ sent' = sent /\ UNCHANGED accepted
        /\ \A q \in Producers : q # p => ppc'[q] = ppc[q]
    BY <1>3, <1>0 DEF BlockTimeout, AfterBlock, chanVars
  <2>2. \A q \in Producers : AcceptedBy(q)' = AcceptedBy(q)
    BY <2>1, AcceptedSame
  <2>3. Shift(p, 0, 0)
    BY <1>0, <1>a, <1>b, <2>1, <2>2 DEF InHand, InDispatch, Uncounted
  <2> QED BY <2>1, <2>3, <1>0, SumsShift
<1>4. ASSUME NEW p \in Producers, Drop(p) PROVE DropSum' /\ LevelSum'
  <2>1. /\ drops' = drops + 1 /\ dropsByLevel' = dropsByLevel /\ ppc[p] = "drop" /\ ppc'[p] = "count"
        /\ sent' = sent /\ UNCHANGED accepted
        /\ \A q \in Producers : q # p => ppc'[q] = ppc[q]
    BY <1>4, <1>0 DEF Drop, chanVars
  <2>2. \A q \in Producers : AcceptedBy(q)' = AcceptedBy(q)
    BY <2>1, AcceptedSame
  <2>3. Shift(p, 1, 0)
    BY <1>0, <1>a, <1>b, <2>1, <2>2 DEF InHand, InDispatch, Uncounted
  <2> QED BY <2>1, <2>3, <1>0, SumsShift
<1>5. ASSUME NEW p \in Producers, CountLevel(p) PROVE DropSum' /\ LevelSum'
  <2>1. /\ drops' = drops /\ ppc[p] = "count" /\ ppc'[p] = "idle"
        /\ sent' = sent /\ UNCHANGED accepted
        /\ \A q \in Producers : q # p => ppc'[q] = ppc[q]
        /\ \A v \in Levels : dropsByLevel'[v] = dropsByLevel[v] + (IF v = LevelOf[p] THEN 1 ELSE 0)
    BY <1>5, <1>0 DEF CountLevel, CountedAt, chanVars
  <2>2. \A q \in Producers : AcceptedBy(q)' = AcceptedBy(q)
    BY <2>1, AcceptedSame
  <2>3. Shift(p, 0, 1)
    BY <1>0, <1>a, <1>b, <2>1, <2>2 DEF InHand, InDispatch, Uncounted
  <2> QED BY <2>1, <2>3, <1>0, SumsShift
<1>6. CASE ~ \E p \in Producers : Produce(p)
  BY <1>6, ProducersOnly, SumsFrame
<1> QED BY <1>1, <1>2, <1>3, <1>4, <1>5, <1>6 DEF Produce

\* Nothing is missing when nothing was logged.
LEMMA SumsInit == Init => DropSum /\ LevelSum
<1> SUFFICES ASSUME Init PROVE DropSum /\ LevelSum
  OBVIOUS
<1> DEFINE zero == [p \in Producers |-> 0]
<1>1. \A q : AcceptedBy(q) = 0
  <2> TAKE q
  <2>1. {i \in 1..Len(accepted) : accepted[i][1] = q} = {}
    BY DEF Init
  <2> QED BY <2>1, FS_EmptySet DEF AcceptedBy
<1>2. Missing(InDispatch) = zero /\ Missing(Uncounted) = zero
  BY <1>1 DEF Init, Missing, InHand, InDispatch, Uncounted
<1>3. ASSUME NEW S \in SUBSET Producers PROVE SumOf(zero, S) = 0
  <2>1. IsFiniteSet(S)
    BY ProducersAssumption, FS_Subset
  <2>2. \A x \in S : zero[x] = 0
    OBVIOUS
  <2> HIDE DEF zero
  <2>3. \A x \in S : zero[x] \in Nat /\ zero[x] =< 0 /\ (x \notin {} => zero[x] = 0)
    BY <2>2
  <2>4. SumOf(zero, S) =< 0 * Cardinality({})
    BY <2>1, <2>3, SumCap
  <2>5. SumOf(zero, S) \in Nat
    BY <2>1, <2>3, SumBound
  <2> QED BY <2>4, <2>5, FS_EmptySet
<1>4. \A v \in Levels : AtLevel(v) \in SUBSET Producers
  BY DEF AtLevel
<1> HIDE DEF zero
<1>5. DropSum
  BY <1>2, <1>3 DEF Init, DropSum
<1>6. LevelSum
  BY <1>2, <1>3, <1>4 DEF Init, LevelSum
<1> QED BY <1>5, <1>6

\* Every entry a producer logged is in the pipeline, counted in Drops(), or
\* still in the hands of dispatch: sends, timeouts and drops of any number of
\* goroutines, interleaved with every step of workers, Flush and Close, never
\* count an entry twice and never forget one.
THEOREM DropsAdd == Spec => []DropsAccounted
<1>1. Init => DropSum /\ LevelSum
  BY SumsInit
<1>2. (TypeOK /\ DropSum /\ LevelSum) /\ [Next]_vars => (DropSum /\ LevelSum)'
  BY ProducersAssumption, SumsStep
<1> QED BY <1>1, <1>2, SumsAreProperties, TypeCorrect, PTL DEF Spec

\* DropsByLevel shows, for each named level, the drops of that level's
\* producers and no others.
THEOREM LevelDropsAdd == Spec => []LevelDropsAccounted
<1>1. Init => DropSum /\ LevelSum
  BY SumsInit
<1>2. (TypeOK /\ DropSum /\ LevelSum) /\ [Next]_vars => (DropSum /\ LevelSum)'
  BY ProducersAssumption, SumsStep
<1> QED BY <1>1, <1>2, SumsAreProperties, TypeCorrect, PTL DEF Spec
=============================================================================
