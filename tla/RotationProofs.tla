--------------------------- MODULE RotationProofs ---------------------------
(***************************************************************************)
(* Theorems about Rotation, for every size of the log, number of backups   *)
(* and number of failures, crashes and starts.                             *)
(***************************************************************************)
EXTENDS Rotation, FoldLemmas, SequenceTheorems, FiniteSetTheorems, TLAPS

\* Abbreviations that every step below looks through.
USE DEF vars, files, writers, bounded, faults, Goto, NoReport, Report, Succeeds, Fails, CutOffIf

-----------------------------------------------------------------------------
(* Type correctness. *)

\* What is in a file is a sequence of entries.
Data == Seq(1..MaxEntries)

\* The files that the actions build are files.
LEMMA FileType ==
  /\ NoFile \in Contents
  /\ \A data \in Data : FileOf(data) \in Contents /\ FileOf(data).data = data
  /\ \A f \in Contents : f.data \in Data
<1> QED BY DEF NoFile, FileOf, Contents, Data

\* There is at least one backup.
LEMMA KeepPositive == Keep \in Nat \ {0}
<1> QED BY RotationAssumption DEF Keep

\* Opening a file, or failing to, keeps the types of what it sets.
LEMMA OpenType ==
  ASSUME TypeOK
  PROVE  /\ \A data \in Data : Opened(data) =>
              /\ live' \in Contents /\ file' \in [open : BOOLEAN, broken : BOOLEAN]
              /\ currentSize' \in Nat /\ missed' \in Nat
              /\ offered' \in {"none", "current", "stale", "custom"}
         /\ NotOpened =>
              /\ live' \in Contents /\ failures' \in 0..MaxFailures
<1>1. ASSUME NEW data \in Data, Opened(data)
      PROVE  /\ live' \in Contents /\ file' \in [open : BOOLEAN, broken : BOOLEAN]
             /\ currentSize' \in Nat /\ missed' \in Nat
             /\ offered' \in {"none", "current", "stale", "custom"}
  BY <1>1, FileType DEF Opened, SizeAtOpen, Outdated, TypeOK, Data
<1>2. ASSUME NotOpened PROVE live' \in Contents /\ failures' \in 0..MaxFailures
  BY <1>2, FileType, RotationAssumption DEF NotOpened, TypeOK
<1> QED BY <1>1, <1>2

\* Every step keeps the types.
LEMMA TypeStep == TypeOK /\ [Next]_vars => TypeOK'
<1> SUFFICES ASSUME TypeOK, [Next]_vars PROVE TypeOK'
  OBVIOUS
<1> USE RotationAssumption, KeepPositive
<1>1. ASSUME NEW n \in 1..MaxBatch, NEW checks \in BOOLEAN, NEW k \in 0..n,
             WriteOut(n, k, checks)
      PROVE  TypeOK'
  <2>0. /\ n \in Nat /\ k \in Nat /\ k =< n
        /\ written \in Nat /\ currentSize \in Nat /\ missed \in Nat
        /\ failures \in 0..MaxFailures /\ file \in [open : BOOLEAN, broken : BOOLEAN]
    BY DEF TypeOK
  <2>a. written + n =< MaxEntries
    BY <1>1 DEF WriteOut
  <2>1. live' \in Contents
    <3>1. CASE UNCHANGED live
      BY <3>1 DEF TypeOK
    <3>2. CASE live' = FileOf(live.data \o [i \in 1..k |-> written + i])
      <4>1. [i \in 1..k |-> written + i] \in Data
        <5>1. \A i \in 1..k : written + i \in 1..MaxEntries
          BY <2>0, <2>a
        <5> QED BY <5>1 DEF Data
      <4>2. live.data \in Data
        BY FileType DEF TypeOK
      <4>3. live.data \o [i \in 1..k |-> written + i] \in Data
        BY <4>1, <4>2 DEF Data
      <4> QED BY <3>2, <4>3, FileType
    <3> QED BY <1>1, <3>1, <3>2 DEF WriteOut
  <2>2. file' \in [open : BOOLEAN, broken : BOOLEAN]
    <3>1. CASE bw = "current" /\ CanWrite
      <4>1. file' = [file EXCEPT !.broken = k < n]
        BY <1>1, <3>1 DEF WriteOut
      <4>2. (k < n) \in BOOLEAN
        OBVIOUS
      <4> QED BY <2>0, <4>1, <4>2
    <3>2. CASE ~(bw = "current" /\ CanWrite)
      <4>1. file' = [file EXCEPT !.broken = file.broken \/ bw = "current"]
        BY <1>1, <3>2 DEF WriteOut
      <4>2. (file.broken \/ bw = "current") \in BOOLEAN
        OBVIOUS
      <4> QED BY <2>0, <4>1, <4>2
    <3> QED BY <3>1, <3>2
  <2>3. currentSize' \in Nat /\ missed' \in Nat /\ written' \in 0..MaxEntries
    <3>1. /\ currentSize' = currentSize + n /\ missed' = missed + n - k
          /\ written' = written + n
      BY <1>1 DEF WriteOut, SizeOf
    <3> QED BY <2>0, <2>a, <3>1
  <2>4. failures' \in 0..MaxFailures
    <3>1. failures' = failures \/ (failures < MaxFailures /\ failures' = failures + 1)
      BY <1>1 DEF WriteOut
    <3> QED BY <2>0, <3>1
  <2> QED BY <1>1, <2>1, <2>2, <2>3, <2>4 DEF WriteOut, TypeOK
<1>2. ASSUME CheckSize PROVE TypeOK'
  BY <1>2 DEF CheckSize, TypeOK
<1>3. ASSUME ReleaseOld PROVE TypeOK'
  <2>1. PICK badFlush \in 0..1, badClose \in 0..1 :
          /\ IF file.open /\ badClose = 1 THEN Fails ELSE Succeeds
          /\ Report(badFlush + badClose, badFlush + badClose)
    BY <1>3 DEF ReleaseOld
  <2>2. failures' \in 0..MaxFailures /\ rotationErrors' \in Nat /\ failedOps' \in Nat
    BY <2>1 DEF TypeOK
  <2>3. file' \in [open : BOOLEAN, broken : BOOLEAN]
    BY <1>3 DEF ReleaseOld, TypeOK
  <2> QED BY <1>3, <2>2, <2>3 DEF ReleaseOld, TypeOK
<1>4. ASSUME MoveAside PROVE TypeOK'
  <2>1. CASE live.exists /\ rotating' = live /\ live' = NoFile
             /\ rotated' = Append(rotated, live.data) /\ shift' = FirstShift
             /\ Succeeds /\ NoReport /\ Goto("shift")
    <3>1. rotated' \in Seq(Data)
      BY <2>1, FileType DEF TypeOK, Data
    <3>2. shift' \in -1..(Keep - 1)
      BY <2>1 DEF FirstShift, Keep
    <3> QED BY <1>4, <2>1, <3>1, <3>2, FileType DEF MoveAside, TypeOK, Data
  <2>2. CASE UNCHANGED <<live, rotating, rotated, shift>> /\ Report(1, 1)
             /\ Goto(AfterFailedMove) /\ (IF live.exists THEN Fails ELSE Succeeds)
    BY <1>4, <2>2 DEF MoveAside, AfterFailedMove, TypeOK
  <2> QED BY <1>4, <2>1, <2>2 DEF MoveAside
<1>5. ASSUME Reopen PROVE TypeOK'
  <2>1. live.data \in Data
    BY FileType DEF TypeOK
  <2>2. CASE Succeeds /\ Opened(live.data) /\ bw' = Refreshed /\ NoReport
    BY <1>5, <2>1, <2>2, OpenType DEF Reopen, Refreshed, TypeOK
  <2>3. CASE NotOpened /\ Report(1, 0)
    BY <1>5, <2>3, OpenType DEF Reopen, NotOpened, TypeOK
  <2> QED BY <1>5, <2>2, <2>3 DEF Reopen
<1>6. ASSUME ShiftBackup PROVE TypeOK'
  <2>1. backup' \in [1..Keep -> Contents]
    <3>1. shift \in 1..(Keep - 1)
      BY <1>6 DEF ShiftBackup, MoreToShift, TypeOK
    <3>2. MoveBackup(backup, shift) \in [1..Keep -> Contents]
      BY <3>1, FileType DEF MoveBackup, TypeOK
    <3> QED BY <1>6, <3>2 DEF ShiftBackup, TypeOK
  <2>2. shift' \in -1..(Keep - 1)
    BY <1>6 DEF ShiftBackup, MoreToShift, TypeOK
  <2>3. failures' \in 0..MaxFailures /\ rotationErrors' \in Nat /\ failedOps' \in Nat
    BY <1>6 DEF ShiftBackup, TypeOK
  <2> QED BY <1>6, <2>1, <2>2, <2>3 DEF ShiftBackup, TypeOK
<1>7. ASSUME ShiftDone PROVE TypeOK'
  BY <1>7 DEF ShiftDone, TypeOK
<1>8. ASSUME MoveToFirst PROVE TypeOK'
  <2>1. backup' \in [1..Keep -> Contents] /\ rotating' \in Contents
    BY <1>8, FileType DEF MoveToFirst, TypeOK
  <2>2. failures' \in 0..MaxFailures /\ rotationErrors' \in Nat /\ failedOps' \in Nat
    BY <1>8 DEF MoveToFirst, TypeOK
  <2> QED BY <1>8, <2>1, <2>2 DEF MoveToFirst, TypeOK
<1>9. ASSUME Create PROVE TypeOK'
  <2>1. <<>> \in Data
    BY DEF Data
  <2>2. CASE Succeeds /\ Opened(<<>>) /\ bw' = Refreshed /\ NoReport
    BY <1>9, <2>1, <2>2, OpenType DEF Create, Refreshed, TypeOK
  <2>3. CASE NotOpened /\ Report(1, 0)
    BY <1>9, <2>3, OpenType DEF Create, NotOpened, TypeOK
  <2> QED BY <1>9, <2>2, <2>3 DEF Create
<1>10. ASSUME Start \/ EndRun PROVE TypeOK'
  <2>1. CASE TakeWriter
    <3>1. starts' \in 0..MaxStarts
      BY <2>1 DEF TakeWriter, TypeOK
    <3> QED BY <2>1, <3>1 DEF TakeWriter, StartWriter, TypeOK
  <2>2. CASE BeginRun
    BY <2>2 DEF BeginRun, TypeOK
  <2>3. CASE RefuseStart \/ EndRun
    BY <2>3 DEF RefuseStart, EndRun, TypeOK
  <2> QED BY <1>10, <2>1, <2>2, <2>3 DEF Start
<1>11. ASSUME CloseFile \/ Crash PROVE TypeOK'
  <2>1. file' \in [open : BOOLEAN, broken : BOOLEAN]
    <3>1. file \in [open : BOOLEAN, broken : BOOLEAN]
      BY DEF TypeOK
    <3>2. CASE file' = [file EXCEPT !.open = FALSE]
      BY <3>1, <3>2
    <3>3. CASE file' = [open |-> FALSE, broken |-> FALSE]
      BY <3>3
    <3> QED BY <1>11, <3>2, <3>3 DEF CloseFile, Crash
  <2>2. CASE CloseFile
    BY <2>1, <2>2 DEF CloseFile, TypeOK
  <2>3. CASE Crash
    <3>1. crashes' \in 0..MaxCrashes
      BY <2>3 DEF Crash, TypeOK
    <3> QED BY <2>1, <2>3, <3>1 DEF Crash, TypeOK
  <2> QED BY <1>11, <2>2, <2>3
<1>12. ASSUME Restart PROVE TypeOK'
  <2>1. live.data \in Data
    BY FileType DEF TypeOK
  <2>2. /\ live' \in Contents /\ file' \in [open : BOOLEAN, broken : BOOLEAN]
        /\ currentSize' \in Nat /\ missed' \in Nat
        /\ offered' \in {"none", "current", "stale", "custom"}
    BY <1>12, <2>1, OpenType DEF Restart
  <2>3. shift' \in -1..(Keep - 1)
    BY <1>12 DEF Restart
  <2> QED BY <1>12, <2>2, <2>3 DEF Restart, StartWriter, TypeOK
<1>13. CASE UNCHANGED vars
  BY <1>13 DEF TypeOK
<1> QED BY <1>1, <1>2, <1>3, <1>4, <1>5, <1>6, <1>7, <1>8, <1>9, <1>10, <1>11, <1>12, <1>13
        DEF Next, Write, Rotate

\* Every variable keeps its type: in particular no backup beyond the last one is
\* ever addressed.
THEOREM TypeCorrect == Spec => []TypeOK
<1>1. Init => TypeOK
  <2> SUFFICES ASSUME Init PROVE TypeOK
    OBVIOUS
  <2>1. <<>> \in Data
    BY DEF Data
  <2>2. /\ live \in Contents /\ rotating \in Contents
        /\ backup \in [1..Keep -> Contents]
    BY <2>1, FileType DEF Init
  <2>3. shift \in -1..(Keep - 1)
    BY KeepPositive DEF Init
  <2>4. /\ written \in 0..MaxEntries /\ failures \in 0..MaxFailures
        /\ crashes \in 0..MaxCrashes /\ starts \in 0..MaxStarts
    BY RotationAssumption DEF Init
  <2>5. rotated \in Seq(Data)
    BY DEF Init
  <2> QED BY <2>2, <2>3, <2>4, <2>5 DEF Init, StartWriter, TypeOK, Data
<1> QED BY <1>1, TypeStep, PTL DEF Spec

-----------------------------------------------------------------------------
(* The live log is kept. *)

\* A log is a prefix of itself and of what is appended to it, and the empty log
\* is a prefix of every log.
LEMMA PrefixFacts ==
  \A s, t \in Data : IsPrefix(s, s) /\ IsPrefix(s, s \o t) /\ (s = <<>> => IsPrefix(s, t))
<1> TAKE s, t \in Data
<1>1. CASE s = <<>>
  <2>1. Len(s) = 0 /\ \A u : SubSeq(u, 1, 0) = <<>>
    BY <1>1, SubSeqEmpty
  <2>2. s \o t \in Data /\ Len(t) \in Nat /\ Len(s \o t) \in Nat
    BY DEF Data
  <2> QED BY <1>1, <2>1, <2>2 DEF IsPrefix
<1>2. CASE s # <<>>
  <2>1. Len(s) \in Nat \ {0} /\ Len(t) \in Nat
    BY <1>2, EmptySeq DEF Data
  <2>2. SubSeq(s \o t, 1, Len(s)) = SubSeq(s, 1, Len(s))
    BY <2>1, SubSeqOfConcat1 DEF Data
  <2>3. Len(s \o t) = Len(s) + Len(t)
    BY DEF Data
  <2> QED BY <1>2, <2>1, <2>2, <2>3 DEF IsPrefix
<1> QED BY <1>1, <1>2

\* The live log is empty from the moment it was moved aside until a fresh one
\* is opened: this is what makes truncating it safe.
LiveInv == pc \in {"shift", "first", "create"} => live.data = <<>>

\* Every step keeps LiveInv.
LEMMA LiveStep == TypeOK /\ LiveInv /\ [Next]_vars => LiveInv'
<1> SUFFICES ASSUME TypeOK, LiveInv, [Next]_vars PROVE LiveInv'
  OBVIOUS
<1> USE DEF LiveInv
<1>1. CASE MoveAside
  BY <1>1 DEF MoveAside, AfterFailedMove, NoFile
<1>2. CASE Write
  BY <1>2 DEF Write, WriteOut
<1>3. CASE CheckSize \/ ReleaseOld \/ Reopen \/ Create
  BY <1>3 DEF CheckSize, ReleaseOld, Reopen, Create
<1>4. CASE ShiftBackup \/ ShiftDone \/ MoveToFirst
  BY <1>4 DEF ShiftBackup, ShiftDone, MoveToFirst
<1>5. CASE EndRun \/ Start \/ CloseFile
  BY <1>5 DEF EndRun, Start, TakeWriter, BeginRun, RefuseStart, CloseFile
<1>6. CASE Crash \/ Restart
  BY <1>6 DEF Crash, Restart
<1>7. CASE UNCHANGED vars
  BY <1>7
<1> QED BY <1>1, <1>2, <1>3, <1>4, <1>5, <1>6, <1>7 DEF Next, Rotate

\* No step truncates the live log: it is moved to .rotating, or what was in it
\* stays where it is.
LEMMA LiveKeptStep ==
  TypeOK /\ LiveInv /\ [Next]_vars =>
    IsPrefix(live.data, live'.data) \/ rotating'.data = live.data
<1> SUFFICES ASSUME TypeOK, LiveInv, [Next]_vars
             PROVE  IsPrefix(live.data, live'.data) \/ rotating'.data = live.data
  OBVIOUS
<1>a. live.data \in Data
  BY FileType DEF TypeOK
<1>b. live'.data = live.data => IsPrefix(live.data, live'.data)
  BY <1>a, PrefixFacts
<1>1. ASSUME NEW n \in 1..MaxBatch, NEW checks \in BOOLEAN, NEW k \in 0..n,
             WriteOut(n, k, checks)
      PROVE  IsPrefix(live.data, live'.data)
  <2>1. CASE live' = FileOf(live.data \o [i \in 1..k |-> written + i])
    <3>1. written + n =< MaxEntries /\ written \in Nat /\ n \in Nat /\ k \in Nat
      BY <1>1, RotationAssumption DEF WriteOut, TypeOK
    <3>2. \A i \in 1..k : written + i \in 1..MaxEntries
      BY <3>1, RotationAssumption
    <3>3. [i \in 1..k |-> written + i] \in Data
      BY <3>1, <3>2 DEF Data
    <3>4. live'.data = live.data \o [i \in 1..k |-> written + i]
      BY <2>1 DEF FileOf
    <3> QED BY <1>a, <3>3, <3>4, PrefixFacts
  <2>2. CASE live' = live
    BY <1>b, <2>2
  <2> QED BY <1>1, <2>1, <2>2 DEF WriteOut
<1>2. CASE MoveAside
  BY <1>2, <1>b DEF MoveAside
<1>3. ASSUME Reopen \/ Restart PROVE live'.data = live.data
  BY <1>3 DEF Reopen, Restart, Opened, NotOpened, FileOf
<1>4. CASE Create
  <2>1. live.data = <<>>
    BY <1>4 DEF Create, LiveInv
  <2>2. live'.data = <<>>
    BY <1>4, <2>1 DEF Create, Opened, NotOpened, FileOf
  <2> QED BY <1>b, <2>1, <2>2
<1>5. ASSUME \/ CheckSize \/ ReleaseOld \/ ShiftBackup \/ ShiftDone \/ MoveToFirst
             \/ EndRun \/ Start \/ CloseFile \/ Crash \/ UNCHANGED vars
      PROVE  live' = live
  BY <1>5 DEF CheckSize, ReleaseOld, ShiftBackup, ShiftDone, MoveToFirst, EndRun, Start,
              TakeWriter, BeginRun, RefuseStart, CloseFile, Crash
<1> QED BY <1>1, <1>2, <1>3, <1>4, <1>5, <1>b DEF Next, Write, Rotate

\* Whatever operation of a rotation fails, and wherever the process crashes, the
\* live log is never truncated.
THEOREM LogKept == Spec => LiveKept
<1>1. Init => LiveInv
  BY DEF Init, LiveInv
<1>2. TypeOK /\ LiveInv /\ [Next]_vars =>
        [IsPrefix(live.data, live'.data) \/ rotating'.data = live.data]_vars
  BY LiveKeptStep
<1> QED BY <1>1, <1>2, TypeCorrect, LiveStep, PTL DEF Spec, LiveKept

-----------------------------------------------------------------------------
(* The size of the live log. *)

\* What SizeAccounts needs to be inductive: while a rotation moves files about,
\* no file is open, so a move cannot invalidate the sum; and what the log missed
\* is part of its size.
SizeInv ==
  /\ SizeAccounts
  /\ pc \in {"aside", "reopen", "shift", "first", "create"} => ~file.open
  /\ missed =< currentSize

\* Opening a file makes currentSize the size of the log.
LEMMA OpenSizes ==
  \A data \in Data : Opened(data) => /\ currentSize' = Len(live'.data) + missed'
                                     /\ missed' = 0 /\ currentSize' \in Nat
<1> QED BY DEF Opened, SizeAtOpen, FileOf, Data

\* A write adds to currentSize what it adds to the log and what it does not.
LEMMA WriteSizes ==
  ASSUME TypeOK, SizeInv, NEW n \in 1..MaxBatch, NEW checks \in BOOLEAN, NEW k \in 0..n,
         WriteOut(n, k, checks)
  PROVE  SizeInv'
<1>1. /\ n \in Nat /\ k \in Nat /\ k =< n
      /\ written \in Nat /\ currentSize \in Nat /\ missed \in Nat
      /\ file \in [open : BOOLEAN, broken : BOOLEAN]
  BY DEF TypeOK
<1>2. written + n =< MaxEntries /\ currentSize' = currentSize + n /\ missed' = missed + n - k
  BY DEF WriteOut, SizeOf
<1>3. live.data \in Data
  BY FileType DEF TypeOK
<1>4. pc' \notin {"aside", "reopen", "shift", "first", "create"}
  BY DEF WriteOut
<1>5. file.open => Len(live'.data) = Len(live.data) + k
  <2>1. CASE bw = "current" /\ CanWrite
    <3>1. live' = FileOf(live.data \o [i \in 1..k |-> written + i])
      BY <2>1 DEF WriteOut
    <3>2. \A i \in 1..k : written + i \in 1..MaxEntries
      BY <1>1, <1>2, RotationAssumption
    <3>3. [i \in 1..k |-> written + i] \in Data
      BY <1>1, <3>2 DEF Data
    <3>4. Len([i \in 1..k |-> written + i]) = k
      BY <1>1
    <3>5. Len(live.data \o [i \in 1..k |-> written + i]) = Len(live.data) + k
      BY <1>3, <3>3, <3>4 DEF Data
    <3> QED BY <3>1, <3>5 DEF FileOf
  <2>2. CASE ~(bw = "current" /\ CanWrite)
    <3>1. live' = live /\ k = 0
      BY <2>2 DEF WriteOut
    <3>2. Len(live.data) \in Nat
      BY <1>3 DEF Data
    <3> QED BY <3>1, <3>2
  <2> QED BY <2>1, <2>2
<1>6. file'.open = file.open
  <2>1. CASE bw = "current" /\ CanWrite
    <3>1. file' = [file EXCEPT !.broken = k < n]
      BY <2>1 DEF WriteOut
    <3> QED BY <1>1, <3>1
  <2>2. CASE ~(bw = "current" /\ CanWrite)
    <3>1. file' = [file EXCEPT !.broken = file.broken \/ bw = "current"]
      BY <2>2 DEF WriteOut
    <3> QED BY <1>1, <3>1
  <2> QED BY <2>1, <2>2
<1>7. Len(live.data) \in Nat
  BY <1>3 DEF Data
<1>8. SizeAccounts'
  <2>1. CASE file.open
    <3>1. currentSize = Len(live.data) + missed
      BY <2>1 DEF SizeInv, SizeAccounts
    <3>2. Len(live'.data) = Len(live.data) + k
      BY <1>5, <2>1
    <3>3. currentSize' = Len(live'.data) + missed'
      <4>1. \A a \in Nat : (a + missed) + n = (a + k) + (missed + n - k)
        BY <1>1
      <4>2. currentSize + n = (Len(live.data) + k) + (missed + n - k)
        BY <1>7, <3>1, <4>1
      <4> QED BY <1>2, <3>2, <4>2
    <3> QED BY <3>3 DEF SizeAccounts
  <2>2. CASE ~file.open
    BY <1>6, <2>2 DEF SizeAccounts
  <2> QED BY <2>1, <2>2
<1>9. missed' =< currentSize'
  BY <1>1, <1>2 DEF SizeInv
<1> QED BY <1>4, <1>8, <1>9 DEF SizeInv

\* Every step keeps SizeInv.
LEMMA SizeStep == TypeOK /\ LiveInv /\ SizeInv /\ [Next]_vars => SizeInv'
<1> SUFFICES ASSUME TypeOK, LiveInv, SizeInv, [Next]_vars PROVE SizeInv'
  OBVIOUS
<1>a. live.data \in Data /\ <<>> \in Data /\ currentSize \in Nat /\ missed \in Nat
  BY FileType DEF TypeOK, Data
<1>1. CASE Write
  BY <1>1, WriteSizes DEF Write
<1>2. CASE CheckSize \/ ShiftDone
  BY <1>2 DEF CheckSize, ShiftDone, SizeInv, SizeAccounts
<1>3. CASE ReleaseOld
  <2>1. ~file'.open
    BY <1>3 DEF ReleaseOld, TypeOK
  <2> QED BY <1>3, <2>1 DEF ReleaseOld, SizeInv, SizeAccounts
<1>4. CASE MoveAside \/ ShiftBackup \/ MoveToFirst
  BY <1>4 DEF MoveAside, AfterFailedMove, ShiftBackup, MoveToFirst, SizeInv, SizeAccounts
<1>5. ASSUME Reopen \/ Create PROVE SizeInv'
  <2>1. pc' = "run"
    BY <1>5 DEF Reopen, Create
  <2>2. CASE Opened(live.data) \/ Opened(<<>>)
    BY <1>a, <2>1, <2>2, OpenSizes DEF SizeInv, SizeAccounts
  <2>3. CASE NotOpened
    <3>1. ~file.open
      BY <1>5 DEF Reopen, Create, SizeInv
    <3> QED BY <2>1, <2>3, <3>1 DEF NotOpened, SizeInv, SizeAccounts
  <2> QED BY <1>5, <2>2, <2>3 DEF Reopen, Create
<1>6. CASE EndRun \/ Start
  BY <1>6 DEF EndRun, Start, TakeWriter, BeginRun, RefuseStart, SizeInv, SizeAccounts
<1>7. ASSUME CloseFile \/ Crash PROVE SizeInv'
  <2>1. ~file'.open
    BY <1>7 DEF CloseFile, Crash, TypeOK
  <2> QED BY <1>7, <2>1 DEF CloseFile, Crash, SizeInv, SizeAccounts
<1>8. CASE Restart
  <2>1. Opened(live.data) /\ pc' = "run"
    BY <1>8 DEF Restart
  <2> QED BY <1>a, <2>1, OpenSizes DEF SizeInv, SizeAccounts
<1>9. CASE UNCHANGED vars
  BY <1>9 DEF SizeInv, SizeAccounts
<1> QED BY <1>1, <1>2, <1>3, <1>4, <1>5, <1>6, <1>7, <1>8, <1>9 DEF Next, Rotate

\* SizeInv holds at the start.
LEMMA SizeInit == Init => SizeInv
<1> QED BY DEF Init, SizeInv, SizeAccounts, FileOf

\* currentSize is always the size of the live log plus what was handed to a
\* writer and did not reach it.
THEOREM SizesAccounted == Spec => []SizeAccounts
<1>1. SizeInv => SizeAccounts
  BY DEF SizeInv
<1>2. Init => LiveInv
  BY DEF Init, LiveInv
<1> QED BY <1>1, <1>2, SizeInit, SizeStep, LiveStep, TypeCorrect, PTL DEF Spec

-----------------------------------------------------------------------------
(* What a check of the size leaves behind. *)

\* A check of the size ends with a small log or with a fresh writer.
LEMMA LossStep ==
  TypeOK /\ SizeInv /\ [Next]_vars =>
    (pc \notin {"run", "idle", "down"} /\ pc' = "run" /\ failedOps' = failedOps
       => missed' < MaxFileSize)
<1> SUFFICES ASSUME TypeOK, SizeInv, [Next]_vars,
                    pc \notin {"run", "idle", "down"}, pc' = "run", failedOps' = failedOps
             PROVE  missed' < MaxFileSize
  OBVIOUS
<1>a. /\ live.data \in Data /\ <<>> \in Data
      /\ currentSize \in Nat /\ missed \in Nat /\ failedOps \in Nat
      /\ MaxFileSize \in Nat \ {0}
  BY FileType, RotationAssumption DEF TypeOK, Data
<1>1. CASE CheckSize
  <2>1. currentSize < MaxFileSize /\ missed' = missed
    BY <1>1 DEF CheckSize
  <2> QED BY <1>a, <2>1 DEF SizeInv
<1>2. CASE Reopen \/ Create
  <2>1. CASE Opened(live.data) \/ Opened(<<>>)
    BY <1>a, <2>1, OpenSizes
  <2>2. CASE NotOpened /\ Report(1, 0)
    BY <1>a, <2>2
  <2> QED BY <1>2, <2>1, <2>2 DEF Reopen, Create
<1>3. ASSUME \/ ReleaseOld \/ MoveAside \/ ShiftBackup \/ ShiftDone \/ MoveToFirst
             \/ EndRun \/ Crash
      PROVE  FALSE
  BY <1>3 DEF ReleaseOld, MoveAside, AfterFailedMove, ShiftBackup, ShiftDone, MoveToFirst,
              EndRun, Crash
<1>4. ASSUME Write \/ Restart \/ Start \/ CloseFile \/ UNCHANGED vars PROVE FALSE
  BY <1>4 DEF Write, WriteOut, Restart, Start, TakeWriter, BeginRun, RefuseStart, CloseFile
<1> QED BY <1>1, <1>2, <1>3, <1>4 DEF Next, Rotate

\* A failing or replaced writer makes the log miss less than MaxFileSize before
\* a rotation that does not fail itself replaces it.
THEOREM LossIsBounded == Spec => LossBounded
<1>1. Init => LiveInv
  BY DEF Init, LiveInv
<1>2. TypeOK /\ SizeInv /\ [Next]_vars =>
        [pc \notin {"run", "idle", "down"} /\ pc' = "run" /\ failedOps' = failedOps
           => missed' < MaxFileSize]_vars
  BY LossStep
<1> QED BY <1>1, <1>2, SizeInit, SizeStep, LiveStep, TypeCorrect, PTL DEF Spec, LossBounded

-----------------------------------------------------------------------------
(* All entries are kept. *)

\* The first n entries, in order.
FirstEntries(n) == [i \in 1..n |-> i]

\* A worker that was not cut off has the current writer, over an open file unless
\* a rotation is about to open one.
KeptInv ==
  ~cutOff =>
    /\ bw = "current" /\ ~file.broken
    /\ pc \in {"run", "check", "release", "idle"} => file.open
    /\ FlattenSeq(rotated) \o live.data = FirstEntries(written)

\* Putting logs together is associative.
LEMMA DataAssociative == \A a, b, c \in Data : (a \o b) \o c = a \o (b \o c)
<1> DEFINE D == Seq(1..MaxEntries)
<1>1. \A a, b, c \in D : (a \o b) \o c = a \o (b \o c)
  BY Associative
<1> QED BY <1>1, Zenon DEF Data

\* The next m entries behind the first n are the first n + m.
LEMMA NextEntries ==
  ASSUME NEW n \in Nat, NEW m \in Nat, n + m =< MaxEntries
  PROVE  /\ FirstEntries(n) \in Data /\ [i \in 1..m |-> n + i] \in Data
         /\ FirstEntries(n) \o [i \in 1..m |-> n + i] = FirstEntries(n + m)
<1> DEFINE a == FirstEntries(n)
           b == [i \in 1..m |-> n + i]
           c == FirstEntries(n + m)
<1>1. /\ a \in Seq(Nat) /\ Len(a) = n /\ b \in Seq(Nat) /\ Len(b) = m
      /\ c \in Seq(Nat) /\ Len(c) = n + m
  BY DEF FirstEntries
<1>2. a \in Data /\ b \in Data
  <2>1. \A i \in 1..n : i \in 1..MaxEntries
    BY RotationAssumption
  <2>2. \A i \in 1..m : n + i \in 1..MaxEntries
    BY RotationAssumption
  <2> QED BY <2>1, <2>2 DEF FirstEntries, Data
<1>3. /\ \A i \in 1..n : a[i] = i
      /\ \A i \in 1..m : b[i] = n + i
      /\ \A i \in 1..(n + m) : c[i] = i
  BY DEF FirstEntries
<1> HIDE DEF a, b, c
<1>4. /\ a \o b \in Seq(Nat) /\ Len(a \o b) = n + m
      /\ \A i \in 1..(n + m) : (a \o b)[i] = IF i =< n THEN a[i] ELSE b[i - n]
  BY <1>1, ConcatProperties
<1>5. \A i \in 1..(n + m) : (a \o b)[i] = c[i]
  BY <1>3, <1>4
<1>6. a \o b = c
  BY <1>1, <1>4, <1>5, SeqEqual
<1> QED BY <1>2, <1>6 DEF a, b, c

\* The generations are sequences of entries, and so are all of them together.
LEMMA GenerationsType == TypeOK => rotated \in Seq(Data) /\ FlattenSeq(rotated) \in Data
<1> SUFFICES ASSUME TypeOK PROVE rotated \in Seq(Data) /\ FlattenSeq(rotated) \in Data
  OBVIOUS
<1>1. rotated \in Seq(Seq(1..MaxEntries))
  BY DEF TypeOK
<1> QED BY <1>1, FlattenType DEF Data

\* Every step keeps KeptInv.
LEMMA KeptStep == TypeOK /\ LiveInv /\ KeptInv /\ [Next]_vars => KeptInv'
<1> SUFFICES ASSUME TypeOK, LiveInv, KeptInv, [Next]_vars, ~cutOff' PROVE KeptInv'
  BY DEF KeptInv
<1> DEFINE old == FlattenSeq(rotated)
<1>a. /\ rotated \in Seq(Data) /\ old \in Data /\ live.data \in Data
      /\ file \in [open : BOOLEAN, broken : BOOLEAN] /\ cutOff \in BOOLEAN
      /\ written \in Nat
  BY GenerationsType, FileType, RotationAssumption DEF TypeOK
<1>b. ASSUME UNCHANGED cutOff
      PROVE  /\ bw = "current" /\ ~file.broken
             /\ pc \in {"run", "check", "release", "idle"} => file.open
             /\ old \o live.data = FirstEntries(written)
  BY <1>b DEF KeptInv
<1> HIDE DEF old
<1>1. ASSUME NEW n \in 1..MaxBatch, NEW checks \in BOOLEAN, NEW k \in 0..n,
             WriteOut(n, k, checks)
      PROVE  KeptInv'
  <2> DEFINE new == [i \in 1..n |-> written + i]
  <2>1. UNCHANGED cutOff
    BY <1>1, <1>a DEF WriteOut
  <2>2. bw = "current" /\ CanWrite
    BY <1>1, <1>b, <2>1 DEF WriteOut, CanWrite
  <2>3. k = n
    <3>1. cutOff' = (cutOff \/ k < n)
      BY <1>1, <2>2 DEF WriteOut
    <3>2. ~(k < n)
      BY <3>1, Zenon
    <3>3. n \in Nat /\ k \in Nat /\ k =< n
      BY RotationAssumption
    <3> QED BY <3>2, <3>3
  <2>4. /\ live' = FileOf(live.data \o new) /\ file' = [file EXCEPT !.broken = k < n]
        /\ written' = written + n /\ written + n =< MaxEntries
        /\ pc' \in {"check", "run"} /\ UNCHANGED <<bw, rotated>>
    BY <1>1, <2>2, <2>3 DEF WriteOut
  <2>5. ~file'.broken /\ file'.open
    BY <1>a, <2>2, <2>3, <2>4, RotationAssumption DEF CanWrite
  <2>6. new \in Data /\ FirstEntries(written) \o new = FirstEntries(written + n)
    <3>1. n \in Nat
      BY RotationAssumption
    <3> QED BY <1>a, <2>4, <3>1, NextEntries
  <2>7. old \o live'.data = FirstEntries(written')
    <3> HIDE DEF new
    <3>1. live'.data = live.data \o new
      BY <2>4 DEF FileOf
    <3>2. (old \o live.data) \o new = old \o (live.data \o new)
      BY <1>a, <2>6, DataAssociative, Zenon
    <3>3. old \o live.data = FirstEntries(written)
      BY <1>b, <2>1
    <3> QED BY <2>4, <2>6, <3>1, <3>2, <3>3
  <2>8. FlattenSeq(rotated') \o live'.data = FirstEntries(written')
    BY <2>4, <2>7 DEF old
  <2> QED BY <1>b, <2>1, <2>4, <2>5, <2>8 DEF KeptInv
<1>2. CASE MoveAside
  <2>1. UNCHANGED cutOff /\ UNCHANGED <<bw, file, written>>
    BY <1>2 DEF MoveAside
  <2>2. pc' \in {"shift", "reopen"}
    BY <1>2 DEF MoveAside, AfterFailedMove
  <2>3. CASE live' = NoFile /\ rotated' = Append(rotated, live.data)
    <3>1. FlattenSeq(rotated') = old \o live.data
      BY <1>a, <2>3, FlattenAppend DEF Data, old
    <3>2. FlattenSeq(rotated') \o live'.data = old \o live.data
      <4>1. old \o live.data \in Seq(1..MaxEntries)
        BY <1>a DEF Data
      <4>2. live'.data = <<>>
        BY <2>3 DEF NoFile
      <4> QED BY <3>1, <4>1, <4>2
    <3> QED BY <1>b, <2>1, <2>2, <3>2 DEF KeptInv
  <2>4. CASE UNCHANGED <<live, rotated>>
    BY <1>b, <2>1, <2>2, <2>4 DEF KeptInv, old
  <2> QED BY <1>2, <2>3, <2>4 DEF MoveAside
<1>3. CASE Reopen \/ Create
  <2>1. ~NotOpened
    BY DEF NotOpened
  <2>2. /\ Opened(live.data) \/ (Opened(<<>>) /\ live.data = <<>>)
        /\ bw' = Refreshed /\ CutOffIf(FALSE) /\ UNCHANGED <<written, rotated>>
    BY <1>3, <2>1 DEF Reopen, Create, LiveInv
  <2>3. ~cutOff /\ UNCHANGED cutOff
    BY <1>a, <2>2
  <2>4. live'.data = live.data /\ file'.open /\ ~file'.broken
    BY <2>2 DEF Opened, FileOf
  <2> QED BY <1>b, <2>2, <2>3, <2>4 DEF Refreshed, KeptInv, old
<1>4. CASE CheckSize \/ ShiftBackup \/ ShiftDone \/ MoveToFirst \/ EndRun
  BY <1>4, <1>b DEF CheckSize, ShiftBackup, ShiftDone, MoveToFirst, EndRun, KeptInv, old
<1>5. CASE ReleaseOld
  <2>1. /\ UNCHANGED <<live, rotated, cutOff, bw, written>> /\ pc' = "aside"
        /\ file' = [file EXCEPT !.open = FALSE]
    BY <1>5 DEF ReleaseOld
  <2>2. file'.broken = file.broken
    BY <1>a, <2>1
  <2> QED BY <1>b, <2>1, <2>2 DEF KeptInv, old
<1>6. CASE BeginRun
  <2>1. bw' = "current" /\ UNCHANGED cutOff
    BY <1>6, <1>a DEF BeginRun
  <2> QED BY <1>6, <1>b, <2>1 DEF BeginRun, KeptInv, old
<1>7. CASE TakeWriter \/ RefuseStart
  BY <1>7, <1>b DEF TakeWriter, RefuseStart, KeptInv, old
<1>8. CASE CloseFile
  BY <1>8 DEF CloseFile
<1>9. CASE Crash
  BY <1>9, <1>b DEF Crash, KeptInv, old
<1>10. CASE Restart
  <2>1. bw' = "current" /\ UNCHANGED cutOff
    BY <1>10, <1>a DEF Restart
  <2> QED BY <1>10, <1>b, <2>1 DEF Restart, Opened, FileOf, KeptInv, old
<1>11. CASE UNCHANGED vars
  BY <1>11, <1>b DEF KeptInv, old
<1> QED BY <1>1, <1>2, <1>3, <1>4, <1>5, <1>6, <1>7, <1>8, <1>9, <1>10, <1>11
        DEF Next, Write, Rotate, Start

\* The logs moved aside and the live log hold the worker's entries, all, once and
\* in order, as long as nothing cut it off from its log: no failed rename, crash
\* or new run makes a rotation leave it with a writer that was replaced.
THEOREM EntriesKept == Spec => []AllEntriesKept
<1>1. Init => KeptInv /\ LiveInv
  <2> SUFFICES ASSUME Init, ~cutOff PROVE KeptInv /\ LiveInv
    BY DEF Init, KeptInv, LiveInv
  <2>1. FirstEntries(0) = <<>> /\ FlattenSeq(rotated) \o live.data = <<>>
    BY FlattenEmpty DEF Init, FirstEntries, FileOf
  <2> QED BY <2>1 DEF Init, KeptInv, LiveInv
<1>2. KeptInv => AllEntriesKept
  BY DEF KeptInv, AllEntriesKept, FirstEntries
<1> QED BY <1>1, <1>2, LiveStep, KeptStep, TypeCorrect, PTL DEF Spec

-----------------------------------------------------------------------------
(* The chain of backups. *)

\* A rotation has the old log in .rotating, or is about to start a fresh one.
Aside == pc \in {"shift", "first"}

\* The i-th newest of the logs that were moved aside.
Nth(i) == FileOf(rotated[Len(rotated) - i + 1])

\* As long as nothing failed: outside a rotation .i holds the i-th newest log;
\* inside, where one log more was moved aside, it does so behind the place of the
\* loop, and before it .i still holds what belongs to .i+1.
ChainInv ==
  failedOps = 0 /\ crashes = 0 =>
    /\ ~Aside => \A i \in 1..Keep : i =< Len(rotated) => backup[i] = Nth(i)
    /\ Aside =>
         /\ Len(rotated) > 0 /\ rotating = Nth(1)
         /\ \A i \in 2..Keep : i >= shift + 2 /\ i =< Len(rotated) => backup[i] = Nth(i)
         /\ \A i \in 1..Keep : i =< shift /\ i < Len(rotated) => backup[i] = Nth(i + 1)

\* Where the loop of step 2 is.
ShiftInv == Aside => /\ shift =< FirstShift /\ (MaxBackupFiles > 0 => shift >= 0)
                     /\ pc = "first" => shift =< 0

LEMMA FirstShiftIs ==
  /\ MaxBackupFiles > 0 => FirstShift = Keep - 1
  /\ MaxBackupFiles = 0 => FirstShift = -1 /\ Keep = 1
BY RotationAssumption DEF FirstShift, Keep

LEMMA ShiftStep == TypeOK /\ ShiftInv /\ [Next]_vars => ShiftInv'
<1> SUFFICES ASSUME TypeOK, ShiftInv, [Next]_vars PROVE ShiftInv'
  OBVIOUS
<1> USE RotationAssumption DEF ShiftInv, Aside
<1>0. shift \in Int /\ FirstShift \in Int /\ (MaxBackupFiles > 0 => FirstShift >= 0)
  BY FirstShiftIs, KeepPositive DEF TypeOK, FirstShift
<1>1. CASE MoveAside
  BY <1>0, <1>1 DEF MoveAside, AfterFailedMove
<1>2. CASE ShiftBackup
  BY <1>0, <1>2 DEF ShiftBackup, MoreToShift
<1>3. CASE ShiftDone
  BY <1>0, <1>3 DEF ShiftDone, MoreToShift
<1>4. CASE MoveToFirst \/ CheckSize \/ ReleaseOld \/ Reopen \/ Create
  BY <1>4 DEF MoveToFirst, CheckSize, ReleaseOld, Reopen, Create
<1>5. CASE Write \/ EndRun \/ Start \/ CloseFile
  BY <1>5 DEF Write, WriteOut, EndRun, Start, TakeWriter, BeginRun, RefuseStart, CloseFile
<1>6. CASE Crash \/ Restart
  BY <1>6 DEF Crash, Restart
<1>7. CASE UNCHANGED vars
  BY <1>7
<1> QED BY <1>1, <1>2, <1>3, <1>4, <1>5, <1>6, <1>7 DEF Next, Rotate

\* Outside the moves of a rotation its files stay what they are, whoever acts.
LEMMA FilesStay ==
  ASSUME [Next]_vars, ~MoveAside, ~ShiftBackup, ~MoveToFirst
  PROVE  /\ UNCHANGED <<rotating, backup, rotated>> /\ (Aside' => Aside /\ shift' = shift)
         /\ Aside /\ ~Aside' => crashes' = crashes + 1
BY DEF Next, Rotate, Write, WriteOut, CheckSize, ReleaseOld, Reopen, ShiftDone, Create, EndRun, Start,
       TakeWriter, BeginRun, RefuseStart, CloseFile, Crash, Restart, Aside

LEMMA FaultsGrow ==
  TypeOK /\ [Next]_vars => /\ failedOps' >= failedOps /\ rotationErrors' >= rotationErrors
                           /\ crashes' >= crashes
<1> SUFFICES ASSUME TypeOK, [Next]_vars
             PROVE  /\ failedOps' >= failedOps /\ rotationErrors' >= rotationErrors
                    /\ crashes' >= crashes
  OBVIOUS
<1>0. failedOps \in Nat /\ rotationErrors \in Nat /\ crashes \in Nat
  BY DEF TypeOK
<1>1. CASE ReleaseOld
  <2>1. PICK m \in 0..2 : Report(m, m)
    <3>1. PICK a \in 0..1, b \in 0..1 : Report(a + b, a + b)
      BY <1>1 DEF ReleaseOld
    <3>2. a + b \in 0..2
      OBVIOUS
    <3> QED BY <3>1, <3>2
  <2> QED BY <1>0, <1>1, <2>1 DEF ReleaseOld
<1>2. CASE Rotate /\ ~ReleaseOld
  BY <1>0, <1>2 DEF Rotate, CheckSize, MoveAside, Reopen, ShiftBackup, ShiftDone, MoveToFirst, Create
<1>3. CASE EndRun \/ Start \/ CloseFile \/ Crash \/ Restart \/ UNCHANGED vars
  BY <1>0, <1>3 DEF EndRun, Start, TakeWriter, BeginRun, RefuseStart, CloseFile, Crash, Restart
<1>4. CASE Write
  <2>1. UNCHANGED <<failedOps, rotationErrors, crashes>>
    BY <1>4 DEF Write, WriteOut
  <2> QED BY <1>0, <2>1
<1> QED BY <1>1, <1>2, <1>3, <1>4 DEF Next

LEMMA ChainStep == TypeOK /\ ShiftInv /\ ChainInv /\ [Next]_vars => ChainInv'
<1> SUFFICES ASSUME TypeOK, ShiftInv, ChainInv, [Next]_vars, failedOps' = 0, crashes' = 0
             PROVE  ChainInv'
  BY DEF ChainInv
<1>0. /\ failedOps = 0 /\ crashes = 0 /\ Len(rotated) \in Nat /\ Keep \in Nat \ {0} /\ shift \in -1..(Keep - 1)
      /\ backup \in [1..Keep -> Contents] /\ rotated \in Seq(Data) /\ live \in Contents
  BY FaultsGrow, KeepPositive DEF TypeOK, Data
<1> DEFINE R == Len(rotated)
<1>1. CASE MoveAside
  <2>1. /\ rotating' = live /\ live.exists /\ rotated' = Append(rotated, live.data)
        /\ shift' = FirstShift /\ pc = "aside" /\ pc' = "shift" /\ backup' = backup
    BY <1>0, <1>1 DEF MoveAside
  <2>2. live.data \in Data /\ live = FileOf(live.data)
    BY <1>0, <2>1, FileType DEF FileOf, Contents
  <2>3. Len(rotated') = R + 1 /\ rotated'[R + 1] = live.data /\ \A j \in 1..R : rotated'[j] = rotated[j]
    BY <1>0, <2>1, <2>2, AppendProperties
  <2>4. rotating' = Nth(1)'
    <3>1. Len(rotated') - 1 + 1 = R + 1
      BY <1>0, <2>3
    <3> QED BY <2>1, <2>2, <2>3, <3>1 DEF Nth
  <2>5. \A i \in 1..Keep : i < Len(rotated') => backup'[i] = Nth(i + 1)'
    <3> SUFFICES ASSUME NEW i \in 1..Keep, i < Len(rotated') PROVE backup'[i] = Nth(i + 1)'
      OBVIOUS
    <3>1. i =< R /\ R - i + 1 \in 1..R /\ Len(rotated') - (i + 1) + 1 = R - i + 1
      BY <1>0, <2>3
    <3>2. backup[i] = FileOf(rotated[R - i + 1])
      BY <1>0, <2>1, <3>1 DEF ChainInv, Aside, Nth
    <3> QED BY <2>1, <2>3, <3>1, <3>2 DEF Nth
  <2>6. \A i \in 2..Keep : ~(i >= shift' + 2)
    BY <1>0, <2>1, FirstShiftIs, RotationAssumption
  <2> QED BY <1>0, <2>1, <2>3, <2>4, <2>5, <2>6 DEF ChainInv, Aside
<1>2. CASE ShiftBackup
  <2>1. /\ pc = "shift" /\ pc' = "shift" /\ shift > 0 /\ shift' = shift - 1 /\ rotated' = rotated /\ rotating' = rotating
        /\ backup' = IF backup[shift].exists THEN MoveBackup(backup, shift) ELSE backup
    BY <1>0, <1>2 DEF ShiftBackup, MoreToShift
  <2>2. /\ R > 0 /\ rotating = Nth(1)
        /\ \A i \in 2..Keep : i >= shift + 2 /\ i =< R => backup[i] = Nth(i)
        /\ \A i \in 1..Keep : i =< shift /\ i < R => backup[i] = Nth(i + 1)
    BY <1>0, <2>1 DEF ChainInv, Aside
  <2>3. \A i : Nth(i)' = Nth(i)
    BY <2>1 DEF Nth
  <2>4. shift \in 1..Keep /\ shift + 1 \in 1..Keep
    BY <1>0, <2>1
  <2>5. \A i \in 1..Keep : i # shift /\ i # shift + 1 => backup'[i] = backup[i]
    BY <1>0, <2>1, <2>4 DEF MoveBackup
  <2>6. ASSUME shift + 1 =< R PROVE backup'[shift + 1] = Nth(shift + 1)
    <3>1. backup[shift] = Nth(shift + 1)
      BY <1>0, <2>2, <2>4, <2>6
    <3>2. backup[shift].exists
      BY <3>1 DEF Nth, FileOf
    <3> QED BY <1>0, <2>1, <2>4, <3>1, <3>2 DEF MoveBackup
  <2>7. \A i \in 2..Keep : i >= shift' + 2 /\ i =< R => backup'[i] = Nth(i)
    <3> TAKE i \in 2..Keep
    <3> HAVE i >= shift' + 2 /\ i =< R
    <3>1. CASE i = shift + 1
      BY <2>6, <3>1
    <3>2. CASE i # shift + 1
      <4>1. i >= shift + 2 /\ i # shift /\ i \in 1..Keep
        BY <1>0, <2>1, <3>2
      <4> QED BY <2>2, <2>5, <3>2, <4>1
    <3> QED BY <3>1, <3>2
  <2>8. \A i \in 1..Keep : i =< shift' /\ i < R => backup'[i] = Nth(i + 1)
    BY <1>0, <2>1, <2>2, <2>5
  <2> QED BY <1>0, <2>1, <2>2, <2>3, <2>7, <2>8 DEF ChainInv, Aside
<1>3. CASE MoveToFirst
  <2>1. /\ pc = "first" /\ pc' = "create" /\ rotated' = rotated
        /\ backup' = [backup EXCEPT ![1] = rotating]
    BY <1>0, <1>3 DEF MoveToFirst
  <2>2. /\ rotating = Nth(1) /\ \A i \in 2..Keep : i =< R => backup[i] = Nth(i)
    BY <1>0, <2>1 DEF ChainInv, Aside, ShiftInv
  <2>3. \A i : Nth(i)' = Nth(i)
    BY <2>1 DEF Nth
  <2>4. \A i \in 1..Keep : i =< R => backup'[i] = Nth(i)
    <3> TAKE i \in 1..Keep
    <3>1. CASE i = 1
      BY <1>0, <2>1, <2>2, <3>1
    <3>2. CASE i # 1
      BY <1>0, <2>1, <2>2, <3>2
    <3> QED BY <3>1, <3>2
  <2> QED BY <2>1, <2>3, <2>4 DEF ChainInv, Aside
<1>4. CASE ~MoveAside /\ ~ShiftBackup /\ ~MoveToFirst
  <2>1. UNCHANGED <<rotating, backup, rotated>> /\ (Aside' => Aside /\ shift' = shift) /\ (Aside => Aside')
    BY <1>0, <1>4, FilesStay
  <2> QED BY <1>0, <2>1 DEF ChainInv, Nth
<1> QED BY <1>1, <1>2, <1>3, <1>4

\* As long as no operation failed and the process did not crash, .i holds the
\* i-th newest rotated log.
THEOREM BackupsInOrder == Spec => []BackupIsNth
<1>1. Init => ShiftInv /\ ChainInv
  BY DEF Init, ShiftInv, ChainInv, Aside
<1>2. ChainInv => BackupIsNth
  BY DEF ChainInv, BackupIsNth, Aside, Nth
<1> QED BY <1>1, <1>2, TypeCorrect, ShiftStep, ChainStep, PTL DEF Spec

-----------------------------------------------------------------------------
(* One lost backup per fault. *)

UpTo(data, n) == \A j \in 1..Len(data) : data[j] =< n

\* No two of the logs moved aside are the same, and none is the live one: what
\* is written next is newer than all that was.
AgeInv ==
  /\ \A g \in 1..Len(rotated) : /\ UpTo(rotated[g], written)
                                /\ live.data # <<>> => rotated[g] # live.data
  /\ UpTo(live.data, written)
  /\ ~live.exists => live.data = <<>>
  /\ \A g, h \in 1..Len(rotated) : rotated[g] = rotated[h] /\ rotated[g] # <<>> => g = h

\* What a write leaves of the live log: the same entries, or some with a number
\* that none had before.
LEMMA WriteNew ==
  ASSUME TypeOK, AgeInv, Write
  PROVE  /\ \/ live'.data = live.data /\ (live'.exists \/ live' = live)
            \/ /\ live'.exists /\ live'.data \in Data
               /\ \E j \in 1..Len(live'.data) : live'.data[j] > written
         /\ UpTo(live'.data, written') /\ written' >= written
<1>1. PICK n \in 1..MaxBatch, checks \in BOOLEAN : \E k \in 0..n : WriteOut(n, k, checks)
  BY DEF Write
<1>2. PICK k \in 0..n : WriteOut(n, k, checks)
  BY <1>1
<1> USE RotationAssumption
<1>3. /\ n \in Nat /\ k \in Nat /\ k =< n /\ written \in Nat /\ live.data \in Data
      /\ written' = written + n /\ written + n =< MaxEntries
  BY <1>2, FileType DEF TypeOK, WriteOut
<1>4. CASE bw = "current" /\ CanWrite
  <2> DEFINE new == [i \in 1..k |-> written + i]
  <2>1. live' = FileOf(live.data \o new)
    BY <1>2, <1>4 DEF WriteOut
  <2>2. new \in Data /\ Len(new) = k /\ \A i \in 1..k : new[i] = written + i
    <3>1. \A i \in 1..k : written + i \in 1..MaxEntries
      BY <1>3
    <3> QED BY <1>3, <3>1 DEF Data
  <2> HIDE DEF new
  <2>3. PICK a \in Data : a = live.data
    BY <1>3
  <2>4. Len(a) \in Nat
    BY DEF Data
  <2>5. PICK b \in Data : b = a \o new
    <3>1. a \o new \in Data
      BY <2>2, ConcatProperties DEF Data
    <3> QED BY <3>1
  <2>6. /\ Len(b) = Len(a) + k
        /\ \A i \in 1..Len(a) + k : b[i] = IF i =< Len(a) THEN a[i] ELSE new[i - Len(a)]
    <3>1. a \in Seq(1..MaxEntries) /\ new \in Seq(1..MaxEntries)
      BY <2>2 DEF Data
    <3> QED BY <2>2, <2>5, <3>1, ConcatProperties
  <2>7. live'.data = b /\ live'.exists
    BY <2>1, <2>3, <2>5 DEF FileOf
  <2>8. UpTo(b, written')
    <3> SUFFICES ASSUME NEW i \in 1..Len(b) PROVE b[i] =< written'
      BY DEF UpTo
    <3>1. CASE i =< Len(a)
      <4>1. a[i] =< written /\ a[i] \in Int
        BY <2>3, <2>4, <2>6, <3>1 DEF AgeInv, UpTo, Data
      <4> QED BY <1>3, <2>4, <2>6, <3>1, <4>1
    <3>2. CASE ~ (i =< Len(a))
      <4>1. i - Len(a) \in 1..k
        BY <1>3, <2>4, <2>6, <3>2
      <4> QED BY <1>3, <2>2, <2>4, <2>6, <3>2, <4>1
    <3> QED BY <3>1, <3>2
  <2>9. CASE k = 0
    <3>1. new = <<>>
      BY <2>2, <2>9, EmptySeq DEF Data
    <3>2. b = a
      BY <2>5, <3>1, ConcatEmptySeq DEF Data
    <3> QED BY <1>3, <2>3, <2>7, <2>8, <3>2
  <2>10. CASE k # 0
    <3>1. Len(b) \in 1..Len(b) /\ b[Len(b)] > written
      <4>1. Len(b) \in 1..Len(b) /\ ~ (Len(b) =< Len(a)) /\ Len(b) - Len(a) = k /\ k \in 1..k
        BY <1>3, <2>4, <2>6, <2>10
      <4>2. b[Len(b)] = new[k]
        BY <2>6, <4>1
      <4> QED BY <1>3, <2>2, <4>1, <4>2
    <3> QED BY <1>3, <2>7, <2>8, <3>1
  <2> QED BY <2>9, <2>10
<1>5. CASE ~(bw = "current" /\ CanWrite)
  <2>1. live' = live
    BY <1>2, <1>5 DEF WriteOut
  <2>2. UpTo(live.data, written')
    <3> SUFFICES ASSUME NEW i \in 1..Len(live.data) PROVE live.data[i] =< written'
      BY <2>1 DEF UpTo
    <3>1. live.data[i] =< written /\ live.data[i] \in Int
      BY <1>3 DEF AgeInv, UpTo, Data
    <3> QED BY <1>3, <3>1
  <2> QED BY <1>3, <2>1, <2>2
<1> QED BY <1>4, <1>5

LEMMA AgeStep == TypeOK /\ AgeInv /\ LiveInv /\ [Next]_vars => AgeInv'
<1> SUFFICES ASSUME TypeOK, AgeInv, LiveInv, [Next]_vars PROVE AgeInv'
  OBVIOUS
<1>0. /\ rotated \in Seq(Data) /\ Len(rotated) \in Nat /\ live \in Contents /\ live.data \in Data
      /\ written \in Nat /\ \A g \in 1..Len(rotated) : rotated[g] \in Data
  <2>1. live \in Contents /\ written \in Nat /\ rotated \in Seq(Data)
    BY RotationAssumption DEF TypeOK, Data
  <2>2. \A S, s : s \in Seq(S) => Len(s) \in Nat /\ \A g \in 1..Len(s) : s[g] \in S
    OBVIOUS
  <2> HIDE DEF Data
  <2> QED BY <2>1, <2>2, FileType
<1>a. UpTo(<<>>, written)
  BY DEF UpTo
<1>1. CASE Write
  <2>1. rotated' = rotated
    BY <1>1 DEF Write, WriteOut
  <2>2. written' >= written /\ written' \in Int /\ UpTo(live'.data, written')
    <3>1. written' \in Int
      BY <1>0, <1>1 DEF Write, WriteOut
    <3> QED BY <1>1, <3>1, WriteNew
  <2>3. \A g \in 1..Len(rotated) : UpTo(rotated[g], written')
    <3> SUFFICES ASSUME NEW g \in 1..Len(rotated), NEW j \in 1..Len(rotated[g])
                 PROVE  rotated[g][j] =< written'
      BY DEF UpTo
    <3>1. rotated[g][j] =< written
      BY DEF AgeInv, UpTo
    <3>2. rotated[g][j] \in Int
      <4>1. PICK d \in Data : d = rotated[g]
        BY <1>0
      <4> QED BY <4>1, RotationAssumption DEF Data
    <3> QED BY <1>0, <2>2, <3>1, <3>2
  <2>4. CASE live'.data = live.data /\ (live'.exists \/ live' = live)
    BY <2>1, <2>2, <2>3, <2>4 DEF AgeInv
  <2>5. CASE live'.exists /\ live'.data \in Data /\ \E j \in 1..Len(live'.data) : live'.data[j] > written
    <3>1. PICK j \in 1..Len(live'.data) : live'.data[j] > written
      BY <2>5
    <3>2. ASSUME NEW g \in 1..Len(rotated), rotated[g] = live'.data PROVE FALSE
      <4>1. PICK d \in Data : d = live'.data
        BY <2>5
      <4>2. d[j] =< written
        BY <3>1, <3>2, <4>1 DEF AgeInv, UpTo
      <4>3. d[j] \in Int
        BY <3>1, <4>1, RotationAssumption DEF Data
      <4> QED BY <1>0, <3>1, <4>1, <4>2, <4>3
    <3> QED BY <2>1, <2>2, <2>3, <2>5, <3>2 DEF AgeInv
  <2> QED BY <1>1, <2>4, <2>5, WriteNew
<1>2. ASSUME MoveAside, rotated' # rotated PROVE AgeInv'
  <2>1. live.exists /\ live' = NoFile /\ rotated' = Append(rotated, live.data) /\ written' = written
    BY <1>2 DEF MoveAside
  <2>2. PICK R \in Nat : R = Len(rotated)
    BY <1>0
  <2>3. /\ Len(rotated') = R + 1 /\ rotated'[R + 1] = live.data
        /\ \A g \in 1..R : rotated'[g] = rotated[g]
        /\ \A g \in 1..R + 1 : g = R + 1 \/ g \in 1..R
    BY <1>0, <2>1, <2>2, AppendProperties
  <2>4. live'.data = <<>> /\ ~live'.exists
    BY <2>1 DEF NoFile
  <2>5. \A g \in 1..R + 1 : UpTo(rotated'[g], written)
    BY <2>2, <2>3 DEF AgeInv
  <2>6. \A g, h \in 1..R + 1 : rotated'[g] = rotated'[h] /\ rotated'[g] # <<>> => g = h
    BY <2>2, <2>3 DEF AgeInv
  <2>7. UpTo(live'.data, written)
    BY <1>a, <2>4
  <2> QED BY <2>1, <2>3, <2>4, <2>5, <2>6, <2>7 DEF AgeInv
<1>3. ASSUME rotated' = rotated, written' = written, live'.data = live.data \/ live'.data = <<>>,
             live' = live \/ live'.exists
      PROVE  AgeInv'
  <2>1. ~live'.exists => live'.data = <<>>
    BY <1>3 DEF AgeInv
  <2>2. UpTo(live'.data, written)
    BY <1>3, <1>a DEF AgeInv
  <2> QED BY <1>3, <2>1, <2>2 DEF AgeInv
<1>4. CASE Rotate /\ ~ (MoveAside /\ rotated' # rotated)
  <2>1. rotated' = rotated /\ written' = written
    BY <1>4 DEF Rotate, CheckSize, ReleaseOld, MoveAside, Reopen, ShiftBackup, ShiftDone, MoveToFirst,
                Create
  <2>2. CASE Reopen \/ Create
    <3>1. live' = live \/ live' = FileOf(live.data) \/ live' = FileOf(<<>>)
      BY <2>2 DEF Reopen, Create, Opened, NotOpened
    <3> QED BY <1>3, <2>1, <3>1 DEF FileOf
  <2>3. CASE MoveAside
    <3>1. CASE live' = live
      BY <1>3, <2>1, <3>1
    <3>2. CASE rotated' = Append(rotated, live.data)
      <4>1. Len(rotated') = Len(rotated) + 1
        BY <1>0, <3>2, AppendProperties
      <4> QED BY <1>0, <2>1, <4>1
    <3> QED BY <2>3, <3>1, <3>2 DEF MoveAside
  <2>4. CASE CheckSize \/ ReleaseOld \/ ShiftBackup \/ ShiftDone \/ MoveToFirst
    <3>1. live' = live
      BY <2>4 DEF CheckSize, ReleaseOld, ShiftBackup, ShiftDone, MoveToFirst
    <3> QED BY <1>3, <2>1, <3>1
  <2> QED BY <1>4, <2>2, <2>3, <2>4 DEF Rotate
<1>5. CASE EndRun \/ Start \/ CloseFile \/ Crash \/ UNCHANGED vars
  BY <1>3, <1>5 DEF EndRun, Start, TakeWriter, BeginRun, RefuseStart, CloseFile, Crash
<1>6. CASE Restart
  BY <1>3, <1>6 DEF Restart, Opened, FileOf
<1> QED BY <1>1, <1>2, <1>4, <1>5, <1>6 DEF Next, Rotate

\* A file of old entries holds a log that was moved aside, or nothing ...
Archived(f) == /\ f.data # <<>> => \E g \in 1..Len(rotated) : rotated[g] = f.data
               /\ ~f.exists => f.data = <<>>

\* ... and as many logs were moved aside since as the place of the file says.
Later(f, n) == \A g \in 1..Len(rotated) :
                 rotated[g] # <<>> /\ rotated[g] = f.data => Len(rotated) - g >= n

\* A backup has i - 1 newer logs in front of it, and one more in a rotation that
\* has not got to its place yet.
Newer(i) == IF Aside /\ (i =< shift + 1 \/ i = 1) THEN i ELSE i - 1

FilesInv == /\ Archived(rotating)
            /\ \A i \in 1..Keep : Archived(backup[i]) /\ Later(backup[i], Newer(i))

LEMMA FilesStep == TypeOK /\ ShiftInv /\ AgeInv /\ FilesInv /\ [Next]_vars => FilesInv'
<1> SUFFICES ASSUME TypeOK, ShiftInv, AgeInv, FilesInv, [Next]_vars PROVE FilesInv'
  OBVIOUS
<1>0. /\ Len(rotated) \in Nat /\ Keep \in Nat \ {0} /\ shift \in -1..(Keep - 1)
      /\ backup \in [1..Keep -> Contents] /\ rotated \in Seq(Data) /\ live \in Contents
      /\ live.data \in Data
  <2>1. /\ Len(rotated) \in Nat /\ Keep \in Nat \ {0} /\ shift \in -1..(Keep - 1)
        /\ backup \in [1..Keep -> Contents] /\ rotated \in Seq(Data) /\ live \in Contents
    BY KeepPositive DEF TypeOK, Data
  <2> QED BY <2>1, FileType
<1>a. Archived(NoFile) /\ \A n : Later(NoFile, n)
  BY DEF Archived, Later, NoFile
<1>1. ASSUME MoveAside, rotated' = Append(rotated, live.data), rotating' = live, shift' = FirstShift,
             pc' = "shift"
      PROVE  FilesInv'
  <2>1. backup' = backup
    BY <1>1 DEF MoveAside
  <2>2. PICK R \in Nat : R = Len(rotated)
    BY <1>0
  <2>3. /\ Len(rotated') = R + 1 /\ rotated'[R + 1] = live.data
        /\ \A g \in 1..R : rotated'[g] = rotated[g] /\ g \in 1..R + 1
        /\ \A g \in 1..R + 1 : g = R + 1 \/ g \in 1..R
        /\ R + 1 \in 1..R + 1
    BY <1>0, <1>1, <2>2, AppendProperties
  <2>4. Archived(rotating)'
    BY <1>1, <2>3 DEF Archived, AgeInv
  <2>5. ASSUME NEW i \in 1..Keep PROVE Archived(backup[i])' /\ Later(backup[i], Newer(i))'
    <3>1. Archived(backup[i])'
      BY <2>1, <2>2, <2>3 DEF FilesInv, Archived
    <3>2. Newer(i)' = i /\ Newer(i) = i - 1
      <4>1. pc = "aside" /\ Aside' /\ ~Aside
        BY <1>1 DEF MoveAside, Aside
      <4>2. i =< FirstShift + 1 \/ i = 1
        BY <1>0, FirstShiftIs, RotationAssumption
      <4> QED BY <1>1, <4>1, <4>2 DEF Newer
    <3>3. ASSUME NEW g \in 1..R + 1, rotated'[g] # <<>>, rotated'[g] = backup[i].data
          PROVE  R + 1 - g >= i
      <4>1. g # R + 1
        BY <2>2, <2>3, <3>3 DEF FilesInv, Archived, AgeInv
      <4>2. g \in 1..R /\ rotated[g] = backup[i].data /\ rotated[g] # <<>>
        BY <2>3, <3>3, <4>1
      <4>3. R - g >= i - 1
        BY <2>2, <3>2, <4>2 DEF FilesInv, Later
      <4>4. g \in Nat /\ i \in Nat
        BY <4>2
      <4> QED BY <4>3, <4>4
    <3>4. Later(backup[i], Newer(i))'
      BY <2>1, <2>3, <3>2, <3>3 DEF Later
    <3> QED BY <3>1, <3>4
  <2> QED BY <2>4, <2>5 DEF FilesInv
<1>b. ASSUME NEW i \in 1..Keep, NEW j \in 1..Keep, rotated' = rotated, backup'[i] = backup[j],
             Newer(i)' =< Newer(j), Newer(i)' \in Int, Newer(j) \in Int
      PROVE  Archived(backup[i])' /\ Later(backup[i], Newer(i))'
  <2>1. Archived(backup[i])'
    BY <1>b DEF FilesInv, Archived
  <2>2. Later(backup[j], Newer(j))
    BY DEF FilesInv
  <2>3. \A g \in 1..Len(rotated) : Len(rotated) - g \in Int
    BY <1>0
  <2>4. Later(backup[i], Newer(i))'
    BY <1>b, <2>2, <2>3 DEF Later
  <2> QED BY <2>1, <2>4
<1>c. \A i \in 1..Keep : Newer(i) \in Int /\ Newer(i)' \in Int
  BY DEF Newer
<1>2. CASE ShiftBackup
  <2>1. /\ pc = "shift" /\ pc' = "shift" /\ shift > 0 /\ shift' = shift - 1 /\ rotated' = rotated
        /\ rotating' = rotating
        /\ backup' = backup \/ backup' = MoveBackup(backup, shift)
    BY <1>2 DEF ShiftBackup, MoreToShift
  <2>2. \A i \in 1..Keep : Newer(i)' =< Newer(i)
    BY <1>0, <2>1 DEF Newer, Aside
  <2>3. ASSUME NEW i \in 1..Keep PROVE Archived(backup[i])' /\ Later(backup[i], Newer(i))'
    <3>1. CASE backup'[i] = backup[i]
      BY <1>b, <1>c, <2>1, <2>2, <3>1
    <3>2. CASE backup' = MoveBackup(backup, shift)
      <4>0. shift \in 1..Keep /\ shift + 1 \in 1..Keep /\ shift # shift + 1
        BY <1>0, <2>1
      <4>1. CASE i = shift
        <5>1. backup'[i] = NoFile
          BY <1>0, <3>2, <4>0, <4>1 DEF MoveBackup
        <5> QED BY <5>1 DEF Archived, Later, NoFile
      <4>2. CASE i = shift + 1
        <5>1. backup'[i] = backup[shift]
          BY <1>0, <3>2, <4>0, <4>2 DEF MoveBackup
        <5>2. Newer(i)' = shift /\ Newer(shift) = shift
          BY <1>0, <2>1, <4>2 DEF Newer, Aside
        <5> QED BY <1>b, <1>c, <2>1, <4>0, <5>1, <5>2
      <4>3. CASE i # shift /\ i # shift + 1
        <5>1. backup'[i] = backup[i]
          BY <1>0, <3>2, <4>0, <4>3 DEF MoveBackup
        <5> QED BY <3>1, <5>1
      <4> QED BY <4>1, <4>2, <4>3
    <3> QED BY <2>1, <3>1, <3>2
  <2>4. Archived(rotating)'
    BY <2>1 DEF FilesInv, Archived
  <2> QED BY <2>3, <2>4 DEF FilesInv
<1>3. CASE MoveToFirst
  <2>1. /\ pc = "first" /\ pc' = "create" /\ rotated' = rotated
        /\ \/ backup' = [backup EXCEPT ![1] = rotating] /\ rotating' = NoFile
           \/ backup' = backup /\ rotating' = rotating
    BY <1>3 DEF MoveToFirst
  <2>2. \A i \in 1..Keep : Newer(i)' =< Newer(i) /\ Newer(i)' = i - 1
    BY <1>0, <2>1 DEF Newer, Aside
  <2>3. ASSUME NEW i \in 1..Keep PROVE Archived(backup[i])' /\ Later(backup[i], Newer(i))'
    <3>1. CASE backup'[i] = backup[i]
      BY <1>b, <1>c, <2>1, <2>2, <3>1
    <3>2. CASE i = 1 /\ backup'[1] = rotating
      <4>1. Archived(backup[1])'
        BY <2>1, <3>2 DEF FilesInv, Archived
      <4>2. \A g \in 1..Len(rotated) : Len(rotated) - g >= 0
        BY <1>0
      <4>3. Later(backup[1], 0)'
        BY <2>1, <4>2 DEF Later
      <4>4. Newer(1)' = 0
        BY <2>2, <3>2
      <4> QED BY <3>2, <4>1, <4>3, <4>4
    <3>3. backup'[i] = backup[i] \/ (i = 1 /\ backup'[1] = rotating)
      BY <1>0, <2>1
    <3> QED BY <3>1, <3>2, <3>3
  <2>4. Archived(rotating)'
    <3>1. CASE rotating' = NoFile
      BY <3>1 DEF Archived, NoFile
    <3>2. CASE rotating' = rotating
      BY <2>1, <3>2 DEF FilesInv, Archived
    <3> QED BY <2>1, <3>1, <3>2
  <2> QED BY <2>3, <2>4 DEF FilesInv
<1>4. ASSUME UNCHANGED <<rotating, backup, rotated>>, Aside' => Aside /\ shift' = shift PROVE FilesInv'
  <2>1. \A i \in 1..Keep : Newer(i)' =< Newer(i)
    BY <1>0, <1>4 DEF Newer
  <2>2. \A i \in 1..Keep : Archived(backup[i])' /\ Later(backup[i], Newer(i))'
    BY <1>4, <1>b, <1>c, <2>1
  <2>3. Archived(rotating)'
    BY <1>4 DEF FilesInv, Archived
  <2> QED BY <2>2, <2>3 DEF FilesInv
<1>5. CASE MoveAside
  <2>1. CASE UNCHANGED <<live, rotating, rotated, shift>> /\ pc' = "reopen"
    <3>1. backup' = backup /\ ~Aside'
      BY <1>5, <2>1 DEF MoveAside, Aside
    <3> QED BY <1>4, <2>1, <3>1
  <2> QED BY <1>1, <1>5, <2>1 DEF MoveAside, AfterFailedMove
<1> QED BY <1>2, <1>3, <1>4, <1>5, FilesStay

-----------------------------------------------------------------------------
\* What will be lost although the fault is counted already: a log left over in
\* .rotating, and a backup that was not moved out of the way of the next.
Leftover == ~Aside /\ rotating.data # <<>>
InTheWay == Aside /\ shift < FirstShift /\ backup[shift + 1].data # <<>>

Owed(b) == IF b THEN 1 ELSE 0

CountInv == Cardinality(LostEarly) + (Owed(Leftover) + Owed(InTheWay)) =< rotationErrors + crashes

LEMMA LostFinite ==
  /\ TypeOK  => IsFiniteSet(LostEarly) /\ Cardinality(LostEarly) \in Nat
  /\ TypeOK' => IsFiniteSet(LostEarly') /\ Cardinality(LostEarly') \in Nat
<1>1. ASSUME NEW s \in Seq(Data), NEW T, T \subseteq DOMAIN s
      PROVE  IsFiniteSet(T) /\ Cardinality(T) \in Nat
  <2>1. DOMAIN s = 1..Len(s) /\ Len(s) \in Nat
    OBVIOUS
  <2>2. IsFiniteSet(DOMAIN s)
    BY <2>1, FS_Interval
  <2> QED BY <1>1, <2>2, FS_Subset, FS_CardinalityType
<1>2. /\ TypeOK => rotated \in Seq(Data)
      /\ TypeOK' => rotated' \in Seq(Data)
  BY DEF TypeOK, Data
<1>3. LostEarly \subseteq DOMAIN rotated /\ LostEarly' \subseteq DOMAIN rotated'
  BY DEF LostEarly
<1>4. TypeOK => IsFiniteSet(LostEarly) /\ Cardinality(LostEarly) \in Nat
  BY <1>1, <1>2, <1>3
<1>5. TypeOK' => IsFiniteSet(LostEarly') /\ Cardinality(LostEarly') \in Nat
  BY <1>1, <1>2, <1>3
<1> QED BY <1>4, <1>5

LEMMA LostIs ==
  TypeOK => \A g : g \in LostEarly <=>
    /\ g \in 1..Len(rotated) /\ rotated[g] # <<>> /\ Len(rotated) - g < Keep
    /\ rotating.data # rotated[g] /\ \A i \in 1..Keep : backup[i].data # rotated[g]
<1> SUFFICES ASSUME TypeOK PROVE DOMAIN rotated = 1..Len(rotated)
  BY DEF LostEarly
<1>1. rotated \in Seq(Data)
  BY DEF TypeOK, Data
<1> QED BY <1>1

\* A step by which the logs in one file, at most, are lost, loses at most one.
LEMMA OneGone ==
  ASSUME TypeOK, TypeOK', AgeInv', NEW d,
         \A g \in LostEarly' : g \in LostEarly \/ rotated'[g] = d
  PROVE  Cardinality(LostEarly') =< Cardinality(LostEarly) + 1
<1>1. /\ IsFiniteSet(LostEarly) /\ Cardinality(LostEarly) \in Nat
      /\ IsFiniteSet(LostEarly') /\ Cardinality(LostEarly') \in Nat
  BY LostFinite
<1>2. \A g \in LostEarly' : g \in 1..Len(rotated') /\ rotated'[g] # <<>>
  <2>1. rotated' \in Seq(Data)
    BY DEF TypeOK, Data
  <2>2. DOMAIN rotated' = 1..Len(rotated')
    BY <2>1
  <2> QED BY <2>2 DEF LostEarly
<1>3. \E x : LostEarly' \subseteq LostEarly \union {x}
  BY <1>2 DEF AgeInv
<1>4. PICK x : LostEarly' \subseteq LostEarly \union {x}
  BY <1>3
<1>5. /\ IsFiniteSet(LostEarly \union {x}) /\ Cardinality(LostEarly \union {x}) \in Nat
      /\ Cardinality(LostEarly \union {x}) =< Cardinality(LostEarly) + 1
  <2>1. PICK S : S = LostEarly
    OBVIOUS
  <2>2. IsFiniteSet(S \union {x}) /\ (Cardinality(S \union {x}) = Cardinality(S) + 1
                                      \/ Cardinality(S \union {x}) = Cardinality(S))
    BY <1>1, <2>1, FS_AddElement
  <2> QED BY <1>1, <2>1, <2>2
<1>6. Cardinality(LostEarly') =< Cardinality(LostEarly \union {x})
  BY <1>4, <1>5, FS_Subset
<1> QED BY <1>1, <1>5, <1>6

LEMMA NoneGone ==
  ASSUME TypeOK, TypeOK', LostEarly' \subseteq LostEarly
  PROVE  Cardinality(LostEarly') =< Cardinality(LostEarly)
BY LostFinite, FS_Subset

LEMMA Types ==
  TypeOK => /\ Len(rotated) \in Nat /\ Keep \in Nat \ {0} /\ shift \in -1..(Keep - 1)
            /\ backup \in [1..Keep -> Contents] /\ rotated \in Seq(Data) /\ live \in Contents
            /\ rotationErrors \in Nat /\ crashes \in Nat
BY KeepPositive DEF TypeOK, Data

LEMMA SumType == \A a, b \in Nat : a + b \in Nat
OBVIOUS

\* The sums of these proofs.
LEMMA Sums ==
  ASSUME NEW a \in Nat, NEW b \in Nat, NEW c \in Nat, NEW d \in Nat, NEW m \in Nat, NEW n \in Nat,
         NEW o \in Nat, NEW p \in Nat
  PROVE  /\ c >= a /\ d = b + 1 => c + d >= (a + b) + 1
         /\ n =< m /\ p =< 1 => n + p =< (m + o) + 1
OBVIOUS

LEMMA CountStep ==
  TypeOK /\ ShiftInv /\ AgeInv /\ AgeInv' /\ FilesInv /\ CountInv /\ TypeOK' /\ [Next]_vars => CountInv'
<1> SUFFICES ASSUME TypeOK, ShiftInv, AgeInv, AgeInv', FilesInv, CountInv, TypeOK', [Next]_vars
             PROVE  CountInv'
  OBVIOUS
<1>0. /\ Len(rotated) \in Nat /\ Keep \in Nat \ {0} /\ shift \in -1..(Keep - 1)
      /\ backup \in [1..Keep -> Contents] /\ rotated \in Seq(Data) /\ live \in Contents
      /\ rotationErrors \in Nat /\ crashes \in Nat /\ rotationErrors' \in Nat /\ crashes' \in Nat
  <2>1. rotationErrors' \in Nat /\ crashes' \in Nat
    BY DEF TypeOK
  <2> QED BY <2>1, Types
<1>n. /\ rotationErrors \in Nat /\ crashes \in Nat
      /\ rotationErrors' \in Nat /\ crashes' \in Nat
  BY <1>0
<1> DEFINE C == Cardinality(LostEarly)
<1>a. C \in Nat /\ C' \in Nat
  BY LostFinite
<1>b. /\ \A b : Owed(b) \in {0, 1} /\ (b => Owed(b) = 1) /\ (~b => Owed(b) = 0)
      /\ C + (Owed(Leftover) + Owed(InTheWay)) =< rotationErrors + crashes
      /\ rotationErrors' >= rotationErrors /\ crashes' >= crashes
  BY FaultsGrow DEF Owed, CountInv
<1>c. Aside => ~Leftover
  BY DEF Leftover
<1>d. ~Aside => ~InTheWay
  BY DEF InTheWay
<1>e. Aside' => ~Leftover'
  BY DEF Leftover
<1>f. ~Aside' => ~InTheWay'
  BY DEF InTheWay
<1>g. (LostEarly' \subseteq LostEarly) => C' =< C
  BY NoneGone
<1>h. CountInv' <=> C' + (Owed(Leftover') + Owed(InTheWay')) =< rotationErrors' + crashes'
  BY DEF CountInv, Owed
<1> HIDE DEF C
\* What follows from what becomes of the three terms.
<1>i. ASSUME LostEarly' \subseteq LostEarly, Leftover' => Leftover, InTheWay' => InTheWay PROVE CountInv'
  BY <1>n, <1>a, <1>b, <1>g, <1>h, <1>i
<1>j. ASSUME LostEarly' \subseteq LostEarly, rotationErrors' + crashes' >= (rotationErrors + crashes) + 1
      PROVE  CountInv'
  <2>1. Owed(Leftover') + Owed(InTheWay') =< 1
    <3>1. CASE Aside'
      BY <1>b, <1>e, <3>1
    <3>2. CASE ~Aside'
      BY <1>b, <1>f, <3>2
    <3> QED BY <3>1, <3>2
  <2>2. Owed(Leftover) \in Nat /\ Owed(InTheWay) \in Nat /\ Owed(Leftover') \in Nat /\ Owed(InTheWay') \in Nat
    BY <1>b
  <2>3. Owed(Leftover) + Owed(InTheWay) \in Nat /\ Owed(Leftover') + Owed(InTheWay') \in Nat
    BY <2>2
  <2>4. C' + (Owed(Leftover') + Owed(InTheWay')) =< rotationErrors' + crashes'
    <3>1. PICK m \in Nat, n \in Nat, o \in Nat, p \in Nat :
            /\ m = C /\ n = C' /\ o = Owed(Leftover) + Owed(InTheWay)
            /\ p = Owed(Leftover') + Owed(InTheWay')
      BY <1>a, <2>3
    <3>2. n =< m /\ p =< 1
      BY <1>g, <1>j, <2>1, <3>1
    <3>3. m + o =< rotationErrors + crashes
      BY <1>b, <3>1
    <3>4. n + p =< rotationErrors' + crashes'
      <4>1. PICK a \in Nat, b \in Nat : a = rotationErrors + crashes /\ b = rotationErrors' + crashes'
        <5>1. rotationErrors + crashes \in Nat /\ rotationErrors' + crashes' \in Nat
          BY <1>n, SumType, Zenon
        <5> QED BY <5>1
      <4>2. n + p =< (m + o) + 1
        BY <3>2, Sums
      <4>3. m + o =< a /\ b >= a + 1
        BY <1>j, <3>3, <4>1
      <4>4. n + p =< b
        BY <4>2, <4>3
      <4> QED BY <4>1, <4>4
    <3> QED BY <3>1, <3>4
  <2> QED BY <1>h, <2>4
<1>k. ASSUME C' =< C + 1, Leftover \/ InTheWay, ~Leftover', ~InTheWay' PROVE CountInv'
  BY <1>n, <1>a, <1>b, <1>h, <1>k
<1>l. ASSUME UNCHANGED <<rotating, backup, rotated>> PROVE LostEarly' = LostEarly
  BY <1>l DEF LostEarly
<1>1. ASSUME MoveAside, rotated' = Append(rotated, live.data), rotating' = live, shift' = FirstShift,
             pc' = "shift"
      PROVE  CountInv'
  <2>1. backup' = backup /\ ~Aside /\ Aside' /\ ~Leftover' /\ ~InTheWay'
    BY <1>0, <1>1, FirstShiftIs, RotationAssumption DEF MoveAside, Aside, Leftover, InTheWay
  <2>2. PICK R \in Nat : R = Len(rotated)
    BY <1>0
  <2>3. /\ Len(rotated') = R + 1 /\ rotated'[R + 1] = live.data
        /\ \A g \in 1..R : rotated'[g] = rotated[g]
        /\ \A g \in 1..R + 1 : g = R + 1 \/ g \in 1..R
        /\ DOMAIN rotated' = 1..R + 1
    <3>1. live.data \in Data
      BY <1>0, FileType
    <3>2. rotated' \in Seq(Data)
      BY DEF TypeOK, Data
    <3>3. /\ Len(rotated') = R + 1 /\ rotated'[R + 1] = live.data
          /\ \A g \in 1..R : rotated'[g] = rotated[g]
      BY <1>0, <1>1, <2>2, <3>1, AppendProperties
    <3> QED BY <2>2, <3>2, <3>3
  <2>4. ASSUME NEW g \in LostEarly' PROVE g \in LostEarly \/ (rotating.data = rotated[g] /\ g \in 1..R /\ rotated[g] # <<>>)
    <3>1. /\ g \in 1..R + 1 /\ rotated'[g] # <<>> /\ R + 1 - g < Keep
          /\ rotating'.data # rotated'[g] /\ \A i \in 1..Keep : backup'[i].data # rotated'[g]
      BY <2>3 DEF LostEarly
    <3>2. g \in 1..R /\ rotated'[g] = rotated[g]
      BY <1>1, <2>3, <3>1
    <3>3. R - g < Keep
      BY <1>0, <3>1, <3>2
    <3> QED BY <2>1, <2>2, <3>1, <3>2, <3>3, LostIs
  <2>5. CASE rotating.data = <<>>
    BY <1>i, <2>1, <2>4, <2>5
  <2>6. CASE rotating.data # <<>>
    <3>1. C' =< C + 1
      BY <2>3, <2>4, OneGone DEF C
    <3>2. Leftover
      BY <2>1, <2>6 DEF Leftover
    <3> QED BY <1>k, <2>1, <3>1, <3>2
  <2> QED BY <2>5, <2>6
<1>2. CASE MoveAside
  <2>1. CASE UNCHANGED <<live, rotating, rotated, shift>> /\ pc' = "reopen" /\ Report(1, 1)
    <3>1. backup' = backup /\ crashes' = crashes
      BY <1>2, <2>1 DEF MoveAside
    <3>2. LostEarly' \subseteq LostEarly
      BY <1>l, <2>1, <3>1
    <3> QED BY <1>n, <1>j, <2>1, <3>1, <3>2
  <2> QED BY <1>1, <1>2, <2>1 DEF MoveAside, AfterFailedMove
<1>3. CASE ShiftBackup
  <2>1. /\ pc = "shift" /\ pc' = "shift" /\ shift > 0 /\ shift' = shift - 1 /\ rotated' = rotated
        /\ rotating' = rotating /\ crashes' = crashes
    BY <1>3 DEF ShiftBackup, MoreToShift
  <2>2. Aside /\ Aside' /\ shift' + 1 = shift /\ shift \in 1..Keep /\ shift + 1 \in 1..Keep /\ shift # shift + 1
    BY <1>0, <2>1 DEF Aside
  <2>3. CASE Report(1, 1) /\ backup' = backup
    <3>1. LostEarly' \subseteq LostEarly
      BY <1>l, <2>1, <2>3
    <3> QED BY <1>n, <1>j, <2>1, <2>3, <3>1
  <2>4. CASE ~backup[shift].exists /\ backup' = backup
    <3>1. LostEarly' \subseteq LostEarly
      BY <1>l, <2>1, <2>4
    <3>2. backup'[shift].data = <<>>
      BY <2>2, <2>4 DEF FilesInv, Archived
    <3>3. ~InTheWay'
      BY <2>2, <3>2 DEF InTheWay
    <3> QED BY <1>e, <1>i, <2>2, <3>1, <3>3
  <2>5. CASE backup' = MoveBackup(backup, shift)
    <3>1. /\ backup'[shift + 1] = backup[shift] /\ backup'[shift] = NoFile
          /\ \A i \in 1..Keep : i # shift /\ i # shift + 1 => backup'[i] = backup[i]
      BY <1>0, <2>2, <2>5 DEF MoveBackup
    <3>2. ~InTheWay' /\ ~Leftover'
      BY <1>e, <2>2, <3>1 DEF InTheWay, NoFile
    <3>3. ASSUME NEW g \in LostEarly'
          PROVE  /\ g \in 1..Len(rotated) /\ rotated[g] # <<>> /\ Len(rotated) - g < Keep
                 /\ g \in LostEarly \/ backup[shift + 1].data = rotated[g]
      <4>1. /\ g \in 1..Len(rotated) /\ rotated[g] # <<>> /\ Len(rotated) - g < Keep
            /\ rotating.data # rotated[g] /\ \A i \in 1..Keep : backup'[i].data # rotated[g]
        BY <1>0, <2>1 DEF LostEarly
      <4>2. \A i \in 1..Keep : i # shift + 1 => backup[i].data # rotated[g]
        BY <2>2, <3>1, <4>1
      <4> QED BY <4>1, <4>2, LostIs
    <3>4. CASE shift < FirstShift /\ backup[shift + 1].data # <<>>
      <4>1. InTheWay
        BY <2>2, <3>4 DEF InTheWay
      <4>2. C' =< C + 1
        BY <2>1, <3>3, OneGone DEF C
      <4> QED BY <1>k, <3>2, <4>1, <4>2
    <3>5. CASE ~ (shift < FirstShift /\ backup[shift + 1].data # <<>>)
      <4>1. ASSUME NEW g \in LostEarly', g \notin LostEarly PROVE FALSE
        <5>1. backup[shift + 1].data = rotated[g] /\ ~ (shift < FirstShift)
          BY <3>3, <3>5, <4>1
        <5>2. shift + 1 = Keep
          BY <1>0, <2>2, <5>1, FirstShiftIs, RotationAssumption DEF ShiftInv
        <5>3. Newer(Keep) = Keep
          BY <2>2, <5>2 DEF Newer
        <5>4. Len(rotated) - g >= Keep
          BY <2>2, <3>3, <4>1, <5>1, <5>2, <5>3 DEF FilesInv, Later
        <5> QED BY <1>0, <3>3, <4>1, <5>4
      <4> QED BY <1>i, <3>2, <4>1
    <3> QED BY <3>4, <3>5
  <2> QED BY <1>3, <2>3, <2>4, <2>5 DEF ShiftBackup
<1>4. CASE MoveToFirst
  <2>1. pc = "first" /\ pc' = "create" /\ rotated' = rotated /\ crashes' = crashes /\ Aside /\ ~Aside' /\ 1 \in 1..Keep
    BY <1>0, <1>4 DEF MoveToFirst, Aside
  <2>2. CASE Report(1, 1) /\ UNCHANGED <<backup, rotating>>
    <3>1. LostEarly' \subseteq LostEarly
      BY <1>l, <2>1, <2>2
    <3> QED BY <1>n, <1>j, <2>1, <2>2, <3>1
  <2>3. CASE backup' = [backup EXCEPT ![1] = rotating] /\ rotating' = NoFile
    <3>1. backup'[1] = rotating /\ \A i \in 1..Keep : i # 1 => backup'[i] = backup[i]
      BY <1>0, <2>1, <2>3
    <3>2. ~InTheWay' /\ ~Leftover'
      BY <1>f, <2>1, <2>3 DEF Leftover, NoFile
    <3>3. ASSUME NEW g \in LostEarly'
          PROVE  /\ g \in 1..Len(rotated) /\ rotated[g] # <<>> /\ Len(rotated) - g < Keep
                 /\ g \in LostEarly \/ backup[1].data = rotated[g]
      <4>1. /\ g \in 1..Len(rotated) /\ rotated[g] # <<>> /\ Len(rotated) - g < Keep
            /\ \A i \in 1..Keep : backup'[i].data # rotated[g]
        BY <1>0, <2>1 DEF LostEarly
      <4>2. rotating.data # rotated[g] /\ \A i \in 1..Keep : i # 1 => backup[i].data # rotated[g]
        BY <2>1, <3>1, <4>1
      <4> QED BY <4>1, <4>2, LostIs
    <3>4. CASE Keep > 1 /\ backup[1].data # <<>>
      <4>1. MaxBackupFiles > 0 /\ shift = 0 /\ shift < FirstShift
        BY <1>0, <2>1, <3>4, FirstShiftIs, RotationAssumption DEF ShiftInv
      <4>2. shift + 1 = 1
        BY <4>1
      <4>3. InTheWay
        BY <2>1, <3>4, <4>1, <4>2 DEF InTheWay
      <4>4. C' =< C + 1
        BY <2>1, <3>3, OneGone DEF C
      <4> QED BY <1>k, <3>2, <4>3, <4>4
    <3>5. CASE ~ (Keep > 1 /\ backup[1].data # <<>>)
      <4>1. ASSUME NEW g \in LostEarly', g \notin LostEarly PROVE FALSE
        <5>1. backup[1].data = rotated[g] /\ Keep = 1
          BY <1>0, <3>3, <3>5, <4>1
        <5>2. Newer(1) = 1
          BY <2>1 DEF Newer
        <5>3. Len(rotated) - g >= 1
          BY <2>1, <3>3, <4>1, <5>1, <5>2 DEF FilesInv, Later
        <5> QED BY <1>0, <3>3, <4>1, <5>1, <5>3
      <4> QED BY <1>i, <3>2, <4>1
    <3> QED BY <3>4, <3>5
  <2> QED BY <1>4, <2>2, <2>3 DEF MoveToFirst
<1>5. CASE ~MoveAside /\ ~ShiftBackup /\ ~MoveToFirst
  <2>1. /\ UNCHANGED <<rotating, backup, rotated>> /\ (Aside' => Aside /\ shift' = shift)
        /\ Aside /\ ~Aside' => crashes' = crashes + 1
    BY <1>5, FilesStay
  <2>2. LostEarly' \subseteq LostEarly
    BY <1>l, <2>1
  <2>3. CASE Aside /\ ~Aside'
    <3>1. crashes' = crashes + 1 /\ rotationErrors' >= rotationErrors
      BY <1>b, <2>1, <2>3
    <3>2. rotationErrors' + crashes' >= (rotationErrors + crashes) + 1
      BY <1>n, <3>1, Sums
    <3> QED BY <1>j, <2>2, <3>2
  <2>4. CASE ~ (Aside /\ ~Aside')
    <3>1. (Leftover' => Leftover) /\ (InTheWay' => InTheWay)
      BY <2>1, <2>4 DEF Leftover, InTheWay
    <3> QED BY <1>i, <2>2, <3>1
  <2> QED BY <2>3, <2>4
<1> QED BY <1>2, <1>3, <1>4, <1>5

LEMMA LossInit == Init => AgeInv /\ FilesInv /\ CountInv
<1> SUFFICES ASSUME Init PROVE AgeInv /\ FilesInv /\ CountInv
  OBVIOUS
<1>1. rotated = <<>> /\ Len(rotated) = 0 /\ live.data = <<>> /\ live.exists
  BY DEF Init, FileOf
<1>2. AgeInv
  BY <1>1 DEF AgeInv, UpTo
<1>3. FilesInv
  BY <1>1 DEF Init, FilesInv, Archived, Later, NoFile
<1>4. LostEarly = {}
  BY <1>1 DEF LostEarly
<1>5. ~Leftover /\ ~InTheWay /\ rotationErrors + crashes = 0
  BY DEF Init, Leftover, InTheWay, Aside, NoFile
<1> QED BY <1>2, <1>3, <1>4, <1>5, FS_EmptySet DEF CountInv, Owed

\* A backup goes before its time only for a counted failure of a rotation or for
\* a crash, and each of them costs at most one.
THEOREM FaultsCostOne == Spec => []OneLossPerFault
<1>1. TypeOK /\ CountInv => OneLossPerFault
  <2> SUFFICES ASSUME TypeOK, CountInv PROVE OneLossPerFault
    OBVIOUS
  <2>1. \A b : Owed(b) \in {0, 1}
    BY DEF Owed
  <2>2. Owed(Leftover) + Owed(InTheWay) \in Nat
    BY <2>1
  <2>3. rotationErrors \in Nat /\ crashes \in Nat
    BY DEF TypeOK
  <2> QED BY <2>2, <2>3, LostFinite DEF CountInv, OneLossPerFault
<1>2. Init => ShiftInv /\ LiveInv
  BY DEF Init, ShiftInv, LiveInv, Aside
<1> QED BY <1>1, <1>2, LossInit, TypeCorrect, LiveStep, ShiftStep, AgeStep, FilesStep, CountStep, PTL
        DEF Spec
=============================================================================
