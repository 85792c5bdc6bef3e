--------------------------- MODULE SyncTiersProofs ---------------------------
(***************************************************************************)
(* Theorems about SyncTiers, for every tier and number of callers, calls   *)
(* and failures, every buffer size and every FsyncEveryNCount.             *)
(***************************************************************************)
EXTENDS SyncTiers, SequenceTheorems, FiniteSetTheorems, TLAPS

\* Abbreviations that every step below looks through.
USE DEF disk, writer, counts, flow, history, vars, Goto, NoErrors

-----------------------------------------------------------------------------
(* Sequences: what is taken from the front of one and put behind another.  *)

\* s with the first k elements of b behind it, and what is left of b.
Pushed(s, b, k) == s \o SubSeq(b, 1, k)
Rest(b, k)     == SubSeq(b, k + 1, Len(b))

MovesWell(S, s, b, k) ==
  /\ Pushed(s, b, k) \in Seq(S) /\ Len(Pushed(s, b, k)) = Len(s) + k
  /\ Rest(b, k) \in Seq(S) /\ Len(Rest(b, k)) = Len(b) - k
  /\ Pushed(s, b, k) \o Rest(b, k) = s \o b
  /\ k = Len(b) => Pushed(s, b, k) = s \o b
  /\ k = 0 => Pushed(s, b, k) = s /\ Rest(b, k) = b
  /\ \A i \in 1..Len(s) : Pushed(s, b, k)[i] = s[i]

LEMMA Moved ==
  ASSUME NEW S, NEW s \in Seq(S), NEW b \in Seq(S), NEW k \in 0..Len(b)
  PROVE  MovesWell(S, s, b, k)
<1> DEFINE x == SubSeq(b, 1, k)
           y == SubSeq(b, k + 1, Len(b))
<1>0. Len(s) \in Nat /\ Len(b) \in Nat /\ k \in Nat /\ k =< Len(b)
  OBVIOUS
<1>1. x \in Seq(S) /\ y \in Seq(S) /\ Len(x) = k /\ Len(y) = Len(b) - k
  OBVIOUS
<1>2. x \o y = b
  <2>1. x \o y = SubSeq(b, 1, Len(b))
    <3>1. 1 \in 1..Len(b) + 1 /\ k \in (1 - 1)..Len(b) /\ Len(b) \in k..Len(b)
      BY <1>0
    <3> QED BY <3>1, ConcatAdjacentSubSeq, Zenon
  <2> QED BY <2>1, SubSeqFull
<1>3. k = Len(b) => x = b
  BY SubSeqFull
<1>4. k = 0 => x = <<>> /\ y = b
  BY SubSeqFull, SubSeqEmpty
<1> HIDE DEF x, y
<1>5. (s \o x) \o y = s \o b
  <2>1. x \in Seq(S) /\ y \in Seq(S)
    BY <1>1
  <2>2. (s \o x) \o y = s \o (x \o y)
    BY <2>1, ConcatAssociative
  <2> QED BY <1>2, <2>2, Zenon
<1>6. s \o x \in Seq(S) /\ Len(s \o x) = Len(s) + k /\ \A i \in 1..Len(s) : (s \o x)[i] = s[i]
  <2>1. s \o x \in Seq(S) /\ Len(s \o x) = Len(s) + Len(x)
    BY <1>1, ConcatProperties, Zenon
  <2>2. \A i \in 1..Len(s) + Len(x) : (s \o x)[i] = IF i <= Len(s) THEN s[i] ELSE x[i - Len(s)]
    BY <1>1, ConcatProperties, Zenon
  <2> QED BY <1>0, <1>1, <2>1, <2>2
<1>7. k = 0 => s \o x = s
  BY <1>4, ConcatEmptySeq
<1>8. Pushed(s, b, k) = s \o x /\ Rest(b, k) = y
  BY DEF Pushed, Rest, x, y
<1> QED BY <1>1, <1>3, <1>4, <1>5, <1>6, <1>7, <1>8 DEF MovesWell

LEMMA Appended ==
  ASSUME NEW S, NEW s \in Seq(S), NEW b \in Seq(S), NEW e \in S
  PROVE  /\ s \o Append(b, e) = Append(s \o b, e)
         /\ s \o <<e>> = Append(s, e)
<1>1. Append(b, e) = b \o <<e>> /\ <<e>> \in Seq(S)
  BY AppendIsConcat
<1>2. s \o (b \o <<e>>) = (s \o b) \o <<e>>
  BY <1>1, ConcatAssociative
<1>3. s \o b \in Seq(S)
  OBVIOUS
<1> QED BY <1>1, <1>2, <1>3, AppendIsConcat

-----------------------------------------------------------------------------
(* What the steps that write do, and type correctness.                     *)

\* The entries on their way, in order: those in the file and those in the buffer.
Stream == written \o buf

\* The holder of syncMu is where the lock protects.
InLock(c) == Buffered /\ pc[c] \in {"buffer", "flush", "fsync", "unlock"}

\* What a place says of the tier, the method and the lock.
Places ==
  /\ \A c \in Callers :
       /\ InLock(c) <=> syncMu = c
       /\ pc[c] \in {"lock", "buffer", "flush", "unlock"} => Buffered
       /\ pc[c] \in {"buffer", "write"} => op[c] = "log"
       /\ pc[c] = "write" => ~Buffered
       /\ pc[c] = "fsync" => \/ tier = "FsyncEveryN"
                             \/ tier = "FsyncEveryWrite" /\ op[c] = "log"
       /\ pc[c] = "done" => op[c] \in {"flush", "close"}
       /\ pc[c] = "closefile" => op[c] = "close"
       /\ pc[c] # "idle" => calls[c] > 0
  /\ ~Buffered => buf = <<>>

\* The count stays at N only while the caller that reached it flushes and syncs.
CountBound ==
  /\ tier # "FsyncEveryN" => syncWriteCount = 0
  /\ syncWriteCount = FsyncEveryNCount =>
       \E c \in Callers : InLock(c) /\ pc[c] \in {"flush", "fsync"} /\ op[c] = "log"

BaseInv == TypeOK /\ Places /\ CountBound

\* The file only grows, and errors are only added.
Grows ==
  /\ Len(written') >= Len(written) /\ \A i \in 1..Len(written) : written'[i] = written[i]
  /\ synced' >= synced
  /\ syncWriteErrors' >= syncWriteErrors
  /\ broken => broken'

\* The entry of c goes to the end, or is refused, which is an error of c's.
Takes(c) ==
  \/ /\ Stream' = Append(Stream, Entry(c))
     /\ UNCHANGED <<syncWriteErrors, failed>>
  \/ /\ Stream' = Stream /\ syncWriteErrors' = syncWriteErrors + 1
     /\ failed' = [failed EXCEPT ![c] = TRUE]
     /\ Buffered => broken'

LEMMA EntryType ==
  ASSUME TypeOK, Places, NEW c \in Callers, pc[c] # "idle"
  PROVE  Entry(c) \in Entries
BY DEF TypeOK, Places, Entry, Entries

\* The buffer and the file after a flush, whatever it managed to write.
LEMMA FlushEffect ==
  ASSUME TypeOK, NEW c \in Callers, Flush(c)
  PROVE  /\ written' \in Seq(Entries) /\ buf' \in Seq(Entries) /\ Len(buf') =< Len(buf)
         /\ broken' \in BOOLEAN /\ failures' \in 0..MaxFailures
         /\ Grows /\ Stream' = Stream
         /\ ~broken' => buf' = <<>> /\ UNCHANGED <<syncWriteErrors, failed>>
         /\ broken' => /\ syncWriteErrors' = syncWriteErrors + 1
                       /\ failed' = [failed EXCEPT ![c] = TRUE]
<1> USE SyncAssumption
<1>0. /\ written \in Seq(Entries) /\ buf \in Seq(Entries) /\ failures \in 0..MaxFailures
      /\ broken \in BOOLEAN /\ syncWriteErrors \in Nat /\ Len(written) \in Nat /\ Len(buf) \in Nat
      /\ failed \in [Callers -> BOOLEAN] /\ synced' = synced /\ synced \in Nat
  BY DEF TypeOK, Flush
<1>1. PICK k \in 0..Len(buf) : FlushBuffer(k)
  BY DEF Flush
<1>2. /\ ~broken' => UNCHANGED <<syncWriteErrors, failed>>
      /\ broken' => /\ syncWriteErrors' = syncWriteErrors + 1
                    /\ failed' = [failed EXCEPT ![c] = TRUE]
  <2>1. broken' => /\ syncWriteErrors' = syncWriteErrors + 1
                   /\ failed' = [failed EXCEPT ![c] = failed[c] \/ 1 > 0]
    BY DEF Flush, NoteErrors
  <2>2. (failed[c] \/ 1 > 0) = TRUE
    BY <1>0
  <2>3. ~broken' => UNCHANGED <<syncWriteErrors, failed>>
    BY DEF Flush
  <2> QED BY <2>1, <2>2, <2>3
<1>3. CASE broken \/ buf = <<>>
  <2>1. UNCHANGED <<written, writer, failures>>
    BY <1>1, <1>3 DEF FlushBuffer
  <2>2. Stream' = Stream
    BY <2>1 DEF Stream
  <2>3. syncWriteErrors' >= syncWriteErrors
    BY <1>0, <1>2, <2>1
  <2>4. Grows
    BY <1>0, <2>1, <2>3 DEF Grows
  <2> QED BY <1>0, <1>2, <1>3, <2>1, <2>2, <2>4
<1>4. CASE ~ (broken \/ buf = <<>>)
  <2> DEFINE w == Pushed(written, buf, k)
             r == Rest(buf, k)
  <2>1. written' = w /\ buf' = r /\ broken' = (k < Len(buf)) /\ failures' \in 0..MaxFailures
    BY <1>0, <1>1, <1>4 DEF FlushBuffer, Writes, Kept, Pushed, Rest
  <2>2. /\ w \in Seq(Entries) /\ Len(w) = Len(written) + k
        /\ r \in Seq(Entries) /\ Len(r) = Len(buf) - k
        /\ w \o r = written \o buf
        /\ \A i \in 1..Len(written) : w[i] = written[i]
    <3>1. written \in Seq(Entries) /\ buf \in Seq(Entries) /\ k \in 0..Len(buf)
      BY <1>0
    <3>2. MovesWell(Entries, written, buf, k)
      BY <3>1, Moved
    <3> QED BY <3>2 DEF MovesWell
  <2> HIDE DEF w, r
  <2>3. ~broken' => r = <<>>
    <3>1. r # <<>> => Len(r) \in Nat \ {0}
      BY <2>2, EmptySeq
    <3>2. k < Len(buf) => broken'
      BY <2>1
    <3>3. ~ (k < Len(buf)) => Len(r) = 0
      BY <1>0, <2>2
    <3> QED BY <3>1, <3>2, <3>3
  <2>4. Stream' = Stream
    BY <2>1, <2>2 DEF Stream
  <2>5. syncWriteErrors' >= syncWriteErrors
    BY <1>0, <1>2, <2>1
  <2>6. Grows
    <3>1. Len(written') >= Len(written) /\ \A i \in 1..Len(written) : written'[i] = written[i]
      BY <1>0, <2>1, <2>2
    <3>2. synced' >= synced /\ (broken => broken')
      BY <1>0, <1>4
    <3> QED BY <2>5, <3>1, <3>2 DEF Grows
  <2>7. broken' \in BOOLEAN /\ Len(buf') =< Len(buf)
    BY <1>0, <2>1, <2>2
  <2> QED BY <1>2, <2>1, <2>2, <2>3, <2>4, <2>6, <2>7
<1> QED BY <1>3, <1>4

\* A logging call puts its entry behind all others, or counts an error.
LEMMA BufferEffect ==
  ASSUME TypeOK, Places, NEW c \in Callers, Buffer(c), Entry(c) \in Entries
  PROVE  /\ written' \in Seq(Entries) /\ buf' \in Seq(Entries) /\ Len(buf') =< BufferSize
         /\ broken' \in BOOLEAN /\ failures' \in 0..MaxFailures
         /\ Grows /\ Takes(c)
         /\ pc' = [pc EXCEPT ![c] = IF WantsFlush(Len(buf')) THEN "flush" ELSE "unlock"]
         /\ failed' \in [Callers -> BOOLEAN] /\ syncWriteErrors' \in Nat
         /\ broken' => syncWriteErrors' = syncWriteErrors + 1
<1> USE SyncAssumption
<1> DEFINE e == Entry(c)
<1>0. /\ written \in Seq(Entries) /\ buf \in Seq(Entries) /\ failures \in 0..MaxFailures
      /\ broken \in BOOLEAN /\ syncWriteErrors \in Nat /\ Len(written) \in Nat /\ Len(buf) \in Nat
      /\ Len(buf) =< BufferSize
      /\ failed \in [Callers -> BOOLEAN] /\ synced' = synced /\ synced \in Nat
  BY DEF TypeOK, Buffer
<1>1. PICK k \in 0..Len(buf), whole \in BOOLEAN :
        /\ IF Len(buf) >= BufferSize /\ ~broken
             THEN /\ Writes(buf, k, whole)
                  /\ broken' = ~whole
                  /\ buf' = IF whole THEN <<Entry(c)>> ELSE Kept(k)
             ELSE /\ k = 0 /\ whole /\ UNCHANGED <<written, broken, failures>>
                  /\ buf' = IF broken THEN buf ELSE Append(buf, Entry(c))
        /\ NoteErrors(c, Refusal(broken'))
        /\ Goto(c, IF WantsFlush(Len(buf')) THEN "flush" ELSE "unlock")
  BY DEF Buffer
<1>2. /\ ~broken' => syncWriteErrors' = syncWriteErrors /\ failed' = failed
      /\ broken' => /\ syncWriteErrors' = syncWriteErrors + 1
                    /\ failed' = [failed EXCEPT ![c] = TRUE]
  <2>1. failed = [failed EXCEPT ![c] = failed[c]]
    BY <1>0
  <2>2. /\ ~broken' => failed' = [failed EXCEPT ![c] = failed[c] \/ 0 > 0]
        /\ broken' => failed' = [failed EXCEPT ![c] = failed[c] \/ 1 > 0]
    BY <1>1 DEF NoteErrors, Refusal
  <2>3. (failed[c] \/ 0 > 0) = failed[c] /\ (failed[c] \/ 1 > 0) = TRUE
    BY <1>0
  <2>4. /\ ~broken' => syncWriteErrors' = syncWriteErrors
        /\ broken' => syncWriteErrors' = syncWriteErrors + 1
    BY <1>0, <1>1 DEF NoteErrors, Refusal
  <2> QED BY <2>1, <2>2, <2>3, <2>4
<1>5. /\ pc' = [pc EXCEPT ![c] = IF WantsFlush(Len(buf')) THEN "flush" ELSE "unlock"]
      /\ failed' \in [Callers -> BOOLEAN] /\ syncWriteErrors' \in Nat
      /\ broken' => syncWriteErrors' = syncWriteErrors + 1
  <2>1. failed' \in [Callers -> BOOLEAN] /\ syncWriteErrors' \in Nat
    <3>1. CASE broken'
      <4>1. failed' = [failed EXCEPT ![c] = TRUE] /\ syncWriteErrors' = syncWriteErrors + 1
        BY <1>2, <3>1
      <4> QED BY <1>0, <4>1
    <3>2. CASE ~broken'
      <4>1. failed' = failed /\ syncWriteErrors' = syncWriteErrors
        BY <1>2, <3>2
      <4> QED BY <1>0, <4>1
    <3> QED BY <3>1, <3>2
  <2> QED BY <1>1, <1>2, <2>1
<1>3. CASE ~ (Len(buf) >= BufferSize /\ ~broken)
  <2> DEFINE b == Append(buf, e)
  <2>1. /\ UNCHANGED <<written, broken, failures>>
        /\ buf' = IF broken THEN buf ELSE b
    BY <1>1, <1>3
  <2>2. written \o b = Append(written \o buf, e)
    BY <1>0, Appended
  <2>3. b \in Seq(Entries) /\ Len(b) = Len(buf) + 1
    BY <1>0
  <2> HIDE DEF e, b
  <2>4. buf' \in Seq(Entries) /\ Len(buf') =< BufferSize
    BY <1>0, <1>3, <2>1, <2>3
  <2>5. Grows
    BY <1>0, <1>2, <2>1 DEF Grows
  <2>6. Takes(c)
    <3>1. CASE broken
      BY <1>2, <2>1, <3>1 DEF Takes, Stream
    <3>2. CASE ~broken
      BY <1>2, <2>1, <2>2, <3>2 DEF Takes, Stream, e
    <3> QED BY <3>1, <3>2
  <2> QED BY <1>0, <1>5, <2>1, <2>4, <2>5, <2>6
<1>4. CASE Len(buf) >= BufferSize /\ ~broken
  <2> DEFINE w == Pushed(written, buf, k)
             r == Rest(buf, k)
             all == written \o buf
             one == <<e>>
  <2>1. /\ written' = w /\ broken' = ~whole /\ failures' \in 0..MaxFailures
        /\ buf' = IF whole THEN one ELSE r
        /\ whole => k = Len(buf)
    BY <1>0, <1>1, <1>4 DEF Writes, Kept, Pushed, Rest
  <2>2. /\ w \in Seq(Entries) /\ Len(w) = Len(written) + k
        /\ r \in Seq(Entries) /\ Len(r) = Len(buf) - k
        /\ w \o r = all
        /\ k = Len(buf) => w = all
        /\ \A i \in 1..Len(written) : w[i] = written[i]
    <3>1. written \in Seq(Entries) /\ buf \in Seq(Entries) /\ k \in 0..Len(buf)
      BY <1>0
    <3>2. MovesWell(Entries, written, buf, k)
      BY <3>1, Moved
    <3> QED BY <3>2 DEF MovesWell
  <2>3. one \in Seq(Entries) /\ Len(one) = 1
    OBVIOUS
  <2>4. all \in Seq(Entries)
    BY <1>0
  <2>5. all \o one = Append(all, e)
    <3> HIDE DEF all
    <3> QED BY <2>4, AppendIsConcat
  <2> HIDE DEF e, w, r, all, one
  <2>6. buf' \in Seq(Entries) /\ Len(buf') =< BufferSize
    <3>1. buf' = one \/ buf' = r
      BY <2>1
    <3>2. CASE buf' = one
      <4>1. 1 =< BufferSize
        BY SyncAssumption
      <4> QED BY <2>3, <3>2, <4>1
    <3>3. CASE buf' = r
      <4>1. r \in Seq(Entries) /\ Len(r) =< BufferSize
        BY <1>0, <2>2
      <4> QED BY <3>3, <4>1
    <3> QED BY <3>1, <3>2, <3>3
  <2>7. Grows
    BY <1>0, <1>2, <1>4, <2>1, <2>2 DEF Grows
  <2>8. Takes(c)
    <3>1. CASE whole
      <4>1. Stream' = Append(all, e) /\ Stream = all
        BY <2>1, <2>2, <2>5, <3>1 DEF Stream, all
      <4>2. ~broken'
        BY <2>1, <3>1
      <4> QED BY <1>2, <4>1, <4>2 DEF Takes, e
    <3>2. CASE ~whole
      <4>1. Stream' = all /\ Stream = all
        BY <2>1, <2>2, <3>2 DEF Stream, all
      <4>2. broken'
        BY <2>1, <3>2
      <4> QED BY <1>2, <4>1, <4>2 DEF Takes
    <3> QED BY <3>1, <3>2
  <2>9. broken' \in BOOLEAN
    BY <1>0, <2>1
  <2> QED BY <1>5, <2>1, <2>2, <2>6, <2>7, <2>8, <2>9
<1> QED BY <1>3, <1>4

LEMMA WriteEffect ==
  ASSUME TypeOK, Places, NEW c \in Callers, Write(c), Entry(c) \in Entries
  PROVE  /\ written' \in Seq(Entries) /\ failures' \in 0..MaxFailures
         /\ Grows /\ Takes(c) /\ buf = <<>> /\ buf' = <<>>
         /\ failed' \in [Callers -> BOOLEAN] /\ syncWriteErrors' \in Nat
<1> USE SyncAssumption
<1> DEFINE e == Entry(c)
           es == <<Entry(c)>>
<1>0. /\ written \in Seq(Entries) /\ failures \in 0..MaxFailures
      /\ broken \in BOOLEAN /\ syncWriteErrors \in Nat /\ Len(written) \in Nat
      /\ failed \in [Callers -> BOOLEAN] /\ synced' = synced /\ synced \in Nat
      /\ buf = <<>> /\ buf' = buf /\ ~Buffered /\ broken' = broken
  BY DEF TypeOK, Places, Write
<1>1. PICK k \in 0..1 : Writes(es, k, k = 1) /\ NoteErrors(c, 1 - k)
  BY DEF Write
<1>2. /\ k = 1 => syncWriteErrors' = syncWriteErrors /\ failed' = failed
      /\ k = 0 => /\ syncWriteErrors' = syncWriteErrors + 1
                  /\ failed' = [failed EXCEPT ![c] = TRUE]
  <2>1. failed = [failed EXCEPT ![c] = failed[c]]
    BY <1>0
  <2>2. failed' = [failed EXCEPT ![c] = failed[c] \/ 1 - k > 0] /\ syncWriteErrors' = syncWriteErrors + (1 - k)
    BY <1>1 DEF NoteErrors
  <2>3. /\ k = 1 => (failed[c] \/ 1 - k > 0) = failed[c]
        /\ k = 0 => (failed[c] \/ 1 - k > 0) = TRUE
    BY <1>0
  <2>4. CASE k = 1
    <3>1. failed' = failed
      BY <2>1, <2>2, <2>3, <2>4
    <3> QED BY <1>0, <2>2, <2>4, <3>1
  <2>5. CASE k = 0
    <3>1. failed' = [failed EXCEPT ![c] = TRUE]
      BY <2>2, <2>3, <2>5
    <3>2. syncWriteErrors' = syncWriteErrors + 1 /\ k # 1
      BY <1>0, <2>2, <2>5
    <3> QED BY <3>1, <3>2
  <2> QED BY <2>4, <2>5
<1>3. es \in Seq(Entries) /\ Len(es) = 1 /\ k \in 0..Len(es)
  BY <1>1
<1> DEFINE w == Pushed(written, es, k)
<1>4. written' = w /\ failures' \in 0..MaxFailures
  BY <1>0, <1>1, <1>3 DEF Writes, Pushed
<1> HIDE DEF es
<1>5. /\ w \in Seq(Entries) /\ Len(w) = Len(written) + k
      /\ k = Len(es) => w = written \o es
      /\ k = 0 => w = written
      /\ \A i \in 1..Len(written) : w[i] = written[i]
  <2>1. written \in Seq(Entries)
    BY <1>0
  <2>2. MovesWell(Entries, written, es, k)
    BY <2>1, <1>3, Moved
  <2> QED BY <2>2 DEF MovesWell
<1> HIDE DEF w
<1>6. written \o es = Append(written, e)
  BY <1>0, AppendIsConcat DEF es
<1>7. Stream = written /\ Stream' = w
  <2>1. written \o <<>> = written /\ w \o <<>> = w
    BY <1>0, <1>5, ConcatEmptySeq
  <2> QED BY <1>0, <1>4, <2>1 DEF Stream
<1>8. Grows
  BY <1>0, <1>2, <1>4, <1>5 DEF Grows
<1>9. Takes(c)
  <2>1. CASE k = 0
    BY <1>0, <1>2, <1>5, <1>7, <2>1 DEF Takes
  <2>2. CASE k = 1
    BY <1>2, <1>3, <1>5, <1>6, <1>7, <2>2 DEF Takes
  <2> QED BY <2>1, <2>2
<1>10. failed' \in [Callers -> BOOLEAN] /\ syncWriteErrors' \in Nat
  <2>1. CASE k = 0
    <3>1. failed' = [failed EXCEPT ![c] = TRUE] /\ syncWriteErrors' = syncWriteErrors + 1
      BY <1>2, <2>1
    <3> QED BY <1>0, <3>1
  <2>2. CASE k = 1
    BY <1>0, <1>2, <2>2
  <2> QED BY <2>1, <2>2
<1> QED BY <1>0, <1>4, <1>5, <1>8, <1>9, <1>10

\* An fsync covers the file as it is, or counts an error.
LEMMA FsyncEffect ==
  ASSUME TypeOK, NEW c \in Callers, Fsync(c)
  PROVE  /\ synced' \in 0..Len(written) /\ syncWriteErrors' \in Nat
         /\ failed' \in [Callers -> BOOLEAN] /\ failures' \in 0..MaxFailures
         /\ Grows /\ Stream' = Stream
         /\ \/ synced' = Len(written) /\ UNCHANGED <<syncWriteErrors, failed>>
            \/ /\ synced' = synced /\ syncWriteErrors' = syncWriteErrors + 1
               /\ failed' = [failed EXCEPT ![c] = TRUE]
<1> USE SyncAssumption
<1>0. /\ Len(written) \in Nat /\ synced \in 0..Len(written) /\ syncWriteErrors \in Nat
      /\ failed \in [Callers -> BOOLEAN] /\ failures \in 0..MaxFailures
      /\ UNCHANGED <<written, buf, broken>>
  BY DEF Fsync, TypeOK
<1>1. CASE synced' = Len(written) /\ UNCHANGED <<syncWriteErrors, failed, failures>>
  BY <1>0, <1>1 DEF Grows, Stream
<1>2. CASE /\ failures' = IF fileOpen THEN failures + 1 ELSE failures
           /\ failures' =< MaxFailures
           /\ NoteErrors(c, 1) /\ UNCHANGED synced
  <2>1. /\ syncWriteErrors' = syncWriteErrors + 1
        /\ failed' = [failed EXCEPT ![c] = failed[c] \/ 1 > 0]
    BY <1>2 DEF NoteErrors
  <2>2. (failed[c] \/ 1 > 0) = TRUE
    BY <1>0
  <2>3. failed' = [failed EXCEPT ![c] = TRUE]
    BY <2>1, <2>2
  <2>4. failed' \in [Callers -> BOOLEAN]
    BY <1>0, <2>3
  <2>5. failures' \in 0..MaxFailures
    BY <1>0, <1>2
  <2>6. Grows /\ Stream' = Stream /\ syncWriteErrors' \in Nat /\ synced' \in 0..Len(written)
    BY <1>0, <1>2, <2>1 DEF Grows, Stream
  <2> QED BY <1>2, <2>1, <2>3, <2>4, <2>5, <2>6
<1> QED BY <1>1, <1>2 DEF Fsync

LEMMA BaseInit == Init => BaseInv
<1> SUFFICES ASSUME Init PROVE BaseInv
  OBVIOUS
<1> USE SyncAssumption
<1>1. TypeOK
  <2>1. <<>> \in Seq(Entries) /\ Len(<<>>) = 0 /\ 0 \in 0..0
    OBVIOUS
  <2>2. /\ tier \in Tiers /\ written \in Seq(Entries) /\ synced \in 0..Len(written)
        /\ buf \in Seq(Entries) /\ Len(buf) =< BufferSize
    BY <2>1 DEF Init
  <2>3. /\ syncWriteCount \in 0..FsyncEveryNCount /\ failures \in 0..MaxFailures
        /\ calls \in [Callers -> 0..MaxCalls]
    BY DEF Init
  <2> QED BY <2>2, <2>3 DEF Init, TypeOK
<1>2. Places /\ CountBound
  BY DEF Init, Places, InLock, Buffered, CountBound, Tiers
<1> QED BY <1>1, <1>2 DEF BaseInv

\* Two callers are never both where the lock protects.
LEMMA Alone ==
  ASSUME Places, NEW c \in Callers, InLock(c)
  PROVE  \A d \in Callers : InLock(d) => d = c
BY DEF Places

\* A caller that is about to count an entry has not got N behind it.
LEMMA NotYetN ==
  ASSUME BaseInv, NEW c \in Callers, pc[c] = "buffer"
  PROVE  InLock(c) /\ syncWriteCount < FsyncEveryNCount
<1>1. InLock(c)
  BY DEF BaseInv, Places, InLock
<1>2. syncWriteCount # FsyncEveryNCount
  BY <1>1, Alone DEF BaseInv, CountBound
<1> QED BY <1>1, <1>2, SyncAssumption DEF BaseInv, TypeOK

LEMMA BaseStep == BaseInv /\ [Next]_vars => BaseInv'
<1> SUFFICES ASSUME BaseInv, [Next]_vars PROVE BaseInv'
  OBVIOUS
<1> USE SyncAssumption DEF BaseInv
<1>1. CASE TimePasses
  BY <1>1 DEF TimePasses, TypeOK, Places, CountBound, InLock, Buffered
<1>2. ASSUME NEW c \in Callers, LogCall(c) PROVE BaseInv'
  <2>1. TypeOK'
    BY <1>2 DEF LogCall, TypeOK
  <2>2. Places'
    BY <1>2 DEF LogCall, TypeOK, Places, InLock, Buffered
  <2>3. CountBound'
    BY <1>2 DEF LogCall, TypeOK, CountBound, InLock, Buffered
  <2> QED BY <2>1, <2>2, <2>3
<1>3. ASSUME NEW c \in Callers, FlushCall(c) PROVE BaseInv'
  <2>1. TypeOK'
    BY <1>3 DEF FlushCall, TypeOK
  <2>2. Places'
    BY <1>3 DEF FlushCall, TypeOK, Places, InLock, Buffered
  <2>3. CountBound'
    BY <1>3 DEF FlushCall, TypeOK, CountBound, InLock, Buffered
  <2> QED BY <2>1, <2>2, <2>3
<1>4. ASSUME NEW c \in Callers, CloseCall(c) PROVE BaseInv'
  <2>1. TypeOK'
    BY <1>4 DEF CloseCall, AfterCloseCall, TypeOK
  <2>2. Places'
    BY <1>4 DEF CloseCall, AfterCloseCall, TypeOK, Places, InLock, Buffered
  <2>3. CountBound'
    BY <1>4 DEF CloseCall, AfterCloseCall, TypeOK, CountBound, InLock, Buffered
  <2> QED BY <2>1, <2>2, <2>3
<1>5. ASSUME NEW c \in Callers, Lock(c) PROVE BaseInv'
  <2>1. TypeOK'
    BY <1>5 DEF Lock, TypeOK
  <2>2. Places'
    BY <1>5 DEF Lock, TypeOK, Places, InLock, Buffered
  <2>3. CountBound'
    BY <1>5 DEF Lock, TypeOK, CountBound, InLock, Buffered
  <2> QED BY <2>1, <2>2, <2>3
<1>6. ASSUME NEW c \in Callers, Buffer(c) PROVE BaseInv'
  <2>0. /\ pc[c] = "buffer" /\ tier' = tier
        /\ syncWriteCount' = IF tier = "FsyncEveryN" THEN syncWriteCount + 1 ELSE syncWriteCount
        /\ UNCHANGED <<tier, synced, fileOpen, syncMu, due, closed, op, calls, returned, mark>>
    BY <1>6 DEF Buffer
  <2>1. Entry(c) \in Entries
    BY <2>0, EntryType
  <2>2. PICK place \in {"flush", "unlock"} :
          /\ pc' = [pc EXCEPT ![c] = place]
          /\ (tier = "FsyncEveryN" /\ syncWriteCount + 1 >= FsyncEveryNCount) => place = "flush"
    BY <1>6, <2>1, BufferEffect DEF WantsFlush, CountReached
  <2>3. InLock(c) /\ syncWriteCount < FsyncEveryNCount
    BY <2>0, NotYetN
  <2>4. TypeOK'
    <3>1. /\ written' \in Seq(Entries) /\ buf' \in Seq(Entries) /\ Len(buf') =< BufferSize
          /\ broken' \in BOOLEAN /\ failures' \in 0..MaxFailures /\ Len(written') >= Len(written)
          /\ failed' \in [Callers -> BOOLEAN] /\ syncWriteErrors' \in Nat
      BY <1>6, <2>1, BufferEffect DEF Grows
    <3>2. synced' \in 0..Len(written') /\ syncWriteCount' \in 0..FsyncEveryNCount
      BY <2>0, <2>3, <3>1 DEF TypeOK
    <3>3. pc' \in [Callers -> {"idle", "lock", "buffer", "flush", "write", "fsync", "unlock",
                               "closefile", "return", "done"}]
      BY <2>2 DEF TypeOK
    <3> QED BY <2>0, <3>1, <3>2, <3>3 DEF TypeOK
  <2>5. Places'
    BY <2>0, <2>2, <2>3 DEF TypeOK, Places, InLock, Buffered
  <2>6. CountBound'
    <3>1. CASE tier = "FsyncEveryN"
      <4>1. ASSUME syncWriteCount' = FsyncEveryNCount PROVE InLock(c)' /\ pc'[c] = "flush" /\ op'[c] = "log"
        BY <2>0, <2>2, <3>1, <4>1 DEF TypeOK, Places, InLock, Buffered
      <4> QED BY <2>0, <3>1, <4>1 DEF CountBound
    <3>2. CASE tier # "FsyncEveryN"
      BY <2>0, <3>2 DEF CountBound
    <3> QED BY <3>1, <3>2
  <2> QED BY <2>4, <2>5, <2>6
<1>7. ASSUME NEW c \in Callers, Flush(c) PROVE BaseInv'
  <2>0. /\ pc[c] = "flush" /\ pc' = [pc EXCEPT ![c] = IF tier = "FsyncEveryN" THEN "fsync" ELSE "unlock"]
        /\ due' = IF op[c] = "log" THEN FALSE ELSE due
        /\ UNCHANGED <<tier, synced, fileOpen, syncMu, syncWriteCount, closed, op, calls, returned, mark>>
    BY <1>7 DEF Flush
  <2>1. TypeOK'
    <3>1. /\ written' \in Seq(Entries) /\ buf' \in Seq(Entries) /\ Len(buf') =< Len(buf)
          /\ broken' \in BOOLEAN /\ failures' \in 0..MaxFailures /\ Len(written') >= Len(written)
          /\ ~broken' => UNCHANGED <<syncWriteErrors, failed>>
          /\ broken' => /\ syncWriteErrors' = syncWriteErrors + 1
                        /\ failed' = [failed EXCEPT ![c] = TRUE]
      BY <1>7, FlushEffect DEF Grows
    <3>2. synced' \in 0..Len(written') /\ Len(buf') =< BufferSize
      BY <2>0, <3>1 DEF TypeOK
    <3>3. failed' \in [Callers -> BOOLEAN] /\ syncWriteErrors' \in Nat
      <4>1. CASE broken'
        <5>1. syncWriteErrors' = syncWriteErrors + 1 /\ failed' = [failed EXCEPT ![c] = TRUE]
          BY <3>1, <4>1
        <5> QED BY <5>1 DEF TypeOK
      <4>2. CASE ~broken'
        <5>1. syncWriteErrors' = syncWriteErrors /\ failed' = failed
          BY <3>1, <4>2
        <5> QED BY <5>1 DEF TypeOK
      <4> QED BY <4>1, <4>2
    <3> QED BY <2>0, <3>1, <3>2, <3>3 DEF TypeOK
  <2>2. Places'
    <3>1. ~Buffered => buf' = buf
      BY <2>0 DEF Places
    <3> QED BY <2>0, <3>1 DEF TypeOK, Places, InLock, Buffered, Tiers
  <2>3. CountBound'
    <3>1. InLock(c)
      BY <2>0 DEF Places, InLock
    <3>2. \A d \in Callers : d # c => ~InLock(d)
      BY <3>1, Alone
    <3>3. ASSUME syncWriteCount = FsyncEveryNCount PROVE op[c] = "log" /\ tier = "FsyncEveryN"
      BY <3>2, <3>3 DEF CountBound
    <3>4. syncWriteCount = FsyncEveryNCount => InLock(c)' /\ pc'[c] = "fsync" /\ op'[c] = "log"
      BY <2>0, <3>3 DEF TypeOK, InLock, Buffered
    <3> QED BY <2>0, <3>4 DEF CountBound
  <2> QED BY <2>1, <2>2, <2>3
<1>8. ASSUME NEW c \in Callers, Write(c) PROVE BaseInv'
  <2>0. /\ pc[c] = "write" /\ tier' = tier
        /\ pc' = [pc EXCEPT ![c] = IF tier = "FsyncEveryWrite" THEN "fsync" ELSE "return"]
        /\ UNCHANGED <<tier, synced, fileOpen, writer, syncMu, syncWriteCount, due, closed, op,
                       calls, returned, mark>>
    BY <1>8 DEF Write
  <2>1. Entry(c) \in Entries
    BY <2>0, EntryType
  <2>2. TypeOK'
    <3>1. /\ written' \in Seq(Entries) /\ failures' \in 0..MaxFailures /\ Len(written') >= Len(written)
          /\ failed' \in [Callers -> BOOLEAN] /\ syncWriteErrors' \in Nat
      BY <1>8, <2>1, WriteEffect DEF Grows
    <3>2. synced' \in 0..Len(written')
      BY <2>0, <3>1 DEF TypeOK
    <3> QED BY <2>0, <3>1, <3>2 DEF TypeOK
  <2>3. Places'
    BY <2>0 DEF TypeOK, Places, InLock, Buffered
  <2>4. CountBound'
    BY <2>0 DEF TypeOK, Places, CountBound, InLock, Buffered
  <2> QED BY <2>2, <2>3, <2>4
<1>9. ASSUME NEW c \in Callers, Fsync(c) PROVE BaseInv'
  <2>0. /\ pc[c] = "fsync" /\ tier' = tier /\ syncWriteCount' = 0
        /\ pc' = [pc EXCEPT ![c] = IF Buffered THEN "unlock" ELSE "return"]
        /\ UNCHANGED <<tier, written, fileOpen, writer, syncMu, due, closed, op, calls, returned, mark>>
    BY <1>9 DEF Fsync, CountAfterSync
  <2>1. TypeOK'
    <3>1. /\ synced' \in 0..Len(written) /\ syncWriteErrors' \in Nat /\ failed' \in [Callers -> BOOLEAN]
          /\ failures' \in 0..MaxFailures
      BY <1>9, FsyncEffect DEF BaseInv
    <3>2. PICK place \in {"unlock", "return"} : pc' = [pc EXCEPT ![c] = place]
      BY <2>0
    <3>3. syncWriteCount' \in 0..FsyncEveryNCount
      BY <2>0
    <3> QED BY <2>0, <3>1, <3>2, <3>3 DEF TypeOK
  <2>2. Places'
    BY <2>0 DEF TypeOK, Places, InLock, Buffered
  <2>3. CountBound'
    BY <2>0 DEF CountBound
  <2> QED BY <2>1, <2>2, <2>3
<1>10. ASSUME NEW c \in Callers, Unlock(c) PROVE BaseInv'
  <2>1. TypeOK'
    BY <1>10 DEF Unlock, TypeOK
  <2>2. Places'
    BY <1>10 DEF Unlock, TypeOK, Places, InLock, Buffered
  <2>3. CountBound'
    BY <1>10 DEF Unlock, TypeOK, CountBound, InLock, Buffered
  <2> QED BY <2>1, <2>2, <2>3
<1>11. ASSUME NEW c \in Callers, CloseFile(c) PROVE BaseInv'
  <2>1. TypeOK'
    BY <1>11 DEF CloseFile, TypeOK
  <2>2. Places'
    BY <1>11 DEF CloseFile, TypeOK, Places, InLock, Buffered
  <2>3. CountBound'
    BY <1>11 DEF CloseFile, TypeOK, CountBound, InLock, Buffered
  <2> QED BY <2>1, <2>2, <2>3
<1>12. ASSUME NEW c \in Callers, Return(c) PROVE BaseInv'
  <2>0. Entry(c) \in Entries
    BY <1>12, EntryType DEF Return
  <2>1. TypeOK'
    BY <1>12, <2>0 DEF Return, TypeOK
  <2>2. Places'
    BY <1>12 DEF Return, TypeOK, Places, InLock, Buffered
  <2>3. CountBound'
    BY <1>12 DEF Return, TypeOK, CountBound, InLock, Buffered
  <2> QED BY <2>1, <2>2, <2>3
<1>13. CASE UNCHANGED vars
  BY <1>13 DEF TypeOK, Places, CountBound, InLock, Buffered
<1> QED BY <1>1, <1>2, <1>3, <1>4, <1>5, <1>6, <1>7, <1>8, <1>9, <1>10, <1>11, <1>12, <1>13 DEF Next, Step

\* The types, with the buffer of the OSBuffered writer and the counter of
\* FsyncEveryN within their bounds.
THEOREM TypeCorrect == Spec => []TypeOK
<1>1. BaseInv => TypeOK
  BY DEF BaseInv
<1> QED BY <1>1, BaseInit, BaseStep, PTL DEF Spec

-----------------------------------------------------------------------------
(* Who has tried to write what.                                            *)

\* The logging calls that have still to write their entry, and those that tried.
Before == {"lock", "buffer", "write"}
After  == {"flush", "fsync", "unlock", "return"}

Logging(c, places) == op[c] = "log" /\ pc[c] \in places

\* The entries whose logging call has returned or is at one of the places.
Passed(places) == returned \union {Entry(c) : c \in {d \in Callers : Logging(d, places)}}

Tried == Passed(After)

\* All callers but c stay where they are.
OthersStay(c) == \A d \in Callers : d # c => /\ pc'[d] = pc[d] /\ op'[d] = op[d]
                                             /\ calls'[d] = calls[d]

LEMMA PassedIs ==
  \A places, x : x \in Passed(places) <=>
    x \in returned \/ \E d \in Callers : Logging(d, places) /\ x = Entry(d)
BY DEF Passed

LEMMA PassedNext ==
  \A places, x : x \in Passed(places)' <=>
    x \in returned' \/ \E d \in Callers : Logging(d, places)' /\ x = Entry(d)'
BY DEF Passed

LEMMA OthersLog ==
  ASSUME NEW c \in Callers, OthersStay(c), NEW d \in Callers, d # c, NEW places
  PROVE  Logging(d, places)' <=> Logging(d, places)
BY DEF OthersStay, Logging

LEMMA OthersEntry ==
  ASSUME NEW c \in Callers, OthersStay(c), NEW d \in Callers, d # c
  PROVE  Entry(d)' = Entry(d)
BY DEF OthersStay, Entry

\* A step of c that brings no entry past the places ...
LEMMA PassedKept ==
  ASSUME NEW c \in Callers, OthersStay(c), NEW places, returned' = returned,
         Logging(c, places)' <=> Logging(c, places),
         Logging(c, places) => calls'[c] = calls[c]
  PROVE  Passed(places)' = Passed(places)
<1>1. Logging(c, places) => Entry(c)' = Entry(c)
  BY DEF Entry
<1>2. \A d \in Callers : /\ Logging(d, places)' <=> Logging(d, places)
                         /\ Logging(d, places) => Entry(d)' = Entry(d)
  BY <1>1, OthersLog, OthersEntry
<1>3. \A x : x \in Passed(places)' <=> x \in Passed(places)
  BY <1>2, PassedIs, PassedNext
<1> QED BY <1>3

\* ... one that brings its own there ...
LEMMA PassedMore ==
  ASSUME NEW c \in Callers, OthersStay(c), NEW places, returned' = returned,
         Logging(c, places)', ~Logging(c, places), calls'[c] = calls[c]
  PROVE  Passed(places)' = Passed(places) \union {Entry(c)}
<1>1. Entry(c)' = Entry(c)
  BY DEF Entry
<1>2. \A d \in Callers : /\ Logging(d, places)' <=> Logging(d, places) \/ d = c
                         /\ Entry(d)' = Entry(d)
  BY <1>1, OthersLog, OthersEntry
<1>3. \A x : x \in Passed(places)' <=> x \in Passed(places) \union {Entry(c)}
  BY <1>2, PassedIs, PassedNext
<1> QED BY <1>3

\* ... and one that returns.
LEMMA PassedReturn ==
  ASSUME NEW c \in Callers, OthersStay(c), NEW places,
         returned' = returned \union {Entry(c)},
         ~Logging(c, places)', Logging(c, places), calls'[c] = calls[c]
  PROVE  Passed(places)' = Passed(places)
<1>1. Entry(c)' = Entry(c)
  BY DEF Entry
<1>2. \A d \in Callers : /\ d # c => (Logging(d, places)' <=> Logging(d, places))
                         /\ Entry(d)' = Entry(d)
  BY <1>1, OthersLog, OthersEntry
<1>3. \A x : x \in Passed(places)' <=> x \in Passed(places)
  BY <1>2, PassedIs, PassedNext
<1> QED BY <1>3

\* Steps that neither write nor flush nor sync.
LEMMA StayEffect ==
  ASSUME BaseInv, UNCHANGED <<written, buf, broken, synced, syncWriteErrors>>
  PROVE  Grows /\ Stream' = Stream
BY DEF BaseInv, TypeOK, Grows, Stream

\* Every step: the file grows, and either one caller tries to write its entry, or
\* the stream of entries and the set of those tried stay as they are.
OneTries == \E c \in Callers : /\ pc[c] \in {"buffer", "write"} /\ op[c] = "log" /\ Entry(c) \in Entries
                               /\ Takes(c) /\ Tried' = Tried \union {Entry(c)}
                               /\ calls' = calls /\ ~Logging(c, Before)'

LEMMA TriedStep ==
  ASSUME BaseInv, [Next]_vars
  PROVE  Grows /\ (OneTries \/ (Stream' = Stream /\ Tried' = Tried))
<1> DEFINE Goal == Grows /\ (OneTries \/ (Stream' = Stream /\ Tried' = Tried))
<1>0. /\ pc \in [Callers -> {"idle", "lock", "buffer", "flush", "write", "fsync", "unlock",
                             "closefile", "return", "done"}]
      /\ op \in [Callers -> {"log", "flush", "close"}]
      /\ calls \in [Callers -> 0..MaxCalls]
  BY DEF BaseInv, TypeOK
<1>1. CASE TimePasses \/ UNCHANGED vars
  <2>1. UNCHANGED <<written, buf, broken, synced, syncWriteErrors, pc, op, calls, returned>>
    BY <1>1 DEF TimePasses
  <2>2. Tried' = Tried
    BY <2>1 DEF Tried, Passed, Logging, Entry
  <2> QED BY <2>1, <2>2, StayEffect
<1>2. ASSUME NEW c \in Callers, LogCall(c) \/ FlushCall(c) \/ CloseCall(c) PROVE Goal
  <2>1. /\ UNCHANGED <<written, buf, broken, synced, syncWriteErrors, returned>> /\ OthersStay(c)
    BY <1>2, <1>0 DEF LogCall, FlushCall, CloseCall, AfterCloseCall, OthersStay
  <2>2. ~Logging(c, After) /\ ~Logging(c, After)'
    BY <1>0, <1>2, <2>1 DEF Logging, After, LogCall, FlushCall, CloseCall
  <2>3. Tried' = Tried
    BY <2>1, <2>2, PassedKept DEF Tried
  <2> QED BY <2>1, <2>3, StayEffect
<1>3. ASSUME NEW c \in Callers, Lock(c) \/ CloseFile(c) PROVE Goal
  <2>1. /\ UNCHANGED <<written, buf, broken, synced, syncWriteErrors, returned>> /\ OthersStay(c)
        /\ ~Logging(c, After) /\ ~Logging(c, After)'
    BY <1>3, <1>0 DEF Lock, CloseFile, OthersStay, Logging, After, BaseInv, Places
  <2>2. Tried' = Tried
    BY <2>1, PassedKept DEF Tried
  <2> QED BY <2>1, <2>2, StayEffect
<1>4. ASSUME NEW c \in Callers, Buffer(c) \/ Write(c) PROVE Goal
  <2>1. /\ pc[c] \in {"buffer", "write"} /\ op[c] = "log" /\ Entry(c) \in Entries
    BY <1>4, EntryType DEF Buffer, Write, BaseInv, Places
  <2>2. Grows /\ Takes(c)
    BY <1>4, <2>1, BufferEffect, WriteEffect DEF BaseInv
  <2>3. /\ OthersStay(c) /\ returned' = returned /\ calls' = calls
        /\ ~Logging(c, After) /\ Logging(c, After)' /\ ~Logging(c, Before)'
    BY <1>4, <1>0, <2>1 DEF Buffer, Write, OthersStay, Logging, After, Before
  <2>4. Tried' = Tried \union {Entry(c)}
    BY <2>3, PassedMore DEF Tried
  <2> QED BY <2>1, <2>2, <2>3, <2>4 DEF OneTries
<1>5. ASSUME NEW c \in Callers, Flush(c) \/ Fsync(c) PROVE Goal
  <2>1. Grows /\ Stream' = Stream
    BY <1>5, FlushEffect, FsyncEffect DEF BaseInv
  <2>2. /\ OthersStay(c) /\ returned' = returned /\ calls' = calls
        /\ Logging(c, After)' <=> Logging(c, After)
    BY <1>5, <1>0 DEF Flush, Fsync, OthersStay, Logging, After
  <2>3. Tried' = Tried
    BY <2>2, PassedKept DEF Tried
  <2> QED BY <2>1, <2>3
<1>6. ASSUME NEW c \in Callers, Unlock(c) PROVE Goal
  <2>1. /\ UNCHANGED <<written, buf, broken, synced, syncWriteErrors, returned, calls>> /\ OthersStay(c)
        /\ Logging(c, After)' <=> Logging(c, After)
    BY <1>6, <1>0 DEF Unlock, OthersStay, Logging, After
  <2>2. Tried' = Tried
    BY <2>1, PassedKept DEF Tried
  <2> QED BY <2>1, <2>2, StayEffect
<1>7. ASSUME NEW c \in Callers, Return(c) PROVE Goal
  <2>1. /\ UNCHANGED <<written, buf, broken, synced, syncWriteErrors, calls>> /\ OthersStay(c)
        /\ ~Logging(c, After)' /\ (Logging(c, After) <=> op[c] = "log")
        /\ returned' = IF op[c] = "log" THEN returned \union {Entry(c)} ELSE returned
    BY <1>7, <1>0 DEF Return, OthersStay, Logging, After
  <2>2. Tried' = Tried
    <3>1. CASE op[c] = "log"
      BY <2>1, <3>1, PassedReturn DEF Tried
    <3>2. CASE op[c] # "log"
      BY <2>1, <3>2, PassedKept DEF Tried
    <3> QED BY <3>1, <3>2
  <2> QED BY <2>1, <2>2, StayEffect
<1> QED BY <1>1, <1>2, <1>3, <1>4, <1>5, <1>6, <1>7 DEF Next, Step

-----------------------------------------------------------------------------
(* InOrder. *)

\* An entry of an earlier call of its caller, or of the call that the caller is
\* in, if that is not at one of the places.
Old(e, places) == /\ e[2] =< calls[e[1]]
                  /\ Logging(e[1], places) => e[2] < calls[e[1]]

OrderInv == InOrder /\ \A i \in 1..Len(Stream) : Old(Stream[i], Before)

\* No step makes an old entry a new one.
LEMMA OldStays ==
  ASSUME BaseInv, [Next]_vars, NEW places \in {Before, Before \union After},
         NEW e \in Entries, Old(e, places)
  PROVE  Old(e, places)'
<1> PICK c \in Callers : c = e[1]
  BY DEF Entries
<1>1. e[2] \in Int /\ calls[c] \in Nat
  BY DEF Entries, BaseInv, TypeOK
<1> DEFINE Goal == \/ calls'[c] = calls[c] /\ (Logging(c, places)' => Logging(c, places))
                   \/ calls'[c] = calls[c] + 1
<1>0. /\ pc \in [Callers -> {"idle", "lock", "buffer", "flush", "write", "fsync", "unlock",
                             "closefile", "return", "done"}]
      /\ op \in [Callers -> {"log", "flush", "close"}]
      /\ calls \in [Callers -> 0..MaxCalls]
  BY DEF BaseInv, TypeOK
<1>2. CASE TimePasses \/ UNCHANGED vars
  <2>1. Goal
    BY <1>2 DEF TimePasses, Logging
  <2> QED BY <1>1, <2>1 DEF Old
<1>3. ASSUME NEW d \in Callers, LogCall(d) \/ FlushCall(d) \/ CloseCall(d) PROVE Old(e, places)'
  <2>1. Goal
    BY <1>0, <1>3 DEF LogCall, FlushCall, CloseCall, Logging
  <2> QED BY <1>1, <2>1 DEF Old
<1>4. ASSUME NEW d \in Callers, Step(d) PROVE Old(e, places)'
  <2>1. /\ calls' = calls /\ op' = op /\ (c # d => pc'[c] = pc[c])
        /\ op[d] = "log" /\ pc'[d] \in places => pc[d] \in places
    <3>1. CASE places = Before
      BY <1>0, <1>4, <3>1 DEF Step, Lock, Buffer, Flush, Write, Fsync, Unlock, CloseFile, Return, Before
    <3>2. CASE places = Before \union After
      <4>1. \A p : p \in places <=> p \in {"lock", "buffer", "write", "flush", "fsync", "unlock", "return"}
        BY <3>2 DEF Before, After
      <4>2. ASSUME op[d] = "log" PROVE pc[d] \in places
        BY <1>0, <1>4, <4>1, <4>2 DEF Step, Lock, Buffer, Flush, Write, Fsync, Unlock, Return,
                                          CloseFile, BaseInv, Places
      <4>3. calls' = calls /\ op' = op /\ (c # d => pc'[c] = pc[c])
        BY <1>0, <1>4 DEF Step, Lock, Buffer, Flush, Write, Fsync, Unlock, CloseFile, Return
      <4> QED BY <4>2, <4>3
    <3> QED BY <3>1, <3>2
  <2> QED BY <1>1, <2>1 DEF Old, Logging
<1> QED BY <1>2, <1>3, <1>4 DEF Next

LEMMA OrderStep ==
  ASSUME BaseInv, OrderInv, [Next]_vars
  PROVE  OrderInv'
<1>1. Stream \in Seq(Entries)
  BY ConcatProperties DEF BaseInv, TypeOK, Stream
<1> PICK s \in Seq(Entries) : s = Stream
  BY <1>1
<1>2. /\ \A i, j \in 1..Len(s) : i < j /\ s[i][1] = s[j][1] => s[i][2] < s[j][2]
      /\ \A i \in 1..Len(s) : s[i] \in Entries /\ Old(s[i], Before)
  <2>1. DOMAIN s = 1..Len(s) /\ \A i \in 1..Len(s) : s[i] \in Entries
    OBVIOUS
  <2>2. \A i \in 1..Len(s) : Old(s[i], Before)
    BY DEF OrderInv
  <2>3. \A i, j \in DOMAIN s : i < j /\ s[i][1] = s[j][1] => s[i][2] < s[j][2]
    BY DEF OrderInv, InOrder, Stream
  <2> QED BY <2>1, <2>2, <2>3
<1>3. \A i \in 1..Len(s) : Old(s[i], Before)'
  BY <1>2, OldStays
<1>4. CASE Stream' = Stream
  <2>1. Stream' = s
    BY <1>4
  <2>2. DOMAIN s = 1..Len(s)
    OBVIOUS
  <2>3. InOrder'
    BY <1>2, <2>1, <2>2 DEF InOrder, Stream
  <2> QED BY <1>3, <2>1, <2>3 DEF OrderInv
<1>5. ASSUME NEW c \in Callers, pc[c] \in {"buffer", "write"}, op[c] = "log", Entry(c) \in Entries,
             Stream' = Append(Stream, Entry(c)), calls' = calls, ~Logging(c, Before)'
      PROVE  OrderInv'
  <2>1. PICK e \in Entries : e = Entry(c)
    BY <1>5
  <2>2. e[1] = c /\ e[2] = calls[c]
    BY <2>1 DEF Entry
  <2>3. \A i \in 1..Len(s) : s[i][1] = c => s[i][2] < e[2]
    BY <1>2, <1>5, <2>2 DEF Old, Logging, Before
  <2>4. Old(e, Before)'
    <3>1. e[2] \in Int
      BY DEF Entries
    <3> QED BY <1>5, <2>2, <3>1 DEF Old
  <2>5. PICK t \in Seq(Entries) : t = Append(s, e)
    <3>1. Append(s, e) \in Seq(Entries)
      BY AppendProperties, Zenon
    <3> QED BY <3>1
  <2>6. /\ Len(t) = Len(s) + 1 /\ t[Len(t)] = e
        /\ \A i \in 1..Len(s) : t[i] = s[i]
        /\ DOMAIN t = 1..Len(t) /\ Len(s) \in Nat
    BY <2>5
  <2>7. Stream' = t
    BY <1>5, <2>1, <2>5
  <2>8. \A i \in 1..Len(t) : i \in 1..Len(s) \/ i = Len(t)
    BY <2>6
  <2>9. \A i \in 1..Len(t) : Old(t[i], Before)'
    BY <1>3, <2>4, <2>6, <2>8
  <2>10. \A i, j \in DOMAIN t : i < j /\ t[i][1] = t[j][1] => t[i][2] < t[j][2]
    <3> TAKE i, j \in DOMAIN t
    <3> HAVE i < j /\ t[i][1] = t[j][1]
    <3>1. i \in 1..Len(s) /\ t[i] = s[i]
      BY <2>6
    <3>2. CASE j \in 1..Len(s)
      BY <1>2, <2>6, <3>1, <3>2
    <3>3. CASE j = Len(t)
      BY <2>2, <2>3, <2>6, <3>1, <3>3
    <3> QED BY <2>6, <2>8, <3>2, <3>3
  <2>11. InOrder'
    BY <2>7, <2>10 DEF InOrder, Stream
  <2> QED BY <2>7, <2>9, <2>11 DEF OrderInv
<1> QED BY <1>4, <1>5, TriedStep DEF OneTries, Takes

\* Entries stand in the stream once and in the order their callers logged them,
\* whatever was refused or failed to be written on the way.
THEOREM EntriesInOrder == Spec => []InOrder
<1>1. Init => OrderInv
  BY DEF Init, OrderInv, InOrder, Stream
<1>2. BaseInv /\ OrderInv /\ [Next]_vars => OrderInv'
  BY OrderStep
<1>3. OrderInv => InOrder
  BY DEF OrderInv
<1> QED BY <1>1, <1>2, <1>3, BaseInit, BaseStep, PTL DEF Spec

-----------------------------------------------------------------------------
(* LossesCounted.                                                          *)

\* A finite set with at most n elements.
Few(S, n) == IsFiniteSet(S) /\ Cardinality(S) =< n

LEMMA FewerOrOneMore ==
  ASSUME NEW S, NEW n \in Nat, Few(S, n)
  PROVE  /\ \A T : T \subseteq S => Few(T, n)
         /\ \A T, e : T \subseteq S \union {e} => Few(T, n + 1)
<1>1. Cardinality(S) \in Nat /\ Cardinality(S) =< n
  BY FS_CardinalityType DEF Few
<1>2. ASSUME NEW T, NEW U, T \subseteq U, IsFiniteSet(U), NEW m \in Nat, Cardinality(U) =< m
      PROVE  Few(T, m)
  <2>1. IsFiniteSet(T) /\ Cardinality(T) =< Cardinality(U)
    BY <1>2, FS_Subset
  <2>2. Cardinality(T) \in Nat /\ Cardinality(U) \in Nat
    BY <1>2, <2>1, FS_CardinalityType
  <2> QED BY <1>2, <2>1, <2>2 DEF Few
<1>3. ASSUME NEW T, T \subseteq S PROVE Few(T, n)
  BY <1>1, <1>2, <1>3 DEF Few
<1>4. ASSUME NEW T, NEW e, T \subseteq S \union {e} PROVE Few(T, n + 1)
  <2>1. IsFiniteSet(S \union {e}) /\ Cardinality(S \union {e}) =< n + 1
    BY <1>1, FS_AddElement DEF Few
  <2> QED BY <1>2, <1>4, <2>1
<1> QED BY <1>3, <1>4

LEMMA FewWithin ==
  ASSUME NEW S, NEW n \in Nat, Few(S, n), NEW m \in Nat, n =< m
  PROVE  Few(S, m)
BY FS_CardinalityType DEF Few

\* The elements of a sequence.
LEMMA ElementsOf ==
  ASSUME NEW S, NEW s \in Seq(S)
  PROVE  /\ \A x : x \in ToSet(s) <=> \E i \in 1..Len(s) : x = s[i]
         /\ \A e \in S : ToSet(Append(s, e)) = ToSet(s) \union {e}
<1>1. \A x : x \in ToSet(s) <=> \E i \in 1..Len(s) : x = s[i]
  BY DEF ToSet
<1>2. ASSUME NEW e \in S PROVE ToSet(Append(s, e)) = ToSet(s) \union {e}
  <2>1. PICK t \in Seq(S) : t = Append(s, e)
    <3>1. Append(s, e) \in Seq(S)
      BY AppendProperties, Zenon
    <3> QED BY <3>1
  <2>2. /\ Len(t) = Len(s) + 1 /\ t[Len(t)] = e /\ \A i \in 1..Len(s) : t[i] = s[i]
        /\ Len(s) \in Nat
    BY <2>1
  <2>3. \A x : x \in ToSet(t) <=> \E i \in 1..Len(t) : x = t[i]
    BY DEF ToSet
  <2>4. \A i \in 1..Len(t) : i \in 1..Len(s) \/ i = Len(t)
    BY <2>2
  <2>5. Len(t) \in 1..Len(t) /\ \A i \in 1..Len(s) : i \in 1..Len(t)
    BY <2>2
  <2>6. \A x : x \in ToSet(t) <=> x \in ToSet(s) \/ x = e
    <3> TAKE x
    <3>1. x \in ToSet(t) => x \in ToSet(s) \/ x = e
      BY <1>1, <2>2, <2>3, <2>4
    <3>2. x \in ToSet(s) => x \in ToSet(t)
      BY <1>1, <2>2, <2>3, <2>5
    <3>3. e \in ToSet(t)
      BY <2>2, <2>3, <2>5
    <3> QED BY <3>1, <3>2, <3>3
  <2> QED BY <2>1, <2>6
<1> QED BY <1>1, <1>2

\* The entries that some caller tried to write and that are on their way no more.
Missing == Tried \ ToSet(Stream)

LossInv == Few(Missing, syncWriteErrors) /\ (Buffered /\ Missing # {} => broken)

LEMMA LossStep ==
  ASSUME BaseInv, LossInv, [Next]_vars
  PROVE  LossInv'
<1>1. /\ Stream \in Seq(Entries) /\ syncWriteErrors \in Nat
      /\ syncWriteErrors' \in Nat /\ syncWriteErrors' >= syncWriteErrors
  BY BaseStep, TriedStep, ConcatProperties DEF BaseInv, TypeOK, Stream, Grows
<1>2. (Buffered' <=> Buffered) /\ (broken => broken')
  BY TriedStep DEF Grows, Next, Step, TimePasses, LogCall, FlushCall, CloseCall, Lock, Buffer, Flush,
                   Write, Fsync, Unlock, CloseFile, Return, Buffered
<1>3. ASSUME Missing' \subseteq Missing PROVE LossInv'
  <2>1. Few(Missing', syncWriteErrors)
    BY <1>1, <1>3, FewerOrOneMore DEF LossInv
  <2>2. Few(Missing', syncWriteErrors')
    BY <1>1, <2>1, FewWithin
  <2>3. Buffered' /\ Missing' # {} => broken'
    BY <1>2, <1>3 DEF LossInv
  <2> QED BY <2>2, <2>3 DEF LossInv
<1>4. CASE Stream' = Stream /\ Tried' = Tried
  BY <1>3, <1>4 DEF Missing
<1>5. ASSUME NEW c \in Callers, Entry(c) \in Entries, Tried' = Tried \union {Entry(c)},
             Stream' = Append(Stream, Entry(c))
      PROVE  LossInv'
  <2>1. ToSet(Stream') = ToSet(Stream) \union {Entry(c)}
    BY <1>1, <1>5, ElementsOf
  <2>2. Missing' \subseteq Missing
    BY <1>5, <2>1 DEF Missing
  <2> QED BY <1>3, <2>2
<1>6. ASSUME NEW c \in Callers, Tried' = Tried \union {Entry(c)}, Stream' = Stream,
             syncWriteErrors' = syncWriteErrors + 1, Buffered => broken'
      PROVE  LossInv'
  <2>1. Missing' \subseteq Missing \union {Entry(c)}
    BY <1>6 DEF Missing
  <2>2. Few(Missing', syncWriteErrors + 1)
    BY <1>1, <2>1, FewerOrOneMore DEF LossInv
  <2> QED BY <1>2, <1>6, <2>2 DEF LossInv
<1> QED BY <1>4, <1>5, <1>6, TriedStep DEF OneTries, Takes

LEMMA NothingTried == Init => Tried = {}
BY DEF Init, Tried, Passed, Logging, After

LEMMA LossInit == Init => LossInv
<1> SUFFICES ASSUME Init PROVE LossInv
  OBVIOUS
<1>1. Missing = {} /\ syncWriteErrors = 0
  BY NothingTried DEF Missing, Init
<1> QED BY <1>1, FS_EmptySet DEF LossInv, Few

\* A writer keeps an error only after one was counted.
BrokenInv == broken => syncWriteErrors > 0

LEMMA BrokenStep ==
  ASSUME BaseInv, BrokenInv, [Next]_vars
  PROVE  BrokenInv'
<1>0. syncWriteErrors \in Nat /\ syncWriteErrors' \in Nat /\ syncWriteErrors' >= syncWriteErrors
  BY BaseStep, TriedStep DEF BaseInv, TypeOK, Grows
<1>1. ASSUME broken' = broken PROVE BrokenInv'
  BY <1>0, <1>1 DEF BrokenInv
<1>2. ASSUME NEW c \in Callers, Buffer(c) PROVE BrokenInv'
  <2>1. Entry(c) \in Entries
    BY <1>2, EntryType DEF BaseInv, Buffer
  <2>2. broken' => syncWriteErrors' = syncWriteErrors + 1
    BY <1>2, <2>1, BufferEffect DEF BaseInv
  <2> QED BY <1>0, <2>2 DEF BrokenInv
<1>3. ASSUME NEW c \in Callers, Flush(c) PROVE BrokenInv'
  <2>1. broken' => syncWriteErrors' = syncWriteErrors + 1
    BY <1>3, FlushEffect DEF BaseInv
  <2> QED BY <1>0, <2>1 DEF BrokenInv
<1>4. \/ broken' = broken
      \/ \E c \in Callers : Buffer(c) \/ Flush(c)
  BY DEF Next, Step, TimePasses, LogCall, FlushCall, CloseCall, Lock, Write, Fsync, Unlock, CloseFile,
         Return
<1> QED BY <1>1, <1>2, <1>3, <1>4

\* The elements of two sequences put together.
LEMMA ElementsOfBoth ==
  ASSUME NEW S, NEW s \in Seq(S), NEW t \in Seq(S)
  PROVE  ToSet(s \o t) \subseteq ToSet(s) \union ToSet(t)
<1> DEFINE u == s \o t
<1>1. /\ u \in Seq(S) /\ Len(u) = Len(s) + Len(t) /\ Len(s) \in Nat /\ Len(t) \in Nat
      /\ \A i \in 1..Len(s) + Len(t) : u[i] = IF i =< Len(s) THEN s[i] ELSE t[i - Len(s)]
  BY ConcatProperties
<1> HIDE DEF u
<1>2. ASSUME NEW x \in ToSet(u) PROVE x \in ToSet(s) \union ToSet(t)
  <2>1. PICK i \in 1..Len(u) : x = u[i]
    BY <1>1, ElementsOf
  <2>2. CASE i =< Len(s)
    <3>1. i \in 1..Len(s) /\ x = s[i]
      BY <1>1, <2>1, <2>2
    <3> QED BY <3>1, ElementsOf
  <2>3. CASE ~ (i =< Len(s))
    <3>1. i - Len(s) \in 1..Len(t) /\ x = t[i - Len(s)]
      BY <1>1, <2>1, <2>3
    <3> QED BY <3>1, ElementsOf
  <2> QED BY <2>2, <2>3
<1> QED BY <1>2 DEF u

\* A sequence has at most as many elements as places.
LEMMA FewElements ==
  ASSUME NEW S, NEW s \in Seq(S)
  PROVE  Few(ToSet(s), Len(s))
<1> DEFINE D == 1..Len(s)
<1>1. Len(s) \in Nat /\ D = DOMAIN s
  OBVIOUS
<1>2. IsFiniteSet(D) /\ Cardinality(D) = Len(s)
  BY <1>1, FS_Interval
<1>3. s \in Surjection(D, ToSet(s))
  BY <1>1, ElementsOf DEF Surjection
<1>4. IsFiniteSet(ToSet(s)) /\ Cardinality(ToSet(s)) =< Cardinality(D)
  <2> HIDE DEF D
  <2> QED BY <1>2, <1>3, FS_Surjection
<1> QED BY <1>2, <1>4 DEF Few

LEMMA FewOfBoth ==
  ASSUME NEW S, NEW T, NEW m \in Nat, NEW n \in Nat, Few(S, m), Few(T, n)
  PROVE  Few(S \union T, m + n)
<1>1. /\ IsFiniteSet(S \union T)
      /\ Cardinality(S \union T) = Cardinality(S) + Cardinality(T) - Cardinality(S \cap T)
  BY FS_Union DEF Few
<1>2. Cardinality(S \cap T) \in Nat /\ Cardinality(S) \in Nat /\ Cardinality(T) \in Nat
  BY FS_Intersection, FS_CardinalityType DEF Few
<1> QED BY <1>1, <1>2 DEF Few

\* An entry that is lost was refused, or is stranded in the buffer.
LEMMA LostIs ==
  ASSUME BaseInv
  PROVE  Lost \subseteq Missing \union (ToSet(buf) \ Flushable)
<1>1. ToSet(Stream) \subseteq ToSet(written) \union ToSet(buf)
  BY ElementsOfBoth DEF BaseInv, TypeOK, Stream
<1>2. returned \subseteq Tried
  BY DEF Tried, Passed
<1> QED BY <1>1, <1>2 DEF Lost, Missing

\* Of the entries whose call has returned there are lost at most as many as errors
\* were counted, and for a tier with a buffer as many more as that holds; and none
\* while nothing was counted and the file is open.
THEOREM NoSilentLoss == Spec => []LossesCounted
<1>1. BaseInv /\ LossInv /\ BrokenInv => LossesCounted
  <2> SUFFICES ASSUME BaseInv, LossInv, BrokenInv PROVE LossesCounted
    OBVIOUS
  <2>0. /\ buf \in Seq(Entries) /\ Len(buf) =< BufferSize /\ Len(buf) \in Nat /\ BufferSize \in Nat
        /\ syncWriteErrors \in Nat /\ Few(Missing, syncWriteErrors)
    BY SyncAssumption DEF BaseInv, TypeOK, LossInv
  <2>1. Cardinality(Lost) =< syncWriteErrors + (IF Buffered THEN BufferSize ELSE 0)
    <3>1. CASE Buffered
      <4>1. Few(ToSet(buf), BufferSize)
        BY <2>0, FewElements, FewWithin
      <4>2. Few(Missing \union ToSet(buf), syncWriteErrors + BufferSize)
        BY <2>0, <4>1, FewOfBoth
      <4>3. Lost \subseteq Missing \union ToSet(buf) /\ syncWriteErrors + BufferSize \in Nat
        BY <2>0, LostIs
      <4>4. Few(Lost, syncWriteErrors + BufferSize)
        BY <4>2, <4>3, FewerOrOneMore
      <4> QED BY <3>1, <4>4 DEF Few
    <3>2. CASE ~Buffered
      <4>1. ToSet(buf) = {}
        BY <3>2 DEF BaseInv, Places, ToSet
      <4>2. Few(Lost, syncWriteErrors)
        BY <2>0, <4>1, LostIs, FewerOrOneMore
      <4> QED BY <2>0, <3>2, <4>2 DEF Few
    <3> QED BY <3>1, <3>2
  <2>2. ASSUME fileOpen, syncWriteErrors = 0 PROVE Lost = {}
    <3>1. ToSet(buf) \subseteq Flushable
      BY <2>2 DEF BrokenInv, Flushable
    <3>2. Missing = {}
      BY <2>0, <2>2, FS_CardinalityType, FS_EmptySet DEF Few
    <3> QED BY <3>1, <3>2, LostIs
  <2> QED BY <2>1, <2>2 DEF LossesCounted
<1>2. Init => BrokenInv
  BY DEF Init, BrokenInv
<1> QED BY <1>1, <1>2, LossInit, LossStep, BrokenStep, BaseInit, BaseStep, PTL DEF Spec

-----------------------------------------------------------------------------
(* TierKept, for FsyncEveryWrite.                                          *)

\* The entries of the file are those fsynced and those behind them.
LEMMA PrefixIs ==
  ASSUME NEW S, NEW s \in Seq(S), NEW n \in 0..Len(s)
  PROVE  \A x : x \in ToSet(SubSeq(s, 1, n)) <=> \E i \in 1..n : x = s[i]
<1>1. /\ Len(SubSeq(s, 1, n)) = n
      /\ \A i \in 1..n : SubSeq(s, 1, n)[i] = s[i]
      /\ DOMAIN SubSeq(s, 1, n) = 1..n
  OBVIOUS
<1> QED BY <1>1 DEF ToSet

LEMMA FileTypes ==
  ASSUME TypeOK
  PROVE  written \in Seq(Entries) /\ synced \in 0..Len(written) /\ Len(written) \in Nat
BY DEF TypeOK

LEMMA SyncedGrows ==
  ASSUME BaseInv, [Next]_vars
  PROVE  Synced \subseteq Synced' /\ ToSet(written) \subseteq ToSet(written')
<1>1. TypeOK' /\ Grows
  BY BaseStep, TriedStep DEF BaseInv
<1>2. /\ written \in Seq(Entries) /\ synced \in 0..Len(written) /\ Len(written) \in Nat
      /\ written' \in Seq(Entries) /\ synced' \in 0..Len(written') /\ Len(written') \in Nat
  <2>1. TypeOK' => written' \in Seq(Entries) /\ synced' \in 0..Len(written')
    BY DEF TypeOK
  <2> QED BY <1>1, <2>1, FileTypes DEF BaseInv
<1>3. /\ \A x : x \in Synced <=> \E i \in 1..synced : x = written[i]
      /\ \A x : x \in Synced' <=> \E i \in 1..synced' : x = written'[i]
  <2> USE <1>2
  <2> QED BY PrefixIs, Zenon DEF Synced
<1>4. /\ \A i \in 1..synced : i \in 1..synced' /\ i \in 1..Len(written)
      /\ \A i \in 1..Len(written) : i \in 1..Len(written')
      /\ \A i \in 1..Len(written) : written'[i] = written[i]
  BY <1>1, <1>2 DEF Grows
<1>5. Synced \subseteq Synced'
  BY <1>3, <1>4
<1>6. /\ \A x : x \in ToSet(written) <=> \E i \in 1..Len(written) : x = written[i]
      /\ \A x : x \in ToSet(written') <=> \E i \in 1..Len(written') : x = written'[i]
  BY <1>2, ElementsOf
<1>7. ToSet(written) \subseteq ToSet(written')
  BY <1>4, <1>6
<1> QED BY <1>5, <1>7

\* The entries past their fsync, where each is fsynced by its own call.
PastSync == Passed({"return"})

\* An entry that a crash of the system may take, although its fsync is past, and
\* one that did not reach the file.
AtRisk == (PastSync \ Synced) \union (Tried \ ToSet(written))

EveryWriteInv == tier = "FsyncEveryWrite" => Few(AtRisk, syncWriteErrors)

\* With FsyncEveryWrite an entry gets past its fsync by this step alone.
LEMMA PastSyncStep ==
  ASSUME BaseInv, [Next]_vars, tier = "FsyncEveryWrite"
  PROVE  \/ PastSync' = PastSync
         \/ \E c \in Callers : Fsync(c) /\ Entry(c) \in Tried /\ PastSync' = PastSync \union {Entry(c)}
<1> DEFINE At == {"return"}
           Goal == \/ PastSync' = PastSync
                   \/ \E c \in Callers : /\ Fsync(c) /\ Entry(c) \in Tried
                                         /\ PastSync' = PastSync \union {Entry(c)}
<1>0. /\ pc \in [Callers -> {"idle", "lock", "buffer", "flush", "write", "fsync", "unlock",
                             "closefile", "return", "done"}]
      /\ op \in [Callers -> {"log", "flush", "close"}]
      /\ calls \in [Callers -> 0..MaxCalls]
  BY DEF BaseInv, TypeOK
<1>1. CASE TimePasses \/ UNCHANGED vars
  BY <1>1 DEF TimePasses, PastSync, Passed, Logging, Entry
<1>2. ASSUME NEW c \in Callers, LogCall(c) \/ FlushCall(c) \/ CloseCall(c) PROVE Goal
  <2>1. returned' = returned /\ OthersStay(c) /\ ~Logging(c, At) /\ ~Logging(c, At)'
    BY <1>0, <1>2 DEF LogCall, FlushCall, CloseCall, AfterCloseCall, OthersStay, Logging
  <2> QED BY <2>1, PassedKept DEF PastSync
<1>3. ASSUME NEW c \in Callers, Lock(c) \/ Buffer(c) \/ Flush(c) \/ Unlock(c) PROVE Goal
  BY <1>3 DEF Lock, Buffer, Flush, Unlock, BaseInv, Places, Buffered
<1>4. ASSUME NEW c \in Callers, Write(c) \/ CloseFile(c) PROVE Goal
  <2>1. returned' = returned /\ OthersStay(c) /\ ~Logging(c, At) /\ ~Logging(c, At)'
    BY <1>0, <1>4 DEF Write, CloseFile, OthersStay, Logging, BaseInv, Places
  <2> QED BY <2>1, PassedKept DEF PastSync
<1>5. ASSUME NEW c \in Callers, Fsync(c) PROVE Goal
  <2>1. /\ returned' = returned /\ OthersStay(c) /\ ~Logging(c, At) /\ Logging(c, At)'
        /\ calls' = calls /\ Logging(c, After)
    BY <1>0, <1>5 DEF Fsync, OthersStay, Logging, BaseInv, Places, Buffered, After
  <2>2. Entry(c) \in Tried
    BY <2>1, PassedIs DEF Tried
  <2>3. PastSync' = PastSync \union {Entry(c)}
    BY <2>1, PassedMore DEF PastSync
  <2> QED BY <1>5, <2>2, <2>3
<1>6. ASSUME NEW c \in Callers, Return(c) PROVE Goal
  <2>1. /\ calls' = calls /\ OthersStay(c) /\ ~Logging(c, At)' /\ (Logging(c, At) <=> op[c] = "log")
        /\ returned' = IF op[c] = "log" THEN returned \union {Entry(c)} ELSE returned
    BY <1>0, <1>6 DEF Return, OthersStay, Logging
  <2>2. CASE op[c] = "log"
    BY <2>1, <2>2, PassedReturn DEF PastSync
  <2>3. CASE op[c] # "log"
    BY <2>1, <2>3, PassedKept DEF PastSync
  <2> QED BY <2>2, <2>3
<1> QED BY <1>1, <1>2, <1>3, <1>4, <1>5, <1>6 DEF Next, Step

LEMMA EveryWriteStep ==
  ASSUME BaseInv, EveryWriteInv, [Next]_vars
  PROVE  EveryWriteInv'
<1> SUFFICES ASSUME tier' = "FsyncEveryWrite" PROVE Few(AtRisk, syncWriteErrors)'
  BY DEF EveryWriteInv
<1>1. tier = "FsyncEveryWrite" /\ buf = <<>> /\ buf' = <<>>
  <2>1. tier' = tier
    BY DEF Next, Step, TimePasses, LogCall, FlushCall, CloseCall, Lock, Buffer, Flush, Write, Fsync,
           Unlock, CloseFile, Return
  <2>2. BaseInv'
    BY BaseStep
  <2> QED BY <2>1, <2>2 DEF BaseInv, Places, Buffered
<1>2. /\ written \in Seq(Entries) /\ written' \in Seq(Entries) /\ syncWriteErrors \in Nat
      /\ syncWriteErrors' \in Nat /\ syncWriteErrors' >= syncWriteErrors /\ Few(AtRisk, syncWriteErrors)
  BY <1>1, BaseStep, TriedStep DEF BaseInv, TypeOK, Grows, EveryWriteInv
<1>3. Stream = written /\ Stream' = written'
  BY <1>1, <1>2, ConcatEmptySeq DEF Stream
<1>4. Synced \subseteq Synced' /\ ToSet(written) \subseteq ToSet(written')
  BY SyncedGrows
<1>5. ASSUME AtRisk' \subseteq AtRisk PROVE Few(AtRisk, syncWriteErrors)'
  <2>1. Few(AtRisk', syncWriteErrors)
    BY <1>2, <1>5, FewerOrOneMore
  <2> QED BY <1>2, <2>1, FewWithin
<1>6. ASSUME NEW e, AtRisk' \subseteq AtRisk \union {e}, syncWriteErrors' = syncWriteErrors + 1
      PROVE  Few(AtRisk, syncWriteErrors)'
  <2>1. Few(AtRisk', syncWriteErrors + 1)
    BY <1>2, <1>6, FewerOrOneMore
  <2> QED BY <1>6, <2>1
<1>7. CASE PastSync' = PastSync
  <2>1. CASE Tried' = Tried
    <3>1. AtRisk' \subseteq AtRisk
      BY <1>4, <1>7, <2>1 DEF AtRisk
    <3> QED BY <1>5, <3>1
  <2>2. ASSUME NEW c \in Callers, Entry(c) \in Entries, Tried' = Tried \union {Entry(c)},
               Stream' = Append(Stream, Entry(c))
        PROVE  Few(AtRisk, syncWriteErrors)'
    <3>1. ToSet(written') = ToSet(written) \union {Entry(c)}
      BY <1>2, <1>3, <2>2, ElementsOf
    <3>2. AtRisk' \subseteq AtRisk
      BY <1>4, <1>7, <2>2, <3>1 DEF AtRisk
    <3> QED BY <1>5, <3>2
  <2>3. ASSUME NEW c \in Callers, Tried' = Tried \union {Entry(c)},
               syncWriteErrors' = syncWriteErrors + 1
        PROVE  Few(AtRisk, syncWriteErrors)'
    <3>1. AtRisk' \subseteq AtRisk \union {Entry(c)}
      BY <1>4, <1>7, <2>3 DEF AtRisk
    <3> QED BY <1>6, <2>3, <3>1
  <2> QED BY <2>1, <2>2, <2>3, TriedStep DEF OneTries, Takes
<1>8. ASSUME NEW c \in Callers, Fsync(c), Entry(c) \in Tried, PastSync' = PastSync \union {Entry(c)}
      PROVE  Few(AtRisk, syncWriteErrors)'
  <2>1. Tried' = Tried /\ written' = written
    <3>1. pc[c] = "fsync" /\ pc'[c] \notin {"idle", "lock", "buffer", "write"} /\ written' = written /\ buf' = buf
          /\ returned' = returned /\ calls' = calls /\ OthersStay(c) /\ op' = op /\ pc'[c] \in After
      BY <1>8 DEF Fsync, BaseInv, TypeOK, OthersStay, After
    <3>2. Logging(c, After)' <=> Logging(c, After)
      BY <3>1 DEF Logging, After
    <3> QED BY <3>1, <3>2, PassedKept DEF Tried
  <2>2. CASE synced' = Len(written)
    <3>1. Synced' = ToSet(written)
      <4>1. SubSeq(written', 1, synced') = written
        BY <1>2, <2>1, <2>2, SubSeqFull
      <4> QED BY <4>1 DEF Synced
    <3>2. PastSync \subseteq Tried
      BY PassedIs DEF PastSync, Tried, Logging, After
    <3>3. AtRisk' \subseteq AtRisk
      BY <1>8, <2>1, <3>1, <3>2 DEF AtRisk
    <3> QED BY <1>5, <3>3
  <2>3. CASE syncWriteErrors' = syncWriteErrors + 1
    <3>1. AtRisk' \subseteq AtRisk \union {Entry(c)}
      BY <1>4, <1>8, <2>1 DEF AtRisk
    <3> QED BY <1>6, <2>3, <3>1
  <2> QED BY <1>8, <2>2, <2>3 DEF Fsync, NoteErrors
<1> QED BY <1>1, <1>7, <1>8, PastSyncStep

LEMMA EveryWriteInit == Init => EveryWriteInv
<1> SUFFICES ASSUME Init PROVE EveryWriteInv
  OBVIOUS
<1>1. Tried = {} /\ PastSync = {} /\ syncWriteErrors = 0
  BY NothingTried DEF PastSync, Passed, Logging, Init
<1>2. AtRisk = {}
  BY <1>1 DEF AtRisk
<1> QED BY <1>1, <1>2, FS_EmptySet DEF EveryWriteInv, Few

-----------------------------------------------------------------------------
(* TierKept, for FsyncEveryN.                                              *)

\* While no error is counted: the entries that are not on the disk were counted
\* since the last fsync, an fsync finds the buffer empty, and when the count is
\* N, the last of the entries is that of the caller who is about to flush it.
EveryNInv ==
  tier = "FsyncEveryN" /\ syncWriteErrors = 0 =>
    /\ Len(Stream) - synced =< syncWriteCount
    /\ \A c \in Callers : pc[c] = "fsync" => buf = <<>>
    /\ syncWriteCount = FsyncEveryNCount =>
         \E c \in Callers : /\ Logging(c, After) /\ InLock(c)
                            /\ Len(Stream) > 0 /\ Stream[Len(Stream)] = Entry(c)

\* A step that leaves the count and the entries alone, and the place of whoever
\* holds the lock.
LEMMA EveryNKept ==
  ASSUME BaseInv, EveryNInv, NEW c \in Callers, ~InLock(c), OthersStay(c),
         UNCHANGED <<tier, written, buf, synced, syncWriteErrors, syncWriteCount>>,
         pc'[c] = "fsync" => ~Buffered
  PROVE  EveryNInv'
<1> SUFFICES ASSUME tier = "FsyncEveryN", syncWriteErrors = 0
    PROVE  /\ Len(Stream') - synced' =< syncWriteCount'
           /\ \A d \in Callers : pc'[d] = "fsync" => buf' = <<>>
           /\ syncWriteCount' = FsyncEveryNCount =>
                \E d \in Callers : /\ Logging(d, After)' /\ InLock(d)'
                                   /\ Len(Stream') > 0 /\ Stream'[Len(Stream')] = Entry(d)'
  BY DEF EveryNInv
<1>1. Stream' = Stream /\ Len(Stream') - synced' =< syncWriteCount'
  BY DEF EveryNInv, Stream
<1>2. \A d \in Callers : pc'[d] = "fsync" => buf' = <<>>
  BY DEF EveryNInv, OthersStay, Buffered
<1>3. ASSUME syncWriteCount = FsyncEveryNCount
      PROVE  \E d \in Callers : /\ Logging(d, After)' /\ InLock(d)'
                                /\ Len(Stream') > 0 /\ Stream'[Len(Stream')] = Entry(d)'
  <2>1. PICK d \in Callers : /\ Logging(d, After) /\ InLock(d)
                             /\ Len(Stream) > 0 /\ Stream[Len(Stream)] = Entry(d)
    BY <1>3 DEF EveryNInv
  <2>2. d # c
    BY <2>1
  <2>3. Logging(d, After)' /\ Entry(d)' = Entry(d)
    BY <2>1, <2>2, OthersLog, OthersEntry
  <2>4. InLock(d)'
    BY <2>1, <2>2 DEF InLock, OthersStay, Buffered
  <2> QED BY <1>1, <2>1, <2>3, <2>4
<1> QED BY <1>1, <1>2, <1>3

LEMMA EveryNStep ==
  ASSUME BaseInv, EveryNInv, [Next]_vars
  PROVE  EveryNInv'
<1> USE SyncAssumption
<1>0. /\ pc \in [Callers -> {"idle", "lock", "buffer", "flush", "write", "fsync", "unlock",
                             "closefile", "return", "done"}]
      /\ op \in [Callers -> {"log", "flush", "close"}] /\ calls \in [Callers -> 0..MaxCalls]
      /\ syncWriteErrors \in Nat /\ synced \in Nat /\ Len(written) \in Nat /\ Len(buf) \in Nat
      /\ Stream \in Seq(Entries) /\ Len(Stream) \in Nat /\ syncWriteCount \in Nat
  BY ConcatProperties DEF BaseInv, TypeOK, Stream
<1> DEFINE Goal == EveryNInv'
<1>1. CASE TimePasses \/ UNCHANGED vars
  <2>1. UNCHANGED <<tier, written, buf, synced, syncWriteErrors, syncWriteCount, pc, op, calls>>
    BY <1>1 DEF TimePasses
  <2> QED BY <2>1 DEF EveryNInv, Stream, Logging, InLock, Buffered, Entry
<1>2. ASSUME NEW c \in Callers, LogCall(c) \/ FlushCall(c) \/ CloseCall(c) PROVE Goal
  <2>1. /\ ~InLock(c) /\ OthersStay(c) /\ pc'[c] # "fsync"
        /\ UNCHANGED <<tier, written, buf, synced, syncWriteErrors, syncWriteCount>>
    BY <1>0, <1>2 DEF LogCall, FlushCall, CloseCall, AfterCloseCall, OthersStay, InLock
  <2> QED BY <2>1, EveryNKept
<1>3. ASSUME NEW c \in Callers, Lock(c) \/ CloseFile(c) \/ Return(c) PROVE Goal
  <2>1. /\ ~InLock(c) /\ OthersStay(c) /\ pc'[c] # "fsync"
        /\ UNCHANGED <<tier, written, buf, synced, syncWriteErrors, syncWriteCount>>
    BY <1>0, <1>3 DEF Lock, CloseFile, Return, OthersStay, InLock
  <2> QED BY <2>1, EveryNKept
<1>4. ASSUME NEW c \in Callers, Write(c) PROVE Goal
  BY <1>4 DEF Write, BaseInv, Places, Buffered, EveryNInv
<1>5. ASSUME NEW c \in Callers, InLock(c), OthersStay(c), tier' = tier, tier = "FsyncEveryN",
             syncWriteErrors' = 0, syncWriteErrors = 0, Len(Stream') - synced' =< syncWriteCount',
             pc'[c] = "fsync" => buf' = <<>>,
             syncWriteCount' = FsyncEveryNCount =>
               /\ Logging(c, After)' /\ pc'[c] # "return"
               /\ Len(Stream') > 0 /\ Stream'[Len(Stream')] = Entry(c)'
      PROVE Goal
  <2>1. ASSUME NEW d \in Callers, pc'[d] = "fsync" PROVE buf' = <<>>
    <3>1. d = c
      BY <1>5, <2>1, Alone DEF OthersStay, InLock, Buffered, BaseInv
    <3> QED BY <1>5, <2>1, <3>1
  <2>2. syncWriteCount' = FsyncEveryNCount => InLock(c)'
    BY <1>5 DEF InLock, Buffered, Logging, After
  <2> QED BY <1>5, <2>1, <2>2 DEF EveryNInv
<1>6. ASSUME NEW c \in Callers, Buffer(c) PROVE Goal
  <2> SUFFICES ASSUME tier' = "FsyncEveryN", syncWriteErrors' = 0 PROVE Goal
    BY DEF EveryNInv
  <2>1. /\ pc[c] = "buffer" /\ tier' = tier /\ syncWriteCount' = syncWriteCount + 1
        /\ OthersStay(c) /\ op' = op /\ calls' = calls /\ synced' = synced /\ op[c] = "log"
    BY <1>0, <1>6 DEF Buffer, OthersStay, BaseInv, Places
  <2>2. PICK place \in {"flush", "unlock"} : pc' = [pc EXCEPT ![c] = place]
    BY <1>6 DEF Buffer
  <2>3. Entry(c) \in Entries
    BY <2>1, EntryType DEF BaseInv
  <2>4. Takes(c) /\ syncWriteErrors' >= syncWriteErrors
    BY <1>6, <2>3, BufferEffect DEF BaseInv, Grows
  <2>5. syncWriteErrors = 0 /\ Stream' = Append(Stream, Entry(c))
    BY <1>0, <2>4 DEF Takes
  <2>6. Len(Stream') = Len(Stream) + 1 /\ Stream'[Len(Stream')] = Entry(c)
    BY <1>0, <2>3, <2>5, AppendProperties
  <2>7. Len(Stream) - synced =< syncWriteCount
    BY <2>1, <2>5 DEF EveryNInv
  <2>8. Len(Stream') - synced' =< syncWriteCount' /\ Len(Stream') > 0
    BY <1>0, <2>1, <2>6, <2>7
  <2>9. Logging(c, After)' /\ pc'[c] # "return" /\ pc'[c] # "fsync" /\ Entry(c)' = Entry(c)
    BY <1>0, <2>1, <2>2 DEF Logging, After, Entry
  <2>10. InLock(c)
    BY <1>6, NotYetN DEF Buffer
  <2> QED BY <1>5, <2>1, <2>5, <2>6, <2>8, <2>9, <2>10
<1>7. ASSUME NEW c \in Callers, Flush(c) PROVE Goal
  <2> SUFFICES ASSUME tier' = "FsyncEveryN", syncWriteErrors' = 0 PROVE Goal
    BY DEF EveryNInv
  <2>1. /\ pc[c] = "flush" /\ tier' = tier /\ syncWriteCount' = syncWriteCount
        /\ op' = op /\ calls' = calls /\ synced' = synced /\ pc' = [pc EXCEPT ![c] = "fsync"]
    BY <1>7 DEF Flush
  <2>2. OthersStay(c) /\ pc'[c] = "fsync" /\ InLock(c)
    BY <1>0, <2>1 DEF OthersStay, BaseInv, Places, InLock
  <2>3. Stream' = Stream /\ (broken' => syncWriteErrors' = syncWriteErrors + 1) /\ (~broken' => buf' = <<>>)
        /\ syncWriteErrors' >= syncWriteErrors
    BY <1>7, FlushEffect DEF BaseInv, Grows
  <2>4. syncWriteErrors = 0 /\ buf' = <<>>
    BY <1>0, <2>3
  <2>5. Len(Stream') - synced' =< syncWriteCount'
    BY <2>1, <2>3, <2>4 DEF EveryNInv
  <2>6. ASSUME syncWriteCount' = FsyncEveryNCount
        PROVE  Logging(c, After)' /\ Len(Stream') > 0 /\ Stream'[Len(Stream')] = Entry(c)'
    <3>1. PICK d \in Callers : /\ Logging(d, After) /\ InLock(d)
                               /\ Len(Stream) > 0 /\ Stream[Len(Stream)] = Entry(d)
      BY <2>1, <2>4, <2>6 DEF EveryNInv
    <3>2. d = c
      BY <2>2, <3>1, Alone DEF BaseInv
    <3> QED BY <2>1, <2>2, <2>3, <3>1, <3>2 DEF Logging, After, Entry
  <2> QED BY <1>5, <2>1, <2>2, <2>4, <2>5, <2>6
<1>8. ASSUME NEW c \in Callers, Fsync(c) PROVE Goal
  <2> SUFFICES ASSUME tier' = "FsyncEveryN", syncWriteErrors' = 0 PROVE Goal
    BY DEF EveryNInv
  <2>1. /\ pc[c] = "fsync" /\ tier' = tier /\ syncWriteCount' = 0 /\ written' = written /\ buf' = buf
        /\ op' = op /\ calls' = calls /\ pc'[c] # "fsync" /\ OthersStay(c)
    BY <1>0, <1>8 DEF Fsync, CountAfterSync, OthersStay
  <2>2. InLock(c)
    BY <2>1 DEF BaseInv, Places, InLock, Buffered
  <2>3. synced' = Len(written) /\ syncWriteErrors = 0
    BY <1>0, <1>8, FsyncEffect DEF BaseInv
  <2>4. buf = <<>>
    BY <2>1, <2>3 DEF EveryNInv
  <2>5. Len(Stream') = Len(written)
    <3>1. written \in Seq(Entries) /\ Stream' = written \o <<>>
      BY <2>1, <2>4 DEF BaseInv, TypeOK, Stream
    <3> QED BY <3>1, ConcatEmptySeq
  <2>6. Len(Stream') - synced' =< syncWriteCount' /\ syncWriteCount' # FsyncEveryNCount
    BY <1>0, <2>1, <2>3, <2>5
  <2> QED BY <1>5, <2>1, <2>2, <2>3, <2>6
<1>9. ASSUME NEW c \in Callers, Unlock(c) PROVE Goal
  <2> SUFFICES ASSUME tier' = "FsyncEveryN", syncWriteErrors' = 0 PROVE Goal
    BY DEF EveryNInv
  <2>1. /\ pc[c] = "unlock" /\ pc'[c] # "fsync" /\ OthersStay(c)
        /\ UNCHANGED <<tier, written, buf, synced, syncWriteErrors, syncWriteCount>>
    BY <1>0, <1>9 DEF Unlock, OthersStay
  <2>2. InLock(c)
    BY <2>1 DEF BaseInv, Places, InLock
  <2>3. syncWriteCount # FsyncEveryNCount
    BY <2>1, <2>2, Alone DEF BaseInv, CountBound
  <2>4. Stream' = Stream /\ Len(Stream) - synced =< syncWriteCount
    BY <2>1 DEF EveryNInv, Stream
  <2> QED BY <1>5, <2>1, <2>2, <2>3, <2>4
<1> QED BY <1>1, <1>2, <1>3, <1>4, <1>6, <1>7, <1>8, <1>9 DEF Next, Step

LEMMA EveryNInit == Init => EveryNInv
BY SyncAssumption DEF Init, EveryNInv, Stream

\* A call that returned is over: its caller is in none, or in a later one.
DoneInv == \A e \in returned : Old(e, Before \union After)

LEMMA DoneStep ==
  ASSUME BaseInv, DoneInv, [Next]_vars
  PROVE  DoneInv'
<1>1. ASSUME NEW e \in returned PROVE Old(e, Before \union After)'
  <2>1. e \in Entries /\ Old(e, Before \union After)
    BY DEF BaseInv, TypeOK, DoneInv
  <2> QED BY <2>1, OldStays
<1>2. ASSUME NEW c \in Callers, Return(c), op[c] = "log" PROVE Old(Entry(c), Before \union After)'
  <2>1. /\ calls' = calls /\ pc'[c] = "idle" /\ calls[c] \in Int
    BY <1>2 DEF Return, BaseInv, TypeOK
  <2>2. "idle" \notin Before \union After
    BY DEF Before, After
  <2>3. ~Logging(c, Before \union After)'
    BY <2>1, <2>2 DEF Logging
  <2>4. Entry(c)' = Entry(c) /\ Entry(c)[1] = c /\ Entry(c)[2] = calls[c]
    BY <2>1 DEF Entry
  <2> QED BY <2>1, <2>3, <2>4 DEF Old
<1>3. \/ returned' = returned
      \/ \E c \in Callers : Return(c) /\ op[c] = "log" /\ returned' = returned \union {Entry(c)}
  BY DEF Next, Step, TimePasses, LogCall, FlushCall, CloseCall, Lock, Buffer, Flush, Write, Fsync,
         Unlock, CloseFile, Return
<1>4. CASE returned' = returned
  BY <1>1, <1>4 DEF DoneInv
<1>5. ASSUME NEW c \in Callers, Return(c), op[c] = "log", returned' = returned \union {Entry(c)}
      PROVE  DoneInv'
  <2>1. Old(Entry(c), Before \union After)'
    BY <1>2, <1>5
  <2>2. Entry(c)' = Entry(c)
    BY <1>5 DEF Return, Entry
  <2>3. PICK e : e = Entry(c)
    OBVIOUS
  <2>4. Old(e, Before \union After)'
    BY <2>1, <2>2, <2>3 DEF Old
  <2> QED BY <1>1, <1>5, <2>3, <2>4 DEF DoneInv
<1> QED BY <1>3, <1>4, <1>5

\* The elements of a section of a sequence are at most as many as its places.
LEMMA FewInSection ==
  ASSUME NEW s, NEW n \in Nat, NEW m \in Nat, n =< m, NEW T,
         \A x \in T : \E i \in n + 1..m : x = s[i]
  PROVE  Few(T, m - n)
<1> DEFINE D == n + 1..m
           R == {s[i] : i \in D}
           f == [i \in D |-> s[i]]
<1>1. f \in Surjection(D, R)
  BY DEF Surjection
<1>2. IsFiniteSet(D) /\ Cardinality(D) = m - n
  <2>1. IsFiniteSet(D) /\ Cardinality(D) = IF n + 1 > m THEN 0 ELSE (m - (n + 1)) + 1
    <3>1. n + 1 \in Int /\ m \in Int
      OBVIOUS
    <3> QED BY <3>1, FS_Interval
  <2> HIDE DEF D
  <2> QED BY <2>1
<1>3. IsFiniteSet(R) /\ Cardinality(R) =< Cardinality(D)
  <2> HIDE DEF D, R, f
  <2> QED BY <1>1, <1>2, FS_Surjection
<1>4. Few(R, m - n)
  BY <1>2, <1>3 DEF Few
<1> HIDE DEF R
<1>5. T \subseteq R
  BY DEF R
<1> QED BY <1>4, <1>5, FewerOrOneMore

LEMMA AtMostN ==
  ASSUME BaseInv, LossInv, EveryNInv, DoneInv, tier = "FsyncEveryN", syncWriteErrors = 0
  PROVE  Few(returned \ Synced, FsyncEveryNCount - 1)
<1> USE SyncAssumption
<1> DEFINE T == returned \ Synced
<1>0. /\ written \in Seq(Entries) /\ buf \in Seq(Entries) /\ synced \in 0..Len(written)
      /\ Len(written) \in Nat /\ Len(buf) \in Nat /\ syncWriteCount \in 0..FsyncEveryNCount
  BY DEF BaseInv, TypeOK
<1>1. PICK s \in Seq(Entries) : s = Stream
  BY <1>0, ConcatProperties DEF Stream
<1>2. Len(s) >= Len(written) /\ Len(s) \in Nat /\ \A i \in 1..Len(written) : s[i] = written[i]
  BY <1>0, <1>1, ConcatProperties DEF Stream
<1>3. returned \subseteq ToSet(s)
  <2>1. IsFiniteSet(Missing) /\ Cardinality(Missing) = 0
    BY FS_CardinalityType DEF LossInv, Few
  <2>2. Missing = {}
    BY <2>1, FS_EmptySet
  <2> QED BY <1>1, <2>2 DEF Missing, Tried, Passed
<1>4. ASSUME NEW x \in T PROVE \E i \in synced + 1..Len(s) : x = s[i]
  <2>1. PICK i \in 1..Len(s) : x = s[i]
    BY <1>3, ElementsOf
  <2>2. ASSUME i \in 1..synced PROVE FALSE
    <3>1. x = written[i]
      BY <1>0, <1>2, <2>1, <2>2
    <3>2. x \in Synced
      BY <1>0, <2>2, <3>1, PrefixIs DEF Synced
    <3> QED BY <3>2
  <2> QED BY <1>0, <2>1, <2>2
<1>5. Len(s) - synced =< syncWriteCount
  BY <1>1 DEF EveryNInv
<1>6. CASE syncWriteCount < FsyncEveryNCount
  <2>1. \A x \in T : \E i \in synced + 1..Len(s) : x = s[i]
    BY <1>4
  <2>2. Few(T, Len(s) - synced)
    <3> HIDE DEF T
    <3>1. synced \in Nat /\ Len(s) \in Nat /\ synced =< Len(s)
      BY <1>0, <1>2
    <3> QED BY <2>1, <3>1, FewInSection, Zenon
  <2> HIDE DEF T
  <2>3. Len(s) - synced =< FsyncEveryNCount - 1 /\ Len(s) - synced \in Nat
    BY <1>0, <1>2, <1>5, <1>6
  <2>4. Few(T, FsyncEveryNCount - 1)
    BY <2>2, <2>3, FewWithin
  <2> QED BY <2>4 DEF T
<1>7. CASE syncWriteCount = FsyncEveryNCount
  <2>1. PICK c \in Callers : Logging(c, After) /\ Len(s) > 0 /\ s[Len(s)] = Entry(c)
    BY <1>1, <1>7 DEF EveryNInv
  <2>2. Entry(c) \notin returned
    <3>1. ASSUME Entry(c) \in returned PROVE FALSE
      <4>1. Logging(c, Before \union After) /\ calls[c] \in Int
        BY <2>1 DEF Logging, BaseInv, TypeOK
      <4>2. Entry(c)[1] = c /\ Entry(c)[2] = calls[c]
        BY DEF Entry
      <4> QED BY <3>1, <4>1, <4>2 DEF DoneInv, Old
    <3> QED BY <3>1
  <2> DEFINE m == IF synced = Len(s) THEN Len(s) ELSE Len(s) - 1
  <2>3. m \in Nat /\ synced =< m /\ m - synced =< FsyncEveryNCount - 1 /\ m - synced \in Nat
    BY <1>0, <1>2, <1>5, <1>7, <2>1
  <2>4. \A i \in synced + 1..Len(s) : i = Len(s) \/ i \in synced + 1..m
    BY <1>0, <1>2
  <2>5. \A x \in T : \E i \in synced + 1..m : x = s[i]
    BY <1>4, <2>1, <2>2, <2>4
  <2> HIDE DEF m, T
  <2>6. Few(T, m - synced)
    <3>1. synced \in Nat
      BY <1>0
    <3> QED BY <2>3, <2>5, <3>1, FewInSection, Zenon
  <2>7. Few(T, FsyncEveryNCount - 1)
    BY <2>3, <2>6, FewWithin
  <2> QED BY <2>7 DEF T
<1> QED BY <1>0, <1>6, <1>7

\* What a crash of the operating system may take: with FsyncEveryWrite at most as
\* many entries, of those whose call has returned, as errors were counted; with
\* FsyncEveryN fewer than N while there were no errors.
THEOREM CrashTakesNoMore == Spec => []TierKept
<1> DEFINE AllInv == BaseInv /\ LossInv /\ EveryWriteInv /\ EveryNInv /\ DoneInv
<1>1. AllInv => TierKept
  <2> SUFFICES ASSUME AllInv PROVE TierKept
    OBVIOUS
  <2>1. ASSUME tier = "FsyncEveryWrite" PROVE Cardinality(returned \ Synced) =< syncWriteErrors
    <3>1. returned \ Synced \subseteq AtRisk
      BY DEF AtRisk, PastSync, Passed
    <3> QED BY <2>1, <3>1, FewerOrOneMore DEF Few, EveryWriteInv, BaseInv, TypeOK
  <2>2. ASSUME tier = "FsyncEveryN", syncWriteErrors = 0
        PROVE  Cardinality(returned \ Synced) =< FsyncEveryNCount - 1
    BY <2>2, AtMostN DEF Few
  <2> QED BY <2>1, <2>2 DEF TierKept
<1>2. Init => AllInv
  BY BaseInit, LossInit, EveryWriteInit, EveryNInit DEF Init, DoneInv
<1>3. AllInv /\ [Next]_vars => AllInv'
  BY BaseStep, LossStep, EveryWriteStep, EveryNStep, DoneStep
<1> QED BY <1>1, <1>2, <1>3, PTL DEF Spec

-----------------------------------------------------------------------------
(* FlushCovers.                                                            *)

\* The places of a Flush or Close behind its flush, and behind its fsync.
Flushed == {"fsync", "unlock", "closefile", "return", "done"}
Fsynced == {"unlock", "closefile", "return", "done"}

Flushing(c, places) == op[c] \in {"flush", "close"} /\ pc[c] \in places

\* What the Flush or Close of c has brought to the file and to the disk.
Covered(c) ==
  /\ mark[c] \subseteq returned
  /\ Buffered /\ ~failed[c] /\ Flushing(c, Flushed) => mark[c] \subseteq ToSet(written)
  /\ tier = "FsyncEveryN" /\ syncWriteErrors = 0 /\ Flushing(c, Fsynced) => mark[c] \subseteq Synced

CoverInv == \A c \in Callers : Covered(c)

LEMMA Forward ==
  ASSUME BaseInv, [Next]_vars
  PROVE  /\ tier' = tier /\ returned \subseteq returned'
         /\ syncWriteErrors' = 0 => syncWriteErrors = 0
<1>1. tier' = tier /\ returned \subseteq returned'
  BY DEF Next, Step, TimePasses, LogCall, FlushCall, CloseCall, Lock, Buffer, Flush, Write, Fsync,
         Unlock, CloseFile, Return
<1>2. syncWriteErrors' = 0 => syncWriteErrors = 0
  BY TriedStep DEF Grows, BaseInv, TypeOK
<1> QED BY <1>1, <1>2

\* What is covered stays so, whoever moves.
LEMMA CoveredStays ==
  ASSUME BaseInv, [Next]_vars, NEW c \in Callers, Covered(c), mark'[c] = mark[c],
         ~failed'[c] => ~failed[c],
         Flushing(c, Flushed)' => Flushing(c, Flushed), Flushing(c, Fsynced)' => Flushing(c, Fsynced)
  PROVE  Covered(c)'
<1>1. Synced \subseteq Synced' /\ ToSet(written) \subseteq ToSet(written')
  BY SyncedGrows
<1>2. Buffered' <=> Buffered
  BY Forward DEF Buffered
<1> QED BY <1>1, <1>2, Forward DEF Covered

\* With nothing lost, all that has returned is on its way.
LEMMA NothingLost ==
  ASSUME LossInv, syncWriteErrors \in Nat, (Buffered /\ ~broken) \/ syncWriteErrors = 0
  PROVE  returned \subseteq ToSet(Stream)
<1>1. IsFiniteSet(Missing) /\ Cardinality(Missing) \in Nat /\ Cardinality(Missing) =< syncWriteErrors
  BY FS_CardinalityType DEF LossInv, Few
<1>2. syncWriteErrors = 0 => Missing = {}
  BY <1>1, FS_EmptySet
<1>3. Missing = {}
  BY <1>2 DEF LossInv
<1> QED BY <1>3 DEF Missing, Tried, Passed

LEMMA CoverStep ==
  ASSUME BaseInv, LossInv, EveryNInv, CoverInv, [Next]_vars
  PROVE  CoverInv'
<1>0. /\ pc \in [Callers -> {"idle", "lock", "buffer", "flush", "write", "fsync", "unlock",
                             "closefile", "return", "done"}]
      /\ op \in [Callers -> {"log", "flush", "close"}]
      /\ failed \in [Callers -> BOOLEAN] /\ mark \in [Callers -> SUBSET Entries]
      /\ syncWriteErrors \in Nat
  BY DEF BaseInv, TypeOK
<1>1. ASSUME NEW c \in Callers, UNCHANGED <<mark, failed, pc, op>> PROVE Covered(c)'
  BY <1>1, CoveredStays DEF CoverInv, Flushing
<1>2. ASSUME NEW c \in Callers, NEW d \in Callers, c # d,
             LogCall(d) \/ FlushCall(d) \/ CloseCall(d) \/ Step(d)
      PROVE  Covered(c)'
  <2>1. OthersStay(d) /\ mark'[c] = mark[c] /\ failed'[c] = failed[c]
    <3>1. OthersStay(d)
      <4>1. CASE LogCall(d) \/ FlushCall(d) \/ CloseCall(d)
        BY <1>0, <4>1 DEF LogCall, FlushCall, CloseCall, OthersStay, BaseInv, TypeOK
      <4>2. ASSUME Step(d) PROVE op' = op /\ calls' = calls /\ \E place : pc' = [pc EXCEPT ![d] = place]
        BY <4>2 DEF Step, Lock, Buffer, Flush, Write, Fsync, Unlock, CloseFile, Return
      <4>3. CASE Step(d)
        BY <1>0, <4>2, <4>3 DEF OthersStay
      <4> QED BY <1>2, <4>1, <4>3
    <3>2. mark'[c] = mark[c]
      BY <1>0, <1>2 DEF Step, LogCall, FlushCall, CloseCall, Lock, Buffer, Flush, Write, Fsync,
                        Unlock, CloseFile, Return
    <3>3. CASE LogCall(d) \/ FlushCall(d) \/ CloseCall(d) \/ Lock(d) \/ Unlock(d) \/ CloseFile(d)
               \/ Return(d)
      <4>1. failed'[c] = failed[c]
        BY <1>0, <1>2, <3>3 DEF LogCall, FlushCall, CloseCall, Lock, Unlock, CloseFile, Return
      <4> QED BY <3>1, <3>2, <4>1
    <3>4. CASE Buffer(d) \/ Write(d)
      <4>1. Entry(d) \in Entries
        BY <3>4, EntryType DEF BaseInv, Buffer, Write
      <4>2. Takes(d)
        BY <3>4, <4>1, BufferEffect, WriteEffect DEF BaseInv
      <4>3. failed'[c] = failed[c]
        BY <1>0, <1>2, <4>2 DEF Takes
      <4> QED BY <3>1, <3>2, <4>3
    <3>5. CASE Flush(d) \/ Fsync(d)
      <4>1. failed' = failed \/ failed' = [failed EXCEPT ![d] = TRUE]
        BY <3>5, FlushEffect, FsyncEffect DEF BaseInv
      <4>2. failed'[c] = failed[c]
        BY <1>0, <1>2, <4>1
      <4> QED BY <3>1, <3>2, <4>2
    <3> QED BY <1>2, <3>3, <3>4, <3>5 DEF Step
  <2> QED BY <1>2, <2>1, CoveredStays DEF CoverInv, Flushing, OthersStay
<1>3. ASSUME NEW c \in Callers, LogCall(c) \/ Lock(c) \/ Buffer(c) \/ Write(c) PROVE Covered(c)'
  <2>1. mark' = mark /\ ~Flushing(c, Flushed)' /\ ~Flushing(c, Fsynced)'
    BY <1>0, <1>3 DEF LogCall, Lock, Buffer, Write, Flushing, Flushed, Fsynced, BaseInv, Places
  <2> QED BY <2>1, Forward DEF CoverInv, Covered
<1>4. ASSUME NEW c \in Callers, FlushCall(c) \/ CloseCall(c) PROVE Covered(c)'
  <2>1. mark'[c] = returned
    BY <1>0, <1>4 DEF FlushCall, CloseCall
  <2>2. Buffered' => pc'[c] = "lock"
    BY <1>0, <1>4, Forward DEF FlushCall, CloseCall, AfterCloseCall, Buffered
  <2> QED BY <2>1, <2>2, Forward DEF Covered, Flushing, Flushed, Fsynced, Buffered
<1>5. ASSUME NEW c \in Callers, Unlock(c) \/ CloseFile(c) \/ Return(c) PROVE Covered(c)'
  <2>1. /\ mark' = mark /\ failed' = failed
        /\ Flushing(c, Flushed)' => Flushing(c, Flushed)
        /\ Flushing(c, Fsynced)' => Flushing(c, Fsynced)
    BY <1>0, <1>5 DEF Unlock, CloseFile, Return, Flushing, Flushed, Fsynced
  <2> QED BY <2>1, CoveredStays DEF CoverInv
<1>6. ASSUME NEW c \in Callers, Flush(c) PROVE Covered(c)'
  <2>1. pc[c] = "flush" /\ mark' = mark /\ returned' = returned /\ Buffered
    BY <1>6 DEF Flush, BaseInv, Places
  <2>2. ~Flushing(c, Fsynced)' \/ tier' # "FsyncEveryN"
    BY <1>0, <1>6 DEF Flush, Flushing, Fsynced
  <2>3. ASSUME ~failed'[c] PROVE mark'[c] \subseteq ToSet(written')
    <3>1. ~broken' /\ ~broken /\ buf' = <<>> /\ Stream' = Stream /\ written' \in Seq(Entries)
      <4>1. broken' => failed'[c]
        BY <1>0, <1>6, FlushEffect DEF BaseInv
      <4>2. Grows /\ Stream' = Stream /\ written' \in Seq(Entries) /\ (~broken' => buf' = <<>>)
        BY <1>6, FlushEffect DEF BaseInv
      <4> QED BY <2>3, <4>1, <4>2 DEF Grows
    <3>2. Stream' = written'
      BY <3>1, ConcatEmptySeq DEF Stream
    <3>3. returned \subseteq ToSet(Stream)
      BY <1>0, <2>1, <3>1, NothingLost
    <3> QED BY <2>1, <3>1, <3>2, <3>3 DEF CoverInv, Covered
  <2> QED BY <2>1, <2>2, <2>3 DEF CoverInv, Covered
<1>7. ASSUME NEW c \in Callers, Fsync(c) PROVE Covered(c)'
  <2>1. /\ pc[c] = "fsync" /\ mark' = mark /\ returned' = returned /\ written' = written /\ op' = op
        /\ tier' = tier
    BY <1>7 DEF Fsync
  <2>2. ~failed'[c] => ~failed[c]
    BY <1>0, <1>7, FsyncEffect DEF BaseInv
  <2>3. Flushing(c, Flushed)' => Flushing(c, Flushed)
    BY <2>1 DEF Flushing, Flushed
  <2>4. ASSUME tier = "FsyncEveryN", syncWriteErrors' = 0 PROVE mark'[c] \subseteq Synced'
    <3>1. syncWriteErrors = 0 /\ synced' = Len(written)
      BY <1>0, <1>7, <2>4, FsyncEffect DEF BaseInv
    <3>2. buf = <<>> /\ written \in Seq(Entries)
      BY <2>1, <2>4, <3>1 DEF EveryNInv, BaseInv, TypeOK
    <3>3. Stream = written
      BY <3>2, ConcatEmptySeq DEF Stream
    <3>4. Synced' = ToSet(written)
      <4>1. SubSeq(written', 1, synced') = written
        BY <2>1, <3>1, <3>2, SubSeqFull
      <4> QED BY <4>1 DEF Synced
    <3>5. returned \subseteq ToSet(Stream)
      BY <1>0, <3>1, NothingLost
    <3> QED BY <2>1, <3>3, <3>4, <3>5 DEF CoverInv, Covered
  <2>5. Buffered' <=> Buffered
    BY <2>1 DEF Buffered
  <2> QED BY <2>1, <2>2, <2>3, <2>4, <2>5 DEF CoverInv, Covered
<1>8. ASSUME NEW c \in Callers, NEW d \in Callers, LogCall(d) \/ FlushCall(d) \/ CloseCall(d) \/ Step(d)
      PROVE  Covered(c)'
  BY <1>2, <1>3, <1>4, <1>5, <1>6, <1>7, <1>8 DEF Step
<1>9. (TimePasses \/ UNCHANGED vars) => UNCHANGED <<mark, failed, pc, op>>
  BY DEF TimePasses
<1> QED BY <1>1, <1>8, <1>9 DEF Next, CoverInv

\* A Flush, or the Close, of a buffered tier that met no error has brought what
\* had returned before it to the file, and to the disk with FsyncEveryN.
THEOREM FlushesCover == Spec => []FlushCovers
<1> DEFINE AllInv == BaseInv /\ LossInv /\ EveryNInv /\ CoverInv
<1>1. AllInv => FlushCovers
  BY DEF BaseInv, Places, CoverInv, Covered, Flushing, Flushed, Fsynced, FlushCovers
<1>2. Init => AllInv
  BY BaseInit, LossInit, EveryNInit DEF Init, CoverInv, Covered, Flushing, Flushed, Fsynced
<1>3. AllInv /\ [Next]_vars => AllInv'
  BY BaseStep, LossStep, EveryNStep, CoverStep
<1> QED BY <1>1, <1>2, <1>3, PTL DEF Spec
=============================================================================
