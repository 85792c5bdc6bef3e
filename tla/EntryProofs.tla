----------------------------- MODULE EntryProofs -----------------------------
(***************************************************************************)
(* Theorems about what an Entry carries.  EntryPool, for any callers,      *)
(* entries, buffers and channel size: what is reused never carries one     *)
(* call's data into another's line.  SlogAdapter, for any attributes and   *)
(* groups, of any depth, and any number of handlers: the fields of a       *)
(* record are those that were bound and given, and no derivation of a      *)
(* handler changes what another one logs.  LineFormat and LineReader, for  *)
(* any text: the escapers keep it on its line, and a decoder reads it.     *)
(***************************************************************************)
EXTENDS EntryPool, SlogAdapter, FoldLemmas

USE DEF objects, buffers, caller, worker, history

-----------------------------------------------------------------------------
(* EntryPool: types. *)

CallIds    == Callers \X Nat
FieldLists == {<<>>} \cup {<<id>> : id \in CallIds}
Requests   == [head : CallIds \cup {NoCall}, fields : FieldLists]
Contents   == [head : CallIds \cup {NoCall}, Fields : FieldLists, FieldsV : FieldLists]

PoolTypeOK ==
  /\ entry \in [Entries -> Contents] /\ inPool \subseteq Entries
  /\ logCh \in Seq(Entries)
  /\ buffer \in [Buffers -> FieldLists] /\ lent \subseteq Buffers
  /\ pc \in [Callers -> {"idle", "handle", "send", "blocked", "drop", "return"}]
  /\ calls \in [Callers -> Nat]
  /\ request \in [Callers -> Requests]
  /\ mine \in [Callers -> Entries \cup {NoEntry}]
  /\ bp \in [Callers -> Buffers \cup {NoBuffer}]
  /\ wpc \in {"idle", "format", "recycle"} /\ held \in Entries \cup {NoEntry}
  /\ meant \in [Entries -> Requests]

-----------------------------------------------------------------------------
(* EntryPool: the inductive invariant. *)

\* Who has an Entry or a buffer is seen from where he is.
Holding ==
  /\ \A p \in Callers :
       /\ pc[p] \in {"send", "blocked", "drop"} <=> mine[p] # NoEntry
       /\ pc[p] \in {"handle", "return"} => bp[p] # NoBuffer
  /\ wpc = "idle" <=> held = NoEntry

\* An Entry is in one place only.
Apart ==
  /\ \A i, j \in 1..Len(logCh) : logCh[i] = logCh[j] => i = j
  /\ \A i \in 1..Len(logCh) :
       /\ logCh[i] \notin inPool /\ logCh[i] # held
       /\ \A p \in Callers : logCh[i] # mine[p]
  /\ held \notin inPool
  /\ \A p \in Callers :
       /\ mine[p] \notin inPool
       /\ mine[p] # NoEntry => mine[p] # held
       /\ \A q \in Callers : mine[p] = mine[q] /\ mine[p] # NoEntry => p = q

\* A field buffer is lent to one Handle.
BuffersApart ==
  \A p, q \in Callers :
    bp[p] # NoBuffer => bp[p] \in lent /\ (bp[p] = bp[q] => p = q)

\* What lies in the pool is blank; what is in use has what its call had to log.
Intact ==
  /\ \A e \in inPool : entry[e] = Blank
  /\ \A p \in Callers :
       /\ pc[p] \in {"send", "blocked", "drop"} => Rendering(entry[mine[p]]) = request[p]
       /\ pc[p] = "handle" => buffer[bp[p]] = request[p].fields
  /\ \A i \in 1..Len(logCh) : Rendering(entry[logCh[i]]) = meant[logCh[i]]
  /\ wpc = "format" => Rendering(entry[held]) = meant[held]

PoolInv == PoolTypeOK /\ Holding /\ Apart /\ BuffersApart /\ Intact

-----------------------------------------------------------------------------
(* EntryPool: lemmas. *)

LEMMA Appended ==
  ASSUME NEW S, NEW s \in Seq(S), NEW x \in S
  PROVE  /\ Append(s, x) \in Seq(S) /\ Len(Append(s, x)) = Len(s) + 1
         /\ \A i \in 1..Len(s) : Append(s, x)[i] = s[i]
         /\ Append(s, x)[Len(s) + 1] = x
OBVIOUS

LEMMA NothingIsBlank ==
  /\ Blank \in Contents /\ Nothing \in Requests
BY DEF Blank, Nothing, Contents, Requests, FieldLists

\* An Entry that may be taken is nobody's, and blank.
LEMMA Taken ==
  ASSUME PoolInv, NEW e \in Entries, Available(e)
  PROVE  /\ \A p \in Callers : mine[p] # e
         /\ \A i \in 1..Len(logCh) : logCh[i] # e
         /\ held # e /\ Got(e) = Blank
<1>1. CASE e \in inPool
  BY <1>1 DEF PoolInv, Apart, Intact, Got
<1>2. CASE e \notin inPool
  BY <1>2 DEF Available, InUse, Got
<1> QED BY <1>1, <1>2

\* What is put into it is what the formatter reads from it.
LEMMA Filled ==
  ASSUME NEW r \in Requests
  PROVE  LET c == [[Blank EXCEPT !.Fields = r.fields] EXCEPT !.head = r.head]
             v == [[Blank EXCEPT !.FieldsV = r.fields] EXCEPT !.head = r.head]
         IN  c \in Contents /\ v \in Contents /\ Rendering(c) = r /\ Rendering(v) = r
<1>1. r = [head |-> r.head, fields |-> r.fields] /\ r.head \in CallIds \cup {NoCall} /\ r.fields \in FieldLists
  BY DEF Requests
<1>2. <<>> \in FieldLists
  BY DEF FieldLists
<1> DEFINE c == [head |-> r.head, Fields |-> r.fields, FieldsV |-> <<>>]
           v == [head |-> r.head, Fields |-> <<>>, FieldsV |-> r.fields]
<1>3. /\ c = [[Blank EXCEPT !.Fields = r.fields] EXCEPT !.head = r.head]
      /\ v = [[Blank EXCEPT !.FieldsV = r.fields] EXCEPT !.head = r.head]
  <2> DEFINE a == [head |-> NoCall, Fields |-> r.fields, FieldsV |-> <<>>]
             b == [head |-> NoCall, Fields |-> <<>>, FieldsV |-> r.fields]
  <2>1. a = [Blank EXCEPT !.Fields = r.fields] /\ b = [Blank EXCEPT !.FieldsV = r.fields]
    BY DEF Blank
  <2>2. c = [a EXCEPT !.head = r.head] /\ v = [b EXCEPT !.head = r.head]
    OBVIOUS
  <2> HIDE DEF a, b, c, v
  <2> QED BY <2>1, <2>2
<1>4. c \in Contents /\ v \in Contents
  BY <1>1, <1>2 DEF Contents
<1>5. Rendering(c) = r
  BY <1>1 DEF Rendering
<1>6. Rendering(v) = r
  BY <1>1 DEF Rendering
<1> QED BY <1>3, <1>4, <1>5, <1>6

\* A call takes an Entry and fills it: what Log, LogTyped and HandleLogs share.
LEMMA FillKeeps ==
  ASSUME PoolInv, NEW p \in Callers, NEW e \in Entries, NEW c \in Contents,
         NEW r \in Requests, Rendering(c) = r,
         pc[p] \in {"idle", "handle"}, pc' = [pc EXCEPT ![p] = "send"],
         Available(e), inPool' = inPool \ {e}, entry' = [entry EXCEPT ![e] = c],
         mine' = [mine EXCEPT ![p] = e],
         request' = [request EXCEPT ![p] = r], calls' \in [Callers -> Nat],
         UNCHANGED <<logCh, buffers, worker, history>>
  PROVE  PoolInv'
<1>0. NoEntry \notin Entries /\ NoBuffer \notin Buffers
  BY PoolAssumption
<1>1. /\ \A q \in Callers : mine[q] # e
      /\ \A i \in 1..Len(logCh) : logCh[i] # e
      /\ held # e
  BY Taken
<1>2. PoolTypeOK
  BY DEF PoolInv
<1>4. PoolTypeOK'
  BY <1>2 DEF PoolTypeOK
<1>5. Holding'
  BY <1>0, <1>2 DEF PoolInv, PoolTypeOK, Holding
<1>6. Apart'
  BY <1>0, <1>1, <1>2 DEF PoolInv, PoolTypeOK, Holding, Apart
<1>7. BuffersApart'
  BY DEF PoolInv, BuffersApart
<1>8. Intact'
  <2>1. \A x \in inPool' : entry'[x] = Blank
    BY <1>2 DEF PoolInv, PoolTypeOK, Intact
  <2>2. ASSUME NEW q \in Callers
        PROVE  /\ pc'[q] \in {"send", "blocked", "drop"} => Rendering(entry'[mine'[q]]) = request'[q]
               /\ pc'[q] = "handle" => buffer'[bp'[q]] = request'[q].fields
    <3>1. CASE q = p
      <4>1. mine'[q] = e /\ entry'[e] = c /\ request'[q] = r /\ pc'[q] = "send"
        BY <1>2, <3>1 DEF PoolTypeOK
      <4> QED BY <4>1
    <3>2. CASE q # p
      <4>1. mine'[q] = mine[q] /\ request'[q] = request[q] /\ pc'[q] = pc[q]
        BY <1>2, <3>2 DEF PoolTypeOK
      <4>2. mine[q] # NoEntry => entry'[mine[q]] = entry[mine[q]]
        BY <1>1, <1>2 DEF PoolTypeOK
      <4> QED BY <4>1, <4>2 DEF PoolInv, Intact, Holding
    <3> QED BY <3>1, <3>2
  <2>3. \A i \in 1..Len(logCh') : Rendering(entry'[logCh'[i]]) = meant'[logCh'[i]]
    <3> SUFFICES ASSUME NEW i \in 1..Len(logCh)
                 PROVE  Rendering(entry'[logCh[i]]) = meant[logCh[i]]
      OBVIOUS
    <3>1. logCh[i] \in Entries /\ logCh[i] # e
      BY <1>1, <1>2, ElementOfSeq DEF PoolTypeOK
    <3>2. entry'[logCh[i]] = entry[logCh[i]]
      BY <1>2, <3>1 DEF PoolTypeOK
    <3> QED BY <3>2 DEF PoolInv, Intact
  <2>4. wpc' = "format" => Rendering(entry'[held']) = meant'[held']
    BY <1>0, <1>1, <1>2 DEF PoolInv, PoolTypeOK, Holding, Intact
  <2> QED BY <2>1, <2>2, <2>3, <2>4 DEF Intact
<1> QED BY <1>4, <1>5, <1>6, <1>7, <1>8 DEF PoolInv

LEMMA AskedOnce ==
  ASSUME PoolInv, NEW p \in Callers, Ask(p)
  PROVE  /\ pc[p] = "idle" /\ calls' \in [Callers -> Nat]
         /\ \E r \in Requests : request' = [request EXCEPT ![p] = r] /\ request'[p] = r
<1>1. PoolTypeOK
  BY DEF PoolInv
<1>2. <<p, calls[p] + 1>> \in CallIds
  BY <1>1 DEF PoolTypeOK, CallIds
<1>3. PICK fs \in FieldLists :
        request' = [request EXCEPT ![p] = [head |-> <<p, calls[p] + 1>>, fields |-> fs]]
  BY <1>2 DEF Ask, FieldLists
<1>4. PICK r \in Requests : r = [head |-> <<p, calls[p] + 1>>, fields |-> fs]
  BY <1>2 DEF Requests
<1>5. request' = [request EXCEPT ![p] = r] /\ request'[p] = r
  BY <1>1, <1>3, <1>4 DEF PoolTypeOK
<1>6. pc[p] = "idle" /\ calls' \in [Callers -> Nat]
  BY <1>1 DEF Ask, PoolTypeOK
<1> QED BY <1>5, <1>6

LEMMA LogKeeps ==
  ASSUME PoolInv, NEW p \in Callers, Log(p) \/ LogTyped(p) \/ HandleLogs(p)
  PROVE  PoolInv'
<1>1. ASSUME NEW e \in Entries, NEW r \in Requests, pc[p] \in {"idle", "handle"},
             Goto(p, "send"), calls' \in [Callers -> Nat],
             request' = [request EXCEPT ![p] = r], request'[p] = r,
             FillFields(p, e, r.fields) \/ FillFieldsV(p, e, r.fields),
             UNCHANGED <<logCh, buffers, worker, history>>
      PROVE  PoolInv'
  <2>1. Available(e) /\ Got(e) = Blank
    BY <1>1, Taken DEF FillFields, FillFieldsV, Fill
  <2>2. PICK c \in Contents :
          /\ Rendering(c) = r /\ entry' = [entry EXCEPT ![e] = c]
          /\ inPool' = inPool \ {e} /\ mine' = [mine EXCEPT ![p] = e]
    <3>1. CASE FillFields(p, e, r.fields)
      <4>1. /\ entry' = [entry EXCEPT ![e] =
                            [[Blank EXCEPT !.Fields = r.fields] EXCEPT !.head = r.head]]
            /\ inPool' = inPool \ {e} /\ mine' = [mine EXCEPT ![p] = e]
        BY <1>1, <2>1, <3>1 DEF FillFields, Fill
      <4> QED BY <4>1, Filled
    <3>2. CASE FillFieldsV(p, e, r.fields)
      <4>1. /\ entry' = [entry EXCEPT ![e] =
                            [[Blank EXCEPT !.FieldsV = r.fields] EXCEPT !.head = r.head]]
            /\ inPool' = inPool \ {e} /\ mine' = [mine EXCEPT ![p] = e]
        BY <1>1, <2>1, <3>2 DEF FillFieldsV, Fill
      <4> QED BY <4>1, Filled
    <3> QED BY <1>1, <3>1, <3>2
  <2>3. pc' = [pc EXCEPT ![p] = "send"]
    BY <1>1 DEF Goto
  <2> QED BY <1>1, <2>1, <2>2, <2>3, FillKeeps
<1>2. CASE Log(p) \/ LogTyped(p)
  <2>1. PICK e \in Entries :
          /\ Ask(p) /\ Goto(p, "send") /\ UNCHANGED <<logCh, buffers, worker, history>>
          /\ FillFields(p, e, request'[p].fields) \/ FillFieldsV(p, e, request'[p].fields)
    BY <1>2 DEF Log, LogTyped
  <2>2. PICK r \in Requests : request' = [request EXCEPT ![p] = r] /\ request'[p] = r
    BY <2>1, AskedOnce
  <2>3. FillFields(p, e, r.fields) \/ FillFieldsV(p, e, r.fields)
    BY <2>1, <2>2 DEF FillFields, FillFieldsV, Fill
  <2> QED BY <1>1, <2>1, <2>2, <2>3, AskedOnce
<1>3. CASE HandleLogs(p)
  <2>1. PICK e \in Entries : FillFieldsV(p, e, buffer[bp[p]])
    BY <1>3 DEF HandleLogs
  <2>2. PICK r \in Requests : r = request[p]
    BY DEF PoolInv, PoolTypeOK
  <2>3. /\ buffer[bp[p]] = r.fields /\ calls' \in [Callers -> Nat]
        /\ request' = [request EXCEPT ![p] = r] /\ request'[p] = r
    BY <1>3, <2>2 DEF HandleLogs, PoolInv, PoolTypeOK, Intact
  <2>4. FillFieldsV(p, e, r.fields)
    BY <2>1, <2>3 DEF FillFieldsV, Fill
  <2>5. /\ pc[p] \in {"idle", "handle"} /\ Goto(p, "send")
        /\ UNCHANGED <<logCh, buffers, worker, history>>
    BY <1>3 DEF HandleLogs
  <2> QED BY <1>1, <2>3, <2>4, <2>5
<1> QED BY <1>2, <1>3

\* SlogHandler.Handle borrows a buffer that is not lent, and returns it.
LEMMA HandleKeeps ==
  ASSUME PoolInv, NEW p \in Callers, Handle(p) \/ HandleRefused(p) \/ ReturnBuffer(p)
  PROVE  PoolInv'
<1> USE DEF Goto
<1>0. NoEntry \notin Entries /\ NoBuffer \notin Buffers
  BY PoolAssumption
<1>1. PoolTypeOK
  BY DEF PoolInv
<1>2. CASE Handle(p)
  <2>1. PICK b \in Buffers \ lent :
          /\ Ask(p) /\ pc' = [pc EXCEPT ![p] = "handle"]
          /\ lent' = lent \cup {b} /\ bp' = [bp EXCEPT ![p] = b]
          /\ buffer' = [buffer EXCEPT ![b] = request'[p].fields]
          /\ UNCHANGED <<objects, mine, worker, history>>
    BY <1>2 DEF Handle
  <2>2. PICK r \in Requests : request' = [request EXCEPT ![p] = r] /\ request'[p] = r
    BY <2>1, AskedOnce
  <2>3. pc[p] = "idle" /\ calls' \in [Callers -> Nat]
    BY <2>1, AskedOnce
  <2>4. r.fields \in FieldLists
    BY DEF Requests
  <2>5. PoolTypeOK'
    BY <1>1, <2>1, <2>2, <2>3, <2>4 DEF PoolTypeOK
  <2>6. Holding'
    BY <1>0, <1>1, <2>1, <2>3 DEF PoolInv, PoolTypeOK, Holding
  <2>7. Apart'
    BY <2>1 DEF PoolInv, Apart
  <2>8. BuffersApart'
    BY <1>0, <1>1, <2>1 DEF PoolInv, PoolTypeOK, BuffersApart
  <2>9. Intact'
    <3>1. ASSUME NEW q \in Callers
          PROVE  /\ pc'[q] \in {"send", "blocked", "drop"} => Rendering(entry'[mine'[q]]) = request'[q]
                 /\ pc'[q] = "handle" => buffer'[bp'[q]] = request'[q].fields
      <4>1. CASE q = p
        BY <1>1, <2>1, <2>2, <4>1 DEF PoolTypeOK
      <4>2. CASE q # p
        <5>1. pc'[q] = pc[q] /\ bp'[q] = bp[q] /\ request'[q] = request[q]
          BY <1>1, <2>1, <2>2, <4>2 DEF PoolTypeOK
        <5>2. pc[q] = "handle" => bp[q] \in lent /\ buffer'[bp[q]] = buffer[bp[q]]
          BY <1>1, <2>1 DEF PoolTypeOK, PoolInv, Holding, BuffersApart
        <5> QED BY <2>1, <5>1, <5>2 DEF PoolInv, Intact
      <4> QED BY <4>1, <4>2
    <3> QED BY <2>1, <3>1 DEF PoolInv, Intact
  <2> QED BY <2>5, <2>6, <2>7, <2>8, <2>9 DEF PoolInv
<1>3. CASE HandleRefused(p)
  <2>1. PoolTypeOK' /\ Holding'
    BY <1>3, <1>1 DEF HandleRefused, PoolInv, PoolTypeOK, Holding
  <2>2. Apart' /\ BuffersApart'
    BY <1>3 DEF HandleRefused, PoolInv, Apart, BuffersApart
  <2>3. Intact'
    BY <1>3, <1>1 DEF HandleRefused, PoolInv, PoolTypeOK, Intact
  <2> QED BY <2>1, <2>2, <2>3 DEF PoolInv
<1>4. CASE ReturnBuffer(p)
  <2>1. bp[p] \in Buffers /\ pc[p] = "return" /\ pc' = [pc EXCEPT ![p] = "idle"]
    BY <1>4, <1>1 DEF ReturnBuffer, PoolInv, PoolTypeOK, Holding
  <2>2. PoolTypeOK'
    BY <1>4, <1>1, <2>1 DEF ReturnBuffer, PoolTypeOK, FieldLists
  <2>3. Holding'
    BY <1>4, <1>1, <2>1 DEF ReturnBuffer, PoolInv, PoolTypeOK, Holding
  <2>4. Apart'
    BY <1>4 DEF ReturnBuffer, PoolInv, Apart
  <2>5. BuffersApart'
    BY <1>4, <1>1, <2>1 DEF ReturnBuffer, PoolInv, PoolTypeOK, BuffersApart
  <2>6. Intact'
    <3>1. ASSUME NEW q \in Callers
          PROVE  /\ pc'[q] \in {"send", "blocked", "drop"} => Rendering(entry'[mine'[q]]) = request'[q]
                 /\ pc'[q] = "handle" => buffer'[bp'[q]] = request'[q].fields
      <4>1. CASE q = p
        BY <1>1, <2>1, <4>1 DEF PoolTypeOK
      <4>2. CASE q # p
        <5>1. pc'[q] = pc[q] /\ bp'[q] = bp[q] /\ request' = request /\ mine' = mine
          BY <1>4, <1>1, <2>1, <4>2 DEF ReturnBuffer, PoolTypeOK
        <5>2. bp[q] # bp[p]
          BY <2>1, <4>2, <1>0 DEF PoolInv, BuffersApart
        <5>3. pc[q] = "handle" => bp[q] \in Buffers /\ buffer'[bp[q]] = buffer[bp[q]]
          BY <1>4, <1>1, <5>2 DEF ReturnBuffer, PoolTypeOK, PoolInv, Holding
        <5> QED BY <1>4, <5>1, <5>3 DEF ReturnBuffer, PoolInv, Intact
      <4> QED BY <4>1, <4>2
    <3> QED BY <1>4, <3>1 DEF ReturnBuffer, PoolInv, Intact
  <2> QED BY <2>2, <2>3, <2>4, <2>5, <2>6 DEF PoolInv
<1> QED BY <1>2, <1>3, <1>4

\* Finding the channel full, and the timeout of an ERROR entry.
LEMMA WaitKeeps ==
  ASSUME PoolInv, NEW p \in Callers, Full(p) \/ BlockTimeout(p)
  PROVE  PoolInv'
<1>1. PICK place \in {"blocked", "drop"} :
        /\ pc[p] \in {"send", "blocked"} /\ pc' = [pc EXCEPT ![p] = place]
        /\ UNCHANGED <<objects, buffers, caller, mine, worker, history>>
  BY DEF Full, BlockTimeout, Goto
<1>2. PoolTypeOK' /\ Holding'
  BY <1>1 DEF PoolInv, PoolTypeOK, Holding
<1>3. Apart' /\ BuffersApart'
  BY <1>1 DEF PoolInv, Apart, BuffersApart
<1>4. Intact'
  BY <1>1 DEF PoolInv, PoolTypeOK, Intact
<1> QED BY <1>2, <1>3, <1>4 DEF PoolInv

\* The Entry goes from the caller to the channel, and its call with it.
LEMMA SendKeeps ==
  ASSUME PoolInv, NEW p \in Callers, Send(p)
  PROVE  PoolInv'
<1>0. NoEntry \notin Entries /\ NoBuffer \notin Buffers
  BY PoolAssumption
<1>1. PoolTypeOK
  BY DEF PoolInv
<1>2. PICK place \in {"idle", "return"} :
        /\ pc' = [pc EXCEPT ![p] = place] /\ (place = "return" => bp[p] # NoBuffer)
        /\ mine' = [mine EXCEPT ![p] = NoEntry]
  BY DEF Send, Return, Goto, AfterDispatch
<1>3. PICK e \in Entries : e = mine[p]
  BY <1>1 DEF Send, PoolTypeOK, PoolInv, Holding
<1>4. /\ pc[p] \in {"send", "blocked"} /\ logCh' = Append(logCh, e)
      /\ meant' = [meant EXCEPT ![e] = request[p]]
      /\ UNCHANGED <<entry, inPool, buffers, caller, worker, line>>
  BY <1>3 DEF Send
<1> DEFINE n == Len(logCh)
<1>5. /\ logCh' \in Seq(Entries) /\ Len(logCh') = n + 1 /\ logCh'[n + 1] = e
      /\ \A i \in 1..n : logCh'[i] = logCh[i]
  BY <1>1, <1>4, Appended DEF PoolTypeOK
<1>6. n \in Nat
  BY <1>1, LenProperties DEF PoolTypeOK
<1>7. \A i \in 1..n : logCh[i] # e /\ logCh[i] \in Entries
  BY <1>1, <1>3, ElementOfSeq DEF PoolTypeOK, PoolInv, Apart
<1>8. e \notin inPool /\ e # held
  BY <1>0, <1>3 DEF PoolInv, Apart
<1> HIDE DEF n
<1>9. PoolTypeOK'
  <2>1. request[p] \in Requests
    BY <1>1 DEF PoolTypeOK
  <2> QED BY <1>1, <1>2, <1>4, <1>5, <2>1 DEF PoolTypeOK
<1>10. Holding'
  BY <1>0, <1>1, <1>2, <1>4 DEF PoolInv, PoolTypeOK, Holding
<1>11. Apart'
  <2>1. \A i \in 1..(n + 1) : i \in 1..n \/ i = n + 1
    BY <1>6
  <2>2. \A q \in Callers : mine'[q] # e
    BY <1>0, <1>1, <1>2, <1>3 DEF PoolTypeOK, PoolInv, Apart
  <2>3. \A i, j \in 1..Len(logCh') : logCh'[i] = logCh'[j] => i = j
    BY <1>5, <1>7, <2>1 DEF PoolInv, Apart, n
  <2>4. ASSUME NEW i \in 1..Len(logCh')
        PROVE  /\ logCh'[i] \notin inPool' /\ logCh'[i] # held'
               /\ \A q \in Callers : logCh'[i] # mine'[q]
    <3>1. CASE i = n + 1
      BY <1>4, <1>5, <1>8, <2>2, <3>1
    <3>2. CASE i \in 1..n
      <4>1. logCh'[i] = logCh[i] /\ logCh[i] \in Entries
        BY <1>5, <1>7, <3>2
      <4>2. /\ logCh[i] \notin inPool /\ logCh[i] # held
            /\ \A q \in Callers : logCh[i] # mine[q]
        BY <3>2 DEF PoolInv, Apart, n
      <4> QED BY <1>0, <1>1, <1>2, <1>4, <4>1, <4>2 DEF PoolTypeOK
    <3> QED BY <1>5, <2>1, <3>1, <3>2
  <2>5. \A q \in Callers :
          /\ mine'[q] \notin inPool'
          /\ mine'[q] # NoEntry => mine'[q] # held'
          /\ \A r \in Callers : mine'[q] = mine'[r] /\ mine'[q] # NoEntry => q = r
    BY <1>0, <1>1, <1>2, <1>4 DEF PoolInv, PoolTypeOK, Apart
  <2>6. held' \notin inPool'
    BY <1>4 DEF PoolInv, Apart
  <2> QED BY <2>3, <2>4, <2>5, <2>6 DEF Apart
<1>12. BuffersApart'
  BY <1>4 DEF PoolInv, BuffersApart
<1>13. Intact'
  <2>1. \A x \in inPool' : entry'[x] = Blank
    BY <1>4 DEF PoolInv, Intact
  <2>2. ASSUME NEW q \in Callers
        PROVE  /\ pc'[q] \in {"send", "blocked", "drop"} => Rendering(entry'[mine'[q]]) = request'[q]
               /\ pc'[q] = "handle" => buffer'[bp'[q]] = request'[q].fields
    BY <1>1, <1>2, <1>4 DEF PoolInv, PoolTypeOK, Intact
  <2>3. ASSUME NEW i \in 1..Len(logCh')
        PROVE  Rendering(entry'[logCh'[i]]) = meant'[logCh'[i]]
    <3>1. CASE i = n + 1
      <4>1. logCh'[i] = e /\ meant'[e] = request[p] /\ entry' = entry
        BY <1>1, <1>4, <1>5, <3>1 DEF PoolTypeOK
      <4>2. Rendering(entry[e]) = request[p]
        BY <1>3, <1>4 DEF PoolInv, Intact
      <4> QED BY <4>1, <4>2
    <3>2. CASE i \in 1..n
      <4>1. logCh'[i] = logCh[i] /\ meant'[logCh[i]] = meant[logCh[i]]
        BY <1>1, <1>4, <1>5, <1>7, <3>2 DEF PoolTypeOK
      <4>2. Rendering(entry[logCh[i]]) = meant[logCh[i]]
        BY <3>2 DEF PoolInv, Intact, n
      <4> QED BY <1>4, <4>1, <4>2
    <3> QED BY <1>5, <1>6, <3>1, <3>2
  <2>4. wpc' = "format" => Rendering(entry'[held']) = meant'[held']
    BY <1>1, <1>4, <1>8 DEF PoolInv, PoolTypeOK, Holding, Intact
  <2> QED BY <2>1, <2>2, <2>3, <2>4 DEF Intact
<1> QED BY <1>9, <1>10, <1>11, <1>12, <1>13 DEF PoolInv

\* The Entry goes back to the pool, blank.
LEMMA DiscardKeeps ==
  ASSUME PoolInv, NEW p \in Callers, Discard(p)
  PROVE  PoolInv'
<1>0. NoEntry \notin Entries /\ NoBuffer \notin Buffers
  BY PoolAssumption
<1>1. PoolTypeOK
  BY DEF PoolInv
<1>2. PICK place \in {"idle", "return"} :
        /\ pc' = [pc EXCEPT ![p] = place] /\ (place = "return" => bp[p] # NoBuffer)
        /\ mine' = [mine EXCEPT ![p] = NoEntry]
  BY DEF Discard, Goto, AfterDispatch
<1>3. PICK e \in Entries : e = mine[p]
  BY <1>1 DEF Discard, PoolTypeOK, PoolInv, Holding
<1>4. /\ pc[p] = "drop"
      /\ entry' = [entry EXCEPT ![e] = Blank] /\ inPool' = inPool \cup {e}
      /\ UNCHANGED <<logCh, buffers, caller, worker, history>>
  BY <1>3 DEF Discard, Recycle, Reset
<1>5. \A i \in 1..Len(logCh) : logCh[i] # e /\ logCh[i] \in Entries
  BY <1>1, <1>3, ElementOfSeq DEF PoolTypeOK, PoolInv, Apart
<1>6. e # held /\ \A q \in Callers : q # p => mine[q] # e
  BY <1>0, <1>3 DEF PoolInv, Apart
<1>7. PoolTypeOK'
  BY <1>1, <1>2, <1>4, NothingIsBlank DEF PoolTypeOK
<1>8. Holding'
  BY <1>0, <1>1, <1>2, <1>4 DEF PoolInv, PoolTypeOK, Holding
<1>9. Apart'
  BY <1>0, <1>1, <1>2, <1>4, <1>5, <1>6 DEF PoolInv, PoolTypeOK, Apart
<1>10. BuffersApart'
  BY <1>4 DEF PoolInv, BuffersApart
<1>11. Intact'
  <2>1. \A x \in inPool' : entry'[x] = Blank
    BY <1>1, <1>4 DEF PoolInv, PoolTypeOK, Intact
  <2>2. ASSUME NEW q \in Callers
        PROVE  /\ pc'[q] \in {"send", "blocked", "drop"} => Rendering(entry'[mine'[q]]) = request'[q]
               /\ pc'[q] = "handle" => buffer'[bp'[q]] = request'[q].fields
    <3>1. CASE q = p
      BY <1>1, <1>2, <3>1 DEF PoolTypeOK
    <3>2. CASE q # p
      <4>1. /\ mine'[q] = mine[q] /\ pc'[q] = pc[q]
            /\ mine[q] # NoEntry => entry'[mine[q]] = entry[mine[q]]
        BY <1>1, <1>2, <1>4, <1>6, <3>2 DEF PoolTypeOK
      <4> QED BY <1>4, <4>1 DEF PoolInv, Intact, Holding
    <3> QED BY <3>1, <3>2
  <2>3. ASSUME NEW i \in 1..Len(logCh')
        PROVE  Rendering(entry'[logCh'[i]]) = meant'[logCh'[i]]
    <3>1. entry'[logCh[i]] = entry[logCh[i]]
      BY <1>1, <1>4, <1>5 DEF PoolTypeOK
    <3> QED BY <1>4, <3>1 DEF PoolInv, Intact
  <2>4. wpc' = "format" => Rendering(entry'[held']) = meant'[held']
    BY <1>0, <1>1, <1>4, <1>6 DEF PoolInv, PoolTypeOK, Holding, Intact
  <2> QED BY <2>1, <2>2, <2>3, <2>4 DEF Intact
<1> QED BY <1>7, <1>8, <1>9, <1>10, <1>11 DEF PoolInv

\* The worker's steps.
LEMMA ReceiveKeeps ==
  ASSUME PoolInv, Receive
  PROVE  PoolInv'
<1>0. NoEntry \notin Entries /\ NoBuffer \notin Buffers
  BY PoolAssumption
<1>1. PoolTypeOK
  BY DEF PoolInv
<1>2. /\ wpc = "idle" /\ wpc' = "format" /\ held = NoEntry
      /\ held' = Head(logCh) /\ logCh' = Tail(logCh) /\ logCh # <<>> /\ logCh \in Seq(Entries)
      /\ UNCHANGED <<entry, inPool, buffers, pc, caller, mine, history>>
  BY <1>1 DEF Receive, PoolTypeOK, PoolInv, Holding
<1> DEFINE n == Len(logCh)
<1>3. /\ logCh' \in Seq(Entries) /\ Len(logCh') = n - 1 /\ n \in Nat \ {0}
      /\ \A i \in 1..(n - 1) : logCh'[i] = logCh[i + 1]
      /\ held' = logCh[1] /\ held' \in Entries
  BY <1>2, HeadTailProperties, EmptySeq
<1>4. \A i \in 1..(n - 1) : i + 1 \in 1..n /\ i + 1 # 1
  BY <1>3
<1>5. 1 \in 1..n
  BY <1>3
<1> HIDE DEF n
<1>6. PoolTypeOK' /\ Holding'
  BY <1>0, <1>1, <1>2, <1>3 DEF PoolInv, PoolTypeOK, Holding
<1>7. Apart'
  <2>1. \A i, j \in 1..n : logCh[i] = logCh[j] => i = j
    BY DEF PoolInv, Apart, n
  <2>2. \A i \in 1..n : /\ logCh[i] \notin inPool
                       /\ \A p \in Callers : logCh[i] # mine[p]
    BY DEF PoolInv, Apart, n
  <2>3. \A i \in 1..Len(logCh') : /\ logCh'[i] \notin inPool' /\ logCh'[i] # held'
                                  /\ \A p \in Callers : logCh'[i] # mine'[p]
    BY <1>2, <1>3, <1>4, <1>5, <2>1, <2>2
  <2>4. \A i, j \in 1..Len(logCh') : logCh'[i] = logCh'[j] => i = j
    <3> SUFFICES ASSUME NEW i \in 1..(n - 1), NEW j \in 1..(n - 1), logCh[i + 1] = logCh[j + 1]
                 PROVE  i = j
      BY <1>3
    <3>1. i + 1 = j + 1
      BY <1>4, <2>1
    <3> QED BY <3>1, <1>3
  <2>5. held' \notin inPool' /\ \A p \in Callers : mine'[p] # held'
    BY <1>2, <1>3, <1>5, <2>2
  <2> QED BY <1>2, <2>3, <2>4, <2>5 DEF PoolInv, Apart
<1>8. BuffersApart'
  BY <1>2 DEF PoolInv, BuffersApart
<1>9. Intact'
  <2>1. \A i \in 1..n : Rendering(entry[logCh[i]]) = meant[logCh[i]]
    BY DEF PoolInv, Intact, n
  <2>2. \A i \in 1..Len(logCh') : Rendering(entry'[logCh'[i]]) = meant'[logCh'[i]]
    BY <1>2, <1>3, <1>4, <2>1
  <2>3. Rendering(entry'[held']) = meant'[held']
    BY <1>2, <1>3, <1>5, <2>1
  <2> QED BY <1>2, <2>2, <2>3 DEF PoolInv, Intact
<1> QED BY <1>6, <1>7, <1>8, <1>9 DEF PoolInv

LEMMA FormatKeeps ==
  ASSUME PoolInv, Format
  PROVE  PoolInv'
<1>1. /\ wpc = "format" /\ wpc' = "recycle"
      /\ UNCHANGED <<objects, buffers, pc, caller, mine, held, meant>>
  BY DEF Format
<1>2. PoolTypeOK' /\ Holding'
  BY <1>1 DEF PoolInv, PoolTypeOK, Holding
<1>3. Apart' /\ BuffersApart' /\ Intact'
  BY <1>1 DEF PoolInv, Apart, BuffersApart, Intact
<1> QED BY <1>2, <1>3 DEF PoolInv

LEMMA ReleaseKeeps ==
  ASSUME PoolInv, Release
  PROVE  PoolInv'
<1>0. NoEntry \notin Entries /\ NoBuffer \notin Buffers
  BY PoolAssumption
<1>1. PoolTypeOK
  BY DEF PoolInv
<1>2. /\ wpc = "recycle" /\ wpc' = "idle" /\ held' = NoEntry
      /\ entry' = [entry EXCEPT ![held] = Blank] /\ inPool' = inPool \cup {held}
      /\ UNCHANGED <<logCh, buffers, pc, caller, mine, history>>
  BY DEF Release, Recycle, Reset
<1>3. held \in Entries
  BY <1>1, <1>2 DEF PoolTypeOK, PoolInv, Holding
<1>4. /\ \A i \in 1..Len(logCh) : logCh[i] # held /\ logCh[i] \in Entries
      /\ \A p \in Callers : mine[p] # held
  BY <1>0, <1>1, <1>3, ElementOfSeq DEF PoolTypeOK, PoolInv, Apart
<1>5. PoolTypeOK' /\ Holding'
  BY <1>0, <1>1, <1>2, <1>3, NothingIsBlank DEF PoolInv, PoolTypeOK, Holding
<1>6. Apart'
  BY <1>0, <1>1, <1>2, <1>3, <1>4 DEF PoolInv, PoolTypeOK, Apart
<1>7. BuffersApart'
  BY <1>2 DEF PoolInv, BuffersApart
<1>8. Intact'
  <2>1. \A x \in inPool' : entry'[x] = Blank
    BY <1>1, <1>2, <1>3 DEF PoolInv, PoolTypeOK, Intact
  <2>2. ASSUME NEW p \in Callers
        PROVE  pc[p] \in {"send", "blocked", "drop"} => entry'[mine[p]] = entry[mine[p]]
    BY <1>1, <1>2, <1>4 DEF PoolInv, PoolTypeOK, Holding
  <2>3. \A i \in 1..Len(logCh) : entry'[logCh[i]] = entry[logCh[i]]
    BY <1>1, <1>2, <1>4 DEF PoolTypeOK
  <2> QED BY <1>2, <2>1, <2>2, <2>3 DEF PoolInv, Intact
<1> QED BY <1>5, <1>6, <1>7, <1>8 DEF PoolInv

LEMMA PoolStart == Init => PoolInv
<1> SUFFICES ASSUME Init PROVE PoolInv
  OBVIOUS
<1>1. PoolTypeOK
  BY NothingIsBlank DEF Init, PoolTypeOK, FieldLists
<1>2. Holding /\ Apart /\ BuffersApart /\ Intact
  BY DEF Init, Holding, Apart, BuffersApart, Intact
<1> QED BY <1>1, <1>2 DEF PoolInv

LEMMA PoolStep == PoolInv /\ [Next]_vars => PoolInv'
<1> SUFFICES ASSUME PoolInv, [Next]_vars PROVE PoolInv'
  OBVIOUS
<1>1. CASE UNCHANGED vars
  <2>1. PoolTypeOK' /\ Holding'
    BY <1>1 DEF vars, PoolInv, PoolTypeOK, Holding
  <2>2. Apart' /\ BuffersApart' /\ Intact'
    BY <1>1 DEF vars, PoolInv, Apart, BuffersApart, Intact
  <2> QED BY <2>1, <2>2 DEF PoolInv
<1> QED BY <1>1, LogKeeps, HandleKeeps, WaitKeeps, SendKeeps, DiscardKeeps,
           ReceiveKeeps, FormatKeeps, ReleaseKeeps DEF Next, Call

LEMMA PoolCorrect == Spec => []PoolInv
<1> QED BY PoolStart, PoolStep, PTL DEF Spec

-----------------------------------------------------------------------------
(* EntryPool: theorems. *)

\* A line holds what the call that sent its Entry logged, and nothing of another
\* call, however Entries and field buffers are reused (formatBatch, Entry.Reset,
\* slogFieldPool).
THEOREM LinesAreFaithful == Spec => []WrittenAsLogged
<1>1. Init => WrittenAsLogged
  BY DEF Init, WrittenAsLogged
<1>2. PoolInv /\ WrittenAsLogged /\ [Next]_vars => WrittenAsLogged'
  <2> SUFFICES ASSUME PoolInv, WrittenAsLogged, [Next]_vars PROVE WrittenAsLogged'
    OBVIOUS
  <2>1. CASE Format
    BY <2>1 DEF Format, PoolInv, Intact, WrittenAsLogged
  <2>2. line' = line \/ Format
    BY DEF Next, Call, Log, LogTyped, Handle, HandleLogs, HandleRefused, ReturnBuffer, Send,
           Full, BlockTimeout, Discard, Receive, Release, vars
  <2> QED BY <2>1, <2>2 DEF WrittenAsLogged
<1> QED BY <1>1, <1>2, PoolCorrect, PTL DEF Spec

\* A set whose elements are all the same has at most one.
LEMMA AtMostOne ==
  ASSUME NEW S, \A x, y \in S : x = y
  PROVE  Cardinality(S) = IF S = {} THEN 0 ELSE 1
<1>1. CASE S = {}
  BY <1>1, FS_EmptySet
<1>2. CASE S # {}
  <2>1. PICK x \in S : S = {x}
    BY <1>2
  <2> QED BY <1>2, <2>1, FS_Singleton
<1> QED BY <1>1, <1>2

\* An Entry is in the pool, in the channel, with the worker or with one caller,
\* and never in two of these places; no two Handle calls have the same buffer.
THEOREM EntriesHaveOneOwner == Spec => []OneOwner
<1>1. PoolInv => OneOwner
  <2> SUFFICES ASSUME PoolInv PROVE OneOwner
    OBVIOUS
  <2>0. NoEntry \notin Entries
    BY PoolAssumption
  <2>1. ASSUME NEW e \in Entries
        PROVE  One(e \in inPool) + Sent(e) + One(held = e) + Holders(e) =< 1
    <3> DEFINE inCh == {i \in 1..Len(logCh) : logCh[i] = e}
               by == {p \in Callers : mine[p] = e}
    <3>1. Cardinality(inCh) = IF inCh = {} THEN 0 ELSE 1
      <4>1. \A i, j \in inCh : i = j
        BY DEF PoolInv, Apart
      <4> HIDE DEF inCh
      <4> QED BY <4>1, AtMostOne
    <3>2. Cardinality(by) = IF by = {} THEN 0 ELSE 1
      <4>1. \A p, q \in by : p = q
        BY <2>0 DEF PoolInv, Apart
      <4> HIDE DEF by
      <4> QED BY <4>1, AtMostOne
    <3>3. /\ inCh # {} => e \notin inPool /\ held # e /\ by = {}
          /\ by # {} => e \notin inPool /\ held # e
          /\ held = e => e \notin inPool
      BY <2>0 DEF PoolInv, Apart
    <3>4. Sent(e) = Cardinality(inCh) /\ Holders(e) = Cardinality(by)
      BY DEF Sent, Holders
    <3> HIDE DEF inCh, by
    <3> QED BY <3>1, <3>2, <3>3, <3>4 DEF One
  <2>2. \A p, q \in Callers : p # q /\ bp[p] # NoBuffer => bp[p] # bp[q]
    BY DEF PoolInv, BuffersApart
  <2> QED BY <2>1, <2>2 DEF OneOwner
<1> QED BY <1>1, PoolCorrect, PTL

-----------------------------------------------------------------------------
(* A value is a finite tree.  A function on values that is defined from what *)
(* it is for the members of a group exists, and is what its definition says. *)

Kids(v)    == IF v.kind = "group" THEN DOMAIN v.attrs ELSE {}
Kid(v, i)  == v.attrs[i].value
Subs(g, v) == [i \in Kids(v) |-> g[Kid(v, i)]]
Shallow(n) == {v \in Values : Depth[v] < n}

Grows(g, node, n) == g = [v \in Shallow(n) |-> node[v][Subs(g, v)]]

\* The members of a group are values, less deep than the group.
LEMMA KidsAreShallower ==
  ASSUME NEW v \in Values
  PROVE  /\ Depth[v] \in Nat
         /\ \A i \in Kids(v) : /\ Kid(v, i) \in Values /\ v.attrs[i].key \in GoStrings
                                /\ Depth[Kid(v, i)] \in Nat /\ Depth[Kid(v, i)] < Depth[v]
<1>1. Depth \in [Values -> Nat]
  BY SlogAssumption
<1>2. ASSUME NEW i \in Kids(v)
      PROVE  v.attrs[i] \in Attributes /\ Depth[v.attrs[i].value] < Depth[v]
  BY SlogAssumption DEF Kids
<1>3. ASSUME NEW i \in Kids(v)
      PROVE  Kid(v, i) \in Values /\ v.attrs[i].key \in GoStrings
  BY <1>2 DEF Attributes, Kid
<1> QED BY <1>1, <1>2, <1>3 DEF Kid

LEMMA SubsAgree ==
  ASSUME NEW v, NEW g, NEW h, \A i \in Kids(v) : g[Kid(v, i)] = h[Kid(v, i)]
  PROVE  Subs(g, v) = Subs(h, v)
BY DEF Subs

\* The function exists on the values less than n deep, for every n, and any two
\* agree where both are defined.
LEMMA GrowsExists ==
  ASSUME NEW node, NEW n \in Nat
  PROVE  \E g : Grows(g, node, n)
<1> DEFINE T == {m \in Nat : ~ \E g : Grows(g, node, m)}
<1> SUFFICES ASSUME T # {} PROVE FALSE
  OBVIOUS
<1>0. T \subseteq Nat
  OBVIOUS
<1>1. PICK m \in T : \A k \in T : m =< k
  BY <1>0, LeastNat
<1>2. CASE m = 0
  <2>1. Shallow(0) = {}
    BY KidsAreShallower DEF Shallow
  <2> DEFINE g == [v \in {} |-> v]
  <2>2. Grows(g, node, 0)
    BY <2>1 DEF Grows
  <2> QED BY <1>2, <2>2
<1>3. CASE m # 0
  <2>1. m \in Nat /\ m - 1 \in Nat /\ m - 1 \notin T
    BY <1>1, <1>3
  <2>2. PICK g : Grows(g, node, m - 1)
    BY <2>1
  <2> DEFINE h == [v \in Shallow(m) |-> node[v][Subs(g, v)]]
  <2>3. \A v \in Shallow(m - 1) : v \in Shallow(m) /\ h[v] = g[v]
    <3>1. \A v \in Shallow(m - 1) : g[v] = node[v][Subs(g, v)]
      BY <2>2 DEF Grows
    <3>2. \A v \in Shallow(m - 1) : v \in Shallow(m)
      BY <2>1, KidsAreShallower DEF Shallow
    <3> QED BY <3>1, <3>2
  <2>4. ASSUME NEW v \in Shallow(m) PROVE Subs(g, v) = Subs(h, v)
    <3>1. \A i \in Kids(v) : Kid(v, i) \in Shallow(m - 1)
      BY <2>1, KidsAreShallower DEF Shallow
    <3> QED BY <2>3, <3>1, SubsAgree
  <2>5. h = [v \in Shallow(m) |-> node[v][Subs(h, v)]]
    BY <2>4
  <2>6. Grows(h, node, m)
    BY <2>5 DEF Grows
  <2> QED BY <1>1, <2>6
<1> QED BY <1>2, <1>3

LEMMA GrowsAgree ==
  ASSUME NEW node, NEW g, NEW h, NEW m \in Nat, NEW n \in Nat, m =< n,
         Grows(g, node, m), Grows(h, node, n)
  PROVE  \A v \in Shallow(m) : g[v] = h[v]
<1> DEFINE T == {Depth[v] : v \in {w \in Shallow(m) : g[w] # h[w]}}
<1> SUFFICES ASSUME T # {} PROVE FALSE
  OBVIOUS
<1>0. T \subseteq Nat
  BY KidsAreShallower DEF Shallow
<1>1. PICK d \in T : \A k \in T : d =< k
  BY <1>0, LeastNat
<1>2. PICK v \in Shallow(m) : Depth[v] = d /\ g[v] # h[v]
  OBVIOUS
<1>3. v \in Values /\ v \in Shallow(n) /\ Depth[v] \in Nat
  BY KidsAreShallower DEF Shallow
<1>4. \A i \in Kids(v) : g[Kid(v, i)] = h[Kid(v, i)]
  <2> SUFFICES ASSUME NEW i \in Kids(v) PROVE g[Kid(v, i)] = h[Kid(v, i)]
    OBVIOUS
  <2>1. Kid(v, i) \in Shallow(m) /\ Depth[Kid(v, i)] < d /\ Depth[Kid(v, i)] \in Nat
    BY <1>2, <1>3, KidsAreShallower DEF Shallow
  <2>2. Depth[Kid(v, i)] \notin T
    BY <1>0, <1>1, <2>1
  <2> QED BY <2>1, <2>2
<1>5. Subs(g, v) = Subs(h, v)
  BY <1>4, SubsAgree
<1>6. g[v] = node[v][Subs(g, v)] /\ h[v] = node[v][Subs(h, v)]
  <2>1. \A w \in Shallow(m) : g[w] = node[w][Subs(g, w)]
    BY DEF Grows
  <2>2. \A w \in Shallow(n) : h[w] = node[w][Subs(h, w)]
    BY DEF Grows
  <2> QED BY <1>3, <2>1, <2>2
<1> QED BY <1>2, <1>5, <1>6

Grown(node, n) == CHOOSE g : Grows(g, node, n)

\* The function exists on all values.
LEMMA TreeExists ==
  ASSUME NEW node
  PROVE  \E g : g = [v \in Values |-> node[v][Subs(g, v)]]
<1> DEFINE At(v) == Grown(node, Depth[v] + 1)
           g     == [v \in Values |-> At(v)[v]]
<1>1. ASSUME NEW v \in Values PROVE Grows(At(v), node, Depth[v] + 1) /\ Depth[v] + 1 \in Nat
  <2>1. Depth[v] + 1 \in Nat
    BY KidsAreShallower
  <2> QED BY <2>1, GrowsExists DEF Grown
<1>2. ASSUME NEW v \in Values PROVE At(v)[v] = node[v][Subs(g, v)]
  <2>1. \A i \in Kids(v) : At(v)[Kid(v, i)] = g[Kid(v, i)]
    <3> SUFFICES ASSUME NEW i \in Kids(v) PROVE At(v)[Kid(v, i)] = g[Kid(v, i)]
      OBVIOUS
    <3> DEFINE w == Kid(v, i)
    <3>1. w \in Values /\ Depth[w] \in Nat /\ Depth[v] \in Nat /\ Depth[w] < Depth[v]
      BY KidsAreShallower
    <3> HIDE DEF w
    <3>2. Depth[w] + 1 =< Depth[v] + 1 /\ w \in Shallow(Depth[w] + 1)
      BY <3>1 DEF Shallow
    <3>3. Grows(At(w), node, Depth[w] + 1) /\ Depth[w] + 1 \in Nat
      BY <1>1, <3>1
    <3>4. Grows(At(v), node, Depth[v] + 1) /\ Depth[v] + 1 \in Nat
      BY <1>1
    <3> HIDE DEF At
    <3>5. At(w)[w] = At(v)[w]
      BY <3>2, <3>3, <3>4, GrowsAgree
    <3>6. g[w] = At(w)[w]
      BY <3>1
    <3> QED BY <3>5, <3>6 DEF w
  <2>2. Subs(At(v), v) = Subs(g, v)
    BY <2>1, SubsAgree
  <2>3. v \in Shallow(Depth[v] + 1)
    BY KidsAreShallower DEF Shallow
  <2>4. At(v)[v] = node[v][Subs(At(v), v)]
    <3>1. Grows(At(v), node, Depth[v] + 1)
      BY <1>1
    <3> HIDE DEF At
    <3> QED BY <2>3, <3>1 DEF Grows
  <2> QED BY <2>2, <2>4
<1>3. g = [v \in Values |-> node[v][Subs(g, v)]]
  BY <1>2
<1> QED BY <1>3

\* If the members of a group have results in R, then so has the group.
LEMMA TreeType ==
  ASSUME NEW R, NEW g, \A v \in Values : Subs(g, v) \in [Kids(v) -> R] => g[v] \in R
  PROVE  \A v \in Values : g[v] \in R
<1> DEFINE T == {Depth[v] : v \in {w \in Values : g[w] \notin R}}
<1> SUFFICES ASSUME T # {} PROVE FALSE
  OBVIOUS
<1>0. T \subseteq Nat
  BY KidsAreShallower
<1>1. PICK d \in T : \A k \in T : d =< k
  BY <1>0, LeastNat
<1>2. PICK v \in Values : Depth[v] = d /\ g[v] \notin R
  OBVIOUS
<1>3. \A i \in Kids(v) : g[Kid(v, i)] \in R
  <2> SUFFICES ASSUME NEW i \in Kids(v) PROVE g[Kid(v, i)] \in R
    OBVIOUS
  <2>1. Kid(v, i) \in Values /\ Depth[Kid(v, i)] < d /\ Depth[Kid(v, i)] \in Nat
    BY <1>2, KidsAreShallower
  <2>2. Depth[Kid(v, i)] \notin T
    BY <1>0, <1>1, <2>1
  <2> QED BY <2>1, <2>2
<1>4. Subs(g, v) \in [Kids(v) -> R]
  BY <1>3 DEF Subs
<1> QED BY <1>2, <1>4

-----------------------------------------------------------------------------
(* appendSlogValue and Scalars. *)

SlogFields == {FieldOf(key, v) : key \in GoStrings, v \in Values}

\* The two definitions, over the results for the members of a group.
FieldsOf(v, subs) == [key \in GoStrings |->
  CASE v.kind = "group" -> FlattenSeq([i \in DOMAIN v.attrs |-> subs[i][Dotted(key, v.attrs[i].key)]])
    [] v.kind # "group" /\ key = <<>> -> <<>>
    [] OTHER -> <<FieldOf(key, v)>>]

Named(key) == IF key = <<>> THEN <<>> ELSE <<key>>

LeavesIn(v, subs) ==
  IF v.kind # "group" THEN <<[path |-> <<>>, value |-> v]>>
  ELSE FlattenSeq([i \in DOMAIN v.attrs |-> Below(Named(v.attrs[i].key), subs[i])])

\* Keys joined with a dot are keys.
LEMMA DottedType ==
  \A prefix, key \in GoStrings : Dotted(prefix, key) \in GoStrings
<1> SUFFICES ASSUME NEW prefix \in GoStrings, NEW key \in GoStrings
             PROVE  Dotted(prefix, key) \in GoStrings
  OBVIOUS
<1>1. <<".">> \in Seq(Symbols)
  BY SlogAssumption
<1>2. prefix \o <<".">> \in Seq(Symbols)
  BY <1>1 DEF GoStrings
<1>3. prefix \o <<".">> \o key \in Seq(Symbols)
  BY <1>2 DEF GoStrings
<1> QED BY <1>3 DEF Dotted, GoStrings

LEMMA GroupAttrs ==
  ASSUME NEW v \in Values, v.kind = "group"
  PROVE  /\ v.attrs \in Seq(Attributes) /\ Kids(v) = DOMAIN v.attrs
         /\ Len(v.attrs) \in Nat /\ DOMAIN v.attrs = 1..Len(v.attrs)
BY SlogAssumption DEF Kids

\* What appendSlogValue makes of a value is a sequence of fields, for any key.
LEMMA FieldsOfType ==
  ASSUME NEW v \in Values, NEW subs \in [Kids(v) -> [GoStrings -> Seq(SlogFields)]]
  PROVE  FieldsOf(v, subs) \in [GoStrings -> Seq(SlogFields)]
<1> SUFFICES ASSUME NEW key \in GoStrings PROVE FieldsOf(v, subs)[key] \in Seq(SlogFields)
  BY DEF FieldsOf
<1>1. CASE v.kind = "group"
  <2> DEFINE each == [i \in DOMAIN v.attrs |-> subs[i][Dotted(key, v.attrs[i].key)]]
  <2>1. ASSUME NEW i \in DOMAIN v.attrs PROVE subs[i][Dotted(key, v.attrs[i].key)] \in Seq(SlogFields)
    <3>1. i \in Kids(v) /\ v.attrs[i].key \in GoStrings
      BY <1>1, GroupAttrs, KidsAreShallower
    <3>2. Dotted(key, v.attrs[i].key) \in GoStrings
      BY <3>1, DottedType
    <3> QED BY <3>1, <3>2
  <2>2. each \in Seq(Seq(SlogFields))
    <3>1. /\ each = [i \in 1..Len(v.attrs) |-> each[i]] /\ Len(v.attrs) \in Nat
          /\ \A i \in 1..Len(v.attrs) : each[i] \in Seq(SlogFields)
      BY <1>1, <2>1, GroupAttrs
    <3> HIDE DEF each
    <3> QED BY <3>1, IsSeq
  <2> HIDE DEF each
  <2>3. FlattenSeq(each) \in Seq(SlogFields)
    BY <2>2, FlattenType
  <2> QED BY <1>1, <2>3 DEF FieldsOf, each
<1>2. CASE v.kind # "group"
  <2>1. FieldOf(key, v) \in SlogFields
    BY DEF SlogFields
  <2> QED BY <1>2, <2>1 DEF FieldsOf
<1> QED BY <1>1, <1>2

\* appendSlogValue is the function that its definition says.
LEMMA appendSlogValueIs ==
  /\ appendSlogValue = [v \in Values |-> FieldsOf(v, Subs(appendSlogValue, v))]
  /\ \A v \in Values : appendSlogValue[v] \in [GoStrings -> Seq(SlogFields)]
<1> DEFINE R == [GoStrings -> Seq(SlogFields)]
           node == [v \in Values |-> [subs \in [Kids(v) -> R] |-> FieldsOf(v, subs)]]
           Body(g, v) == [key \in GoStrings |->
             CASE v.kind = "group" ->
                    FlattenSeq([i \in DOMAIN v.attrs |-> g[v.attrs[i].value][Dotted(key, v.attrs[i].key)]])
               [] v.kind # "group" /\ key = <<>> -> <<>>
               [] OTHER -> <<FieldOf(key, v)>>]
<1>1. ASSUME NEW g, NEW v \in Values
      PROVE  Body(g, v) = FieldsOf(v, Subs(g, v))
  <2>1. v.kind = "group" => \A i \in DOMAIN v.attrs : Subs(g, v)[i] = g[v.attrs[i].value]
    BY DEF Subs, Kid, Kids
  <2>2. ASSUME NEW key \in GoStrings, v.kind = "group"
        PROVE  [i \in DOMAIN v.attrs |-> g[v.attrs[i].value][Dotted(key, v.attrs[i].key)]]
                 = [i \in DOMAIN v.attrs |-> Subs(g, v)[i][Dotted(key, v.attrs[i].key)]]
    BY <2>1, <2>2
  <2>3. ASSUME NEW key \in GoStrings PROVE Body(g, v)[key] = FieldsOf(v, Subs(g, v))[key]
    <3>1. CASE v.kind = "group"
      BY <2>2, <3>1 DEF FieldsOf
    <3>2. CASE v.kind # "group"
      BY <3>2 DEF FieldsOf
    <3> QED BY <3>1, <3>2
  <2> QED BY <2>3 DEF FieldsOf
<1> HIDE DEF Body
<1>2. PICK g : g = [v \in Values |-> node[v][Subs(g, v)]]
  <2> HIDE DEF node
  <2> QED BY TreeExists
<1>3. ASSUME NEW v \in Values, Subs(g, v) \in [Kids(v) -> R]
      PROVE  g[v] = FieldsOf(v, Subs(g, v)) /\ g[v] \in R
  <2>1. g[v] = node[v][Subs(g, v)]
    BY <1>2
  <2> HIDE DEF R
  <2>2. node[v][Subs(g, v)] = FieldsOf(v, Subs(g, v))
    BY <1>3
  <2> QED BY <1>3, <2>1, <2>2, FieldsOfType DEF R
<1> HIDE DEF node, R
<1>4. \A v \in Values : g[v] \in R
  BY <1>3, TreeType
<1>5. \A v \in Values : Subs(g, v) \in [Kids(v) -> R]
  BY <1>4, KidsAreShallower DEF Subs
<1>6. g = [v \in Values |-> Body(g, v)]
  <2>1. \A v \in Values : g[v] = Body(g, v)
    BY <1>1, <1>3, <1>5
  <2>2. g = [v \in Values |-> g[v]]
    BY <1>2
  <2> QED BY <2>1, <2>2
<1>7. appendSlogValue = [v \in Values |-> Body(appendSlogValue, v)]
  <2>1. appendSlogValue = CHOOSE h : h = [v \in Values |-> Body(h, v)]
    BY DEF appendSlogValue, Body
  <2> QED BY <1>6, <2>1
<1>8. appendSlogValue = [v \in Values |-> FieldsOf(v, Subs(appendSlogValue, v))]
  BY <1>1, <1>7
<1>9. \A v \in Values : appendSlogValue[v] \in R
  <2> SUFFICES ASSUME NEW v \in Values, Subs(appendSlogValue, v) \in [Kids(v) -> R]
               PROVE  appendSlogValue[v] \in R
    BY TreeType
  <2>1. appendSlogValue[v] = FieldsOf(v, Subs(appendSlogValue, v))
    BY <1>8
  <2> QED BY <2>1, FieldsOfType DEF R
<1> QED BY <1>8, <1>9 DEF R

Names == GoStrings \ {<<>>}
Leaves == [path : Seq(Names), value : Values]

\* Leaves below names are leaves.
LEMMA BelowType ==
  ASSUME NEW names \in Seq(Names), NEW leaves \in Seq(Leaves)
  PROVE  Below(names, leaves) \in Seq(Leaves) /\ Len(Below(names, leaves)) = Len(leaves)
<1> DEFINE f == Below(names, leaves)
<1>1. ASSUME NEW j \in 1..Len(leaves)
      PROVE  f[j] = [path |-> names \o leaves[j].path, value |-> leaves[j].value] /\ f[j] \in Leaves
  <2>1. leaves[j].path \in Seq(Names) /\ leaves[j].value \in Values
    <3>1. leaves[j] \in Leaves
      OBVIOUS
    <3> QED BY <3>1 DEF Leaves
  <2>2. names \o leaves[j].path \in Seq(Names)
    BY <2>1
  <2>3. f[j] = [path |-> names \o leaves[j].path, value |-> leaves[j].value]
    <3>1. j \in DOMAIN leaves
      OBVIOUS
    <3> QED BY <3>1 DEF Below
  <2> QED BY <2>1, <2>2, <2>3 DEF Leaves
<1>2. f = [j \in 1..Len(leaves) |-> f[j]] /\ Len(leaves) \in Nat
  <2>1. DOMAIN leaves = 1..Len(leaves) /\ Len(leaves) \in Nat
    OBVIOUS
  <2> QED BY <2>1 DEF Below
<1> HIDE DEF f
<1>3. f \in Seq(Leaves) /\ Len(f) = Len(leaves)
  BY <1>1, <1>2, IsSeq
<1> QED BY <1>3 DEF f

LEMMA NamedType == \A key \in GoStrings : Named(key) \in Seq(Names)
<1> SUFFICES ASSUME NEW key \in GoStrings PROVE Named(key) \in Seq(Names)
  OBVIOUS
<1>1. key # <<>> => key \in Names
  BY DEF Names
<1> QED BY <1>1 DEF Named

LEMMA LeavesInType ==
  ASSUME NEW v \in Values, NEW subs \in [Kids(v) -> Seq(Leaves)]
  PROVE  LeavesIn(v, subs) \in Seq(Leaves)
<1>1. CASE v.kind = "group"
  <2> DEFINE each == [i \in DOMAIN v.attrs |-> Below(Named(v.attrs[i].key), subs[i])]
  <2>1. ASSUME NEW i \in DOMAIN v.attrs PROVE each[i] \in Seq(Leaves)
    <3>1. i \in Kids(v) /\ v.attrs[i].key \in GoStrings
      BY <1>1, GroupAttrs, KidsAreShallower
    <3>2. Named(v.attrs[i].key) \in Seq(Names) /\ subs[i] \in Seq(Leaves)
      BY <3>1, NamedType
    <3> QED BY <3>2, BelowType
  <2>2. each \in Seq(Seq(Leaves))
    <3>1. /\ each = [i \in 1..Len(v.attrs) |-> each[i]] /\ Len(v.attrs) \in Nat
          /\ \A i \in 1..Len(v.attrs) : each[i] \in Seq(Leaves)
      BY <1>1, <2>1, GroupAttrs
    <3> HIDE DEF each
    <3> QED BY <3>1, IsSeq
  <2> HIDE DEF each
  <2>3. FlattenSeq(each) \in Seq(Leaves)
    BY <2>2, FlattenType
  <2> QED BY <1>1, <2>3 DEF LeavesIn, each
<1>2. CASE v.kind # "group"
  <2>1. [path |-> <<>>, value |-> v] \in Leaves
    BY DEF Leaves
  <2> QED BY <1>2, <2>1 DEF LeavesIn
<1> QED BY <1>1, <1>2

\* Scalars is the function that its definition says.
LEMMA ScalarsIs ==
  /\ Scalars = [v \in Values |-> LeavesIn(v, Subs(Scalars, v))]
  /\ \A v \in Values : Scalars[v] \in Seq(Leaves)
<1> DEFINE R == Seq(Leaves)
           node == [v \in Values |-> [subs \in [Kids(v) -> R] |-> LeavesIn(v, subs)]]
           Body(g, v) ==
             IF v.kind # "group" THEN <<[path |-> <<>>, value |-> v]>>
             ELSE FlattenSeq([i \in DOMAIN v.attrs |->
                    Below(IF v.attrs[i].key = <<>> THEN <<>> ELSE <<v.attrs[i].key>>, g[v.attrs[i].value])])
<1>1. ASSUME NEW g, NEW v \in Values
      PROVE  Body(g, v) = LeavesIn(v, Subs(g, v))
  <2>1. v.kind = "group" => \A i \in DOMAIN v.attrs : Subs(g, v)[i] = g[v.attrs[i].value]
    BY DEF Subs, Kid, Kids
  <2>2. CASE v.kind = "group"
    <3>1. [i \in DOMAIN v.attrs |->
             Below(IF v.attrs[i].key = <<>> THEN <<>> ELSE <<v.attrs[i].key>>, g[v.attrs[i].value])]
            = [i \in DOMAIN v.attrs |-> Below(Named(v.attrs[i].key), Subs(g, v)[i])]
      BY <2>1, <2>2 DEF Named
    <3> QED BY <2>2, <3>1 DEF LeavesIn
  <2>3. CASE v.kind # "group"
    BY <2>3 DEF LeavesIn
  <2> QED BY <2>2, <2>3
<1> HIDE DEF Body
<1>2. PICK g : g = [v \in Values |-> node[v][Subs(g, v)]]
  <2> HIDE DEF node
  <2> QED BY TreeExists
<1>3. ASSUME NEW v \in Values, Subs(g, v) \in [Kids(v) -> R]
      PROVE  g[v] = LeavesIn(v, Subs(g, v)) /\ g[v] \in R
  <2>1. g[v] = node[v][Subs(g, v)]
    BY <1>2
  <2> HIDE DEF R
  <2>2. node[v][Subs(g, v)] = LeavesIn(v, Subs(g, v))
    BY <1>3
  <2> QED BY <1>3, <2>1, <2>2, LeavesInType DEF R
<1> HIDE DEF node, R
<1>4. \A v \in Values : g[v] \in R
  BY <1>3, TreeType
<1>5. \A v \in Values : Subs(g, v) \in [Kids(v) -> R]
  BY <1>4, KidsAreShallower DEF Subs
<1>6. g = [v \in Values |-> Body(g, v)]
  <2>1. \A v \in Values : g[v] = Body(g, v)
    BY <1>1, <1>3, <1>5
  <2>2. g = [v \in Values |-> g[v]]
    BY <1>2
  <2> QED BY <2>1, <2>2
<1>7. Scalars = [v \in Values |-> Body(Scalars, v)]
  <2>1. Scalars = CHOOSE h : h = [v \in Values |-> Body(h, v)]
    BY DEF Scalars, Body
  <2> QED BY <1>6, <2>1
<1>8. Scalars = [v \in Values |-> LeavesIn(v, Subs(Scalars, v))]
  BY <1>1, <1>7
<1>9. \A v \in Values : Scalars[v] \in R
  <2> SUFFICES ASSUME NEW v \in Values, Subs(Scalars, v) \in [Kids(v) -> R]
               PROVE  Scalars[v] \in R
    BY TreeType
  <2>1. Scalars[v] = LeavesIn(v, Subs(Scalars, v))
    BY <1>8
  <2> QED BY <2>1, LeavesInType DEF R
<1> QED BY <1>8, <1>9 DEF R

-----------------------------------------------------------------------------
(* Dotted keys. *)

DotParts(path) == [i \in DOMAIN path |-> IF i = 1 THEN path[i] ELSE <<".">> \o path[i]]

\* A name more is one more part of the key, behind a dot unless it is the first.
LEMMA DotPartsAppend ==
  ASSUME NEW p \in Seq(Names), NEW k \in Names
  PROVE  /\ DotParts(p) \in Seq(GoStrings)
         /\ LET last == IF p = <<>> THEN k ELSE <<".">> \o k
            IN  last \in GoStrings /\ DotParts(Append(p, k)) = Append(DotParts(p), last)
<1> DEFINE last == IF p = <<>> THEN k ELSE <<".">> \o k
           a == DotParts(p)
           b == DotParts(Append(p, k))
<1>1. \A x \in Names : x \in GoStrings /\ <<".">> \o x \in GoStrings
  BY SlogAssumption DEF Names, GoStrings
<1>2. /\ Append(p, k) \in Seq(Names) /\ Len(Append(p, k)) = Len(p) + 1
      /\ \A i \in 1..Len(p) : Append(p, k)[i] = p[i]
      /\ Append(p, k)[Len(p) + 1] = k
  BY AppendProperties
<1>3. last \in GoStrings /\ (p = <<>> <=> Len(p) + 1 = 1)
  BY <1>1
<1>4. \A q \in Seq(Names) : DotParts(q) \in Seq(GoStrings) /\ Len(DotParts(q)) = Len(q)
  <2> SUFFICES ASSUME NEW q \in Seq(Names)
               PROVE  DotParts(q) \in Seq(GoStrings) /\ Len(DotParts(q)) = Len(q)
    OBVIOUS
  <2>1. \A i \in 1..Len(q) : DotParts(q)[i] \in GoStrings
    BY <1>1 DEF DotParts
  <2>2. DotParts(q) = [i \in 1..Len(q) |-> DotParts(q)[i]] /\ Len(q) \in Nat
    BY DEF DotParts
  <2> QED BY <2>1, <2>2, IsSeq
<1>5. /\ a \in Seq(GoStrings) /\ Len(a) = Len(p)
      /\ b \in Seq(GoStrings) /\ Len(b) = Len(p) + 1
  BY <1>2, <1>4
<1>6. /\ \A i \in 1..Len(p) : b[i] = a[i]
      /\ b[Len(p) + 1] = last
  BY <1>2, <1>3 DEF DotParts
<1> HIDE DEF a, b, last
<1>7. /\ Append(a, last) \in Seq(GoStrings) /\ Len(Append(a, last)) = Len(p) + 1
      /\ \A i \in 1..Len(p) : Append(a, last)[i] = a[i]
      /\ Append(a, last)[Len(p) + 1] = last
  BY <1>3, <1>5, AppendProperties
<1>8. \A i \in 1..(Len(p) + 1) : b[i] = Append(a, last)[i]
  BY <1>6, <1>7
<1>9. b = Append(a, last)
  BY <1>5, <1>7, <1>8, SeqEqual
<1> QED BY <1>3, <1>5, <1>9 DEF a, b, last

LEMMA DotsAre == \A path : Dots(path) = FlattenSeq(DotParts(path))
BY DEF Dots, DotParts

\* A name more is joined to the dotted key of the others: what WithGroup does to
\* the prefix.
LEMMA DotsAppend ==
  ASSUME NEW p \in Seq(Names), NEW k \in Names
  PROVE  /\ Dots(p) \in GoStrings
         /\ p # <<>> => Dots(p) # <<>>
         /\ Dots(Append(p, k)) = Dotted(Dots(p), k)
<1>1. \A q \in Seq(Names) : Dots(q) \in GoStrings
  <2> SUFFICES ASSUME NEW q \in Seq(Names) PROVE Dots(q) \in GoStrings
    OBVIOUS
  <2>1. DotParts(q) \in Seq(GoStrings)
    BY DotPartsAppend
  <2> QED BY <2>1, DotsAre, FlattenType DEF GoStrings
<1>2. \A q \in Seq(Names), y \in Names :
        Dots(Append(q, y)) = Dots(q) \o (IF q = <<>> THEN y ELSE <<".">> \o y)
  <2> SUFFICES ASSUME NEW q \in Seq(Names), NEW y \in Names
               PROVE  Dots(Append(q, y)) = Dots(q) \o (IF q = <<>> THEN y ELSE <<".">> \o y)
    OBVIOUS
  <2> DEFINE last == IF q = <<>> THEN y ELSE <<".">> \o y
  <2>1. DotParts(q) \in Seq(GoStrings) /\ last \in GoStrings /\ DotParts(Append(q, y)) = Append(DotParts(q), last)
    BY DotPartsAppend
  <2> HIDE DEF last
  <2>2. FlattenSeq(Append(DotParts(q), last)) = FlattenSeq(DotParts(q)) \o last
    BY <2>1, FlattenAppend DEF GoStrings
  <2>3. Dots(Append(q, y)) = Dots(q) \o last
    BY <2>1, <2>2, DotsAre
  <2> QED BY <2>3 DEF last
<1>3. \A s \in GoStrings, y \in Names : s \o y # <<>> /\ s \o (<<".">> \o y) = s \o <<".">> \o y
  <2> SUFFICES ASSUME NEW s \in GoStrings, NEW y \in Names
               PROVE  s \o y # <<>> /\ s \o (<<".">> \o y) = s \o <<".">> \o y
    OBVIOUS
  <2>1. s \in Seq(Symbols) /\ y \in Seq(Symbols) /\ y # <<>> /\ <<".">> \in Seq(Symbols)
    BY SlogAssumption DEF GoStrings, Names
  <2>2. s \o y # <<>>
    BY <2>1
  <2>3. s \o (<<".">> \o y) = s \o <<".">> \o y
    BY <2>1, Associative
  <2> QED BY <2>2, <2>3
<1>4. \A q \in Seq(Names) : q # <<>> => Dots(q) # <<>>
  <2> SUFFICES ASSUME NEW q \in Seq(Names), q # <<>> PROVE Dots(q) # <<>>
    OBVIOUS
  <2>1. PICK r \in Seq(Names), y \in Names : q = Append(r, y)
    BY SequenceEmptyOrAppend
  <2>2. Dots(q) = Dots(r) \o (IF r = <<>> THEN y ELSE <<".">> \o y)
    BY <1>2, <2>1
  <2>3. Dots(r) \in GoStrings
    BY <1>1
  <2>4. CASE r = <<>>
    BY <1>3, <2>2, <2>3, <2>4
  <2>5. CASE r # <<>>
    <3>1. Dots(q) = Dots(r) \o <<".">> \o y
      BY <1>3, <2>2, <2>3, <2>5
    <3>2. Dots(r) \o <<".">> \in GoStrings
      BY <2>3, SlogAssumption DEF GoStrings
    <3> QED BY <1>3, <3>1, <3>2
  <2> QED BY <2>4, <2>5
<1>5. Dots(<<>>) = <<>>
  <2>1. DotParts(<<>>) = <<>>
    BY DEF DotParts
  <2> QED BY <2>1, DotsAre, FlattenEmpty
<1>6. k \in GoStrings /\ k # <<>> /\ <<>> \o k = k
  BY DEF Names, GoStrings
<1>7. CASE p = <<>>
  BY <1>1, <1>2, <1>5, <1>6, <1>7 DEF Dotted
<1>8. CASE p # <<>>
  <2>1. Dots(p) # <<>> /\ Dots(p) \in GoStrings
    BY <1>1, <1>4, <1>8
  <2>2. Dots(Append(p, k)) = Dots(p) \o <<".">> \o k
    <3>1. Dots(Append(p, k)) = Dots(p) \o (<<".">> \o k)
      BY <1>2, <1>8
    <3> QED BY <1>3, <2>1, <3>1
  <2> QED BY <1>6, <2>1, <2>2 DEF Dotted
<1> QED BY <1>7, <1>8

LEMMA DotsTyped ==
  ASSUME NEW p \in Seq(Names)
  PROVE  /\ Dots(p) \in GoStrings
         /\ p # <<>> => Dots(p) # <<>>
         /\ p = <<>> => Dots(p) = <<>>
<1>1. p = <<>> => Dots(p) = <<>>
  <2>1. DotParts(<<>>) = <<>>
    BY DEF DotParts
  <2> QED BY <2>1, DotsAre, FlattenEmpty
<1>2. <<".">> \in Names
  BY SlogAssumption DEF Names, GoStrings
<1> QED BY <1>1, <1>2, DotsAppend

\* The prefix of a name: an empty one adds nothing.
LEMMA DotsNamed ==
  ASSUME NEW p \in Seq(Names), NEW key \in GoStrings
  PROVE  /\ p \o Named(key) \in Seq(Names)
         /\ Dotted(Dots(p), key) = Dots(p \o Named(key))
<1>1. CASE key = <<>>
  <2>1. p \o Named(key) = p
    BY <1>1 DEF Named
  <2>2. Dotted(Dots(p), key) = Dots(p)
    BY <1>1 DEF Dotted
  <2> QED BY <2>1, <2>2
<1>2. CASE key # <<>>
  <2>1. key \in Names
    BY <1>2 DEF Names
  <2>2. p \o Named(key) = Append(p, key) /\ Append(p, key) \in Seq(Names)
    BY <1>2, <2>1, AppendIsConcat DEF Named
  <2> QED BY <2>1, <2>2, DotsAppend
<1> QED BY <1>1, <1>2

-----------------------------------------------------------------------------
(* What the scalars of a value ask for, as fields. *)

LeafFields(p, l) == IF p \o l.path = <<>> THEN <<>> ELSE <<FieldOf(Dots(p \o l.path), l.value)>>
OfLeaf(p)        == [l \in Leaves |-> LeafFields(p, l)]
FieldsBelow(p, leaves) == FlattenSeq(Mapped(OfLeaf(p), leaves))

\* The fields of leaves below a path, of two sequences of leaves, of many, and of
\* leaves that are below names already.
LEMMA LeafFieldsType ==
  ASSUME NEW p \in Seq(Names), NEW l \in Leaves
  PROVE  /\ p \o l.path \in Seq(Names) /\ l.value \in Values
         /\ LeafFields(p, l) \in Seq(SlogFields)
<1>1. l.path \in Seq(Names) /\ l.value \in Values
  BY DEF Leaves
<1>2. p \o l.path \in Seq(Names)
  BY <1>1
<1>3. Dots(p \o l.path) \in GoStrings
  BY <1>2, DotsTyped
<1>4. FieldOf(Dots(p \o l.path), l.value) \in SlogFields
  BY <1>1, <1>3 DEF SlogFields
<1> QED BY <1>1, <1>2, <1>4 DEF LeafFields

LEMMA FieldsBelowType ==
  ASSUME NEW p \in Seq(Names), NEW a \in Seq(Leaves)
  PROVE  /\ Mapped(OfLeaf(p), a) \in Seq(Seq(SlogFields))
         /\ FieldsBelow(p, a) \in Seq(SlogFields)
<1>1. \A l \in Leaves : OfLeaf(p)[l] \in Seq(SlogFields)
  BY LeafFieldsType DEF OfLeaf
<1>2. Mapped(OfLeaf(p), a) \in Seq(Seq(SlogFields))
  BY <1>1, MappedType
<1> QED BY <1>2, FlattenType DEF FieldsBelow

LEMMA FieldsBelowConcat ==
  ASSUME NEW p \in Seq(Names), NEW a \in Seq(Leaves), NEW b \in Seq(Leaves)
  PROVE  FieldsBelow(p, a \o b) = FieldsBelow(p, a) \o FieldsBelow(p, b)
<1>1. Mapped(OfLeaf(p), a \o b) = Mapped(OfLeaf(p), a) \o Mapped(OfLeaf(p), b)
  BY MappedConcat
<1>2. /\ Mapped(OfLeaf(p), a) \in Seq(Seq(SlogFields))
      /\ Mapped(OfLeaf(p), b) \in Seq(Seq(SlogFields))
  BY FieldsBelowType
<1> QED BY <1>1, <1>2, FlattenConcat DEF FieldsBelow

LEMMA FieldsBelowFlatten ==
  ASSUME NEW p \in Seq(Names), NEW s \in Seq(Seq(Leaves))
  PROVE  FieldsBelow(p, FlattenSeq(s)) = FlattenSeq([i \in DOMAIN s |-> FieldsBelow(p, s[i])])
<1> DEFINE H == [a \in Seq(Leaves) |-> FieldsBelow(p, a)]
<1>1. H \in [Seq(Leaves) -> Seq(SlogFields)]
  BY FieldsBelowType
<1>2. H[<<>>] = <<>>
  <2>1. Mapped(OfLeaf(p), <<>>) = <<>>
    BY DEF Mapped
  <2>2. <<>> \in Seq(Leaves)
    OBVIOUS
  <2> QED BY <2>1, <2>2, FlattenEmpty DEF FieldsBelow
<1>3. \A a, b \in Seq(Leaves) : H[a \o b] = H[a] \o H[b]
  <2>1. \A a, b \in Seq(Leaves) : a \o b \in Seq(Leaves)
    OBVIOUS
  <2> QED BY <2>1, FieldsBelowConcat
<1>4. FlattenSeq(s) \in Seq(Leaves)
  BY FlattenType
<1>5. Mapped(H, s) = [i \in DOMAIN s |-> FieldsBelow(p, s[i])]
  <2>1. \A i \in DOMAIN s : s[i] \in Seq(Leaves)
    OBVIOUS
  <2> QED BY <2>1 DEF Mapped
<1>6. H[FlattenSeq(s)] = FieldsBelow(p, FlattenSeq(s))
  BY <1>4
<1> HIDE DEF H
<1>7. H[FlattenSeq(s)] = FlattenSeq(Mapped(H, s))
  BY <1>1, <1>2, <1>3, Homomorphism
<1> QED BY <1>5, <1>6, <1>7

LEMMA PathsAssociative ==
  \A a, b, c \in Seq(Names) : (a \o b) \o c = a \o (b \o c)
BY ConcatAssociative

LEMMA FieldsBelowBelow ==
  ASSUME NEW p \in Seq(Names), NEW n \in Seq(Names), NEW a \in Seq(Leaves)
  PROVE  FieldsBelow(p, Below(n, a)) = FieldsBelow(p \o n, a)
<1>1. Below(n, a) \in Seq(Leaves) /\ Len(Below(n, a)) = Len(a)
  BY BelowType
<1>2. ASSUME NEW j \in 1..Len(a)
      PROVE  OfLeaf(p)[Below(n, a)[j]] = OfLeaf(p \o n)[a[j]]
  <2>1. Below(n, a)[j] = [path |-> n \o a[j].path, value |-> a[j].value]
    <3>1. j \in DOMAIN a
      OBVIOUS
    <3> QED BY <3>1 DEF Below
  <2>2. a[j] \in Leaves /\ Below(n, a)[j] \in Leaves
    BY <1>1
  <2>3. a[j].path \in Seq(Names)
    BY <2>2 DEF Leaves
  <2>4. p \o (n \o a[j].path) = (p \o n) \o a[j].path
    BY <2>3, PathsAssociative
  <2>5. Below(n, a)[j].path = n \o a[j].path /\ Below(n, a)[j].value = a[j].value
    BY <2>1
  <2>6. LeafFields(p, Below(n, a)[j]) = LeafFields(p \o n, a[j])
    BY <2>4, <2>5 DEF LeafFields
  <2> QED BY <2>2, <2>6 DEF OfLeaf
<1>3. Mapped(OfLeaf(p), Below(n, a)) = Mapped(OfLeaf(p \o n), a)
  <2>1. DOMAIN Below(n, a) = 1..Len(a) /\ DOMAIN a = 1..Len(a)
    BY <1>1
  <2> QED BY <1>2, <2>1 DEF Mapped
<1> QED BY <1>3 DEF FieldsBelow

\* What holds of a value whenever it holds of the members of its group holds of
\* all values.
LEMMA TreeInduction ==
  ASSUME NEW G \in SUBSET Values,
         \A v \in Values : (\A i \in Kids(v) : Kid(v, i) \in G) => v \in G
  PROVE  \A v \in Values : v \in G
<1> DEFINE g == [v \in Values |-> IF v \in G THEN 1 ELSE 0]
<1>1. ASSUME NEW v \in Values, Subs(g, v) \in [Kids(v) -> {1}]
      PROVE  g[v] \in {1}
  <2>1. ASSUME NEW i \in Kids(v) PROVE Kid(v, i) \in G
    <3>1. g[Kid(v, i)] = 1
      BY <1>1 DEF Subs
    <3>2. Kid(v, i) \in Values
      BY KidsAreShallower
    <3> QED BY <3>1, <3>2
  <2> QED BY <2>1
<1>2. \A v \in Values : g[v] \in {1}
  <2> HIDE DEF g
  <2> QED BY <1>1, TreeType
<1> QED BY <1>2

\* appendSlogValue below a path writes the fields of the scalars of the value.
LEMMA ValueFields ==
  \A v \in Values : \A p \in Seq(Names) : appendSlogValue[v][Dots(p)] = FieldsBelow(p, Scalars[v])
<1> DEFINE Right(v) == \A p \in Seq(Names) : appendSlogValue[v][Dots(p)] = FieldsBelow(p, Scalars[v])
           G == {v \in Values : Right(v)}
<1>1. ASSUME NEW v \in Values, \A i \in Kids(v) : Kid(v, i) \in G, NEW p \in Seq(Names)
      PROVE  appendSlogValue[v][Dots(p)] = FieldsBelow(p, Scalars[v])
  <2>1. Dots(p) \in GoStrings /\ (p # <<>> => Dots(p) # <<>>) /\ (p = <<>> => Dots(p) = <<>>)
    BY DotsTyped
  <2>2. appendSlogValue[v] = FieldsOf(v, Subs(appendSlogValue, v))
    BY appendSlogValueIs
  <2>3. Scalars[v] = LeavesIn(v, Subs(Scalars, v))
    BY ScalarsIs
  <2>4. CASE v.kind # "group"
    <3> DEFINE leaf == [path |-> <<>>, value |-> v]
    <3>1. Scalars[v] = <<leaf>> /\ leaf \in Leaves
      BY <2>3, <2>4 DEF LeavesIn, Leaves
    <3>2. FieldsBelow(p, Scalars[v]) = OfLeaf(p)[leaf]
      <4>1. Mapped(OfLeaf(p), <<leaf>>) = <<OfLeaf(p)[leaf]>>
        BY DEF Mapped
      <4> QED BY <3>1, <4>1, FlattenOne DEF FieldsBelow
    <3>3. OfLeaf(p)[leaf] = IF p = <<>> THEN <<>> ELSE <<FieldOf(Dots(p), v)>>
      <4>1. p \o <<>> = p
        OBVIOUS
      <4> QED BY <3>1, <4>1 DEF OfLeaf, LeafFields
    <3>4. appendSlogValue[v][Dots(p)] = IF p = <<>> THEN <<>> ELSE <<FieldOf(Dots(p), v)>>
      BY <2>1, <2>2, <2>4 DEF FieldsOf
    <3> QED BY <3>2, <3>3, <3>4
  <2>5. CASE v.kind = "group"
    <3> DEFINE key(i) == v.attrs[i].key
               below == [i \in DOMAIN v.attrs |-> Below(Named(key(i)), Scalars[Kid(v, i)])]
    <3>1. ASSUME NEW i \in DOMAIN v.attrs
          PROVE  /\ i \in Kids(v) /\ Kid(v, i) \in Values /\ key(i) \in GoStrings
                 /\ Named(key(i)) \in Seq(Names) /\ Scalars[Kid(v, i)] \in Seq(Leaves)
                 /\ p \o Named(key(i)) \in Seq(Names)
      <4>1. i \in Kids(v) /\ Kid(v, i) \in Values /\ key(i) \in GoStrings
        BY <2>5, GroupAttrs, KidsAreShallower
      <4> QED BY <4>1, NamedType, ScalarsIs, DotsNamed
    <3>2. appendSlogValue[v][Dots(p)]
            = FlattenSeq([i \in DOMAIN v.attrs |-> appendSlogValue[Kid(v, i)][Dotted(Dots(p), key(i))]])
      <4>1. \A i \in DOMAIN v.attrs : Subs(appendSlogValue, v)[i] = appendSlogValue[Kid(v, i)]
        BY <3>1 DEF Subs
      <4>2. [i \in DOMAIN v.attrs |-> Subs(appendSlogValue, v)[i][Dotted(Dots(p), v.attrs[i].key)]]
              = [i \in DOMAIN v.attrs |-> appendSlogValue[Kid(v, i)][Dotted(Dots(p), key(i))]]
        BY <4>1
      <4>3. FieldsOf(v, Subs(appendSlogValue, v))[Dots(p)]
              = FlattenSeq([i \in DOMAIN v.attrs |-> Subs(appendSlogValue, v)[i][Dotted(Dots(p), v.attrs[i].key)]])
        BY <2>1, <2>5 DEF FieldsOf
      <4> QED BY <2>2, <4>2, <4>3
    <3>3. ASSUME NEW i \in DOMAIN v.attrs
          PROVE  appendSlogValue[Kid(v, i)][Dotted(Dots(p), key(i))] = FieldsBelow(p, below[i])
      <4>1. Dotted(Dots(p), key(i)) = Dots(p \o Named(key(i)))
        BY <3>1, DotsNamed
      <4>2. Kid(v, i) \in G
        BY <1>1, <3>1
      <4>3. appendSlogValue[Kid(v, i)][Dots(p \o Named(key(i)))] = FieldsBelow(p \o Named(key(i)), Scalars[Kid(v, i)])
        BY <3>1, <4>2
      <4>4. FieldsBelow(p, Below(Named(key(i)), Scalars[Kid(v, i)])) = FieldsBelow(p \o Named(key(i)), Scalars[Kid(v, i)])
        BY <3>1, FieldsBelowBelow
      <4> QED BY <4>1, <4>3, <4>4
    <3>4. below \in Seq(Seq(Leaves))
      <4>1. \A i \in DOMAIN v.attrs : below[i] \in Seq(Leaves)
        BY <3>1, BelowType
      <4>2. below = [i \in 1..Len(v.attrs) |-> below[i]] /\ Len(v.attrs) \in Nat /\ DOMAIN v.attrs = 1..Len(v.attrs)
        BY <2>5, GroupAttrs
      <4> HIDE DEF below
      <4> QED BY <4>1, <4>2, IsSeq
    <3>5. Scalars[v] = FlattenSeq(below)
      <4>1. \A i \in DOMAIN v.attrs : Subs(Scalars, v)[i] = Scalars[Kid(v, i)]
        BY <3>1 DEF Subs
      <4>2. [i \in DOMAIN v.attrs |-> Below(Named(v.attrs[i].key), Subs(Scalars, v)[i])] = below
        BY <4>1
      <4> HIDE DEF below
      <4> QED BY <2>3, <2>5, <4>2 DEF LeavesIn
    <3>6. FieldsBelow(p, FlattenSeq(below)) = FlattenSeq([i \in DOMAIN v.attrs |-> FieldsBelow(p, below[i])])
      <4>1. DOMAIN below = DOMAIN v.attrs
        OBVIOUS
      <4> HIDE DEF below
      <4> QED BY <3>4, <4>1, FieldsBelowFlatten
    <3>7. [i \in DOMAIN v.attrs |-> FieldsBelow(p, below[i])]
            = [i \in DOMAIN v.attrs |-> appendSlogValue[Kid(v, i)][Dotted(Dots(p), key(i))]]
      BY <3>3
    <3> HIDE DEF below
    <3> QED BY <3>2, <3>5, <3>6, <3>7
  <2> QED BY <2>4, <2>5
<1>2. \A v \in Values : v \in G
  <2>1. \A v \in Values : (\A i \in Kids(v) : Kid(v, i) \in G) => v \in G
    BY <1>1
  <2>2. G \in SUBSET Values
    OBVIOUS
  <2> HIDE DEF G
  <2> QED BY <2>1, <2>2, TreeInduction
<1> QED BY <1>2

\* What was asked for is a key and a value, like an attribute.
OfAsked   == [a \in Attributes |-> FieldOf(a.key, a.value)]
AskedLeaf == [l \in Leaves |-> IF l.path = <<>> THEN <<>> ELSE <<Asked(Dots(l.path), l.value)>>]

\* What was asked for, as fields, one after the other.
LEMMA AsFieldsIs ==
  ASSUME NEW a \in Seq(Attributes)
  PROVE  AsFields(a) = Mapped(OfAsked, a) /\ AsFields(a) \in Seq(SlogFields)
<1>1. \A x \in Attributes : OfAsked[x] \in SlogFields
  BY DEF OfAsked, Attributes, SlogFields
<1>2. AsFields(a) = Mapped(OfAsked, a)
  <2>1. \A i \in DOMAIN a : a[i] \in Attributes
    OBVIOUS
  <2> QED BY <2>1 DEF AsFields, Mapped, OfAsked
<1>3. Mapped(OfAsked, a) \in Seq(SlogFields)
  BY <1>1, MappedType
<1> QED BY <1>2, <1>3

LEMMA AsFieldsConcat ==
  ASSUME NEW a \in Seq(Attributes), NEW b \in Seq(Attributes)
  PROVE  AsFields(a \o b) = AsFields(a) \o AsFields(b)
<1>1. a \o b \in Seq(Attributes)
  OBVIOUS
<1>2. Mapped(OfAsked, a \o b) = Mapped(OfAsked, a) \o Mapped(OfAsked, b)
  BY MappedConcat
<1> QED BY <1>1, <1>2, AsFieldsIs

LEMMA AsFieldsFlatten ==
  ASSUME NEW s \in Seq(Seq(Attributes))
  PROVE  AsFields(FlattenSeq(s)) = FlattenSeq([i \in DOMAIN s |-> AsFields(s[i])])
<1> DEFINE H == [a \in Seq(Attributes) |-> AsFields(a)]
<1>1. H \in [Seq(Attributes) -> Seq(SlogFields)]
  BY AsFieldsIs
<1>2. H[<<>>] = <<>>
  <2>1. AsFields(<<>>) = <<>>
    BY DEF AsFields
  <2>2. <<>> \in Seq(Attributes)
    OBVIOUS
  <2> QED BY <2>1, <2>2
<1>3. \A a, b \in Seq(Attributes) : H[a \o b] = H[a] \o H[b]
  <2>1. \A a, b \in Seq(Attributes) : a \o b \in Seq(Attributes)
    OBVIOUS
  <2> QED BY <2>1, AsFieldsConcat
<1>4. FlattenSeq(s) \in Seq(Attributes)
  BY FlattenType
<1>5. Mapped(H, s) = [i \in DOMAIN s |-> AsFields(s[i])]
  <2>1. \A i \in DOMAIN s : s[i] \in Seq(Attributes)
    OBVIOUS
  <2> QED BY <2>1 DEF Mapped
<1>6. H[FlattenSeq(s)] = AsFields(FlattenSeq(s))
  BY <1>4
<1> HIDE DEF H
<1>7. H[FlattenSeq(s)] = FlattenSeq(Mapped(H, s))
  BY <1>1, <1>2, <1>3, Homomorphism
<1> QED BY <1>5, <1>6, <1>7

\* What leaves ask for are attributes; as fields, they are those of the leaves.
LEMMA AskedByType ==
  ASSUME NEW a \in Seq(Leaves)
  PROVE  /\ Mapped(AskedLeaf, a) \in Seq(Seq(Attributes))
         /\ AskedBy(a) = FlattenSeq(Mapped(AskedLeaf, a))
         /\ AskedBy(a) \in Seq(Attributes)
<1>1. ASSUME NEW l \in Leaves PROVE AskedLeaf[l] \in Seq(Attributes)
  <2>1. l.path \in Seq(Names) /\ l.value \in Values
    BY DEF Leaves
  <2>2. Dots(l.path) \in GoStrings
    BY <2>1, DotsTyped
  <2>3. Asked(Dots(l.path), l.value) \in Attributes
    BY <2>1, <2>2 DEF Asked, Attributes
  <2> QED BY <2>3 DEF AskedLeaf
<1>2. Mapped(AskedLeaf, a) \in Seq(Seq(Attributes))
  BY <1>1, MappedType
<1>3. AskedBy(a) = FlattenSeq(Mapped(AskedLeaf, a))
  <2>1. \A i \in DOMAIN a : a[i] \in Leaves
    OBVIOUS
  <2>2. [j \in DOMAIN a |-> IF a[j].path = <<>> THEN <<>> ELSE <<Asked(Dots(a[j].path), a[j].value)>>]
          = Mapped(AskedLeaf, a)
    BY <2>1 DEF Mapped, AskedLeaf
  <2> QED BY <2>2 DEF AskedBy
<1> QED BY <1>2, <1>3, FlattenType

LEMMA AskedByFields ==
  ASSUME NEW p \in Seq(Names), NEW a \in Seq(Leaves)
  PROVE  AsFields(AskedBy(Below(p, a))) = FieldsBelow(p, a)
<1> DEFINE b == Below(p, a)
<1>1. b \in Seq(Leaves)
  BY BelowType
<1>2. <<>> \in Seq(Names) /\ <<>> \o p = p /\ p \o <<>> = p
  OBVIOUS
<1> HIDE DEF b
<1>3. ASSUME NEW i \in DOMAIN b
      PROVE  AsFields(Mapped(AskedLeaf, b)[i]) = OfLeaf(<<>>)[b[i]]
  <2> DEFINE l == b[i]
  <2>1. l \in Leaves
    BY <1>1
  <2> HIDE DEF l
  <2>2. l.path \in Seq(Names) /\ <<>> \o l.path = l.path
    BY <2>1 DEF Leaves
  <2>3. AskedLeaf[l] = IF l.path = <<>> THEN <<>> ELSE <<Asked(Dots(l.path), l.value)>>
    BY <2>1 DEF AskedLeaf
  <2>4. OfLeaf(<<>>)[l] = IF l.path = <<>> THEN <<>> ELSE <<FieldOf(Dots(l.path), l.value)>>
    BY <2>1, <2>2 DEF OfLeaf, LeafFields
  <2>5. AsFields(<<>>) = <<>>
    BY DEF AsFields
  <2>6. AsFields(<<Asked(Dots(l.path), l.value)>>) = <<FieldOf(Dots(l.path), l.value)>>
    BY DEF AsFields, Asked
  <2>7. Mapped(AskedLeaf, b)[i] = AskedLeaf[l]
    BY DEF Mapped, l
  <2> QED BY <2>3, <2>4, <2>5, <2>6, <2>7 DEF l
<1>4. AsFields(AskedBy(b)) = FlattenSeq([i \in DOMAIN Mapped(AskedLeaf, b) |-> AsFields(Mapped(AskedLeaf, b)[i])])
  BY <1>1, AskedByType, AsFieldsFlatten
<1>5. [i \in DOMAIN Mapped(AskedLeaf, b) |-> AsFields(Mapped(AskedLeaf, b)[i])] = Mapped(OfLeaf(<<>>), b)
  <2>1. DOMAIN Mapped(AskedLeaf, b) = DOMAIN b
    BY DEF Mapped
  <2> QED BY <1>3, <2>1 DEF Mapped
<1>6. AsFields(AskedBy(b)) = FieldsBelow(<<>>, b)
  BY <1>4, <1>5 DEF FieldsBelow
<1>7. FieldsBelow(<<>>, b) = FieldsBelow(p, a)
  <2>1. FieldsBelow(<<>>, Below(p, a)) = FieldsBelow(<<>> \o p, a)
    BY <1>2, FieldsBelowBelow
  <2>2. <<>> \o p = p
    OBVIOUS
  <2> QED BY <2>1, <2>2 DEF b
<1> QED BY <1>6, <1>7 DEF b

-----------------------------------------------------------------------------
(* Attributes that are given to a handler. *)

GivenAttrs == [open : Seq(Names), attr : Attributes]
Path(g) == IF g.attr.key = <<>> THEN <<>> ELSE Append(g.open, g.attr.key)
AskedOne == [g \in GivenAttrs |-> AskedBy(LeavesOf(g.open, g.attr))]

\* What one given attribute asks for, and what many do.
LEMMA PathType ==
  ASSUME NEW g \in GivenAttrs
  PROVE  /\ Path(g) \in Seq(Names) /\ Scalars[g.attr.value] \in Seq(Leaves)
         /\ LeavesOf(g.open, g.attr) = Below(Path(g), Scalars[g.attr.value])
         /\ AskedOne[g] \in Seq(Attributes)
<1>1. g.open \in Seq(Names) /\ g.attr.key \in GoStrings /\ g.attr.value \in Values
  BY DEF GivenAttrs, Attributes
<1>2. g.attr.key # <<>> => g.attr.key \in Names
  BY <1>1 DEF Names
<1>3. Path(g) \in Seq(Names)
  BY <1>1, <1>2 DEF Path
<1>4. Scalars[g.attr.value] \in Seq(Leaves)
  BY <1>1, ScalarsIs
<1>5. LeavesOf(g.open, g.attr) = Below(Path(g), Scalars[g.attr.value])
  BY DEF LeavesOf, Path
<1>6. AskedOne[g] \in Seq(Attributes)
  BY <1>3, <1>4, <1>5, BelowType, AskedByType DEF AskedOne
<1> QED BY <1>3, <1>4, <1>5, <1>6

LEMMA AskedByAllType ==
  ASSUME NEW a \in Seq(GivenAttrs)
  PROVE  /\ Mapped(AskedOne, a) \in Seq(Seq(Attributes))
         /\ AskedByAll(a) = FlattenSeq(Mapped(AskedOne, a))
         /\ AskedByAll(a) \in Seq(Attributes)
<1>1. \A g \in GivenAttrs : AskedOne[g] \in Seq(Attributes)
  BY PathType
<1>2. Mapped(AskedOne, a) \in Seq(Seq(Attributes))
  BY <1>1, MappedType
<1>3. AskedByAll(a) = FlattenSeq(Mapped(AskedOne, a))
  <2>1. \A i \in DOMAIN a : a[i] \in GivenAttrs
    OBVIOUS
  <2>2. [i \in DOMAIN a |-> AskedBy(LeavesOf(a[i].open, a[i].attr))] = Mapped(AskedOne, a)
    BY <2>1 DEF Mapped, AskedOne
  <2> QED BY <2>2 DEF AskedByAll
<1> QED BY <1>2, <1>3, FlattenType

LEMMA AskedByAllConcat ==
  ASSUME NEW a \in Seq(GivenAttrs), NEW b \in Seq(GivenAttrs)
  PROVE  AskedByAll(a \o b) = AskedByAll(a) \o AskedByAll(b)
<1>1. a \o b \in Seq(GivenAttrs)
  OBVIOUS
<1>2. Mapped(AskedOne, a \o b) = Mapped(AskedOne, a) \o Mapped(AskedOne, b)
  BY MappedConcat
<1>3. /\ Mapped(AskedOne, a) \in Seq(Seq(Attributes))
      /\ Mapped(AskedOne, b) \in Seq(Seq(Attributes))
  BY AskedByAllType
<1>4. FlattenSeq(Mapped(AskedOne, a) \o Mapped(AskedOne, b))
        = FlattenSeq(Mapped(AskedOne, a)) \o FlattenSeq(Mapped(AskedOne, b))
  BY <1>3, FlattenConcat
<1> QED BY <1>1, <1>2, <1>4, AskedByAllType

\* Attributes given while some groups are open.
LEMMA GivenType ==
  ASSUME NEW open \in Seq(Names), NEW attrs \in Seq(Attributes)
  PROVE  Given(open, attrs) \in Seq(GivenAttrs) /\ Len(Given(open, attrs)) = Len(attrs)
<1>1. ASSUME NEW i \in 1..Len(attrs)
      PROVE  /\ Given(open, attrs)[i] = [open |-> open, attr |-> attrs[i]]
             /\ Given(open, attrs)[i] \in GivenAttrs
  <2>1. i \in DOMAIN attrs /\ attrs[i] \in Attributes
    OBVIOUS
  <2>2. Given(open, attrs)[i] = [open |-> open, attr |-> attrs[i]]
    BY <2>1 DEF Given
  <2> QED BY <2>1, <2>2 DEF GivenAttrs
<1>2. Given(open, attrs) = [i \in 1..Len(attrs) |-> Given(open, attrs)[i]] /\ Len(attrs) \in Nat
  <2>1. DOMAIN attrs = 1..Len(attrs)
    OBVIOUS
  <2> QED BY <2>1 DEF Given
<1> QED BY <1>1, <1>2, IsSeq

\* The attributes that a handler converts become the fields that were asked for.
LEMMA ConvertedAsAsked ==
  ASSUME NEW h, NEW open \in Seq(Names), h.group = Dots(open), NEW attrs \in Seq(Attributes)
  PROVE  Converted(h, attrs) = AsFields(AskedByAll(Given(open, attrs)))
<1> DEFINE g == Given(open, attrs)
<1>1. g \in Seq(GivenAttrs) /\ Len(g) = Len(attrs)
  BY GivenType
<1>2. ASSUME NEW i \in DOMAIN attrs
      PROVE  appendAttr(h, attrs[i]) = AsFields(Mapped(AskedOne, g)[i])
  <2> DEFINE a == attrs[i]
             path == Path([open |-> open, attr |-> a])
  <2>1. a \in Attributes /\ [open |-> open, attr |-> a] \in GivenAttrs
    <3>1. a \in Attributes
      OBVIOUS
    <3> HIDE DEF a
    <3> QED BY <3>1 DEF GivenAttrs
  <2>2. a.key \in GoStrings /\ a.value \in Values
    BY <2>1 DEF Attributes
  <2>3. Mapped(AskedOne, g)[i] = AskedBy(LeavesOf(open, a))
    <3>1. i \in DOMAIN g /\ g[i] = [open |-> open, attr |-> a]
      BY <1>1 DEF Given
    <3> HIDE DEF a, g
    <3>2. Mapped(AskedOne, g)[i] = AskedOne[g[i]]
      BY <3>1 DEF Mapped
    <3> QED BY <2>1, <3>1, <3>2 DEF AskedOne
  <2>4. /\ path \in Seq(Names) /\ Scalars[a.value] \in Seq(Leaves)
        /\ LeavesOf(open, a) = Below(path, Scalars[a.value])
    BY <2>1, PathType
  <2>5. (IF a.key = <<>> THEN <<>> ELSE Dotted(h.group, a.key)) = Dots(path)
    <3>1. CASE a.key = <<>>
      <4>1. path = <<>> /\ <<>> \in Seq(Names)
        <5> HIDE DEF a
        <5> QED BY <3>1 DEF Path
      <4> QED BY <3>1, <4>1, DotsTyped
    <3>2. CASE a.key # <<>>
      <4>1. a.key \in Names /\ path = Append(open, a.key)
        BY <2>2, <3>2 DEF Names, Path
      <4> QED BY <3>2, <4>1, DotsAppend
    <3> QED BY <3>1, <3>2
  <2>6. appendAttr(h, a) = appendSlogValue[a.value][Dots(path)]
    BY <2>5 DEF appendAttr
  <2> HIDE DEF a, path
  <2>7. appendSlogValue[a.value][Dots(path)] = FieldsBelow(path, Scalars[a.value])
    BY <2>2, <2>4, ValueFields
  <2>8. AsFields(AskedBy(Below(path, Scalars[a.value]))) = FieldsBelow(path, Scalars[a.value])
    BY <2>4, AskedByFields
  <2> QED BY <2>3, <2>4, <2>6, <2>7, <2>8 DEF a
<1> HIDE DEF g
<1>3. Mapped(AskedOne, g) \in Seq(Seq(Attributes)) /\ AskedByAll(g) = FlattenSeq(Mapped(AskedOne, g))
  BY <1>1, AskedByAllType
<1>4. AsFields(AskedByAll(g)) = FlattenSeq([i \in DOMAIN Mapped(AskedOne, g) |-> AsFields(Mapped(AskedOne, g)[i])])
  BY <1>3, AsFieldsFlatten
<1>5. [i \in DOMAIN Mapped(AskedOne, g) |-> AsFields(Mapped(AskedOne, g)[i])]
        = [i \in DOMAIN attrs |-> appendAttr(h, attrs[i])]
  <2>1. DOMAIN Mapped(AskedOne, g) = DOMAIN attrs
    BY <1>1 DEF Mapped
  <2> QED BY <1>2, <2>1
<1> QED BY <1>4, <1>5 DEF Converted, g

-----------------------------------------------------------------------------
(* Fields of the context. *)

OfContext == {Asked(k, Text(<<"id">>)) : k \in {<<Ids[i]>> : i \in DOMAIN Ids}}

\* The identifiers of a context are String fields, behind the attributes.
LEMMA PresentType ==
  \A ctx : Present(ctx) \in Seq({<<Ids[i]>> : i \in DOMAIN Ids})
<1> TAKE ctx
<1> DEFINE T == {<<Ids[i]>> : i \in DOMAIN Ids}
           s == [i \in DOMAIN Ids |-> IF Ids[i] \in ctx THEN <<<<Ids[i]>>>> ELSE <<>>]
<1>1. \A i \in DOMAIN Ids : <<Ids[i]>> \in T
  OBVIOUS
<1> HIDE DEF T
<1>2. \A i \in DOMAIN Ids : s[i] \in Seq(T)
  BY <1>1
<1>3. DOMAIN Ids = 1..3
  BY DEF Ids
<1>4. s \in Seq(Seq(T))
  <2>1. s = [i \in 1..3 |-> s[i]]
    BY <1>3
  <2> HIDE DEF s
  <2> QED BY <1>2, <1>3, <2>1, IsSeq
<1> HIDE DEF s
<1>5. FlattenSeq(s) \in Seq(T)
  BY <1>4, FlattenType
<1> QED BY <1>5 DEF Present, s, T

LEMMA AskedByContextType ==
  \A ctx : AskedByContext(ctx) \in Seq(OfContext)
<1> TAKE ctx
<1> DEFINE T == {<<Ids[i]>> : i \in DOMAIN Ids}
           b == AskedByContext(ctx)
<1>1. Present(ctx) \in Seq(T)
  BY PresentType
<1>2. Len(Present(ctx)) \in Nat /\ DOMAIN Present(ctx) = 1..Len(Present(ctx))
  BY <1>1
<1>3. \A i \in 1..Len(Present(ctx)) : b[i] \in OfContext
  <2> TAKE i \in 1..Len(Present(ctx))
  <2>1. Present(ctx)[i] \in T
    BY <1>1, <1>2
  <2>2. b[i] = Asked(Present(ctx)[i], Text(<<"id">>))
    BY <1>2 DEF AskedByContext
  <2> QED BY <2>1, <2>2 DEF OfContext
<1>4. b = [i \in 1..Len(Present(ctx)) |-> b[i]]
  BY <1>2 DEF AskedByContext
<1> HIDE DEF b
<1>5. b \in Seq(OfContext)
  BY <1>2, <1>3, <1>4, IsSeq
<1> QED BY <1>5 DEF b

LEMMA ContextFields ==
  \A ctx : AsFields(AskedByContext(ctx)) = [i \in DOMAIN Present(ctx) |-> Field(Present(ctx)[i], "String", 0, <<"id">>)]
<1> TAKE ctx
<1>1. \A k : FieldOf(k, Text(<<"id">>)) = Field(k, "String", 0, <<"id">>)
  BY DEF FieldOf, Text
<1> QED BY <1>1 DEF AsFields, AskedByContext, Asked

\* Whatever was asked, as fields, one after the other.
LEMMA AsFieldsJoined ==
  ASSUME NEW S, NEW a \in Seq(S), NEW b \in Seq(S)
  PROVE  AsFields(a \o b) = AsFields(a) \o AsFields(b)
<1> DEFINE AsOne == [x \in S |-> FieldOf(x.key, x.value)]
<1>1. ASSUME NEW c \in Seq(S) PROVE AsFields(c) = Mapped(AsOne, c)
  <2>1. \A i \in DOMAIN c : c[i] \in S
    OBVIOUS
  <2> QED BY <2>1 DEF AsFields, Mapped
<1> HIDE DEF AsOne
<1>2. a \o b \in Seq(S)
  OBVIOUS
<1>3. Mapped(AsOne, a \o b) = Mapped(AsOne, a) \o Mapped(AsOne, b)
  BY MappedConcat
<1> QED BY <1>1, <1>2, <1>3

LEMMA AsFieldsWithContext ==
  ASSUME NEW a \in Seq(Attributes), NEW ctx
  PROVE  AsFields(a \o AskedByContext(ctx)) = appendCtxFieldsTyped(ctx, AsFields(a))
<1> DEFINE S == Attributes \cup OfContext
           b == AskedByContext(ctx)
<1>1. a \in Seq(S)
  OBVIOUS
<1>2. b \in Seq(S)
  <2> HIDE DEF b
  <2>1. b \in Seq(OfContext)
    BY AskedByContextType DEF b
  <2> QED BY <2>1
<1> HIDE DEF S, b
<1>3. AsFields(a \o b) = AsFields(a) \o AsFields(b)
  BY <1>1, <1>2, AsFieldsJoined
<1> QED BY <1>3, ContextFields DEF appendCtxFieldsTyped, b

-----------------------------------------------------------------------------
(* The inductive invariant. *)

SliceType == [array : Nat, len : Nat, group : GoStrings]
BoundType == [open : Seq(Names), attrs : Seq(GivenAttrs)]

HandlerTypes ==
  /\ currentLevel \in Debug..(Error + 1)
  /\ arrays \in Seq(Seq(SlogFields))
  /\ handlers \in Seq(SliceType) /\ bound \in Seq(BoundType)

\* A handler has its slice of an array, in which are the attributes that were
\* bound to it, and has the groups open for it as its prefix.
HandlerHas(inArrays, h, b) ==
  /\ h.array \in DOMAIN inArrays /\ h.len =< Len(inArrays[h.array])
  /\ SubSeq(inArrays[h.array], 1, h.len) = AsFields(AskedByAll(b.attrs))
  /\ h.group = Dots(b.open)

HandlersInv ==
  /\ HandlerTypes
  /\ Len(bound) = Len(handlers)
  /\ \A h \in DOMAIN handlers : HandlerHas(arrays, handlers[h], bound[h])
  /\ AttrsAsBound

\* The invariant holds of the first handler, and each call preserves it.
LEMMA HandlersInitInv == HandlersInit => HandlersInv
<1> SUFFICES ASSUME HandlersInit PROVE HandlersInv
  OBVIOUS
<1> USE DEF HandlersInit
<1>1. <<>> \in GoStrings /\ <<>> \in Seq(Names) /\ <<>> \in Seq(GivenAttrs) /\ <<>> \in Seq(SlogFields)
  BY DEF GoStrings
<1>2. HandlerTypes
  <2>1. currentLevel \in Debug..(Error + 1)
    BY DEF Debug, Info, Error
  <2>2. arrays \in Seq(Seq(SlogFields))
    BY <1>1
  <2>3. handlers \in Seq(SliceType)
    <3>1. [array |-> 1, len |-> 0, group |-> <<>>] \in SliceType
      BY <1>1 DEF SliceType
    <3> QED BY <3>1
  <2>4. bound \in Seq(BoundType)
    <3>1. [open |-> <<>>, attrs |-> <<>>] \in BoundType
      BY <1>1 DEF BoundType
    <3> QED BY <3>1
  <2> QED BY <2>1, <2>2, <2>3, <2>4 DEF HandlerTypes
<1>3. Len(bound) = Len(handlers)
  OBVIOUS
<1>4. \A h \in DOMAIN handlers : HandlerHas(arrays, handlers[h], bound[h])
  <2> TAKE h \in DOMAIN handlers
  <2>1. handlers[h] = [array |-> 1, len |-> 0, group |-> <<>>] /\ bound[h] = [open |-> <<>>, attrs |-> <<>>]
    OBVIOUS
  <2>2. DOMAIN arrays = 1..1 /\ arrays[1] = <<>>
    OBVIOUS
  <2>3. SubSeq(arrays[1], 1, 0) = <<>>
    BY <2>2
  <2>4. AskedByAll(<<>>) = <<>>
    BY FlattenEmpty DEF AskedByAll
  <2>5. AsFields(<<>>) = <<>>
    BY DEF AsFields
  <2>6. Dots(<<>>) = <<>>
    BY <1>1, DotsTyped
  <2> DEFINE s == [array |-> 1, len |-> 0, group |-> <<>>]
             b == [open |-> <<>>, attrs |-> <<>>]
  <2>7. s.array = 1 /\ s.len = 0 /\ s.group = <<>> /\ b.open = <<>> /\ b.attrs = <<>>
    OBVIOUS
  <2>8. Len(arrays[1]) = 0 /\ 1 \in DOMAIN arrays
    BY <2>2
  <2> HIDE DEF s, b, HandlersInit
  <2>9. s.array \in DOMAIN arrays /\ s.len =< Len(arrays[s.array])
    BY <2>7, <2>8
  <2>10. SubSeq(arrays[s.array], 1, s.len) = AsFields(AskedByAll(b.attrs))
    BY <2>3, <2>4, <2>5, <2>7
  <2>11. s.group = Dots(b.open)
    BY <2>6, <2>7
  <2>12. HandlerHas(arrays, s, b)
    BY <2>9, <2>10, <2>11 DEF HandlerHas
  <2> QED BY <2>1, <2>12 DEF s, b
<1>5. AttrsAsBound
  BY DEF AttrsAsBound, NoRecord, AsFields
<1> QED BY <1>2, <1>3, <1>4, <1>5 DEF HandlersInv

LEMMA SetLevelInv == HandlersInv /\ SetLevelValue => HandlersInv'
<1> SUFFICES ASSUME HandlersInv, SetLevelValue PROVE HandlersInv'
  OBVIOUS
<1>1. AttrsAsBound'
  BY DEF SetLevelValue, AttrsAsBound, NoRecord, AsFields
<1> QED BY <1>1 DEF HandlersInv, HandlerTypes, SetLevelValue

\* Handle: the fields of the record are the slice of the handler, the converted
\* attributes and the identifiers.
LEMMA HandleInv ==
  ASSUME HandlersInv, NEW h \in DOMAIN handlers, HandleRecord(h)
  PROVE  HandlersInv'
<1> DEFINE s == handlers[h]
           b == bound[h]
<1>1. PICK attrs \in Attrs, ctx \in Contexts :
        /\ record'.fields = appendCtxFieldsTyped(ctx, AttrsOf(s) \o Converted(s, attrs))
        /\ record'.asked = AskedByAll(b.attrs \o Given(b.open, attrs)) \o AskedByContext(ctx)
  BY DEF HandleRecord
<1>2. attrs \in Seq(Attributes)
  BY SlogAssumption
<1>3. b.open \in Seq(Names) /\ b.attrs \in Seq(GivenAttrs)
  <2>1. b \in BoundType
    BY DEF HandlersInv, HandlerTypes
  <2> QED BY <2>1 DEF BoundType
<1>4. AttrsOf(s) = AsFields(AskedByAll(b.attrs)) /\ s.group = Dots(b.open)
  BY DEF HandlersInv, HandlerHas, AttrsOf
<1> HIDE DEF s, b
<1> DEFINE g == Given(b.open, attrs)
<1>5. g \in Seq(GivenAttrs) /\ b.attrs \o g \in Seq(GivenAttrs)
  <2>1. g \in Seq(GivenAttrs)
    BY <1>2, <1>3, GivenType
  <2> HIDE DEF g
  <2> QED BY <1>3, <2>1
<1>6. Converted(s, attrs) = AsFields(AskedByAll(g))
  BY <1>2, <1>3, <1>4, ConvertedAsAsked
<1> HIDE DEF g
<1>7. AskedByAll(b.attrs \o g) = AskedByAll(b.attrs) \o AskedByAll(g)
  BY <1>3, <1>5, AskedByAllConcat
<1>8. /\ AskedByAll(b.attrs) \in Seq(Attributes) /\ AskedByAll(g) \in Seq(Attributes)
      /\ AskedByAll(b.attrs \o g) \in Seq(Attributes)
  BY <1>3, <1>5, AskedByAllType
<1>9. AsFields(AskedByAll(b.attrs \o g)) = AttrsOf(s) \o Converted(s, attrs)
  BY <1>4, <1>6, <1>7, <1>8, AsFieldsConcat
<1>10. AsFields(record'.asked) = record'.fields
  BY <1>1, <1>8, <1>9, AsFieldsWithContext DEF g
<1>11. AttrsAsBound'
  BY <1>10 DEF AttrsAsBound
<1> QED BY <1>11 DEF HandlersInv, HandlerTypes, HandleRecord

\* A derived handler that has what was bound to it, in arrays of which those of
\* the other handlers are left as they were.
LEMMA DeriveInv ==
  ASSUME HandlersInv, NEW handler \in SliceType, NEW attrs \in Seq(GivenAttrs), NEW open \in Seq(Names),
         Derive(handler, attrs, open),
         arrays' \in Seq(Seq(SlogFields)), Len(arrays) =< Len(arrays'),
         \A i \in DOMAIN arrays : arrays'[i] = arrays[i],
         HandlerHas(arrays', handler, [open |-> open, attrs |-> attrs])
  PROVE  HandlersInv'
<1> DEFINE b == [open |-> open, attrs |-> attrs]
<1>1. b \in BoundType
  BY DEF BoundType
<1>2. HandlerTypes'
  <2>1. handlers' = Append(handlers, handler) /\ bound' = Append(bound, b) /\ currentLevel' = currentLevel
    BY DEF Derive
  <2> QED BY <1>1, <2>1 DEF HandlersInv, HandlerTypes
<1>3. /\ Len(handlers') = Len(handlers) + 1 /\ Len(bound') = Len(handlers) + 1
      /\ DOMAIN handlers = 1..Len(handlers) /\ DOMAIN handlers' = 1..(Len(handlers) + 1)
      /\ Len(handlers) \in Nat
  BY DEF Derive, HandlersInv, HandlerTypes
<1>4. \A i \in 1..Len(handlers) : handlers'[i] = handlers[i] /\ bound'[i] = bound[i]
  BY DEF Derive, HandlersInv, HandlerTypes
<1>5. handlers'[Len(handlers) + 1] = handler /\ bound'[Len(handlers) + 1] = b
  BY DEF Derive, HandlersInv, HandlerTypes
<1>6. ASSUME NEW i \in DOMAIN handlers PROVE HandlerHas(arrays', handlers'[i], bound'[i])
  <2> DEFINE s == handlers[i]
  <2>1. s \in SliceType /\ HandlerHas(arrays, s, bound[i])
    BY DEF HandlersInv, HandlerTypes
  <2>2. handlers'[i] = s /\ bound'[i] = bound[i]
    BY <1>3, <1>4
  <2>3. s.array \in DOMAIN arrays /\ s.array \in DOMAIN arrays' /\ arrays'[s.array] = arrays[s.array]
    <3> HIDE DEF s
    <3>1. s.array \in DOMAIN arrays
      BY <2>1 DEF HandlerHas
    <3> QED BY <3>1 DEF HandlersInv, HandlerTypes
  <2> HIDE DEF s
  <2> QED BY <2>1, <2>2, <2>3 DEF HandlerHas
<1>7. \A i \in DOMAIN handlers' : HandlerHas(arrays', handlers'[i], bound'[i])
  <2> TAKE i \in DOMAIN handlers'
  <2>1. CASE i \in DOMAIN handlers
    BY <1>6, <2>1
  <2>2. CASE i = Len(handlers) + 1
    BY <1>5, <2>2
  <2> QED BY <1>3, <2>1, <2>2
<1>8. AttrsAsBound'
  BY DEF Derive, AttrsAsBound, NoRecord, AsFields
<1> QED BY <1>2, <1>3, <1>7, <1>8 DEF HandlersInv

\* WithAttrs: the array is new, and is the slice of the old one and the converted
\* attributes.
LEMMA WithAttrsInv ==
  ASSUME HandlersInv, NEW h \in DOMAIN handlers, WithAttrs(h)
  PROVE  HandlersInv'
<1> DEFINE s == handlers[h]
           b == bound[h]
<1>1. PICK attrs \in BoundAttrs :
        LET fields == Converted(s, attrs)
        IN  /\ arrays' = Append(arrays, AttrsOf(s) \o fields)
            /\ Derive([s EXCEPT !.array = Len(arrays) + 1, !.len = @ + Len(fields)],
                      b.attrs \o Given(b.open, attrs), b.open)
  BY DEF WithAttrs, NewAttrs
<1> DEFINE fields  == Converted(s, attrs)
           longer  == AttrsOf(s) \o fields
           handler == [s EXCEPT !.array = Len(arrays) + 1, !.len = @ + Len(fields)]
           g       == Given(b.open, attrs)
<1>2. attrs \in Seq(Attributes)
  BY SlogAssumption
<1>3. b.open \in Seq(Names) /\ b.attrs \in Seq(GivenAttrs)
  <2>1. b \in BoundType
    BY DEF HandlersInv, HandlerTypes
  <2> QED BY <2>1 DEF BoundType
<1>4. s \in SliceType /\ arrays \in Seq(Seq(SlogFields)) /\ HandlerHas(arrays, s, b)
  BY DEF HandlersInv, HandlerTypes
<1> HIDE DEF s, b
<1>5. s.array \in DOMAIN arrays /\ s.len \in 0..Len(arrays[s.array]) /\ arrays[s.array] \in Seq(SlogFields)
  BY <1>4 DEF HandlerHas, SliceType
<1>6. AttrsOf(s) \in Seq(SlogFields) /\ Len(AttrsOf(s)) = s.len
  BY <1>5 DEF AttrsOf
<1>7. g \in Seq(GivenAttrs)
  BY <1>2, <1>3, GivenType
<1>8. fields = AsFields(AskedByAll(g))
  BY <1>2, <1>3, <1>4, ConvertedAsAsked DEF HandlerHas
<1> HIDE DEF g
<1>9. AskedByAll(g) \in Seq(Attributes) /\ AskedByAll(b.attrs) \in Seq(Attributes)
  BY <1>3, <1>7, AskedByAllType
<1>10. fields \in Seq(SlogFields)
  BY <1>8, <1>9, AsFieldsIs
<1> HIDE DEF fields
<1>11. longer \in Seq(SlogFields) /\ Len(longer) = s.len + Len(fields) /\ SubSeq(longer, 1, Len(longer)) = longer
  BY <1>6, <1>10
<1>12. longer = AsFields(AskedByAll(b.attrs \o g))
  <2>1. AttrsOf(s) = AsFields(AskedByAll(b.attrs))
    BY <1>4 DEF HandlerHas, AttrsOf
  <2>2. AskedByAll(b.attrs \o g) = AskedByAll(b.attrs) \o AskedByAll(g)
    BY <1>3, <1>7, AskedByAllConcat
  <2> QED BY <1>8, <1>9, <2>1, <2>2, AsFieldsConcat
<1> HIDE DEF longer
<1>13. arrays' = Append(arrays, longer) /\ Derive(handler, b.attrs \o g, b.open)
  BY <1>1 DEF fields, longer, g
<1>14. /\ arrays' \in Seq(Seq(SlogFields)) /\ Len(arrays) =< Len(arrays')
       /\ \A i \in DOMAIN arrays : arrays'[i] = arrays[i]
       /\ Len(arrays) + 1 \in DOMAIN arrays' /\ arrays'[Len(arrays) + 1] = longer
  BY <1>4, <1>11, <1>13
<1>15. /\ handler \in SliceType /\ handler.array = Len(arrays) + 1
       /\ handler.len = Len(longer) /\ handler.group = s.group
  <2>1. Len(arrays) + 1 \in Nat /\ Len(fields) \in Nat /\ s.len \in Nat
    BY <1>4, <1>5, <1>10
  <2>2. Len(longer) = s.len + Len(fields) /\ Len(longer) \in Nat
    BY <1>11, <2>1
  <2>3. handler.array = Len(arrays) + 1 /\ handler.len = s.len + Len(fields) /\ handler.group = s.group
    BY <1>4 DEF SliceType
  <2>4. \A k, n \in Nat : [s EXCEPT !.array = k, !.len = n] \in SliceType
    BY <1>4 DEF SliceType
  <2>5. handler = [s EXCEPT !.array = Len(arrays) + 1, !.len = s.len + Len(fields)]
    BY <1>4 DEF SliceType
  <2> QED BY <2>1, <2>2, <2>3, <2>4, <2>5
<1>16. b.attrs \o g \in Seq(GivenAttrs)
  BY <1>3, <1>7
<1>17. HandlerHas(arrays', handler, [open |-> b.open, attrs |-> b.attrs \o g])
  <2> HIDE DEF handler
  <2>1. s.group = Dots(b.open)
    BY <1>4 DEF HandlerHas
  <2> QED BY <1>11, <1>12, <1>14, <1>15, <2>1 DEF HandlerHas
<1> HIDE DEF handler
<1> QED BY <1>3, <1>13, <1>14, <1>15, <1>16, <1>17, DeriveInv

\* WithGroup: the slice is shared, the prefix is one name longer.
LEMMA WithGroupInv ==
  ASSUME HandlersInv, NEW h \in DOMAIN handlers, WithGroup(h)
  PROVE  HandlersInv'
<1> DEFINE s == handlers[h]
           b == bound[h]
<1>1. PICK name \in GroupNames :
        Derive([s EXCEPT !.group = Dotted(@, name)], b.attrs, Append(b.open, name))
  BY DEF WithGroup
<1>2. arrays' = arrays
  BY DEF WithGroup
<1> DEFINE handler == [s EXCEPT !.group = Dotted(@, name)]
           open    == Append(b.open, name)
<1>3. name \in Names /\ name \in GoStrings
  BY SlogAssumption DEF Names
<1>4. b.open \in Seq(Names) /\ b.attrs \in Seq(GivenAttrs)
  <2>1. b \in BoundType
    BY DEF HandlersInv, HandlerTypes
  <2> QED BY <2>1 DEF BoundType
<1>5. s \in SliceType /\ arrays \in Seq(Seq(SlogFields)) /\ HandlerHas(arrays, s, b)
  BY DEF HandlersInv, HandlerTypes
<1> HIDE DEF s, b
<1>6. open \in Seq(Names)
  BY <1>3, <1>4
<1>7. s.group = Dots(b.open) /\ Dots(open) = Dotted(Dots(b.open), name) /\ Dots(open) \in GoStrings
  BY <1>3, <1>4, <1>5, <1>6, DotsAppend, DotsTyped DEF HandlerHas
<1> HIDE DEF open
<1>8. /\ handler \in SliceType /\ handler.array = s.array /\ handler.len = s.len
      /\ handler.group = Dots(open)
  BY <1>5, <1>7 DEF SliceType
<1> HIDE DEF handler
<1>9. HandlerHas(arrays', handler, [open |-> open, attrs |-> b.attrs])
  BY <1>2, <1>5, <1>8 DEF HandlerHas
<1>10. Derive(handler, b.attrs, open)
  BY <1>1 DEF handler, open
<1> QED BY <1>2, <1>4, <1>5, <1>6, <1>8, <1>9, <1>10, DeriveInv

LEMMA HandlersStep == HandlersInv /\ [HandlersNext]_handlerVars => HandlersInv'
<1> SUFFICES ASSUME HandlersInv, [HandlersNext]_handlerVars PROVE HandlersInv'
  OBVIOUS
<1>1. CASE SetLevelValue
  BY <1>1, SetLevelInv
<1>2. ASSUME NEW h \in DOMAIN handlers, HandleRecord(h) PROVE HandlersInv'
  BY <1>2, HandleInv
<1>3. ASSUME NEW h \in DOMAIN handlers, WithAttrs(h) PROVE HandlersInv'
  BY <1>3, WithAttrsInv
<1>4. ASSUME NEW h \in DOMAIN handlers, WithGroup(h) PROVE HandlersInv'
  BY <1>4, WithGroupInv
<1>5. CASE UNCHANGED handlerVars
  BY <1>5 DEF HandlersInv, HandlerTypes, AttrsAsBound, handlerVars
<1> QED BY <1>1, <1>2, <1>3, <1>4, <1>5 DEF HandlersNext

LEMMA HandlersInvariant == HandlersSpec => []HandlersInv
BY HandlersInitInv, HandlersStep, PTL DEF HandlersSpec

\* Of the calls that a logger gets, those through slog are the calls of its
\* handlers, and the others leave these alone.
THEOREM AdapterHandles == AdapterSpec => HandlersSpec
<1>1. AdapterInit => HandlersInit
  BY DEF AdapterInit
<1>2. AdapterNext => HandlersNext \/ UNCHANGED handlerVars
  <2>1. LogFields \/ LogCtx \/ WriterWrite => UNCHANGED handlerVars
    BY DEF LogFields, LogCtx, WriterWrite, Direct
  <2>2. Prepare => HandlersNext
    BY DEF Prepare, HandlersNext
  <2>3. SlogLog => HandlersNext
    BY DEF SlogLog, HandlersNext
  <2> QED BY <2>1, <2>2, <2>3 DEF AdapterNext
<1>3. UNCHANGED adapterVars => UNCHANGED handlerVars
  BY DEF adapterVars
<1>4. [AdapterNext]_adapterVars => [HandlersNext]_handlerVars
  BY <1>2, <1>3
<1> QED BY <1>1, <1>4, PTL DEF AdapterSpec, HandlersSpec

\* A record has the attributes that were bound to its handler and to those it
\* was derived from, below the groups open then, and its own: no derivation
\* writes into an array that another handler reads (loggerj_slog.go:111-113).
THEOREM AttributesAsBound == AdapterSpec => []AttrsAsBound
<1>1. HandlersInv => AttrsAsBound
  BY DEF HandlersInv
<1> QED BY <1>1, HandlersInvariant, AdapterHandles, PTL

\* Enabled and Handle, for each range of slog levels between two names.
LEMMA LevelsAgree == HandlersInv => EnabledAgrees
<1> SUFFICES ASSUME HandlersInv, NEW l \in SlogLevels, l >= slogLevel.Debug, currentLevel =< Error
             PROVE  Enabled(l) <=> ~Filtered(slogToLoggerjLevel(l))
  BY DEF EnabledAgrees
<1>1. l \in Int /\ currentLevel \in 0..3
  BY SlogAssumption DEF HandlersInv, HandlerTypes, Debug, Error
<1>2. slogLevel.Debug = -4 /\ slogLevel.Info = 0 /\ slogLevel.Warn = 4 /\ slogLevel.Error = 8
  BY DEF slogLevel
<1>3. loggerjToSlogLevel(currentLevel) = CASE currentLevel = 0 -> -4 [] currentLevel = 1 -> 0
                                           [] currentLevel = 2 -> 4 [] currentLevel = 3 -> 8
  BY <1>1, <1>2 DEF loggerjToSlogLevel, Debug, Info, Warn, Error
<1>4. CASE l < 0
  <2>1. slogToLoggerjLevel(l) = 0
    BY <1>2, <1>4 DEF slogToLoggerjLevel, Debug
  <2> QED BY <1>1, <1>2, <1>3, <1>4, <2>1 DEF Enabled, Filtered
<1>5. CASE l \in 0..3
  <2>1. slogToLoggerjLevel(l) = 1
    BY <1>2, <1>5 DEF slogToLoggerjLevel, Info
  <2> QED BY <1>1, <1>2, <1>3, <1>5, <2>1 DEF Enabled, Filtered
<1>6. CASE l \in 4..7
  <2>1. slogToLoggerjLevel(l) = 2
    BY <1>2, <1>6 DEF slogToLoggerjLevel, Warn
  <2> QED BY <1>1, <1>2, <1>3, <1>6, <2>1 DEF Enabled, Filtered
<1>7. CASE l >= 8
  <2>1. slogToLoggerjLevel(l) = 3
    BY <1>1, <1>2, <1>7 DEF slogToLoggerjLevel, Error
  <2> QED BY <1>1, <1>2, <1>3, <1>7, <2>1 DEF Enabled, Filtered
<1> QED BY <1>1, <1>4, <1>5, <1>6, <1>7

\* Enabled answers what Handle will do with a record, for every slog level from
\* Debug up and every level of the logger that has a name.
THEOREM EnabledMatchesHandle == AdapterSpec => []EnabledAgrees
BY LevelsAgree, HandlersInvariant, AdapterHandles, PTL

-----------------------------------------------------------------------------
(* The escapers copy runs of symbols; what they write is each symbol, escaped. *)

\* How the fold of Escaped goes on by one symbol.
EscapeStep(s, E, r, i) ==
  IF s[i] \notin DOMAIN E THEN r
  ELSE [buf |-> r.buf \o SubSeq(s, r.start, i - 1) \o <<"\\", E[s[i]]>>, start |-> StartAfter(i)]

Indices(s) == DOMAIN [i \in DOMAIN s |-> i]

Escaping(g, s, E) ==
  g = [t \in SUBSET Indices(s) |-> IF t = {} THEN [buf |-> <<>>, start |-> 1]
                   ELSE EscapeStep(s, E, g[t \ {Max(t)}], [i \in DOMAIN s |-> i][Max(t)])]

EscapeRun(s, E) == CHOOSE g : Escaping(g, s, E)

\* Escaped is what the fold gives, and the run that is left.
LEMMA EscapedIsRun ==
  ASSUME NEW s, NEW E
  PROVE  Escaped(s, E) = EscapeRun(s, E)[Indices(s)].buf
                           \o SubSeq(s, EscapeRun(s, E)[Indices(s)].start, Len(s))
BY DEF Escaped, FoldLeftDomain, FoldLeft, MapThenFoldSet, EscapeRun, Escaping, EscapeStep, Indices

Output(T, E)   == T \cup {"\\"} \cup {E[x] : x \in DOMAIN E}
Progress(T, E) == [buf : Seq(Output(T, E)), start : Nat \ {0}]

\* The fold keeps a text and the start of the next run.
LEMMA EscapeStepType ==
  ASSUME NEW T, NEW E, NEW s \in Seq(T), NEW r \in Progress(T, E), NEW i \in 1..Len(s)
  PROVE  EscapeStep(s, E, r, i) \in Progress(T, E)
<1> DEFINE U == Output(T, E)
<1>1. CASE s[i] \notin DOMAIN E
  BY <1>1 DEF EscapeStep
<1>2. CASE s[i] \in DOMAIN E
  <2> DEFINE run == SubSeq(s, r.start, i - 1)
             esc == <<"\\", E[s[i]]>>
  <2>1. r.buf \in Seq(U) /\ r.start \in Nat \ {0}
    BY DEF Progress
  <2>2. run \in Seq(T)
    BY <2>1, SubSeqProperties
  <2>3. "\\" \in U /\ E[s[i]] \in U /\ T \subseteq U
    BY <1>2 DEF Output
  <2> HIDE DEF U, run
  <2>4. run \in Seq(U) /\ esc \in Seq(U)
    BY <2>2, <2>3
  <2> HIDE DEF esc
  <2>5. r.buf \o run \o esc \in Seq(U)
    BY <2>1, <2>4
  <2>6. EscapeStep(s, E, r, i) = [buf |-> r.buf \o run \o esc, start |-> i + 1]
    BY <1>2 DEF EscapeStep, StartAfter, run, esc
  <2> QED BY <2>5, <2>6 DEF Progress, U
<1> QED BY <1>1, <1>2

TakesLast(s, E, t) ==
  EscapeRun(s, E)[t] = EscapeStep(s, E, EscapeRun(s, E)[t \ {Max(t)}], Max(t))

\* The fold is the function that its definition says.
LEMMA EscapeRunIs ==
  ASSUME NEW T, NEW E, NEW s \in Seq(T)
  PROVE  /\ Indices(s) = 1..Len(s)
         /\ EscapeRun(s, E)[{}] = [buf |-> <<>>, start |-> 1]
         /\ \A t \in SUBSET (1..Len(s)) : EscapeRun(s, E)[t] \in Progress(T, E)
         /\ \A t \in SUBSET (1..Len(s)) : t # {} => TakesLast(s, E, t)
<1> DEFINE n == Len(s)
           base == [buf |-> <<>>, start |-> 1]
           R == Progress(T, E)
           step == [r \in R |-> [i \in 1..n |-> EscapeStep(s, E, r, i)]]
<1>1. n \in Nat /\ DOMAIN s = 1..n /\ Indices(s) = 1..n
  BY DEF Indices
<1>2. base \in R
  BY DEF Progress
<1>3. \A r \in R : \A i \in 1..n : step[r][i] = EscapeStep(s, E, r, i) /\ step[r][i] \in R
  BY EscapeStepType
<1> HIDE DEF n, base, R, step
<1>4. PICK g : LeftFold(g, step, base, SUBSET (1..n))
  BY <1>1, LeftFoldExists
<1>5. \A t \in SUBSET (1..n) : g[t] \in R
  <2>1. g[{}] \in R
    BY <1>2, <1>4 DEF LeftFold
  <2>2. \A t \in SUBSET (1..n) : t # {} /\ g[t \ {Max(t)}] \in R => g[t] \in R
    <3> TAKE t \in SUBSET (1..n)
    <3> HAVE t # {} /\ g[t \ {Max(t)}] \in R
    <3>1. Max(t) \in 1..n
      <4>1. Max(t) \in t
        BY <1>1, LargestIndex
      <4> QED BY <4>1
    <3>2. g[t] = step[g[t \ {Max(t)}]][Max(t)]
      BY <1>4 DEF LeftFold
    <3> QED BY <1>3, <3>1, <3>2
  <2> QED BY <1>1, <2>1, <2>2, LeftFoldType
<1>6. ASSUME NEW t \in SUBSET (1..n), t # {}
      PROVE  t \ {Max(t)} \in SUBSET (1..n) /\ Max(t) \in 1..n /\ [i \in DOMAIN s |-> i][Max(t)] = Max(t)
  <2>1. Max(t) \in t
    BY <1>1, <1>6, LargestIndex
  <2> QED BY <1>1, <2>1
<1>7. g = [t \in SUBSET (1..n) |-> IF t = {} THEN base
             ELSE EscapeStep(s, E, g[t \ {Max(t)}], [i \in DOMAIN s |-> i][Max(t)])]
  <2>1. g = [t \in SUBSET (1..n) |-> IF t = {} THEN base ELSE step[g[t \ {Max(t)}]][Max(t)]]
    BY <1>4 DEF LeftFold
  <2>2. ASSUME NEW t \in SUBSET (1..n), t # {}
        PROVE  step[g[t \ {Max(t)}]][Max(t)] = EscapeStep(s, E, g[t \ {Max(t)}], [i \in DOMAIN s |-> i][Max(t)])
    BY <1>3, <1>5, <1>6, <2>2
  <2> QED BY <2>1, <2>2
<1>8. Escaping(g, s, E)
  BY <1>1, <1>7 DEF Escaping, base
<1>9. Escaping(EscapeRun(s, E), s, E)
  BY <1>8 DEF EscapeRun
<1> DEFINE h == EscapeRun(s, E)
<1> HIDE DEF h
<1>10. h = [t \in SUBSET (1..n) |-> IF t = {} THEN base
             ELSE EscapeStep(s, E, h[t \ {Max(t)}], [i \in DOMAIN s |-> i][Max(t)])]
  BY <1>1, <1>9 DEF Escaping, base, h
<1>11. ASSUME NEW t \in SUBSET (1..n)
       PROVE  h[t] = IF t = {} THEN base ELSE EscapeStep(s, E, h[t \ {Max(t)}], Max(t))
  BY <1>6, <1>10
<1>12. \A t \in SUBSET (1..n) : h[t] \in R
  <2>1. h[{}] \in R
    BY <1>2, <1>11
  <2>2. ASSUME NEW t \in SUBSET (1..n), t # {}, h[t \ {Max(t)}] \in R
        PROVE  h[t] \in R
    <3>1. h[t] = EscapeStep(s, E, h[t \ {Max(t)}], Max(t))
      BY <1>11, <2>2
    <3>2. Max(t) \in 1..n
      BY <1>6, <2>2
    <3> QED BY <1>3, <2>2, <3>1, <3>2
  <2> QED BY <1>1, <2>1, <2>2, LeftFoldType
<1>13. h[{}] = base /\ \A t \in SUBSET (1..n) : t # {} => h[t] = EscapeStep(s, E, h[t \ {Max(t)}], Max(t))
  BY <1>11
<1>14. \A t \in SUBSET (1..n) : t # {} => TakesLast(s, E, t)
  BY <1>13 DEF TakesLast, h
<1> QED BY <1>1, <1>12, <1>13, <1>14 DEF n, base, R, h

\* A symbol as it is written, and a text symbol by symbol.
Escape(E, x) == IF x \in DOMAIN E THEN <<"\\", E[x]>> ELSE <<x>>
Symbolwise(s, E) == FlattenSeq([i \in DOMAIN s |-> Escape(E, s[i])])

\* What a symbol, and a text, is written as; one symbol more is written behind.
LEMMA EscapeType ==
  ASSUME NEW T, NEW E, NEW x \in T
  PROVE  Escape(E, x) \in Seq(Output(T, E)) /\ T \subseteq Output(T, E)
<1> DEFINE U == Output(T, E)
<1>1. T \subseteq U /\ "\\" \in U /\ (x \in DOMAIN E => E[x] \in U)
  BY DEF Output
<1> HIDE DEF U
<1>2. CASE x \in DOMAIN E
  BY <1>1, <1>2 DEF Escape, U
<1>3. CASE x \notin DOMAIN E
  BY <1>1, <1>3 DEF Escape, U
<1> QED BY <1>1, <1>2, <1>3 DEF U

LEMMA SymbolwiseType ==
  ASSUME NEW T, NEW E, NEW s \in Seq(T)
  PROVE  Symbolwise(s, E) \in Seq(Output(T, E))
<1> DEFINE H == [x \in T |-> Escape(E, x)]
           U == Output(T, E)
<1>1. \A x \in T : H[x] \in Seq(U)
  BY EscapeType
<1>2. [i \in DOMAIN s |-> Escape(E, s[i])] = Mapped(H, s)
  <2>1. \A i \in DOMAIN s : s[i] \in T
    OBVIOUS
  <2> QED BY <2>1 DEF Mapped
<1> HIDE DEF H, U
<1>3. Mapped(H, s) \in Seq(Seq(U))
  BY <1>1, MappedType
<1>4. FlattenSeq(Mapped(H, s)) \in Seq(U)
  BY <1>3, FlattenType
<1> QED BY <1>2, <1>4 DEF Symbolwise, U

LEMMA SymbolwiseAppend ==
  ASSUME NEW T, NEW E, NEW s \in Seq(T), NEW x \in T
  PROVE  Symbolwise(Append(s, x), E) = Symbolwise(s, E) \o Escape(E, x)
<1> DEFINE H == [y \in T |-> Escape(E, y)]
           U == Output(T, E)
<1>1. \A y \in T : H[y] = Escape(E, y) /\ H[y] \in Seq(U)
  BY EscapeType
<1>2. ASSUME NEW q \in Seq(T) PROVE Symbolwise(q, E) = FlattenSeq(Mapped(H, q))
  <2>1. \A i \in DOMAIN q : q[i] \in T
    OBVIOUS
  <2>2. [i \in DOMAIN q |-> Escape(E, q[i])] = Mapped(H, q)
    BY <2>1 DEF Mapped
  <2> QED BY <2>2 DEF Symbolwise
<1> HIDE DEF H, U
<1>3. Mapped(H, Append(s, x)) = Append(Mapped(H, s), H[x]) /\ Mapped(H, s) \in Seq(Seq(U))
  BY <1>1, MappedAppend, MappedType
<1>4. FlattenSeq(Append(Mapped(H, s), H[x])) = FlattenSeq(Mapped(H, s)) \o H[x]
  BY <1>1, <1>3, FlattenAppend
<1>5. Append(s, x) \in Seq(T)
  OBVIOUS
<1> QED BY <1>1, <1>2, <1>3, <1>4, <1>5

\* The first i symbols: the first i - 1, and the symbol at i.
LEMMA RunOfInterval ==
  ASSUME NEW T, NEW E, NEW s \in Seq(T), NEW i \in 1..Len(s)
  PROVE  EscapeRun(s, E)[1..i] = EscapeStep(s, E, EscapeRun(s, E)[1..(i - 1)], i)
<1>1. 1..i \in SUBSET (1..Len(s)) /\ 1..i # {} /\ i \in Nat /\ i # 0
  <2>1. i \in 1..i
    OBVIOUS
  <2> QED BY <2>1
<1>2. Max(1..i) = i /\ (1..i) \ {i} = 1..(i - 1)
  BY <1>1, LastOfInterval
<1>3. TakesLast(s, E, 1..i)
  BY <1>1, EscapeRunIs
<1> QED BY <1>2, <1>3 DEF TakesLast

\* A run, one symbol longer.
LEMMA CopiedRun ==
  ASSUME NEW T, NEW s \in Seq(T), NEW i \in 1..Len(s), NEW b \in 1..i
  PROVE  /\ SubSeq(s, b, i - 1) \in Seq(T) /\ SubSeq(s, i + 1, i) = <<>>
         /\ SubSeq(s, b, i) = SubSeq(s, b, i - 1) \o <<s[i]>>
         /\ SubSeq(s, b, i) = Append(SubSeq(s, b, i - 1), s[i])
BY SubSeqProperties

Cat(a, b) == a \o b

\* Concatenation by name, for the provers to see no further than the name.
LEMMA CatAssociative == \A U : \A a, b, c \in Seq(U) : Cat(Cat(a, b), c) = Cat(a, Cat(b, c))
BY Associative DEF Cat

\* What is left to copy after i symbols, behind what has been written, is what the
\* symbols are written as.
LEMMA EscapeStepKeeps ==
  ASSUME NEW T, NEW E, NEW s \in Seq(T), NEW i \in 1..Len(s), NEW r \in Progress(T, E),
         r.start \in 1..i, r.buf \o SubSeq(s, r.start, i - 1) = Symbolwise(SubSeq(s, 1, i - 1), E),
         NEW q, q = EscapeStep(s, E, r, i)
  PROVE  q.start \in 1..(i + 1) /\ q.buf \o SubSeq(s, q.start, i) = Symbolwise(SubSeq(s, 1, i), E)
<1> DEFINE U     == Output(T, E)
           x     == s[i]
           e     == Escape(E, x)
           left  == SubSeq(s, r.start, i - 1)
           front == SubSeq(s, 1, i - 1)
           all   == Symbolwise(SubSeq(s, 1, i), E)
<1>1. /\ left \in Seq(T) /\ SubSeq(s, r.start, i) = left \o <<x>> /\ SubSeq(s, i + 1, i) = <<>>
      /\ front \in Seq(T) /\ SubSeq(s, 1, i) = Append(front, x) /\ x \in T
  <2>1. 1 \in 1..i /\ x \in T
    OBVIOUS
  <2>2. left \in Seq(T) /\ SubSeq(s, r.start, i) = left \o <<x>> /\ SubSeq(s, i + 1, i) = <<>>
    BY CopiedRun
  <2>3. front \in Seq(T) /\ SubSeq(s, 1, i) = Append(front, x)
    BY <2>1, CopiedRun
  <2> QED BY <2>1, <2>2, <2>3
<1>2. r.buf \in Seq(U)
  BY DEF Progress
<1>3. e \in Seq(U) /\ T \subseteq U
  BY <1>1, EscapeType
<1>4. all = Symbolwise(front, E) \o e /\ Symbolwise(front, E) \in Seq(U)
  BY <1>1, SymbolwiseAppend, SymbolwiseType
<1>5. r.buf \o left = Symbolwise(front, E)
  OBVIOUS
<1> HIDE DEF U, front, all
<1>6. left \in Seq(U)
  <2> HIDE DEF left
  <2> QED BY <1>1, <1>3
<1>7. CASE x \in DOMAIN E
  <2>1. q = [buf |-> r.buf \o left \o <<"\\", E[x]>>, start |-> i + 1]
    BY <1>7 DEF EscapeStep, StartAfter
  <2>2. e = <<"\\", E[x]>>
    BY <1>7 DEF Escape
  <2> HIDE DEF left
  <2>0. r.buf \o left \o <<"\\", E[x]>> = r.buf \o left \o e
    BY <2>2
  <2> HIDE DEF e, x
  <2>8. q = [buf |-> r.buf \o left \o e, start |-> i + 1]
    BY <2>0, <2>1
  <2>3. q.buf = r.buf \o left \o e /\ q.start = i + 1
    BY ONLY <2>8
  <2>4. q.buf = all
    BY <1>4, <1>5, <2>3
  <2>5. all \in Seq(U)
    BY <1>3, <1>4
  <2>6. all \o <<>> = all
    BY <2>5
  <2>7. q.start \in 1..(i + 1)
    BY <2>3
  <2> QED BY <1>1, <2>3, <2>4, <2>6, <2>7 DEF all
<1>8. CASE x \notin DOMAIN E
  <2>1. q = r
    BY <1>8 DEF EscapeStep
  <2>2. e = <<x>>
    BY <1>8 DEF Escape
  <2> HIDE DEF left, e, x
  <2>3. (r.buf \o left) \o e = r.buf \o (left \o e)
    <3> DEFINE b == r.buf
    <3>1. b \in Seq(U) /\ left \in Seq(U) /\ e \in Seq(U)
      BY <1>2, <1>3, <1>6
    <3> HIDE DEF b
    <3>2. Cat(Cat(b, left), e) = Cat(b, Cat(left, e))
      BY <3>1, CatAssociative
    <3> QED BY <3>2 DEF b, Cat
  <2>4. r.buf \o SubSeq(s, r.start, i) = all
    BY <1>1, <1>4, <1>5, <2>2, <2>3
  <2> QED BY <2>1, <2>4 DEF all
<1> QED BY <1>7, <1>8

Copied(s, E, i) ==
  LET r == EscapeRun(s, E)[1..i]
  IN  r.start \in 1..(i + 1) /\ r.buf \o SubSeq(s, r.start, i) = Symbolwise(SubSeq(s, 1, i), E)

\* So it is after any number of symbols.
LEMMA EscapedSoFar ==
  ASSUME NEW T, NEW E, NEW s \in Seq(T)
  PROVE  \A i \in 0..Len(s) : Copied(s, E, i)
<1> DEFINE Bad == {i \in 0..Len(s) : ~Copied(s, E, i)}
<1> SUFFICES ASSUME Bad # {} PROVE FALSE
  OBVIOUS
<1>1. PICK i \in Bad : \A k \in Bad : i =< k
  <2>1. Bad \subseteq Nat
    OBVIOUS
  <2> HIDE DEF Bad
  <2> QED BY <2>1, LeastNat
<1>2. i \in 0..Len(s) /\ ~Copied(s, E, i) /\ \A k \in 0..Len(s) : ~(i =< k) => Copied(s, E, k)
  BY <1>1
<1> HIDE DEF Bad
<1>3. CASE i = 0
  <2> DEFINE r == EscapeRun(s, E)[{}]
  <2>1. r = [buf |-> <<>>, start |-> 1]
    BY EscapeRunIs
  <2> HIDE DEF r
  <2>2. r.buf = <<>> /\ r.start = 1
    BY <2>1
  <2>3. SubSeq(s, 1, 0) = <<>> /\ 1..0 = {}
    OBVIOUS
  <2>4. Symbolwise(<<>>, E) = <<>>
    BY FlattenEmpty DEF Symbolwise
  <2>5. r.buf \o SubSeq(s, r.start, 0) = <<>>
    BY <2>2, <2>3
  <2>6. EscapeRun(s, E)[1..0] = r
    BY <2>3 DEF r
  <2>7. Copied(s, E, 0)
    <3>1. r.start \in 1..(0 + 1)
      BY <2>2
    <3>2. r.buf \o SubSeq(s, r.start, 0) = Symbolwise(SubSeq(s, 1, 0), E)
      BY <2>3, <2>4, <2>5, Zenon
    <3> QED BY <2>6, <3>1, <3>2 DEF Copied
  <2> QED BY <1>2, <1>3, <2>7
<1>4. CASE i # 0
  <2> DEFINE r == EscapeRun(s, E)[1..(i - 1)]
             q == EscapeRun(s, E)[1..i]
  <2>1. i \in 1..Len(s) /\ i - 1 \in 0..Len(s) /\ ~(i =< i - 1) /\ i - 1 + 1 = i
    BY <1>2, <1>4
  <2>2. Copied(s, E, i - 1)
    BY <1>2, <2>1
  <2>3. r.start \in 1..i /\ r.buf \o SubSeq(s, r.start, i - 1) = Symbolwise(SubSeq(s, 1, i - 1), E)
    BY <2>1, <2>2 DEF Copied
  <2>4. q = EscapeStep(s, E, r, i)
    BY <2>1, RunOfInterval
  <2>5. r \in Progress(T, E)
    <3>1. 1..(i - 1) \in SUBSET (1..Len(s))
      BY <2>1
    <3> QED BY <3>1, EscapeRunIs
  <2> HIDE DEF r, q
  <2>6. q.start \in 1..(i + 1) /\ q.buf \o SubSeq(s, q.start, i) = Symbolwise(SubSeq(s, 1, i), E)
    BY <2>1, <2>3, <2>4, <2>5, EscapeStepKeeps
  <2>7. Copied(s, E, i)
    BY <2>6 DEF Copied, q
  <2> QED BY <1>2, <2>7
<1> QED BY <1>3, <1>4

\* Copying runs of symbols without an escape, and resuming behind each escape, loses
\* and repeats nothing: an escaper writes a text symbol by symbol (format.go:173-336).
THEOREM EscapedSymbolwise ==
  ASSUME NEW T, NEW E, NEW s \in Seq(T)
  PROVE  Escaped(s, E) = Symbolwise(s, E)
<1> DEFINE n == Len(s)
           end == EscapeRun(s, E)[1..n]
<1>1. n \in 0..n /\ SubSeq(s, 1, n) = s
  OBVIOUS
<1>2. end.buf \o SubSeq(s, end.start, n) = Symbolwise(SubSeq(s, 1, n), E)
  BY <1>1, EscapedSoFar DEF Copied
<1>3. Indices(s) = 1..n
  BY EscapeRunIs
<1>4. Escaped(s, E) = end.buf \o SubSeq(s, end.start, n)
  BY <1>3, EscapedIsRun
<1> QED BY <1>1, <1>2, <1>4

-----------------------------------------------------------------------------
(* The decoder, one symbol after the other. *)

\* The decoder after each symbol of w, from state r.
Decodes(f, r, w, n) == f = [i \in 0..n |-> IF i = 0 THEN r ELSE ReadSymbol(f[i - 1], w[i])]
ReadFrom(r, w) == (CHOOSE f : Decodes(f, r, w, Len(w)))[Len(w)]

LEMMA ReadJSONIs == \A w : ReadJSON(w) = ReadFrom(Start, w)
BY DEF ReadJSON, ReadFrom, Decodes

\* There is such a function for any number of symbols, and those of two texts agree
\* as far as the texts do.
LEMMA DecodesExists ==
  ASSUME NEW r, NEW w, NEW n \in Nat
  PROVE  \E f : Decodes(f, r, w, n)
<1> DEFINE Bad == {m \in Nat : ~ \E f : Decodes(f, r, w, m)}
<1> SUFFICES ASSUME Bad # {} PROVE FALSE
  OBVIOUS
<1>1. PICK m \in Bad : \A k \in Bad : m =< k
  BY LeastNat
<1>2. CASE m = 0
  <2>1. Decodes([i \in 0..0 |-> r], r, w, 0)
    BY DEF Decodes
  <2> QED BY <1>2, <2>1
<1>3. CASE m # 0
  <2>1. m - 1 \in Nat /\ m - 1 \notin Bad
    <3>1. m - 1 \in Nat /\ ~(m =< m - 1)
      BY <1>1, <1>3
    <3> HIDE DEF Bad
    <3> QED BY <1>1, <3>1
  <2>2. PICK f : Decodes(f, r, w, m - 1)
    BY <2>1
  <2> DEFINE g == [i \in 0..m |-> IF i = 0 THEN r ELSE ReadSymbol(f[i - 1], w[i])]
  <2>3. \A i \in 0..(m - 1) : i \in 0..m /\ g[i] = f[i]
    BY <1>1, <2>2 DEF Decodes
  <2>4. ASSUME NEW i \in 0..m
        PROVE  g[i] = IF i = 0 THEN r ELSE ReadSymbol(g[i - 1], w[i])
    <3>1. i # 0 => i - 1 \in 0..(m - 1)
      BY <1>1
    <3> QED BY <2>3, <3>1
  <2>5. g = [i \in 0..m |-> g[i]]
    OBVIOUS
  <2> HIDE DEF g
  <2>6. Decodes(g, r, w, m)
    BY <2>4, <2>5 DEF Decodes
  <2> QED BY <1>1, <2>6
<1> QED BY <1>2, <1>3

LEMMA DecodesAgree ==
  ASSUME NEW r, NEW v, NEW w, NEW f, NEW g, NEW m \in Nat, NEW n \in Nat, m =< n,
         Decodes(f, r, v, m), Decodes(g, r, w, n), \A i \in 1..m : v[i] = w[i]
  PROVE  \A i \in 0..m : f[i] = g[i]
<1> DEFINE Bad == {i \in 0..m : f[i] # g[i]}
<1> SUFFICES ASSUME Bad # {} PROVE FALSE
  OBVIOUS
<1>1. PICK i \in Bad : \A k \in Bad : i =< k
  <2>1. Bad \subseteq Nat
    OBVIOUS
  <2> HIDE DEF Bad
  <2> QED BY <2>1, LeastNat
<1>2. i \in 0..m /\ f[i] # g[i]
  BY <1>1
<1>3. /\ f[i] = IF i = 0 THEN r ELSE ReadSymbol(f[i - 1], v[i])
      /\ g[i] = IF i = 0 THEN r ELSE ReadSymbol(g[i - 1], w[i])
  BY <1>2 DEF Decodes
<1>4. i # 0
  BY <1>2, <1>3
<1>5. i - 1 \in 0..m /\ ~(i =< i - 1) /\ v[i] = w[i]
  BY <1>2, <1>4
<1>6. f[i - 1] = g[i - 1]
  BY <1>1, <1>5
<1> QED BY <1>2, <1>3, <1>4, <1>5, <1>6

\* The decoder reads one symbol more, nothing, one symbol and two.
LEMMA ReadFromIs == \A r, w : Len(w) \in Nat => \E f : Decodes(f, r, w, Len(w)) /\ ReadFrom(r, w) = f[Len(w)]
<1> TAKE r, w
<1> HAVE Len(w) \in Nat
<1> DEFINE f == CHOOSE h : Decodes(h, r, w, Len(w))
<1>1. Decodes(f, r, w, Len(w))
  BY DecodesExists
<1>2. ReadFrom(r, w) = f[Len(w)]
  BY DEF ReadFrom
<1> HIDE DEF f
<1> QED BY <1>1, <1>2

LEMMA ReadNext ==
  ASSUME NEW r, NEW v, NEW w, NEW n \in Nat, Len(v) = n, Len(w) = n + 1, \A i \in 1..n : v[i] = w[i]
  PROVE  ReadFrom(r, w) = ReadSymbol(ReadFrom(r, v), w[n + 1])
<1>1. PICK f : Decodes(f, r, v, n) /\ ReadFrom(r, v) = f[n]
  BY ReadFromIs
<1>2. PICK g : Decodes(g, r, w, n + 1) /\ ReadFrom(r, w) = g[n + 1]
  BY ReadFromIs, n + 1 \in Nat
<1>3. f[n] = g[n]
  <2>1. n + 1 \in Nat /\ n =< n + 1 /\ n \in 0..n
    OBVIOUS
  <2>2. \A i \in 0..n : f[i] = g[i]
    BY <1>1, <1>2, <2>1, DecodesAgree
  <2> QED BY <2>1, <2>2
<1>4. g[n + 1] = ReadSymbol(g[n], w[n + 1])
  <2>1. n + 1 \in 0..(n + 1) /\ n + 1 # 0 /\ n + 1 - 1 = n
    OBVIOUS
  <2> QED BY <1>2, <2>1 DEF Decodes
<1> QED BY <1>1, <1>2, <1>3, <1>4

LEMMA ReadNothing == \A r : ReadFrom(r, <<>>) = r
<1> TAKE r
<1>1. PICK f : Decodes(f, r, <<>>, 0) /\ ReadFrom(r, <<>>) = f[0]
  BY ReadFromIs
<1> QED BY <1>1 DEF Decodes

LEMMA ReadOne ==
  ASSUME NEW r, NEW x
  PROVE  ReadFrom(r, <<x>>) = ReadSymbol(r, x)
<1> DEFINE n == 0
           v == <<>>
           w == <<x>>
<1>1. n \in Nat /\ Len(v) = n /\ Len(w) = n + 1 /\ w[n + 1] = x /\ \A i \in 1..n : v[i] = w[i]
  OBVIOUS
<1> HIDE DEF n, v, w
<1>2. ReadFrom(r, w) = ReadSymbol(ReadFrom(r, v), w[n + 1])
  BY <1>1, ReadNext
<1> QED BY <1>1, <1>2, ReadNothing DEF v, w

LEMMA ReadTwo ==
  ASSUME NEW r, NEW x, NEW y
  PROVE  ReadFrom(r, <<x, y>>) = ReadSymbol(ReadSymbol(r, x), y)
<1> DEFINE n == 1
           v == <<x>>
           w == <<x, y>>
<1>1. n \in Nat /\ Len(v) = n /\ Len(w) = n + 1 /\ w[n + 1] = y /\ \A i \in 1..n : v[i] = w[i]
  OBVIOUS
<1> HIDE DEF n, v, w
<1>2. ReadFrom(r, w) = ReadSymbol(ReadFrom(r, v), w[n + 1])
  BY <1>1, ReadNext
<1> QED BY <1>1, <1>2, ReadOne DEF v, w

\* The decoder in a string, after the symbols of text.
Places == {"object", "key", "colon", "value", "next", "line", "end"}

Decoders(U) == [ok : BOOLEAN, at : Places, depth : Int, quoted : BOOLEAN, escape : BOOLEAN,
                text : Seq(U), key : Seq(U),
                members : Seq([depth : Int, key : Seq(U), quoted : BOOLEAN, text : Seq(U)])]

WithText(r, text) == [r EXCEPT !.text = text]

AsRead(x) == IF x = "bad" THEN "replacement" ELSE x

\* An escaped symbol is read as the symbol.
LEMMA ReadEscape ==
  ASSUME NEW U, NEW r \in Decoders(U), r.quoted, ~r.escape, NEW x \in U
  PROVE  ReadFrom(r, Escape(jsonEscapes, x)) = WithText(r, Append(r.text, AsRead(x)))
<1>1. ReadFrom(r, <<x>>) = ReadSymbol(r, x)
  BY ReadOne
<1>2. CASE x \notin DOMAIN jsonEscapes
  <2>1. x \notin Raw \cup {"\"", "\\"}
    BY <1>2 DEF jsonEscapes, Raw
  <2>2. Escape(jsonEscapes, x) = <<x>> /\ AsRead(x) = x
    BY <1>2, <2>1 DEF Escape, AsRead, Raw
  <2>3. ReadSymbol(r, x) = [r EXCEPT !.text = Append(@, x), !.ok = @ /\ x \notin Raw]
    BY <2>1 DEF ReadSymbol, InString
  <2>4. ReadSymbol(r, x) = WithText(r, Append(r.text, x))
    BY <2>1, <2>3 DEF WithText, Decoders
  <2> QED BY <1>1, <2>2, <2>4
<1>3. CASE x \in DOMAIN jsonEscapes
  <2> DEFINE y == jsonEscapes[x]
             b == [r EXCEPT !.escape = TRUE]
  <2>1. x \in {"\"", "\\", "\n", "\r", "\t", "ctl", "bad"}
    BY <1>3 DEF jsonEscapes
  <2>2. y \in DOMAIN Escapes /\ Escapes[y] = AsRead(x)
    BY <2>1 DEF jsonEscapes, Escapes, AsRead
  <2>3. Escape(jsonEscapes, x) = <<"\\", y>>
    BY <1>3 DEF Escape
  <2>4. ReadSymbol(r, "\\") = b
    BY DEF ReadSymbol, InString
  <2> HIDE DEF y
  <2>5. ReadFrom(r, <<"\\", y>>) = ReadSymbol(b, y)
    <3> HIDE DEF b
    <3> QED BY <2>4, ReadTwo
  <2>6. ReadSymbol(b, y) = [b EXCEPT !.escape = FALSE, !.text = Append(@, Escapes[y])]
    BY <2>2 DEF ReadSymbol, InString, Decoders
  <2>7. ReadSymbol(b, y) = WithText(r, Append(r.text, Escapes[y]))
    BY <2>6 DEF WithText, Decoders
  <2> QED BY <2>2, <2>3, <2>5, <2>7
<1> QED BY <1>2, <1>3

\* Where the decoder can be, if the symbols of U are read: only in a string is there
\* an escape to finish.
DecoderStates(U) == {r \in Decoders(U) : r.escape => r.quoted}

\* Every symbol leaves the decoder in one of its states, and so does every text.
LEMMA ReadSymbolType ==
  ASSUME NEW U, {Escapes[y] : y \in DOMAIN Escapes} \subseteq U,
         NEW r \in DecoderStates(U), NEW x \in U
  PROVE  ReadSymbol(r, x) \in DecoderStates(U)
<1> DEFINE M == [depth : Int, key : Seq(U), quoted : BOOLEAN, text : Seq(U)]
<1>1. /\ r.ok \in BOOLEAN /\ r.at \in Places /\ r.depth \in Int /\ r.quoted \in BOOLEAN
      /\ r.escape \in BOOLEAN /\ r.text \in Seq(U) /\ r.key \in Seq(U) /\ r.members \in Seq(M)
      /\ r \in Decoders(U) /\ (r.escape => r.quoted)
  BY DEF DecoderStates, Decoders, Places
<1>2. ASSUME NEW text \in Seq(U), NEW quoted \in BOOLEAN, ~r.escape
      PROVE  WithMember(r, quoted, text) \in DecoderStates(U)
  <2>1. Member(r.depth, r.key, quoted, text) \in M
    BY <1>1 DEF Member
  <2> HIDE DEF M
  <2>2. Append(r.members, Member(r.depth, r.key, quoted, text)) \in Seq(M)
    BY <1>1, <2>1
  <2> QED BY <1>1, <1>2, <2>2 DEF WithMember, DecoderStates, Decoders, Places, M
<1>3. ASSUME NEW S, NEW place \in Places
      PROVE  /\ Advance(r, S, place) \in DecoderStates(U)
             /\ Advance(r, S, place).depth \in Int
             /\ Advance(r, S, place).escape = r.escape /\ Advance(r, S, place).quoted = r.quoted
  BY <1>1 DEF Advance, DecoderStates, Decoders
<1>7. ASSUME NEW a \in DecoderStates(U), NEW d \in Int
      PROVE  [a EXCEPT !.depth = d] \in DecoderStates(U)
  BY DEF DecoderStates, Decoders
<1>8. ASSUME NEW a \in DecoderStates(U)
      PROVE  [a EXCEPT !.quoted = TRUE, !.text = <<>>] \in DecoderStates(U)
  <2>1. <<>> \in Seq(U)
    OBVIOUS
  <2> QED BY <2>1 DEF DecoderStates, Decoders
<1>4. ASSUME r.quoted PROVE InString(r, x) \in DecoderStates(U)
  <2>1. CASE r.escape
    <3>1. CASE x \in DOMAIN Escapes
      <4>1. Append(r.text, Escapes[x]) \in Seq(U)
        BY <1>1, <3>1
      <4>2. InString(r, x) = [r EXCEPT !.escape = FALSE, !.text = Append(@, Escapes[x])]
        BY <2>1, <3>1 DEF InString
      <4> QED BY <1>1, <4>1, <4>2 DEF DecoderStates, Decoders, Places
    <3>2. CASE x \notin DOMAIN Escapes
      BY <1>1, <1>4, <2>1, <3>2 DEF InString, DecoderStates, Decoders
    <3> QED BY <3>1, <3>2
  <2>2. CASE ~r.escape /\ x = "\\"
    BY <1>1, <1>4, <2>2 DEF InString, DecoderStates, Decoders
  <2>3. CASE ~r.escape /\ x = "\""
    <3>1. InString(r, x) = IF r.at = "key"
                             THEN [r EXCEPT !.quoted = FALSE, !.key = r.text, !.at = "colon"]
                             ELSE WithMember(r, TRUE, r.text)
      BY <2>3 DEF InString
    <3>2. WithMember(r, TRUE, r.text) \in DecoderStates(U)
      BY <1>1, <1>2, <2>3
    <3>3. [r EXCEPT !.quoted = FALSE, !.key = r.text, !.at = "colon"] \in DecoderStates(U)
      BY <1>1, <2>3 DEF DecoderStates, Decoders, Places
    <3> QED BY <3>1, <3>2, <3>3
  <2>4. CASE ~r.escape /\ x \notin {"\\", "\""}
    <3>1. Append(r.text, x) \in Seq(U)
      BY <1>1
    <3>2. InString(r, x) = [r EXCEPT !.text = Append(@, x), !.ok = @ /\ x \notin Raw]
      BY <2>4 DEF InString
    <3> QED BY <1>1, <1>4, <2>4, <3>1, <3>2 DEF DecoderStates, Decoders, Places
  <2> QED BY <2>1, <2>2, <2>3, <2>4
<1>5. CASE r.quoted
  BY <1>4, <1>5 DEF ReadSymbol
<1>6. CASE ~r.quoted
  <2>1. ~r.escape
    BY <1>1, <1>6
  <2>2. CASE x = "\""
    <3> DEFINE a == Advance(r, {"key", "value"}, r.at)
    <3>1. a \in DecoderStates(U) /\ a.escape = r.escape
      BY <1>1, <1>3
    <3>2. ReadSymbol(r, x) = [a EXCEPT !.quoted = TRUE, !.text = <<>>]
      BY <1>6, <2>2 DEF ReadSymbol
    <3> HIDE DEF a
    <3>3. [a EXCEPT !.quoted = TRUE, !.text = <<>>] \in DecoderStates(U)
      BY <1>8, <3>1
    <3> QED BY <3>2, <3>3
  <2>3. CASE x = "{"
    <3> DEFINE a == Advance(r, {"object", "value"}, "key")
    <3>1. a \in DecoderStates(U) /\ a.depth \in Int
      BY <1>3 DEF Places
    <3>2. ReadSymbol(r, x) = [a EXCEPT !.depth = a.depth + 1]
      BY <1>6, <2>3 DEF ReadSymbol
    <3> HIDE DEF a
    <3> DEFINE d == a.depth + 1
    <3>3. d \in Int
      BY <3>1
    <3> HIDE DEF d
    <3>4. [a EXCEPT !.depth = d] \in DecoderStates(U)
      BY <1>7, <3>1, <3>3
    <3> QED BY <3>2, <3>4 DEF d
  <2>4. CASE x = "}"
    <3> DEFINE a == Advance(r, {"next"}, IF r.depth = 1 THEN "line" ELSE "next")
    <3>1. a \in DecoderStates(U) /\ a.depth \in Int
      BY <1>3 DEF Places
    <3>2. ReadSymbol(r, x) = [a EXCEPT !.depth = a.depth - 1]
      BY <1>6, <2>4 DEF ReadSymbol
    <3> HIDE DEF a
    <3> DEFINE d == a.depth - 1
    <3>3. d \in Int
      BY <3>1
    <3> HIDE DEF d
    <3>4. [a EXCEPT !.depth = d] \in DecoderStates(U)
      BY <1>7, <3>1, <3>3
    <3> QED BY <3>2, <3>4 DEF d
  <2>5. CASE x = ":"
    BY <1>3, <1>6, <2>5 DEF ReadSymbol, Places
  <2>6. CASE x = ","
    BY <1>3, <1>6, <2>6 DEF ReadSymbol, Places
  <2>7. CASE x = "\n"
    BY <1>3, <1>6, <2>7 DEF ReadSymbol, Places
  <2>8. CASE x \notin {"\"", "{", "}", ":", ",", "\n"}
    <3>1. <<x>> \in Seq(U)
      OBVIOUS
    <3>2. ReadSymbol(r, x) = WithMember(r, FALSE, <<x>>)
      BY <1>6, <2>8 DEF ReadSymbol
    <3> QED BY <1>2, <2>1, <3>1, <3>2
  <2> QED BY <2>2, <2>3, <2>4, <2>5, <2>6, <2>7, <2>8
<1> QED BY <1>1, <1>5, <1>6

\* One symbol behind a text, and two.
LEMMA ReadBehind ==
  \A U : \A r : \A v \in Seq(U) : \A x \in U : ReadFrom(r, v \o <<x>>) = ReadSymbol(ReadFrom(r, v), x)
<1> TAKE U
<1> TAKE r
<1> TAKE v \in Seq(U)
<1> TAKE x \in U
<1> DEFINE n == Len(v)
           a == v \o <<x>>
<1>1. n \in Nat /\ Len(v) = n /\ Len(a) = n + 1 /\ a[n + 1] = x /\ \A i \in 1..n : v[i] = a[i]
  OBVIOUS
<1> HIDE DEF n, a
<1>2. ReadFrom(r, a) = ReadSymbol(ReadFrom(r, v), a[n + 1])
  BY <1>1, ReadNext
<1> QED BY <1>1, <1>2 DEF a

LEMMA ReadTwoBehind ==
  \A U : \A r : \A v \in Seq(U) : \A x, y \in U :
    ReadFrom(r, v \o <<x, y>>) = ReadSymbol(ReadSymbol(ReadFrom(r, v), x), y)
<1> TAKE U
<1> TAKE r
<1> TAKE v \in Seq(U)
<1> TAKE x, y \in U
<1> DEFINE n == Len(v)
           m == n + 1
           a == v \o <<x>>
           b == v \o <<x, y>>
<1>1. m \in Nat /\ Len(a) = m /\ Len(b) = m + 1 /\ b[m + 1] = y /\ \A i \in 1..m : a[i] = b[i]
  OBVIOUS
<1>2. ReadFrom(r, a) = ReadSymbol(ReadFrom(r, v), x)
  BY ReadBehind
<1> HIDE DEF n, m, a, b
<1>3. ReadFrom(r, b) = ReadSymbol(ReadFrom(r, a), b[m + 1])
  BY <1>1, ReadNext
<1> QED BY <1>1, <1>2, <1>3 DEF b

LEMMA ReadJSONType ==
  ASSUME NEW U, {Escapes[y] : y \in DOMAIN Escapes} \subseteq U
  PROVE  \A v \in Seq(U) : ReadJSON(v) \in DecoderStates(U)
<1> DEFINE Bad == {v \in Seq(U) : ReadFrom(Start, v) \notin DecoderStates(U)}
<1> SUFFICES ASSUME Bad # {} PROVE FALSE
  BY ReadJSONIs
<1>1. Start \in DecoderStates(U)
  <2>1. <<>> \in Seq(U) /\ <<>> \in Seq([depth : Int, key : Seq(U), quoted : BOOLEAN, text : Seq(U)])
    OBVIOUS
  <2>2. Start \in Decoders(U)
    BY <2>1 DEF Start, Decoders, Places
  <2> QED BY <2>2 DEF DecoderStates, Start
<1>2. <<>> \notin Bad
  BY <1>1, ReadNothing
<1>3. PICK q \in Seq(U), x \in U : Append(q, x) \in Bad /\ q \notin Bad
  <2>1. Bad \in SUBSET Seq(U)
    OBVIOUS
  <2> HIDE DEF Bad
  <2> QED BY <1>2, <2>1, ShortestSplit
<1>4. ReadFrom(Start, Append(q, x)) = ReadSymbol(ReadFrom(Start, q), x)
  <2>1. Append(q, x) = q \o <<x>>
    BY AppendIsConcat
  <2>2. ReadFrom(Start, q \o <<x>>) = ReadSymbol(ReadFrom(Start, q), x)
    BY ReadBehind
  <2> QED BY <2>1, <2>2
<1>5. ReadFrom(Start, q) \in DecoderStates(U) /\ ReadFrom(Start, Append(q, x)) \notin DecoderStates(U)
  BY <1>3
<1> HIDE DEF Bad
<1> QED BY <1>4, <1>5, ReadSymbolType

-----------------------------------------------------------------------------
(* Strings read back, and stay on their line. *)

\* A sequence over a set is one over a larger set.
LEMMA SeqWider ==
  \A U, W : U \subseteq W => \A v \in Seq(U) : v \in Seq(W)
<1> TAKE U, W
<1> HAVE U \subseteq W
<1> TAKE v \in Seq(U)
<1>1. \A i \in 1..Len(v) : v[i] \in W
  OBVIOUS
<1>2. v = [i \in 1..Len(v) |-> v[i]] /\ Len(v) \in Nat
  OBVIOUS
<1> QED BY <1>1, <1>2, IsSeq

\* What a text is read as, one symbol longer.
LEMMA ReadableNext ==
  ASSUME NEW q \in Seq(Symbols), NEW x \in Symbols
  PROVE  /\ Readable(<<>>) = <<>>
         /\ Readable(Append(q, x)) = Append(Readable(q), AsRead(x))
<1> DEFINE H == [y \in Symbols |-> AsRead(y)]
<1>1. ASSUME NEW p \in Seq(Symbols) PROVE Readable(p) = Mapped(H, p)
  <2>1. \A i \in DOMAIN p : p[i] \in Symbols
    OBVIOUS
  <2> QED BY <2>1 DEF Readable, Mapped, AsRead
<1>2. Mapped(H, Append(q, x)) = Append(Mapped(H, q), H[x])
  BY MappedAppend
<1>3. Append(q, x) \in Seq(Symbols) /\ H[x] = AsRead(x)
  OBVIOUS
<1> HIDE DEF H
<1>4. Readable(<<>>) = <<>>
  BY DEF Readable
<1> QED BY <1>1, <1>2, <1>3, <1>4

LEMMA ReadableType ==
  ASSUME NEW U, Symbols \cup {"replacement"} \subseteq U, NEW q \in Seq(Symbols)
  PROVE  Readable(q) \in Seq(U)
<1>1. \A i \in 1..Len(q) : q[i] \in Symbols
  OBVIOUS
<1> QED BY <1>1 DEF Readable

\* A decoder with another text.
LEMMA WithTextType ==
  ASSUME NEW U, NEW r \in Decoders(U), NEW text \in Seq(U)
  PROVE  /\ WithText(r, text) \in Decoders(U) /\ WithText(r, text).text = text
         /\ WithText(r, text).quoted = r.quoted /\ WithText(r, text).escape = r.escape
BY DEF WithText, Decoders

\* Behind any text that leaves the decoder in a string.
LEMMA ReadInString ==
  ASSUME NEW U, Symbols \cup {"replacement"} \subseteq U, Output(Symbols, jsonEscapes) \subseteq U,
         NEW v \in Seq(U), NEW r \in Decoders(U), r = ReadFrom(Start, v), r.quoted, ~r.escape
  PROVE  \A s \in GoStrings : ReadFrom(Start, v \o Symbolwise(s, jsonEscapes)) = WithText(r, r.text \o Readable(s))
<1> DEFINE E == jsonEscapes
           Bad == {s \in Seq(Symbols) : ReadFrom(Start, v \o Symbolwise(s, E)) # WithText(r, r.text \o Readable(s))}
<1> SUFFICES ASSUME Bad # {} PROVE FALSE
  BY DEF GoStrings
<1>1. <<>> \notin Bad
  <2>1. Symbolwise(<<>>, E) = <<>> /\ v \o <<>> = v
    BY FlattenEmpty DEF Symbolwise
  <2>2. r.text \in Seq(U) /\ Readable(<<>>) = <<>>
    BY DEF Decoders, Readable
  <2>3. WithText(r, r.text \o <<>>) = r
    BY <2>2 DEF WithText, Decoders
  <2> HIDE DEF E
  <2> QED BY <2>1, <2>2, <2>3
<1>2. PICK q \in Seq(Symbols), x \in Symbols : Append(q, x) \in Bad /\ q \notin Bad
  <2>1. Bad \in SUBSET Seq(Symbols)
    OBVIOUS
  <2> HIDE DEF Bad
  <2> QED BY <1>1, <2>1, ShortestSplit
<1> DEFINE w == v \o Symbolwise(q, E)
           p == WithText(r, r.text \o Readable(q))
<1>3. ReadFrom(Start, w) = p /\ Append(q, x) \in Seq(Symbols)
  BY <1>2
<1>4. ReadFrom(Start, v \o Symbolwise(Append(q, x), E)) # WithText(r, r.text \o Readable(Append(q, x)))
  BY <1>2
<1> HIDE DEF Bad, E
<1>5. Symbolwise(q, E) \in Seq(U) /\ Escape(E, x) \in Seq(U)
  <2>1. Symbolwise(q, E) \in Seq(Output(Symbols, E)) /\ Escape(E, x) \in Seq(Output(Symbols, E))
    BY SymbolwiseType, EscapeType
  <2>2. Output(Symbols, E) \subseteq U
    BY DEF E
  <2> HIDE DEF Output
  <2> QED BY <2>1, <2>2
<1>6. v \o Symbolwise(Append(q, x), E) = w \o Escape(E, x) /\ w \in Seq(U)
  <2>1. Symbolwise(Append(q, x), E) = Symbolwise(q, E) \o Escape(E, x)
    BY SymbolwiseAppend
  <2>2. (v \o Symbolwise(q, E)) \o Escape(E, x) = v \o (Symbolwise(q, E) \o Escape(E, x))
    BY ONLY <1>5, v \in Seq(U), Associative
  <2> QED BY <1>5, <2>1, <2>2
<1>7. Readable(q) \in Seq(U) /\ r.text \in Seq(U) /\ x \in U /\ AsRead(x) \in U
  BY ReadableType DEF Decoders, AsRead
<1>8. p \in Decoders(U) /\ p.quoted /\ ~p.escape /\ p.text = r.text \o Readable(q)
  <2> DEFINE text == r.text \o Readable(q)
  <2>1. text \in Seq(U)
    BY <1>7
  <2> HIDE DEF text
  <2>2. WithText(r, text) \in Decoders(U) /\ WithText(r, text).text = text
        /\ WithText(r, text).quoted = r.quoted /\ WithText(r, text).escape = r.escape
    BY <2>1, WithTextType
  <2> QED BY <2>2 DEF text
<1>9. ReadFrom(p, Escape(E, x)) = WithText(p, Append(p.text, AsRead(x)))
  BY <1>7, <1>8, ReadEscape DEF E
<1>10. ReadFrom(Start, w \o Escape(E, x)) = ReadFrom(p, Escape(E, x))
  <2> HIDE DEF w, p
  <2>1. CASE x \in DOMAIN E
    <3> DEFINE y == E[x]
    <3>1. Escape(E, x) = <<"\\", y>>
      BY <2>1 DEF Escape
    <3>2. "\\" \in U /\ y \in U
      BY <2>1 DEF Output, E
    <3> HIDE DEF y
    <3>3. ReadFrom(Start, w \o <<"\\", y>>) = ReadSymbol(ReadSymbol(ReadFrom(Start, w), "\\"), y)
      BY <1>6, <3>2, ReadTwoBehind
    <3>4. ReadFrom(p, <<"\\", y>>) = ReadSymbol(ReadSymbol(p, "\\"), y)
      BY ReadTwo
    <3> QED BY <1>3, <3>1, <3>3, <3>4
  <2>2. CASE x \notin DOMAIN E
    <3>1. Escape(E, x) = <<x>>
      BY <2>2 DEF Escape
    <3>2. ReadFrom(Start, w \o <<x>>) = ReadSymbol(ReadFrom(Start, w), x)
      BY <1>6, <1>7, ReadBehind
    <3>3. ReadFrom(p, <<x>>) = ReadSymbol(p, x)
      BY ReadOne
    <3> QED BY <1>3, <3>1, <3>2, <3>3
  <2> QED BY <2>1, <2>2
<1>11. WithText(p, Append(p.text, AsRead(x))) = WithText(r, r.text \o Readable(Append(q, x)))
  <2>1. Readable(Append(q, x)) = Append(Readable(q), AsRead(x))
    BY ReadableNext
  <2>2. r.text \o Append(Readable(q), AsRead(x)) = Append(r.text \o Readable(q), AsRead(x))
    <3> DEFINE a == r.text
               b == Readable(q)
               y == AsRead(x)
    <3>1. a \in Seq(U) /\ b \in Seq(U) /\ y \in U
      BY <1>7
    <3> HIDE DEF a, b, y
    <3>2. a \o Append(b, y) = Append(a \o b, y)
      BY <3>1, ConcatAppend
    <3> QED BY <3>2 DEF a, b, y
  <2>3. WithText(p, Append(p.text, AsRead(x))) = WithText(r, Append(p.text, AsRead(x)))
    BY DEF WithText
  <2> HIDE DEF p
  <2> QED BY <1>8, <2>1, <2>2, <2>3
<1> QED BY <1>4, <1>6, <1>9, <1>10, <1>11

\* What a string read at its place, key or value, leaves the decoder in.
AfterString(r, s) ==
  IF r.at = "key" THEN [r EXCEPT !.text = Readable(s), !.key = Readable(s), !.at = "colon"]
  ELSE [r EXCEPT !.text = Readable(s), !.at = "next",
                 !.members = Append(@, Member(r.depth, r.key, TRUE, Readable(s)))]

\* A quote, then e, then a quote, behind v.
LEMMA ReadQuoted ==
  ASSUME NEW W, NEW r, NEW v \in Seq(W), NEW c \in W, NEW e \in Seq(W)
  PROVE  /\ ReadFrom(r, v \o <<c>>) = ReadSymbol(ReadFrom(r, v), c) /\ v \o <<c>> \in Seq(W)
         /\ ReadFrom(r, v \o ((<<c>> \o e) \o <<c>>)) = ReadSymbol(ReadFrom(r, (v \o <<c>>) \o e), c)
<1> DEFINE q == <<c>>
           w == (v \o q) \o e
<1>1. q \in Seq(W)
  OBVIOUS
<1>2. ReadFrom(r, v \o q) = ReadSymbol(ReadFrom(r, v), c) /\ ReadFrom(r, w \o q) = ReadSymbol(ReadFrom(r, w), c)
  <2> HIDE DEF q
  <2>1. w \in Seq(W)
    BY <1>1
  <2> HIDE DEF w
  <2> QED BY <2>1, ReadBehind DEF q
<1> HIDE DEF q
<1>3. v \o q \in Seq(W) /\ q \o e \in Seq(W)
  BY <1>1
<1>4. (v \o q) \o e = v \o (q \o e)
  BY <1>1, Associative
<1>5. (v \o (q \o e)) \o q = v \o ((q \o e) \o q)
  BY <1>1, <1>3, Associative
<1> QED BY <1>2, <1>3, <1>4, <1>5 DEF q

\* Whatever its symbols are, a string that the JSON escaper writes where a key or a
\* value may be is read by a decoder as that string, behind any line so far, and
\* the decoder goes on behind it (format.go:263-336).
THEOREM StringsReadBack ==
  ASSUME NEW U, NEW v \in Seq(U), NEW s \in GoStrings,
         ~ReadJSON(v).quoted, ReadJSON(v).at \in {"key", "value"}
  PROVE  ReadJSON(v \o appendJSONString(s)) = AfterString(ReadJSON(v), s)
<1> DEFINE W == U \cup {"\"", "replacement"} \cup {Escapes[y] : y \in DOMAIN Escapes}
                  \cup Output(Symbols, jsonEscapes)
           c == "\""
           e == Symbolwise(s, jsonEscapes)
           r == ReadJSON(v)
           p == ReadSymbol(r, c)
           t == WithText(p, Readable(s))
<1>1. /\ Symbols \cup {"replacement"} \subseteq W /\ Output(Symbols, jsonEscapes) \subseteq W
      /\ {Escapes[y] : y \in DOMAIN Escapes} \subseteq W /\ c \in W /\ U \subseteq W
  BY DEF Output
<1> HIDE DEF W
<1>2. v \in Seq(W)
  BY <1>1, SeqWider
<1>3. e \in Seq(W)
  <2>1. e \in Seq(Output(Symbols, jsonEscapes))
    BY SymbolwiseType DEF GoStrings
  <2> HIDE DEF Output, e
  <2> QED BY <1>1, <2>1, SeqWider
<1>4. appendJSONString(s) = (<<c>> \o e) \o <<c>>
  BY EscapedSymbolwise DEF appendJSONString, GoStrings
<1>5. r \in Decoders(W) /\ ~r.escape /\ r.at \in {"key", "value"} /\ ~r.quoted
  <2>1. r \in DecoderStates(W)
    BY <1>1, <1>2, ReadJSONType
  <2> HIDE DEF r
  <2> QED BY <2>1 DEF DecoderStates, r
<1>6. r = ReadFrom(Start, v) /\ ReadJSON(v \o appendJSONString(s)) = ReadFrom(Start, v \o appendJSONString(s))
  BY ReadJSONIs
<1> HIDE DEF r, e
<1>7. p = [r EXCEPT !.quoted = TRUE, !.text = <<>>]
  BY <1>5 DEF ReadSymbol, Advance, Decoders
<1>8. p \in Decoders(W) /\ p.quoted /\ ~p.escape /\ p.text = <<>>
  <2>1. <<>> \in Seq(W)
    OBVIOUS
  <2> HIDE DEF p
  <2> QED BY <1>5, <1>7, <2>1 DEF Decoders
<1>9. t = [r EXCEPT !.quoted = TRUE, !.text = Readable(s)]
  BY <1>7 DEF WithText
<1>10. ReadSymbol(t, c) = AfterString(r, s)
  <2> HIDE DEF t
  <2>1. t.quoted /\ ~t.escape /\ t.at = r.at /\ t.text = Readable(s)
    BY <1>5, <1>9 DEF Decoders
  <2>2. ReadSymbol(t, c) = IF t.at = "key" THEN [t EXCEPT !.quoted = FALSE, !.key = t.text, !.at = "colon"]
                           ELSE WithMember(t, TRUE, t.text)
    BY <2>1 DEF ReadSymbol, InString
  <2>3. CASE r.at = "key"
    <3>1. ReadSymbol(t, c) = [t EXCEPT !.quoted = FALSE, !.key = Readable(s), !.at = "colon"]
      BY <2>1, <2>2, <2>3
    <3>2. ReadSymbol(t, c) = [r EXCEPT !.text = Readable(s), !.key = Readable(s), !.at = "colon"]
      BY <1>5, <1>9, <3>1 DEF Decoders
    <3> QED BY <2>3, <3>2 DEF AfterString
  <2>4. CASE r.at = "value"
    <3>1. ReadSymbol(t, c) = WithMember(t, TRUE, Readable(s))
      BY <2>1, <2>2, <2>4
    <3>2. t.at = "value" /\ t.depth = r.depth /\ t.key = r.key /\ t.members = r.members /\ t.ok = r.ok
      BY <1>5, <1>9, <2>1, <2>4 DEF Decoders
    <3> DEFINE m == Member(r.depth, r.key, TRUE, Readable(s))
    <3>3. ReadSymbol(t, c) = [t EXCEPT !.members = Append(r.members, m), !.at = "next",
                                       !.quoted = FALSE, !.ok = r.ok /\ TRUE]
      BY <3>1, <3>2 DEF WithMember
    <3> HIDE DEF m
    <3> DEFINE l == Append(r.members, m)
    <3> HIDE DEF l
    <3>4. ReadSymbol(t, c) = [t EXCEPT !.members = l, !.at = "next", !.quoted = FALSE, !.ok = r.ok /\ TRUE]
      BY <3>3 DEF l
    <3>5. ReadSymbol(t, c) = [r EXCEPT !.text = Readable(s), !.at = "next", !.members = l]
      BY <1>5, <1>9, <3>4 DEF Decoders
    <3>6. AfterString(r, s) = [r EXCEPT !.text = Readable(s), !.at = "next", !.members = l]
      BY <2>4 DEF AfterString, l, m
    <3> QED BY <3>5, <3>6
  <2> QED BY <1>5, <2>3, <2>4
<1>11. /\ ReadFrom(Start, v \o <<c>>) = ReadSymbol(ReadFrom(Start, v), c) /\ v \o <<c>> \in Seq(W)
       /\ ReadFrom(Start, v \o ((<<c>> \o e) \o <<c>>)) = ReadSymbol(ReadFrom(Start, (v \o <<c>>) \o e), c)
  <2> HIDE DEF c
  <2> QED BY <1>1, <1>2, <1>3, ReadQuoted
<1>12. p = ReadFrom(Start, v \o <<c>>)
  BY <1>6, <1>11
<1>13. ReadFrom(Start, (v \o <<c>>) \o e) = t
  <2>1. Readable(s) \in Seq(W)
    BY <1>1, ReadableType DEF GoStrings
  <2>2. <<>> \o Readable(s) = Readable(s)
    BY <2>1
  <2> HIDE DEF p, c
  <2>3. ReadFrom(Start, (v \o <<c>>) \o e) = WithText(p, p.text \o Readable(s))
    BY <1>1, <1>8, <1>11, <1>12, ReadInString DEF e
  <2> QED BY <1>8, <2>2, <2>3
<1> HIDE DEF c, t
<1>14. ReadJSON(v \o appendJSONString(s)) = ReadSymbol(t, c)
  BY <1>4, <1>6, <1>11, <1>13
<1> QED BY <1>10, <1>14 DEF r

\* Pairs and single symbols are sequences.
LEMMA ShortTuples ==
  \A U : /\ \A x \in U : <<x>> \in Seq(U)
         /\ \A x, y \in U : <<x, y>> \in Seq(U)
OBVIOUS

\* No symbol that has an escape is left in what is written.
LEMMA EscapedSymbols ==
  ASSUME NEW T, NEW E, NEW s \in Seq(T), NEW i \in DOMAIN Escaped(s, E)
  PROVE  Escaped(s, E)[i] \in (T \ DOMAIN E) \cup {"\\"} \cup {E[x] : x \in DOMAIN E}
<1> DEFINE C == (T \ DOMAIN E) \cup {"\\"} \cup {E[x] : x \in DOMAIN E}
           H == [x \in T |-> Escape(E, x)]
<1>1. ASSUME NEW x \in T PROVE H[x] \in Seq(C)
  <2>1. CASE x \in DOMAIN E
    <3>1. "\\" \in C /\ E[x] \in C /\ H[x] = <<"\\", E[x]>>
      BY <2>1 DEF Escape
    <3> HIDE DEF C
    <3> QED BY <3>1, ShortTuples
  <2>2. CASE x \notin DOMAIN E
    <3>1. x \in C /\ H[x] = <<x>>
      BY <2>2 DEF Escape
    <3> HIDE DEF C
    <3> QED BY <3>1, ShortTuples
  <2> QED BY <2>1, <2>2
<1>2. [k \in DOMAIN s |-> Escape(E, s[k])] = Mapped(H, s)
  <2>1. \A k \in DOMAIN s : s[k] \in T
    OBVIOUS
  <2> QED BY <2>1 DEF Mapped
<1> HIDE DEF H, C
<1>3. Mapped(H, s) \in Seq(Seq(C))
  BY <1>1, MappedType
<1>4. FlattenSeq(Mapped(H, s)) \in Seq(C)
  BY <1>3, FlattenType
<1>5. Escaped(s, E) = FlattenSeq(Mapped(H, s))
  BY <1>2, EscapedSymbolwise DEF Symbolwise
<1>6. Escaped(s, E)[i] \in C
  BY <1>4, <1>5
<1> QED BY <1>6 DEF C

LineBreaks == {"\n", "\r", "ctl"}

\* Neither escaper leaves a symbol that ends a line or is a control symbol, and the
\* JSON escaper none that a JSON string may not hold (format.go:173-336).
THEOREM StringsStayOnLine ==
  ASSUME NEW s \in GoStrings
  PROVE  /\ \A i \in DOMAIN appendTextString(s) : appendTextString(s)[i] \notin LineBreaks
         /\ \A i \in DOMAIN appendJSONString(s) : appendJSONString(s)[i] \notin LineBreaks \cup {"\t", "bad"}
<1>1. ASSUME NEW i \in DOMAIN appendTextString(s) PROVE appendTextString(s)[i] \notin LineBreaks
  <2> DEFINE E == textEscapes
             y == Escaped(s, E)[i]
  <2>1. appendTextString(s) = Escaped(s, E) /\ s \in Seq(Symbols)
    BY DEF appendTextString, GoStrings
  <2>2. DOMAIN E = {"\n", "\r", "ctl"} /\ {E[x] : x \in DOMAIN E} \subseteq {"n", "r", "xNN"}
    BY DEF textEscapes
  <2> HIDE DEF E
  <2>3. y \in (Symbols \ DOMAIN E) \cup {"\\"} \cup {E[x] : x \in DOMAIN E}
    BY <2>1, EscapedSymbols
  <2> HIDE DEF y
  <2>4. y \notin LineBreaks
    BY <2>2, <2>3 DEF LineBreaks
  <2> QED BY <2>1, <2>4 DEF y
<1>2. ASSUME NEW i \in DOMAIN appendJSONString(s)
      PROVE  appendJSONString(s)[i] \notin LineBreaks \cup {"\t", "bad"}
  <2> DEFINE E == jsonEscapes
             e == Escaped(s, E)
             C == (Symbols \ DOMAIN E) \cup {"\\", "\""} \cup {E[x] : x \in DOMAIN E}
             q == <<"\"">>
             a == (q \o e) \o q
  <2>1. appendJSONString(s) = a /\ s \in Seq(Symbols)
    BY DEF appendJSONString, GoStrings
  <2>2. DOMAIN E = {"\"", "\\", "\n", "\r", "\t", "ctl", "bad"}
        /\ {E[x] : x \in DOMAIN E} \subseteq {"\"", "\\", "n", "r", "t", "u00NN", "ufffd"}
    BY DEF jsonEscapes
  <2> HIDE DEF E
  <2>0. s \in Seq(Symbols)
    BY DEF GoStrings
  <2>3. ASSUME NEW k \in DOMAIN Escaped(s, E) PROVE e[k] \in C
    <3>1. Escaped(s, E)[k] \in (Symbols \ DOMAIN E) \cup {"\\"} \cup {E[x] : x \in DOMAIN E}
      BY <2>0, <2>3, EscapedSymbols
    <3> QED BY <3>1
  <2>4. e \in Seq(Output(Symbols, E))
    BY <2>1, EscapedSymbolwise, SymbolwiseType
  <2>5. q \in Seq(C)
    <3>1. "\"" \in C
      OBVIOUS
    <3> HIDE DEF C
    <3> QED BY <3>1, ShortTuples
  <2> HIDE DEF e, C, q
  <2>6. e \in Seq(C)
    <3> HIDE DEF Output
    <3>0. \A k \in DOMAIN e : e[k] \in C
      BY <2>3 DEF e
    <3>1. e = [k \in 1..Len(e) |-> e[k]] /\ Len(e) \in Nat /\ \A k \in 1..Len(e) : e[k] \in C
      BY <2>4, <3>0
    <3> QED BY <3>1, IsSeq
  <2>7. a \in Seq(C)
    BY <2>5, <2>6
  <2>8. a[i] \in C
    BY <2>1, <2>7
  <2>9. C \cap (LineBreaks \cup {"\t", "bad"}) = {}
    BY <2>2 DEF C, LineBreaks
  <2> QED BY <2>1, <2>8, <2>9
<1> QED BY <1>1, <1>2
=============================================================================
