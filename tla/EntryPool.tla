------------------------------ MODULE EntryPool ------------------------------
(***************************************************************************)
(* What a logging call hands from goroutine to goroutine.  A call takes an *)
(* Entry from l.pool, fills it and sends it (dispatch); if the channel has *)
(* no room it puts the Entry back, otherwise the worker formats it and     *)
(* puts it back (formatBatch).  SlogHandler.Handle also borrows a field    *)
(* buffer that all handlers share.                                         *)
(*                                                                         *)
(* An Entry or buffer that went back too early, or kept something of its   *)
(* last use, would put one call's data into another call's line.  How      *)
(* dropped entries are counted is DropStats.                               *)
(***************************************************************************)
EXTENDS Integers, Sequences, FiniteSets

CONSTANTS
  Callers,      \* goroutines that log
  Entries,      \* all Entry objects: more than can be in use at once
  Buffers,      \* all field buffers of slogFieldPool
  NoEntry, NoBuffer, NoCall,
  ChannelSize,
  MayBlock,     \* callers that log at LevelError, with ErrorBlockTimeout > 0
  MaxCalls      \* bound: logging calls of one caller

ASSUME PoolAssumption ==
  /\ NoEntry \notin Entries /\ NoBuffer \notin Buffers
  /\ ChannelSize \in Nat \ {0}
  /\ Cardinality(Entries) > ChannelSize + Cardinality(Callers)
  /\ Cardinality(Buffers) >= Cardinality(Callers)
  /\ MayBlock \subseteq Callers
  /\ MaxCalls \in Nat

VARIABLES
  entry,        \* the contents of each Entry
  inPool,       \* entries in l.pool
  logCh,
  buffer,       \* the contents of each field buffer
  lent,         \* buffers that are out of slogFieldPool
  pc, calls,    \* where each caller is, and how many calls it began
  request,      \* what the caller's current call was asked to log
  mine, bp,     \* the Entry and the field buffer that call holds
  wpc, held,    \* where the worker is, and the Entry it holds
  meant,        \* history: what the call that sent an Entry had to log
  line          \* history: the last line, and what it should have been

objects == <<entry, inPool, logCh>>
buffers == <<buffer, lent, bp>>
caller  == <<calls, request>>
worker  == <<wpc, held>>
history == <<meant, line>>
vars == <<objects, buffers, pc, caller, mine, worker, history>>

Nothing == [head |-> NoCall, fields |-> <<>>]

\* The zero Entry.  head is Level, Type, Msg, File, Line and Profile, which
\* every call sets; a call sets only one of Fields and FieldsV.
Blank == [head |-> NoCall, Fields |-> <<>>, FieldsV |-> <<>>]

Init ==
  /\ entry = [e \in Entries |-> Blank] /\ inPool = {} /\ logCh = <<>>
  /\ buffer = [b \in Buffers |-> <<>>] /\ lent = {}
  /\ pc = [p \in Callers |-> "idle"] /\ calls = [p \in Callers |-> 0]
  /\ request = [p \in Callers |-> Nothing]
  /\ mine = [p \in Callers |-> NoEntry] /\ bp = [p \in Callers |-> NoBuffer]
  /\ wpc = "idle" /\ held = NoEntry
  /\ meant = [e \in Entries |-> Nothing]
  /\ line = [is |-> Nothing, shouldBe |-> Nothing]

-----------------------------------------------------------------------------
(* Entries and buffers. *)

ResetKeepingFieldsV(e) == [Blank EXCEPT !.FieldsV = entry[e].FieldsV]

\* Entry.Reset: nothing of the last use stays.
Reset(e) == Blank

\* pool.Put after Reset.
Recycle(e) == /\ entry' = [entry EXCEPT ![e] = Reset(e)]
              /\ inPool' = inPool \cup {e}

InUse == {held} \cup {mine[p] : p \in Callers} \cup {logCh[i] : i \in 1..Len(logCh)}

\* pool.Get: one that was put back, as it is, or a new one (a sync.Pool may miss,
\* or be emptied by the garbage collector, at any time).
Available(e) == e \in inPool \/ e \notin InUse
Got(e) == IF e \in inPool THEN entry[e] ELSE Blank

\* The body of log and logTyped: everything is copied into the Entry.
Fill(p, e, content) ==
  /\ Available(e) /\ inPool' = inPool \ {e}
  /\ entry' = [entry EXCEPT ![e] = [content EXCEPT !.head = request'[p].head]]
  /\ mine' = [mine EXCEPT ![p] = e]

FillFields(p, e, fs)  == Fill(p, e, [Got(e) EXCEPT !.Fields = fs])
FillFieldsV(p, e, fs) == Fill(p, e, [Got(e) EXCEPT !.FieldsV = fs])

-----------------------------------------------------------------------------
(* Logging calls. *)

Goto(p, place) == pc' = [pc EXCEPT ![p] = place]

\* A call, with or without fields, that the level and the gates let pass.
Ask(p) ==
  /\ pc[p] = "idle" /\ calls[p] < MaxCalls
  /\ calls' = [calls EXCEPT ![p] = @ + 1]
  /\ LET id == <<p, calls[p] + 1>>
     IN  \E fs \in {<<>>, <<id>>} : request' = [request EXCEPT ![p] = [head |-> id, fields |-> fs]]

Log(p) == \E e \in Entries :
  /\ Ask(p) /\ FillFields(p, e, request'[p].fields) /\ Goto(p, "send")
  /\ UNCHANGED <<logCh, buffers, worker, history>>

\* logTyped from a method of the typed API.
LogTyped(p) == \E e \in Entries :
  /\ Ask(p) /\ FillFieldsV(p, e, request'[p].fields) /\ Goto(p, "send")
  /\ UNCHANGED <<logCh, buffers, worker, history>>

\* SlogHandler.Handle: borrow a buffer and convert the attributes into it.
Handle(p) == \E b \in Buffers \ lent :
  /\ Ask(p) /\ Goto(p, "handle")
  /\ lent' = lent \cup {b} /\ bp' = [bp EXCEPT ![p] = b]
  /\ buffer' = [buffer EXCEPT ![b] = request'[p].fields]
  /\ UNCHANGED <<objects, mine, worker, history>>

\* logTyped, called by Handle: it copies from the buffer.
HandleLogs(p) == \E e \in Entries :
  /\ pc[p] = "handle" /\ UNCHANGED caller
  /\ FillFieldsV(p, e, buffer[bp[p]]) /\ Goto(p, "send")
  /\ UNCHANGED <<logCh, buffers, worker, history>>

\* The level, checked again, or a gate refuses the record.
HandleRefused(p) ==
  /\ pc[p] = "handle" /\ Goto(p, "return")
  /\ UNCHANGED <<objects, buffers, caller, mine, worker, history>>

\* clear(fields) and slogFieldPool.Put, after logTyped.
ReturnBuffer(p) ==
  /\ pc[p] = "return" /\ Goto(p, "idle")
  /\ buffer' = [buffer EXCEPT ![bp[p]] = <<>>]
  /\ lent' = lent \ {bp[p]} /\ bp' = [bp EXCEPT ![p] = NoBuffer]
  /\ UNCHANGED <<objects, caller, mine, worker, history>>

\* Where a call goes on after dispatch: Handle has its buffer to return.
AfterDispatch(p) == IF bp[p] = NoBuffer THEN "idle" ELSE "return"

-----------------------------------------------------------------------------
(* dispatch. *)

HasSpace == Len(logCh) < ChannelSize

ReturnOrFallThrough(p) ==
  IF pc[p] = "blocked"
    THEN Goto(p, "drop") /\ UNCHANGED mine
    ELSE Goto(p, AfterDispatch(p)) /\ mine' = [mine EXCEPT ![p] = NoEntry]

\* return: the worker owns the Entry from here on.
Return(p) == Goto(p, AfterDispatch(p)) /\ mine' = [mine EXCEPT ![p] = NoEntry]

\* The first select, or the second one of an ERROR entry.
Send(p) ==
  /\ pc[p] \in {"send", "blocked"} /\ HasSpace
  /\ logCh' = Append(logCh, mine[p])
  /\ meant' = [meant EXCEPT ![mine[p]] = request[p]]
  /\ Return(p)
  /\ UNCHANGED <<entry, inPool, buffers, caller, worker, line>>

\* No room: an ERROR entry waits, any other is dropped.
Full(p) ==
  /\ pc[p] = "send" /\ ~HasSpace
  /\ Goto(p, IF p \in MayBlock THEN "blocked" ELSE "drop")
  /\ UNCHANGED <<objects, buffers, caller, mine, worker, history>>

BlockTimeout(p) ==
  /\ pc[p] = "blocked" /\ Goto(p, "drop")
  /\ UNCHANGED <<objects, buffers, caller, mine, worker, history>>

\* After the drop was counted.
Discard(p) ==
  /\ pc[p] = "drop" /\ Goto(p, AfterDispatch(p))
  /\ Recycle(mine[p]) /\ mine' = [mine EXCEPT ![p] = NoEntry]
  /\ UNCHANGED <<logCh, buffers, caller, worker, history>>

-----------------------------------------------------------------------------
(* The worker: formatBatch, one Entry at a time. *)

Receive ==
  /\ wpc = "idle" /\ logCh # <<>> /\ wpc' = "format"
  /\ held' = Head(logCh) /\ logCh' = Tail(logCh)
  /\ UNCHANGED <<entry, inPool, buffers, pc, caller, mine, history>>

\* What formatText and formatJSON read: typed fields before string fields.
Rendering(c) == [head |-> c.head, fields |-> IF c.FieldsV # <<>> THEN c.FieldsV ELSE c.Fields]

Format ==
  /\ wpc = "format" /\ wpc' = "recycle"
  /\ line' = [is |-> Rendering(entry[held]), shouldBe |-> meant[held]]
  /\ UNCHANGED <<objects, buffers, pc, caller, mine, held, meant>>

Release ==
  /\ wpc = "recycle" /\ wpc' = "idle"
  /\ Recycle(held) /\ held' = NoEntry
  /\ UNCHANGED <<logCh, buffers, pc, caller, mine, history>>

-----------------------------------------------------------------------------
(* The system. *)

Call(p) == \/ Log(p) \/ LogTyped(p)
           \/ Handle(p) \/ HandleLogs(p) \/ HandleRefused(p) \/ ReturnBuffer(p)
           \/ Send(p) \/ Full(p) \/ BlockTimeout(p) \/ Discard(p)

Next == \/ \E p \in Callers : Call(p)
        \/ Receive \/ Format \/ Release

Spec == Init /\ [][Next]_vars

-----------------------------------------------------------------------------
(* Properties. *)

\* However Entries and field buffers are passed on and used again, a line holds
\* what the call that sent the Entry logged, and nothing of another call (the
\* formatter looks at FieldsV before Fields, so a leftover there would win).
WrittenAsLogged == line.is = line.shouldBe

Sent(e) == Cardinality({i \in 1..Len(logCh) : logCh[i] = e})
Holders(e) == Cardinality({p \in Callers : mine[p] = e})
One(b) == IF b THEN 1 ELSE 0

\* The pool, the channel, the worker and the callers never share an Entry, and
\* no two Handle calls share a field buffer: whoever reads one is the only one
\* who may write it.
OneOwner ==
  /\ \A e \in Entries : One(e \in inPool) + Sent(e) + One(held = e) + Holders(e) =< 1
  /\ \A p, q \in Callers : p # q /\ bp[p] # NoBuffer => bp[p] # bp[q]
=============================================================================
