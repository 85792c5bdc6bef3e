------------------------------ MODULE DropStats ------------------------------
(***************************************************************************)
(* How dropped entries are counted, and what an observer sees of it.       *)
(* dispatch adds to drops, then to the counter of the level, and then      *)
(* gives onDrop the total as it is by then.  Stats and ResetDrops walk     *)
(* over the counters one atomic operation at a time, and SetOnDrop         *)
(* replaces the callback, all while other goroutines drop.                 *)
(***************************************************************************)
EXTENDS Integers, FiniteSets, FiniteSetsExt

CONSTANTS
  Callers,      \* goroutines whose entries find the channel full
  LevelOf,      \* the level a caller logs at; one without a counter is legal
  LevelCount,   \* length of dropsByLevel, 4 in the code
  MaxCalls,     \* bound: drops of one caller
  MaxResets     \* bound: calls of ResetDrops

ASSUME StatsAssumption ==
  /\ LevelCount \in Nat \ {0} /\ LevelOf \in [Callers -> Nat]
  /\ MaxCalls \in Nat /\ MaxResets \in Nat

VARIABLES
  drops, dropsByLevel,
  onDrop,         \* is a callback registered?
  pc, calls,      \* where each caller is in dispatch, and its drops so far
  resetting,      \* next level that ResetDrops clears; LevelCount when none runs
  resets,         \* calls of ResetDrops so far
  reading,        \* how many counters Stats has read; all of them when none runs
  seen,           \* what the last Stats has read of each
  told, unheard,  \* history: largest number given to onDrop; drops without one
  overlap         \* history: has ResetDrops overlapped a drop or a Stats?

counters == <<drops, dropsByLevel>>
callers  == <<pc, calls>>
resetter == <<resetting, resets>>
reader   == <<reading, seen>>
reports  == <<told, unheard>>
vars == <<counters, onDrop, callers, resetter, reader, reports, overlap>>

Levels   == 0..(LevelCount - 1)
Counters == 0..LevelCount         \* those of dropsByLevel, and then drops

Resetting == resetting < LevelCount
Reading   == reading =< LevelCount

Init ==
  /\ drops = 0 /\ dropsByLevel = [v \in Levels |-> 0]
  /\ onDrop = FALSE
  /\ pc = [p \in Callers |-> "idle"] /\ calls = [p \in Callers |-> 0]
  /\ resetting = LevelCount /\ resets = 0
  /\ reading = LevelCount + 1 /\ seen = [c \in Counters |-> 0]
  /\ told = 0 /\ unheard = 0 /\ overlap = FALSE

-----------------------------------------------------------------------------
(* dispatch, when the channel is full. *)

Goto(p, place) == pc' = [pc EXCEPT ![p] = place]

\* l.drops.Add(1)
Drop(p) ==
  /\ pc[p] = "idle" /\ calls[p] < MaxCalls /\ Goto(p, "level")
  /\ calls' = [calls EXCEPT ![p] = @ + 1]
  /\ drops' = drops + 1
  /\ UNCHANGED <<dropsByLevel, onDrop, resetter, reader, reports>>

\* l.dropsByLevel[e.Level].Add(1), for a level that has a counter
CountLevel(p) ==
  /\ pc[p] = "level" /\ Goto(p, "notify")
  /\ dropsByLevel' = [v \in Levels |-> dropsByLevel[v] + IF v = LevelOf[p] THEN 1 ELSE 0]
  /\ UNCHANGED <<drops, calls, onDrop, resetter, reader, reports>>

\* l.onDrop.Load()
LoadOnDrop(p) ==
  /\ pc[p] = "notify" /\ Goto(p, IF onDrop THEN "report" ELSE "idle")
  /\ unheard' = IF onDrop THEN unheard ELSE unheard + 1
  /\ UNCHANGED <<counters, calls, onDrop, resetter, reader, told>>

ReportedOfLevel(p) == IF LevelOf[p] \in Levels THEN dropsByLevel[LevelOf[p]] ELSE drops

\* The total as it is now, not as it was after the own Add.
Reported(p) == drops

\* (*fn)(l.drops.Load())
Report(p) ==
  /\ pc[p] = "report" /\ Goto(p, "idle")
  /\ told' = Max({told, Reported(p)})
  /\ UNCHANGED <<counters, calls, onDrop, resetter, reader, unheard>>

-----------------------------------------------------------------------------
(* SetOnDrop, ResetDrops, Stats. *)

SetOnDrop ==
  /\ onDrop' = ~onDrop
  /\ UNCHANGED <<counters, callers, resetter, reader, reports>>

\* The total first ...
ResetDrops ==
  /\ ~Resetting /\ resets < MaxResets /\ resets' = resets + 1
  /\ drops' = 0 /\ resetting' = 0
  /\ UNCHANGED <<dropsByLevel, onDrop, callers, reader, reports>>

\* ... and then level after level.
ResetLevel ==
  /\ Resetting /\ resetting' = resetting + 1
  /\ dropsByLevel' = [dropsByLevel EXCEPT ![resetting] = 0]
  /\ UNCHANGED <<drops, onDrop, callers, resets, reader, reports>>

TotalFirst(n) == IF n = 0 THEN LevelCount ELSE n - 1

\* The counter that Stats reads after n others: the levels, and drops last.
NextRead(n) == n

Read(n) ==
  LET c == NextRead(n)
  IN  /\ reading' = n + 1
      /\ seen' = [seen EXCEPT ![c] = IF c = LevelCount THEN drops ELSE dropsByLevel[c]]
      /\ UNCHANGED <<counters, onDrop, callers, resetter, reports>>

StatsCall == ~Reading /\ Read(0)
StatsNext == Reading /\ Read(reading)

-----------------------------------------------------------------------------
(* The system. *)

Dispatch(p) == Drop(p) \/ CountLevel(p) \/ LoadOnDrop(p) \/ Report(p)

Step == \/ \E p \in Callers : Dispatch(p)
        \/ SetOnDrop \/ ResetDrops \/ ResetLevel \/ StatsCall \/ StatsNext

\* ResetDrops is between two of its stores while a drop is between its two
\* adds, or while Stats reads.
Clash == Resetting /\ (Reading \/ \E p \in Callers : pc[p] = "level")

Next == Step /\ overlap' = (overlap \/ Clash')

Spec == Init /\ [][Next]_vars

-----------------------------------------------------------------------------
(* Properties. *)

LevelSum(count) == MapThenSumSet(LAMBDA v : count[v], Levels)

\* A Stats, which reads counter after counter while entries are dropped, never
\* shows more drops by level than drops (api.go:278-291), unless ResetDrops came
\* between the two adds of a drop or between two reads.
StatsOrdered == ~Reading /\ ~overlap => LevelSum(seen) =< seen[LevelCount]

InDispatch(places) == Cardinality({p \in Callers : pc[p] \in places})

\* Callers that drop at the same time may give onDrop the same number twice and
\* skip another (core.go:113-115), but the largest number it was given falls
\* short of the total only by drops that found no callback or are on their way
\* to it.
DropsReported ==
  resets = 0 => drops =< told + unheard + InDispatch({"level", "notify", "report"})
=============================================================================
