--------------------------- MODULE DropStatsProofs ---------------------------
(***************************************************************************)
(* Theorems about DropStats, for any callers and any number of levels: the *)
(* numbers that Stats and the OnDrop callback give, read one atomic        *)
(* operation at a time while other goroutines drop.                        *)
(***************************************************************************)
EXTENDS DropStats, FoldLemmas, TLAPS

USE DEF counters, callers, resetter, reader, reports, Goto

-----------------------------------------------------------------------------
(* Types. *)

StatsTypeOK ==
  /\ drops \in Nat /\ dropsByLevel \in [Levels -> Nat]
  /\ onDrop \in BOOLEAN /\ overlap \in BOOLEAN
  /\ pc \in [Callers -> {"idle", "level", "notify", "report"}]
  /\ calls \in [Callers -> Nat]
  /\ resetting \in 0..LevelCount /\ resets \in Nat
  /\ reading \in 1..(LevelCount + 1) /\ seen \in [Counters -> Nat]
  /\ told \in Nat /\ unheard \in Nat

Among(f, places) == {p \in Callers : f[p] \in places}

\* Only the callers that have dropped are in dispatch: finitely many.
FewAtWork == IsFiniteSet(Among(pc, {"level", "notify", "report"}))

\* A drop is in the total before it is in a level.  While ResetDrops goes from
\* level to level nobody is between his two adds, and all is zero behind it.
LevelsBehind ==
  ~overlap =>
    /\ ~Resetting => LevelSum(dropsByLevel) + InDispatch({"level"}) =< drops
    /\ Resetting => drops = 0 /\ \A v \in Levels : v < resetting => dropsByLevel[v] = 0
    /\ ~Clash

\* Stats has read levels that can only have grown since.
ReadBehind ==
  ~overlap =>
    /\ Reading => \A v \in Levels : v < reading => seen[v] =< dropsByLevel[v]
    /\ ~Reading => LevelSum(seen) =< seen[LevelCount]

StatsInv == StatsTypeOK /\ FewAtWork /\ LevelsBehind /\ ReadBehind

-----------------------------------------------------------------------------
(* Lemmas. *)

LEMMA LevelsFinite == IsFiniteSet(Levels) /\ LevelCount \in Nat \ {0}
BY StatsAssumption, FS_Interval DEF Levels

LEMMA LevelSumIsSum ==
  ASSUME NEW count
  PROVE  LevelSum(count) = SumOf(count, Levels)
BY DEF LevelSum, SumOf

\* Callers at some places are counted one by one.
LEMMA AtChanges ==
  ASSUME NEW places, IsFiniteSet(Among(pc, places)), NEW p \in Callers,
         \A q \in Callers : q # p => pc'[q] = pc[q]
  PROVE  /\ IsFiniteSet(Among(pc', places)) /\ Cardinality(Among(pc, places)) \in Nat
         /\ Cardinality(Among(pc', places)) =
              (Cardinality(Among(pc, places)) + (IF pc'[p] \in places THEN 1 ELSE 0))
                - (IF pc[p] \in places THEN 1 ELSE 0)
<1> DEFINE A == Among(pc, places)
           B == Among(pc', places)
<1>1. Cardinality(A) \in Nat /\ IsFiniteSet(A)
  BY FS_CardinalityType
<1>2. CASE pc'[p] \in places
  <2>1. B = A \cup {p} /\ (p \in A <=> pc[p] \in places)
    BY <1>2 DEF Among
  <2> HIDE DEF A, B
  <2>2. IsFiniteSet(B) /\ Cardinality(B) = IF p \in A THEN Cardinality(A) ELSE Cardinality(A) + 1
    BY <1>1, <2>1, FS_AddElement
  <2>3. Cardinality(B) = (Cardinality(A) + 1) - (IF pc[p] \in places THEN 1 ELSE 0)
    BY <1>1, <2>1, <2>2
  <2> QED BY <1>1, <1>2, <2>2, <2>3 DEF A, B
<1>3. CASE pc'[p] \notin places
  <2>1. B = A \ {p} /\ (p \in A <=> pc[p] \in places)
    BY <1>3 DEF Among
  <2> HIDE DEF A, B
  <2>2. IsFiniteSet(B) /\ Cardinality(B) = IF p \in A THEN Cardinality(A) - 1 ELSE Cardinality(A)
    BY <1>1, <2>1, FS_RemoveElement
  <2>3. Cardinality(B) = (Cardinality(A) + 0) - (IF pc[p] \in places THEN 1 ELSE 0)
    BY <1>1, <2>1, <2>2
  <2> QED BY <1>1, <1>3, <2>2, <2>3 DEF A, B
<1> QED BY <1>2, <1>3

LEMMA AtLevelFinite ==
  ASSUME FewAtWork
  PROVE  IsFiniteSet(Among(pc, {"level"})) /\ InDispatch({"level"}) \in Nat
<1>1. Among(pc, {"level"}) \in SUBSET Among(pc, {"level", "notify", "report"})
  BY DEF Among
<1>2. IsFiniteSet(Among(pc, {"level"}))
  BY <1>1, FS_Subset DEF FewAtWork
<1>3. Cardinality(Among(pc, {"level"})) \in Nat
  BY <1>2, FS_CardinalityType
<1> QED BY <1>2, <1>3 DEF Among, InDispatch

LEMMA SumsAreNat ==
  ASSUME NEW f, \A v \in Levels : f[v] \in Nat
  PROVE  LevelSum(f) \in Nat
BY LevelsFinite, SumBound, LevelSumIsSum

LEMMA LevelSumZero ==
  ASSUME NEW f, \A v \in Levels : f[v] = 0
  PROVE  LevelSum(f) = 0
<1>1. {} \in SUBSET Levels /\ Cardinality({}) = 0 /\ 0 \in Nat
  BY FS_EmptySet
<1>2. SumOf(f, Levels) =< 0 * Cardinality({})
  BY <1>1, LevelsFinite, SumCap
<1>3. SumOf(f, Levels) \in Nat
  BY LevelsFinite, SumBound
<1> QED BY <1>1, <1>2, <1>3, LevelSumIsSum

\* What the steps do to the callers at work.
LEMMA Moves ==
  ASSUME StatsTypeOK, NEW p \in Callers, Dispatch(p)
  PROVE  \A q \in Callers : q # p => pc'[q] = pc[q]
BY DEF Dispatch, Drop, CountLevel, LoadOnDrop, Report, StatsTypeOK

-----------------------------------------------------------------------------
(* The invariant is inductive. *)

LEMMA StatsStart == Init => StatsInv
<1> SUFFICES ASSUME Init PROVE StatsInv
  OBVIOUS
<1>1. LevelCount \in Nat \ {0} /\ ~Resetting /\ ~Reading
  BY LevelsFinite DEF Init, Resetting, Reading
<1>2. StatsTypeOK
  <2>1. LevelCount \in 0..LevelCount /\ LevelCount + 1 \in 1..(LevelCount + 1)
    BY <1>1
  <2> QED BY <2>1 DEF Init, StatsTypeOK
<1>3. Among(pc, {"level", "notify", "report"}) = {} /\ Among(pc, {"level"}) = {}
  BY DEF Init, Among
<1>4. InDispatch({"level"}) = 0 /\ FewAtWork
  BY <1>3, FS_EmptySet DEF InDispatch, Among, FewAtWork
<1>6. Levels \subseteq Counters
  BY <1>1 DEF Levels, Counters
<1>7. LevelSum(dropsByLevel) = 0 /\ LevelSum(seen) = 0 /\ seen[LevelCount] = 0
  BY <1>1, <1>6, LevelSumZero DEF Init, Counters
<1>8. LevelsBehind
  BY <1>1, <1>4, <1>7 DEF Init, LevelsBehind, Clash
<1>9. ReadBehind
  BY <1>1, <1>7 DEF ReadBehind
<1> QED BY <1>2, <1>4, <1>8, <1>9 DEF StatsInv

LEMMA StatsTypeStep == StatsInv /\ [Next]_vars => StatsTypeOK' /\ FewAtWork'
<1> SUFFICES ASSUME StatsInv, [Next]_vars PROVE StatsTypeOK' /\ FewAtWork'
  OBVIOUS
<1> USE DEF StatsInv
<1>1. CASE UNCHANGED vars
  BY <1>1 DEF vars, StatsTypeOK, FewAtWork, Among
<1>2. CASE Next
  <2>1. overlap' \in BOOLEAN
    BY <1>2 DEF Next, StatsTypeOK, Clash, Resetting, Reading
  <2>2. ASSUME NEW p \in Callers, Dispatch(p) PROVE StatsTypeOK' /\ FewAtWork'
    <3>1. FewAtWork'
      BY <2>2, Moves, AtChanges DEF FewAtWork
    <3>2. CASE Drop(p)
      BY <2>1, <3>1, <3>2 DEF Drop, StatsTypeOK
    <3>3. CASE CountLevel(p)
      <4>1. dropsByLevel' \in [Levels -> Nat]
        BY <3>3 DEF CountLevel, StatsTypeOK
      <4> QED BY <2>1, <3>1, <3>3, <4>1 DEF CountLevel, StatsTypeOK
    <3>4. CASE LoadOnDrop(p)
      BY <2>1, <3>1, <3>4 DEF LoadOnDrop, StatsTypeOK
    <3>5. CASE Report(p)
      <4>1. told' \in Nat
        BY <3>5, MinMax DEF Report, Reported, StatsTypeOK
      <4> QED BY <2>1, <3>1, <3>5, <4>1 DEF Report, StatsTypeOK
    <3> QED BY <2>2, <3>2, <3>3, <3>4, <3>5 DEF Dispatch
  <2>3. CASE SetOnDrop
    BY <2>1, <2>3 DEF SetOnDrop, StatsTypeOK, FewAtWork, Among
  <2>4. CASE ResetDrops
    BY <2>1, <2>4, LevelsFinite DEF ResetDrops, StatsTypeOK, FewAtWork, Among
  <2>5. CASE ResetLevel
    <3>1. resetting + 1 \in 0..LevelCount
      BY <2>5, LevelsFinite DEF ResetLevel, StatsTypeOK, Resetting
    <3> QED BY <2>1, <2>5, <3>1 DEF ResetLevel, StatsTypeOK, FewAtWork, Among
  <2>6. CASE StatsCall \/ StatsNext
    <3>1. PICK n \in 0..LevelCount : Read(n)
      BY <2>6, LevelsFinite DEF StatsCall, StatsNext, StatsTypeOK, Reading
    <3>2. n + 1 \in 1..(LevelCount + 1) /\ n \in Counters
      BY LevelsFinite DEF Counters
    <3>3. (IF n = LevelCount THEN drops ELSE dropsByLevel[n]) \in Nat
      BY LevelsFinite DEF StatsTypeOK, Levels
    <3> QED BY <2>1, <3>1, <3>2, <3>3 DEF Read, NextRead, StatsTypeOK, FewAtWork, Among
  <2> QED BY <1>2, <2>2, <2>3, <2>4, <2>5, <2>6 DEF Next, Step
<1> QED BY <1>1, <1>2

\* Counting a drop adds at most one to the levels.
LEMMA CountStepAdds ==
  ASSUME StatsInv, NEW p \in Callers, CountLevel(p)
  PROVE  /\ LevelSum(dropsByLevel') \in Nat /\ LevelSum(dropsByLevel) \in Nat
         /\ LevelSum(dropsByLevel') =< LevelSum(dropsByLevel) + 1
         /\ \A v \in Levels : dropsByLevel[v] =< dropsByLevel'[v]
<1>1. dropsByLevel \in [Levels -> Nat] /\ dropsByLevel' \in [Levels -> Nat]
  BY DEF StatsInv, StatsTypeOK, CountLevel
<1>2. \A v \in Levels : dropsByLevel'[v] = dropsByLevel[v] + IF v = LevelOf[p] THEN 1 ELSE 0
  BY DEF CountLevel
<1>3. LevelSum(dropsByLevel') \in Nat /\ LevelSum(dropsByLevel) \in Nat
  BY <1>1, SumsAreNat
<1>4. CASE LevelOf[p] \in Levels
  <2>1. PICK x \in Levels : x = LevelOf[p]
    BY <1>4
  <2>2. PICK f, g : f = dropsByLevel /\ g = dropsByLevel'
    OBVIOUS
  <2>3. /\ \A v \in Levels : f[v] \in Int /\ g[v] \in Int
        /\ \A v \in Levels : v # x => g[v] = f[v]
        /\ g[x] - f[x] = 1
    BY <1>1, <1>2, <2>1, <2>2
  <2>4. SumOf(f, Levels) \in Int /\ SumOf(g, Levels) = SumOf(f, Levels) + (g[x] - f[x])
    BY <2>3, LevelsFinite, SumPoint
  <2>5. LevelSum(g) = LevelSum(f) + 1
    BY <2>3, <2>4, LevelSumIsSum
  <2> QED BY <1>1, <1>2, <1>3, <2>2, <2>5
<1>5. CASE LevelOf[p] \notin Levels
  <2>1. dropsByLevel' = dropsByLevel
    BY <1>1, <1>2, <1>5
  <2> QED BY <1>1, <1>3, <2>1
<1> QED BY <1>4, <1>5

LEMMA LevelsBehindStep == StatsInv /\ Next => LevelsBehind'
<1> SUFFICES ASSUME StatsInv, Next, ~overlap'
             PROVE  /\ ~Resetting' => (LevelSum(dropsByLevel) + InDispatch({"level"}))' =< drops'
                    /\ Resetting' => drops' = 0 /\ \A v \in Levels : v < resetting' => dropsByLevel'[v] = 0
                    /\ ~Clash'
  BY DEF LevelsBehind
<1> DEFINE Behind == /\ ~Resetting => LevelSum(dropsByLevel) + InDispatch({"level"}) =< drops
                     /\ Resetting => drops = 0 /\ \A v \in Levels : v < resetting => dropsByLevel[v] = 0
<1>1. ~overlap /\ ~Clash' /\ ~Clash /\ Behind
  BY DEF Next, StatsInv, LevelsBehind, StatsTypeOK
<1>2. /\ StatsTypeOK /\ IsFiniteSet(Among(pc, {"level"})) /\ InDispatch({"level"}) \in Nat
      /\ LevelSum(dropsByLevel) \in Nat
  BY AtLevelFinite, SumsAreNat DEF StatsInv, StatsTypeOK
<1>0. ASSUME NEW p \in Callers, Dispatch(p)
      PROVE  InDispatch({"level"})' =
               (InDispatch({"level"}) + (IF pc'[p] = "level" THEN 1 ELSE 0))
                 - (IF pc[p] = "level" THEN 1 ELSE 0)
  <2>1. /\ InDispatch({"level"}) = Cardinality(Among(pc, {"level"}))
        /\ InDispatch({"level"})' = Cardinality(Among(pc', {"level"}))
    BY DEF InDispatch, Among
  <2>2. Cardinality(Among(pc', {"level"})) =
          (Cardinality(Among(pc, {"level"})) + (IF pc'[p] \in {"level"} THEN 1 ELSE 0))
            - (IF pc[p] \in {"level"} THEN 1 ELSE 0)
    BY <1>0, <1>2, Moves, AtChanges
  <2> QED BY <2>1, <2>2
<1>3. Resetting => \A p \in Callers : pc[p] # "level"
  BY <1>1 DEF Clash
<1>4. Resetting' => \A p \in Callers : pc'[p] # "level"
  BY <1>1 DEF Clash
<1>5. SUFFICES Behind'
  BY <1>1
<1>6. ASSUME NEW p \in Callers, Drop(p) PROVE Behind'
  <2>1. pc'[p] = "level" /\ resetting' = resetting
    BY <1>2, <1>6 DEF Drop, StatsTypeOK
  <2>2. ~Resetting' /\ ~Resetting
    BY <1>4, <2>1 DEF Resetting
  <2>3. InDispatch({"level"})' = InDispatch({"level"}) + 1
    <3>1. pc[p] # "level" /\ pc'[p] = "level" /\ Dispatch(p)
      BY <1>6, <2>1 DEF Dispatch, Drop
    <3> QED BY <1>0, <1>2, <3>1
  <2>4. drops' = drops + 1 /\ LevelSum(dropsByLevel') = LevelSum(dropsByLevel) /\ drops \in Nat
    BY <1>2, <1>6 DEF Drop, StatsTypeOK
  <2> QED BY <1>1, <1>2, <2>2, <2>3, <2>4
<1>7. ASSUME NEW p \in Callers, CountLevel(p) PROVE Behind'
  <2>1. ~Resetting /\ ~Resetting' /\ drops' = drops
    BY <1>3, <1>7 DEF CountLevel, Resetting
  <2>2. InDispatch({"level"})' = InDispatch({"level"}) - 1
    <3>1. pc[p] = "level" /\ pc'[p] # "level" /\ Dispatch(p)
      BY <1>2, <1>7 DEF Dispatch, CountLevel, StatsTypeOK
    <3> QED BY <1>0, <1>2, <3>1
  <2>3. /\ LevelSum(dropsByLevel') \in Nat
        /\ LevelSum(dropsByLevel') =< LevelSum(dropsByLevel) + 1
    BY <1>7, CountStepAdds
  <2>4. drops \in Nat
    BY <1>2 DEF StatsTypeOK
  <2> QED BY <1>1, <1>2, <2>1, <2>2, <2>3, <2>4
<1>8. ASSUME NEW p \in Callers, LoadOnDrop(p) \/ Report(p) PROVE Behind'
  <2>1. InDispatch({"level"})' = InDispatch({"level"})
    <3>1. pc'[p] # "level" /\ pc[p] # "level"
      BY <1>2, <1>8 DEF LoadOnDrop, Report, StatsTypeOK
    <3> QED BY <1>0, <1>2, <1>8, <3>1 DEF Dispatch
  <2>2. UNCHANGED <<counters, resetting>>
    BY <1>8 DEF LoadOnDrop, Report
  <2> QED BY <1>1, <2>1, <2>2 DEF Resetting
<1>9. CASE SetOnDrop \/ StatsCall \/ StatsNext
  <2>1. UNCHANGED <<counters, resetting, pc>>
    BY <1>9 DEF SetOnDrop, StatsCall, StatsNext, Read
  <2> QED BY <1>1, <2>1 DEF Resetting, InDispatch
<1>10. CASE ResetDrops
  <2>1. resetting' = 0 /\ drops' = 0 /\ Resetting'
    BY <1>10, LevelsFinite DEF ResetDrops, Resetting
  <2>2. \A v \in Levels : ~ (v < 0)
    BY DEF Levels
  <2> QED BY <2>1, <2>2
<1>11. CASE ResetLevel
  <2>1. /\ Resetting /\ resetting' = resetting + 1 /\ drops' = 0 /\ resetting \in Levels
        /\ dropsByLevel' = [dropsByLevel EXCEPT ![resetting] = 0] /\ pc' = pc
    BY <1>1, <1>2, <1>11, LevelsFinite DEF ResetLevel, Resetting, StatsTypeOK, Levels
  <2>2. \A v \in Levels : v < resetting' => dropsByLevel'[v] = 0
    <3> SUFFICES ASSUME NEW v \in Levels, v < resetting + 1 PROVE dropsByLevel'[v] = 0
      BY <2>1
    <3>1. v = resetting \/ v < resetting
      BY <1>2, LevelsFinite DEF StatsTypeOK, Levels
    <3> QED BY <1>1, <1>2, <2>1, <3>1 DEF StatsTypeOK
  <2>3. CASE Resetting'
    BY <2>1, <2>2, <2>3
  <2>4. CASE ~Resetting'
    <3>1. \A v \in Levels : v < resetting'
      BY <1>2, <2>1, <2>4, LevelsFinite DEF StatsTypeOK, Resetting, Levels
    <3>2. LevelSum(dropsByLevel') = 0
      BY <2>2, <3>1, LevelSumZero
    <3>3. InDispatch({"level"})' = 0
      <4>1. {p \in Callers : pc'[p] \in {"level"}} = {}
        BY <1>3, <2>1
      <4> QED BY <4>1, FS_EmptySet DEF InDispatch
    <3> QED BY <2>1, <2>4, <3>2, <3>3
  <2> QED BY <2>3, <2>4
<1> QED BY <1>6, <1>7, <1>8, <1>9, <1>10, <1>11 DEF Next, Step, Dispatch

LEMMA ReadBehindStep == StatsInv /\ Next => ReadBehind'
<1> SUFFICES ASSUME StatsInv, Next, ~overlap'
             PROVE  /\ Reading' => \A v \in Levels : v < reading' => seen'[v] =< dropsByLevel'[v]
                    /\ ~Reading' => LevelSum(seen') =< seen'[LevelCount]
  BY DEF ReadBehind
<1>1. /\ ~overlap /\ ~Clash /\ StatsTypeOK /\ LevelCount \in Nat \ {0}
      /\ Reading => \A v \in Levels : v < reading => seen[v] =< dropsByLevel[v]
      /\ ~Reading => LevelSum(seen) =< seen[LevelCount]
  BY LevelsFinite DEF Next, StatsInv, StatsTypeOK, LevelsBehind, ReadBehind
<1>2. /\ seen \in [Counters -> Nat] /\ dropsByLevel \in [Levels -> Nat]
      /\ Levels \subseteq Counters /\ LevelCount \in Counters /\ LevelCount \notin Levels
  BY <1>1 DEF StatsTypeOK, Levels, Counters
<1>3. CASE UNCHANGED <<dropsByLevel, reading, seen>>
  BY <1>1, <1>3 DEF Reading
<1>4. ASSUME NEW p \in Callers, CountLevel(p)
      PROVE  /\ Reading' => \A v \in Levels : v < reading' => seen'[v] =< dropsByLevel'[v]
             /\ ~Reading' => LevelSum(seen') =< seen'[LevelCount]
  <2>1. UNCHANGED <<reading, seen>>
    BY <1>4 DEF CountLevel
  <2>2. \A v \in Levels : dropsByLevel[v] =< dropsByLevel'[v]
    BY <1>4, CountStepAdds
  <2>3. dropsByLevel' \in [Levels -> Nat]
    BY <1>2, <1>4 DEF CountLevel
  <2>4. ASSUME Reading, NEW v \in Levels, v < reading PROVE seen[v] =< dropsByLevel'[v]
    <3>1. seen[v] =< dropsByLevel[v] /\ dropsByLevel[v] =< dropsByLevel'[v]
      BY <1>1, <2>2, <2>4
    <3>2. seen[v] \in Nat /\ dropsByLevel[v] \in Nat /\ dropsByLevel'[v] \in Nat
      BY <1>2, <2>3
    <3> QED BY <3>1, <3>2
  <2> QED BY <1>1, <2>1, <2>4 DEF Reading
<1>5. CASE ResetLevel
  <2>1. ~Reading /\ UNCHANGED <<reading, seen>>
    BY <1>1, <1>5 DEF ResetLevel, Clash
  <2> QED BY <1>1, <2>1 DEF Reading
<1>6. CASE StatsCall \/ StatsNext
  <2>1. PICK n \in 0..LevelCount :
          Read(n) /\ (n # 0 => Reading /\ n = reading)
    BY <1>1, <1>6 DEF StatsCall, StatsNext, StatsTypeOK, Reading
  <2>2. /\ reading' = n + 1 /\ UNCHANGED <<dropsByLevel, drops>>
        /\ seen' = [seen EXCEPT ![n] = IF n = LevelCount THEN drops ELSE dropsByLevel[n]]
        /\ n \in Counters
    BY <2>1 DEF Read, NextRead, Counters
  <2>3. \A v \in Levels : v < n => v # n /\ seen'[v] =< dropsByLevel[v]
    <3> SUFFICES ASSUME NEW v \in Levels, v < n PROVE v # n /\ seen'[v] =< dropsByLevel[v]
      OBVIOUS
    <3>1. v \in Nat /\ v # n /\ v \in Counters
      BY <1>2 DEF Levels
    <3>2. n # 0 /\ Reading /\ n = reading
      BY <2>1 DEF Levels
    <3>3. seen[v] =< dropsByLevel[v]
      BY <1>1, <3>2
    <3>4. seen'[v] = seen[v]
      BY <1>2, <2>2, <3>1
    <3> QED BY <3>1, <3>3, <3>4
  <2>4. CASE n = LevelCount
    <3>1. ~Reading' /\ ~Resetting
      BY <1>1, <2>1, <2>2, <2>4 DEF Reading, Clash
    <3>2. \A v \in Levels : v < n
      BY <2>4 DEF Levels
    <3>3. \A v \in Levels : /\ seen'[v] \in Nat /\ dropsByLevel[v] \in Nat
                            /\ seen'[v] =< dropsByLevel[v]
      <4>1. \A v \in Levels : seen'[v] = seen[v]
        BY <1>2, <2>2, <2>4
      <4> QED BY <1>2, <2>3, <3>2, <4>1
    <3>4. LevelSum(seen') =< LevelSum(dropsByLevel) /\ LevelSum(seen') \in Nat /\ LevelSum(dropsByLevel) \in Nat
      BY <3>3, LevelsFinite, SumBound, LevelSumIsSum
    <3>5. LevelSum(dropsByLevel) + InDispatch({"level"}) =< drops
      BY <1>1, <3>1 DEF StatsInv, LevelsBehind
    <3>6. seen'[LevelCount] = drops /\ drops \in Nat /\ InDispatch({"level"}) \in Nat
      BY <1>1, <1>2, <2>2, <2>4, AtLevelFinite DEF StatsTypeOK, StatsInv
    <3> QED BY <3>1, <3>4, <3>5, <3>6
  <2>5. CASE n # LevelCount
    <3>1. n \in Levels /\ Reading'
      BY <1>1, <2>2, <2>5 DEF Reading, Levels
    <3>2. seen'[n] = dropsByLevel[n] /\ dropsByLevel[n] \in Nat
      BY <1>2, <2>2, <2>5, <3>1
    <3>3. ASSUME NEW v \in Levels, v < reading' PROVE seen'[v] =< dropsByLevel[v]
      <4>1. v = n \/ v < n
        BY <2>2, <3>3 DEF Levels
      <4> QED BY <2>3, <3>2, <4>1
    <3> QED BY <2>2, <3>1, <3>3
  <2> QED BY <2>4, <2>5
<1>7. \/ UNCHANGED <<dropsByLevel, reading, seen>> \/ ResetLevel \/ StatsCall \/ StatsNext
      \/ \E p \in Callers : CountLevel(p)
  BY DEF Next, Step, Dispatch, Drop, LoadOnDrop, Report, SetOnDrop, ResetDrops
<1> QED BY <1>3, <1>4, <1>5, <1>6, <1>7

LEMMA StatsCorrect == Spec => []StatsInv
<1>1. StatsInv /\ [Next]_vars => StatsInv'
  <2> SUFFICES ASSUME StatsInv, [Next]_vars PROVE LevelsBehind' /\ ReadBehind'
    BY StatsTypeStep DEF StatsInv
  <2>1. CASE UNCHANGED vars
    BY <2>1 DEF vars, StatsInv, LevelsBehind, ReadBehind, InDispatch, Clash, Reading, Resetting
  <2> QED BY <2>1, LevelsBehindStep, ReadBehindStep
<1> QED BY <1>1, StatsStart, PTL DEF Spec

-----------------------------------------------------------------------------
(* Theorems. *)

\* A Stats never shows more drops by level than drops, although it reads counter
\* after counter while entries are dropped, unless a ResetDrops came between the
\* two adds of a drop or between two of its own reads.
THEOREM StatsInOrder == Spec => []StatsOrdered
<1>1. StatsInv => StatsOrdered
  BY DEF StatsInv, ReadBehind, StatsOrdered
<1> QED BY <1>1, StatsCorrect, PTL

\* As long as nobody resets the counters, the largest number that OnDrop was given
\* falls short of the total only by drops that found no callback or are still on
\* their way to it.
THEOREM DropsAreReported == Spec => []DropsReported
<1> DEFINE W == {"level", "notify", "report"}
<1>1. Init => DropsReported
  <2> SUFFICES ASSUME Init PROVE drops =< told + unheard + InDispatch(W)
    BY DEF DropsReported
  <2>1. {p \in Callers : pc[p] \in W} = {}
    BY DEF Init
  <2> QED BY <2>1, FS_EmptySet DEF Init, InDispatch
<1>2. StatsInv /\ DropsReported /\ [Next]_vars => DropsReported'
  <2> SUFFICES ASSUME StatsInv, DropsReported, [Next]_vars, resets' = 0
               PROVE  drops' =< told' + unheard' + InDispatch(W)'
    BY DEF DropsReported
  <2>1. /\ drops \in Nat /\ told \in Nat /\ unheard \in Nat /\ resets \in Nat
        /\ IsFiniteSet(Among(pc, W)) /\ InDispatch(W) \in Nat /\ StatsTypeOK
        /\ InDispatch(W) = Cardinality(Among(pc, W))
        /\ InDispatch(W)' = Cardinality(Among(pc', W))
    <3>1. IsFiniteSet(Among(pc, W))
      BY DEF StatsInv, FewAtWork
    <3>2. /\ InDispatch(W) = Cardinality(Among(pc, W))
          /\ InDispatch(W)' = Cardinality(Among(pc', W))
      BY DEF InDispatch, Among
    <3>3. Cardinality(Among(pc, W)) \in Nat
      BY <3>1, FS_CardinalityType
    <3> QED BY <3>1, <3>2, <3>3 DEF StatsInv, StatsTypeOK
  <2>10. ASSUME NEW p \in Callers, Dispatch(p)
         PROVE  /\ InDispatch(W)' \in Nat
                /\ InDispatch(W)' = (InDispatch(W) + (IF pc'[p] \in W THEN 1 ELSE 0))
                                     - (IF pc[p] \in W THEN 1 ELSE 0)
    <3> HIDE DEF W
    <3>1. /\ IsFiniteSet(Among(pc', W))
          /\ Cardinality(Among(pc', W)) =
               (Cardinality(Among(pc, W)) + (IF pc'[p] \in W THEN 1 ELSE 0))
                 - (IF pc[p] \in W THEN 1 ELSE 0)
      BY <2>1, <2>10, Moves, AtChanges
    <3>2. Cardinality(Among(pc', W)) \in Nat
      BY <3>1, FS_CardinalityType
    <3> QED BY <2>1, <3>1, <3>2
  <2> HIDE DEF W
  <2>2. resets = 0 /\ ~ResetDrops
    <3>1. resets' = resets \/ ResetDrops
      BY DEF Next, Step, Dispatch, Drop, CountLevel, LoadOnDrop, Report, SetOnDrop,
             ResetLevel, StatsCall, StatsNext, Read, vars
    <3>2. ResetDrops => resets' = resets + 1
      BY DEF ResetDrops
    <3> QED BY <2>1, <3>1, <3>2
  <2>3. drops =< told + unheard + InDispatch(W)
    BY <2>2 DEF DropsReported, W
  <2>4. ASSUME NEW p \in Callers, Drop(p) PROVE drops' =< told' + unheard' + InDispatch(W)'
    <3>1. InDispatch(W)' = InDispatch(W) + 1
      <4>1. pc[p] \notin W /\ pc'[p] \in W /\ Dispatch(p)
        BY <2>1, <2>4 DEF Dispatch, Drop, W, StatsTypeOK
      <4> QED BY <2>1, <2>10, <4>1
    <3> QED BY <2>1, <2>3, <2>4, <3>1 DEF Drop
  <2>5. ASSUME NEW p \in Callers, CountLevel(p) PROVE drops' =< told' + unheard' + InDispatch(W)'
    <3>1. InDispatch(W)' = InDispatch(W)
      <4>1. pc[p] \in W /\ pc'[p] \in W /\ Dispatch(p)
        BY <2>1, <2>5 DEF Dispatch, CountLevel, W, StatsTypeOK
      <4> QED BY <2>1, <2>10, <4>1
    <3> QED BY <2>1, <2>3, <2>5, <3>1 DEF CountLevel
  <2>6. ASSUME NEW p \in Callers, LoadOnDrop(p) PROVE drops' =< told' + unheard' + InDispatch(W)'
    <3>1. InDispatch(W)' = IF onDrop THEN InDispatch(W) ELSE InDispatch(W) - 1
      <4>1. pc[p] \in W /\ (pc'[p] \in W <=> onDrop)
        BY <2>1, <2>6 DEF LoadOnDrop, W, StatsTypeOK
      <4> QED BY <2>1, <2>6, <2>10, <4>1 DEF Dispatch
    <3>2. /\ drops' = drops /\ told' = told
          /\ unheard' = IF onDrop THEN unheard ELSE unheard + 1
      BY <2>6 DEF LoadOnDrop
    <3> QED BY <2>1, <2>3, <3>1, <3>2
  <2>7. ASSUME NEW p \in Callers, Report(p) PROVE drops' =< told' + unheard' + InDispatch(W)'
    <3>1. InDispatch(W)' = InDispatch(W) - 1 /\ InDispatch(W)' \in Nat
      <4>1. pc[p] \in W /\ pc'[p] \notin W
        BY <2>1, <2>7 DEF Report, W, StatsTypeOK
      <4> QED BY <2>1, <2>7, <2>10, <4>1 DEF Dispatch
    <3>2. told' >= drops /\ told' \in Nat /\ drops' = drops /\ unheard' = unheard
      BY <2>1, <2>7, MinMax DEF Report, Reported
    <3> QED BY <2>1, <3>1, <3>2
  <2>8. CASE UNCHANGED <<drops, told, unheard, pc>>
    BY <2>3, <2>8 DEF InDispatch
  <2>9. \/ UNCHANGED <<drops, told, unheard, pc>>
        \/ \E p \in Callers : Drop(p) \/ CountLevel(p) \/ LoadOnDrop(p) \/ Report(p)
    BY <2>2 DEF Next, Step, Dispatch, SetOnDrop, ResetLevel, StatsCall, StatsNext, Read, vars
  <2> QED BY <2>4, <2>5, <2>6, <2>7, <2>8, <2>9
<1> QED BY <1>1, <1>2, StatsCorrect, PTL DEF Spec
=============================================================================
