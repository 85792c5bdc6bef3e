----------------------------- MODULE FoldLemmas ------------------------------
(***************************************************************************)
(* Sums over finite sets, and sequences of sequences one after the other.  *)
(* The counters of this program come in arrays (drops by level, calls by   *)
(* window, entries by caller), and what they must add up to is stated with *)
(* MapThenSumSet: how such a sum changes with one of its summands, and     *)
(* what bounds it.  The fields of a record are put together with           *)
(* FlattenSeq: what it gives for a longer sequence, and what commutes with *)
(* it.                                                                     *)
(*                                                                         *)
(* Both are recursive functions, on the subsets of a set and on the        *)
(* indices of a sequence.  That such a function exists, and what it        *)
(* computes, is shown by the least counterexample: a set of the smallest   *)
(* size, or the shortest sequence, for which the claim fails.              *)
(***************************************************************************)
EXTENDS Integers, FiniteSetsExt, SequencesExt,
        FiniteSetTheorems, SequenceTheorems, WellFoundedInduction, TLAPS

\* The larger and the smaller of two numbers.
LEMMA MinMax ==
  ASSUME NEW a \in Int, NEW b \in Int
  PROVE  /\ Max({a, b}) = IF a >= b THEN a ELSE b
         /\ Min({a, b}) = IF a =< b THEN a ELSE b
BY DEF Max, Min

SumOf(f, S) == MapThenSumSet(LAMBDA x : f[x], S)

\* The element that the fold takes first, and the function that it defines.
First(s) == CHOOSE x \in s : TRUE

Folded(g, f, D) ==
  g = [s \in D |-> IF s = {} THEN 0 ELSE f[First(s)] + g[s \ {First(s)}]]

Fold(f, S) == CHOOSE g : Folded(g, f, SUBSET S)

LEMMA SumIsFold == \A f, S : SumOf(f, S) = Fold(f, S)[S]
BY DEF SumOf, MapThenSumSet, MapThenFoldSet, Fold, Folded, First


\* The subsets with at most n elements.
Upto(S, n) == {s \in SUBSET S : Cardinality(s) =< n}

\* There is no infinite descent: a set of numbers has a least one.
LEMMA LeastNat ==
  ASSUME NEW T, T \subseteq Nat, T # {}
  PROVE  \E n \in T : \A m \in T : n =< m
<1>1. PICK n \in T : \A m \in T : ~ (<<m, n>> \in OpToRel(<, Nat))
  BY NatLessThanWellFounded, WFMin
<1>2. \A m \in T : m < n => <<m, n>> \in OpToRel(<, Nat)
  BY DEF OpToRel
<1>3. \A m \in T : ~ (m < n)
  BY <1>1, <1>2
<1> QED BY <1>3

LEMMA FirstRemoved ==
  ASSUME NEW S, IsFiniteSet(S), NEW s \in SUBSET S, s # {}
  PROVE  /\ First(s) \in s /\ IsFiniteSet(s) /\ s \ {First(s)} \in SUBSET S
         /\ Cardinality(s) \in Nat /\ Cardinality(s \ {First(s)}) = Cardinality(s) - 1
<1>1. First(s) \in s
  BY DEF First
<1>2. IsFiniteSet(s)
  BY FS_Subset
<1>3. Cardinality(s) \in Nat
  BY <1>2, FS_CardinalityType
<1>4. Cardinality(s \ {First(s)}) = Cardinality(s) - 1
  BY <1>1, <1>2, FS_RemoveElement
<1> QED BY <1>1, <1>2, <1>3, <1>4

\* The fold exists on the sets of at most n elements, for every n.
LEMMA FoldUpto ==
  ASSUME NEW S, IsFiniteSet(S), NEW f, NEW n \in Nat
  PROVE  \E g : Folded(g, f, Upto(S, n))
<1> DEFINE T == {m \in Nat : ~ \E g : Folded(g, f, Upto(S, m))}
<1> SUFFICES ASSUME T # {} PROVE FALSE
  OBVIOUS
<1>1. PICK m \in T : \A k \in T : m =< k
  BY LeastNat
<1>2. CASE m = 0
  <2> DEFINE g == [s \in Upto(S, 0) |-> 0]
  <2>1. ASSUME NEW s \in Upto(S, 0) PROVE s = {}
    <3>1. IsFiniteSet(s) /\ Cardinality(s) =< 0
      BY FS_Subset DEF Upto
    <3>2. Cardinality(s) = 0
      BY <3>1, FS_CardinalityType
    <3> QED BY <3>1, <3>2, FS_EmptySet
  <2>2. Folded(g, f, Upto(S, 0))
    BY <2>1 DEF Folded
  <2> QED BY <1>2, <2>2
<1>3. CASE m # 0
  <2>1. m - 1 \in Nat /\ m - 1 \notin T
    BY <1>1, <1>3
  <2>2. PICK g : Folded(g, f, Upto(S, m - 1))
    BY <2>1
  <2> DEFINE h == [s \in Upto(S, m) |-> IF s = {} THEN 0 ELSE f[First(s)] + g[s \ {First(s)}]]
  <2>3. ASSUME NEW s \in Upto(S, m), s # {}
        PROVE  s \ {First(s)} \in Upto(S, m - 1)
    BY <2>3, FirstRemoved, <1>1 DEF Upto
  <2>4. ASSUME NEW t \in Upto(S, m - 1) PROVE t \in Upto(S, m) /\ h[t] = g[t]
    <3>1. t \in Upto(S, m)
      BY <1>1, FS_Subset, FS_CardinalityType DEF Upto
    <3>2. g[t] = IF t = {} THEN 0 ELSE f[First(t)] + g[t \ {First(t)}]
      BY <2>2 DEF Folded
    <3> QED BY <3>1, <3>2
  <2>5. ASSUME NEW s \in Upto(S, m)
        PROVE  h[s] = IF s = {} THEN 0 ELSE f[First(s)] + h[s \ {First(s)}]
    BY <2>3, <2>4
  <2>6. Folded(h, f, Upto(S, m))
    <3>1. h = [s \in Upto(S, m) |-> h[s]]
      OBVIOUS
    <3> HIDE DEF h
    <3>2. h = [s \in Upto(S, m) |-> IF s = {} THEN 0 ELSE f[First(s)] + h[s \ {First(s)}]]
      BY <2>5, <3>1
    <3> QED BY <3>2 DEF Folded
  <2> QED BY <2>6, <1>1
<1> QED BY <1>2, <1>3

LEMMA FoldExists ==
  ASSUME NEW S, IsFiniteSet(S), NEW f
  PROVE  Folded(Fold(f, S), f, SUBSET S)
<1>1. Cardinality(S) \in Nat
  BY FS_CardinalityType
<1>2. PICK g : Folded(g, f, Upto(S, Cardinality(S)))
  BY <1>1, FoldUpto
<1>3. Upto(S, Cardinality(S)) = SUBSET S
  BY FS_Subset DEF Upto
<1> QED BY <1>2, <1>3 DEF Fold

\* What the fold computes.
LEMMA FoldStep ==
  ASSUME NEW S, IsFiniteSet(S), NEW f, NEW s \in SUBSET S
  PROVE  Fold(f, S)[s] = IF s = {} THEN 0 ELSE f[First(s)] + Fold(f, S)[s \ {First(s)}]
<1>1. Folded(Fold(f, S), f, SUBSET S)
  BY FoldExists
<1> HIDE DEF Fold
<1> QED BY <1>1 DEF Folded

\* A smallest subset with a property of its own.
LEMMA SmallestSet ==
  ASSUME NEW S, IsFiniteSet(S), NEW Bad, Bad \subseteq SUBSET S, Bad # {}
  PROVE  \E s \in Bad : \A t \in Bad : Cardinality(s) =< Cardinality(t)
<1> DEFINE T == {Cardinality(s) : s \in Bad}
<1>1. T \subseteq Nat /\ T # {}
  BY FS_Subset, FS_CardinalityType
<1>2. PICK n \in T : \A m \in T : n =< m
  BY <1>1, LeastNat
<1> QED BY <1>2

\* A sum of natural numbers is one, and is no larger than a sum of larger ones.
LEMMA SumBound ==
  ASSUME NEW S, IsFiniteSet(S), NEW f, NEW g,
         \A x \in S : f[x] \in Nat /\ g[x] \in Nat /\ f[x] =< g[x]
  PROVE  SumOf(f, S) \in Nat /\ SumOf(g, S) \in Nat /\ SumOf(f, S) =< SumOf(g, S)
<1> DEFINE F == Fold(f, S)
           G == Fold(g, S)
           Bad == {s \in SUBSET S : ~ (F[s] \in Nat /\ G[s] \in Nat /\ F[s] =< G[s])}
<1>1. ASSUME Bad # {} PROVE FALSE
  <2>1. PICK s \in Bad : \A t \in Bad : Cardinality(s) =< Cardinality(t)
    BY <1>1, SmallestSet
  <2> DEFINE c == First(s)
             t == s \ {First(s)}
  <2>2. s # {}
    <3>1. CASE s = {}
      <4>1. F[s] = 0 /\ G[s] = 0
        BY <3>1, FoldStep
      <4> QED BY <4>1
    <3> QED BY <3>1
  <2>3. c \in S /\ t \in SUBSET S /\ t \notin Bad
    BY <2>1, <2>2, FirstRemoved
  <2>4. F[s] = f[c] + F[t] /\ G[s] = g[c] + G[t]
    BY <2>1, <2>2, FoldStep
  <2>5. F[t] \in Nat /\ G[t] \in Nat /\ F[t] =< G[t]
    BY <2>3
  <2> HIDE DEF F, G
  <2> QED BY <2>3, <2>4, <2>5
<1>2. S \notin Bad
  BY <1>1
<1> QED BY <1>2, SumIsFold

\* What one summand gains, the sum gains.
LEMMA SumPoint ==
  ASSUME NEW S, IsFiniteSet(S), NEW f, NEW g, NEW x \in S,
         \A y \in S : f[y] \in Int /\ g[y] \in Int,
         \A y \in S : y # x => g[y] = f[y]
  PROVE  SumOf(f, S) \in Int /\ SumOf(g, S) = SumOf(f, S) + (g[x] - f[x])
<1> DEFINE F == Fold(f, S)
           G == Fold(g, S)
           Claim(s) == /\ F[s] \in Int
                       /\ G[s] = F[s] + (IF x \in s THEN g[x] - f[x] ELSE 0)
           Bad == {s \in SUBSET S : ~ Claim(s)}
<1>1. ASSUME Bad # {} PROVE FALSE
  <2>1. PICK s \in Bad : \A t \in Bad : Cardinality(s) =< Cardinality(t)
    BY <1>1, SmallestSet
  <2> DEFINE c == First(s)
             t == s \ {First(s)}
  <2>2. s # {}
    <3>1. CASE s = {}
      <4>1. F[s] = 0 /\ G[s] = 0
        BY <3>1, FoldStep
      <4> QED BY <3>1, <4>1
    <3> QED BY <3>1
  <2>3. c \in s /\ c \in S /\ t \in SUBSET S /\ t \notin Bad
    BY <2>1, <2>2, FirstRemoved
  <2>4. F[s] = f[c] + F[t] /\ G[s] = g[c] + G[t]
    BY <2>1, <2>2, FoldStep
  <2>5. /\ F[t] \in Int
        /\ G[t] = F[t] + (IF x \in t THEN g[x] - f[x] ELSE 0)
    BY <2>3
  <2>6. x \in t <=> x \in s /\ x # c
    OBVIOUS
  <2>7. f[x] \in Int /\ g[x] \in Int /\ f[c] \in Int /\ (x # c => g[c] = f[c])
    BY <2>3
  <2>8. Claim(s)
    <3> HIDE DEF F, G, c, t
    <3> QED BY <2>3, <2>4, <2>5, <2>6, <2>7
  <2> QED BY <2>8
<1>2. S \notin Bad
  BY <1>1
<1> QED BY <1>2, SumIsFold

\* The sum depends on nothing but the values at the elements.
LEMMA SumSame ==
  ASSUME NEW S, IsFiniteSet(S), NEW f, NEW g,
         \A y \in S : f[y] \in Int /\ g[y] = f[y]
  PROVE  SumOf(f, S) \in Int /\ SumOf(g, S) = SumOf(f, S)
<1>1. CASE S = {}
  <2>1. SumOf(f, S) = 0 /\ SumOf(g, S) = 0
    BY <1>1, FoldStep, SumIsFold
  <2> QED BY <2>1
<1>2. CASE S # {}
  <2>1. PICK x \in S : TRUE
    BY <1>2
  <2>2. SumOf(f, S) \in Int /\ SumOf(g, S) = SumOf(f, S) + (g[x] - f[x])
    BY SumPoint
  <2>3. g[x] - f[x] = 0
    OBVIOUS
  <2> QED BY <2>2, <2>3
<1> QED BY <1>1, <1>2

\* If the elements of P have at most b each and all others nothing, the sum is at
\* most b for each element of P.
LEMMA SumCap ==
  ASSUME NEW S, IsFiniteSet(S), NEW P \in SUBSET S, NEW f, NEW b \in Nat,
         \A x \in S : f[x] \in Nat /\ f[x] =< b /\ (x \notin P => f[x] = 0)
  PROVE  SumOf(f, S) =< b * Cardinality(P)
<1> DEFINE F == Fold(f, S)
           Bad == {s \in SUBSET S : ~ (F[s] \in Nat /\ F[s] =< b * Cardinality(s \cap P))}
<1>1. ASSUME Bad # {} PROVE FALSE
  <2>1. PICK s \in Bad : \A t \in Bad : Cardinality(s) =< Cardinality(t)
    BY <1>1, SmallestSet
  <2> DEFINE c == First(s)
             t == s \ {First(s)}
  <2>2. s # {}
    <3>1. CASE s = {}
      <4>1. F[s] = 0
        BY <3>1, FoldStep
      <4>2. Cardinality(s \cap P) = 0
        BY <3>1, FS_EmptySet
      <4> QED BY <4>1, <4>2
    <3> QED BY <3>1
  <2>3. c \in s /\ c \in S /\ t \in SUBSET S /\ t \notin Bad
    <3>1. s \in SUBSET S /\ Bad \subseteq SUBSET S
      BY <2>1
    <3> HIDE DEF Bad
    <3>2. /\ c \in s /\ t \in SUBSET S /\ Cardinality(s) \in Nat
          /\ Cardinality(t) = Cardinality(s) - 1
      BY <3>1, <2>2, FirstRemoved
    <3> QED BY <3>1, <3>2, <2>1
  <2>4. F[s] = f[c] + F[t]
    BY <2>1, <2>2, FoldStep
  <2> DEFINE n == Cardinality(s \cap P)
             k == Cardinality(t \cap P)
  <2>5. F[t] \in Nat /\ F[t] =< b * k
    BY <2>3
  <2>6. n \in Nat /\ k \in Nat /\ k = IF c \in P THEN n - 1 ELSE n
    <3>1. IsFiniteSet(s \cap P)
      BY FS_Subset
    <3>2. t \cap P = (s \cap P) \ {c}
      OBVIOUS
    <3>3. c \in s \cap P <=> c \in P
      BY <2>3
    <3> HIDE DEF Bad, c, t
    <3> DEFINE m == s \cap P
    <3>4. k = Cardinality(m \ {c})
      BY <3>2
    <3>5. c \in m <=> c \in P
      BY <3>3
    <3>6. IsFiniteSet(m)
      BY <3>1
    <3> HIDE DEF m
    <3>7. IsFiniteSet(m \ {c}) /\ Cardinality(m) \in Nat
      BY <3>6, FS_RemoveElement, FS_CardinalityType
    <3>8. k \in Nat
      BY <3>4, <3>7, FS_CardinalityType
    <3>9. Cardinality(m \ {c}) = IF c \in m THEN Cardinality(m) - 1 ELSE Cardinality(m)
      BY <3>6, FS_RemoveElement
    <3>10. n = Cardinality(m)
      BY DEF m
    <3> QED BY <3>4, <3>5, <3>7, <3>8, <3>9, <3>10
  <2>7. f[c] \in Nat /\ f[c] =< b /\ (c \notin P => f[c] = 0)
    BY <2>3
  <2>8. F[s] \in Nat /\ F[s] =< b * n
    <3> HIDE DEF F, c, t, n, k, Bad
    <3>1. CASE c \in P
      <4>1. b * n = b * k + b
        BY <2>6, <3>1
      <4>2. b * k \in Nat /\ b * n \in Nat
        BY <2>6
      <4> QED BY <2>4, <2>5, <2>7, <4>1, <4>2
    <3>2. CASE c \notin P
      BY <2>4, <2>5, <2>6, <2>7, <3>2
    <3> QED BY <3>1, <3>2
  <2> QED BY <2>8
<1>2. S \notin Bad
  BY <1>1
<1>3. S \cap P = P
  OBVIOUS
<1> QED BY <1>2, <1>3, SumIsFold

-----------------------------------------------------------------------------
(* Sequences of sequences. *)

\* A function on 1..n with values in S is a sequence over S of length n.
LEMMA IsSeq ==
  ASSUME NEW S, NEW n \in Nat, NEW f, f = [i \in 1..n |-> f[i]], \A i \in 1..n : f[i] \in S
  PROVE  f \in Seq(S) /\ Len(f) = n
OBVIOUS

\* The function of FlattenSeq on the first n sequences of s.
Flattens(f, s, n) == f = [i \in 1..n |-> IF i = 1 THEN s[i] ELSE f[i - 1] \o s[i]]

Flattened(s) == CHOOSE f : Flattens(f, s, Len(s))

\* FlattenSeq is the last value of the function that it defines.
LEMMA FlattenSeqIs == \A s : FlattenSeq(s) = IF Len(s) = 0 THEN s ELSE Flattened(s)[Len(s)]
BY DEF FlattenSeq, Flattened, Flattens

\* There is such a function for any number of sequences.
LEMMA FlattensExists ==
  ASSUME NEW s, NEW n \in Nat
  PROVE  \E f : Flattens(f, s, n)
<1> DEFINE T == {m \in Nat : ~ \E f : Flattens(f, s, m)}
<1> SUFFICES ASSUME T # {} PROVE FALSE
  OBVIOUS
<1>1. PICK m \in T : \A k \in T : m =< k
  BY LeastNat
<1>2. CASE m = 0
  <2> DEFINE f == [i \in 1..0 |-> <<>>]
  <2>1. Flattens(f, s, 0)
    BY DEF Flattens
  <2> QED BY <1>2, <2>1
<1>3. CASE m # 0
  <2>1. m - 1 \in Nat /\ m - 1 \notin T
    BY <1>1, <1>3
  <2>2. PICK f : Flattens(f, s, m - 1)
    BY <2>1
  <2> DEFINE next == IF m = 1 THEN s[m] ELSE f[m - 1] \o s[m]
             g    == [i \in 1..m |-> IF i = m THEN next ELSE f[i]]
  <2>3. \A i \in 1..(m - 1) : f[i] = IF i = 1 THEN s[i] ELSE f[i - 1] \o s[i]
    BY <2>2 DEF Flattens
  <2>4. ASSUME NEW i \in 1..m PROVE g[i] = IF i = 1 THEN s[i] ELSE g[i - 1] \o s[i]
    <3> HIDE DEF next
    <3>1. CASE i = m
      <4>1. g[i] = next
        BY <3>1
      <4>2. m # 1 => g[i - 1] = f[m - 1]
        BY <3>1
      <4> QED BY <3>1, <4>1, <4>2 DEF next
    <3>2. CASE i # m
      <4>1. i \in 1..(m - 1) /\ g[i] = f[i]
        BY <3>2
      <4>2. i # 1 => g[i - 1] = f[i - 1]
        BY <4>1
      <4> QED BY <2>3, <4>1, <4>2
    <3> QED BY <3>1, <3>2
  <2> HIDE DEF next
  <2>5. g = [i \in 1..m |-> IF i = 1 THEN s[i] ELSE g[i - 1] \o s[i]]
    <3> DEFINE h == [i \in 1..m |-> IF i = 1 THEN s[i] ELSE g[i - 1] \o s[i]]
    <3>1. \A i \in 1..m : g[i] = h[i]
      BY <2>4
    <3> QED BY <3>1
  <2>6. Flattens(g, s, m)
    BY <2>5 DEF Flattens
  <2> QED BY <1>1, <2>6
<1> QED BY <1>2, <1>3

\* Two such functions agree as far as their sequences do.
LEMMA FlattensAgree ==
  ASSUME NEW s, NEW t, NEW f, NEW g, NEW m \in Nat, NEW n \in Nat, m =< n,
         Flattens(f, s, m), Flattens(g, t, n), \A i \in 1..m : s[i] = t[i]
  PROVE  \A i \in 1..m : f[i] = g[i]
<1> DEFINE T == {i \in 1..m : f[i] # g[i]}
<1> SUFFICES ASSUME T # {} PROVE FALSE
  OBVIOUS
<1>0. T \subseteq Nat
  OBVIOUS
<1>1. PICK i \in T : \A k \in T : i =< k
  BY <1>0, LeastNat
<1>2. /\ f[i] = IF i = 1 THEN s[i] ELSE f[i - 1] \o s[i]
      /\ g[i] = IF i = 1 THEN t[i] ELSE g[i - 1] \o t[i]
  <2>1. \A k \in 1..m : f[k] = IF k = 1 THEN s[k] ELSE f[k - 1] \o s[k]
    BY DEF Flattens
  <2>2. \A k \in 1..n : g[k] = IF k = 1 THEN t[k] ELSE g[k - 1] \o t[k]
    BY DEF Flattens
  <2> QED BY <2>1, <2>2
<1>3. i # 1 => f[i - 1] = g[i - 1]
  BY <1>1
<1> QED BY <1>2, <1>3

\* Its values are sequences.
LEMMA FlattensSequences ==
  ASSUME NEW T, NEW s \in Seq(Seq(T)), NEW f, NEW n \in 0..Len(s), Flattens(f, s, n)
  PROVE  \A i \in 1..n : f[i] \in Seq(T)
<1> DEFINE B == {i \in 1..n : f[i] \notin Seq(T)}
<1> SUFFICES ASSUME B # {} PROVE FALSE
  OBVIOUS
<1>0. B \subseteq Nat
  OBVIOUS
<1>1. PICK i \in B : \A k \in B : i =< k
  BY <1>0, LeastNat
<1>2. f[i] = IF i = 1 THEN s[i] ELSE f[i - 1] \o s[i]
  <2>1. \A k \in 1..n : f[k] = IF k = 1 THEN s[k] ELSE f[k - 1] \o s[k]
    BY DEF Flattens
  <2> QED BY <2>1
<1>3. i # 1 => f[i - 1] \in Seq(T)
  BY <1>1
<1>4. s[i] \in Seq(T)
  OBVIOUS
<1>5. f[i] \in Seq(T)
  <2>1. CASE i = 1
    BY <1>2, <1>4, <2>1
  <2>2. CASE i # 1
    <3>1. f[i] = f[i - 1] \o s[i]
      BY <1>2, <2>2
    <3>2. f[i - 1] \in Seq(T)
      BY <1>3, <2>2
    <3> QED BY <1>4, <3>1, <3>2
  <2> QED BY <2>1, <2>2
<1> QED BY <1>1, <1>5

LEMMA FlattenEmpty == FlattenSeq(<<>>) = <<>>
BY FlattenSeqIs

LEMMA FlattenedIs == \A s : Len(s) \in Nat => Flattens(Flattened(s), s, Len(s))
BY FlattensExists DEF Flattened

\* Sequences over T, flattened, are a sequence over T.
LEMMA FlattenType ==
  ASSUME NEW T, NEW s \in Seq(Seq(T))
  PROVE  FlattenSeq(s) \in Seq(T)
<1>1. CASE Len(s) = 0
  <2>1. FlattenSeq(s) = s
    BY <1>1, FlattenSeqIs
  <2> QED BY <1>1, <2>1
<1>2. CASE Len(s) # 0
  <2>1. Flattens(Flattened(s), s, Len(s))
    BY FlattenedIs
  <2>2. Flattened(s)[Len(s)] \in Seq(T)
    BY <1>2, <2>1, FlattensSequences
  <2> QED BY <1>2, <2>2, FlattenSeqIs
<1> QED BY <1>1, <1>2

\* One sequence more is put behind the others.
LEMMA FlattenNext ==
  ASSUME NEW s, NEW t, NEW n \in Nat, Len(s) = n, Len(t) = n + 1, n # 0, \A i \in 1..n : s[i] = t[i]
  PROVE  FlattenSeq(t) = FlattenSeq(s) \o t[n + 1]
<1>1. Flattens(Flattened(t), t, n + 1) /\ Flattens(Flattened(s), s, n)
  BY FlattenedIs, n + 1 \in Nat
<1>2. FlattenSeq(t) = Flattened(t)[n + 1] /\ FlattenSeq(s) = Flattened(s)[n]
  BY FlattenSeqIs
<1>3. Flattened(t)[n + 1] = Flattened(t)[n] \o t[n + 1]
  <2>1. \A k \in 1..(n + 1) : Flattened(t)[k] = IF k = 1 THEN t[k] ELSE Flattened(t)[k - 1] \o t[k]
    BY <1>1 DEF Flattens
  <2>2. n + 1 \in 1..(n + 1) /\ (n + 1) - 1 = n /\ n + 1 # 1
    OBVIOUS
  <2> QED BY <2>1, <2>2
<1>4. Flattened(s)[n] = Flattened(t)[n]
  <2>1. n =< n + 1 /\ n + 1 \in Nat /\ n \in 1..n
    OBVIOUS
  <2>2. \A i \in 1..n : Flattened(s)[i] = Flattened(t)[i]
    BY <1>1, <2>1, FlattensAgree
  <2> QED BY <2>1, <2>2
<1> QED BY <1>2, <1>3, <1>4

LEMMA FlattenOne ==
  ASSUME NEW t, Len(t) = 1
  PROVE  FlattenSeq(t) = t[1]
<1>1. Flattens(Flattened(t), t, 1)
  BY FlattenedIs
<1>2. Flattened(t)[1] = t[1]
  BY <1>1 DEF Flattens
<1>3. FlattenSeq(t) = Flattened(t)[1]
  BY FlattenSeqIs
<1> QED BY <1>2, <1>3

LEMMA FlattenAppend ==
  ASSUME NEW T, NEW s \in Seq(Seq(T)), NEW x \in Seq(T)
  PROVE  FlattenSeq(Append(s, x)) = FlattenSeq(s) \o x
<1> DEFINE t == Append(s, x)
           n == Len(s)
<1>1. t \in Seq(Seq(T)) /\ Len(t) = n + 1 /\ t[n + 1] = x /\ n \in Nat /\ \A i \in 1..n : s[i] = t[i]
  OBVIOUS
<1>2. CASE n = 0
  <2>1. s = <<>> /\ t = <<x>>
    BY <1>2
  <2>2. FlattenSeq(s) = <<>>
    BY <2>1, FlattenEmpty
  <2>3. FlattenSeq(t) = x
    <3>1. Len(t) = 1 /\ t[1] = x
      BY <2>1
    <3> QED BY <3>1, FlattenOne
  <2> QED BY <2>2, <2>3
<1>3. CASE n # 0
  BY <1>1, <1>3, FlattenNext
<1> QED BY <1>2, <1>3

\* What holds of every sequence but the empty one, and of a sequence whenever it
\* holds of its front, has no shortest counterexample.
LEMMA Shortest ==
  ASSUME NEW S, NEW C \in SUBSET Seq(S), C # {}
  PROVE  \E r \in C : \A q \in C : Len(r) =< Len(q)
<1> DEFINE L == {Len(q) : q \in C}
<1>0. \A q \in C : Len(q) \in Nat
  OBVIOUS
<1>1. L \subseteq Nat /\ L # {}
  BY <1>0
<1>2. PICK n \in L : \A m \in L : n =< m
  BY <1>1, LeastNat
<1> QED BY <1>2

LEMMA ShortestSplit ==
  ASSUME NEW S, NEW C \in SUBSET Seq(S), C # {}, <<>> \notin C
  PROVE  \E q \in Seq(S), x \in S : Append(q, x) \in C /\ q \notin C
<1>1. PICK r \in C : \A q \in C : Len(r) =< Len(q)
  BY Shortest
<1>2. PICK q \in Seq(S), x \in S : r = Append(q, x)
  BY <1>1, SequenceEmptyOrAppend
<1>3. Len(r) = Len(q) + 1 /\ Len(q) \in Nat
  BY <1>2
<1>4. q \notin C
  BY <1>1, <1>3
<1> QED BY <1>2, <1>4

\* Concatenation is associative.
LEMMA Associative ==
  \A T : \A a, b, c \in Seq(T) : (a \o b) \o c = a \o (b \o c)
BY ConcatAssociative

LEMMA ConcatAppend ==
  ASSUME NEW T, NEW a \in Seq(T), NEW b \in Seq(T), NEW x \in T
  PROVE  a \o Append(b, x) = Append(a \o b, x) /\ a \o b \in Seq(T)
<1>1. <<x>> \in Seq(T) /\ a \o b \in Seq(T)
  OBVIOUS
<1>2. Append(b, x) = b \o <<x>> /\ Append(a \o b, x) = (a \o b) \o <<x>>
  BY <1>1, AppendIsConcat
<1> QED BY <1>1, <1>2, Associative

Mapped(H, s) == [i \in DOMAIN s |-> H[s[i]]]

\* A sequence mapped, one longer, and the concatenation of two.
LEMMA MappedType ==
  ASSUME NEW T, NEW U, NEW H, NEW q \in Seq(T), \A y \in T : H[y] \in U
  PROVE  Mapped(H, q) \in Seq(U) /\ Len(Mapped(H, q)) = Len(q)
<1>1. \A i \in 1..Len(q) : H[q[i]] \in U
  OBVIOUS
<1> QED BY <1>1 DEF Mapped

LEMMA MappedAppend ==
  ASSUME NEW T, NEW H, NEW q \in Seq(T), NEW x \in T
  PROVE  Mapped(H, Append(q, x)) = Append(Mapped(H, q), H[x])
<1> DEFINE U == {H[y] : y \in T}
           a == Mapped(H, Append(q, x))
           e == Mapped(H, q)
<1>1. /\ Append(q, x) \in Seq(T) /\ Len(Append(q, x)) = Len(q) + 1
      /\ \A i \in 1..Len(q) : Append(q, x)[i] = q[i]
      /\ Append(q, x)[Len(q) + 1] = x
  BY AppendProperties
<1>2. \A y \in T : H[y] \in U
  OBVIOUS
<1> HIDE DEF U
<1>3. /\ e \in Seq(U) /\ Len(e) = Len(q)
      /\ a \in Seq(U) /\ Len(a) = Len(q) + 1
  <2>1. \A r \in Seq(T) : Mapped(H, r) \in Seq(U) /\ Len(Mapped(H, r)) = Len(r)
    BY <1>2, MappedType
  <2> QED BY <1>1, <2>1
<1>4. /\ \A i \in 1..Len(q) : e[i] = H[q[i]]
      /\ \A i \in 1..(Len(q) + 1) : a[i] = H[Append(q, x)[i]]
  BY <1>1 DEF Mapped
<1>5. /\ Append(e, H[x]) \in Seq(U) /\ Len(Append(e, H[x])) = Len(q) + 1
      /\ \A i \in 1..Len(q) : Append(e, H[x])[i] = e[i]
      /\ Append(e, H[x])[Len(q) + 1] = H[x]
  BY <1>2, <1>3, AppendProperties
<1> HIDE DEF a, e
<1>6. \A i \in 1..(Len(q) + 1) : a[i] = Append(e, H[x])[i]
  BY <1>1, <1>4, <1>5
<1>7. a = Append(e, H[x])
  BY <1>3, <1>5, <1>6, SeqEqual
<1> QED BY <1>7 DEF a, e

\* Flattening commutes with concatenation.
LEMMA FlattenConcat ==
  ASSUME NEW T, NEW s \in Seq(Seq(T)), NEW t \in Seq(Seq(T))
  PROVE  FlattenSeq(s \o t) = FlattenSeq(s) \o FlattenSeq(t)
<1> DEFINE C == {r \in Seq(Seq(T)) : FlattenSeq(s \o r) # FlattenSeq(s) \o FlattenSeq(r)}
<1> SUFFICES ASSUME C # {} PROVE FALSE
  OBVIOUS
<1>1. FlattenSeq(s) \in Seq(T)
  BY FlattenType
<1>2. s \o <<>> = s /\ FlattenSeq(s) \o <<>> = FlattenSeq(s)
  BY <1>1
<1>3. <<>> \notin C
  BY <1>2, FlattenEmpty
<1>4. PICK q \in Seq(Seq(T)), x \in Seq(T) : Append(q, x) \in C /\ q \notin C
  <2>1. C \in SUBSET Seq(Seq(T))
    OBVIOUS
  <2> HIDE DEF C
  <2> QED BY <1>3, <2>1, ShortestSplit
<1> HIDE DEF C
<1>5. FlattenSeq(Append(q, x)) = FlattenSeq(q) \o x
  BY FlattenAppend
<1>6. s \o Append(q, x) = Append(s \o q, x) /\ s \o q \in Seq(Seq(T))
  BY ConcatAppend
<1>7. FlattenSeq(Append(s \o q, x)) = FlattenSeq(s \o q) \o x
  BY <1>6, FlattenAppend
<1>8. FlattenSeq(q) \in Seq(T)
  BY FlattenType
<1>9. (FlattenSeq(s) \o FlattenSeq(q)) \o x = FlattenSeq(s) \o (FlattenSeq(q) \o x)
  <2> DEFINE a == FlattenSeq(s)
             b == FlattenSeq(q)
  <2>1. a \in Seq(T) /\ b \in Seq(T)
    BY <1>1, <1>8
  <2> HIDE DEF a, b
  <2>2. (a \o b) \o x = a \o (b \o x)
    BY ONLY <2>1, x \in Seq(T), ConcatAssociative
  <2> QED BY <2>2 DEF a, b
<1>10. FlattenSeq(s \o q) = FlattenSeq(s) \o FlattenSeq(q)
  BY <1>4 DEF C
<1>11. FlattenSeq(s \o Append(q, x)) # FlattenSeq(s) \o FlattenSeq(Append(q, x))
  BY <1>4 DEF C
<1> QED BY <1>5, <1>6, <1>7, <1>9, <1>10, <1>11

\* What commutes with concatenation commutes with flattening.
LEMMA Homomorphism ==
  ASSUME NEW T, NEW U, NEW H \in [Seq(T) -> Seq(U)], H[<<>>] = <<>>,
         \A a, b \in Seq(T) : H[a \o b] = H[a] \o H[b],
         NEW s \in Seq(Seq(T))
  PROVE  H[FlattenSeq(s)] = FlattenSeq(Mapped(H, s))
<1> DEFINE C == {r \in Seq(Seq(T)) : H[FlattenSeq(r)] # FlattenSeq(Mapped(H, r))}
<1> SUFFICES ASSUME C # {} PROVE FALSE
  OBVIOUS
<1>1. Mapped(H, <<>>) = <<>>
  BY DEF Mapped
<1>2. <<>> \notin C
  BY <1>1, FlattenEmpty
<1>3. PICK q \in Seq(Seq(T)), x \in Seq(T) : Append(q, x) \in C /\ q \notin C
  <2>1. C \in SUBSET Seq(Seq(T))
    OBVIOUS
  <2> HIDE DEF C
  <2> QED BY <1>2, <2>1, ShortestSplit
<1> HIDE DEF C
<1>4. FlattenSeq(Append(q, x)) = FlattenSeq(q) \o x
  BY FlattenAppend
<1>5. Mapped(H, q) \in Seq(Seq(U)) /\ H[x] \in Seq(U)
  <2>1. \A y \in Seq(T) : H[y] \in Seq(U)
    OBVIOUS
  <2> QED BY <2>1, MappedType
<1>6. Mapped(H, Append(q, x)) = Append(Mapped(H, q), H[x])
  BY MappedAppend
<1>7. FlattenSeq(Append(Mapped(H, q), H[x])) = FlattenSeq(Mapped(H, q)) \o H[x]
  BY <1>5, FlattenAppend
<1>8. FlattenSeq(q) \in Seq(T)
  BY FlattenType
<1>9. H[FlattenSeq(Append(q, x))] = H[FlattenSeq(q)] \o H[x]
  BY <1>4, <1>8
<1>10. H[FlattenSeq(q)] = FlattenSeq(Mapped(H, q))
  BY <1>3 DEF C
<1>11. H[FlattenSeq(Append(q, x))] # FlattenSeq(Mapped(H, Append(q, x)))
  BY <1>3 DEF C
<1> QED BY <1>6, <1>7, <1>9, <1>10, <1>11

LEMMA MappedConcat ==
  ASSUME NEW T, NEW H, NEW a \in Seq(T), NEW b \in Seq(T)
  PROVE  Mapped(H, a \o b) = Mapped(H, a) \o Mapped(H, b)
<1> DEFINE U == {H[y] : y \in T}
           l == Mapped(H, a \o b)
           r == Mapped(H, a)
           s == Mapped(H, b)
<1>1. /\ a \o b \in Seq(T) /\ Len(a \o b) = Len(a) + Len(b)
      /\ \A i \in 1..(Len(a) + Len(b)) : (a \o b)[i] = IF i =< Len(a) THEN a[i] ELSE b[i - Len(a)]
  BY ConcatProperties
<1>2. \A y \in T : H[y] \in U
  OBVIOUS
<1> HIDE DEF U
<1>3. \A q \in Seq(T) : Mapped(H, q) \in Seq(U) /\ Len(Mapped(H, q)) = Len(q)
  BY <1>2, MappedType
<1>4. \A q \in Seq(T) : \A i \in 1..Len(q) : Mapped(H, q)[i] = H[q[i]]
  BY DEF Mapped
<1> HIDE DEF l, r, s
<1>5. /\ l \in Seq(U) /\ Len(l) = Len(a) + Len(b)
      /\ r \in Seq(U) /\ Len(r) = Len(a) /\ s \in Seq(U) /\ Len(s) = Len(b)
  BY <1>1, <1>3 DEF l, r, s
<1>6. /\ \A i \in 1..(Len(a) + Len(b)) : l[i] = H[(a \o b)[i]]
      /\ \A i \in 1..Len(a) : r[i] = H[a[i]]
      /\ \A i \in 1..Len(b) : s[i] = H[b[i]]
  BY <1>1, <1>4 DEF l, r, s
<1>7. /\ r \o s \in Seq(U) /\ Len(r \o s) = Len(a) + Len(b)
      /\ \A i \in 1..(Len(a) + Len(b)) : (r \o s)[i] = IF i =< Len(a) THEN r[i] ELSE s[i - Len(a)]
  <2>1. \A x, y \in Seq(U) :
          /\ x \o y \in Seq(U) /\ Len(x \o y) = Len(x) + Len(y)
          /\ \A i \in 1..(Len(x) + Len(y)) : (x \o y)[i] = IF i =< Len(x) THEN x[i] ELSE y[i - Len(x)]
    BY ConcatProperties
  <2> QED BY <1>5, <2>1
<1>8. \A i \in 1..(Len(a) + Len(b)) : l[i] = (r \o s)[i]
  <2> SUFFICES ASSUME NEW i \in 1..(Len(a) + Len(b)) PROVE l[i] = (r \o s)[i]
    OBVIOUS
  <2>1. Len(a) \in Nat /\ Len(b) \in Nat
    OBVIOUS
  <2>2. CASE i =< Len(a)
    <3>1. i \in 1..Len(a)
      BY <2>1, <2>2
    <3>2. (a \o b)[i] = a[i] /\ (r \o s)[i] = r[i]
      BY <1>1, <1>7, <2>2
    <3>3. l[i] = H[(a \o b)[i]] /\ r[i] = H[a[i]]
      BY <1>6, <3>1
    <3> QED BY <3>2, <3>3
  <2>3. CASE ~ (i =< Len(a))
    <3>1. i - Len(a) \in 1..Len(b)
      BY <2>1, <2>3
    <3> QED BY <1>1, <1>6, <1>7, <2>3, <3>1
  <2> QED BY <2>2, <2>3
<1>9. l = r \o s
  BY <1>5, <1>7, <1>8, SeqEqual
<1> QED BY <1>9 DEF l, r, s

-----------------------------------------------------------------------------
(* Folds from the left. *)

\* A fold from the left is a function on the sets of indices, which takes the last
\* index of a set when the others are folded.
LeftFold(g, step, base, D) ==
  g = [t \in D |-> IF t = {} THEN base ELSE step[g[t \ {Max(t)}]][Max(t)]]

\* The last of some indices.
LEMMA LargestIndex ==
  ASSUME NEW n \in Nat, NEW t \in SUBSET (1..n), t # {}
  PROVE  /\ Max(t) \in t /\ \A y \in t : y =< Max(t)
         /\ t \ {Max(t)} \in SUBSET (1..(Max(t) - 1))
<1> DEFINE L == {n - x : x \in t}
<1>1. L \subseteq Nat /\ L # {}
  <2>1. \A x \in t : x \in Int /\ n - x \in Nat
    OBVIOUS
  <2>2. L \subseteq Nat
    BY <2>1
  <2>3. PICK x \in t : TRUE
    OBVIOUS
  <2>4. n - x \in L
    OBVIOUS
  <2> HIDE DEF L
  <2> QED BY <2>2, <2>4
<1>2. PICK k \in L : \A m \in L : k =< m
  BY <1>1, LeastNat
<1>3. PICK x \in t : k = n - x
  BY <1>2
<1>4. ASSUME NEW y \in t PROVE y =< x
  <2>1. n - y \in L /\ y \in 1..n /\ x \in 1..n
    OBVIOUS
  <2>2. k =< n - y
    BY <1>2, <2>1
  <2> QED BY <1>3, <2>1, <2>2
<1>5. Max(t) \in t /\ \A y \in t : Max(t) >= y
  <2>1. \A y \in t : x >= y
    BY <1>4
  <2> QED BY <2>1 DEF Max
<1>6. Max(t) \in 1..n
  BY <1>5
<1>7. \A y \in t \ {Max(t)} : y \in 1..(Max(t) - 1)
  BY <1>5, <1>6
<1> QED BY <1>5, <1>7

LEMMA LastOfInterval ==
  ASSUME NEW n \in Nat, n # 0
  PROVE  Max(1..n) = n /\ (1..n) \ {n} = 1..(n - 1)
<1> DEFINE t == 1..n
<1>0. t \in SUBSET (1..n) /\ t # {} /\ n \in t
  OBVIOUS
<1> HIDE DEF t
<1>1. Max(t) \in t /\ \A y \in t : y =< Max(t)
  BY <1>0, LargestIndex
<1>2. Max(t) = n
  <2>1. Max(t) \in 1..n
    BY <1>0, <1>1
  <2>2. n =< Max(t)
    BY <1>0, <1>1
  <2> QED BY <2>1, <2>2
<1> QED BY <1>2 DEF t

\* Such a function exists for any number of indices, and is as typed as its steps.
LEMMA LeftFoldExists ==
  ASSUME NEW step, NEW base, NEW n \in Nat
  PROVE  \E g : LeftFold(g, step, base, SUBSET (1..n))
<1> DEFINE T == {m \in Nat : ~ \E g : LeftFold(g, step, base, SUBSET (1..m))}
<1> SUFFICES ASSUME T # {} PROVE FALSE
  OBVIOUS
<1>1. PICK m \in T : \A k \in T : m =< k
  BY LeastNat
<1>2. CASE m = 0
  <2> DEFINE g == [t \in SUBSET (1..0) |-> base]
  <2>1. LeftFold(g, step, base, SUBSET (1..0))
    BY DEF LeftFold
  <2> QED BY <1>2, <2>1
<1>3. CASE m # 0
  <2>1. m - 1 \in Nat /\ m - 1 \notin T
    <3>1. m - 1 \in Nat /\ ~(m =< m - 1)
      BY <1>1, <1>3
    <3> HIDE DEF T
    <3> QED BY <1>1, <3>1
  <2>2. PICK g : LeftFold(g, step, base, SUBSET (1..(m - 1)))
    BY <2>1
  <2> DEFINE h == [t \in SUBSET (1..m) |-> IF t = {} THEN base ELSE step[g[t \ {Max(t)}]][Max(t)]]
  <2>3. ASSUME NEW t \in SUBSET (1..m), t # {}
        PROVE  t \ {Max(t)} \in SUBSET (1..(m - 1))
    <3>1. Max(t) \in 1..m /\ t \ {Max(t)} \in SUBSET (1..(Max(t) - 1))
      BY <1>1, <2>3, LargestIndex
    <3> QED BY <1>1, <3>1
  <2>4. ASSUME NEW t \in SUBSET (1..(m - 1)) PROVE t \in SUBSET (1..m) /\ h[t] = g[t]
    <3>1. t \in SUBSET (1..m)
      BY <1>1
    <3>2. g[t] = IF t = {} THEN base ELSE step[g[t \ {Max(t)}]][Max(t)]
      BY <2>2 DEF LeftFold
    <3> QED BY <3>1, <3>2
  <2>5. ASSUME NEW t \in SUBSET (1..m)
        PROVE  h[t] = IF t = {} THEN base ELSE step[h[t \ {Max(t)}]][Max(t)]
    BY <2>3, <2>4
  <2>6. LeftFold(h, step, base, SUBSET (1..m))
    <3>1. h = [t \in SUBSET (1..m) |-> h[t]]
      OBVIOUS
    <3> HIDE DEF h
    <3>2. h = [t \in SUBSET (1..m) |-> IF t = {} THEN base ELSE step[h[t \ {Max(t)}]][Max(t)]]
      BY <2>5, <3>1
    <3> QED BY <3>2 DEF LeftFold
  <2> QED BY <2>6, <1>1
<1> QED BY <1>2, <1>3

LEMMA LeftFoldType ==
  ASSUME NEW R, NEW n \in Nat, NEW g, g[{}] \in R,
         \A t \in SUBSET (1..n) : t # {} /\ g[t \ {Max(t)}] \in R => g[t] \in R
  PROVE  \A t \in SUBSET (1..n) : g[t] \in R
<1> DEFINE Typed(m) == \A t \in SUBSET (1..m) : g[t] \in R
           Bad == {m \in 0..n : ~Typed(m)}
<1> SUFFICES ASSUME Bad # {} PROVE FALSE
  <2>1. Bad = {} => Typed(n)
    <3> HIDE DEF Typed
    <3> QED OBVIOUS
  <2> QED BY <2>1
<1>1. PICK m \in Bad : \A k \in Bad : m =< k
  <2> HIDE DEF Typed
  <2>1. Bad \subseteq Nat
    OBVIOUS
  <2> HIDE DEF Bad
  <2> QED BY <2>1, LeastNat
<1>2. PICK t \in SUBSET (1..m) : g[t] \notin R
  BY <1>1
<1>3. m \in 0..n /\ t \in SUBSET (1..n) /\ t # {}
  <2>1. m \in 0..n
    OBVIOUS
  <2> HIDE DEF Bad
  <2>2. t \in SUBSET (1..n) /\ t # {}
    BY <1>2, <2>1
  <2> QED BY <2>1, <2>2
<1>4. Max(t) \in 1..m /\ t \ {Max(t)} \in SUBSET (1..(Max(t) - 1))
  <2> HIDE DEF Bad
  <2>1. Max(t) \in t /\ t \ {Max(t)} \in SUBSET (1..(Max(t) - 1))
    BY <1>3, LargestIndex
  <2> QED BY <2>1
<1>5. Max(t) - 1 \in 0..n /\ ~(m =< Max(t) - 1)
  BY <1>3, <1>4
<1>6. Typed(Max(t) - 1)
  <2> HIDE DEF Typed
  <2> QED BY <1>1, <1>5
<1>7. g[t \ {Max(t)}] \in R
  BY <1>4, <1>6
<1> QED BY <1>2, <1>3, <1>7
=============================================================================
