------------------------- MODULE ProfileGatesProofs -------------------------
(***************************************************************************)
(* Theorems about ProfileGates, for any callers, any sample rate, limit    *)
(* and window, and any split of the word between counter and window.       *)
(***************************************************************************)
EXTENDS ProfileGates, FoldLemmas, TLAPS

USE DEF gateVars, callVars, histVars

-----------------------------------------------------------------------------
(* Arithmetic: quotients, and the packed word. *)

Words == 0..(WindowSpan * CountSpan - 1)

LEMMA Quotient ==
  ASSUME NEW n \in Nat, NEW d \in Nat \ {0}
  PROVE  /\ n \div d \in Nat /\ n % d \in 0..(d - 1)
         /\ n = (n \div d) * d + (n % d)
<1>1. n = d * (n \div d) + (n % d) /\ n % d \in 0..(d - 1) /\ n \div d \in Nat
  OBVIOUS
<1> QED BY <1>1

\* A number has one quotient and one rest.
LEMMA QuotientUnique ==
  ASSUME NEW q \in Nat, NEW d \in Nat \ {0}, NEW r \in 0..(d - 1)
  PROVE  (q * d + r) \div d = q /\ (q * d + r) % d = r
OBVIOUS

LEMMA Limits ==
  /\ rlLimit \in 0..rlMaxExactLimit /\ rlMaxExactLimit \in Nat \ {0}
  /\ rlMaxWindow \in Nat /\ rlWindowMs \in Nat \ {0}
  /\ 0..rlMaxWindow \subseteq Windows /\ Windows \subseteq Nat
<1>1. Max({Limit, 0}) \in Nat /\ rlMaxExactLimit \in Nat \ {0} /\ rlMaxWindow \in Nat
  BY GatesAssumption, MinMax DEF rlMaxExactLimit, rlMaxWindow
<1>2. rlLimit \in 0..rlMaxExactLimit
  <2> DEFINE m == Max({Limit, 0})
  <2>1. Min({m, rlMaxExactLimit}) = IF m =< rlMaxExactLimit THEN m ELSE rlMaxExactLimit
    BY <1>1, MinMax
  <2> QED BY <1>1, <2>1 DEF rlLimit
<1>3. rlWindowMs \in Nat \ {0}
  BY GatesAssumption, MinMax DEF rlWindowMs
<1>4. Max({rlMaxWindow, MaxClock}) \in Nat /\ rlMaxWindow =< Max({rlMaxWindow, MaxClock})
  BY <1>1, GatesAssumption, MinMax
<1> QED BY <1>1, <1>2, <1>3, <1>4 DEF Windows

\* The two parts of a word.
LEMMA Parts ==
  ASSUME NEW s \in Words
  PROVE  /\ WindowOf(s) \in 0..rlMaxWindow /\ CountOf(s) \in 0..rlMaxExactLimit
         /\ s = WindowOf(s) * CountSpan + CountOf(s)
<1>1. s \in Nat /\ CountSpan \in Nat \ {0} /\ WindowSpan \in Nat \ {0} /\ s < WindowSpan * CountSpan
  BY GatesAssumption DEF Words
<1>2. /\ WindowOf(s) \in Nat /\ CountOf(s) \in 0..(CountSpan - 1)
      /\ s = WindowOf(s) * CountSpan + CountOf(s)
  BY <1>1, Quotient DEF WindowOf, CountOf
<1>3. WindowOf(s) < WindowSpan
  BY <1>1, <1>2
<1> QED BY <1>1, <1>2, <1>3 DEF rlMaxWindow, rlMaxExactLimit

LEMMA Word ==
  ASSUME NEW w \in 0..rlMaxWindow, NEW n \in 0..rlMaxExactLimit
  PROVE  /\ w * CountSpan + n \in Words
         /\ WindowOf(w * CountSpan + n) = w /\ CountOf(w * CountSpan + n) = n
<1>1. /\ CountSpan \in Nat \ {0, 1} /\ WindowSpan \in Nat \ {0}
      /\ w \in Nat /\ w =< WindowSpan - 1 /\ n \in 0..(CountSpan - 1)
  BY GatesAssumption DEF rlMaxWindow, rlMaxExactLimit
<1>2. (w + 1) * CountSpan =< WindowSpan * CountSpan
  BY <1>1
<1>3. w * CountSpan + n \in Words
  BY <1>1, <1>2 DEF Words
<1> QED BY <1>1, <1>3, QuotientUnique DEF WindowOf, CountOf

\* A packed word has its window, and one call in it.
LEMMA Packed ==
  ASSUME NEW w \in 0..rlMaxWindow
  PROVE  Pack(w) \in Words /\ WindowOf(Pack(w)) = w /\ CountOf(Pack(w)) = 1
<1>1. 1 \in 0..rlMaxExactLimit
  BY Limits
<1>2. /\ CountSpan \in Nat \ {0, 1} /\ WindowSpan \in Nat \ {0}
      /\ w \in Nat /\ w =< WindowSpan - 1
  BY GatesAssumption DEF rlMaxWindow
<1>3. w * CountSpan < WindowSpan * CountSpan /\ w * CountSpan \in Nat
  BY <1>2
<1>4. WindowSpan * CountSpan \in Nat \ {0}
  BY <1>2
<1>5. (w * CountSpan) % (WindowSpan * CountSpan) = w * CountSpan
  BY <1>3, <1>4
<1> QED BY <1>1, <1>5, Word DEF Pack

\* Below the cap, the counter does not carry into the window.
LEMMA Counted ==
  ASSUME NEW s \in Words, CountOf(s) < rlMaxExactLimit
  PROVE  /\ s + 1 \in Words
         /\ WindowOf(s + 1) = WindowOf(s) /\ CountOf(s + 1) = CountOf(s) + 1
<1>1. CountOf(s) + 1 \in 0..rlMaxExactLimit
  BY Parts, Limits
<1>2. s + 1 = WindowOf(s) * CountSpan + (CountOf(s) + 1)
  BY Parts, Limits, GatesAssumption
<1> QED BY <1>1, <1>2, Word, Parts

LEMMA WindowType ==
  ASSUME NEW now \in Nat
  PROVE  Window(now) \in 0..rlMaxWindow
<1>1. Max({now - StartMs, 0}) \in Nat
  BY GatesAssumption, MinMax
<1>2. Max({now - StartMs, 0}) \div rlWindowMs \in Nat
  BY <1>1, Limits, Quotient
<1> DEFINE w == Max({now - StartMs, 0}) \div rlWindowMs
<1>3. Min({w, rlMaxWindow}) = IF w =< rlMaxWindow THEN w ELSE rlMaxWindow
  <2> HIDE DEF w
  <2>1. w \in Int /\ rlMaxWindow \in Int
    BY <1>2, Limits DEF w
  <2> QED BY <2>1, MinMax
<1> QED BY <1>2, <1>3, Limits DEF Window

-----------------------------------------------------------------------------
(* The inductive invariant. *)

\* Nobody is at the rate limit of a profile that has none.
OnlyLimited ==
  \A c \in Callers : pc[c] \in {"clock", "load", "cas", "limited"} => rlLimit > 0

\* What Load has tested is still true of the word that was loaded, and a swap
\* that succeeds finds the same word.
MaySwap ==
  \A c \in Callers :
    pc[c] = "cas" => OpensWindow(seen[c], nowWin[c]) \/ CountOf(seen[c]) < rlLimit

\* The counter in the word is what was charged to its window; nothing was charged
\* to a later one.
WordCounts ==
  /\ CountOf(rlState) =< rlLimit
  /\ charged[WindowOf(rlState)] = CountOf(rlState)
  /\ \A w \in Windows : /\ charged[w] =< rlLimit
                        /\ w > WindowOf(rlState) => charged[w] = 0

GatesInv == TypeOK /\ OnlyLimited /\ MaySwap /\ WordCounts

\* What a swap makes of the word: its window does not go back, and its counter
\* has the calls charged to that window, the new one included.
LEMMA SwapResult ==
  ASSUME GatesInv, NEW c \in Callers, SwapState(c)
  PROVE  /\ rlState' \in Words
         /\ rlState' = NextState(rlState, nowWin[c])
         /\ WindowOf(rlState') \in 0..rlMaxWindow
         /\ WindowOf(rlState') >= WindowOf(rlState)
         /\ CountOf(rlState') =< rlLimit
         /\ charged[WindowOf(rlState')] + 1 = CountOf(rlState')
         /\ charged' = [charged EXCEPT ![WindowOf(rlState')] = @ + 1]
<1> USE DEF GatesInv, SwapState, Admit
<1>1. /\ rlState \in Words /\ nowWin[c] \in 0..rlMaxWindow /\ seen[c] = rlState
      /\ rlLimit > 0
  BY DEF TypeOK, Words, OnlyLimited
<1>2. /\ rlState' = NextState(rlState, nowWin[c])
      /\ charged' = [charged EXCEPT ![WindowOf(rlState')] = @ + 1]
  BY <1>1
<1>3. CASE OpensWindow(rlState, nowWin[c])
  <2>1. rlState' = Pack(nowWin[c])
    BY <1>2, <1>3 DEF NextState
  <2>2. rlState' \in Words /\ WindowOf(rlState') = nowWin[c] /\ CountOf(rlState') = 1
    BY <2>1, <1>1, Packed
  <2>3. nowWin[c] > WindowOf(rlState) /\ nowWin[c] \in Windows
    BY <1>1, <1>3, Parts, Limits DEF OpensWindow
  <2>4. charged[nowWin[c]] = 0
    BY <2>3 DEF WordCounts
  <2> QED BY <1>1, <1>2, <2>2, <2>3, <2>4, Parts, Limits
<1>4. CASE ~OpensWindow(rlState, nowWin[c])
  <2>1. rlState' = rlState + 1
    BY <1>2, <1>4 DEF NextState
  <2>2. CountOf(rlState) < rlLimit
    BY <1>1, <1>4 DEF MaySwap
  <2>3. /\ rlState' \in Words /\ WindowOf(rlState') = WindowOf(rlState)
        /\ CountOf(rlState') = CountOf(rlState) + 1
    BY <1>1, <2>1, <2>2, Counted, Limits, Parts
  <2>4. charged[WindowOf(rlState)] = CountOf(rlState)
    BY DEF WordCounts
  <2> QED BY <1>1, <1>2, <2>2, <2>3, <2>4, Parts, Limits
<1> QED BY <1>3, <1>4

LEMMA GatesInit == Init => GatesInv
<1> SUFFICES ASSUME Init PROVE GatesInv
  OBVIOUS
<1>1. 0 \in Words /\ WindowOf(0) = 0 /\ CountOf(0) = 0
  <2>1. 0 \in 0..rlMaxWindow /\ 0 \in 0..rlMaxExactLimit /\ CountSpan \in Nat
    BY Limits, GatesAssumption
  <2>2. 0 * CountSpan + 0 = 0
    BY <2>1
  <2> QED BY <2>1, <2>2, Word
<1>2. 0 \in Windows /\ 0 \in 0..rlMaxWindow /\ Windows \subseteq Nat
  BY Limits
<1>3. TypeOK
  BY <1>1, <1>2, GatesAssumption DEF Init, TypeOK, Words
<1>4. OnlyLimited /\ MaySwap
  BY DEF Init, OnlyLimited, MaySwap
<1>5. WordCounts
  BY <1>1, <1>2, Limits DEF Init, WordCounts
<1> QED BY <1>3, <1>4, <1>5 DEF GatesInv

LEMMA GatesTypeStep == GatesInv /\ [Next]_vars => TypeOK'
<1> SUFFICES ASSUME GatesInv, [Next]_vars PROVE TypeOK'
  OBVIOUS
<1> USE DEF GatesInv
<1>1. CASE PassTime
  BY <1>1, GatesAssumption DEF PassTime, TypeOK
<1>2. ASSUME NEW c \in Callers, Sample(c) PROVE TypeOK'
  <2>1. AfterSampling \in {"clock", "passed"}
    BY DEF AfterSampling
  <2> QED BY <1>2, <2>1 DEF Sample, TypeOK
<1>3. ASSUME NEW c \in Callers, ReadClock(c) PROVE TypeOK'
  <2>1. Window(clock) \in 0..rlMaxWindow
    BY WindowType, GatesAssumption DEF TypeOK
  <2> QED BY <1>3, <2>1 DEF ReadClock, TypeOK
<1>4. ASSUME NEW c \in Callers, Load(c) PROVE TypeOK'
  BY <1>4 DEF Load, TypeOK
<1>5. ASSUME NEW c \in Callers, SwapState(c) PROVE TypeOK'
  <2>1. rlState' \in Words /\ WindowOf(rlState') \in Windows
    BY <1>5, SwapResult, Limits
  <2>2. charged' \in [Windows -> Nat]
    BY <1>5, <2>1, SwapResult DEF TypeOK
  <2> QED BY <1>5, <2>1, <2>2 DEF SwapState, Admit, TypeOK, Words
<1>6. ASSUME NEW c \in Callers, Retry(c) PROVE TypeOK'
  BY <1>6 DEF Retry, TypeOK
<1>7. CASE UNCHANGED vars
  BY <1>7 DEF vars, TypeOK
<1> QED BY <1>1, <1>2, <1>3, <1>4, <1>5, <1>6, <1>7 DEF Next, Check

LEMMA GatesStep == GatesInv /\ [Next]_vars => GatesInv'
<1> SUFFICES ASSUME GatesInv, [Next]_vars PROVE OnlyLimited' /\ MaySwap' /\ WordCounts'
  BY GatesTypeStep DEF GatesInv
<1> USE DEF GatesInv
<1>0. rlState \in Words /\ WindowOf(rlState) \in Windows /\ Windows \subseteq Nat
  BY Parts, Limits DEF TypeOK, Words
<1>1. CASE PassTime
  BY <1>1 DEF PassTime, OnlyLimited, MaySwap, WordCounts
<1>2. ASSUME NEW c \in Callers, Sample(c) PROVE OnlyLimited' /\ MaySwap' /\ WordCounts'
  <2>1. OnlyLimited'
    BY <1>2 DEF Sample, AfterSampling, OnlyLimited, TypeOK
  <2>2. MaySwap'
    BY <1>2 DEF Sample, AfterSampling, MaySwap, TypeOK
  <2> QED BY <1>2, <2>1, <2>2 DEF Sample, WordCounts
<1>3. ASSUME NEW c \in Callers, ReadClock(c) PROVE OnlyLimited' /\ MaySwap' /\ WordCounts'
  BY <1>3 DEF ReadClock, OnlyLimited, MaySwap, WordCounts, TypeOK
<1>4. ASSUME NEW c \in Callers, Load(c) PROVE OnlyLimited' /\ MaySwap' /\ WordCounts'
  <2>1. OnlyLimited' /\ WordCounts'
    BY <1>4 DEF Load, OnlyLimited, WordCounts, TypeOK
  <2>2. OpensWindow(rlState, nowWin[c]) \/ ~AtLimit(rlState) \/ pc'[c] # "cas"
    BY <1>4 DEF Load, TypeOK
  <2>3. ~AtLimit(rlState) => CountOf(rlState) < rlLimit
    BY <1>0, Parts, Limits DEF AtLimit
  <2>4. MaySwap'
    BY <1>4, <2>2, <2>3 DEF Load, MaySwap, TypeOK
  <2> QED BY <2>1, <2>4
<1>5. ASSUME NEW c \in Callers, SwapState(c) PROVE OnlyLimited' /\ MaySwap' /\ WordCounts'
  <2>1. OnlyLimited' /\ MaySwap'
    BY <1>5 DEF SwapState, Admit, OnlyLimited, MaySwap, TypeOK
  <2> DEFINE n == WindowOf(rlState')
  <2>2. /\ n \in Windows /\ n >= WindowOf(rlState) /\ CountOf(rlState') =< rlLimit
        /\ charged[n] + 1 = CountOf(rlState') /\ charged' = [charged EXCEPT ![n] = @ + 1]
    BY <1>5, SwapResult, Limits
  <2>3. charged \in [Windows -> Nat]
    BY DEF TypeOK
  <2>4. charged'[n] = CountOf(rlState')
    BY <2>2, <2>3
  <2>5. ASSUME NEW w \in Windows
        PROVE  charged'[w] =< rlLimit /\ (w > n => charged'[w] = 0)
    <3>1. charged[w] =< rlLimit /\ (w > WindowOf(rlState) => charged[w] = 0)
      BY DEF WordCounts
    <3> HIDE DEF n
    <3>2. CASE w = n
      BY <2>2, <2>4, <3>2, <1>0
    <3>3. CASE w # n
      <4>1. charged'[w] = charged[w]
        BY <2>2, <2>3, <3>3
      <4>2. w \in Nat /\ n \in Nat /\ WindowOf(rlState) \in Nat /\ n >= WindowOf(rlState)
        BY <1>0, <2>2
      <4>3. w > n => w > WindowOf(rlState)
        BY <4>2
      <4> QED BY <3>1, <4>1, <4>3
    <3> QED BY <3>2, <3>3
  <2> QED BY <2>1, <2>2, <2>4, <2>5 DEF WordCounts
<1>6. ASSUME NEW c \in Callers, Retry(c) PROVE OnlyLimited' /\ MaySwap' /\ WordCounts'
  BY <1>6 DEF Retry, OnlyLimited, MaySwap, WordCounts, TypeOK
<1>7. CASE UNCHANGED vars
  BY <1>7 DEF vars, OnlyLimited, MaySwap, WordCounts
<1> QED BY <1>1, <1>2, <1>3, <1>4, <1>5, <1>6, <1>7 DEF Next, Check

LEMMA GatesCorrect == Spec => []GatesInv
<1> QED BY GatesInit, GatesStep, PTL DEF Spec

\* Words, windows, counters and histories keep their ranges: in particular the
\* counter of rlState never carries into the window, nor the window out of the word.
THEOREM TypeCorrect == Spec => []TypeOK
<1>1. GatesInv => TypeOK
  BY DEF GatesInv
<1> QED BY <1>1, GatesCorrect, PTL

\* No window admits more than Limit calls, whichever callers race for it with
\* however old clock readings (checkAtomicRateLimitAt).
THEOREM CapKept == Spec => []PerWindowCap
<1>1. GatesInv => PerWindowCap
  BY DEF GatesInv, WordCounts, PerWindowCap
<1> QED BY <1>1, GatesCorrect, PTL

\* The window in rlState never goes back.
THEOREM WindowForward == Spec => WindowNeverBack
<1>1. GatesInv /\ [Next]_vars => [WindowOf(rlState') >= WindowOf(rlState)]_vars
  <2> SUFFICES ASSUME GatesInv, [Next]_vars PROVE WindowOf(rlState') >= WindowOf(rlState)
    OBVIOUS
  <2>1. CASE rlState' = rlState
    <3>1. WindowOf(rlState) \in Nat
      BY Parts, Limits DEF GatesInv, TypeOK, Words
    <3> QED BY <2>1, <3>1
  <2>2. ASSUME NEW c \in Callers, SwapState(c) PROVE WindowOf(rlState') >= WindowOf(rlState)
    BY <2>2, SwapResult
  <2>3. rlState' = rlState \/ \E c \in Callers : SwapState(c)
    BY DEF Next, Check, PassTime, Sample, ReadClock, Load, Retry, vars
  <2> QED BY <2>1, <2>2, <2>3
<1> QED BY <1>1, GatesCorrect, PTL DEF Spec, WindowNeverBack

-----------------------------------------------------------------------------
(* Refusals. *)

\* What is charged to a window is never taken back.
LEMMA ChargesStay ==
  ASSUME GatesInv, [Next]_vars, NEW w \in Windows
  PROVE  charged'[w] \in Nat /\ charged[w] \in Nat /\ charged[w] =< charged'[w]
<1>1. charged \in [Windows -> Nat] /\ charged' \in [Windows -> Nat]
  BY GatesTypeStep DEF GatesInv, TypeOK
<1>2. charged' = charged \/ \E c \in Callers : SwapState(c)
  BY DEF Next, Check, PassTime, Sample, ReadClock, Load, Retry, vars
<1>3. ASSUME NEW c \in Callers, SwapState(c) PROVE charged[w] =< charged'[w]
  <2>1. PICK n \in Windows : charged' = [charged EXCEPT ![n] = @ + 1]
    BY <1>3, SwapResult, Limits
  <2> QED BY <1>1, <2>1
<1> QED BY <1>1, <1>2, <1>3

\* A call is refused by the rate limit only if its own window, or a newer one,
\* has admitted Limit calls: no racing swap makes the gate refuse too early.
THEOREM RefusalsJustified == Spec => []RefusedOnlyWhenFull
<1>1. Init => RefusedOnlyWhenFull
  BY DEF Init, RefusedOnlyWhenFull
<1>2. GatesInv /\ GatesInv' /\ RefusedOnlyWhenFull /\ [Next]_vars => RefusedOnlyWhenFull'
  <2> SUFFICES ASSUME GatesInv, GatesInv', RefusedOnlyWhenFull, [Next]_vars,
                      NEW c \in Callers, pc'[c] = "limited"
               PROVE  \E w \in nowWin'[c]..rlMaxWindow : charged'[w] = rlLimit
    BY DEF RefusedOnlyWhenFull
  <2>1. CASE pc[c] = "limited" /\ nowWin'[c] = nowWin[c]
    <3>1. PICK w \in nowWin[c]..rlMaxWindow : charged[w] = rlLimit
      BY <2>1 DEF RefusedOnlyWhenFull
    <3>2. w \in Windows
      BY Limits DEF GatesInv, TypeOK
    <3>3. charged'[w] =< rlLimit /\ charged[w] =< charged'[w]
      BY <3>2, ChargesStay DEF GatesInv, WordCounts
    <3>4. charged'[w] = rlLimit
      BY <3>1, <3>2, <3>3, ChargesStay, Limits
    <3> QED BY <2>1, <3>1, <3>4
  <2>2. CASE Load(c)
    <3>1. rlState \in Words /\ nowWin[c] \in 0..rlMaxWindow
      BY DEF GatesInv, TypeOK, Words
    <3>2. ~OpensWindow(rlState, nowWin[c]) /\ AtLimit(rlState)
      BY <2>2 DEF Load, GatesInv, TypeOK
    <3>3. WindowOf(rlState) \in nowWin[c]..rlMaxWindow
      BY <3>1, <3>2, Parts, Limits DEF OpensWindow
    <3>4. CountOf(rlState) = rlLimit
      BY <3>1, <3>2, Parts, Limits DEF AtLimit, GatesInv, WordCounts
    <3>5. charged[WindowOf(rlState)] = rlLimit
      BY <3>4 DEF GatesInv, WordCounts
    <3> QED BY <2>2, <3>3, <3>5 DEF Load
  <2>3. (pc[c] = "limited" /\ nowWin'[c] = nowWin[c]) \/ Load(c)
    <3>1. CASE PassTime \/ UNCHANGED vars
      BY <3>1 DEF PassTime, vars
    <3>2. ASSUME NEW d \in Callers, Sample(d)
          PROVE  pc[c] = "limited" /\ nowWin'[c] = nowWin[c]
      BY <3>2 DEF Sample, AfterSampling, GatesInv, TypeOK
    <3>3. ASSUME NEW d \in Callers, ReadClock(d)
          PROVE  pc[c] = "limited" /\ nowWin'[c] = nowWin[c]
      BY <3>3 DEF ReadClock, GatesInv, TypeOK
    <3>4. ASSUME NEW d \in Callers, Load(d), d # c
          PROVE  pc[c] = "limited" /\ nowWin'[c] = nowWin[c]
      BY <3>4 DEF Load, GatesInv, TypeOK
    <3>5. ASSUME NEW d \in Callers, SwapState(d)
          PROVE  pc[c] = "limited" /\ nowWin'[c] = nowWin[c]
      BY <3>5 DEF SwapState, Admit, GatesInv, TypeOK
    <3>6. ASSUME NEW d \in Callers, Retry(d)
          PROVE  pc[c] = "limited" /\ nowWin'[c] = nowWin[c]
      BY <3>6 DEF Retry, GatesInv, TypeOK
    <3> QED BY <3>1, <3>2, <3>3, <3>4, <3>5, <3>6 DEF Next, Check
  <2> QED BY <2>1, <2>2, <2>3
<1> QED BY <1>1, <1>2, GatesCorrect, PTL DEF Spec

-----------------------------------------------------------------------------
(* Sampling. *)

LEMMA QuotientStep ==
  ASSUME NEW n \in Nat, NEW d \in Nat \ {0}
  PROVE  (n + 1) \div d = IF (n + 1) % d = 0 THEN (n \div d) + 1 ELSE n \div d
OBVIOUS

\* Sampling lets exactly one call in SampleRate through, in any interleaving.
THEOREM SamplingExact == Spec => []SampledExactly
<1>1. Init => SampledExactly
  <2>1. SampleRate > 0 => 0 = 0 \div SampleRate
    BY GatesAssumption
  <2> QED BY <2>1 DEF Init, SampledExactly
<1>2. GatesInv /\ SampledExactly /\ [Next]_vars => SampledExactly'
  <2> SUFFICES ASSUME GatesInv, SampledExactly, [Next]_vars, SampleRate > 0
               PROVE  kept' = sampleCount' \div SampleRate
    BY DEF SampledExactly
  <2>1. kept = sampleCount \div SampleRate /\ sampleCount \in Nat /\ kept \in Nat
    BY DEF SampledExactly, GatesInv, TypeOK
  <2>2. ASSUME NEW c \in Callers, Sample(c) PROVE kept' = sampleCount' \div SampleRate
    <3>1. /\ sampleCount' = sampleCount + 1
          /\ kept' = IF (sampleCount + 1) % SampleRate = 0 THEN kept + 1 ELSE kept
      BY <2>2 DEF Sample, Sampled
    <3> QED BY <2>1, <3>1, QuotientStep, GatesAssumption
  <2>3. (kept' = kept /\ sampleCount' = sampleCount) \/ \E c \in Callers : Sample(c)
    BY DEF Next, Check, PassTime, ReadClock, Load, SwapState, Admit, Retry, vars
  <2> QED BY <2>1, <2>2, <2>3
<1> QED BY <1>1, <1>2, GatesCorrect, PTL DEF Spec

-----------------------------------------------------------------------------
(* The output of all windows together. *)

\* Windows begin in order.
LEMMA WindowMonotone ==
  ASSUME NEW now \in Nat
  PROVE  Window(now) =< Window(now + 1)
<1> DEFINE a == Max({now - StartMs, 0})
           b == Max({(now + 1) - StartMs, 0})
<1>1. a \in Nat /\ b \in Nat /\ a =< b
  BY GatesAssumption, MinMax
<1> DEFINE u == a \div rlWindowMs
           v == b \div rlWindowMs
<1>2. u \in Nat /\ v \in Nat /\ u =< v
  <2> HIDE DEF a, b
  <2>1. /\ u \in Nat /\ a % rlWindowMs \in 0..(rlWindowMs - 1)
        /\ a = u * rlWindowMs + (a % rlWindowMs)
    BY <1>1, Limits, Quotient
  <2>2. /\ v \in Nat /\ b % rlWindowMs \in 0..(rlWindowMs - 1)
        /\ b = v * rlWindowMs + (b % rlWindowMs)
    BY <1>1, Limits, Quotient
  <2>3. (v + 1) * rlWindowMs > u * rlWindowMs
    <3> HIDE DEF u, v
    <3>1. v * rlWindowMs \in Nat /\ u * rlWindowMs \in Nat /\ rlWindowMs \in Nat
      BY <2>1, <2>2, Limits
    <3>2. (v + 1) * rlWindowMs = v * rlWindowMs + rlWindowMs
      BY <2>2, Limits
    <3> QED BY <2>1, <2>2, <3>1, <3>2, <1>1
  <2> HIDE DEF u, v
  <2>4. v + 1 > u
    BY <2>1, <2>2, <2>3, Limits
  <2> QED BY <2>1, <2>2, <2>4
<1>3. /\ Min({u, rlMaxWindow}) = IF u =< rlMaxWindow THEN u ELSE rlMaxWindow
      /\ Min({v, rlMaxWindow}) = IF v =< rlMaxWindow THEN v ELSE rlMaxWindow
  <2> HIDE DEF u, v
  <2>1. u \in Int /\ v \in Int /\ rlMaxWindow \in Int
    BY <1>2, Limits
  <2> QED BY <2>1, MinMax
<1>4. Window(now) = Min({u, rlMaxWindow}) /\ Window(now + 1) = Min({v, rlMaxWindow})
  BY DEF Window
<1> HIDE DEF u, v
<1> QED BY <1>2, <1>3, <1>4, Limits

\* Nobody is ahead of the clock: neither the word nor a caller.
UpToNow ==
  /\ WindowOf(rlState) =< Window(clock)
  /\ \A c \in Callers : nowWin[c] =< Window(clock)

LEMMA GatesUpToNow == Spec => []UpToNow
<1>1. Init => UpToNow
  <2> SUFFICES ASSUME Init PROVE UpToNow
    OBVIOUS
  <2>1. clock \in Nat /\ rlState \in Words
    BY GatesInit, GatesAssumption DEF GatesInv, TypeOK, Words
  <2>2. Window(clock) \in Nat
    BY <2>1, WindowType, Limits
  <2>3. WindowOf(rlState) = 0
    BY GatesAssumption DEF Init, WindowOf
  <2> QED BY <2>2, <2>3 DEF Init, UpToNow
<1>2. GatesInv /\ UpToNow /\ [Next]_vars => UpToNow'
  <2> SUFFICES ASSUME GatesInv, UpToNow, [Next]_vars PROVE UpToNow'
    OBVIOUS
  <2>0. /\ clock \in Nat /\ Window(clock) \in Nat
        /\ WindowOf(rlState) \in Nat /\ nowWin \in [Callers -> Nat]
    <3>1. clock \in Nat /\ rlState \in Words
      BY GatesAssumption DEF GatesInv, TypeOK, Words
    <3> QED BY <3>1, WindowType, Parts, Limits DEF GatesInv, TypeOK
  <2>1. CASE PassTime
    <3>1. Window(clock) =< Window(clock') /\ Window(clock') \in Nat
      BY <2>0, <2>1, WindowMonotone, WindowType, Limits DEF PassTime
    <3>2. rlState' = rlState /\ nowWin' = nowWin
      BY <2>1 DEF PassTime
    <3> QED BY <2>0, <3>1, <3>2 DEF UpToNow
  <2>2. ASSUME NEW c \in Callers, ReadClock(c) PROVE UpToNow'
    BY <2>2, <2>0 DEF ReadClock, UpToNow, GatesInv, TypeOK
  <2>3. ASSUME NEW c \in Callers, SwapState(c) PROVE UpToNow'
    <3>1. WindowOf(rlState') \in {WindowOf(rlState), nowWin[c]}
      <4>1. /\ rlState' = NextState(rlState, nowWin[c])
            /\ rlState \in Words /\ nowWin[c] \in 0..rlMaxWindow
        BY <2>3, SwapResult DEF GatesInv, TypeOK, Words
      <4>2. CASE OpensWindow(rlState, nowWin[c])
        BY <4>1, <4>2, Packed DEF NextState
      <4>3. CASE ~OpensWindow(rlState, nowWin[c])
        <5>1. CountOf(rlState) < rlMaxExactLimit
          BY <2>3, <4>1, <4>3, Parts, Limits DEF GatesInv, MaySwap, SwapState
        <5> QED BY <4>1, <4>3, <5>1, Counted DEF NextState
      <4> QED BY <4>2, <4>3
    <3>2. clock' = clock /\ nowWin' = nowWin
      BY <2>3 DEF SwapState, Admit
    <3> QED BY <3>1, <3>2 DEF UpToNow
  <2>4. \/ PassTime \/ (\E c \in Callers : ReadClock(c) \/ SwapState(c))
        \/ rlState' = rlState /\ nowWin' = nowWin /\ clock' = clock
    BY DEF Next, Check, Sample, Load, Retry, vars
  <2>5. CASE rlState' = rlState /\ nowWin' = nowWin /\ clock' = clock
    BY <2>5 DEF UpToNow
  <2> QED BY <2>1, <2>2, <2>3, <2>4, <2>5
<1> QED BY <1>1, <1>2, GatesCorrect, PTL DEF Spec

\* Up to any moment the output is at most Limit for each window
\* begun so far.
THEOREM OutputCapped == Spec => []OutputCap
<1>1. GatesInv /\ UpToNow => OutputCap
  <2> SUFFICES ASSUME GatesInv, UpToNow, rlLimit > 0
               PROVE  MapThenSumSet(LAMBDA w : charged[w], Windows) =< rlLimit * (Window(clock) + 1)
    BY DEF OutputCap
  <2> DEFINE P == 0..Window(clock)
  <2>1. clock \in Nat /\ rlState \in Words /\ charged \in [Windows -> Nat]
    BY GatesAssumption DEF GatesInv, TypeOK, Words
  <2>2. /\ Window(clock) \in 0..rlMaxWindow /\ rlMaxWindow \in Nat /\ rlLimit \in Nat
        /\ WindowOf(rlState) \in Nat /\ Windows \subseteq Nat
    BY <2>1, WindowType, Parts, Limits
  <2>3. IsFiniteSet(Windows)
    <3> DEFINE m == Max({rlMaxWindow, MaxClock})
    <3>1. m \in Int
      BY GatesAssumption, Limits, MinMax
    <3> HIDE DEF m
    <3>2. IsFiniteSet(0..m)
      BY <3>1, FS_Interval
    <3> QED BY <3>2 DEF Windows, m
  <2>4. P \in SUBSET Windows
    BY <2>2, Limits
  <2>5. Cardinality(P) = Window(clock) + 1
    BY <2>2, FS_Interval
  <2>6. \A w \in Windows : /\ charged[w] \in Nat /\ charged[w] =< rlLimit
                           /\ w \notin P => charged[w] = 0
    <3> SUFFICES ASSUME NEW w \in Windows
                 PROVE  /\ charged[w] \in Nat /\ charged[w] =< rlLimit
                        /\ w \notin P => charged[w] = 0
      OBVIOUS
    <3>1. charged[w] =< rlLimit /\ (w > WindowOf(rlState) => charged[w] = 0)
      BY DEF GatesInv, WordCounts
    <3>2. w \notin P => w > WindowOf(rlState)
      BY <2>2 DEF UpToNow
    <3> QED BY <2>1, <3>1, <3>2
  <2> HIDE DEF P
  <2>7. SumOf(charged, Windows) =< rlLimit * Cardinality(P)
    BY <2>2, <2>3, <2>4, <2>6, SumCap
  <2> QED BY <2>5, <2>7 DEF SumOf
<1> QED BY <1>1, GatesCorrect, GatesUpToNow, PTL
=============================================================================
