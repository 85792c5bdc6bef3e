---------------------------- MODULE ProfileGates ----------------------------
(***************************************************************************)
(* The gates of one SubProfile: sampling, then the lock-free rate limit    *)
(* (checkGatesAfterLevel, passGates, checkAtomicRateLimitAt).  Callers on  *)
(* several goroutines share sampleCount and rlState; between reading the   *)
(* clock, loading rlState and the CompareAndSwap any other caller may run  *)
(* and time may pass.                                                      *)
(*                                                                         *)
(* rlState is one word: a counter in the low bits, the window index above. *)
(* CountSpan is 2^rlCountBits and WindowSpan 2^(64 - rlCountBits) in the   *)
(* code; shifts keep the width of the word.                                *)
(***************************************************************************)
EXTENDS Integers, FiniteSets, FiniteSetsExt

CONSTANTS
  Callers,        \* goroutines that log through the profile
  SampleRate,     \* 0: no sampling
  Limit,          \* WithRateLimit's limit, as given; 0: no limit
  WindowMs,       \* WithRateLimit's window, in milliseconds
  StartMs,        \* monoMillis at registration
  CountSpan,      \* 2^rlCountBits
  WindowSpan,     \* 2^(64 - rlCountBits)
  MaxClock,       \* bound: the last millisecond
  MaxCalls        \* bound: calls of one caller, 0 for no bound

ASSUME GatesAssumption ==
  /\ SampleRate \in Nat /\ Limit \in Int /\ WindowMs \in Int
  /\ StartMs \in Nat \ {0}
  /\ CountSpan \in Nat \ {0, 1} /\ WindowSpan \in Nat \ {0}
  /\ MaxClock \in Nat /\ StartMs =< MaxClock /\ MaxCalls \in Nat

VARIABLES
  clock,        \* monoMillis
  rlState,      \* SubProfile.rlState
  sampleCount,  \* SubProfile.sampleCount
  pc,           \* where each caller is
  nowWin,       \* the window each caller computed from its clock reading
  seen,         \* the rlState each caller loaded
  calls,        \* calls begun by each caller
  kept,         \* history: calls that sampling let through
  charged       \* history: calls admitted, by the window they were charged to

gateVars == <<rlState, sampleCount>>
callVars == <<pc, nowWin, seen, calls>>
histVars == <<kept, charged>>
vars == <<clock, gateVars, callVars, histVars>>

\* WithRateLimit: a negative limit means none; a large one is capped.
rlMaxExactLimit == CountSpan - 1
rlMaxWindow == WindowSpan - 1
rlLimit == Min({Max({Limit, 0}), rlMaxExactLimit})
rlWindowMs == Max({WindowMs, 1})

\* The window of a clock reading, relative to the profile's start.  The index
\* stays at the last one that the word has room for.
WindowUnclamped(now) == Max({now - StartMs, 0}) \div rlWindowMs

Window(now) == Min({Max({now - StartMs, 0}) \div rlWindowMs, rlMaxWindow})

Windows == 0..Max({rlMaxWindow, MaxClock})

\* The packed word.
Pack(w) == ((w * CountSpan) % (WindowSpan * CountSpan)) + 1
WindowOf(state) == state \div CountSpan
CountOf(state) == state % CountSpan

-----------------------------------------------------------------------------
Init ==
  /\ clock = StartMs
  /\ rlState = 0 /\ sampleCount = 0
  /\ pc = [c \in Callers |-> "idle"]
  /\ nowWin = [c \in Callers |-> 0]
  /\ seen = [c \in Callers |-> 0]
  /\ calls = [c \in Callers |-> 0]
  /\ kept = 0
  /\ charged = [w \in Windows |-> 0]

PassTime == /\ clock < MaxClock
            /\ clock' = clock + 1
            /\ UNCHANGED <<gateVars, callVars, histVars>>

MayCall(c) == pc[c] \in {"idle", "passed", "limited"} /\ (MaxCalls = 0 \/ calls[c] < MaxCalls)

\* ... of the count before the add.
SampledBefore(n) == n % SampleRate = 0

\* sampleCount.Add(1) % sampleRate, for a count of n before the add
Sampled(n) == (n + 1) % SampleRate = 0

AfterSampling == IF rlLimit > 0 THEN "clock" ELSE "passed"

\* One atomic add decides on sampling; a discarded call returns at once.
Sample(c) ==
  /\ MayCall(c)
  /\ calls' = [calls EXCEPT ![c] = IF MaxCalls = 0 THEN 0 ELSE @ + 1]
  /\ IF SampleRate > 0
       THEN /\ sampleCount' = sampleCount + 1
            /\ IF Sampled(sampleCount)
                 THEN kept' = kept + 1 /\ pc' = [pc EXCEPT ![c] = AfterSampling]
                 ELSE UNCHANGED kept /\ pc' = [pc EXCEPT ![c] = "idle"]
       ELSE /\ pc' = [pc EXCEPT ![c] = AfterSampling]
            /\ UNCHANGED <<sampleCount, kept>>
  /\ UNCHANGED <<clock, rlState, nowWin, seen, charged>>

ReadClock(c) ==
  /\ pc[c] = "clock"
  /\ nowWin' = [nowWin EXCEPT ![c] = Window(clock)]
  /\ pc' = [pc EXCEPT ![c] = "load"]
  /\ UNCHANGED <<clock, gateVars, seen, calls, histVars>>

\* Does this caller's timestamp open a newer window?
OtherWindow(state, win) == WindowOf(state) # win

OpensWindow(state, win) == WindowOf(state) < win

AtLimit(state) == CountOf(state) >= rlLimit

\* The limit is tested before the window.
LoadLimitFirst(c) ==
  /\ pc[c] = "load"
  /\ seen' = [seen EXCEPT ![c] = rlState]
  /\ pc' = [pc EXCEPT ![c] = IF AtLimit(rlState) THEN "limited" ELSE "cas"]
  /\ UNCHANGED <<clock, gateVars, nowWin, calls, histVars>>

\* rlState.Load and the test of the limit, which needs no CompareAndSwap.
Load(c) ==
  /\ pc[c] = "load"
  /\ seen' = [seen EXCEPT ![c] = rlState]
  /\ pc' = [pc EXCEPT ![c] = IF ~OpensWindow(rlState, nowWin[c]) /\ AtLimit(rlState)
                                  THEN "limited" ELSE "cas"]
  /\ UNCHANGED <<clock, gateVars, nowWin, calls, histVars>>

NextState(state, win) ==
  IF OpensWindow(state, win) THEN Pack(win) ELSE state + 1

Admit(c) ==
  LET next == NextState(seen[c], nowWin[c]) IN
    /\ rlState' = next
    /\ charged' = [charged EXCEPT ![WindowOf(next)] = @ + 1]
    /\ pc' = [pc EXCEPT ![c] = "passed"]
    /\ UNCHANGED <<clock, sampleCount, nowWin, seen, calls, kept>>

\* A store instead of a compare-and-swap.
StoreState(c) == pc[c] = "cas" /\ Admit(c)

SwapState(c) == pc[c] = "cas" /\ rlState = seen[c] /\ Admit(c)

\* After a failed swap the loop starts again with the load.
RetryStale(c) ==
  /\ pc[c] = "cas" /\ rlState # seen[c]
  /\ UNCHANGED vars

Retry(c) ==
  /\ pc[c] = "cas" /\ rlState # seen[c]
  /\ pc' = [pc EXCEPT ![c] = "load"]
  /\ UNCHANGED <<clock, gateVars, nowWin, seen, calls, histVars>>

Check(c) == ReadClock(c) \/ Load(c) \/ SwapState(c) \/ Retry(c)

Next == PassTime \/ \E c \in Callers : Sample(c) \/ Check(c)

Spec == Init /\ [][Next]_vars

\* A goroutine that is inside the gates is scheduled; nobody has to log.
FairSpec == Spec /\ \A c \in Callers : WF_vars(Check(c))

-----------------------------------------------------------------------------
(* Invariants. *)

TypeOK ==
  /\ clock \in StartMs..MaxClock
  /\ rlState \in 0..(WindowSpan * CountSpan - 1)
  /\ sampleCount \in Nat /\ kept \in Nat
  /\ pc \in [Callers -> {"idle", "clock", "load", "cas", "passed", "limited"}]
  /\ nowWin \in [Callers -> 0..rlMaxWindow]
  /\ seen \in [Callers -> 0..(WindowSpan * CountSpan - 1)]
  /\ calls \in [Callers -> Nat]
  /\ charged \in [Windows -> Nat]

\* At most Limit calls are charged to a window, whichever callers race for it
\* and however old their clock readings are; the counter never carries into
\* the window index (ratelimit.go:164-168).
PerWindowCap == rlLimit > 0 => \A w \in Windows : charged[w] =< rlLimit

\* Up to any moment, the output is within Limit for each window begun so far.
OutputCap ==
  rlLimit > 0 =>
    MapThenSumSet(LAMBDA w : charged[w], Windows) =< rlLimit * (Window(clock) + 1)

\* The window in the word never goes back, so a late caller with an old clock
\* reading cannot reopen a window (ratelimit.go:164-167).
WindowNeverBack == [][WindowOf(rlState') >= WindowOf(rlState)]_vars

\* A call is refused only if its own window, or a newer one, is used up.
RefusedOnlyWhenFull ==
  \A c \in Callers : pc[c] = "limited" =>
    \E w \in nowWin[c]..rlMaxWindow : charged[w] = rlLimit

\* Sampling keeps exactly one call in SampleRate, in any interleaving.
SampledExactly == SampleRate > 0 => kept = sampleCount \div SampleRate

\* The CompareAndSwap loop ends for every caller, however the others compete.
CallsReturn == \A c \in Callers : pc[c] = "clock" ~> pc[c] \in {"passed", "limited"}
=============================================================================
