------------------------------ MODULE Durations ------------------------------
(***************************************************************************)
(* appendDuration (format.go): a duration as text, in the largest units    *)
(* that fit, and as a number of Config.DurationUnit.  A text is a sequence *)
(* of symbols: a whole number, a unit, a digit of a fraction.              *)
(*                                                                         *)
(* The units and the width of an integer are constants, so that a small    *)
(* instance has every case, the smallest int64 included.                   *)
(***************************************************************************)
EXTENDS Integers, Sequences, TLC

CONSTANTS
  Width,        \* bits of an int64: 64 in the code
  Radix,        \* of a written number: 10
  Microsecond, Millisecond, Minute, Hour      \* in nanoseconds

Second == Radix^3 * Millisecond               \* a fraction has three digits

ASSUME DurationAssumption ==
  /\ Width \in Nat \ {0} /\ Radix \in Nat \ {0, 1}
  /\ {Microsecond, Millisecond, Minute, Hour} \subseteq Nat \ {0}
  /\ Millisecond % Microsecond = 0 /\ Minute % Second = 0 /\ Hour % Minute = 0

Int64s == (-(2^(Width - 1)))..(2^(Width - 1) - 1)

\* uint64(v), and back.
Bits(v)   == v % 2^Width
Signed(n) == IF n < 2^(Width - 1) THEN n ELSE n - 2^Width

\* The part of a second, always three digits: 2005ms is "2.005s".
Fraction(ms) ==
  IF ms = 0 THEN <<>>
  ELSE <<".", ToString(ms \div Radix^2), ToString((ms \div Radix) % Radix), ToString(ms % Radix)>>

appendDurationAbs(ns) ==
  LET Count(n, unit)   == <<ToString(n), unit>>
      NonZero(n, unit) == IF n > 0 THEN Count(n, unit) ELSE <<>>
  IN  CASE ns = 0 -> Count(0, "s")
        [] ns \in 1..(Microsecond - 1) -> Count(ns, "ns")
        [] ns \in Microsecond..(Millisecond - 1) -> Count(ns \div Microsecond, "us")
        [] ns \in Millisecond..(Second - 1) -> Count(ns \div Millisecond, "ms")
        [] ns \in Second..(Minute - 1) ->
             <<ToString(ns \div Second)>> \o Fraction((ns % Second) \div Millisecond) \o <<"s">>
        [] ns >= Minute -> NonZero(ns \div Hour, "h")
                             \o NonZero((ns % Hour) \div Minute, "m")
                             \o NonZero((ns % Minute) \div Second, "s")

\* The negation goes through uint64: the smallest int64 has no positive twin.
appendDuration(d) ==
  IF d < 0 THEN <<"-">> \o appendDurationAbs(Bits(-(d + 1)) + 1) ELSE appendDurationAbs(d)

\* unit > 0.  The quotient of two floats is left as the quotient it stands for.
appendDurationNumber(d, unit) ==
  IF d % unit = 0 THEN <<ToString(d \div unit)>>
  ELSE <<ToString(d) \o "/" \o ToString(unit)>>
=============================================================================
