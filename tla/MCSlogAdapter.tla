---------------------------- MODULE MCSlogAdapter ----------------------------
(* SlogAdapter on a small instance: a radix of 2, and units such that a       *)
(* 9-bit integer has durations of every kind.                                 *)
EXTENDS SlogAdapter

Value(kind, num, str) == [kind |-> kind, num |-> num, str |-> str, attrs |-> <<>>]
Str(s)  == Value("string", 0, s)
Dur(d)  == Value("dur", d, <<>>)
Group(as) == [kind |-> "group", num |-> 0, str |-> <<>>, attrs |-> as]
At(key, value) == [key |-> key, value |-> value]

\* The static fields: none, one with a reserved key, one key without a value.
AllSetups ==
  {[cfg |-> [DurationUnit |-> 0, TimestampFormat |-> FALSE], static |-> <<>>],
   [cfg |-> [DurationUnit |-> 0, TimestampFormat |-> TRUE], static |-> <<<<"ts">>, <<"a">>, <<"env">>, <<"\"">>>>],
   [cfg |-> [DurationUnit |-> Millisecond, TimestampFormat |-> FALSE], static |-> <<<<"env">>>>]}

AllSymbols == STRING
Strange  == {"\"", "\\", "\n", "\r", "\t", "ctl", "bad"}
\* A symbol that needs an escape, next to others that do not.
Texts == {<<>>, <<"a">>} \cup {<<c>> : c \in Strange} \cup {<<"a", c, "a">> : c \in Strange}
           \cup {<<"\\", "n">>, <<"\n", "\n">>, <<"bad", "\"">>}
SomeOrigins ==
  {[type |-> <<"T">>, file |-> <<>>, msg |-> <<"a", "\n", "a">>],
   [type |-> <<"T">>, file |-> <<"\\", "f">>, msg |-> <<"\"", "bad">>]}

SomeValues == {Str(<<>>), Str(<<"\n">>), Value("error", 0, <<"ctl">>), Value("nil", 0, <<>>),
               Value("int", -1, <<>>), Value("int", -(2^(Width - 1)), <<>>), Value("uint", 2^Width - 1, <<>>),
               Value("bool", 0, <<>>), Value("bool", 1, <<>>)} \cup {Value("float", n, <<>>) : n \in 1..4}
Keys == {<<>>, <<"k">>}

\* One duration, or up to two fields with any text or of any type.
SomeTypedCalls ==
  {<<At(<<"d">>, Dur(d))>> : d \in Int64s}
    \cup {<<At(<<"k">>, Str(t))>> : t \in Texts} \cup {<<At(t, Str(<<"a">>))>> : t \in Texts}
    \cup {<<At(k, v)>> : k \in Keys, v \in SomeValues}
    \cup {<<At(<<"k">>, v), At(<<>>, w)>> : v \in SomeValues, w \in SomeValues}
    \cup {<<>>, <<At(<<>>, Value("nil", 0, <<>>)), At(<<"k">>, Str(<<>>)), At(<<>>, Str(<<>>))>>}
SomeStringCalls ==
  {<<>>, <<<<"k">>>>, <<<<"k">>, <<"\"">>>>, <<<<"k">>, <<"\n">>, <<"k">>>>, <<<<"\"">>, <<"bad">>, <<>>, <<>>>>}

\* Scalars and groups, with and without a key, and a group in a group.
SomeAttrs ==
  {<<>>, <<At(<<"x">>, Str(<<"1">>)), At(<<>>, Str(<<"skipped">>))>>,
   <<At(<<"g">>, Group(<<At(<<"x">>, Str(<<"2">>)), At(<<>>, Value("int", 7, <<>>))>>))>>,
   <<At(<<>>, Group(<<At(<<"z">>, Group(<<At(<<"x">>, Value("bool", 1, <<>>))>>)), At(<<>>, Group(<<>>))>>))>>}
SomeBoundAttrs ==
  {<<At(<<"y">>, Dur(3))>>,
   <<At(<<>>, Group(<<At(<<"z">>, Str(<<"a">>))>>)), At(<<"g">>, Group(<<At(<<"x">>, Str(<<"\n">>))>>))>>}
\* How deep groups nest in these values.
SomeDepth ==
  LET ValuesOf(as) == {as[i].value : i \in DOMAIN as}
      Inner(vs)    == UNION {ValuesOf(v.attrs) : v \in vs}
      outermost    == UNION {ValuesOf(as) : as \in SomeAttrs \cup SomeBoundAttrs}
      inGroups     == Inner(outermost)
      Level1(v)    == IF v.kind # "group" THEN 0 ELSE 1
      Nesting(v)   == IF v.kind # "group" THEN 0
                      ELSE 1 + Max({0} \cup {Level1(w) : w \in ValuesOf(v.attrs)})
  IN  [v \in outermost \cup inGroups \cup Inner(inGroups) |-> Nesting(v)]

SomeContexts == {{}, {"trace_id", "span_id"}}
SomeSlogLevels == {-5, -4, -1, 0, 3, 4, 7, 8}
SomeGroupNames == {<<"o">>}
=============================================================================
