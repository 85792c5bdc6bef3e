----------------------------- MODULE LineFormat ------------------------------
(***************************************************************************)
(* formatJSON and formatText (format.go) and the fields they write         *)
(* (field.go).  A text is a sequence of symbols: one for a byte or a rune  *)
(* that some writer treats in its own way, one for any name or number that *)
(* all writers copy.  "ctl" is any control character without an escape of  *)
(* its own (DEL too), "bad" any byte that is not part of valid UTF-8.      *)
(***************************************************************************)
EXTENDS Durations, SequencesExt

-----------------------------------------------------------------------------
(* Field: one member of the union is in use, as Type says. *)

Field(key, type, num, str) == [Key |-> key, Type |-> type, Num |-> num, Str |-> str]
ZeroField == Field(<<>>, "String", 0, <<>>)

\* Four bit patterns stand for all floats.
Floats == <<"1.5", "NaN", "+Inf", "-Inf">>

\* The constructors: v is a Go value, with its number, truth or text in num or str.
FieldOf(key, v) ==
  CASE v.kind = "string"  -> Field(key, "String", 0, v.str)
    [] v.kind = "error"   -> Field(key, "Error", 0, v.str)
    [] v.kind = "nil"     -> ZeroField                     \* Err(nil)
    [] v.kind = "int"     -> Field(key, "Int64", Bits(v.num), <<>>)
    [] v.kind = "uint"    -> Field(key, "Uint64", v.num, <<>>)
    [] v.kind = "float"   -> Field(key, "Float64", v.num, <<>>)
    [] v.kind = "bool"    -> Field(key, "Bool", v.num, <<>>)
    [] v.kind = "dur"     -> Field(key, "Duration", Bits(v.num), <<>>)

-----------------------------------------------------------------------------
(* Escaping. *)

StartAtEscape(i) == i

\* Where the next run of safe symbols begins after an escape at i.
StartAfter(i) == i + 1

\* Both escapers: runs of safe symbols, those without an escape, are copied when
\* a run ends.
Escaped(s, escapes) ==
  LET Step(r, i) == IF s[i] \notin DOMAIN escapes THEN r
                    ELSE [buf |-> r.buf \o SubSeq(s, r.start, i - 1) \o <<"\\", escapes[s[i]]>>,
                          start |-> StartAfter(i)]
      end == FoldLeftDomain(Step, [buf |-> <<>>, start |-> 1], s)
  IN  end.buf \o SubSeq(s, end.start, Len(s))

jsonEscapes == [x \in {"\"", "\\", "\n", "\r", "\t", "ctl", "bad"} |->
  CASE x \in {"\"", "\\"} -> x [] x = "\n" -> "n" [] x = "\r" -> "r" [] x = "\t" -> "t"
    [] x = "ctl" -> "u00NN" [] x = "bad" -> "ufffd"]
textEscapes == [x \in {"\n", "\r", "ctl"} |->
  CASE x = "\n" -> "n" [] x = "\r" -> "r" [] x = "ctl" -> "xNN"]

appendJSONString(s) == <<"\"">> \o Escaped(s, jsonEscapes) \o <<"\"">>
appendTextString(s) == Escaped(s, textEscapes)

-----------------------------------------------------------------------------
(* Fields. *)

\* String fields come in pairs; a last key may have no value.
Pairs(fields) ==
  [i \in 1..((Len(fields) + 1) \div 2) |->
     [key |-> fields[2 * i - 1], value |-> IF 2 * i =< Len(fields) THEN fields[2 * i] ELSE <<>>]]

Joined(parts, separator) ==
  FoldLeft(LAMBDA buf, p : IF buf = <<>> THEN p ELSE buf \o separator \o p, <<>>, parts)

JSONPair(p) == appendJSONString(p.key) \o <<":">> \o appendJSONString(p.value)
TextPair(p) == p.key \o <<"=">> \o appendTextString(p.value)

appendFieldsJSON(fields) == Joined([i \in DOMAIN Pairs(fields) |-> JSONPair(Pairs(fields)[i])], <<",">>)
appendFieldsText(fields) == Joined([i \in DOMAIN Pairs(fields) |-> TextPair(Pairs(fields)[i])], <<" ">>)

\* The literals of both formats.
Literal(f) ==
  CASE f.Type = "Int64"   -> ToString(Signed(f.Num))
    [] f.Type = "Uint64"  -> ToString(f.Num)
    [] f.Type = "Float64" -> Floats[f.Num]
    [] f.Type = "Bool"    -> IF f.Num = 1 THEN "true" ELSE "false"
    [] OTHER              -> "null"

Quoted(s) == <<"\"">> \o s \o <<"\"">>

appendFieldValueJSON(f, unit) ==
  CASE f.Type \in {"String", "Error"} -> appendJSONString(f.Str)
    [] f.Type = "Duration" -> IF unit > 0 THEN appendDurationNumber(Signed(f.Num), unit)
                              ELSE Quoted(appendDuration(Signed(f.Num)))
    [] f.Type = "Float64" /\ Literal(f) \in {"NaN", "+Inf", "-Inf"} -> Quoted(<<Literal(f)>>)
    [] OTHER -> <<Literal(f)>>

appendFieldValueText(f) ==
  CASE f.Type \in {"String", "Error"} -> appendTextString(f.Str)
    [] f.Type = "Duration" -> appendDuration(Signed(f.Num))
    [] OTHER -> <<Literal(f)>>

\* The fields that are not skipped as zero values.
Written(fields) == SelectSeq(fields, LAMBDA f : ~(f.Key = <<>> /\ f.Type = "String" /\ f.Str = <<>>))

appendTypedFieldsJSONUnit(fields, unit) ==
  LET Member(f) == appendJSONString(f.Key) \o <<":">> \o appendFieldValueJSON(f, unit)
  IN  Joined([i \in DOMAIN Written(fields) |-> Member(Written(fields)[i])], <<",">>)

appendTypedFieldsText(fields) ==
  LET Member(f) == f.Key \o <<"=">> \o appendFieldValueText(f)
  IN  Joined([i \in DOMAIN Written(fields) |-> Member(Written(fields)[i])], <<" ">>)

-----------------------------------------------------------------------------
(* The static fields of a profile, baked by RegisterSub. *)

reservedKeys == {<<"ts">>, <<"level">>, <<"type">>, <<"msg">>, <<"file">>, <<"line">>, <<"fields">>}

filterReservedFields(fields) ==
  SelectSeq(Pairs(fields), LAMBDA p : p.key \notin reservedKeys)

buildJSONPrefix(pairs) == FlattenSeq([i \in DOMAIN pairs |-> <<",">> \o JSONPair(pairs[i])])
buildTextPrefix(pairs) == FlattenSeq([i \in DOMAIN pairs |-> TextPair(pairs[i]) \o <<" ">>])

-----------------------------------------------------------------------------
(* A line.  The entry e has the pairs of its profile in Profile. *)

Name(n) == <<"\"", n, "\"", ":">>

JSONFields(e, unit) ==
  LET body == IF e.FieldsV # <<>> THEN appendTypedFieldsJSONUnit(e.FieldsV, unit)
              ELSE appendFieldsJSON(e.Fields)
  IN  IF body = <<>> THEN <<>> ELSE <<",">> \o Name("fields") \o <<"{">> \o body \o <<"}">>

formatJSON(e, cfg) ==
  <<"{">> \o Name("ts") \o (IF cfg.TimestampFormat THEN Quoted(<<"time">>) ELSE <<"1704067200123">>)
  \o <<",">> \o Name("level") \o Quoted(<<e.Level>>)
  \o <<",">> \o Name("type") \o appendJSONString(e.Type)
  \o (IF e.File = <<>> THEN <<>> ELSE <<",">> \o Name("file") \o appendJSONString(e.File)
                                      \o <<",">> \o Name("line") \o <<"1">>)
  \o buildJSONPrefix(e.Profile)
  \o <<",">> \o Name("msg") \o appendJSONString(e.Msg)
  \o JSONFields(e, cfg.DurationUnit) \o <<"}", "\n">>

TextFields(e) ==
  LET body == IF e.FieldsV # <<>> THEN appendTypedFieldsText(e.FieldsV) ELSE appendFieldsText(e.Fields)
  IN  IF body = <<>> THEN <<>> ELSE <<" ">> \o body

formatText(e) ==
  <<"[", "time", "] ", e.Level, " [">> \o e.Type \o <<"] ">>
  \o (IF e.File = <<>> THEN <<>> ELSE e.File \o <<":", "1", " ">>)
  \o buildTextPrefix(e.Profile) \o appendTextString(e.Msg) \o TextFields(e) \o <<"\n">>
=============================================================================
