----------------------------- MODULE LineReader ------------------------------
(***************************************************************************)
(* A reader of what LineFormat writes: a JSON decoder for one line (an     *)
(* object that may hold one object) and time.ParseDuration.  Nothing of    *)
(* this is in the code; the properties of SlogAdapter read lines with it.  *)
(***************************************************************************)
EXTENDS Durations, SequencesExt

-----------------------------------------------------------------------------
(* time.ParseDuration. *)

Numerals == [n \in 0..(2^Width) |-> ToString(n)]
NumberOf(x) == CHOOSE n \in DOMAIN Numerals : Numerals[n] = x

UnitOf == "ns" :> 1 @@ "us" :> Microsecond @@ "ms" :> Millisecond
            @@ "s" :> Second @@ "m" :> Minute @@ "h" :> Hour

\* Numbers, each with a fraction or without, and their units, are added up.
ReadDuration(text) ==
  LET negative == Head(text) = "-"
      Read(r, x) ==
        CASE x \in DOMAIN UnitOf ->
               [total |-> r.total + (r.mantissa * UnitOf[x]) \div Radix^r.places,
                mantissa |-> 0, places |-> 0, point |-> FALSE]
          [] x = "." -> [r EXCEPT !.point = TRUE]
          [] r.point /\ x \notin DOMAIN UnitOf ->
               [r EXCEPT !.mantissa = @ * Radix + NumberOf(x), !.places = @ + 1]
          [] OTHER -> [r EXCEPT !.mantissa = NumberOf(x)]
      end == FoldLeft(Read, [total |-> 0, mantissa |-> 0, places |-> 0, point |-> FALSE],
                      IF negative THEN Tail(text) ELSE text)
  IN  IF negative THEN -end.total ELSE end.total

-----------------------------------------------------------------------------
(* A JSON decoder. *)

\* Where the decoder is: before the object, a key, a colon, a value, a comma or
\* brace, or the end of the line; quoted and escape: in a string, after a \.
Start == [ok |-> TRUE, at |-> "object", depth |-> 0, quoted |-> FALSE, escape |-> FALSE,
          text |-> <<>>, key |-> <<>>, members |-> <<>>]

Escapes == [x \in {"\"", "\\", "n", "r", "t", "u00NN", "ufffd"} |->
  CASE x \in {"\"", "\\"} -> x [] x = "n" -> "\n" [] x = "r" -> "\r" [] x = "t" -> "\t"
    [] x = "u00NN" -> "ctl" [] x = "ufffd" -> "replacement"]

Raw == {"\n", "\r", "\t", "ctl", "bad"}       \* never as they are in a string

Member(depth, key, quoted, text) == [depth |-> depth, key |-> key, quoted |-> quoted, text |-> text]

WithMember(r, quoted, text) ==
  [r EXCEPT !.members = Append(@, Member(r.depth, r.key, quoted, text)),
            !.at = "next", !.quoted = FALSE, !.ok = @ /\ r.at = "value"]

InString(r, x) ==
  CASE r.escape -> IF x \in DOMAIN Escapes
                     THEN [r EXCEPT !.escape = FALSE, !.text = Append(@, Escapes[x])]
                     ELSE [r EXCEPT !.ok = FALSE]
    [] ~r.escape /\ x = "\\" -> [r EXCEPT !.escape = TRUE]
    [] ~r.escape /\ x = "\"" -> IF r.at = "key"
                                  THEN [r EXCEPT !.quoted = FALSE, !.key = r.text, !.at = "colon"]
                                  ELSE WithMember(r, TRUE, r.text)
    [] OTHER -> [r EXCEPT !.text = Append(@, x), !.ok = @ /\ x \notin Raw]

\* Go on to place if the decoder is at one of expected.
Advance(r, expected, place) == [r EXCEPT !.at = place, !.ok = @ /\ r.at \in expected]

ReadSymbol(r, x) ==
  CASE r.quoted -> InString(r, x)
    [] ~r.quoted /\ x = "\"" -> [Advance(r, {"key", "value"}, r.at) EXCEPT !.quoted = TRUE, !.text = <<>>]
    [] ~r.quoted /\ x = "{"  -> [Advance(r, {"object", "value"}, "key") EXCEPT !.depth = @ + 1]
    [] ~r.quoted /\ x = "}"  -> [Advance(r, {"next"}, IF r.depth = 1 THEN "line" ELSE "next")
                                   EXCEPT !.depth = @ - 1]
    [] ~r.quoted /\ x = ":"  -> Advance(r, {"colon"}, "value")
    [] ~r.quoted /\ x = ","  -> Advance(r, {"next"}, "key")
    [] ~r.quoted /\ x = "\n" -> Advance(r, {"line"}, "end")
    [] OTHER -> WithMember(r, FALSE, <<x>>)

\* The decoder after i symbols of the line.
ReadJSON(line) ==
  LET after[i \in 0..Len(line)] == IF i = 0 THEN Start ELSE ReadSymbol(after[i - 1], line[i])
  IN  after[Len(line)]
=============================================================================
