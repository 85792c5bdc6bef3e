----------------------------- MODULE SlogAdapter -----------------------------
(***************************************************************************)
(* From the arguments of a logging call to the bytes of its line.          *)
(* SlogHandlers has the calls through log/slog, as far as the fields; here *)
(* logTyped makes a line of these.  The typed and string methods and the   *)
(* io.Writer (api.go) call logTyped and log themselves.                    *)
(***************************************************************************)
EXTENDS SlogHandlers, LineReader

CONSTANTS
  Setups,       \* records of cfg (DurationUnit; is TimestampFormat set?) and the
                \* static fields that WithFields gives the profile
  Origins,      \* records of type, file (<<>> without IncludeCaller) and message
  TypedCalls, StringCalls         \* fields given to the typed and string methods

VARIABLES
  cfg, profile,
  logged        \* history: the line of the last call, if it wrote one, the entry
                \* and the fields that were asked for

adapterVars == <<cfg, profile, logged, handlerVars>>

-----------------------------------------------------------------------------
LevelName(v) == CASE v = Debug -> "DEBUG" [] v = Info -> "INFO" [] v = Warn -> "WARN"
                     [] v = Error -> "ERROR" [] OTHER -> "UNKNOWN"

appendCtxFields(ctx, fields) ==
  fields \o FlattenSeq([i \in DOMAIN Present(ctx) |-> <<Present(ctx)[i], <<"id">>>>])

AskedByPairs(fields) ==
  [i \in DOMAIN Pairs(fields) |-> Asked(Pairs(fields)[i].key, Text(Pairs(fields)[i].value))]

-----------------------------------------------------------------------------
(* Calls. *)

NoLine == [json |-> <<>>, text |-> <<>>, entry |-> <<>>, asked |-> <<>>]

AdapterInit ==
  /\ \E s \in Setups : cfg = s.cfg /\ profile = filterReservedFields(s.static)
  /\ HandlersInit
  /\ logged = NoLine

\* The entry of a call that was not filtered, and its line in both formats.
Emit(origin, level, fields, fieldsV, asked) ==
  LET e == [Level |-> LevelName(level), Type |-> origin.type, File |-> origin.file,
            Profile |-> profile, Msg |-> origin.msg, Fields |-> fields, FieldsV |-> fieldsV]
  IN  logged' = [json |-> formatJSON(e, cfg), text |-> formatText(e), entry |-> e, asked |-> asked]

\* A call that logs changes nothing but the histories, so none needs to follow
\* another.
Unlogged == logged = NoLine /\ UNCHANGED <<cfg, profile>>

\* A call of the logger itself.  It has nothing to do with handlers, so only a
\* logger without derived ones is asked; the methods of the other levels differ
\* in nothing but the level.
Direct ==
  /\ Unlogged
  /\ Len(handlers) = 1 /\ ~Filtered(Info)
  /\ UNCHANGED handlerVars

\* LogFields and the other typed methods.
LogFields ==
  /\ Direct
  /\ \E o \in Origins, given \in TypedCalls :
       Emit(o, Info, <<>>, [i \in DOMAIN given |-> FieldOf(given[i].key, given[i].value)], given)

\* InfoCtx; InfoString and the other string methods when the context is empty.
\* A key without a value would take the name of the first identifier as its
\* value: callers with a context pass pairs.
LogCtx ==
  /\ Direct
  /\ \E o \in Origins, given \in StringCalls, ctx \in Contexts :
       /\ ctx = {} \/ Len(given) % 2 = 0
       /\ Emit(o, Info, appendCtxFields(ctx, given), <<>>, AskedByPairs(given) \o AskedByContext(ctx))

TrimRight(p) == SubSeq(p, 1, Max({0} \cup {i \in DOMAIN p : p[i] # "\n"}))

\* StdLogWriter.Write: the log package ends what it writes with a newline.
WriterWrite ==
  /\ Direct
  /\ \E o \in Origins, ending \in {<<>>, <<"\n">>}, level \in Debug..Error :
       ~Filtered(level) /\ Emit([o EXCEPT !.msg = TrimRight(@ \o ending)], level, <<>>, <<>>, <<>>)

\* A record through slog.  Handlers know nothing of the level, so those that were
\* derived are asked at the first level only.
SlogLog ==
  /\ Unlogged
  /\ currentLevel = Info \/ Len(handlers) = 1
  /\ \E h \in DOMAIN handlers : HandleRecord(h)
  /\ \E o \in Origins : Emit(o, record'.level, <<>>, record'.fields, record'.asked)

\* The calls that log nothing.
Prepare ==
  /\ SetLevelValue \/ \E h \in DOMAIN handlers : WithAttrs(h) \/ WithGroup(h)
  /\ logged' = NoLine
  /\ UNCHANGED <<cfg, profile>>

AdapterNext == Prepare \/ LogFields \/ LogCtx \/ WriterWrite \/ SlogLog

AdapterSpec == AdapterInit /\ [][AdapterNext]_adapterVars

-----------------------------------------------------------------------------
(* Properties. *)

\* What the reader of a duration may lose: nanoseconds from 1us up,
\* microseconds from 1ms up, milliseconds from 1 minute up.
Truncated(d) ==
  LET size == IF d < 0 THEN -d ELSE d
      lost == size % (CASE size < Microsecond -> 1
                        [] size \in Microsecond..(Millisecond - 1) -> Microsecond
                        [] size \in Millisecond..(Minute - 1) -> Millisecond
                        [] OTHER -> Second)
  IN  IF d < 0 THEN lost - size ELSE size - lost

\* An invalid byte is read as the replacement character.
Readable(s) == [i \in DOMAIN s |-> IF s[i] = "bad" THEN "replacement" ELSE s[i]]

ReadsAs(m, v) ==
  CASE v.kind \in {"string", "error"} -> m.quoted /\ m.text = Readable(v.str)
    [] v.kind \in {"int", "uint"} -> ~m.quoted /\ m.text = <<ToString(v.num)>>
    [] v.kind = "bool"  -> ~m.quoted /\ m.text = <<IF v.num = 1 THEN "true" ELSE "false">>
    [] v.kind = "float" -> (m.quoted <=> Floats[v.num] # "1.5") /\ m.text = <<Floats[v.num]>>
    [] v.kind = "dur" /\ cfg.DurationUnit = 0 -> m.quoted /\ ReadDuration(m.text) = Truncated(v.num)
    [] OTHER -> /\ ~m.quoted
                /\ \/ \E n \in Int64s : n * cfg.DurationUnit = v.num /\ m.text = <<ToString(n)>>
                   \/ m.text = <<ToString(v.num) \o "/" \o ToString(cfg.DurationUnit)>>

\* The members of the line itself, in order; those of "fields" are asked for.
TopMembers(e) ==
  <<Member(1, <<"ts">>, cfg.TimestampFormat, <<IF cfg.TimestampFormat THEN "time" ELSE "1704067200123">>),
    Member(1, <<"level">>, TRUE, <<e.Level>>), Member(1, <<"type">>, TRUE, Readable(e.Type))>>
  \o (IF e.File = <<>> THEN <<>>
      ELSE <<Member(1, <<"file">>, TRUE, Readable(e.File)), Member(1, <<"line">>, FALSE, <<"1">>)>>)
  \o [i \in DOMAIN profile |-> Member(1, Readable(profile[i].key), TRUE, Readable(profile[i].value))]
  \o <<Member(1, <<"msg">>, TRUE, Readable(e.Msg))>>

ReadsBack(read, e, asked) ==
  LET top == TopMembers(e)
  IN  /\ read.ok /\ read.at = "end"
      /\ Len(read.members) = Len(top) + Len(asked) /\ SubSeq(read.members, 1, Len(top)) = top
      /\ \A i, j \in DOMAIN top : top[i].key = top[j].key => i = j
      /\ \A i \in DOMAIN asked :
           LET m == read.members[Len(top) + i]
           IN  m.depth = 2 /\ m.key = Readable(asked[i].key) /\ ReadsAs(m, asked[i].value)

KeyIsPlain(key) == \A i \in DOMAIN key : key[i] \notin DOMAIN textEscapes

OneLine(text) ==
  text[Len(text)] = "\n" /\ \A i \in 1..(Len(text) - 1) : text[i] \notin {"\n", "\r", "ctl"}

\* Whatever a message, a value or a JSON key holds, a JSON line decodes to one
\* object with what the call was asked to log (absent errors left out, durations
\* truncated as documented), no key twice among its own; and a text line is one
\* line if its keys, which are trusted, hold no line break (format.go:75-531).
LinesReadBack ==
  logged # NoLine =>
    LET IsAbsent(a) == \/ a.value.kind = "nil"
                       \/ logged.entry.Fields = <<>> /\ a.key = <<>> /\ a.value = Text(<<>>)
    IN  /\ ReadsBack(ReadJSON(logged.json), logged.entry, SelectSeq(logged.asked, LAMBDA a : ~IsAbsent(a)))
        /\ (\A i \in DOMAIN logged.asked : KeyIsPlain(logged.asked[i].key)) => OneLine(logged.text)
=============================================================================
