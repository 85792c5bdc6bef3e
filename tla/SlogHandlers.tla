---------------------------- MODULE SlogHandlers -----------------------------
(***************************************************************************)
(* SlogHandler (loggerj_slog.go).  Handlers derived by WithAttrs and       *)
(* WithGroup share what they inherit.  Handle makes the fields of a record *)
(* from the attributes bound to the handler, those of the record and the   *)
(* identifiers of the context; attributes are flattened to dotted keys.    *)
(* The line that logTyped makes of the fields is SlogAdapter; their buffer *)
(* and the entry that carries them are EntryPool.                          *)
(***************************************************************************)
EXTENDS LineFormat

CONSTANTS
  Symbols,      \* of texts
  Depth,        \* of each value that an attribute may have, how deep groups nest in it
  GroupNames,
  Attrs,        \* lists of attributes that a record may have
  BoundAttrs,   \* those given to WithAttrs
  Contexts,     \* sets of identifiers in a context
  SlogLevels,
  MaxHandlers   \* bound: handlers, the first one included

Values     == DOMAIN Depth
GoStrings  == Seq(Symbols)
Attributes == [key : GoStrings, value : Values]

\* A group is a finite tree.  WithAttrs and WithGroup return the handler itself
\* for an empty list and an empty name.
ASSUME SlogAssumption ==
  /\ "." \in Symbols
  /\ Depth \in [Values -> Nat]
  /\ \A v \in Values : v.kind = "group" =>
       /\ v.attrs \in Seq(Attributes)
       /\ \A i \in DOMAIN v.attrs : Depth[v.attrs[i].value] < Depth[v]
  /\ Attrs \subseteq Seq(Attributes) /\ BoundAttrs \subseteq Seq(Attributes) \ {<<>>}
  /\ GroupNames \subseteq GoStrings \ {<<>>}
  /\ SlogLevels \subseteq Int

VARIABLES
  currentLevel,
  arrays,       \* the backing arrays of the handlers' attrs
  handlers,     \* of each its slice of an array, and its group
  bound,        \* history: the attributes of each handler and the groups open for them
  record        \* history: what the last call logged, if it was Handle, and the
                \* fields that it was asked for

handlerVars == <<currentLevel, arrays, handlers, bound, record>>

-----------------------------------------------------------------------------
(* Levels. *)

Debug == 0  Info == 1  Warn == 2  Error == 3

slogLevel == [Debug |-> -4, Info |-> 0, Warn |-> 4, Error |-> 8]

NearestLevel(l) ==
  CASE l < -2 -> Debug [] l \in -2..1 -> Info [] l \in 2..5 -> Warn [] OTHER -> Error

slogToLoggerjLevel(l) ==
  CASE l < slogLevel.Info -> Debug
    [] l \in slogLevel.Info..(slogLevel.Warn - 1) -> Info
    [] l \in slogLevel.Warn..(slogLevel.Error - 1) -> Warn
    [] OTHER -> Error

loggerjToSlogLevel(v) ==
  CASE v = Debug -> slogLevel.Debug [] v = Info -> slogLevel.Info
    [] v = Warn -> slogLevel.Warn [] v = Error -> slogLevel.Error
    [] OTHER -> slogLevel.Info

Enabled(l) == l >= loggerjToSlogLevel(currentLevel)

Filtered(level) == level < currentLevel

-----------------------------------------------------------------------------
(* Attributes to fields. *)

Dotted(prefix, key) == CASE prefix = <<>> -> key
                         [] key = <<>> -> prefix
                         [] OTHER -> prefix \o <<".">> \o key

\* A LogValuer is resolved; times and values of any other kind are strings.
appendSlogValue[v \in Values] == [key \in GoStrings |->
  CASE v.kind = "group" ->
         FlattenSeq([i \in DOMAIN v.attrs |-> appendSlogValue[v.attrs[i].value][Dotted(key, v.attrs[i].key)]])
    [] v.kind # "group" /\ key = <<>> -> <<>>
    [] OTHER -> <<FieldOf(key, v)>>]

\* An attribute without a key does not get the prefix of the handler.
appendAttr(h, a) ==
  appendSlogValue[a.value][IF a.key = <<>> THEN <<>> ELSE Dotted(h.group, a.key)]

Converted(h, attrs) == FlattenSeq([i \in DOMAIN attrs |-> appendAttr(h, attrs[i])])

AttrsOf(h) == SubSeq(arrays[h.array], 1, h.len)

Ids == <<"trace_id", "request_id", "span_id">>
Present(ctx) == FlattenSeq([i \in DOMAIN Ids |-> IF Ids[i] \in ctx THEN <<<<Ids[i]>>>> ELSE <<>>])

appendCtxFieldsTyped(ctx, fields) ==
  fields \o [i \in DOMAIN Present(ctx) |-> Field(Present(ctx)[i], "String", 0, <<"id">>)]

-----------------------------------------------------------------------------
(* What a record was asked to log, said without the code: the scalars of an  *)
(* attribute, each below the names on the way to it.                         *)

Asked(key, value) == [key |-> key, value |-> value]

Text(s) == [kind |-> "string", num |-> 0, str |-> s, attrs |-> <<>>]

Below(names, leaves) ==
  [j \in DOMAIN leaves |-> [path |-> names \o leaves[j].path, value |-> leaves[j].value]]

Scalars[v \in Values] ==
  IF v.kind # "group" THEN <<[path |-> <<>>, value |-> v]>>
  ELSE FlattenSeq([i \in DOMAIN v.attrs |->
         Below(IF v.attrs[i].key = <<>> THEN <<>> ELSE <<v.attrs[i].key>>, Scalars[v.attrs[i].value])])

Dots(path) == FlattenSeq([i \in DOMAIN path |-> IF i = 1 THEN path[i] ELSE <<".">> \o path[i]])

\* Scalars without any name are ignored.
AskedBy(leaves) ==
  FlattenSeq([j \in DOMAIN leaves |->
    IF leaves[j].path = <<>> THEN <<>> ELSE <<Asked(Dots(leaves[j].path), leaves[j].value)>>])

\* An attribute is below the groups that were open when it was given, unless it
\* has no key of its own.
LeavesOf(open, a) ==
  Below(IF a.key = <<>> THEN <<>> ELSE Append(open, a.key), Scalars[a.value])

AskedByAll(given) == FlattenSeq([i \in DOMAIN given |-> AskedBy(LeavesOf(given[i].open, given[i].attr))])

Given(open, attrs) == [i \in DOMAIN attrs |-> [open |-> open, attr |-> attrs[i]]]

AskedByContext(ctx) == [i \in DOMAIN Present(ctx) |-> Asked(Present(ctx)[i], Text(<<"id">>))]

AsFields(asked) == [i \in DOMAIN asked |-> FieldOf(asked[i].key, asked[i].value)]

-----------------------------------------------------------------------------
(* Calls. *)

NoRecord == [level |-> Debug, fields |-> <<>>, asked |-> <<>>]

HandlersInit ==
  /\ currentLevel = Info
  /\ arrays = <<<<>>>> /\ handlers = <<[array |-> 1, len |-> 0, group |-> <<>>]>>
  /\ bound = <<[open |-> <<>>, attrs |-> <<>>]>>
  /\ record = NoRecord

SetLevelValue ==
  /\ \E v \in Debug..(Error + 1) : currentLevel' = v
  /\ record' = NoRecord
  /\ UNCHANGED <<arrays, handlers, bound>>

HandleRecord(h) ==
  /\ \E l \in SlogLevels, attrs \in Attrs, ctx \in Contexts :
       /\ ~Filtered(slogToLoggerjLevel(l))
       /\ record' = [level  |-> slogToLoggerjLevel(l),
                     fields |-> appendCtxFieldsTyped(ctx, AttrsOf(handlers[h]) \o Converted(handlers[h], attrs)),
                     asked  |-> AskedByAll(bound[h].attrs \o Given(bound[h].open, attrs)) \o AskedByContext(ctx)]
  /\ UNCHANGED <<currentLevel, arrays, handlers, bound>>

Derive(handler, attrs, open) ==
  /\ Len(handlers) < MaxHandlers
  /\ handlers' = Append(handlers, handler)
  /\ bound' = Append(bound, [open |-> open, attrs |-> attrs])
  /\ record' = NoRecord
  /\ UNCHANGED currentLevel

SharedArray(h, fields) ==
  LET longer == AttrsOf(h) \o fields
  IN  IF h.len = 0 THEN [arrays |-> Append(arrays, longer), at |-> Len(arrays) + 1]
      ELSE [arrays |-> [arrays EXCEPT ![h.array] = longer \o SubSeq(@, Len(longer) + 1, Len(@))],
            at |-> h.array]

\* The attributes of h and some new ones, in an array of their own.
NewAttrs(h, fields) ==
  [arrays |-> Append(arrays, AttrsOf(h) \o fields), at |-> Len(arrays) + 1]

WithAttrs(h) == \E attrs \in BoundAttrs :
  LET fields == Converted(handlers[h], attrs)
      new    == NewAttrs(handlers[h], fields)
  IN  /\ arrays' = new.arrays
      /\ Derive([handlers[h] EXCEPT !.array = new.at, !.len = @ + Len(fields)],
                bound[h].attrs \o Given(bound[h].open, attrs), bound[h].open)

WithGroup(h) ==
  /\ \E name \in GroupNames :
       Derive([handlers[h] EXCEPT !.group = Dotted(@, name)], bound[h].attrs, Append(bound[h].open, name))
  /\ UNCHANGED arrays

HandlersNext ==
  SetLevelValue \/ \E h \in DOMAIN handlers : HandleRecord(h) \/ WithAttrs(h) \/ WithGroup(h)

HandlersSpec == HandlersInit /\ [][HandlersNext]_handlerVars

-----------------------------------------------------------------------------
(* Properties. *)

\* A record of a handler has the attributes that were bound to that handler and
\* to those it was derived from, below the groups open then, followed by its own
\* and the identifiers of its context, in order: whatever other handlers were
\* derived from the same ones, before or after (loggerj_slog.go:111-113).
AttrsAsBound == record.fields = AsFields(record.asked)

\* slog asks Enabled before it makes a record; the answer agrees with what Handle
\* does to the record, for every slog level from Debug up, those between the
\* named ones included, and every level of the logger that has a name.
EnabledAgrees ==
  \A l \in SlogLevels : l >= slogLevel.Debug /\ currentLevel =< Error =>
    (Enabled(l) <=> ~Filtered(slogToLoggerjLevel(l)))
=============================================================================
