------------------------------ MODULE Registry ------------------------------
(***************************************************************************)
(* The profile registry: RegisterSub publishes a new snapshot, copied from *)
(* the current one under registerMu; getProfile reads whichever snapshot   *)
(* is published, without a lock; Sub looks a profile up, may register one, *)
(* and looks it up again.                                                  *)
(*                                                                         *)
(* A snapshot is a list of log types and profiles, and, above a size, a    *)
(* map beside it.  The empty snapshot stands for the nil registry, the     *)
(* empty map for the nil map.                                              *)
(***************************************************************************)
EXTENDS Integers, Sequences, FiniteSets, SequencesExt

CONSTANTS
  Threads,                \* goroutines that call RegisterSub and Sub
  Names,                  \* log types
  Nobody,                 \* registerMu is free
  DefaultProfile,         \* what getProfile returns for an unknown log type
  profileLookupThreshold,
  MaxCalls                \* bound: calls of one goroutine

ASSUME RegistryAssumption ==
  /\ Nobody \notin Threads
  /\ profileLookupThreshold \in Nat \ {0} /\ MaxCalls \in Nat

\* The profile of the unknown log types is nobody's registration.
ASSUME DefaultAssumption ==
  DefaultProfile \notin [name : Names, limited : BOOLEAN, by : Threads, call : 1..MaxCalls]

VARIABLES
  registry,    \* the published snapshot
  registerMu,
  pc, op,      \* where each goroutine is, and in which call
  profile,     \* the SubProfile that it is registering
  old,         \* the snapshot that it copies
  calls,
  handles,     \* history: the SubLoggers that Sub returned, with their log type
  stored       \* history: the profiles stored for each log type, in order

vars == <<registry, registerMu, pc, op, profile, old, calls, handles, stored>>

EmptySnapshot == [names |-> <<>>, profiles |-> <<>>, lookup |-> <<>>]

\* Profiles are told apart by the call that created them.
NewProfile(t, n, limited) ==
  [name |-> n, limited |-> limited, by |-> t, call |-> calls[t] + 1]

-----------------------------------------------------------------------------
(* Lookup and the copy. *)

HasMap(s) == s.lookup # <<>>

\* getProfile on a snapshot.
getProfile(s, n) ==
  IF HasMap(s)
    THEN IF n \in DOMAIN s.lookup THEN s.lookup[n] ELSE DefaultProfile
    ELSE IF Contains(s.names, n)
           THEN s.profiles[SelectInSeq(s.names, LAMBDA x : x = n)]
           ELSE DefaultProfile

\* buildFullMap
FullMap(names, profiles) ==
  [n \in ToSet(names) |-> profiles[SelectInSeq(names, LAMBDA x : x = n)]]

\* At the first crossing of the threshold: a map of the old list ...
MapOfOld(s, names, profiles) == FullMap(s.names, s.profiles)

\* ... or of the new one.
MapAtCrossing(s, names, profiles) == FullMap(names, profiles)

\* The old map, copied and changed.
UpdatedMap(map, n, p) ==
  [x \in DOMAIN map \union {n} |-> IF x = n THEN p ELSE map[x]]

\* Profile p replaces the one of its log type, or is added at the end.  The map
\* is built when the size first passes the threshold and updated after that.
With(s, p) ==
  LET i == SelectInSeq(s.names, LAMBDA x : x = p.name)
      names == IF i > 0 THEN s.names ELSE Append(s.names, p.name)
      profiles == IF i > 0 THEN [s.profiles EXCEPT ![i] = p] ELSE Append(s.profiles, p)
  IN [names |-> names, profiles |-> profiles,
      lookup |-> IF Len(names) =< profileLookupThreshold THEN <<>>
                 ELSE IF HasMap(s) THEN UpdatedMap(s.lookup, p.name, p)
                 ELSE MapAtCrossing(s, names, profiles)]

-----------------------------------------------------------------------------
Init ==
  /\ registry = EmptySnapshot
  /\ registerMu = Nobody
  /\ pc = [t \in Threads |-> "idle"] /\ op = [t \in Threads |-> "register"]
  /\ profile = [t \in Threads |-> DefaultProfile]
  /\ old = [t \in Threads |-> EmptySnapshot]
  /\ calls = [t \in Threads |-> 0]
  /\ handles = {} /\ stored = [n \in Names |-> <<>>]

Goto(t, place) == pc' = [pc EXCEPT ![t] = place]

Call(t, method) ==
  /\ pc[t] = "idle" /\ calls[t] < MaxCalls
  /\ calls' = [calls EXCEPT ![t] = @ + 1]
  /\ op' = [op EXCEPT ![t] = method]

\* RegisterSub, or Sub with options, which differ in what follows the store.
RegisterCall(t, n, limited, method) ==
  /\ Call(t, method)
  /\ profile' = [profile EXCEPT ![t] = NewProfile(t, n, limited)]
  /\ Goto(t, "lock")
  /\ UNCHANGED <<registry, registerMu, old, handles, stored>>

\* Sub without options registers an empty profile if there is none.
SubCall(t, n) ==
  /\ Call(t, "sub")
  /\ profile' = [profile EXCEPT ![t] = NewProfile(t, n, FALSE)]
  /\ Goto(t, IF getProfile(registry, n) = DefaultProfile THEN "lock" ELSE "lookup")
  /\ UNCHANGED <<registry, registerMu, old, handles, stored>>

\* Is registerMu waited for?
NoWait == TRUE

Free == registerMu = Nobody

Lock(t) ==
  /\ pc[t] = "lock" /\ Free
  /\ registerMu' = t
  /\ Goto(t, "load")
  /\ UNCHANGED <<registry, op, profile, old, calls, handles, stored>>

Load(t) ==
  /\ pc[t] = "load"
  /\ old' = [old EXCEPT ![t] = registry]
  /\ Goto(t, "store")
  /\ UNCHANGED <<registry, registerMu, op, profile, calls, handles, stored>>

\* The new snapshot is published, and registerMu released.
Store(t) ==
  /\ pc[t] = "store"
  /\ registry' = With(old[t], profile[t])
  /\ registerMu' = Nobody
  /\ stored' = [stored EXCEPT ![profile[t].name] = Append(@, profile[t])]
  /\ Goto(t, IF op[t] = "register" THEN "idle" ELSE "lookup")
  /\ UNCHANGED <<op, profile, old, calls, handles>>

\* The second getProfile of Sub.
Lookup(t) ==
  /\ pc[t] = "lookup"
  /\ handles' = handles \union
       {[name |-> profile[t].name, profile |-> getProfile(registry, profile[t].name)]}
  /\ Goto(t, "idle")
  /\ UNCHANGED <<registry, registerMu, op, profile, old, calls, stored>>

Next ==
  \E t \in Threads :
    \/ \E n \in Names, limited \in BOOLEAN : RegisterCall(t, n, limited, "register")
    \/ \E n \in Names : RegisterCall(t, n, TRUE, "subwith")
    \/ \E n \in Names : SubCall(t, n)
    \/ Lock(t) \/ Load(t) \/ Store(t) \/ Lookup(t)

Spec == Init /\ [][Next]_vars

-----------------------------------------------------------------------------
Profiles == [name : Names, limited : BOOLEAN, by : Threads, call : 1..MaxCalls]

\* The list has each log type once, with a profile of that type; the map is
\* there exactly above the threshold (profile.go:71-77) and agrees with the list.
SnapshotOK(s) ==
  /\ s.names \in Seq(Names) /\ IsInjective(s.names)
  /\ s.profiles \in Seq(Profiles) /\ Len(s.profiles) = Len(s.names)
  /\ \A i \in DOMAIN s.names : s.profiles[i].name = s.names[i]
  /\ HasMap(s) <=> Len(s.names) > profileLookupThreshold
  /\ HasMap(s) => s.lookup = FullMap(s.names, s.profiles)

\* The types; a snapshot that a registration still works on is whole as well.
TypeOK ==
  /\ SnapshotOK(registry)
  /\ DOMAIN old = Threads /\ \A t \in Threads : SnapshotOK(old[t])
  /\ registerMu \in Threads \union {Nobody}
  /\ pc \in [Threads -> {"idle", "lock", "load", "store", "lookup"}]
  /\ op \in [Threads -> {"register", "subwith", "sub"}]
  /\ profile \in [Threads -> Profiles \union {DefaultProfile}]
  /\ calls \in [Threads -> 0..MaxCalls]
  /\ stored \in [Names -> Seq(Profiles)]

\* No registration is lost to a concurrent one that worked on an older copy,
\* for the same or another log type, whichever form the snapshot has: a lookup
\* finds the profile that was stored last (logger.go:275-277).
LatestWins ==
  \A n \in Names :
    getProfile(registry, n) = IF stored[n] = <<>> THEN DefaultProfile ELSE Last(stored[n])

\* A handle never logs with the default profile or that of another log type,
\* also if its own registration was replaced before it looked (sublogger.go:3-5).
HandleOfItsType ==
  \A h \in handles : h.profile # DefaultProfile /\ h.profile.name = h.name

-----------------------------------------------------------------------------
\* sublogger.go:28-30: without options Sub "only registers an empty profile when
\* there is none, so Sub("HTTP") never resets an existing rate limit": a profile
\* with a limit is replaced only by a call that was given options.
Limited(n) == LET p == getProfile(registry, n) IN p # DefaultProfile /\ p.limited

SubNeverResets ==
  [][\A t \in Threads, n \in Names :
       Store(t) /\ op[t] = "sub" /\ Limited(n) => Limited(n)']_vars
=============================================================================
