--------------------------- MODULE RegistryProofs ---------------------------
(***************************************************************************)
(* Theorems about Registry, for every number of goroutines, log types and  *)
(* calls, and every lookup threshold.                                      *)
(***************************************************************************)
EXTENDS Registry, SequenceTheorems, TLAPS

USE DEF vars, Goto, Free

-----------------------------------------------------------------------------
(* What a snapshot finds, and what With makes of it. *)

\* The index of n in a list of log types, or 0.
Position(names, n) ==
  LET I == {i \in 1..Len(names) : names[i] = n} IN IF I # {} THEN Min(I) ELSE 0

LEMMA PositionIs ==
  ASSUME NEW names \in Seq(Names), IsInjective(names)
  PROVE  /\ \A i \in 1..Len(names) : Position(names, names[i]) = i
         /\ \A n : (\A i \in 1..Len(names) : names[i] # n) => Position(names, n) = 0
<1>1. ASSUME NEW i \in 1..Len(names) PROVE Position(names, names[i]) = i
  <2>1. {j \in 1..Len(names) : names[j] = names[i]} = {i}
    BY DEF IsInjective
  <2>2. Min({i}) = i
    BY DEF Min
  <2> QED BY <2>1, <2>2 DEF Position
<1>2. ASSUME NEW n, \A i \in 1..Len(names) : names[i] # n PROVE Position(names, n) = 0
  <2>1. {j \in 1..Len(names) : names[j] = n} = {}
    BY <1>2
  <2> QED BY <2>1 DEF Position
<1> QED BY <1>1, <1>2

\* The list of a whole snapshot answers alone: the map says the same.
LEMMA Finds ==
  ASSUME NEW s, SnapshotOK(s)
  PROVE  /\ \A i \in 1..Len(s.names) : getProfile(s, s.names[i]) = s.profiles[i]
         /\ \A n : (\A i \in 1..Len(s.names) : s.names[i] # n) => getProfile(s, n) = DefaultProfile
<1>1. s.names \in Seq(Names) /\ IsInjective(s.names) /\ DOMAIN s.names = 1..Len(s.names)
  BY DEF SnapshotOK
<1>2. ToSet(s.names) = {s.names[i] : i \in 1..Len(s.names)}
  BY <1>1 DEF ToSet
<1>3. CASE HasMap(s)
  <2>1. s.lookup = [n \in ToSet(s.names) |-> s.profiles[Position(s.names, n)]]
    BY <1>3 DEF SnapshotOK, FullMap, SelectInSeq, Position
  <2>2. \A n : getProfile(s, n) = IF n \in ToSet(s.names) THEN s.profiles[Position(s.names, n)]
                                  ELSE DefaultProfile
    BY <1>3, <2>1 DEF getProfile
  <2> QED BY <1>1, <1>2, <2>2, PositionIs
<1>4. CASE ~HasMap(s)
  <2>1. \A n : getProfile(s, n) = IF \E i \in 1..Len(s.names) : s.names[i] = n
                                    THEN s.profiles[Position(s.names, n)] ELSE DefaultProfile
    BY <1>4 DEF getProfile, Contains, SelectInSeq, Position
  <2> QED BY <1>1, <2>1, PositionIs
<1> QED BY <1>3, <1>4

\* The map of a list.
LEMMA MapOf ==
  ASSUME NEW names, NEW profiles
  PROVE  FullMap(names, profiles) = [n \in ToSet(names) |-> profiles[Position(names, n)]]
BY DEF FullMap, SelectInSeq, Position

\* A log type that is there gets its profile replaced, in the list and the map.
LEMMA WithKnown ==
  ASSUME NEW s, SnapshotOK(s), NEW p \in Profiles,
         NEW k \in 1..Len(s.names), s.names[k] = p.name
  PROVE  /\ SnapshotOK(With(s, p))
         /\ With(s, p).names = s.names
         /\ With(s, p).profiles = [s.profiles EXCEPT ![k] = p]
<1> USE RegistryAssumption
<1> DEFINE profiles == [s.profiles EXCEPT ![k] = p]
<1>1. /\ s.names \in Seq(Names) /\ IsInjective(s.names) /\ DOMAIN s.names = 1..Len(s.names)
      /\ s.profiles \in Seq(Profiles) /\ Len(s.profiles) = Len(s.names) /\ Len(s.names) \in Nat
  BY DEF SnapshotOK
<1>2. Position(s.names, p.name) = k /\ k > 0
  BY <1>1, PositionIs
<1>3. SelectInSeq(s.names, LAMBDA x : x = p.name) = k
  BY <1>2 DEF SelectInSeq, Position
<1>4. With(s, p) =
        [names |-> s.names, profiles |-> profiles,
         lookup |-> IF Len(s.names) =< profileLookupThreshold THEN <<>>
                    ELSE IF HasMap(s) THEN UpdatedMap(s.lookup, p.name, p)
                    ELSE FullMap(s.names, profiles)]
  BY <1>2, <1>3 DEF With, MapAtCrossing
<1>5. /\ profiles \in Seq(Profiles) /\ Len(profiles) = Len(s.names)
      /\ \A i \in 1..Len(s.names) : profiles[i] = IF i = k THEN p ELSE s.profiles[i]
  BY <1>1
<1> HIDE DEF profiles
<1>6. \A i \in 1..Len(s.names) : profiles[i].name = s.names[i]
  BY <1>1, <1>5 DEF SnapshotOK
<1>7. ASSUME Len(s.names) > profileLookupThreshold
      PROVE  UpdatedMap(s.lookup, p.name, p) = FullMap(s.names, profiles)
  <2>1. s.lookup = [n \in ToSet(s.names) |-> s.profiles[Position(s.names, n)]]
    BY <1>7, MapOf DEF SnapshotOK
  <2>2. p.name \in ToSet(s.names)
    BY <1>1 DEF ToSet
  <2>3. \A n \in ToSet(s.names) : \E i \in 1..Len(s.names) : n = s.names[i]
    BY <1>1 DEF ToSet
  <2>4. \A n \in ToSet(s.names) : profiles[Position(s.names, n)] =
                                     IF n = p.name THEN p ELSE s.profiles[Position(s.names, n)]
    BY <1>1, <1>2, <1>5, <2>3, PositionIs
  <2>5. DOMAIN s.lookup \union {p.name} = ToSet(s.names)
    BY <2>1, <2>2
  <2>6. \A n \in ToSet(s.names) : (IF n = p.name THEN p ELSE s.lookup[n]) = profiles[Position(s.names, n)]
    BY <2>1, <2>4
  <2>7. UpdatedMap(s.lookup, p.name, p) = [n \in ToSet(s.names) |-> profiles[Position(s.names, n)]]
    BY <2>5, <2>6 DEF UpdatedMap
  <2> QED BY <2>7, MapOf
<1>8. Len(s.names) > profileLookupThreshold => FullMap(s.names, profiles) # <<>>
  <2>1. Len(s.names) > profileLookupThreshold => s.names[1] \in ToSet(s.names)
    BY <1>1 DEF ToSet
  <2>2. DOMAIN FullMap(s.names, profiles) = ToSet(s.names) /\ DOMAIN <<>> = {}
    BY MapOf
  <2> QED BY <2>1, <2>2
<1>9. With(s, p).lookup = IF Len(s.names) =< profileLookupThreshold THEN <<>>
                          ELSE FullMap(s.names, profiles)
  BY <1>1, <1>4, <1>7
<1>10. With(s, p).names = s.names /\ With(s, p).profiles = profiles
  BY <1>4
<1>11. SnapshotOK(With(s, p))
  BY <1>1, <1>5, <1>6, <1>8, <1>9, <1>10 DEF SnapshotOK, HasMap
<1> QED BY <1>10, <1>11 DEF profiles

\* A new log type goes to the end; the map comes with the crossing.
LEMMA WithNew ==
  ASSUME NEW s, SnapshotOK(s), NEW p \in Profiles,
         \A i \in 1..Len(s.names) : s.names[i] # p.name
  PROVE  /\ SnapshotOK(With(s, p))
         /\ With(s, p).names = Append(s.names, p.name)
         /\ With(s, p).profiles = Append(s.profiles, p)
<1> USE RegistryAssumption
<1> DEFINE names == Append(s.names, p.name)
           profiles == Append(s.profiles, p)
<1>1. /\ s.names \in Seq(Names) /\ IsInjective(s.names) /\ DOMAIN s.names = 1..Len(s.names)
      /\ s.profiles \in Seq(Profiles) /\ Len(s.profiles) = Len(s.names) /\ Len(s.names) \in Nat
  BY DEF SnapshotOK
<1>2. Position(s.names, p.name) = 0
  BY <1>1, PositionIs
<1>3. SelectInSeq(s.names, LAMBDA x : x = p.name) = 0 /\ ~ (0 > 0)
  BY <1>2 DEF SelectInSeq, Position
<1>4. With(s, p) =
        [names |-> names, profiles |-> profiles,
         lookup |-> IF Len(names) =< profileLookupThreshold THEN <<>>
                    ELSE IF HasMap(s) THEN UpdatedMap(s.lookup, p.name, p)
                    ELSE FullMap(names, profiles)]
  BY <1>3 DEF With, MapAtCrossing
<1>5. p.name \in Names
  BY DEF Profiles
<1>6. /\ names \in Seq(Names) /\ Len(names) = Len(s.names) + 1 /\ DOMAIN names = 1..Len(names)
      /\ \A i \in 1..Len(names) : names[i] = IF i = Len(names) THEN p.name ELSE s.names[i]
  BY <1>1, <1>5
<1>7. /\ profiles \in Seq(Profiles) /\ Len(profiles) = Len(names)
      /\ \A i \in 1..Len(names) : profiles[i] = IF i = Len(names) THEN p ELSE s.profiles[i]
  BY <1>1, <1>6
<1> HIDE DEF names, profiles
<1>8. IsInjective(names)
  BY <1>1, <1>6 DEF IsInjective
<1>9. ASSUME NEW i \in 1..Len(names) PROVE profiles[i].name = names[i]
  <2>1. CASE i = Len(names)
    BY <1>6, <1>7, <2>1
  <2>2. CASE i # Len(names)
    <3>1. i \in DOMAIN s.names
      BY <1>1, <1>6, <2>2
    <3> QED BY <1>6, <1>7, <2>2, <3>1 DEF SnapshotOK
  <2> QED BY <2>1, <2>2
<1>10. ToSet(names) = ToSet(s.names) \union {p.name}
  <2>1. \A i \in 1..Len(s.names) : i \in 1..Len(names) /\ names[i] = s.names[i]
    BY <1>1, <1>6
  <2>2. Len(names) \in 1..Len(names) /\ names[Len(names)] = p.name
    BY <1>1, <1>6
  <2>3. \A i \in 1..Len(names) : i \in 1..Len(s.names) \/ i = Len(names)
    BY <1>1, <1>6
  <2> QED BY <1>1, <1>6, <2>1, <2>2, <2>3 DEF ToSet
<1>11. ASSUME HasMap(s) PROVE UpdatedMap(s.lookup, p.name, p) = FullMap(names, profiles)
  <2>1. s.lookup = [n \in ToSet(s.names) |-> s.profiles[Position(s.names, n)]]
    BY <1>11, MapOf DEF SnapshotOK
  <2>2. ASSUME NEW n \in ToSet(names)
        PROVE  profiles[Position(names, n)] =
                 IF n = p.name THEN p ELSE s.profiles[Position(s.names, n)]
    <3>1. CASE n = p.name
      <4>1. Len(names) \in 1..Len(names) /\ names[Len(names)] = n
        BY <1>1, <1>6, <3>1
      <4>2. Position(names, n) = Len(names)
        BY <1>6, <1>8, <4>1, PositionIs
      <4> QED BY <1>7, <3>1, <4>1, <4>2
    <3>2. CASE n # p.name
      <4>1. PICK i \in 1..Len(s.names) : n = s.names[i]
        BY <1>1, <1>10, <3>2 DEF ToSet
      <4>2. i \in 1..Len(names) /\ i # Len(names) /\ names[i] = n
        BY <1>1, <1>6, <4>1
      <4>3. Position(names, n) = i /\ Position(s.names, n) = i
        BY <1>1, <1>6, <1>8, <4>1, <4>2, PositionIs
      <4> QED BY <1>7, <3>2, <4>2, <4>3
    <3> QED BY <3>1, <3>2
  <2>3. DOMAIN s.lookup \union {p.name} = ToSet(names)
    BY <1>10, <2>1
  <2>4. \A n \in ToSet(names) : (IF n = p.name THEN p ELSE s.lookup[n]) = profiles[Position(names, n)]
    BY <1>10, <2>1, <2>2
  <2>5. UpdatedMap(s.lookup, p.name, p) = [n \in ToSet(names) |-> profiles[Position(names, n)]]
    BY <2>3, <2>4 DEF UpdatedMap
  <2> QED BY <2>5, MapOf
<1>12. FullMap(names, profiles) # <<>>
  <2>1. p.name \in DOMAIN FullMap(names, profiles) /\ DOMAIN <<>> = {}
    BY <1>10, MapOf
  <2> QED BY <2>1
<1>13. With(s, p).lookup = IF Len(names) =< profileLookupThreshold THEN <<>> ELSE FullMap(names, profiles)
  BY <1>4, <1>11
<1>14. With(s, p).names = names /\ With(s, p).profiles = profiles
  BY <1>4
<1>15. SnapshotOK(With(s, p))
  BY <1>1, <1>6, <1>7, <1>8, <1>9, <1>12, <1>13, <1>14 DEF SnapshotOK, HasMap
<1> QED BY <1>14, <1>15 DEF names, profiles

\* In all: With changes what is found for one log type and for no other.
LEMMA WithFinds ==
  ASSUME NEW s, SnapshotOK(s), NEW p \in Profiles
  PROVE  /\ SnapshotOK(With(s, p))
         /\ \A n : getProfile(With(s, p), n) = IF n = p.name THEN p ELSE getProfile(s, n)
<1> DEFINE w == With(s, p)
<1>0. /\ s.names \in Seq(Names) /\ s.profiles \in Seq(Profiles)
      /\ Len(s.profiles) = Len(s.names) /\ Len(s.names) \in Nat /\ IsInjective(s.names)
      /\ DOMAIN s.names = 1..Len(s.names)
  BY DEF SnapshotOK
<1>1. ASSUME NEW k \in 1..Len(s.names), s.names[k] = p.name
      PROVE  SnapshotOK(w) /\ \A n : getProfile(w, n) = IF n = p.name THEN p ELSE getProfile(s, n)
  <2>1. SnapshotOK(w) /\ w.names = s.names /\ w.profiles = [s.profiles EXCEPT ![k] = p]
    BY <1>1, WithKnown
  <2> HIDE DEF w
  <2>2. \A i \in 1..Len(s.names) : w.profiles[i] = IF i = k THEN p ELSE s.profiles[i]
    BY <1>0, <2>1
  <2>3. ASSUME NEW n PROVE getProfile(w, n) = IF n = p.name THEN p ELSE getProfile(s, n)
    <3>1. CASE \E i \in 1..Len(s.names) : s.names[i] = n
      <4>1. PICK i \in 1..Len(s.names) : s.names[i] = n
        BY <3>1
      <4>2. getProfile(w, n) = w.profiles[i] /\ getProfile(s, n) = s.profiles[i]
        <5>1. getProfile(w, n) = w.profiles[i]
          BY <2>1, <4>1, Finds
        <5>2. getProfile(s, n) = s.profiles[i]
          BY <4>1, Finds
        <5> QED BY <5>1, <5>2
      <4>3. n = p.name <=> i = k
        BY <1>0, <1>1, <4>1 DEF IsInjective
      <4> QED BY <2>2, <4>2, <4>3
    <3>2. CASE \A i \in 1..Len(s.names) : s.names[i] # n
      <4>1. getProfile(w, n) = DefaultProfile /\ getProfile(s, n) = DefaultProfile
        BY <2>1, <3>2, Finds
      <4> QED BY <1>1, <3>2, <4>1
    <3> QED BY <3>1, <3>2
  <2> QED BY <2>1, <2>3
<1>2. ASSUME \A i \in 1..Len(s.names) : s.names[i] # p.name
      PROVE  SnapshotOK(w) /\ \A n : getProfile(w, n) = IF n = p.name THEN p ELSE getProfile(s, n)
  <2>1. SnapshotOK(w) /\ w.names = Append(s.names, p.name) /\ w.profiles = Append(s.profiles, p)
    BY <1>2, WithNew
  <2> HIDE DEF w
  <2> DEFINE m == Len(s.names) + 1
  <2>2. /\ Len(w.names) = m /\ m \in 1..m /\ w.names[m] = p.name /\ w.profiles[m] = p
        /\ \A i \in 1..Len(s.names) : i \in 1..m /\ w.names[i] = s.names[i] /\ w.profiles[i] = s.profiles[i]
        /\ \A i \in 1..m : i \in 1..Len(s.names) \/ i = m
    BY <1>0, <2>1
  <2> HIDE DEF m
  <2>3. ASSUME NEW n PROVE getProfile(w, n) = IF n = p.name THEN p ELSE getProfile(s, n)
    <3>1. CASE n = p.name
      BY <2>1, <2>2, <3>1, Finds
    <3>2. CASE n # p.name /\ \E i \in 1..Len(s.names) : s.names[i] = n
      <4>1. PICK i \in 1..Len(s.names) : s.names[i] = n
        BY <3>2
      <4>2. i \in 1..Len(w.names) /\ w.names[i] = n /\ w.profiles[i] = s.profiles[i]
        BY <2>2, <4>1
      <4>3. getProfile(w, n) = w.profiles[i]
        BY <2>1, <4>2, Finds
      <4>4. getProfile(s, n) = s.profiles[i]
        BY <4>1, Finds
      <4> QED BY <3>2, <4>2, <4>3, <4>4
    <3>3. CASE n # p.name /\ \A i \in 1..Len(s.names) : s.names[i] # n
      <4>1. \A i \in 1..Len(w.names) : w.names[i] # n
        BY <2>2, <3>3
      <4>2. getProfile(w, n) = DefaultProfile
        BY <2>1, <4>1, Finds
      <4>3. getProfile(s, n) = DefaultProfile
        BY <3>3, Finds
      <4> QED BY <3>3, <4>2, <4>3
    <3> QED BY <3>1, <3>2, <3>3
  <2> QED BY <2>1, <2>3
<1> QED BY <1>1, <1>2

-----------------------------------------------------------------------------
(* Type correctness, with who holds registerMu and what it protects. *)

\* A goroutine in a call has made the profile that the call is about.
HasProfile ==
  \A t \in Threads : pc[t] \in {"lock", "load", "store", "lookup"} => profile[t] \in Profiles

\* Only the holder of registerMu is between the load and the store.
MuHeld == \A t \in Threads : pc[t] \in {"load", "store"} <=> registerMu = t

\* So the copy that it changes is still the published snapshot.
CopyIsCurrent == \A t \in Threads : pc[t] = "store" => old[t] = registry

\* A log type that a Sub is about to look up is registered.
FoundAgain ==
  \A t \in Threads : pc[t] = "lookup" => stored[profile[t].name] # <<>>

RegistryInv == TypeOK /\ HasProfile /\ MuHeld /\ CopyIsCurrent /\ FoundAgain /\ LatestWins

\* The first snapshot is whole: no log type, no profile, no map.
LEMMA EmptyIsOK == SnapshotOK(EmptySnapshot)
<1>1. Len(<<>>) = 0 /\ DOMAIN <<>> = {} /\ <<>> \in Seq(Names) /\ <<>> \in Seq(Profiles)
  OBVIOUS
<1> QED BY <1>1, RegistryAssumption DEF SnapshotOK, EmptySnapshot, HasMap, IsInjective

LEMMA RegistryInit == Init => RegistryInv /\ HandleOfItsType
<1> SUFFICES ASSUME Init PROVE RegistryInv /\ HandleOfItsType
  OBVIOUS
<1> USE RegistryAssumption
<1>1. TypeOK
  <2>1. <<>> \in Seq(Profiles)
    OBVIOUS
  <2> QED BY <2>1, EmptyIsOK DEF Init, TypeOK
<1>2. HasProfile /\ MuHeld /\ CopyIsCurrent /\ FoundAgain /\ HandleOfItsType
  BY DEF Init, HasProfile, MuHeld, CopyIsCurrent, FoundAgain, HandleOfItsType
<1>3. LatestWins
  <2>1. \A n \in Names : getProfile(registry, n) = DefaultProfile
    BY DEF Init, EmptySnapshot, getProfile, HasMap, Contains
  <2> QED BY <2>1 DEF Init, LatestWins
<1> QED BY <1>1, <1>2, <1>3 DEF RegistryInv

\* What a registration stores is what the next lookup of its log type finds.
LEMMA Stores ==
  ASSUME RegistryInv, NEW t \in Threads, Store(t)
  PROVE  RegistryInv'
<1> USE RegistryAssumption
<1>1. PICK p : p = profile[t]
  OBVIOUS
<1>2. /\ pc[t] = "store" /\ p \in Profiles /\ p.name \in Names /\ registerMu = t
      /\ registry' = With(registry, p) /\ registerMu' = Nobody
      /\ pc'[t] \in {"idle", "lookup"} /\ \A u \in Threads : u # t => pc'[u] = pc[u]
      /\ pc' \in [Threads -> {"idle", "lock", "load", "store", "lookup"}]
      /\ UNCHANGED <<op, profile, old, calls, handles>>
  BY <1>1 DEF Store, RegistryInv, TypeOK, HasProfile, MuHeld, CopyIsCurrent, Profiles
<1>3. /\ stored \in [Names -> Seq(Profiles)]
      /\ stored' = [stored EXCEPT ![p.name] = Append(stored[p.name], p)]
  BY <1>1 DEF Store, RegistryInv, TypeOK
<1>4. /\ stored' \in [Names -> Seq(Profiles)]
      /\ stored'[p.name] = Append(stored[p.name], p)
      /\ \A n \in Names : n # p.name => stored'[n] = stored[n]
  BY <1>2, <1>3
<1>5. /\ SnapshotOK(registry')
      /\ \A n : getProfile(registry', n) = IF n = p.name THEN p ELSE getProfile(registry, n)
  BY <1>2, WithFinds DEF RegistryInv, TypeOK
<1>6. stored'[p.name] # <<>> /\ Last(stored'[p.name]) = p
  <2>1. PICK s \in Seq(Profiles) : s = stored[p.name]
    BY <1>2, <1>3
  <2>2. Append(s, p) # <<>> /\ Last(Append(s, p)) = p
    BY <1>2 DEF Last
  <2> QED BY <1>4, <2>1, <2>2
<1>7. LatestWins'
  <2> SUFFICES ASSUME NEW n \in Names
               PROVE  getProfile(registry', n) =
                        IF stored'[n] = <<>> THEN DefaultProfile ELSE Last(stored'[n])
    BY DEF LatestWins
  <2>1. CASE n = p.name
    BY <1>5, <1>6, <2>1
  <2>2. CASE n # p.name
    BY <1>4, <1>5, <2>2 DEF RegistryInv, LatestWins
  <2> QED BY <2>1, <2>2
<1>8. TypeOK'
  BY <1>2, <1>4, <1>5 DEF RegistryInv, TypeOK
<1>9. HasProfile' /\ MuHeld' /\ CopyIsCurrent'
  BY <1>2 DEF RegistryInv, HasProfile, MuHeld, CopyIsCurrent
<1>10. FoundAgain'
  <2> SUFFICES ASSUME NEW u \in Threads, pc'[u] = "lookup"
               PROVE  stored'[profile[u].name] # <<>>
    BY <1>2 DEF FoundAgain
  <2>1. CASE profile[u].name = p.name
    BY <1>6, <2>1
  <2>2. CASE profile[u].name # p.name
    <3>1. u # t /\ pc[u] = "lookup"
      BY <1>1, <1>2, <2>2
    <3>2. profile[u].name \in Names /\ stored[profile[u].name] # <<>>
      BY <3>1 DEF RegistryInv, HasProfile, FoundAgain, Profiles
    <3> QED BY <1>4, <2>2, <3>2
  <2> QED BY <2>1, <2>2
<1> QED BY <1>7, <1>8, <1>9, <1>10 DEF RegistryInv

\* Every other step leaves the snapshot and the history of stores alone.
LEMMA RegistryStep == RegistryInv /\ [Next]_vars => RegistryInv'
<1> SUFFICES ASSUME RegistryInv, [Next]_vars PROVE RegistryInv'
  OBVIOUS
<1> USE RegistryAssumption
<1>0. ASSUME UNCHANGED <<registry, stored>> PROVE LatestWins'
  BY <1>0 DEF RegistryInv, LatestWins
<1>a. ASSUME NEW t \in Threads, NEW n \in Names, NEW limited \in BOOLEAN, calls[t] < MaxCalls
      PROVE  NewProfile(t, n, limited) \in Profiles /\ NewProfile(t, n, limited).name = n
  BY <1>a DEF RegistryInv, TypeOK, NewProfile, Profiles
<1>1. ASSUME NEW t \in Threads, NEW n \in Names, NEW limited \in BOOLEAN,
             NEW method \in {"register", "subwith"}, RegisterCall(t, n, limited, method)
      PROVE  RegistryInv'
  <2>0. PICK p \in Profiles : p = NewProfile(t, n, limited)
    BY <1>1, <1>a DEF RegisterCall, Call
  <2>1. TypeOK'
    BY <1>1, <2>0 DEF RegisterCall, Call, RegistryInv, TypeOK
  <2>2. HasProfile' /\ MuHeld' /\ CopyIsCurrent' /\ FoundAgain'
    BY <1>1, <2>0 DEF RegisterCall, Call, RegistryInv, TypeOK, HasProfile, MuHeld, CopyIsCurrent, FoundAgain
  <2> QED BY <1>1, <1>0, <2>1, <2>2 DEF RegisterCall, RegistryInv
<1>2. ASSUME NEW t \in Threads, NEW n \in Names, SubCall(t, n) PROVE RegistryInv'
  <2>0. PICK p \in Profiles : p = NewProfile(t, n, FALSE) /\ p.name = n
    BY <1>2, <1>a DEF SubCall, Call
  <2>a. PICK place \in {"lock", "lookup"} : pc' = [pc EXCEPT ![t] = place]
    BY <1>2 DEF SubCall
  <2>1. TypeOK'
    <3>1. /\ calls[t] < MaxCalls /\ calls' = [calls EXCEPT ![t] = @ + 1]
          /\ op' = [op EXCEPT ![t] = "sub"] /\ profile' = [profile EXCEPT ![t] = p]
          /\ UNCHANGED <<registry, registerMu, old, stored>>
      BY <1>2, <2>0 DEF SubCall, Call
    <3> QED BY <2>a, <3>1 DEF RegistryInv, TypeOK
  <2>2. HasProfile' /\ MuHeld' /\ CopyIsCurrent'
    BY <1>2, <2>0 DEF SubCall, Call, RegistryInv, TypeOK, HasProfile, MuHeld, CopyIsCurrent
  <2>3. FoundAgain'
    BY <1>2, <2>0 DEF SubCall, Call, RegistryInv, TypeOK, FoundAgain, LatestWins
  <2> QED BY <1>2, <1>0, <2>1, <2>2, <2>3 DEF SubCall, RegistryInv
<1>3. ASSUME NEW t \in Threads, Lock(t) PROVE RegistryInv'
  <2>1. TypeOK'
    BY <1>3 DEF Lock, RegistryInv, TypeOK
  <2>2. HasProfile' /\ MuHeld' /\ CopyIsCurrent' /\ FoundAgain'
    BY <1>3 DEF Lock, RegistryInv, TypeOK, HasProfile, MuHeld, CopyIsCurrent, FoundAgain
  <2> QED BY <1>3, <1>0, <2>1, <2>2 DEF Lock, RegistryInv
<1>4. ASSUME NEW t \in Threads, Load(t) PROVE RegistryInv'
  <2>1. TypeOK'
    BY <1>4 DEF Load, RegistryInv, TypeOK
  <2>2. HasProfile' /\ MuHeld' /\ FoundAgain'
    BY <1>4 DEF Load, RegistryInv, TypeOK, HasProfile, MuHeld, FoundAgain
  <2>3. old'[t] = registry
    BY <1>4 DEF Load, RegistryInv, TypeOK
  <2>4. \A u \in Threads : u # t => pc'[u] # "store"
    BY <1>4 DEF Load, RegistryInv, TypeOK, MuHeld
  <2>5. CopyIsCurrent'
    BY <1>4, <2>3, <2>4 DEF Load, CopyIsCurrent
  <2> QED BY <1>4, <1>0, <2>1, <2>2, <2>5 DEF Load, RegistryInv
<1>5. ASSUME NEW t \in Threads, Store(t) PROVE RegistryInv'
  BY <1>5, Stores
<1>6. ASSUME NEW t \in Threads, Lookup(t) PROVE RegistryInv'
  <2>1. TypeOK'
    BY <1>6 DEF Lookup, RegistryInv, TypeOK
  <2>2. HasProfile' /\ MuHeld' /\ CopyIsCurrent' /\ FoundAgain'
    BY <1>6 DEF Lookup, RegistryInv, TypeOK, HasProfile, MuHeld, CopyIsCurrent, FoundAgain
  <2> QED BY <1>6, <1>0, <2>1, <2>2 DEF Lookup, RegistryInv
<1>7. CASE UNCHANGED vars
  BY <1>7 DEF RegistryInv, TypeOK, HasProfile, MuHeld, CopyIsCurrent, FoundAgain, LatestWins
<1> QED BY <1>1, <1>2, <1>3, <1>4, <1>5, <1>6, <1>7 DEF Next

\* Every snapshot that is published, and every one that a registration still
\* works on, has each log type once, the profile of that type beside it, and a
\* map exactly above the threshold that says what the list says.
THEOREM SnapshotsWhole == Spec => []TypeOK
<1>1. Init => RegistryInv
  BY RegistryInit
<1>2. RegistryInv => TypeOK
  BY DEF RegistryInv
<1> QED BY <1>1, <1>2, RegistryStep, PTL DEF Spec

\* A lookup finds the profile that was stored last for its log type, however
\* many goroutines register how many log types: no registration is lost to one
\* that copied an older snapshot.
THEOREM LatestProfileWins == Spec => []LatestWins
<1>1. Init => RegistryInv
  BY RegistryInit
<1>2. RegistryInv => LatestWins
  BY DEF RegistryInv
<1> QED BY <1>1, <1>2, RegistryStep, PTL DEF Spec

\* A handle has a profile that somebody registered for its own log type.
LEMMA HandleStep == RegistryInv /\ HandleOfItsType /\ [Next]_vars => HandleOfItsType'
<1> SUFFICES ASSUME RegistryInv, HandleOfItsType, [Next]_vars PROVE HandleOfItsType'
  OBVIOUS
<1>1. ASSUME NEW t \in Threads, Lookup(t) PROVE HandleOfItsType'
  <2>1. PICK n \in Names : n = profile[t].name
    BY <1>1 DEF Lookup, RegistryInv, HasProfile, Profiles
  <2>2. handles' = handles \union {[name |-> n, profile |-> getProfile(registry, n)]}
    BY <1>1, <2>1 DEF Lookup
  <2>3. stored[n] # <<>> /\ stored[n] \in Seq(Profiles)
    BY <1>1, <2>1 DEF Lookup, RegistryInv, FoundAgain, TypeOK
  <2>4. getProfile(registry, n) \in Profiles
    <3>1. PICK s \in Seq(Profiles) : s = stored[n]
      BY <2>3
    <3>2. Last(s) \in Profiles
      BY <2>3, <3>1 DEF Last
    <3> QED BY <2>3, <3>1, <3>2 DEF RegistryInv, LatestWins
  <2>5. getProfile(registry, n) # DefaultProfile
    BY <2>4, DefaultAssumption DEF Profiles
  <2>6. getProfile(registry, n).name = n
    <3>1. SnapshotOK(registry)
      BY DEF RegistryInv, TypeOK
    <3>2. PICK i \in 1..Len(registry.names) : registry.names[i] = n
      BY <2>5, <3>1, Finds
    <3>3. getProfile(registry, n) = registry.profiles[i]
      BY <3>1, <3>2, Finds
    <3>4. i \in DOMAIN registry.names
      BY <3>1, <3>2 DEF SnapshotOK
    <3> QED BY <3>1, <3>2, <3>3, <3>4 DEF SnapshotOK
  <2> QED BY <2>2, <2>5, <2>6 DEF HandleOfItsType
<1>2. CASE UNCHANGED handles
  BY <1>2 DEF HandleOfItsType
<1>3. UNCHANGED handles \/ \E t \in Threads : Lookup(t)
  BY DEF Next, RegisterCall, SubCall, Lock, Load, Store
<1> QED BY <1>1, <1>2, <1>3

\* No SubLogger ever logs with the default profile or that of another log
\* type, also when its own registration was replaced before it was looked up.
THEOREM HandlesKeepTheirType == Spec => []HandleOfItsType
<1>1. Init => RegistryInv /\ HandleOfItsType
  BY RegistryInit
<1>2. RegistryInv /\ HandleOfItsType /\ [Next]_vars => (RegistryInv /\ HandleOfItsType)'
  BY RegistryStep, HandleStep
<1> QED BY <1>1, <1>2, PTL DEF Spec
=============================================================================
