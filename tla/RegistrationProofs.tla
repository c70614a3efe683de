------------------------- MODULE RegistrationProofs -------------------------
(***************************************************************************)
(* Theorems about Registration: its types, that a running agent is ready   *)
(* to serve, and that the data of a source go to its own bucket, for any   *)
(* libraries and any number of additions, initialisations, starts and      *)
(* stops.                                                                  *)
(***************************************************************************)
EXTENDS Registration, FiniteSetTheorems, WellFoundedInduction, TLAPS

USE DEF lists, managed

Systems == {q \in 1..Len(plugins) : plugins[q] = System}

(* Each init adds one system plugin to the vector: after the first there is *)
(* one.  Nobody else adds it.                                              *)
OneSystem ==
    /\ inits = 0 => Systems = {}
    /\ inits = 1 => \E p \in Nat : Systems = {p}

(* The configuration connector is there since the first init, so that a    *)
(* later one gives the manager nothing that is not started.                *)
ConfigStays ==
    /\ running => inits > 0
    /\ inits > 0 => Config \in connectors

(* What the manager holds while the agent runs or does not, unless a start *)
(* has failed since the last stop.                                         *)
StartedAreAll ==
    ~failed =>
        /\ running => started = connectors /\ (inits = 1 => \E r : receivers = {r})
        /\ ~running => receivers = {} /\ ~managing

IInv == TypeOK /\ OneSystem /\ ConfigStays /\ StartedAreAll

-----------------------------------------------------------------------------
(* The least and the greatest element of a set of numbers. *)
LEMMA LeastExists ==
    ASSUME NEW S \in SUBSET Nat, S # {}
    PROVE  Min(S) \in S /\ \A y \in S : Min(S) <= y
<1>1. \E x \in S : \A y \in S : <<y, x>> \notin OpToRel(<, Nat)
  BY NatLessThanWellFounded, WFMin
<1>2. \A x, y \in S : <<y, x>> \notin OpToRel(<, Nat) => x <= y
  BY DEF OpToRel
<1>3. \E x \in S : \A y \in S : x <= y
  BY <1>1, <1>2
<1>. QED
  BY <1>3 DEF Min

LEMMA GreatestExists ==
    ASSUME NEW n \in Nat, NEW S \in SUBSET (1..n), S # {}
    PROVE  Max(S) \in S /\ \A y \in S : y <= Max(S)
<1>. DEFINE T == {n - x : x \in S}
<1>1. T \in SUBSET Nat /\ T # {}
  <2>1. \A x \in S : n - x \in Nat
    OBVIOUS
  <2>2. T # {}
    BY Zenon
  <2>. QED
    BY <2>1, <2>2, Zenon
<1>2. Min(T) \in T /\ \A y \in T : Min(T) <= y
  BY <1>1, LeastExists
<1>3. PICK x \in S : Min(T) = n - x
  BY <1>2
<1>4. \A y \in S : n - x <= n - y
  BY <1>2, <1>3
<1>5. \A y \in S : x >= y
  BY <1>4
<1>6. \E z \in S : \A y \in S : z >= y
  BY <1>5
<1>7. Max(S) \in S /\ \A y \in S : Max(S) >= y
  BY <1>6 DEF Max
<1>. QED
  BY <1>7

(* What two sequences hold, one after the other. *)
LEMMA ConcatHolds ==
    ASSUME NEW T, NEW s \in Seq(T), NEW t \in Seq(T)
    PROVE  s \o t \in Seq(T) /\ ToSet(s \o t) = ToSet(s) \cup ToSet(t)
<1>1. /\ s \o t \in Seq(T)
      /\ Len(s \o t) = Len(s) + Len(t) /\ Len(s) \in Nat /\ Len(t) \in Nat
      /\ \A i \in 1..Len(s) : (s \o t)[i] = s[i]
      /\ \A i \in 1..Len(t) : (s \o t)[Len(s) + i] = t[i]
  OBVIOUS
<1>2. /\ DOMAIN s = 1..Len(s) /\ DOMAIN t = 1..Len(t)
      /\ DOMAIN (s \o t) = 1..(Len(s) + Len(t))
  BY <1>1
<1>3. ASSUME NEW i \in 1..(Len(s) + Len(t))
      PROVE  (s \o t)[i] \in ToSet(s) \cup ToSet(t)
  <2>1. CASE i <= Len(s)
    BY <1>1, <1>2, <2>1 DEF ToSet
  <2>2. CASE i > Len(s)
    <3>1. i - Len(s) \in 1..Len(t) /\ Len(s) + (i - Len(s)) = i
      BY <1>1, <2>2
    <3>. QED
      BY <1>1, <1>2, <3>1 DEF ToSet
  <2>. QED
    BY <1>1, <2>1, <2>2
<1>4. \A i \in 1..Len(s) : s[i] \in ToSet(s \o t)
  BY <1>1, <1>2 DEF ToSet
<1>5. ASSUME NEW i \in 1..Len(t) PROVE t[i] \in ToSet(s \o t)
  <2>1. Len(s) + i \in 1..(Len(s) + Len(t))
    BY <1>1
  <2>. QED
    BY <1>1, <1>2, <2>1 DEF ToSet
<1>. QED
  BY <1>1, <1>2, <1>3, <1>4, <1>5 DEF ToSet

-----------------------------------------------------------------------------
(* What a search finds is a sequence of libraries of the plugin path. *)
LEMMA FoundAreLibraries == Found \subseteq Seq(Scanned)
<1>1. Cardinality(Scanned) \in Nat
  BY RegistrationAssumption, FS_CardinalityType
<1>2. SetToSeqs(Scanned) \subseteq Seq(Scanned)
  BY <1>1, Z3 DEF SetToSeqs, IsInjective
<1>3. <<>> \in Seq(Scanned)
  OBVIOUS
<1>. QED
  BY <1>2, <1>3, Zenon DEF Found

(* A new place in front of or behind the others moves them, and adds no    *)
(* other system plugin.                                                    *)
LEMMA InitAddsOneSystem ==
    ASSUME plugins \in Seq(Libraries \cup {System}), Systems = {},
           NEW found \in Seq(Scanned),
           plugins' = found \o plugins \o <<System>>
    PROVE  \E p \in Nat : Systems' = {p}
<1>. DEFINE n == Len(found) + Len(plugins) + 1
<1>1. /\ Len(plugins') = n /\ n \in Nat
      /\ \A q \in 1..n :
            plugins'[q] = IF q <= Len(found) THEN found[q]
                          ELSE IF q < n THEN plugins[q - Len(found)]
                          ELSE System
  OBVIOUS
<1>2. \A q \in 1..Len(found) : found[q] # System
  BY RegistrationAssumption DEF Libraries
<1>3. \A q \in 1..n : plugins'[q] = System <=> q = n
  <2>. SUFFICES ASSUME NEW q \in 1..n
                PROVE  plugins'[q] = System <=> q = n
    OBVIOUS
  <2>1. CASE q <= Len(found)
    BY <1>1, <1>2, <2>1
  <2>2. CASE q > Len(found) /\ q < n
    BY <1>1, <2>2 DEF Systems
  <2>3. CASE q = n
    BY <1>1, <2>3
  <2>. QED
    BY <2>1, <2>2, <2>3, <1>1
<1>4. Systems' = {n}
  BY <1>1, <1>3 DEF Systems
<1>. QED
  BY <1>1, <1>4

LEMMA IInvInit == Init => IInv
<1>. SUFFICES ASSUME Init PROVE IInv
  OBVIOUS
<1>1. plugins \in Seq(Libraries \cup {System})
  <2>1. <<>> \in Seq(Libraries \cup {System})
    OBVIOUS
  <2>. QED
    BY <2>1, Zenon DEF Init
<1>2. /\ place \in [Libraries -> Nat \cup {None}]
      /\ pushSources \in Seq(Sources) /\ pullSources \in Seq(Sources)
      /\ buckets \in Seq(Sources)
  BY DEF Init
<1>3. TypeOK
  <2>1. MaxAdds \in Nat /\ MaxInits \in Nat /\ MaxStarts \in Nat
    BY RegistrationAssumption
  <2>2. 0 \in 0..MaxAdds /\ 0 \in 0..MaxInits /\ 0 \in 0..MaxStarts
    BY <2>1
  <2>. QED
    BY <1>1, <1>2, <2>2, Zenon DEF Init, TypeOK
<1>4. OneSystem
  BY DEF Init, OneSystem, Systems
<1>. QED
  BY <1>3, <1>4 DEF Init, IInv, ConfigStays, StartedAreAll

(* The sources one search adds to a list, plugin by plugin. *)
LEMMA SourcesAdded ==
    ASSUME NEW ids \in [Libraries -> SUBSET Nat],
           NEW vector \in Seq(Libraries \cup {System})
    PROVE  /\ SourcesIn(ids, vector) \in Seq(Sources)
           /\ \A e \in ToSet(SourcesIn(ids, vector)) :
                 \E p \in 1..Len(vector) :
                    e.prov = p - 1 /\ e.of = vector[p]
                    /\ (e.ids # {} => HasData(vector[p]))
           /\ \A p \in 1..Len(vector) : HasData(vector[p]) =>
                 [prov |-> p - 1, of |-> vector[p], ids |-> ids[vector[p]]]
                    \in ToSet(SourcesIn(ids, vector))
<1>. DEFINE Entry(p) == [prov |-> p - 1, of |-> vector[p],
                         ids |-> IF HasData(vector[p]) THEN ids[vector[p]] ELSE {}]
            added == SourcesIn(ids, vector)
<1>1. Len(vector) \in Nat /\ \A p \in 1..Len(vector) : vector[p] \in Libraries \cup {System}
  OBVIOUS
<1>2. added = [p \in 1..Len(vector) |-> Entry(p)]
  BY DEF SourcesIn
<1>3. \A p \in 1..Len(vector) : Entry(p) \in Sources
  BY <1>1 DEF Sources, HasData
<1>4. DOMAIN added = 1..Len(vector) /\ \A p \in 1..Len(vector) : added[p] = Entry(p)
  BY <1>2
<1>5. added \in [1..Len(vector) -> Sources]
  BY <1>2, <1>3, Zenon
<1>6. added \in Seq(Sources)
  BY <1>1, <1>5
<1>7. ToSet(added) = {Entry(p) : p \in 1..Len(vector)}
  BY <1>4, Zenon DEF ToSet
<1>. HIDE DEF added
<1>8. \A p \in 1..Len(vector) :
         /\ Entry(p).prov = p - 1 /\ Entry(p).of = vector[p]
         /\ Entry(p).ids # {} => HasData(vector[p])
  BY Zenon
<1>9. \A p \in 1..Len(vector) : HasData(vector[p]) =>
         [prov |-> p - 1, of |-> vector[p], ids |-> ids[vector[p]]] \in ToSet(added)
  BY <1>7, Zenon
<1>. QED
  BY <1>6, <1>7, <1>8, <1>9, ZenonT(40) DEF added

(* Where an init leaves each plugin's place: at the place it is told, the  *)
(* last one if it does not keep the first.                                 *)
LEMMA PlaceTold ==
    ASSUME place \in [Libraries -> Nat \cup {None}],
           NEW vector \in Seq(Libraries \cup {System}), place' = PlacesIn(vector),
           NEW l \in Libraries
    PROVE  /\ place' \in [Libraries -> Nat \cup {None}]
           /\ place'[l] # place[l] =>
                 /\ HasData(l) /\ place'[l] + 1 \in 1..Len(vector)
                 /\ vector[place'[l] + 1] = l
                 /\ l \in KeepsFirst => place[l] = None
           /\ \A p \in 1..Len(vector) : vector[p] = l /\ HasData(l) =>
                 /\ place'[l] # None
                 /\ l \notin KeepsFirst => place'[l] >= p - 1
<1>. DEFINE told(k) == {p \in 1..Len(vector) : vector[p] = k /\ HasData(k)}
<1>1. Len(vector) \in Nat
  OBVIOUS
<1>2. \A k \in Libraries :
        place'[k] = IF told(k) = {} \/ (k \in KeepsFirst /\ place[k] # None) THEN place[k]
                    ELSE IF k \in KeepsFirst THEN Min(told(k)) - 1
                    ELSE Max(told(k)) - 1
  BY Zenon DEF PlacesIn
<1>3. ASSUME NEW k \in Libraries, told(k) # {}
      PROVE  /\ Max(told(k)) \in told(k) /\ \A p \in told(k) : p <= Max(told(k))
             /\ Min(told(k)) \in told(k)
  <2>1. told(k) \in SUBSET (1..Len(vector)) /\ told(k) \in SUBSET Nat
    BY <1>1
  <2>. HIDE DEF told
  <2>. QED
    BY <1>1, <1>3, <2>1, LeastExists, GreatestExists
<1>4. \A k \in Libraries : \A p \in told(k) :
         p \in 1..Len(vector) /\ vector[p] = k /\ HasData(k)
  OBVIOUS
<1>5. \A p \in 1..Len(vector) : vector[p] = l /\ HasData(l) => p \in told(l)
  OBVIOUS
<1>. HIDE DEF told
<1>6. ASSUME NEW k \in Libraries PROVE place'[k] \in Nat \cup {None}
  BY <1>1, <1>2, <1>3, <1>4, <1>6
<1>7. place' \in [Libraries -> Nat \cup {None}]
  <2>1. place' = [k \in Libraries |-> place'[k]]
    BY DEF PlacesIn
  <2>. QED
    BY <1>6, <2>1, Zenon
<1>8. ASSUME place'[l] # place[l]
      PROVE  /\ HasData(l) /\ place'[l] + 1 \in 1..Len(vector)
             /\ vector[place'[l] + 1] = l
             /\ l \in KeepsFirst => place[l] = None
  <2>1. told(l) # {} /\ (l \in KeepsFirst => place[l] = None)
    BY <1>2, <1>8, Zenon
  <2>2. PICK p \in told(l) : place'[l] = p - 1
    BY <1>2, <1>3, <2>1, Zenon
  <2>3. p \in 1..Len(vector) /\ vector[p] = l /\ HasData(l)
    BY <1>4, <2>2
  <2>4. place'[l] + 1 = p
    BY <1>1, <2>2, <2>3
  <2>. QED
    BY <2>1, <2>3, <2>4
<1>9. ASSUME NEW p \in 1..Len(vector), vector[p] = l, HasData(l)
      PROVE  /\ place'[l] # None
             /\ l \notin KeepsFirst => place'[l] >= p - 1
  <2>1. p \in told(l)
    BY <1>5, <1>9
  <2>2. /\ Max(told(l)) \in 1..Len(vector) /\ Min(told(l)) \in 1..Len(vector)
        /\ p <= Max(told(l))
    BY <1>3, <1>4, <2>1
  <2>3. CASE l \in KeepsFirst
    <3>1. CASE place[l] # None
      BY <1>2, <2>1, <2>3, <3>1
    <3>2. CASE place[l] = None
      BY <1>1, <1>2, <2>1, <2>2, <2>3, <3>2 DEF None
    <3>. QED
      BY <3>1, <3>2
  <2>4. CASE l \notin KeepsFirst
    BY <1>1, <1>2, <2>1, <2>2, <2>4 DEF None
  <2>. QED
    BY <2>3, <2>4
<1>. QED
  BY <1>7, <1>8, <1>9

LEMMA TypeStep == TypeOK /\ [Next]_vars => TypeOK'
<1>. SUFFICES ASSUME TypeOK, [Next]_vars PROVE TypeOK'
  OBVIOUS
<1>. USE RegistrationAssumption
<1>1. ASSUME NEW l \in Added, AddPlugin(l) PROVE TypeOK'
  BY <1>1 DEF AddPlugin, TypeOK, Libraries, Config
<1>2. CASE Initialize
  <2>1. PICK found \in Found : plugins' = found \o plugins \o <<System>>
    BY <1>2 DEF Initialize
  <2>2. plugins' \in Seq(Libraries \cup {System})
    <3>1. /\ found \in Seq(Libraries \cup {System})
          /\ plugins \in Seq(Libraries \cup {System})
      BY FoundAreLibraries DEF Libraries, TypeOK
    <3>. QED
      BY <2>1, <3>1
  <2>3. /\ moved' \in BOOLEAN /\ inits' \in 0..MaxInits
        /\ started' \subseteq connectors'
        /\ \A c \in connectors' : c = Config \/ c.of \in Connectors
    BY <1>2 DEF Initialize, TypeOK
  <2>4. place' \in [Libraries -> Nat \cup {None}]
    <3>1. CASE Libraries = {}
      BY <1>2, <3>1 DEF Initialize, PlacesIn
    <3>2. CASE Libraries # {}
      BY <1>2, <2>2, <3>2, PlaceTold, Zenon DEF Initialize, TypeOK
    <3>. QED
      BY <3>1, <3>2
  <2>5. /\ pushSources' \in Seq(Sources) /\ pullSources' \in Seq(Sources)
        /\ buckets' \in Seq(Sources)
    <3>1. /\ SourcesIn(PushIds, plugins') \in Seq(Sources)
          /\ SourcesIn(PullIds, plugins') \in Seq(Sources)
      BY <2>2, SourcesAdded
    <3>. QED
      BY <1>2, <3>1, ConcatHolds DEF Initialize, TypeOK
  <2>. QED
    BY <1>2, <2>2, <2>3, <2>4, <2>5 DEF Initialize, TypeOK, Config
<1>3. ASSUME NEW ok \in BOOLEAN, Start(ok) PROVE TypeOK'
  <2>1. NewReceivers \subseteq (1..MaxStarts) \X Nat
    BY <1>3 DEF Start, TypeOK, NewReceivers
  <2>2. \A c \in NewConnectors : c.of \in Connectors
    BY DEF NewConnectors
  <2>3. starts' \in 0..MaxStarts
    BY <1>3 DEF Start, TypeOK
  <2>. QED
    BY <1>3, <2>1, <2>2, <2>3 DEF Start, TypeOK, Config
<1>4. CASE Stop
  BY <1>4 DEF Stop, TypeOK, Config
<1>5. CASE UNCHANGED vars
  BY <1>5 DEF vars, TypeOK, Config
<1>. QED
  BY <1>1, <1>2, <1>3, <1>4, <1>5 DEF Next

LEMMA SystemStep == IInv /\ [Next]_vars => OneSystem'
<1>. SUFFICES ASSUME IInv, [Next]_vars PROVE OneSystem'
  OBVIOUS
<1>. USE RegistrationAssumption DEF IInv
<1>1. ASSUME NEW l \in Added, AddPlugin(l) PROVE OneSystem'
  <2>1. /\ plugins' = Append(plugins, l) /\ inits' = inits
        /\ plugins \in Seq(Libraries \cup {System}) /\ l # System
    BY <1>1 DEF AddPlugin, TypeOK, Libraries
  <2>2. Systems' = Systems
    BY <2>1 DEF Systems
  <2>. QED
    BY <2>1, <2>2 DEF OneSystem
<1>2. CASE Initialize
  <2>1. PICK found \in Found : plugins' = found \o plugins \o <<System>>
    BY <1>2 DEF Initialize
  <2>2. inits' = inits + 1 /\ inits \in Nat
    BY <1>2 DEF Initialize, TypeOK
  <2>3. CASE inits = 0
    <3>1. \E p \in Nat : Systems' = {p}
      BY <2>1, <2>3, FoundAreLibraries, InitAddsOneSystem DEF OneSystem, TypeOK
    <3>. QED
      BY <2>2, <2>3, <3>1 DEF OneSystem
  <2>4. CASE inits # 0
    BY <2>2, <2>4 DEF OneSystem
  <2>. QED
    BY <2>3, <2>4
<1>3. ASSUME NEW ok \in BOOLEAN, Start(ok) PROVE OneSystem'
  BY <1>3 DEF Start, OneSystem, Systems
<1>4. CASE Stop
  BY <1>4 DEF Stop, OneSystem, Systems
<1>5. CASE UNCHANGED vars
  BY <1>5 DEF vars, OneSystem, Systems
<1>. QED
  BY <1>1, <1>2, <1>3, <1>4, <1>5 DEF Next

LEMMA ConfigStep == IInv /\ [Next]_vars => ConfigStays'
<1>. SUFFICES ASSUME IInv, [Next]_vars PROVE ConfigStays'
  OBVIOUS
<1>. USE DEF IInv, ConfigStays, Config
<1>1. ASSUME NEW l \in Added, AddPlugin(l) PROVE ConfigStays'
  BY <1>1 DEF AddPlugin
<1>2. CASE Initialize
  BY <1>2 DEF Initialize, TypeOK
<1>3. ASSUME NEW ok \in BOOLEAN, Start(ok) PROVE ConfigStays'
  BY <1>3 DEF Start
<1>4. CASE Stop
  BY <1>4 DEF Stop
<1>5. CASE UNCHANGED vars
  BY <1>5 DEF vars
<1>. QED
  BY <1>1, <1>2, <1>3, <1>4, <1>5 DEF Next

LEMMA StartedStep == IInv /\ [Next]_vars => StartedAreAll'
<1>. SUFFICES ASSUME IInv, [Next]_vars PROVE StartedAreAll'
  OBVIOUS
<1>. USE DEF IInv, StartedAreAll
<1>1. ASSUME NEW l \in Added, AddPlugin(l) PROVE StartedAreAll'
  BY <1>1 DEF AddPlugin
<1>2. CASE Initialize
  <2>1. /\ UNCHANGED <<receivers, started, managing, running, failed>>
        /\ connectors' = connectors \cup {Config}
        /\ inits' = inits + 1 /\ inits \in Nat
    BY <1>2 DEF Initialize, TypeOK
  <2>2. running => connectors' = connectors /\ inits' # 1
    BY <2>1 DEF ConfigStays
  <2>. QED
    BY <2>1, <2>2
<1>3. ASSUME NEW ok \in BOOLEAN, Start(ok) PROVE StartedAreAll'
  <2>1. CASE failed \/ ~ok
    BY <1>3, <2>1 DEF Start
  <2>2. CASE ~failed /\ ok
    <3>1. receivers' = NewReceivers /\ started' = connectors' /\ running' = TRUE
      BY <1>3, <2>2 DEF Start
    <3>2. inits = 1 => \E r : NewReceivers = {r}
      <4>. HAVE inits = 1
      <4>1. PICK p \in Nat : Systems = {p}
        BY DEF OneSystem
      <4>2. NewReceivers = {<<starts + 1, p>>}
        BY <4>1 DEF NewReceivers, Systems
      <4>. QED
        BY <4>2
    <3>. QED
      BY <1>3, <3>1, <3>2 DEF Start
  <2>. QED
    BY <2>1, <2>2
<1>4. CASE Stop
  BY <1>4 DEF Stop
<1>5. CASE UNCHANGED vars
  BY <1>5 DEF vars
<1>. QED
  BY <1>1, <1>2, <1>3, <1>4, <1>5 DEF Next

LEMMA IInvStep == IInv /\ [Next]_vars => IInv'
  BY TypeStep, SystemStep, ConfigStep, StartedStep DEF IInv

LEMMA Invariance == Spec => []IInv
  BY IInvInit, IInvStep, PTL DEF Spec

-----------------------------------------------------------------------------
(* The vector holds libraries and system plugins, what is started is held  *)
(* by the manager, and the counts keep their bounds.                       *)
THEOREM TypeCorrect == Spec => []TypeOK
<1>1. IInv => TypeOK
  BY DEF IInv
<1>. QED
  BY <1>1, Invariance, PTL

(* While the agent runs, every connector is started and, if it was         *)
(* initialised once, one receiver answers: no restart leaves one behind    *)
(* (Agent::stop removes all, Agent::start adds those of the vector).       *)
THEOREM AgentIsReady == Spec => []ReadyToServe
<1>1. ASSUME IInv PROVE ReadyToServe
  <2>. SUFFICES ASSUME running, ~failed
                PROVE  /\ started = connectors
                       /\ inits = 1 => Cardinality(receivers) = 1
    BY DEF ReadyToServe
  <2>1. \A r : Cardinality({r}) = 1
    BY FS_Singleton
  <2>. QED
    BY <1>1, <2>1 DEF IInv, StartedAreAll
<1>. QED
  BY <1>1, Invariance, PTL

-----------------------------------------------------------------------------
(***************************************************************************)
(* Whose bucket the data of a source go to.  findBucket takes the first    *)
(* bucket that matches, and init adds behind those there are, so that a    *)
(* bucket found stays found: all depends on the first place of which a     *)
(* plugin is told anew.  It is one that no source had before.              *)
(***************************************************************************)

(* What is in the lists of sources and buckets. *)
Entries == ToSet(pushSources) \cup ToSet(pullSources) \cup ToSet(buckets)

EntriesBelow(w) == \A e \in Entries : e.ids # {} => e.prov < w

(* The first n places are those of the last init: plugins behind were added *)
(* since and have told nothing, and a library that keeps the last place it *)
(* was told has its last among them.                                       *)
Known(n) ==
    /\ \A p \in (n + 1)..Len(plugins) : plugins[p] \in Added
    /\ EntriesBelow(n)
    /\ \A l \in Libraries : HasData(l) =>
          /\ place[l] = None => \A p \in 1..n : plugins[p] # l
          /\ place[l] # None /\ l \notin KeepsFirst =>
                /\ place[l] + 1 \in 1..n /\ plugins[place[l] + 1] = l
                /\ \A p \in 1..n : plugins[p] = l => p <= place[l] + 1

(* While no added library has a place, the sources are those of libraries  *)
(* found, in the first w places, where those found first come last.        *)
InFront(w, n) ==
    /\ EntriesBelow(w)
    /\ \A p \in (w + 1)..n : ~HasData(plugins[p])
    /\ w # 0 => \A l \in Scanned : HasData(l) =>
          /\ place[l] # None
          /\ l \notin KeepsFirst => place[l] + Cardinality(Scanned) >= w

PlacesInv ==
    ~moved => \E n \in 0..Len(plugins) :
        /\ Known(n)
        /\ (\A l \in Added : place[l] = None) => \E w \in 0..n : InFront(w, n)

Matches(e, prov, id) == e.prov = prov /\ id \in e.ids

(* The first entry of the list that matches is l's. *)
Owns(list, prov, id, l) ==
    \E b \in 1..Len(list) :
        /\ Matches(list[b], prov, id) /\ list[b].of = l
        /\ \A j \in 1..(b - 1) : ~Matches(list[j], prov, id)

Owned ==
    ~moved => \A l \in Libraries : place[l] # None =>
        \A id \in Ids(l) : Owns(buckets, place[l], id, l)

BucketsInv == TypeOK /\ PlacesInv /\ Owned

(* A bucket found stays the first. *)
LEMMA OwnsStays ==
    ASSUME NEW s \in Seq(Sources), NEW t \in Seq(Sources),
           NEW prov, NEW id, NEW l, Owns(s, prov, id, l)
    PROVE  Owns(s \o t, prov, id, l)
<1>1. PICK b \in 1..Len(s) :
        /\ Matches(s[b], prov, id) /\ s[b].of = l
        /\ \A j \in 1..(b - 1) : ~Matches(s[j], prov, id)
  BY DEF Owns
<1>2. /\ \A i \in 1..Len(s) : (s \o t)[i] = s[i]
      /\ b \in 1..Len(s \o t) /\ \A j \in 1..(b - 1) : j \in 1..Len(s)
  OBVIOUS
<1>3. Matches((s \o t)[b], prov, id) /\ (s \o t)[b].of = l
  BY <1>1, <1>2
<1>4. \A j \in 1..(b - 1) : ~Matches((s \o t)[j], prov, id)
  BY <1>1, <1>2
<1>. QED
  BY <1>2, <1>3, <1>4, Zenon DEF Owns

(* Where all that match are l's, the first is. *)
LEMMA OwnsAll ==
    ASSUME NEW s \in Seq(Sources), NEW prov, NEW id, NEW l,
           \E e \in ToSet(s) : Matches(e, prov, id),
           \A e \in ToSet(s) : Matches(e, prov, id) => e.of = l
    PROVE  Owns(s, prov, id, l)
<1>. DEFINE S == {i \in 1..Len(s) : Matches(s[i], prov, id)}
<1>1. Len(s) \in Nat /\ DOMAIN s = 1..Len(s)
  OBVIOUS
<1>2. S \in SUBSET Nat /\ S # {}
  <2>1. S # {}
    BY <1>1, Zenon DEF ToSet
  <2>. QED
    BY <1>1, <2>1
<1>3. Min(S) \in S /\ \A i \in S : Min(S) <= i
  BY <1>2, LeastExists
<1>4. Min(S) \in 1..Len(s) /\ Matches(s[Min(S)], prov, id)
  BY <1>3
<1>5. s[Min(S)].of = l
  BY <1>1, <1>4, Zenon DEF ToSet
<1>6. \A j \in 1..(Min(S) - 1) : j \in 1..Len(s) /\ j \notin S
  BY <1>1, <1>3, <1>4
<1>7. \A j \in 1..(Min(S) - 1) : ~Matches(s[j], prov, id)
  BY <1>6
<1>. QED
  BY <1>4, <1>5, <1>7, Zenon DEF Owns

(* A search that finds anything finds each library of the plugin path. *)
LEMMA FindsAll ==
    ASSUME NEW found \in Found, found # <<>>
    PROVE  /\ Len(found) = Cardinality(Scanned)
           /\ \A l \in Scanned : \E p \in 1..Len(found) : found[p] = l
<1>. DEFINE D == 1..Cardinality(Scanned)
<1>1. IsFiniteSet(Scanned) /\ Cardinality(Scanned) \in Nat
  BY RegistrationAssumption, FS_CardinalityType
<1>2. found \in [D -> Scanned] /\ \A i, j \in D : i # j => found[i] # found[j]
  BY Zenon DEF Found, SetToSeqs
<1>3. found \in Injection(D, Scanned)
  <2>1. IsInjective(found)
    BY <1>2, Zenon DEF IsInjective
  <2>. QED
    BY <1>2, <2>1, Zenon DEF Injection
<1>4. Cardinality(D) = Cardinality(Scanned)
  BY <1>1, FS_Interval
<1>5. found \in Surjection(D, Scanned)
  BY <1>1, <1>3, <1>4, FS_Injection
<1>6. Len(found) = Cardinality(Scanned)
  <2>1. found \in Seq(Scanned) /\ DOMAIN found = D
    BY <1>2, FoundAreLibraries
  <2>2. DOMAIN found = 1..Len(found) /\ Len(found) \in Nat
    BY <2>1
  <2>. QED
    BY <1>1, <2>1, <2>2
<1>. QED
  BY <1>5, <1>6, Zenon DEF Surjection

(* What init does to the vector, the places and the lists. *)
Searched(found) ==
    /\ found \in Found
    /\ plugins' = found \o plugins \o <<System>>
    /\ moved' = (moved \/ (found # <<>> /\ \E l \in Added : place[l] # None))
    /\ place' = PlacesIn(plugins')
    /\ pushSources' = pushSources \o SourcesIn(PushIds, plugins')
    /\ pullSources' = pullSources \o SourcesIn(PullIds, plugins')
    /\ buckets' = buckets \o pushSources' \o pullSources'

LEMMA VectorAfter ==
    ASSUME TypeOK, NEW found, Searched(found)
    PROVE  /\ Len(found) \in Nat /\ Len(plugins) \in Nat
           /\ plugins' \in Seq(Libraries \cup {System})
           /\ Len(plugins') = Len(found) + Len(plugins) + 1
           /\ \A p \in 1..Len(found) : plugins'[p] = found[p] /\ found[p] \in Scanned
           /\ \A p \in 1..Len(plugins) : plugins'[Len(found) + p] = plugins[p]
           /\ \A p \in 1..Len(plugins') : HasData(plugins'[p]) =>
                 \/ p <= Len(found)
                 \/ p - Len(found) \in 1..Len(plugins)
                    /\ plugins'[p] = plugins[p - Len(found)]
<1>1. /\ found \in Seq(Scanned) /\ plugins \in Seq(Libraries \cup {System})
      /\ plugins' = found \o plugins \o <<System>>
  BY FoundAreLibraries DEF Searched, TypeOK
<1>2. found \in Seq(Libraries \cup {System})
  BY <1>1 DEF Libraries
<1>3. /\ Len(found) \in Nat /\ Len(plugins) \in Nat
      /\ plugins' \in Seq(Libraries \cup {System})
      /\ Len(plugins') = Len(found) + Len(plugins) + 1
      /\ \A p \in 1..Len(found) : plugins'[p] = found[p] /\ found[p] \in Scanned
      /\ \A p \in 1..Len(plugins) : plugins'[Len(found) + p] = plugins[p]
      /\ plugins'[Len(found) + Len(plugins) + 1] = System
  BY <1>1, <1>2
<1>4. ASSUME NEW p \in 1..Len(plugins'), HasData(plugins'[p]), p > Len(found)
      PROVE  p - Len(found) \in 1..Len(plugins) /\ plugins'[p] = plugins[p - Len(found)]
  <2>1. p # Len(found) + Len(plugins) + 1
    BY <1>3, <1>4, RegistrationAssumption DEF HasData
  <2>2. /\ p - Len(found) \in 1..Len(plugins)
        /\ Len(found) + (p - Len(found)) = p
    BY <1>3, <1>4, <2>1
  <2>. QED
    BY <1>3, <2>2
<1>5. \A p \in 1..Len(plugins') : p <= Len(found) \/ p > Len(found)
  BY <1>3
<1>. QED
  BY <1>3, <1>4, <1>5

LEMMA SourcesConcat ==
    \A s, t \in Seq(Sources) :
        s \o t \in Seq(Sources) /\ ToSet(s \o t) = ToSet(s) \cup ToSet(t)
  BY ConcatHolds, Zenon

(* Each entry with sources is an old one, or of a plugin in the vector. *)
LEMMA EntriesAfter ==
    ASSUME TypeOK, NEW found, Searched(found), NEW e \in Entries', e.ids # {}
    PROVE  \/ e \in Entries
           \/ \E p \in 1..Len(plugins') :
                 e.prov = p - 1 /\ e.of = plugins'[p] /\ HasData(plugins'[p])
<1>. DEFINE push == SourcesIn(PushIds, plugins')
            pull == SourcesIn(PullIds, plugins')
<1>1. plugins' \in Seq(Libraries \cup {System})
  BY VectorAfter
<1>2. PushIds \in [Libraries -> SUBSET Nat] /\ PullIds \in [Libraries -> SUBSET Nat]
  BY RegistrationAssumption
<1>3. /\ push \in Seq(Sources) /\ pull \in Seq(Sources)
      /\ \A d \in ToSet(push) \cup ToSet(pull) :
            \E p \in 1..Len(plugins') :
               d.prov = p - 1 /\ d.of = plugins'[p] /\ (d.ids # {} => HasData(plugins'[p]))
  BY <1>1, <1>2, SourcesAdded
<1>. HIDE DEF push, pull
<1>4. /\ pushSources \in Seq(Sources) /\ pullSources \in Seq(Sources)
      /\ buckets \in Seq(Sources)
      /\ pushSources' = pushSources \o push /\ pullSources' = pullSources \o pull
      /\ buckets' = (buckets \o pushSources') \o pullSources'
  BY DEF TypeOK, Searched, push, pull
<1>5. /\ pushSources' \in Seq(Sources) /\ ToSet(pushSources') = ToSet(pushSources) \cup ToSet(push)
      /\ pullSources' \in Seq(Sources) /\ ToSet(pullSources') = ToSet(pullSources) \cup ToSet(pull)
  BY <1>3, <1>4, SourcesConcat, Zenon
<1>6. ToSet(buckets') = ToSet(buckets) \cup ToSet(pushSources') \cup ToSet(pullSources')
  <2>1. /\ buckets \o pushSources' \in Seq(Sources)
        /\ ToSet(buckets \o pushSources') = ToSet(buckets) \cup ToSet(pushSources')
    BY <1>4, <1>5, SourcesConcat, Zenon
  <2>2. ToSet((buckets \o pushSources') \o pullSources')
           = ToSet(buckets \o pushSources') \cup ToSet(pullSources')
    BY <1>5, <2>1, SourcesConcat, Zenon
  <2>. QED
    BY <1>4, <2>1, <2>2
<1>7. Entries' = ToSet(pushSources') \cup ToSet(pullSources') \cup ToSet(buckets')
  BY DEF Entries
<1>8. e \in Entries \cup ToSet(push) \cup ToSet(pull)
  BY <1>5, <1>6, <1>7, Zenon DEF Entries
<1>. QED
  BY <1>3, <1>8, Zenon

(* The buckets made are behind those there are, and each plugin that has   *)
(* data has one for each of its sources.                                   *)
LEMMA BucketsAfter ==
    ASSUME TypeOK, NEW found, Searched(found)
    PROVE  /\ \E t \in Seq(Sources) : buckets' = buckets \o t
           /\ buckets' \in Seq(Sources)
           /\ \A p \in 1..Len(plugins') : HasData(plugins'[p]) =>
                 \A id \in Ids(plugins'[p]) :
                    \E e \in ToSet(buckets') : Matches(e, p - 1, id)
<1>. DEFINE push == SourcesIn(PushIds, plugins')
            pull == SourcesIn(PullIds, plugins')
<1>1. plugins' \in Seq(Libraries \cup {System})
  BY VectorAfter
<1>2. PushIds \in [Libraries -> SUBSET Nat] /\ PullIds \in [Libraries -> SUBSET Nat]
  BY RegistrationAssumption
<1>3. /\ push \in Seq(Sources) /\ pull \in Seq(Sources)
      /\ \A p \in 1..Len(plugins') : HasData(plugins'[p]) =>
            /\ [prov |-> p - 1, of |-> plugins'[p], ids |-> PushIds[plugins'[p]]] \in ToSet(push)
            /\ [prov |-> p - 1, of |-> plugins'[p], ids |-> PullIds[plugins'[p]]] \in ToSet(pull)
  BY <1>1, <1>2, SourcesAdded
<1>. HIDE DEF push, pull
<1>4. /\ pushSources \in Seq(Sources) /\ pullSources \in Seq(Sources)
      /\ buckets \in Seq(Sources)
      /\ pushSources' = pushSources \o push /\ pullSources' = pullSources \o pull
      /\ buckets' = (buckets \o pushSources') \o pullSources'
  BY DEF TypeOK, Searched, push, pull
<1>5. /\ pushSources' \in Seq(Sources) /\ ToSet(push) \subseteq ToSet(pushSources')
      /\ pullSources' \in Seq(Sources) /\ ToSet(pull) \subseteq ToSet(pullSources')
  BY <1>3, <1>4, SourcesConcat, Zenon
<1>6. PICK t \in Seq(Sources) :
         /\ t = pushSources' \o pullSources'
         /\ ToSet(t) = ToSet(pushSources') \cup ToSet(pullSources')
  BY <1>5, SourcesConcat, Zenon
<1>7. buckets' = buckets \o t
  BY <1>4, <1>5, <1>6, SMTT(30)
<1>8. buckets' \in Seq(Sources) /\ ToSet(buckets') = ToSet(buckets) \cup ToSet(t)
  <2>1. buckets \o t \in Seq(Sources) /\ ToSet(buckets \o t) = ToSet(buckets) \cup ToSet(t)
    BY SourcesConcat, Zenon DEF TypeOK
  <2>. QED
    BY <1>7, <2>1, Zenon
<1>9. ASSUME NEW p \in 1..Len(plugins'), HasData(plugins'[p]), NEW id \in Ids(plugins'[p])
      PROVE  \E e \in ToSet(buckets') : Matches(e, p - 1, id)
  <2>1. ToSet(push) \cup ToSet(pull) \subseteq ToSet(buckets')
    BY <1>5, <1>6, <1>8, Zenon
  <2>2. id \in PushIds[plugins'[p]] \/ id \in PullIds[plugins'[p]]
    BY <1>9 DEF Ids
  <2>3. CASE id \in PushIds[plugins'[p]]
    BY <1>3, <1>9, <2>1, <2>3 DEF Matches
  <2>4. CASE id \in PullIds[plugins'[p]]
    BY <1>3, <1>9, <2>1, <2>4 DEF Matches
  <2>. QED
    BY <2>2, <2>3, <2>4
<1>. QED
  BY <1>6, <1>7, <1>8, <1>9, Zenon

(* A place told anew is one that no source has had. *)
LEMMA FreshPlace ==
    ASSUME TypeOK, PlacesInv, NEW found, Searched(found), ~moved',
           NEW l \in Libraries, place'[l] # place[l],
           NEW e \in Entries, e.ids # {}
    PROVE  e.prov # place'[l]
<1>. DEFINE m == Len(found)
            N == Len(plugins)
<1>1. /\ m \in Nat /\ N \in Nat /\ Len(plugins') = m + N + 1
      /\ \A p \in 1..m : plugins'[p] = found[p] /\ found[p] \in Scanned
      /\ \A p \in 1..N : plugins'[m + p] = plugins[p]
      /\ \A p \in 1..Len(plugins') : HasData(plugins'[p]) =>
            p <= m \/ (p - m \in 1..N /\ plugins'[p] = plugins[p - m])
  BY VectorAfter
<1>2. /\ place' \in [Libraries -> Nat \cup {None}]
      /\ HasData(l) /\ place'[l] + 1 \in 1..Len(plugins')
      /\ plugins'[place'[l] + 1] = l
      /\ l \in KeepsFirst => place[l] = None
      /\ \A p \in 1..Len(plugins') : plugins'[p] = l /\ l \notin KeepsFirst =>
            place'[l] >= p - 1
  <2>1. place \in [Libraries -> Nat \cup {None}] /\ place' = PlacesIn(plugins')
    BY DEF TypeOK, Searched
  <2>2. plugins' \in Seq(Libraries \cup {System})
    BY VectorAfter
  <2>. QED
    BY <2>1, <2>2, PlaceTold, SMTT(30)
<1>3. place'[l] \in Nat /\ place[l] \in Nat \cup {None}
  BY <1>1, <1>2 DEF TypeOK, None
<1>4. PICK n \in 0..N :
         /\ Known(n)
         /\ (\A k \in Added : place[k] = None) => \E w \in 0..n : InFront(w, n)
  BY DEF PlacesInv, Searched
<1>5. e.prov < n /\ e.prov \in Nat
  <2>1. e.prov < n
    BY <1>4 DEF Known, EntriesBelow
  <2>2. e \in Sources
    BY DEF Entries, ToSet, TypeOK
  <2>. QED
    BY <2>1, <2>2 DEF Sources
<1>. HIDE DEF m, N
(* Its place in the old vector, if it is not among those found: one that   *)
(* it was told before, or one behind them all.                             *)
<1>6. ASSUME NEW q \in 1..N, plugins[q] = l, place'[l] + 1 = m + q, place[l] = None
      PROVE  e.prov < place'[l]
  <2>1. q > n
    BY <1>2, <1>4, <1>6 DEF Known
  <2>. QED
    BY <1>1, <1>3, <1>5, <1>6, <2>1
<1>7. CASE found = <<>>
  <2>1. m = 0
    BY <1>7 DEF m
  <2>2. /\ place'[l] + 1 \in 1..N /\ plugins[place'[l] + 1] = l
    BY <1>1, <1>2, <2>1
  <2>3. CASE place[l] = None
    BY <1>3, <1>5, <1>6, <2>1, <2>2, <2>3
  <2>4. CASE place[l] # None
    <3>1. l \notin KeepsFirst
      BY <1>2, <2>4
    <3>2. /\ place[l] + 1 \in 1..n /\ plugins[place[l] + 1] = l
          /\ \A p \in 1..n : plugins[p] = l => p <= place[l] + 1
      BY <1>2, <1>4, <2>4, <3>1 DEF Known
    <3>3. plugins'[place[l] + 1] = l /\ place[l] + 1 \in 1..Len(plugins')
      BY <1>1, <1>3, <2>1, <3>2
    <3>4. place'[l] >= place[l]
      BY <1>2, <1>3, <2>4, <3>1, <3>3
    <3>5. place'[l] + 1 > n
      BY <1>3, <2>2, <2>4, <3>2, <3>4
    <3>. QED
      BY <1>3, <1>5, <3>5
  <2>. QED
    BY <2>3, <2>4
<1>8. CASE found # <<>>
  <2>1. \A k \in Added : place[k] = None
    BY <1>8 DEF Searched
  <2>2. PICK w \in 0..n : InFront(w, n)
    BY <1>4, <2>1
  <2>3. e.prov < w /\ m = Cardinality(Scanned)
    BY <1>8, <2>2, FindsAll DEF InFront, EntriesBelow, Searched, m
  <2>4. CASE l \in Added
    <3>1. place'[l] + 1 > m
      BY <1>1, <1>2, <2>4, RegistrationAssumption
    <3>2. /\ place'[l] + 1 - m \in 1..N /\ plugins[place'[l] + 1 - m] = l
          /\ place'[l] + 1 = m + (place'[l] + 1 - m)
      BY <1>1, <1>2, <1>3, <3>1
    <3>. QED
      BY <1>3, <1>6, <2>1, <2>4, <3>2, <1>5
  <2>5. CASE l \in Scanned
    <3>1. CASE w = 0
      BY <1>3, <2>3, <3>1
    <3>2. CASE w # 0
      <4>1. place[l] # None /\ l \notin KeepsFirst /\ place[l] + m >= w
        BY <1>2, <2>2, <2>3, <2>5, <3>2 DEF InFront
      <4>2. place[l] + 1 \in 1..n /\ plugins[place[l] + 1] = l
        BY <1>2, <1>4, <4>1 DEF Known
      <4>3. plugins'[m + (place[l] + 1)] = l /\ m + (place[l] + 1) \in 1..Len(plugins')
        <5>1. place[l] + 1 \in 1..N
          BY <1>1, <4>2
        <5>. QED
          BY <1>1, <4>2, <5>1, SMTT(30)
      <4>4. place'[l] >= m + place[l]
        BY <1>1, <1>2, <1>3, <4>1, <4>3
      <4>. QED
        BY <1>1, <1>3, <2>3, <4>1, <4>4
    <3>. QED
      BY <3>1, <3>2
  <2>. QED
    BY <2>4, <2>5 DEF Libraries
<1>. QED
  BY <1>7, <1>8

LEMMA OwnedAfter ==
    ASSUME BucketsInv, NEW found, Searched(found)
    PROVE  Owned'
<1>. SUFFICES ASSUME ~moved', NEW l \in Libraries, place'[l] # None, NEW id \in Ids(l)
              PROVE  Owns(buckets', place'[l], id, l)
  BY DEF Owned
<1>1. /\ \E t \in Seq(Sources) : buckets' = buckets \o t
      /\ buckets \in Seq(Sources) /\ buckets' \in Seq(Sources)
  BY BucketsAfter DEF BucketsInv, TypeOK
<1>2. CASE place'[l] = place[l]
  <2>1. Owns(buckets, place'[l], id, l)
    <3>1. Owned /\ ~moved
      BY DEF BucketsInv, Searched
    <3>2. Owns(buckets, place[l], id, l)
      BY <1>2, <3>1 DEF Owned
    <3>. QED
      BY <1>2, <3>2
  <2>. QED
    BY <1>1, <2>1, OwnsStays
<1>3. CASE place'[l] # place[l]
  <2>1. /\ place'[l] \in Nat \cup {None} /\ HasData(l)
        /\ place'[l] + 1 \in 1..Len(plugins') /\ plugins'[place'[l] + 1] = l
    <3>1. place \in [Libraries -> Nat \cup {None}] /\ place' = PlacesIn(plugins')
      BY DEF BucketsInv, TypeOK, Searched
    <3>2. plugins' \in Seq(Libraries \cup {System})
      BY VectorAfter DEF BucketsInv
    <3>. QED
      BY <1>3, <3>1, <3>2, PlaceTold, SMTT(30)
  <2>2. place'[l] \in Nat /\ (place'[l] + 1) - 1 = place'[l]
    BY <2>1
  <2>3. \E e \in ToSet(buckets') : Matches(e, place'[l], id)
    BY <2>1, <2>2, BucketsAfter DEF BucketsInv
  <2>4. ASSUME NEW e \in ToSet(buckets'), Matches(e, place'[l], id)
        PROVE  e.of = l
    <3>1. e \in Entries' /\ e.ids # {} /\ e.prov = place'[l]
      BY <2>4 DEF Entries, Matches
    <3>2. e \notin Entries
      BY <1>3, <3>1, FreshPlace DEF BucketsInv
    <3>3. PICK p \in 1..Len(plugins') : e.prov = p - 1 /\ e.of = plugins'[p]
      BY <3>1, <3>2, EntriesAfter DEF BucketsInv
    <3>4. p = place'[l] + 1
      BY <2>2, <3>1, <3>3, VectorAfter DEF BucketsInv
    <3>. QED
      BY <2>1, <3>3, <3>4
  <2>. QED
    BY <1>1, <2>3, <2>4, OwnsAll
<1>. QED
  BY <1>2, <1>3

(* After an init its places are all known. *)
LEMMA KnownAfter ==
    ASSUME TypeOK, PlacesInv, NEW found, Searched(found), ~moved',
           NEW k, k = Len(plugins')
    PROVE  Known(k)'
<1>. DEFINE m == Len(found)
            N == Len(plugins)
<1>1. /\ m \in Nat /\ N \in Nat /\ Len(plugins') = m + N + 1
      /\ \A p \in 1..N : plugins'[m + p] = plugins[p]
  BY VectorAfter
<1>2. PICK n \in 0..N : Known(n)
  BY DEF PlacesInv, Searched
<1>. HIDE DEF m, N
<1>3. EntriesBelow(k)'
  <2>. SUFFICES ASSUME NEW e \in Entries', e.ids # {}
                PROVE  e.prov < k
    BY DEF EntriesBelow
  <2>1. CASE e \in Entries
    <3>1. e.prov < n
      BY <1>2, <2>1 DEF Known, EntriesBelow
    <3>2. e.prov \in Nat
      <4>1. e \in Sources
        BY <2>1 DEF Entries, ToSet, TypeOK
      <4>. QED
        BY <4>1 DEF Sources
    <3>. QED
      BY <1>1, <3>1, <3>2
  <2>2. CASE \E p \in 1..Len(plugins') : e.prov = p - 1
    BY <1>1, <2>2
  <2>. QED
    BY <2>1, <2>2, EntriesAfter
<1>4. ASSUME NEW l \in Libraries, HasData(l)
      PROVE  /\ place'[l] = None => \A p \in 1..Len(plugins') : plugins'[p] # l
             /\ place'[l] # None /\ l \notin KeepsFirst =>
                   /\ place'[l] + 1 \in 1..Len(plugins') /\ plugins'[place'[l] + 1] = l
                   /\ \A p \in 1..Len(plugins') : plugins'[p] = l => p <= place'[l] + 1
  <2>1. /\ place'[l] \in Nat \cup {None} /\ place[l] \in Nat \cup {None}
        /\ place'[l] # place[l] =>
              place'[l] + 1 \in 1..Len(plugins') /\ plugins'[place'[l] + 1] = l
        /\ \A p \in 1..Len(plugins') : plugins'[p] = l =>
              /\ place'[l] # None
              /\ l \notin KeepsFirst => place'[l] >= p - 1
    <3>1. place \in [Libraries -> Nat \cup {None}] /\ place' = PlacesIn(plugins')
      BY DEF TypeOK, Searched
    <3>2. plugins' \in Seq(Libraries \cup {System})
      BY VectorAfter
    <3>. QED
      BY <1>4, <3>1, <3>2, PlaceTold, SMTT(30)
  <2>2. ASSUME place'[l] # None, l \notin KeepsFirst
        PROVE  place'[l] + 1 \in 1..Len(plugins') /\ plugins'[place'[l] + 1] = l
    <3>1. CASE place'[l] # place[l]
      BY <2>1, <3>1
    <3>2. CASE place'[l] = place[l]
      <4>1. place[l] + 1 \in 1..n /\ plugins[place[l] + 1] = l
        BY <1>2, <1>4, <2>2, <3>2 DEF Known
      <4>2. PICK q \in 1..Len(plugins') : q = m + (place[l] + 1) /\ plugins'[q] = l
        BY <1>1, <4>1
      <4>3. place'[l] >= q - 1
        BY <2>1, <2>2, <4>2
      <4>4. m = 0
        BY <1>1, <2>1, <2>2, <3>2, <4>2, <4>3 DEF None
      <4>. QED
        BY <1>1, <3>2, <4>2, <4>4, <2>1, <2>2
    <3>. QED
      BY <3>1, <3>2
  <2>3. ASSUME place'[l] # None, l \notin KeepsFirst,
               NEW p \in 1..Len(plugins'), plugins'[p] = l
        PROVE  p <= place'[l] + 1
    BY <1>1, <2>1, <2>3
  <2>. QED
    BY <2>1, <2>2, <2>3
<1>5. \A p \in (Len(plugins') + 1)..Len(plugins') : plugins'[p] \in Added
  BY <1>1
<1>. QED
  BY <1>1, <1>3, <1>4, <1>5 DEF Known

(* While no added library has a place, the libraries found are in front. *)
LEMMA FrontAfter ==
    ASSUME TypeOK, PlacesInv, NEW found, Searched(found), ~moved',
           \A l \in Added : place'[l] = None,
           NEW k, k = Len(plugins')
    PROVE  \E w \in 0..k : InFront(w, k)'
<1>. DEFINE m == Len(found)
            N == Len(plugins)
<1>1. /\ m \in Nat /\ N \in Nat /\ Len(plugins') = m + N + 1
      /\ \A p \in 1..m : plugins'[p] = found[p]
      /\ \A p \in 1..N : plugins'[m + p] = plugins[p]
      /\ \A p \in 1..Len(plugins') : HasData(plugins'[p]) =>
            p <= m \/ (p - m \in 1..N /\ plugins'[p] = plugins[p - m])
  BY VectorAfter
<1>2. \A l \in Libraries :
         /\ place'[l] \in Nat \cup {None} /\ place[l] \in Nat \cup {None}
         /\ l \in Added => place[l] = None
         /\ HasData(l) => \A p \in 1..Len(plugins') : plugins'[p] = l =>
               /\ place'[l] # None
               /\ l \notin KeepsFirst => place'[l] >= p - 1
         /\ place[l] # None => place'[l] # None
  <2>. SUFFICES ASSUME NEW l \in Libraries
                PROVE  /\ place'[l] \in Nat \cup {None} /\ place[l] \in Nat \cup {None}
                       /\ l \in Added => place[l] = None
                       /\ HasData(l) => \A p \in 1..Len(plugins') : plugins'[p] = l =>
                             /\ place'[l] # None
                             /\ l \notin KeepsFirst => place'[l] >= p - 1
                       /\ place[l] # None => place'[l] # None
    OBVIOUS
  <2>1. /\ place'[l] \in Nat \cup {None} /\ place[l] \in Nat \cup {None}
        /\ place'[l] # place[l] =>
              HasData(l) /\ place'[l] + 1 \in 1..Len(plugins') /\ plugins'[place'[l] + 1] = l
        /\ \A p \in 1..Len(plugins') : plugins'[p] = l /\ HasData(l) =>
              /\ place'[l] # None
              /\ l \notin KeepsFirst => place'[l] >= p - 1
    <3>1. place \in [Libraries -> Nat \cup {None}] /\ place' = PlacesIn(plugins')
      BY DEF TypeOK, Searched
    <3>2. plugins' \in Seq(Libraries \cup {System})
      BY VectorAfter
    <3>. QED
      BY <3>1, <3>2, PlaceTold
  <2>2. place[l] # None => place'[l] # None
    BY <2>1
  <2>. QED
    BY <2>1, <2>2
<1>3. PICK n \in 0..N : Known(n) /\ \E w \in 0..n : InFront(w, n)
  BY <1>2 DEF PlacesInv, Searched, Libraries
<1>4. PICK w \in 0..n : InFront(w, n)
  BY <1>3
<1>. DEFINE v == w + m
<1>5. v \in 0..Len(plugins')
  BY <1>1
<1>. HIDE DEF m, N
(* No place behind tells of sources: the library there would have one now. *)
<1>6. ASSUME NEW p \in 1..Len(plugins'), HasData(plugins'[p])
      PROVE  p <= v
  <2>1. CASE p <= m
    BY <1>1, <2>1
  <2>2. CASE p > m
    <3>1. p - m \in 1..N /\ plugins'[p] = plugins[p - m]
      BY <1>1, <1>6, <2>2
    <3>2. p - m <= n
      <4>. SUFFICES ASSUME p - m > n PROVE FALSE
        BY <1>1, <3>1
      <4>1. plugins'[p] \in Added
        BY <1>1, <1>3, <3>1 DEF Known, N
      <4>. QED
        BY <1>2, <1>6, <4>1 DEF Libraries
    <3>3. p - m \notin (w + 1)..n
      BY <1>4, <1>6, <3>1 DEF InFront
    <3>. QED
      BY <1>1, <3>1, <3>2, <3>3
  <2>. QED
    BY <1>1, <2>1, <2>2
<1>7. EntriesBelow(v)'
  <2>. SUFFICES ASSUME NEW e \in Entries', e.ids # {} PROVE e.prov < v
    BY DEF EntriesBelow
  <2>1. CASE e \in Entries
    <3>1. e.prov < w
      BY <1>4, <2>1 DEF InFront, EntriesBelow
    <3>2. e.prov \in Nat
      <4>1. e \in Sources
        BY <2>1 DEF Entries, ToSet, TypeOK
      <4>. QED
        BY <4>1 DEF Sources
    <3>. QED
      BY <1>1, <3>1, <3>2
  <2>2. CASE \E p \in 1..Len(plugins') : e.prov = p - 1 /\ HasData(plugins'[p])
    <3>1. PICK p \in 1..Len(plugins') : e.prov = p - 1 /\ HasData(plugins'[p])
      BY <2>2
    <3>. QED
      BY <1>1, <1>6, <3>1
  <2>. QED
    BY <2>1, <2>2, EntriesAfter
<1>8. \A p \in (v + 1)..Len(plugins') : ~HasData(plugins'[p])
  BY <1>1, <1>6
<1>9. ASSUME v # 0, NEW l \in Scanned, HasData(l)
      PROVE  /\ place'[l] # None
             /\ l \notin KeepsFirst => place'[l] + Cardinality(Scanned) >= v
  <2>1. l \in Libraries
    BY DEF Libraries
  <2>2. ASSUME w # 0
        PROVE  /\ place'[l] # None
               /\ l \notin KeepsFirst =>
                     place[l] + Cardinality(Scanned) >= w /\ place'[l] >= m + place[l]
    <3>1. /\ place[l] # None
          /\ l \notin KeepsFirst => place[l] + Cardinality(Scanned) >= w
      BY <1>4, <1>9, <2>2 DEF InFront
    <3>2. ASSUME l \notin KeepsFirst PROVE place'[l] >= m + place[l]
      <4>1. place[l] + 1 \in 1..n /\ plugins[place[l] + 1] = l
        BY <1>3, <1>9, <2>1, <3>1, <3>2 DEF Known
      <4>2. PICK q \in 1..Len(plugins') : q = m + (place[l] + 1) /\ plugins'[q] = l
        <5>1. PICK r \in 1..N : r = place[l] + 1 /\ plugins[r] = l
          BY <1>1, <4>1
        <5>2. plugins'[m + r] = l
          BY <1>1, <5>1, Zenon
        <5>3. m + r \in 1..Len(plugins')
          BY <1>1
        <5>. QED
          BY <5>1, <5>2, <5>3
      <4>3. place'[l] >= q - 1
        BY <1>2, <1>9, <2>1, <3>2, <4>2
      <4>4. place'[l] \in Nat \cup {None} /\ place[l] \in Nat \cup {None}
            /\ place'[l] # None
        BY <1>2, <2>1, <3>1
      <4>. QED
        BY <1>1, <4>1, <4>2, <4>3, <4>4 DEF None
    <3>. QED
      BY <1>2, <2>1, <3>1, <3>2
  <2>3. Cardinality(Scanned) \in Nat
    BY RegistrationAssumption, FS_CardinalityType
  <2>4. CASE found = <<>>
    <3>1. m = 0
      BY <2>4 DEF m
    <3>2. w # 0 /\ v = w
      BY <1>1, <1>9, <3>1
    <3>. QED
      <4>1. place'[l] \in Nat \cup {None} /\ place[l] \in Nat \cup {None}
        BY <1>2, <2>1
      <4>. QED
        BY <1>1, <2>2, <2>3, <3>1, <3>2, <4>1 DEF None
  <2>5. CASE found # <<>>
    <3>1. m = Cardinality(Scanned) /\ \E p \in 1..m : found[p] = l
      BY <2>5, FindsAll DEF Searched, m
    <3>2. PICK p \in 1..m : plugins'[p] = l
      BY <1>1, <3>1
    <3>3. p \in 1..Len(plugins')
      BY <1>1
    <3>4. place'[l] # None
      BY <1>2, <1>9, <2>1, <3>2, <3>3
    <3>5. CASE w = 0
      BY <1>1, <1>2, <2>1, <3>1, <3>4, <3>5
    <3>6. CASE w # 0
      <4>1. place'[l] \in Nat \cup {None} /\ place[l] \in Nat \cup {None}
        BY <1>2, <2>1
      <4>. QED
        BY <1>1, <2>2, <2>3, <3>1, <3>4, <3>6, <4>1, SMTT(30) DEF None
    <3>. QED
      BY <3>5, <3>6
  <2>. QED
    BY <2>4, <2>5
<1>10. InFront(v, k)'
  BY <1>7, <1>8, <1>9 DEF InFront
<1>. QED
  BY <1>5, <1>10

LEMMA AddKeepsPlaces ==
    ASSUME TypeOK, PlacesInv, NEW l \in Added, AddPlugin(l)
    PROVE  PlacesInv'
<1>. SUFFICES ASSUME ~moved'
              PROVE  \E n \in 0..Len(plugins') :
                        /\ Known(n)'
                        /\ (\A k \in Added : place'[k] = None)
                              => \E w \in 0..n : InFront(w, n)'
  BY DEF PlacesInv
<1>1. /\ plugins' = Append(plugins, l) /\ l \in Added
      /\ UNCHANGED <<place, pushSources, pullSources, buckets, moved>>
  BY DEF AddPlugin
<1>2. /\ Len(plugins) \in Nat /\ Len(plugins') = Len(plugins) + 1
      /\ \A p \in 1..Len(plugins) : plugins'[p] = plugins[p]
      /\ plugins'[Len(plugins) + 1] = l
  BY <1>1 DEF TypeOK
<1>3. PICK n \in 0..Len(plugins) :
         /\ Known(n)
         /\ (\A k \in Added : place[k] = None) => \E w \in 0..n : InFront(w, n)
  BY <1>1 DEF PlacesInv
<1>4. Entries' = Entries
  BY <1>1 DEF Entries
<1>5. \A p \in 1..n : p \in 1..Len(plugins) /\ plugins'[p] = plugins[p]
  BY <1>2
<1>6. Known(n)'
  <2>1. EntriesBelow(n)'
    BY <1>3, <1>4 DEF Known, EntriesBelow
  <2>2. ASSUME NEW p \in (n + 1)..Len(plugins') PROVE plugins'[p] \in Added
    <3>1. CASE p = Len(plugins) + 1
      BY <1>1, <1>2, <3>1
    <3>2. CASE p # Len(plugins) + 1
      <4>1. p \in (n + 1)..Len(plugins) /\ p \in 1..Len(plugins)
        BY <1>2, <3>2
      <4>. QED
        BY <1>2, <1>3, <4>1 DEF Known
    <3>. QED
      BY <3>1, <3>2
  <2>3. ASSUME NEW k \in Libraries, HasData(k)
        PROVE  /\ place'[k] = None => \A p \in 1..n : plugins'[p] # k
               /\ place'[k] # None /\ k \notin KeepsFirst =>
                     /\ place'[k] + 1 \in 1..n /\ plugins'[place'[k] + 1] = k
                     /\ \A p \in 1..n : plugins'[p] = k => p <= place'[k] + 1
    BY <1>1, <1>3, <1>5, <2>3 DEF Known
  <2>. QED
    BY <2>1, <2>2, <2>3 DEF Known
<1>7. ASSUME \A k \in Added : place'[k] = None
      PROVE  \E w \in 0..n : InFront(w, n)'
  <2>1. PICK w \in 0..n : InFront(w, n)
    BY <1>1, <1>3, <1>7
  <2>2. EntriesBelow(w)'
    BY <1>4, <2>1 DEF InFront, EntriesBelow
  <2>3. \A p \in (w + 1)..n : p \in 1..n
    OBVIOUS
  <2>4. \A p \in (w + 1)..n : ~HasData(plugins'[p])
    BY <1>5, <2>1, <2>3 DEF InFront
  <2>5. InFront(w, n)'
    BY <1>1, <2>1, <2>2, <2>4 DEF InFront
  <2>. QED
    BY <2>5
<1>8. n \in 0..Len(plugins')
  BY <1>2
<1>. QED
  BY <1>6, <1>7, <1>8

LEMMA BucketsStep == BucketsInv /\ [Next]_vars => BucketsInv'
<1>. SUFFICES ASSUME BucketsInv, [Next]_vars PROVE BucketsInv'
  OBVIOUS
<1>1. TypeOK /\ TypeOK'
  BY TypeStep DEF BucketsInv
<1>2. ASSUME UNCHANGED <<lists, moved>> PROVE PlacesInv' /\ Owned'
  <2>1. Entries' = Entries /\ UNCHANGED <<plugins, place, buckets, moved>>
    BY <1>2 DEF Entries
  <2>2. Owned'
    BY <2>1 DEF BucketsInv, Owned
  <2>3. \A n \in 0..Len(plugins) : Known(n)' <=> Known(n)
    BY <2>1 DEF Known, EntriesBelow
  <2>4. \A n \in 0..Len(plugins) : \A w \in 0..n : InFront(w, n)' <=> InFront(w, n)
    BY <2>1 DEF InFront, EntriesBelow
  <2>5. PlacesInv'
    BY <2>1, <2>3, <2>4 DEF BucketsInv, PlacesInv
  <2>. QED
    BY <2>2, <2>5
<1>3. ASSUME NEW l \in Added, AddPlugin(l) PROVE PlacesInv' /\ Owned'
  <2>1. PlacesInv'
    BY <1>3, AddKeepsPlaces DEF BucketsInv
  <2>2. Owned'
    BY <1>3 DEF AddPlugin, BucketsInv, Owned
  <2>. QED
    BY <2>1, <2>2
<1>4. ASSUME Initialize PROVE PlacesInv' /\ Owned'
  <2>1. PICK found : Searched(found)
    BY <1>4 DEF Initialize, Searched
  <2>2. Owned'
    BY <2>1, OwnedAfter
  <2>3. PlacesInv'
    <3>. SUFFICES ASSUME ~moved', NEW n, n = Len(plugins')
                  PROVE  /\ n \in 0..n /\ Known(n)'
                         /\ (\A l \in Added : place'[l] = None)
                               => \E w \in 0..n : InFront(w, n)'
      BY DEF PlacesInv
    <3>1. n \in 0..n
      BY <1>1, <2>1, VectorAfter
    <3>2. Known(n)'
      BY <1>1, <2>1, KnownAfter DEF BucketsInv
    <3>3. (\A l \in Added : place'[l] = None) => \E w \in 0..n : InFront(w, n)'
      BY <1>1, <2>1, FrontAfter DEF BucketsInv
    <3>. QED
      BY <3>1, <3>2, <3>3
  <2>. QED
    BY <2>2, <2>3
<1>5. ASSUME NEW ok \in BOOLEAN, Start(ok) PROVE PlacesInv' /\ Owned'
  BY <1>2, <1>5 DEF Start
<1>6. ASSUME Stop PROVE PlacesInv' /\ Owned'
  BY <1>2, <1>6 DEF Stop
<1>7. ASSUME UNCHANGED vars PROVE PlacesInv' /\ Owned'
  BY <1>2, <1>7 DEF vars
<1>8. PlacesInv' /\ Owned'
  BY <1>3, <1>4, <1>5, <1>6, <1>7 DEF Next
<1>. QED
  BY <1>1, <1>8 DEF BucketsInv

LEMMA BucketsInit == Init => BucketsInv
<1>. SUFFICES ASSUME Init PROVE BucketsInv
  OBVIOUS
<1>1. TypeOK
  BY IInvInit DEF IInv
<1>2. /\ plugins = <<>> /\ Len(plugins) = 0 /\ Entries = {}
      /\ \A l \in Libraries : place[l] = None
  BY DEF Init, Entries, ToSet
<1>3. Known(0) /\ InFront(0, 0)
  BY <1>2 DEF Known, InFront, EntriesBelow
<1>4. PlacesInv
  BY <1>2, <1>3 DEF PlacesInv
<1>5. Owned
  BY <1>2 DEF Owned
<1>. QED
  BY <1>1, <1>4, <1>5 DEF BucketsInv

(* The data of a source go to a bucket, and to one of its own, for any      *)
(* libraries, any number of searches and additions in any order, and       *)
(* whichever place a library keeps; only not after a search has moved an   *)
(* added plugin that had a place.                                          *)
THEOREM EachToItsOwn == Spec => []OwnBucket
<1>1. BucketsInv => OwnBucket
  <2>. SUFFICES ASSUME BucketsInv, ~moved,
                       NEW l \in Libraries, place[l] # None, NEW id \in Ids(l)
                PROVE  LET b == FindBucket(place[l], id) IN
                       b # 0 /\ buckets[b].of = l /\ id \in buckets[b].ids
    BY DEF OwnBucket
  <2>. DEFINE S == {i \in 1..Len(buckets) :
                       buckets[i].prov = place[l] /\ id \in buckets[i].ids}
  <2>1. PICK b \in 1..Len(buckets) :
           /\ b \in S /\ buckets[b].of = l
           /\ \A j \in 1..(b - 1) : j \notin S
    BY DEF BucketsInv, Owned, Owns, Matches
  <2>2. S \in SUBSET Nat /\ S # {}
    BY <2>1
  <2>3. Min(S) \in S /\ \A i \in S : Min(S) <= i
    BY <2>2, LeastExists
  <2>4. Min(S) = b
    BY <2>1, <2>3
  <2>5. FindBucket(place[l], id) = Min(S)
    BY <2>2 DEF FindBucket, SelectInSeq
  <2>. QED
    BY <2>1, <2>4, <2>5
<1>. QED
  BY <1>1, BucketsInit, BucketsStep, PTL DEF Spec
=============================================================================
