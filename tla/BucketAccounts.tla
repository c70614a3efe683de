--------------------------- MODULE BucketAccounts ---------------------------
(***************************************************************************)
(* Theorems about the sums that Bucket keeps: size and count, which are    *)
(* changed by what comes in and what spill frees, and the number of        *)
(* dropped entries that getNextData reports.  A sum is the number of its   *)
(* units (Total), so facts about sums are facts about finite sets.         *)
(***************************************************************************)
EXTENDS BucketProofs, FiniteSetTheorems

(***************************************************************************)
(* Sums                                                                    *)
(***************************************************************************)

LEMMA UnitsFinite ==
    ASSUME NEW S, IsFiniteSet(S), NEW f, \A i \in S : f[i] \in Nat
    PROVE  IsFiniteSet(Units(f, S))
<1> DEFINE Of(i) == {i} \X (1..f[i])
           parts == {Of(i) : i \in S}
           g == [i \in S |-> Of(i)]
<1>1. ASSUME NEW i \in S PROVE IsFiniteSet(Of(i))
  <2>1. IsFiniteSet({i})
    BY FS_Singleton
  <2>2. IsFiniteSet(1..f[i])
    BY FS_Interval
  <2> QED
    BY <2>1, <2>2, FS_Product
<1>2. g \in Surjection(S, parts)
  BY DEF Surjection
<1>3. IsFiniteSet(parts)
  <2> HIDE DEF g, parts
  <2> QED
    BY <1>2, FS_Surjection
<1>4. IsFiniteSet(UNION parts)
  BY <1>1, <1>3, FS_UNION
<1> QED
  BY <1>4 DEF Units

(* A sum of natural numbers is one. *)
LEMMA TotalType ==
    ASSUME NEW S, IsFiniteSet(S), NEW f, \A i \in S : f[i] \in Nat
    PROVE  Total(f, S) \in Nat
BY UnitsFinite, FS_CardinalityType DEF Total

LEMMA TotalEmpty == \A f : Total(f, {}) = 0
BY FS_EmptySet DEF Total, Units

LEMMA TotalSingle ==
    ASSUME NEW i, NEW f, f[i] \in Nat
    PROVE  Total(f, {i}) = f[i]
<1>1. Units(f, {i}) = {i} \X (1..f[i])
  BY DEF Units
<1>2. Cardinality({i} \X (1..f[i])) = f[i]
  <2>1. Cardinality(1..f[i]) = f[i] /\ IsFiniteSet(1..f[i])
    BY FS_Interval
  <2>2. Cardinality({i}) = 1 /\ IsFiniteSet({i})
    BY FS_Singleton
  <2>3. Cardinality({i} \X (1..f[i])) = Cardinality({i}) * Cardinality(1..f[i])
    BY <2>1, <2>2, FS_Product
  <2>4. 1 * f[i] = f[i]
    OBVIOUS
  <2> QED
    BY <2>1, <2>2, <2>3, <2>4
<1> QED
  BY <1>1, <1>2 DEF Total

(* The sum over two sets that have nothing in common. *)
LEMMA TotalUnion ==
    ASSUME NEW S, IsFiniteSet(S), NEW T, IsFiniteSet(T), S \cap T = {},
           NEW f, \A i \in S \cup T : f[i] \in Nat
    PROVE  Total(f, S \cup T) = Total(f, S) + Total(f, T)
<1>1. Units(f, S \cup T) = Units(f, S) \cup Units(f, T)
  BY DEF Units
<1>2. Units(f, S) \cap Units(f, T) = {}
  <2>1. ASSUME NEW u \in Units(f, S), u \in Units(f, T) PROVE FALSE
    <3>1. PICK i \in S : u \in {i} \X (1..f[i])
      BY DEF Units
    <3>2. PICK j \in T : u \in {j} \X (1..f[j])
      BY <2>1 DEF Units
    <3>3. u[1] = i /\ u[1] = j
      BY <3>1, <3>2
    <3> QED
      BY <3>3
  <2> QED
    BY <2>1
<1>3. IsFiniteSet(Units(f, S)) /\ IsFiniteSet(Units(f, T))
  BY UnitsFinite
<1>4. Cardinality(Units(f, S)) \in Nat /\ Cardinality(Units(f, T)) \in Nat
  BY <1>3, FS_CardinalityType
<1>5. Cardinality({}) = 0
  BY FS_EmptySet
<1>6. Cardinality(Units(f, S) \cup Units(f, T))
         = Cardinality(Units(f, S)) + Cardinality(Units(f, T))
              - Cardinality(Units(f, S) \cap Units(f, T))
  BY <1>3, FS_Union
<1>7. Cardinality(Units(f, S) \cup Units(f, T))
         = Cardinality(Units(f, S)) + Cardinality(Units(f, T))
  <2>1. Cardinality(Units(f, S) \cap Units(f, T)) = 0
    BY <1>2, <1>5
  <2> QED
    BY <1>4, <1>6, <2>1
<1> QED
  BY <1>1, <1>7 DEF Total

(* Only the values on S matter. *)
LEMMA TotalSame ==
    ASSUME NEW S, NEW f, NEW g, \A i \in S : f[i] = g[i]
    PROVE  Total(f, S) = Total(g, S)
<1>1. Units(f, S) = Units(g, S)
  BY DEF Units
<1> QED
  BY <1>1 DEF Total

(* What remains of a sum. *)
LEMMA TotalWithout ==
    ASSUME NEW S, IsFiniteSet(S), NEW T \in SUBSET S,
           NEW f, \A i \in S : f[i] \in Nat
    PROVE  /\ Total(f, S \ T) = Total(f, S) - Total(f, T)
           /\ Total(f, T) \in Nat /\ Total(f, S) \in Nat /\ Total(f, S \ T) \in Nat
<1>1. IsFiniteSet(T) /\ IsFiniteSet(S \ T)
  BY FS_Subset
<1>2. S = (S \ T) \cup T /\ (S \ T) \cap T = {}
  OBVIOUS
<1>3. Total(f, S) = Total(f, S \ T) + Total(f, T)
  <2>1. Total(f, (S \ T) \cup T) = Total(f, S \ T) + Total(f, T)
    BY <1>1, <1>2, TotalUnion
  <2> QED
    BY <1>2, <2>1
<1> QED
  BY <1>1, <1>3, TotalType

LEMMA IdsFinite == \A S : S \subseteq Ids => IsFiniteSet(S)
<1>1. IsFiniteSet(Ids)
  BY FS_Interval, BucketAssumption DEF Ids
<1> QED
  BY <1>1, FS_Subset

-----------------------------------------------------------------------------
(* What count and size account for, and where tail can point: behind a     *)
(* tail that spill has freed, the list is stuck, all of it persistent.     *)
TailShape ==
    /\ tail = 0 => list = {} /\ orphans = {}
    /\ tail \in list => orphans = {} /\ \A i \in list : i <= tail
    /\ tail \notin list \cup {0} => list # {} /\ list \subseteq persistent

AccountsInv == Accounting /\ TailShape /\ WithinCapacity

Held == list \cup orphans

(* Taking away what spill frees. *)
LEMMA AfterSpill ==
    ASSUME IInv, Accounting, NEW bytes
    PROVE  LET out == Spilt(bytes)
           IN  /\ out \subseteq list /\ Held \ out = (list \ out) \cup orphans
               /\ IsFiniteSet(Held \ out)
               /\ size \in Nat /\ count \in Nat
               /\ Bytes(out) \in Nat /\ Bytes(Held \ out) \in Nat
               /\ Bytes(Held \ out) = size - Bytes(out)
               /\ Cardinality(out) \in Nat /\ Cardinality(Held \ out) \in Nat
               /\ Cardinality(Held \ out) = count - Cardinality(out)
<1> DEFINE out == Spilt(bytes)
<1>1. out \subseteq list
  BY SpiltIsSpillable
<1>2. Held \subseteq Ids /\ list \cap orphans = {}
  BY DEF IInv, TypeOK, IdsInUse, Held
<1> HIDE DEF out
<1>3. /\ out \in SUBSET Held /\ Held \ out = (list \ out) \cup orphans
      /\ Held \cap out = out
  BY <1>1, <1>2 DEF Held
<1>4. IsFiniteSet(Held) /\ IsFiniteSet(out) /\ IsFiniteSet(Held \ out)
  BY <1>2, <1>3, IdsFinite, FS_Subset
<1>5. \A i \in Held : sizeOf[i] \in Nat
  BY <1>2 DEF IInv, TypeOK
<1>6. /\ Bytes(out) \in Nat /\ Bytes(Held \ out) \in Nat /\ Bytes(Held) \in Nat
      /\ Bytes(Held \ out) = Bytes(Held) - Bytes(out)
  BY <1>3, <1>4, <1>5, TotalWithout DEF Bytes
<1>7. /\ Cardinality(out) \in Nat /\ Cardinality(Held) \in Nat
      /\ Cardinality(Held \ out) \in Nat
  BY <1>4, FS_CardinalityType
<1>8. Cardinality(Held \ out) = Cardinality(Held) - Cardinality(out)
  BY <1>3, <1>4, FS_Difference
<1>9. count = Cardinality(Held) /\ size = Bytes(Held)
  BY DEF Accounting, Held
<1> QED
  BY <1>1, <1>3, <1>4, <1>6, <1>7, <1>8, <1>9 DEF out

(* An emptied list leaves nothing behind it. *)
LEMMA EmptiedIsEmpty ==
    ASSUME IInv, TailShape, NEW bytes, list = Spilt(bytes)
    PROVE  orphans = {}
<1>1. list \cap persistent = {}
  BY SpiltIsSpillable
<1> QED
  BY <1>1 DEF TailShape

(* Once it has freed the last node, only persistent nodes are left.        *)
LEMMA TailSpilt ==
    ASSUME IInv, TailShape, NEW bytes, tail \in Spilt(bytes)
    PROVE  list \ Spilt(bytes) \subseteq persistent
<1>1. tail \in list /\ tail <= lastPublish
  BY SpiltIsSpillable
<1>2. \A i \in list : i \in Nat /\ i <= tail
  BY <1>1 DEF TailShape, IInv, TypeOK, Ids
<1>3. lastPublish \in Nat
  BY BucketAssumption DEF IInv, TypeOK
<1>4. ASSUME NEW i \in list \ Spilt(bytes), i \notin persistent PROVE FALSE
  <2>1. i < tail
    BY <1>1, <1>2, <1>4
  <2>2. i \in Spillable
    BY <1>1, <1>2, <1>3, <1>4 DEF Spillable
  <2> QED
    BY <1>4, <2>1, <2>2, SpiltIsPrefix, BucketAssumption DEF IInv, TypeOK
<1> QED
  BY <1>4

LEMMA AddAccounts ==
    ASSUME IInv, AccountsInv, NEW bytes \in Sizes, NEW persists \in Persistence,
           Add(bytes, persists)
    PROVE  AccountsInv'
<1> USE BucketAssumption
<1> DEFINE out == Spilt(bytes)
           id == masterID + 1
           kept == list \ out
           linked == \/ TailAfterSpill(bytes) = 0
                     \/ TailAfterSpill(bytes) \in kept
<1>1. /\ id \in Ids /\ id \notin Held /\ bytes \in Nat /\ id # 0
      /\ \A i \in Held : i < id
  <2>1. masterID \in Nat /\ masterID + 1 \in Ids
    BY DEF Add, IInv, TypeOK, Ids
  <2>2. \A i \in Held : i \in 1..masterID
    BY DEF IInv, IdsInUse, Held
  <2> QED
    BY <2>1, <2>2
<1>2. /\ list' = IF linked THEN kept \cup {id} ELSE kept
      /\ orphans' = IF linked THEN orphans ELSE orphans \cup {id}
      /\ tail' = id /\ sizeOf' = [Forget(out) EXCEPT ![id] = bytes]
      /\ size' = size - Bytes(out) + bytes
      /\ count' = count - Cardinality(out) + 1
      /\ persistent \subseteq persistent'
  BY DEF Add, NewId, SizeAfter
<1>3. /\ out \subseteq list /\ Held \ out = (list \ out) \cup orphans
      /\ IsFiniteSet(Held \ out)
      /\ size \in Nat /\ count \in Nat
      /\ Bytes(out) \in Nat /\ Bytes(Held \ out) \in Nat
      /\ Bytes(Held \ out) = size - Bytes(out)
      /\ Cardinality(out) \in Nat /\ Cardinality(Held \ out) \in Nat
      /\ Cardinality(Held \ out) = count - Cardinality(out)
  BY AfterSpill DEF AccountsInv
<1>4. HasRoom(bytes)
  BY DEF Add
<1>5. list = out => orphans = {} /\ TailAfterSpill(bytes) = 0
  BY EmptiedIsEmpty DEF AccountsInv, TailAfterSpill
<1>6. list # out => TailAfterSpill(bytes) = tail
  BY DEF TailAfterSpill
<1>7. HasRoom(bytes) = (list = out \/ size - Bytes(out) + bytes <= Capacity)
  BY DEF HasRoom
<1> HIDE DEF out
<1>8. list' \cup orphans' = (Held \ out) \cup {id}
  BY <1>2, <1>3
<1>9. Accounting'
  <2>1. id \notin Held \ out
    BY <1>1
  <2>2. Cardinality(list' \cup orphans') = count'
    <3>1. Cardinality((Held \ out) \cup {id}) = Cardinality(Held \ out) + 1
      BY <1>3, <2>1, FS_AddElement
    <3> QED
      BY <1>2, <1>3, <1>8, <3>1
  <2>3. \A i \in Held \ out : sizeOf'[i] = sizeOf[i]
    BY <1>1, <1>2 DEF Forget, IInv, TypeOK, Held
  <2>4. sizeOf'[id] = bytes
    BY <1>1, <1>2 DEF Forget
  <2>5. \A i \in (Held \ out) \cup {id} : sizeOf'[i] \in Nat
    BY <1>1, <2>3, <2>4 DEF IInv, TypeOK, Held
  <2>6. Total(sizeOf', (Held \ out) \cup {id})
           = Total(sizeOf', Held \ out) + Total(sizeOf', {id})
    <3>1. IsFiniteSet({id}) /\ (Held \ out) \cap {id} = {}
      BY <2>1, FS_Singleton
    <3> QED
      BY <1>3, <2>5, <3>1, TotalUnion
  <2>7. Total(sizeOf', Held \ out) = Bytes(Held \ out)
    BY <2>3, TotalSame DEF Bytes
  <2>8. Total(sizeOf', {id}) = bytes
    BY <1>1, <2>4, TotalSingle
  <2>9. Total(sizeOf', (Held \ out) \cup {id}) = size'
    BY <1>2, <1>3, <2>6, <2>7, <2>8
  <2> QED
    BY <1>8, <2>2, <2>9 DEF Accounting, Bytes
<1>10. TailShape'
  <2>1. CASE linked
    <3>1. orphans = {}
      BY <1>3, <1>5, <1>6, <2>1 DEF AccountsInv, TailShape
    <3>2. \A i \in kept : i <= id
      BY <1>1 DEF Held, IInv, TypeOK, Ids
    <3> QED
      BY <1>1, <1>2, <2>1, <3>1, <3>2 DEF TailShape
  <2>2. CASE ~linked
    <3>1. list # out /\ tail # 0 /\ tail \notin kept /\ list' = kept /\ tail' \notin kept
      BY <1>1, <1>2, <1>5, <1>6, <2>2 DEF Held
    <3>2. kept # {}
      BY <1>3, <3>1
    <3>3. kept \subseteq persistent
      <4>1. CASE tail \notin list
        BY <3>1, <4>1 DEF AccountsInv, TailShape
      <4>2. CASE tail \in list
        <5>1. tail \in Spilt(bytes)
          BY <3>1, <4>2 DEF out
        <5> QED
          BY <5>1, TailSpilt DEF AccountsInv, out
      <4> QED
        BY <4>1, <4>2
    <3> QED
      BY <1>1, <1>2, <3>1, <3>2, <3>3 DEF TailShape
  <2> QED
    BY <2>1, <2>2
<1>11. WithinCapacity'
  <2>1. CASE list = out
    <3>1. Held \ out = {}
      BY <1>3, <1>5, <2>1
    <3> QED
      BY <1>2, <1>3, <3>1, FS_EmptySet DEF WithinCapacity
  <2>2. CASE list # out
    BY <1>2, <1>4, <1>7, <2>2 DEF WithinCapacity
  <2> QED
    BY <2>1, <2>2
<1> QED
  BY <1>9, <1>10, <1>11 DEF AccountsInv

LEMMA AddFailsAccounts ==
    ASSUME IInv, AccountsInv, NEW bytes \in Sizes, NEW ok \in BOOLEAN,
           AddFails(bytes, ok)
    PROVE  AccountsInv'
<1> USE BucketAssumption
<1> DEFINE out == Spilt(bytes)
<1>1. /\ list' = list \ out /\ orphans' = orphans /\ persistent' = persistent
      /\ tail' = IF list = out THEN 0 ELSE tail
      /\ sizeOf' = Forget(out)
      /\ size' = size - Bytes(out) + 0 /\ count' = count - Cardinality(out)
  BY DEF AddFails, TailAfterSpill, SizeAfter
<1>2. /\ out \subseteq list /\ Held \ out = (list \ out) \cup orphans
      /\ IsFiniteSet(Held \ out)
      /\ size \in Nat /\ count \in Nat
      /\ Bytes(out) \in Nat /\ Bytes(Held \ out) \in Nat
      /\ Bytes(Held \ out) = size - Bytes(out)
      /\ Cardinality(out) \in Nat /\ Cardinality(Held \ out) \in Nat
      /\ Cardinality(Held \ out) = count - Cardinality(out)
  BY AfterSpill DEF AccountsInv
<1>3. list = out => orphans = {}
  BY EmptiedIsEmpty DEF AccountsInv
<1>4. tail \in out => list \ out \subseteq persistent
  BY TailSpilt DEF AccountsInv
<1>5. IsFiniteSet(out)
  BY <1>2, IdsFinite DEF IInv, TypeOK
<1> HIDE DEF out
<1>6. Accounting'
  <2>1. \A i \in Held \ out : sizeOf'[i] = sizeOf[i]
    BY <1>1 DEF Forget, IInv, TypeOK, Held
  <2>2. Total(sizeOf', Held \ out) = Bytes(Held \ out)
    BY <2>1, TotalSame DEF Bytes
  <2>3. list' \cup orphans' = Held \ out
    BY <1>1, <1>2
  <2>4. Cardinality(Held \ out) = count' /\ Total(sizeOf', Held \ out) = size'
    BY <1>1, <1>2, <2>2
  <2> QED
    BY <2>3, <2>4 DEF Accounting, Bytes
<1>7. TailShape'
  <2>1. CASE list = out
    BY <1>1, <1>3, <2>1 DEF TailShape
  <2>2. CASE list # out
    BY <1>1, <1>2, <1>4, <2>2 DEF AccountsInv, TailShape
  <2> QED
    BY <2>1, <2>2
<1>8. WithinCapacity'
  <2>1. CASE size <= Capacity
    BY <1>1, <1>2, <2>1 DEF WithinCapacity
  <2>2. CASE count = 1 /\ out = {}
    BY <1>1, <1>2, <2>2, FS_EmptySet DEF WithinCapacity
  <2>3. CASE count = 1 /\ out # {}
    <3>1. Cardinality(out) # 0
      BY <1>5, <2>3, FS_EmptySet
    <3>2. Cardinality(Held \ out) = 0
      BY <1>2, <2>3, <3>1
    <3>3. Held \ out = {}
      BY <1>2, <3>2, FS_EmptySet
    <3>4. Bytes(Held \ out) = 0
      BY <3>3, TotalEmpty DEF Bytes
    <3> QED
      BY <1>1, <1>2, <3>4 DEF WithinCapacity
  <2> QED
    BY <2>1, <2>2, <2>3 DEF AccountsInv, WithinCapacity
<1> QED
  BY <1>6, <1>7, <1>8 DEF AccountsInv

LEMMA AccountsInductive == Spec => []AccountsInv
<1>1. Init => AccountsInv
  <2>1. Total(sizeOf, {}) = 0 /\ Cardinality({}) = 0
    BY TotalEmpty, FS_EmptySet
  <2> QED
    BY <2>1, BucketAssumption
       DEF Init, AccountsInv, Accounting, TailShape, WithinCapacity, Bytes
<1>2. IInv /\ AccountsInv /\ [Next]_vars => AccountsInv'
  <2> SUFFICES ASSUME IInv, AccountsInv, [Next]_vars PROVE AccountsInv'
    OBVIOUS
  <2>1. CASE UNCHANGED store
    BY <2>1 DEF AccountsInv, Accounting, TailShape, WithinCapacity, store, Bytes
  <2> QED
    BY <2>1, AddAccounts, AddFailsAccounts
       DEF Next, Publish, PublishBegin, RepublishBegin, Begin, FlushBatch,
           BatchEntry, SendEntry, End, GetNextData, vars
<1> QED
  BY <1>1, <1>2, Inductive, PTL DEF Spec

(* size and count are those of the nodes linked and not freed, also once   *)
(* spill has freed the node behind which add links the next ones.          *)
THEOREM Accounts == Spec => []Accounting
<1>1. AccountsInv => Accounting
  BY DEF AccountsInv
<1> QED
  BY <1>1, AccountsInductive, PTL

(* The bucket grows past its capacity only by one entry, alone in it.      *)
THEOREM Bounded == Spec => []WithinCapacity
<1>1. AccountsInv => WithinCapacity
  BY DEF AccountsInv
<1> QED
  BY <1>1, AccountsInductive, PTL

-----------------------------------------------------------------------------
(***************************************************************************)
(* What getNextData reports                                                *)
(***************************************************************************)

LEMMA HasLeast ==
    ASSUME NEW S \in SUBSET Nat, S # {}
    PROVE  \E n \in S : \A i \in S : n <= i
<1>1. PICK n \in S : \A i \in S : ~(<<i, n>> \in OpToRel(<, Nat))
  BY NatLessThanWellFounded, WFMin
<1>2. \A i \in S : ~(i < n)
  BY <1>1 DEF OpToRel
<1> QED
  BY <1>2

LEMMA HasGreatest ==
    ASSUME NEW S \in SUBSET Nat, S # {}, NEW m \in Nat, \A i \in S : i <= m
    PROVE  \E n \in S : \A i \in S : i <= n
<1> DEFINE T == {m - i : i \in S}
<1>1. T \in SUBSET Nat /\ T # {}
  <2>1. \A i \in S : m - i \in Nat
    OBVIOUS
  <2>2. \A k \in T : k \in Nat
    BY <2>1
  <2>3. PICK i \in S : TRUE
    OBVIOUS
  <2>4. m - i \in T
    OBVIOUS
  <2> QED
    BY <2>2, <2>4
<1>2. PICK k \in T : \A j \in T : k <= j
  <2> HIDE DEF T
  <2> QED
    BY <1>1, HasLeast
<1>3. PICK n \in S : k = m - n
  OBVIOUS
<1>4. \A i \in S : m - n <= m - i
  BY <1>2, <1>3
<1> QED
  BY <1>4

(* The node after an id, as getNextData meets it. *)
Follows(id, n) == n \in Ahead(id) /\ \A i \in Ahead(id) : n <= i

LEMMA NodeFollows ==
    ASSUME list \subseteq Ids, NEW id \in Nat
    PROVE  Ahead(id) # {} => \E n \in Ids : Follows(id, n)
<1>1. Ahead(id) \subseteq Ids
  BY DEF Ahead
<1>2. Ids \subseteq Nat
  BY DEF Ids
<1>3. Ahead(id) \in SUBSET Nat
  BY <1>1, <1>2
<1> QED
  BY <1>1, <1>3, HasLeast DEF Follows

(* The gap between an id and the node after it. *)
LEMMA GapIs ==
    ASSUME list \subseteq Ids, NEW id \in Nat, NEW n, Follows(id, n)
    PROVE  /\ Gap(id) = n - (id + 1) /\ Gap(id) \in Nat
           /\ Least(Ahead(id)) = {n} /\ n \in Nat /\ n > id
<1> DEFINE f == [next \in Ids |-> next - (id + 1)]
<1>1. n \in Nat /\ n \in Ids /\ n > id /\ \A i \in Ahead(id) : i \in Nat
  BY DEF Follows, Ahead, Ids
<1>2. Least(Ahead(id)) = {n}
  <2>1. n \in Least(Ahead(id))
    BY DEF Least, Follows
  <2>2. ASSUME NEW i \in Least(Ahead(id)) PROVE i = n
    <3>1. i \in Ahead(id) /\ i <= n
      BY <2>2 DEF Least, Follows
    <3>2. n <= i
      BY <3>1 DEF Follows
    <3> QED
      BY <1>1, <3>1, <3>2
  <2> QED
    BY <2>1, <2>2
<1>3. f[n] = n - (id + 1) /\ f[n] \in Nat
  BY <1>1
<1>4. Total(f, {n}) = f[n]
  <2> HIDE DEF f
  <2> QED
    BY <1>3, TotalSingle
<1>5. Gap(id) = Total(f, {n})
  BY <1>2 DEF Gap
<1> QED
  BY <1>1, <1>2, <1>3, <1>4, <1>5

LEMMA NoGapAtEnd ==
    ASSUME NEW id, Ahead(id) = {}
    PROVE  Gap(id) = 0
BY TotalEmpty DEF Gap, Least

(* The entries that getNextData steps over when it copies those of W, from *)
(* the first to the last, are the ids between them that are not in W.      *)
LEMMA GapsOf ==
    ASSUME list \subseteq Ids, NEW W \in SUBSET list,
           NEW m \in W, NEW last \in W, \A i \in W : m <= i /\ i <= last,
           \A i \in list : m <= i /\ i <= last => i \in W
    PROVE  /\ Total([i \in Ids |-> Gap(i)], W \ {last}) + Cardinality(W)
                 = last - m + 1
           /\ \A i \in W \ {last} : Gap(i) \in Nat
<1> DEFINE gap == [i \in Ids |-> Gap(i)]
           U == Units(gap, W \ {last})
           D == (m..last) \ W
           at == [u \in U |-> u[1] + u[2]]
<1>1. \A i \in list : i \in Nat /\ i \in Ids
  BY DEF Ids
<1>2. ASSUME NEW i \in W \ {last}
      PROVE  \E n \in W : Follows(i, n)
  <2>1. last \in Ahead(i)
    BY <1>1 DEF Ahead
  <2>2. PICK n \in Ids : Follows(i, n)
    BY <1>1, <2>1, NodeFollows
  <2>3. n \in list /\ n > i /\ n <= last
    BY <2>1, <2>2 DEF Follows, Ahead
  <2>4. m <= n
    BY <1>1, <2>3
  <2> QED
    BY <2>2, <2>3, <2>4
<1>3. \A i \in W \ {last} : gap[i] = Gap(i) /\ Gap(i) \in Nat
  BY <1>1, <1>2, GapIs
<1>4. ASSUME NEW u \in U
      PROVE  \E i \in W \ {last} : \E n \in W :
                /\ Follows(i, n) /\ u[1] = i /\ u[2] \in 1..(n - (i + 1))
                /\ u = <<u[1], u[2]>>
  <2>1. PICK i \in W \ {last} : u \in {i} \X (1..gap[i])
    BY DEF Units
  <2>2. PICK n \in W : Follows(i, n)
    BY <1>2
  <2>3. gap[i] = n - (i + 1)
    BY <1>1, <1>3, <2>2, GapIs
  <2> QED
    BY <2>1, <2>2, <2>3
<1>5. \A u \in U : u[1] \in Nat /\ u[2] \in Nat
  BY <1>1, <1>4
<1>6. at \in [U -> D]
  <2> SUFFICES ASSUME NEW u \in U PROVE u[1] + u[2] \in D
    OBVIOUS
  <2>1. PICK i \in W \ {last}, n \in W :
           /\ Follows(i, n) /\ u[1] = i /\ u[2] \in 1..(n - (i + 1))
    BY <1>4
  <2>2. i \in Nat /\ n \in Nat /\ m \in Nat /\ last \in Nat /\ m <= i /\ n <= last
    BY <1>1
  <2>3. i < u[1] + u[2] /\ u[1] + u[2] < n /\ u[1] + u[2] \in Nat
    BY <2>1, <2>2
  <2>4. u[1] + u[2] \notin W
    BY <2>1, <2>2, <2>3 DEF Follows, Ahead
  <2> QED
    BY <2>2, <2>3, <2>4
<1>7. \A u, v \in U : at[u] = at[v] => u = v
  <2> SUFFICES ASSUME NEW u \in U, NEW v \in U, u[1] + u[2] = v[1] + v[2]
               PROVE  u = v
    OBVIOUS
  <2>1. PICK i \in W \ {last}, n \in W :
           /\ Follows(i, n) /\ u[1] = i /\ u[2] \in 1..(n - (i + 1))
           /\ u = <<u[1], u[2]>>
    BY <1>4
  <2>2. PICK j \in W \ {last}, k \in W :
           /\ Follows(j, k) /\ v[1] = j /\ v[2] \in 1..(k - (j + 1))
           /\ v = <<v[1], v[2]>>
    BY <1>4
  <2>3. i \in Nat /\ j \in Nat /\ n \in Nat /\ k \in Nat
    BY <1>1
  <2>4. i < j => n <= j
    BY <2>1 DEF Follows, Ahead
  <2>5. j < i => k <= i
    BY <2>2 DEF Follows, Ahead
  <2>6. i = j
    BY <2>1, <2>2, <2>3, <2>4, <2>5
  <2>7. u[2] = v[2]
    BY <2>1, <2>2, <2>3, <2>6
  <2> QED
    BY <2>1, <2>2, <2>6, <2>7
<1>8. \A x \in D : \E u \in U : at[u] = x
  <2> SUFFICES ASSUME NEW x \in D PROVE \E u \in U : u[1] + u[2] = x
    OBVIOUS
  <2> DEFINE before == {i \in W : i < x}
  <2>1. x \in Nat /\ m < x /\ x < last /\ x \notin list
    BY <1>1
  <2>2. m \in before /\ before \in SUBSET Nat /\ \A i \in before : i <= x
    BY <1>1, <2>1
  <2>3. PICK i \in before : \A j \in before : j <= i
    <3> HIDE DEF before
    <3> QED
      BY <2>1, <2>2, HasGreatest
  <2>4. i \in W \ {last} /\ i \in Nat /\ i < x
    BY <1>1, <2>1
  <2>5. PICK n \in W : Follows(i, n)
    BY <1>2, <2>4
  <2>6. n \in Nat /\ n > i /\ n # x
    BY <1>1, <2>1, <2>5 DEF Follows, Ahead
  <2>7. ~(n < x)
    BY <2>3, <2>4, <2>6
  <2>8. gap[i] = n - (i + 1) /\ x - i \in 1..(n - (i + 1))
    BY <1>1, <1>3, <2>1, <2>4, <2>5, <2>6, <2>7, GapIs
  <2>9. <<i, x - i>> \in U
    BY <2>4, <2>8 DEF Units
  <2>10. i + (x - i) = x
    BY <2>1, <2>4
  <2> QED
    BY <2>9, <2>10
<1>9. at \in Injection(U, D) /\ at \in Surjection(U, D)
  <2> HIDE DEF at, U, D
  <2> QED
    BY <1>6, <1>7, <1>8 DEF Injection, Surjection, IsInjective
<1>10. m \in Nat /\ last \in Nat /\ m <= last
  BY <1>1
<1>11. IsFiniteSet(m..last) /\ Cardinality(m..last) = last - m + 1
  BY <1>10, FS_Interval
<1>12. W \subseteq m..last
  BY <1>1, <1>10
<1>13. /\ IsFiniteSet(D) /\ IsFiniteSet(W)
       /\ Cardinality(D) = Cardinality(m..last) - Cardinality(W)
  <2> DEFINE all == m..last
  <2>1. all \cap W = W /\ IsFiniteSet(all) /\ W \in SUBSET all
    BY <1>11, <1>12
  <2> HIDE DEF all
  <2>2. IsFiniteSet(W)
    BY <2>1, FS_Subset
  <2>3. IsFiniteSet(all \ W) /\ Cardinality(all \ W) = Cardinality(all) - Cardinality(W)
    BY <2>1, FS_Difference
  <2> QED
    BY <2>2, <2>3 DEF all
<1>14. Cardinality(U) = Cardinality(D)
  <2> HIDE DEF at, U, D
  <2> QED
    BY <1>9, <1>13, FS_Injection
<1>15. Cardinality(W) \in Nat /\ Cardinality(D) \in Nat
  BY <1>13, FS_CardinalityType
<1>16. Total(gap, W \ {last}) = Cardinality(U)
  BY DEF Total
<1>17. Total(gap, W \ {last}) + Cardinality(W) = last - m + 1
  <2> HIDE DEF gap, U, D
  <2> QED
    BY <1>10, <1>11, <1>13, <1>14, <1>15, <1>16
<1> QED
  BY <1>3, <1>17

(* A call hands out the nodes W after the client's id c and reports the    *)
(* rest of the ids up to the last of them.                                 *)
LEMMA WindowAccounts ==
    ASSUME list \subseteq Ids, NEW c \in Nat, NEW request,
           NEW last \in Window(c, request),
           \A i \in Window(c, request) : i <= last
    PROVE  /\ Missed(c, request) \in Int
           /\ Cardinality(Window(c, request)) + Missed(c, request) = last - c
           /\ Window(c, request) \subseteq (c + 1)..last
<1> DEFINE W == Window(c, request)
           gap == [i \in Ids |-> Gap(i)]
           S == {i \in W : ~Exceeds(c, i, request)}
<1>1. W \subseteq Ahead(c) /\ W \subseteq list
  BY DEF Window, Ahead, Least
<1>2. \A i \in list : i \in Nat /\ i \in Ids
  BY DEF Ids
<1>3. last \in Nat /\ last > c /\ \A i \in W : i \in Nat /\ i > c /\ i <= last
  BY <1>1, <1>2 DEF Ahead
<1>4. PICK m \in Ids : Follows(c, m)
  BY <1>1, NodeFollows
<1>5. Gap(c) = m - (c + 1) /\ Least(Ahead(c)) = {m} /\ m \in Nat /\ m > c
  BY <1>4, GapIs
<1>6. m <= last /\ \A i \in W : m <= i
  BY <1>1, <1>4 DEF Follows
<1>7. CASE request = 0
  <2>1. W = {m} /\ last = m
    BY <1>5, <1>7 DEF Window
  <2>2. Missed(c, request) = Gap(c) + 0
    BY <1>7 DEF Missed
  <2>3. Cardinality(W) = 1
    BY <2>1, FS_Singleton
  <2> HIDE DEF W
  <2> QED
    BY <1>3, <1>5, <2>1, <2>2, <2>3 DEF W
<1>8. CASE request # 0
  <2>1. \A i \in Ahead(c) : i \in W <=> \A j \in Ahead(c) : j < i => ~Exceeds(c, j, request)
    BY <1>8 DEF Window
  <2>2. m \in W
    <3>1. m \in Ahead(c) /\ \A j \in Ahead(c) : ~(j < m)
      BY <1>2, <1>4 DEF Follows, Ahead
    <3> QED
      BY <2>1, <3>1
  <2>3. \A i \in list : m <= i /\ i <= last => i \in W
    <3> SUFFICES ASSUME NEW i \in list, m <= i, i <= last PROVE i \in W
      OBVIOUS
    <3>1. i \in Ahead(c)
      BY <1>2, <1>5 DEF Ahead
    <3>2. \A j \in Ahead(c) : j < i => j < last
      BY <1>2, <1>3 DEF Ahead
    <3>3. \A j \in Ahead(c) : j < last => ~Exceeds(c, j, request)
      BY <1>1, <2>1
    <3> QED
      BY <2>1, <3>1, <3>2, <3>3
  <2>4. /\ Total(gap, W \ {last}) + Cardinality(W) = last - m + 1
        /\ \A i \in W \ {last} : Gap(i) \in Nat
    <3> HIDE DEF W
    <3> QED
      BY <1>1, <1>3, <1>6, <2>2, <2>3, GapsOf DEF W
  <2>5. W \ {last} \subseteq S
    <3>1. \A i \in W \ {last} : i \in Ahead(c) /\ i < last /\ last \in Ahead(c)
      BY <1>1, <1>3
    <3> QED
      BY <2>1, <3>1
  <2>6. last \in S => Gap(last) = 0
    <3> SUFFICES ASSUME ~Exceeds(c, last, request) PROVE Ahead(last) = {}
      BY NoGapAtEnd
    <3> SUFFICES ASSUME Ahead(last) # {} PROVE FALSE
      OBVIOUS
    <3>1. PICK n \in Ids : Follows(last, n)
      BY <1>3, NodeFollows
    <3>2. n \in list /\ n > last /\ n \in Nat /\ n \in Ahead(c)
      BY <1>2, <1>3, <3>1 DEF Follows, Ahead
    <3>3. ASSUME NEW j \in Ahead(c), j < n PROVE ~Exceeds(c, j, request)
      <4>1. j \in Nat /\ j <= last
        BY <1>2, <1>3, <3>1, <3>2, <3>3 DEF Follows, Ahead
      <4>2. CASE j = last
        BY <4>2
      <4>3. CASE j < last
        BY <1>1, <2>1, <4>3
      <4> QED
        BY <1>3, <4>1, <4>2, <4>3
    <3>4. n \in W
      BY <2>1, <3>2, <3>3
    <3> QED
      BY <1>3, <3>2, <3>4
  <2>7. IsFiniteSet(W \ {last}) /\ IsFiniteSet({last})
    BY <1>1, IdsFinite, FS_Singleton
  <2>8. Total(gap, S) = Total(gap, W \ {last})
    <3>1. CASE last \in S
      <4>1. S = (W \ {last}) \cup {last} /\ (W \ {last}) \cap {last} = {}
        BY <2>5, <3>1
      <4>2. \A i \in (W \ {last}) \cup {last} : gap[i] \in Nat
        BY <1>1, <1>2, <2>4, <2>6, <3>1
      <4>3. gap[last] = 0
        BY <1>1, <1>2, <2>6, <3>1
      <4> HIDE DEF gap, W, S
      <4>4. Total(gap, {last}) = 0
        BY <4>3, TotalSingle
      <4>5. Total(gap, S) = Total(gap, W \ {last}) + Total(gap, {last})
        BY <2>7, <4>1, <4>2, TotalUnion
      <4>6. Total(gap, W \ {last}) \in Nat
        BY <2>7, <4>2, TotalType
      <4> QED
        BY <4>4, <4>5, <4>6
    <3>2. CASE last \notin S
      <4>1. S = W \ {last}
        BY <2>5, <3>2
      <4> QED
        BY <4>1
    <3> QED
      BY <3>1, <3>2
  <2>9. Missed(c, request) = Gap(c) + Total(gap, S)
    BY <1>8 DEF Missed
  <2>10. Cardinality(W) \in Nat
    BY <1>1, IdsFinite, FS_CardinalityType
  <2>11. Total(gap, W \ {last}) \in Nat
    <3>1. \A i \in W \ {last} : gap[i] \in Nat
      BY <1>1, <1>2, <2>4
    <3> HIDE DEF gap, W
    <3> QED
      BY <2>7, <3>1, TotalType
  <2>12. /\ Missed(c, request) \in Int
         /\ Cardinality(W) + Missed(c, request) = last - c
    <3> HIDE DEF gap, W, S
    <3> QED
      BY <1>3, <1>5, <2>4, <2>8, <2>9, <2>10, <2>11
  <2>13. W \subseteq (c + 1)..last
    <3> HIDE DEF W
    <3>1. \A i \in W : i \in (c + 1)..last
      BY <1>3
    <3> QED
      BY <3>1
  <2> QED
    BY <2>12, <2>13
<1> QED
  BY <1>7, <1>8

(* What a client has received lies behind its id. *)
ClientsInv ==
    /\ ReaderAccounting
    /\ dropped \in [Readers -> Int]
    /\ \A r \in Readers : got[r] \subseteq 1..cursor[r]

LEMMA ClientsStep ==
    ASSUME IInv, ClientsInv, [Next]_vars
    PROVE  ClientsInv'
<1> USE BucketAssumption DEF IInv, TypeOK
<1>1. ASSUME NEW r \in Readers, NEW request \in Requests, GetNextData(r, request)
      PROVE  ClientsInv'
  <2> DEFINE W == Window(cursor[r], request)
             missed == Missed(cursor[r], request)
  <2>1. PICK last \in W :
           /\ \A i \in W : i <= last
           /\ cursor' = [cursor EXCEPT ![r] = last]
    BY <1>1 DEF GetNextData
  <2>2. /\ got' = [got EXCEPT ![r] = @ \cup W]
        /\ dropped' = [dropped EXCEPT ![r] = @ + missed]
    BY <1>1 DEF GetNextData
  <2>3. cursor[r] \in Nat /\ got[r] \subseteq 1..cursor[r] /\ dropped[r] \in Int
    BY DEF ClientsInv
  <2>4. /\ missed \in Int /\ Cardinality(W) + missed = last - cursor[r]
        /\ W \subseteq (cursor[r] + 1)..last
    BY <2>1, <2>3, WindowAccounts
  <2> HIDE DEF W, missed
  <2>5. last \in Nat /\ last > cursor[r]
    BY <2>1, <2>3, <2>4
  <2>6. IsFiniteSet(W) /\ IsFiniteSet(got[r]) /\ got[r] \cap W = {}
    <3>1. IsFiniteSet(1..cursor[r]) /\ IsFiniteSet((cursor[r] + 1)..last)
      BY <2>3, <2>5, FS_Interval
    <3>2. IsFiniteSet(W)
      BY <2>4, <3>1, FS_Subset
    <3>3. IsFiniteSet(got[r])
      BY <2>3, <3>1, FS_Subset
    <3>4. got[r] \cap W = {}
      BY <2>3, <2>4
    <3> QED
      BY <3>2, <3>3, <3>4
  <2>7. Cardinality(got[r] \cup W) = Cardinality(got[r]) + Cardinality(W)
    <3>1. Cardinality(got[r] \cup W)
             = Cardinality(got[r]) + Cardinality(W) - Cardinality(got[r] \cap W)
      BY <2>6, FS_Union
    <3>2. Cardinality(got[r] \cap W) = 0
      BY <2>6, FS_EmptySet
    <3>3. Cardinality(got[r]) \in Nat /\ Cardinality(W) \in Nat
      BY <2>6, FS_CardinalityType
    <3> QED
      BY <3>1, <3>2, <3>3
  <2>8. Cardinality(got[r]) + dropped[r] = cursor[r]
    BY DEF ClientsInv, ReaderAccounting
  <2>9. Cardinality(got[r]) \in Nat /\ Cardinality(W) \in Nat
    BY <2>6, FS_CardinalityType
  <2>10. Cardinality(got[r] \cup W) + (dropped[r] + missed) = last
    <3>1. missed \in Int /\ Cardinality(W) + missed = last - cursor[r]
      BY <2>4
    <3>2. cursor[r] \in Nat /\ dropped[r] \in Int /\ last \in Nat
      BY <2>3, <2>5
    <3> QED
      BY ONLY <3>1, <3>2, <2>7, <2>8, <2>9
  <2>11. \A q \in Readers :
            /\ got'[q] = IF q = r THEN got[r] \cup W ELSE got[q]
            /\ dropped'[q] = IF q = r THEN dropped[r] + missed ELSE dropped[q]
            /\ cursor'[q] = IF q = r THEN last ELSE cursor[q]
    BY <2>1, <2>2 DEF ClientsInv
  <2>12. ReaderAccounting'
    BY <2>10, <2>11 DEF ClientsInv, ReaderAccounting
  <2>13. dropped' \in [Readers -> Int]
    BY <2>2, <2>4 DEF ClientsInv
  <2>14. got[r] \cup W \subseteq 1..last
    <3>1. \A i \in got[r] : i \in 1..last
      BY <2>3, <2>5
    <3>2. \A i \in W : i \in 1..last
      BY <2>3, <2>4, <2>5
    <3> QED
      BY <3>1, <3>2
  <2>15. \A q \in Readers : got'[q] \subseteq 1..cursor'[q]
    BY <2>11, <2>14 DEF ClientsInv
  <2> QED
    BY <2>12, <2>13, <2>15 DEF ClientsInv
<1>2. CASE UNCHANGED readers
  BY <1>2 DEF ClientsInv, ReaderAccounting, readers
<1> QED
  BY <1>1, <1>2
     DEF Next, Publish, Add, AddFails, PublishBegin, RepublishBegin, Begin,
         FlushBatch, BatchEntry, SendEntry, End, vars

(* Every id up to the one a client got back is an entry it received or one *)
(* it was told it missed.                                                  *)
THEOREM ReadersAccount == Spec => []ReaderAccounting
<1>1. Init => ClientsInv
  BY FS_EmptySet DEF Init, ClientsInv, ReaderAccounting
<1>2. IInv /\ ClientsInv /\ [Next]_vars => ClientsInv'
  BY ClientsStep
<1>3. ClientsInv => ReaderAccounting
  BY DEF ClientsInv
<1> QED
  BY <1>1, <1>2, <1>3, Inductive, PTL DEF Spec
=============================================================================
