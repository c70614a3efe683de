---------------------------- MODULE BucketProofs ----------------------------
(***************************************************************************)
(* Theorems about Bucket for every capacity, batch size, set of data sizes *)
(* and number of clients.  None of them depends on what the sums of sizes  *)
(* are: whatever spill frees, it frees a beginning of what was published.  *)
(***************************************************************************)
EXTENDS Bucket, TLAPS

(* The ids in use: those given out so far. *)
IdsInUse ==
    /\ list \subseteq 1..masterID
    /\ orphans \subseteq 1..masterID
    /\ list \cap orphans = {}
    /\ lastPublish <= masterID
    /\ walk.at <= masterID

(* Where a loop stands: its batch is made of nodes it has passed. *)
LoopShape ==
    /\ walk.batch \subseteq list
    /\ \A i \in walk.batch : i <= walk.at
    /\ walk.op = "none" => walk.batch = {} /\ walk.at = 0
    /\ walk.op = "publish" => \A i \in walk.batch : i > lastPublish
    /\ walk.op = "publish" => walk.at = 0 \/ walk.at > lastPublish
    /\ walk.op = "republish" => walk.at <= lastPublish

(* What publish has put into messages so far. *)
Passed(i) ==
    \/ i <= lastPublish
    \/ walk.op = "publish" /\ i <= walk.at /\ i \notin walk.batch

LiveTimes ==
    /\ \A i \in list : times["live"][i] = IF Passed(i) THEN 1 ELSE 0
    /\ \A i \in (1..masterID) \ (list \cup orphans) : times["live"][i] = 1
    /\ \A i \in orphans : times["live"][i] = 0
    /\ \A i \in Ids : i > masterID => times["live"][i] = 0

(* What the replay that runs has put into messages so far. *)
HistoryTimes ==
    /\ \A i \in Ids : times["history"][i] <= 1
    /\ walk.op = "republish" =>
          \A i \in Ids :
              times["history"][i] =
                  IF i \in list /\ i <= walk.at /\ i \notin walk.batch
                  THEN 1 ELSE 0

IInv == TypeOK /\ IdsInUse /\ LoopShape /\ LiveTimes /\ HistoryTimes

-----------------------------------------------------------------------------
(* spill frees nodes of the list that were published and are not persistent. *)
LEMMA SpiltIsSpillable ==
    \A bytes : Spilt(bytes) \subseteq {i \in list : i <= lastPublish} \ persistent
BY DEF Spilt, Spillable

(* If spill frees a node it frees every node in front of it that it may.   *)
LEMMA SpiltIsPrefix ==
    ASSUME list \subseteq Ids, NEW bytes, NEW i \in Spilt(bytes),
           NEW j \in Spillable, j < i, MaxId \in Nat
    PROVE  j \in Spilt(bytes)
<1>1. i \in Ids /\ j \in Ids
  BY DEF Spilt, Spillable
<1>2. \A k \in {0} \cup {n \in list : n <= lastPublish} : k < j => k < i
  <2>1. \A k \in {0} \cup list : k \in Int
    BY DEF Ids
  <2> QED
    BY <1>1, <2>1 DEF Ids
<1> QED
  BY <1>2 DEF Spilt

LEMMA IdsInRange == Ids \subseteq 0..MaxId
BY BucketAssumption DEF Ids

LEMMA InitTypeOK == Init => TypeOK
BY BucketAssumption DEF Init, TypeOK, NoWalk, Topics, Ids

LEMMA NextTypeOK == TypeOK /\ [Next]_vars => TypeOK'
<1> USE BucketAssumption
<1> SUFFICES ASSUME TypeOK, [Next]_vars PROVE TypeOK'
  OBVIOUS
<1> USE DEF TypeOK
<1>1. ASSUME NEW bytes \in Sizes, NEW persists \in Persistence, Add(bytes, persists)
      PROVE  TypeOK'
  <2>1. masterID' \in 0..MaxId /\ masterID + 1 \in Ids
    BY <1>1 DEF Add, NewId, Ids
  <2>2. list' \subseteq Ids /\ orphans' \subseteq Ids
    BY <1>1, <2>1, SpiltIsSpillable DEF Add, NewId
  <2>3. tail' \in 0..MaxId /\ persistent' \subseteq Ids
    BY <1>1, <2>1 DEF Add, NewId, Ids
  <2>4. sizeOf' \in [Ids -> Nat]
    BY <1>1, <2>1 DEF Add, NewId, Forget
  <2> QED
    BY <1>1, <2>1, <2>2, <2>3, <2>4 DEF Add, readers
<1>2. ASSUME NEW bytes \in Sizes, NEW ok \in BOOLEAN, AddFails(bytes, ok)
      PROVE  TypeOK'
  BY <1>2, SpiltIsSpillable DEF AddFails, TailAfterSpill, Forget, readers
<1>3. ASSUME NEW ok \in BOOLEAN, RepublishBegin(ok)
      PROVE  TypeOK'
  BY <1>3 DEF RepublishBegin, Begin, store, readers, Topics
<1>4. ASSUME NEW ok \in BOOLEAN, PublishBegin(ok)
      PROVE  TypeOK'
  BY <1>4 DEF PublishBegin, Begin, store, readers
<1>5. ASSUME NEW S, Send(S) PROVE times' \in [Topics -> [Ids -> Nat]]
  BY <1>5 DEF Send, Topics, Topic
<1>6. ASSUME NEW i \in Ids, FlushBatch(i) PROVE TypeOK'
  <2>1. times' \in [Topics -> [Ids -> Nat]]
    BY <1>5, <1>6 DEF FlushBatch
  <2> QED
    BY <1>6, <2>1 DEF FlushBatch, store, readers
<1>7. ASSUME NEW i \in Ids, BatchEntry(i) PROVE TypeOK'
  BY <1>7, IdsInRange DEF BatchEntry, store, readers
<1>8. ASSUME NEW i \in Ids, SendEntry(i) PROVE TypeOK'
  <2>1. times' \in [Topics -> [Ids -> Nat]]
    BY <1>5, <1>8 DEF SendEntry
  <2> QED
    BY <1>8, <2>1, IdsInRange DEF SendEntry, store, readers
<1>9. CASE End
  <2>1. times' \in [Topics -> [Ids -> Nat]]
    BY <1>5, <1>9 DEF End
  <2> QED
    BY <1>9, <2>1 DEF End, LastIdSent, NoWalk, store, readers
<1>10. ASSUME NEW r \in Readers, NEW request \in Requests, GetNextData(r, request)
       PROVE  TypeOK'
  <2>1. Window(cursor[r], request) \subseteq Ids
    BY DEF Window, Ahead, Least
  <2>2. cursor' \in [Readers -> 0..MaxId]
    BY <1>10, <2>1 DEF GetNextData, Ids
  <2>3. got' \in [Readers -> SUBSET Ids]
    BY <1>10, <2>1 DEF GetNextData
  <2> QED
    BY <1>10, <2>2, <2>3 DEF GetNextData, store
<1>11. CASE UNCHANGED vars
  BY <1>11 DEF vars, store, readers
<1> QED
  BY <1>1, <1>2, <1>3, <1>4, <1>6, <1>7, <1>8, <1>9, <1>10, <1>11
     DEF Next, Publish
(* TypeOK is an invariant: with it, tail, lastPublish and every cursor are *)
(* ids that add() gave out, or 0.                                          *)
THEOREM TypeCorrect == Spec => []TypeOK
BY InitTypeOK, NextTypeOK, PTL DEF Spec

-----------------------------------------------------------------------------
(* A message adds one to the count of each of its entries, on its topic.   *)
LEMMA SendEffect ==
    ASSUME TypeOK, NEW S, Send(S)
    PROVE  \A t \in Topics, i \in Ids :
              times'[t][i] = IF t = Topic /\ i \in S
                             THEN times[t][i] + 1 ELSE times[t][i]
BY DEF TypeOK, Send, Topic, Topics

LEMMA InitInductive == Init => IInv
<1> SUFFICES ASSUME Init PROVE IInv
  OBVIOUS
<1>1. TypeOK
  BY BucketAssumption DEF Init, TypeOK, NoWalk, Topics, Ids
<1>2. IdsInUse /\ LoopShape
  BY BucketAssumption DEF Init, IdsInUse, LoopShape, NoWalk
<1>3. LiveTimes /\ HistoryTimes
  BY DEF Init, LiveTimes, HistoryTimes, NoWalk, Topics
<1> QED
  BY <1>1, <1>2, <1>3 DEF IInv

(* add leaves the loop alone and puts one new id in the list or beside it. *)
LEMMA AddInductive ==
    ASSUME IInv, NEW bytes \in Sizes, NEW persists \in Persistence,
           Add(bytes, persists)
    PROVE  IdsInUse' /\ LoopShape' /\ LiveTimes' /\ HistoryTimes'
<1> USE BucketAssumption DEF IInv, TypeOK
<1> DEFINE out == Spilt(bytes)
<1>1. /\ walk.op = "none" /\ masterID' = masterID + 1 /\ masterID < MaxId
      /\ list' \ {masterID + 1} = list \ out
      /\ orphans' \ {masterID + 1} = orphans
      /\ list' \subseteq (list \ out) \cup {masterID + 1}
      /\ orphans' \subseteq orphans \cup {masterID + 1}
      /\ masterID + 1 \in list' \cup orphans'
      /\ ~(masterID + 1 \in list' /\ masterID + 1 \in orphans')
      /\ UNCHANGED <<lastPublish, walk, maxSend, times, readers>>
  <2>1. masterID + 1 \notin list /\ masterID + 1 \notin orphans
    BY DEF IdsInUse
  <2> QED
    BY <2>1 DEF Add, NewId, Unlocked
<1> HIDE DEF out
<1>2. out \subseteq {i \in list : i <= lastPublish}
  BY SpiltIsSpillable DEF out
<1>3. IdsInUse'
  <2>1. list' \subseteq 1..masterID' /\ orphans' \subseteq 1..masterID'
    BY <1>1 DEF IdsInUse
  <2>2. list' \cap orphans' = {}
    BY <1>1, <1>2 DEF IdsInUse
  <2> QED
    BY <1>1, <2>1, <2>2 DEF IdsInUse
<1>4. LoopShape'
  BY <1>1 DEF LoopShape
<1>5. LiveTimes'
  <2>1. \A i \in list \cup orphans : i # masterID + 1
    BY DEF IdsInUse
  <2>2. masterID + 1 \in Ids /\ times["live"][masterID + 1] = 0
    BY <1>1 DEF LiveTimes, Ids
  <2>3. \A i \in list' : times'["live"][i] = IF Passed(i)' THEN 1 ELSE 0
    BY <1>1, <2>1, <2>2 DEF LiveTimes, Passed, IdsInUse
  <2>4. \A i \in (1..masterID') \ (list' \cup orphans') : times'["live"][i] = 1
    <3> SUFFICES ASSUME NEW i \in (1..masterID') \ (list' \cup orphans')
                 PROVE  times["live"][i] = 1
      BY <1>1
    <3>1. i \in 1..masterID /\ i \notin orphans
      <4>1. i \in 1..(masterID + 1) /\ i # masterID + 1
        BY ONLY <1>1, i \in (1..masterID') \ (list' \cup orphans')
      <4>2. i \notin orphans
        BY ONLY <1>1, <4>1, i \in (1..masterID') \ (list' \cup orphans')
      <4> QED
        BY ONLY <4>1, <4>2, masterID \in 0..MaxId, MaxId \in Nat
    <3>2. CASE i \in list
      BY <1>1, <1>2, <3>2 DEF LiveTimes, Passed
    <3>3. CASE i \notin list
      BY <3>1, <3>3 DEF LiveTimes
    <3> QED
      BY <3>2, <3>3
  <2>5. \A i \in orphans' : times'["live"][i] = 0
    BY <1>1, <2>2 DEF LiveTimes
  <2>6. \A i \in Ids : i > masterID' => times'["live"][i] = 0
    BY <1>1 DEF LiveTimes, Ids
  <2> QED
    BY <2>3, <2>4, <2>5, <2>6 DEF LiveTimes
<1>6. HistoryTimes'
  BY <1>1 DEF HistoryTimes
<1> QED
  BY <1>3, <1>4, <1>5, <1>6

LEMMA AddFailsInductive ==
    ASSUME IInv, NEW bytes \in Sizes, NEW ok \in BOOLEAN, AddFails(bytes, ok)
    PROVE  IdsInUse' /\ LoopShape' /\ LiveTimes' /\ HistoryTimes'
<1> USE BucketAssumption DEF IInv, TypeOK
<1> DEFINE out == Spilt(bytes)
<1>1. /\ walk.op = "none" /\ list' = list \ out
      /\ UNCHANGED <<masterID, orphans, lastPublish, walk, times>>
  BY DEF AddFails, Unlocked
<1> HIDE DEF out
<1>2. out \subseteq {i \in list : i <= lastPublish}
  BY SpiltIsSpillable DEF out
<1>3. IdsInUse' /\ LoopShape' /\ HistoryTimes'
  BY <1>1 DEF IdsInUse, LoopShape, HistoryTimes
<1>4. LiveTimes'
  BY <1>1, <1>2 DEF LiveTimes, Passed
<1> QED
  BY <1>3, <1>4

LEMMA BeginInductive ==
    ASSUME IInv, NEW ok \in BOOLEAN, PublishBegin(ok) \/ RepublishBegin(ok)
    PROVE  IdsInUse' /\ LoopShape' /\ LiveTimes' /\ HistoryTimes'
<1> USE BucketAssumption DEF IInv, TypeOK
<1>1. /\ walk.op = "none" /\ UNCHANGED <<store, lastPublish>>
      /\ walk'.at = 0 /\ walk'.batch = {}
      /\ walk'.op \in {"publish", "republish"}
  BY DEF PublishBegin, RepublishBegin, Begin, Unlocked
<1>2. times'["live"] = times["live"]
  BY DEF PublishBegin, RepublishBegin, Topics
<1>3. /\ walk'.op = "publish" => times' = times
      /\ walk'.op = "republish" => times'["history"] = [i \in Ids |-> 0]
  BY DEF PublishBegin, RepublishBegin, Begin, Topics
<1>4. IdsInUse' /\ LoopShape'
  BY <1>1 DEF store, IdsInUse, LoopShape
<1>5. LiveTimes'
  <2>1. \A i \in list : i \in Nat /\ i > 0
    BY DEF Ids
  <2> QED
    BY <1>1, <1>2, <2>1 DEF store, LiveTimes, Passed
<1>6. HistoryTimes'
  <2>1. \A i \in Ids : i \in Nat /\ i > 0
    BY DEF Ids
  <2>2. CASE walk'.op = "publish"
    BY <1>3, <2>2 DEF HistoryTimes
  <2>3. CASE walk'.op = "republish"
    BY <1>1, <1>3, <2>1, <2>3 DEF HistoryTimes
  <2> QED
    BY <1>1, <2>2, <2>3
<1> QED
  BY <1>4, <1>5, <1>6

(* A step of the loop that sends the nodes S, which had not been sent, and *)
(* counts them as passed keeps the account of what was published.          *)
LEMMA LiveAfterSend ==
    ASSUME IInv, UNCHANGED store, NEW S \in SUBSET list,
           \A j \in S : ~Passed(j),
           \A j \in list : Passed(j)' <=> Passed(j) \/ j \in S,
           \A j \in Ids : times'["live"][j] = IF j \in S
                            THEN times["live"][j] + 1 ELSE times["live"][j]
    PROVE  LiveTimes'
<1> USE BucketAssumption DEF IInv, TypeOK
<1>1. 1..masterID \subseteq Ids
  BY DEF Ids
<1>2. \A j \in Ids \ list : times'["live"][j] = times["live"][j]
  OBVIOUS
<1>3. \A j \in list : times'["live"][j] = IF Passed(j)' THEN 1 ELSE 0
  <2> SUFFICES ASSUME NEW j \in list
               PROVE  times'["live"][j] = IF Passed(j)' THEN 1 ELSE 0
    OBVIOUS
  <2>1. j \in Ids /\ times["live"][j] = IF Passed(j) THEN 1 ELSE 0
    BY DEF LiveTimes
  <2>2. CASE j \in S
    BY <2>1, <2>2
  <2>3. CASE j \notin S
    BY <2>1, <2>3
  <2> QED
    BY <2>2, <2>3
<1>4. /\ orphans \subseteq Ids \ list
      /\ (1..masterID) \ (list \cup orphans) \subseteq Ids \ list
  BY <1>1 DEF IdsInUse
<1>5. \A j \in Ids : j > masterID => j \in Ids \ list
  BY DEF IdsInUse
<1> QED
  BY <1>2, <1>3, <1>4, <1>5 DEF LiveTimes, store

(* A step that sends on the history topic keeps it too. *)
LEMMA LiveUntouched ==
    ASSUME IInv, UNCHANGED store,
           \A j \in list : Passed(j)' <=> Passed(j),
           \A j \in Ids : times'["live"][j] = times["live"][j]
    PROVE  LiveTimes'
<1> USE BucketAssumption DEF IInv, TypeOK
<1>1. 1..masterID \subseteq Ids
  BY DEF Ids
<1> QED
  BY <1>1 DEF LiveTimes, IdsInUse, store

(* What a loop that has come to node i knows of it. *)
LEMMA NodeFacts ==
    ASSUME IInv, NEW i \in Ids, AtNode(i)
    PROVE  /\ i \in list /\ i \in Nat /\ i > walk.at /\ i <= masterID
           /\ i \notin walk.batch
           /\ walk.op = "publish" => i > lastPublish
           /\ walk.op = "republish" => i <= lastPublish
           /\ \A j \in list : j > walk.at /\ j < i =>
                 /\ walk.op = "publish" => j <= lastPublish
                 /\ walk.op = "republish" => j > lastPublish
<1> USE BucketAssumption DEF IInv, TypeOK
<1>1. i \in Nat /\ \A j \in list : j \in Nat
  BY DEF Ids
<1>2. i \in list /\ i > walk.at /\ i <= masterID
  BY DEF AtNode, Pending, IdsInUse
<1>3. walk.op \in {"publish", "republish"}
  BY DEF AtNode
<1> QED
  BY <1>1, <1>2, <1>3 DEF AtNode, Pending, LoopShape

LEMMA FlushInductive ==
    ASSUME IInv, NEW i \in Ids, FlushBatch(i)
    PROVE  IdsInUse' /\ LoopShape' /\ LiveTimes' /\ HistoryTimes'
<1> USE BucketAssumption DEF IInv, TypeOK
<1>1. /\ UNCHANGED store /\ UNCHANGED lastPublish
      /\ walk'.op = walk.op /\ walk'.at = walk.at /\ walk'.batch = {}
      /\ walk.op \in {"publish", "republish"}
      /\ walk.batch \in SUBSET list
  BY DEF FlushBatch, AtNode, LoopShape
<1>2. \A t \in Topics, j \in Ids :
         times'[t][j] = IF t = Topic /\ j \in walk.batch
                        THEN times[t][j] + 1 ELSE times[t][j]
  BY SendEffect DEF FlushBatch
<1>3. IdsInUse' /\ LoopShape'
  BY <1>1 DEF store, IdsInUse, LoopShape
<1>4. CASE walk.op = "publish"
  <2>1. Topic = "live" /\ "live" \in Topics /\ "history" \in Topics
    BY <1>4 DEF Topic, Topics
  <2>2. \A j \in list : j \in Nat
    BY DEF Ids
  <2>3. \A j \in walk.batch : ~Passed(j) /\ j <= walk.at
    BY <1>4, <2>2 DEF LoopShape, Passed
  <2>4. \A j \in list : Passed(j)' <=> Passed(j) \/ j \in walk.batch
    BY <1>1, <1>4, <2>3 DEF Passed
  <2>5. LiveTimes'
    <3>1. \A j \in walk.batch : ~Passed(j)
      BY <2>3
    <3>2. \A j \in Ids : times'["live"][j] = IF j \in walk.batch
                           THEN times["live"][j] + 1 ELSE times["live"][j]
      BY ONLY <1>2, <2>1
    <3> QED
      BY ONLY IInv, <1>1, <2>4, <3>1, <3>2, LiveAfterSend
  <2>6. HistoryTimes'
    BY <1>1, <1>2, <1>4, <2>1 DEF HistoryTimes
  <2> QED
    BY <1>3, <2>5, <2>6
<1>5. CASE walk.op = "republish"
  <2>1. Topic = "history" /\ "live" \in Topics /\ "history" \in Topics
    BY <1>5 DEF Topic, Topics
  <2>2. LiveTimes'
    BY <1>1, <1>2, <1>5, <2>1, LiveUntouched DEF Passed
  <2>3. \A j \in Ids :
           times'["history"][j] = IF j \in list /\ j <= walk.at THEN 1 ELSE 0
    BY <1>2, <1>5, <2>1 DEF HistoryTimes, LoopShape
  <2>4. HistoryTimes'
    BY <1>1, <2>3 DEF HistoryTimes, store
  <2> QED
    BY <1>3, <2>2, <2>4
<1> QED
  BY <1>1, <1>4, <1>5

LEMMA BatchInductive ==
    ASSUME IInv, NEW i \in Ids, BatchEntry(i)
    PROVE  IdsInUse' /\ LoopShape' /\ LiveTimes' /\ HistoryTimes'
<1> USE BucketAssumption DEF IInv, TypeOK
<1>1. /\ UNCHANGED store /\ UNCHANGED lastPublish /\ UNCHANGED times
      /\ walk'.op = walk.op /\ walk'.at = i /\ walk'.batch = walk.batch \cup {i}
      /\ walk.op \in {"publish", "republish"}
      /\ AtNode(i)
  BY DEF BatchEntry, AtNode
<1>2. \A j \in list : j \in Nat
  BY DEF Ids
<1>7. /\ i \in list /\ i \in Nat /\ i > walk.at /\ i <= masterID
      /\ i \notin walk.batch
      /\ walk.op = "publish" => i > lastPublish
      /\ walk.op = "republish" => i <= lastPublish
      /\ \A j \in list : j > walk.at /\ j < i =>
            /\ walk.op = "publish" => j <= lastPublish
            /\ walk.op = "republish" => j > lastPublish
  BY <1>1, NodeFacts
<1>8. walk.at \in Nat /\ lastPublish \in Nat
  OBVIOUS
<1>3. IdsInUse' /\ LoopShape'
  <2>1. IdsInUse'
    BY <1>1, <1>7 DEF store, IdsInUse
  <2>2. \A j \in walk.batch \cup {i} : j <= i
    BY <1>2, <1>7, <1>8 DEF LoopShape
  <2> QED
    BY <1>1, <1>7, <1>8, <2>1, <2>2 DEF store, LoopShape
<1>4. \A j \in list : Passed(j)' <=> Passed(j)
  <2> SUFFICES ASSUME NEW j \in list, walk.op = "publish"
               PROVE  (j <= lastPublish \/ (j <= i /\ j \notin walk.batch \cup {i}))
                  <=> (j <= lastPublish \/ (j <= walk.at /\ j \notin walk.batch))
    BY <1>1 DEF Passed
  <2> QED
    BY <1>2, <1>7, <1>8
<1>5. LiveTimes'
  BY <1>1, <1>4, LiveUntouched
<1>6. HistoryTimes'
  <2> SUFFICES ASSUME walk.op = "republish", NEW j \in Ids
               PROVE  (j \in list /\ j <= walk.at /\ j \notin walk.batch)
                         <=> (j \in list /\ j <= i /\ j \notin walk.batch \cup {i})
    BY <1>1 DEF HistoryTimes, store
  <2>1. j \in Nat
    BY DEF Ids
  <2>2. ASSUME j \in list, j > walk.at, j < i PROVE FALSE
    <3>1. j > lastPublish /\ i <= lastPublish
      BY <1>1, <2>2, NodeFacts
    <3> QED
      BY <2>1, <2>2, <3>1, <1>1, NodeFacts
  <2>3. i \in Nat /\ i > walk.at
    BY <1>1, NodeFacts
  <2> QED
    BY <2>1, <2>2, <2>3
<1> QED
  BY <1>3, <1>5, <1>6

LEMMA SendEntryInductive ==
    ASSUME IInv, NEW i \in Ids, SendEntry(i)
    PROVE  IdsInUse' /\ LoopShape' /\ LiveTimes' /\ HistoryTimes'
<1> USE BucketAssumption DEF IInv, TypeOK
<1>1. /\ UNCHANGED store /\ UNCHANGED lastPublish
      /\ walk'.op = walk.op /\ walk'.at = i /\ walk'.batch = {} /\ walk.batch = {}
      /\ walk.op \in {"publish", "republish"}
      /\ AtNode(i)
  BY DEF SendEntry, AtNode
<1>2. \A j \in list : j \in Nat
  BY DEF Ids
<1>8. /\ i \in list /\ i \in Nat /\ i > walk.at /\ i <= masterID
      /\ i \notin walk.batch
      /\ walk.op = "publish" => i > lastPublish
      /\ walk.op = "republish" => i <= lastPublish
      /\ \A j \in list : j > walk.at /\ j < i =>
            /\ walk.op = "publish" => j <= lastPublish
            /\ walk.op = "republish" => j > lastPublish
  BY <1>1, NodeFacts
<1>9. walk.at \in Nat /\ lastPublish \in Nat
  OBVIOUS
<1>3. IdsInUse' /\ LoopShape'
  BY <1>1, <1>8, <1>9 DEF store, IdsInUse, LoopShape
<1>4. \A t \in Topics, j \in Ids :
         times'[t][j] = IF t = Topic /\ j \in {i}
                        THEN times[t][j] + 1 ELSE times[t][j]
  BY SendEffect DEF SendEntry
<1>5. i \in Nat /\ i \in list /\ i > walk.at
  BY <1>1, NodeFacts
<1>6. CASE walk.op = "publish"
  <2>1. Topic = "live" /\ "live" \in Topics /\ "history" \in Topics
    BY <1>6 DEF Topic, Topics
  <2>2. ~Passed(i)
    BY <1>1, <1>5, <1>6, NodeFacts DEF Passed
  <2>3. \A j \in list : Passed(j)' <=> Passed(j) \/ j \in {i}
    <3> SUFFICES ASSUME NEW j \in list
                 PROVE  (j <= lastPublish \/ j <= i)
                    <=> (j <= lastPublish \/ j <= walk.at \/ j = i)
      BY <1>1, <1>6 DEF Passed
    <3> QED
      BY <1>2, <1>6, <1>8, <1>9
  <2>4. LiveTimes'
    <3>1. {i} \in SUBSET list /\ \A j \in {i} : ~Passed(j)
      BY <1>5, <2>2
    <3>2. \A j \in Ids : times'["live"][j] = IF j \in {i}
              THEN times["live"][j] + 1 ELSE times["live"][j]
      BY <1>4, <2>1
    <3> QED
      BY <1>1, <2>3, <3>1, <3>2, LiveAfterSend
  <2>5. HistoryTimes'
    BY <1>1, <1>4, <1>6, <2>1 DEF HistoryTimes
  <2> QED
    BY <1>3, <2>4, <2>5
<1>7. CASE walk.op = "republish"
  <2>1. Topic = "history" /\ "live" \in Topics /\ "history" \in Topics
    BY <1>7 DEF Topic, Topics
  <2>2. \A j \in list : Passed(j)' <=> Passed(j)
    BY <1>1, <1>7 DEF Passed
  <2>3. LiveTimes'
    BY <1>1, <1>4, <2>1, <2>2, LiveUntouched
  <2>4. \A j \in list : j <= i <=> j <= walk.at \/ j = i
    BY <1>1, <1>2, <1>5, <1>7, NodeFacts
  <2>5. \A j \in Ids :
           times'["history"][j] = IF j \in list /\ j <= i THEN 1 ELSE 0
    <3> SUFFICES ASSUME NEW j \in Ids
                 PROVE  times'["history"][j] = IF j \in list /\ j <= i THEN 1 ELSE 0
      OBVIOUS
    <3>1. times["history"][j] = IF j \in list /\ j <= walk.at THEN 1 ELSE 0
      BY <1>1, <1>7 DEF HistoryTimes
    <3>2. CASE j = i
      BY <1>4, <1>5, <2>1, <3>1, <3>2
    <3>3. CASE j # i
      BY <1>4, <2>1, <2>4, <3>1, <3>3
    <3> QED
      BY <3>2, <3>3
  <2>6. HistoryTimes'
    BY <1>1, <2>5 DEF HistoryTimes, store
  <2> QED
    BY <1>3, <2>3, <2>6
<1> QED
  BY <1>1, <1>6, <1>7

LEMMA EndInductive ==
    ASSUME IInv, End
    PROVE  IdsInUse' /\ LoopShape' /\ LiveTimes' /\ HistoryTimes'
<1> USE BucketAssumption DEF IInv, TypeOK
<1>1. /\ UNCHANGED store /\ lastPublish' = LastIdSent
      /\ walk'.op = "none" /\ walk'.at = 0 /\ walk'.batch = {}
      /\ walk.op \in {"publish", "republish"}
      /\ Pending = {}
      /\ walk.batch \in SUBSET list
  BY DEF End, NoWalk, LoopShape
<1>2. \A j \in list : j \in Nat /\ j > 0
  BY DEF Ids
<1>3. IdsInUse' /\ LoopShape'
  BY <1>1 DEF store, IdsInUse, LoopShape, LastIdSent
<1>4. \A t \in Topics, j \in Ids :
         times'[t][j] = IF t = Topic /\ j \in walk.batch
                        THEN times[t][j] + 1 ELSE times[t][j]
  BY SendEffect DEF End
<1>5. walk.at \in Nat /\ lastPublish \in Nat
  OBVIOUS
<1>6. CASE walk.op = "publish"
  <2>1. Topic = "live" /\ "live" \in Topics /\ "history" \in Topics
    BY <1>6 DEF Topic, Topics
  <2>2. \A j \in walk.batch : ~Passed(j) /\ j <= walk.at
    BY <1>1, <1>2, <1>5, <1>6 DEF LoopShape, Passed
  <2>3. \A j \in list : Passed(j)' <=> Passed(j) \/ j \in walk.batch
    <3> SUFFICES ASSUME NEW j \in list
                 PROVE  j <= lastPublish' <=>
                           j <= lastPublish \/ j <= walk.at
      BY <1>1, <1>6, <2>2 DEF Passed
    <3>1. lastPublish' = IF walk.at > 0 THEN walk.at ELSE lastPublish
      BY <1>1, <1>6 DEF LastIdSent
    <3>2. walk.at > 0 => walk.at > lastPublish
      BY <1>5, <1>6 DEF LoopShape
    <3> QED
      BY <1>2, <1>5, <3>1, <3>2
  <2>4. LiveTimes'
    <3>1. \A j \in Ids : times'["live"][j] = IF j \in walk.batch
              THEN times["live"][j] + 1 ELSE times["live"][j]
      BY <1>4, <2>1
    <3> QED
      BY <1>1, <2>2, <2>3, <3>1, LiveAfterSend
  <2>5. HistoryTimes'
    BY <1>1, <1>4, <1>6, <2>1 DEF HistoryTimes
  <2> QED
    BY <1>3, <2>4, <2>5
<1>7. CASE walk.op = "republish"
  <2>1. Topic = "history" /\ "live" \in Topics /\ "history" \in Topics
    BY <1>7 DEF Topic, Topics
  <2>2. \A j \in list : Passed(j)' <=> Passed(j)
    BY <1>1, <1>7 DEF Passed, LastIdSent
  <2>3. LiveTimes'
    BY <1>1, <1>4, <2>1, <2>2, LiveUntouched
  <2>4. HistoryTimes'
    BY <1>1, <1>4, <1>7, <2>1 DEF HistoryTimes
  <2> QED
    BY <1>3, <2>3, <2>4
<1> QED
  BY <1>1, <1>6, <1>7

LEMMA NextInductive == IInv /\ [Next]_vars => IInv'
<1> SUFFICES ASSUME IInv, [Next]_vars PROVE IInv'
  OBVIOUS
<1>1. TypeOK'
  BY NextTypeOK DEF IInv
<1>2. IdsInUse' /\ LoopShape' /\ LiveTimes' /\ HistoryTimes'
  <2>1. ASSUME UNCHANGED <<masterID, list, orphans, lastPublish, walk, times>>
        PROVE  IdsInUse' /\ LoopShape' /\ LiveTimes' /\ HistoryTimes'
    BY <2>1 DEF IInv, IdsInUse, LoopShape, LiveTimes, HistoryTimes, Passed
  <2>2. ASSUME NEW r \in Readers, NEW request \in Requests, GetNextData(r, request)
        PROVE  IdsInUse' /\ LoopShape' /\ LiveTimes' /\ HistoryTimes'
    BY <2>1, <2>2 DEF GetNextData, store
  <2>3. CASE UNCHANGED vars
    BY <2>1, <2>3 DEF vars, store
  <2> QED
    BY <2>2, <2>3, AddInductive, AddFailsInductive, BeginInductive,
       FlushInductive, BatchInductive, SendEntryInductive, EndInductive
       DEF Next, Publish
<1> QED
  BY <1>1, <1>2 DEF IInv

LEMMA Inductive == Spec => []IInv
BY InitInductive, NextInductive, PTL DEF Spec

-----------------------------------------------------------------------------
(* spill() frees only what publish() has given to the connectors, however  *)
(* batches, failures and refused additions interleave.                     *)
THEOREM NothingLostUnpublished == Spec => []NoUnpublishedLoss
<1>1. IInv => NoUnpublishedLoss
  <2> SUFFICES ASSUME IInv, NEW i \in (1..masterID) \ (list \cup orphans)
               PROVE  i \in Ids /\ times["live"][i] > 0
    BY DEF NoUnpublishedLoss, Published, Accepted
  <2>1. times["live"][i] = 1
    BY DEF IInv, LiveTimes
  <2> QED
    BY <2>1, BucketAssumption DEF IInv, TypeOK, Ids
<1> QED
  BY <1>1, Inductive, PTL

(* publish() gives no entry to the connectors twice, and a replay repeats  *)
(* none twice.                                                             *)
THEOREM NothingSentTwice == Spec => []SentAtMostOnce
<1>1. IInv => SentAtMostOnce
  <2> SUFFICES ASSUME IInv, NEW i \in Ids
               PROVE  times["live"][i] <= 1 /\ times["history"][i] <= 1
    BY DEF SentAtMostOnce, Topics
  <2>1. times["history"][i] <= 1
    BY DEF IInv, HistoryTimes
  <2>2. times["live"][i] \in {0, 1}
    <3>1. i \in 1..masterID \/ i > masterID
      BY BucketAssumption DEF IInv, TypeOK, Ids
    <3> QED
      BY <3>1 DEF IInv, LiveTimes
  <2> QED
    BY <2>1, <2>2
<1> QED
  BY <1>1, Inductive, PTL

(* Between two loops lastPublish separates the published entries of the    *)
(* list from the others.                                                   *)
THEOREM LastPublishSeparates == Spec => []LastPublishIsExact
<1>1. IInv => LastPublishIsExact
  <2> SUFFICES ASSUME IInv, walk.op = "none", NEW i \in list
               PROVE  i \in Ids /\ (times["live"][i] > 0 <=> i <= lastPublish)
    BY DEF LastPublishIsExact, Published, Unlocked
  <2>1. i \in Ids /\ times["live"][i] = IF i <= lastPublish THEN 1 ELSE 0
    BY DEF IInv, TypeOK, LiveTimes, Passed
  <2> QED
    BY <2>1
<1> QED
  BY <1>1, Inductive, PTL

(* Persistent entries stay in the bucket. *)
THEOREM PersistentKept == Spec => PersistentStays
<1>1. TypeOK /\ [Next]_vars
        => [\A i \in persistent :
               i \in list \cup orphans => i \in list' \cup orphans']_vars
  <2> SUFFICES ASSUME TypeOK, Next, NEW i \in persistent, i \in list \cup orphans
               PROVE  i \in list' \cup orphans'
    OBVIOUS
  <2>1. \A bytes : i \notin Spilt(bytes)
    BY SpiltIsSpillable
  <2>2. ASSUME NEW bytes, NEW persists, Add(bytes, persists)
        PROVE  i \in list' \cup orphans'
    BY <2>1, <2>2 DEF Add
  <2>3. ASSUME NEW bytes, NEW ok, AddFails(bytes, ok)
        PROVE  i \in list' \cup orphans'
    BY <2>1, <2>3 DEF AddFails
  <2> QED
    BY <2>2, <2>3 DEF Next, Publish, PublishBegin, RepublishBegin, Begin,
       FlushBatch, BatchEntry, SendEntry, End, GetNextData, store
<1> QED
  BY <1>1, TypeCorrect, PTL DEF Spec, PersistentStays

(* What PublishedInOrder says of one step. *)
Ordered ==
    \A i \in Ids, j \in Ids :
        (times'["live"][i] > times["live"][i] /\ j < i /\ j \in list')
            => times'["live"][j] > 0

LEMMA OrderedStep == IInv /\ Next => Ordered
<1> SUFFICES ASSUME IInv, Next PROVE Ordered
  OBVIOUS
<1> USE DEF IInv, TypeOK
<1>1. CASE times'["live"] = times["live"]
  <2>1. \A i \in Ids : times["live"][i] \in Nat
    BY DEF Topics
  <2> QED
    BY <1>1, <2>1 DEF Ordered
<1>2. ASSUME UNCHANGED list,
             NEW S \in SUBSET list,
             \A i \in S, j \in list : j < i => Passed(j) \/ j \in S,
             \A t \in Topics, j \in Ids :
                times'[t][j] = IF t = Topic /\ j \in S
                               THEN times[t][j] + 1 ELSE times[t][j],
             Topic = "live"
      PROVE  Ordered
  <2> SUFFICES ASSUME NEW i \in Ids, NEW j \in list, j < i,
                      times'["live"][i] > times["live"][i]
               PROVE  times'["live"][j] > 0
    BY <1>2 DEF Ordered
  <2>1. "live" \in Topics
    BY DEF Topics
  <2>2. i \in S
    BY <1>2, <2>1
  <2>3. CASE j \in S
    BY <1>2, <2>1, <2>3
  <2>4. CASE Passed(j) /\ j \notin S
    <3>1. times["live"][j] = 1
      BY <2>4 DEF LiveTimes
    <3> QED
      BY <1>2, <2>1, <2>4, <3>1
  <2> QED
    BY <1>2, <2>2, <2>3, <2>4
<1>3. ASSUME walk.op = "publish", NEW i \in walk.batch, NEW j \in list, j < i
      PROVE  Passed(j) \/ j \in walk.batch
  <2>1. i \in Nat /\ j \in Nat /\ walk.at \in Nat /\ i <= walk.at
    BY DEF LoopShape, Ids
  <2> QED
    BY <1>3, <2>1 DEF Passed
<1>4. Topic # "live" => walk.op # "publish"
  BY DEF Topic
<1>5. ASSUME Topic # "live", NEW S, Send(S) PROVE times'["live"] = times["live"]
  BY <1>5 DEF Send, Topics, Topic
<1>6. ASSUME NEW i \in Ids, FlushBatch(i) PROVE Ordered
  <2>1. CASE walk.op = "publish"
    <3>1. /\ Topic = "live" /\ Send(walk.batch) /\ UNCHANGED list
          /\ walk.batch \in SUBSET list
      BY <1>6, <2>1 DEF FlushBatch, Topic, store, LoopShape
    <3>2. \A t \in Topics, j \in Ids :
             times'[t][j] = IF t = Topic /\ j \in walk.batch
                            THEN times[t][j] + 1 ELSE times[t][j]
      BY <3>1, SendEffect
    <3>3. \A k \in walk.batch, j \in list :
             j < k => Passed(j) \/ j \in walk.batch
      BY <1>3, <2>1
    <3> QED
      BY <1>2, <3>1, <3>2, <3>3
  <2>2. CASE walk.op # "publish"
    BY <1>1, <1>5, <1>6, <2>2 DEF FlushBatch, Topic
  <2> QED
    BY <2>1, <2>2
<1>7. ASSUME NEW i \in Ids, SendEntry(i) PROVE Ordered
  <2>1. CASE walk.op = "publish"
    <3>1. /\ i \in list /\ i \in Nat /\ i > walk.at
          /\ \A j \in list : j > walk.at /\ j < i => j <= lastPublish
      BY <1>7, <2>1, NodeFacts DEF SendEntry
    <3>2. ASSUME NEW j \in list, j < i PROVE Passed(j)
      <4>1. j \in Nat /\ walk.at \in Nat /\ walk.batch = {}
        BY <1>7 DEF SendEntry, Ids
      <4> QED
        BY <2>1, <3>1, <3>2, <4>1 DEF Passed
    <3>3. Topic = "live" /\ Send({i}) /\ UNCHANGED list
      BY <1>7, <2>1 DEF SendEntry, Topic, store
    <3>4. \A t \in Topics, j \in Ids :
             times'[t][j] = IF t = Topic /\ j \in {i}
                            THEN times[t][j] + 1 ELSE times[t][j]
      BY <3>3, SendEffect
    <3>5. /\ {i} \in SUBSET list
          /\ \A k \in {i}, j \in list : j < k => Passed(j) \/ j \in {i}
      BY <3>1, <3>2
    <3> HIDE DEF IInv, TypeOK
    <3> QED
      BY <1>2, <3>3, <3>4, <3>5
  <2>2. CASE walk.op # "publish"
    BY <1>1, <1>5, <1>7, <2>2 DEF SendEntry, Topic
  <2> QED
    BY <2>1, <2>2
<1>8. CASE End
  <2>1. CASE walk.op = "publish"
    <3>1. /\ Topic = "live" /\ Send(walk.batch) /\ UNCHANGED list
          /\ walk.batch \in SUBSET list
      BY <1>8, <2>1 DEF End, Topic, store, LoopShape
    <3>2. \A t \in Topics, j \in Ids :
             times'[t][j] = IF t = Topic /\ j \in walk.batch
                            THEN times[t][j] + 1 ELSE times[t][j]
      BY <3>1, SendEffect
    <3>3. \A i \in walk.batch, j \in list :
             j < i => Passed(j) \/ j \in walk.batch
      BY <1>3, <2>1
    <3> QED
      BY <1>2, <3>1, <3>2, <3>3
  <2>2. CASE walk.op # "publish"
    BY <1>1, <1>5, <1>8, <2>2 DEF End, Topic
  <2> QED
    BY <2>1, <2>2
<1>9. ASSUME NEW ok, RepublishBegin(ok) PROVE times'["live"] = times["live"]
  BY <1>9 DEF RepublishBegin, Topics
<1> QED
  BY <1>1, <1>6, <1>7, <1>8, <1>9
     DEF Next, Publish, Add, AddFails, PublishBegin, BatchEntry, GetNextData

(* Entries go out in the order of their ids, single sends included.        *)
THEOREM InOrder == Spec => PublishedInOrder
<1>1. IInv /\ [Next]_vars => [Ordered]_vars
  BY OrderedStep
<1> QED
  BY <1>1, Inductive, PTL DEF Spec, PublishedInOrder, Ordered

(* A replay ends having repeated exactly what the bucket retains of what   *)
(* was published.                                                          *)
THEOREM ReplayComplete == Spec => ReplayIsComplete
<1> DEFINE Complete ==
      walk.op = "republish" /\ walk'.op = "none"
          => {i \in Ids : times'["history"][i] > 0} = {i \in list : i <= lastPublish}
<1>1. IInv /\ [Next]_vars => [Complete]_vars
  <2> SUFFICES ASSUME IInv, Next, walk.op = "republish", walk'.op = "none"
               PROVE  {i \in Ids : times'["history"][i] > 0}
                         = {i \in list : i <= lastPublish}
    OBVIOUS
  <2> USE DEF IInv, TypeOK
  <2>1. End
    BY DEF Next, Publish, Add, AddFails, PublishBegin, RepublishBegin, Begin,
       FlushBatch, BatchEntry, SendEntry, GetNextData, Unlocked
  <2>2. Topic = "history" /\ "history" \in Topics
    BY DEF Topic, Topics
  <2>3. \A j \in Ids : times'["history"][j] = IF j \in walk.batch
                         THEN times["history"][j] + 1 ELSE times["history"][j]
    BY <2>1, <2>2, SendEffect DEF End
  <2>4. \A j \in Ids : times'["history"][j] = IF j \in list /\ j <= walk.at
                                              THEN 1 ELSE 0
    BY <2>3 DEF HistoryTimes, LoopShape
  <2>5. \A j \in list : j <= walk.at <=> j <= lastPublish
    <3>1. \A j \in list : j > walk.at => j > lastPublish
      <4> SUFFICES ASSUME NEW j \in list, j > walk.at PROVE j > lastPublish
        OBVIOUS
      <4>1. j \in Nat /\ ~(j <= lastPublish)
        BY <2>1 DEF End, Pending, Ids
      <4> QED
        BY <4>1
    <3>2. walk.at <= lastPublish /\ \A j \in list : j \in Nat
      BY DEF LoopShape, Ids
    <3> QED
      BY <3>1, <3>2
  <2> QED
    BY <2>4, <2>5
<1> QED
  BY <1>1, Inductive, PTL DEF Spec, ReplayIsComplete

-----------------------------------------------------------------------------
(* Clients never hold an id that was not given out. *)
ReadersInv == NoSilentSkip /\ \A r \in Readers : cursor[r] <= masterID

LEMMA ReadersStep ==
    ASSUME IInv, ReadersInv, [Next]_vars
    PROVE  ReadersInv'
<1> USE BucketAssumption DEF IInv, TypeOK
<1>0. /\ \A i \in list : i \in Nat /\ i <= masterID
      /\ \A r \in Readers : cursor[r] \in Nat
      /\ masterID \in Nat
  BY DEF IdsInUse, Ids
<1>1. ASSUME UNCHANGED readers, masterID' >= masterID, masterID' \in Nat,
             \A i \in list' : i \in list \/ i = masterID + 1
      PROVE  ReadersInv'
  <2>1. \A r \in Readers, i \in list' : i <= cursor[r] => i \in list
    BY <1>0, <1>1 DEF ReadersInv
  <2> QED
    BY <1>0, <1>1, <2>1 DEF ReadersInv, NoSilentSkip, readers
<1>2. ASSUME NEW r \in Readers, NEW request \in Requests, GetNextData(r, request)
      PROVE  ReadersInv'
  <2> DEFINE window == Window(cursor[r], request)
  <2>1. PICK last \in window :
           /\ \A i \in window : i <= last
           /\ cursor' = [cursor EXCEPT ![r] = last]
    BY <1>2 DEF GetNextData
  <2>2. /\ got' = [got EXCEPT ![r] = @ \cup window]
        /\ UNCHANGED <<masterID, list>>
    BY <1>2 DEF GetNextData, store
  <2>3. last \in list
    BY <2>1 DEF Window, Ahead, Least
  <2>4. \A i \in list : cursor[r] < i /\ i <= last => i \in window
    <3> SUFFICES ASSUME NEW i \in list, cursor[r] < i, i <= last
                 PROVE  i \in window
      OBVIOUS
    <3>1. i \in Ahead(cursor[r]) /\ last \in Ahead(cursor[r])
      BY <1>0, <2>1 DEF Ahead, Window, Least
    <3>2. CASE request = 0
      <4>1. last <= i
        BY <2>1, <3>1, <3>2 DEF Window, Least
      <4>2. i = last
        BY ONLY <1>0, <2>3, <4>1, i \in list, i <= last
      <4> QED
        BY ONLY <2>1, <4>2
    <3>3. CASE request # 0
      <4>1. \A j \in Ahead(cursor[r]) : j < last => ~Exceeds(cursor[r], j, request)
        BY <2>1, <3>3 DEF Window
      <4>2. \A j \in Ahead(cursor[r]) : j < i => j < last
        BY <1>0, <2>3 DEF Ahead
      <4> QED
        BY <3>1, <3>3, <4>1, <4>2 DEF Window
    <3> QED
      BY <3>2, <3>3
  <2>5. NoSilentSkip'
    <3> SUFFICES ASSUME NEW q \in Readers, NEW i \in list, i <= cursor'[q]
                 PROVE  i \in got'[q]
      BY <2>2 DEF NoSilentSkip
    <3>1. CASE q # r
      BY <2>1, <2>2, <3>1 DEF ReadersInv, NoSilentSkip
    <3>2. CASE q = r /\ i <= cursor[r]
      BY <2>2, <3>2 DEF ReadersInv, NoSilentSkip
    <3>3. CASE q = r /\ cursor[r] < i
      <4> HIDE DEF window
      <4> QED
        BY <2>1, <2>2, <2>4, <3>3
    <3> QED
      BY <1>0, <3>1, <3>2, <3>3
  <2> QED
    BY <1>0, <2>1, <2>2, <2>3, <2>5 DEF ReadersInv
<1>3. ASSUME NEW bytes, NEW persists, Add(bytes, persists) PROVE ReadersInv'
  BY <1>0, <1>1, <1>3, SpiltIsSpillable DEF Add, NewId
<1>4. ASSUME NEW bytes, NEW ok, AddFails(bytes, ok) PROVE ReadersInv'
  BY <1>0, <1>1, <1>4 DEF AddFails
<1>5. CASE UNCHANGED <<masterID, list, readers>>
  BY <1>0, <1>1, <1>5
<1> QED
  BY <1>2, <1>3, <1>4, <1>5
     DEF Next, Publish, PublishBegin, RepublishBegin, Begin, FlushBatch,
         BatchEntry, SendEntry, End, vars, store

(* A client of getNextData that reads on from the id it got back passes    *)
(* over no entry that is still in the bucket, whatever sizes it asks for.  *)
THEOREM ReadersSkipNothing == Spec => []NoSilentSkip
<1>1. Init => ReadersInv
  BY DEF Init, ReadersInv, NoSilentSkip
<1>2. IInv /\ ReadersInv /\ [Next]_vars => ReadersInv'
  BY ReadersStep
<1>3. ReadersInv => NoSilentSkip
  BY DEF ReadersInv
<1> QED
  BY <1>1, <1>2, <1>3, Inductive, PTL DEF Spec

-----------------------------------------------------------------------------
(* Without persistent data nothing is ever out of reach of head.           *)
PlainInv == persistent = {} /\ orphans = {} /\ TailIsLast

(* If spill frees the last node then it frees them all.                    *)
LEMMA SpiltLastIsAll ==
    ASSUME IInv, PlainInv, NEW bytes, tail \in Spilt(bytes)
    PROVE  list = Spilt(bytes)
<1> USE BucketAssumption DEF IInv, TypeOK
<1>1. Spilt(bytes) \subseteq list /\ tail \in list /\ tail <= lastPublish
  BY SpiltIsSpillable
<1>2. \A j \in list : j \in Int /\ j <= tail
  BY <1>1 DEF PlainInv, TailIsLast, Ids
<1>3. ASSUME NEW j \in list, j < tail PROVE j \in Spilt(bytes)
  <2>1. j \in Spillable
    BY <1>1, <1>2, <1>3 DEF Spillable, PlainInv
  <2> QED
    BY <1>3, <2>1, SpiltIsPrefix
<1>4. \A j \in list : j < tail \/ j = tail
  BY <1>1, <1>2
<1>5. \A j \in list : j \in Spilt(bytes)
  BY ONLY <1>3, <1>4, tail \in Spilt(bytes)
<1> QED
  BY ONLY <1>1, <1>5

(* Adding to a plain bucket links the new node behind the last one.        *)
LEMMA PlainAdd ==
    ASSUME IInv, PlainInv, NEW bytes \in Sizes, Add(bytes, FALSE)
    PROVE  /\ PlainInv'
           /\ list' = (list \ Spilt(bytes)) \cup {masterID + 1}
<1> USE BucketAssumption DEF IInv, TypeOK
<1> DEFINE kept == list \ Spilt(bytes)
<1>1. TailAfterSpill(bytes) = 0 \/ TailAfterSpill(bytes) \in kept
  BY SpiltLastIsAll, SpiltIsSpillable DEF TailAfterSpill, PlainInv, TailIsLast
<1>2. /\ list' = kept \cup {masterID + 1} /\ orphans' = orphans
      /\ tail' = masterID + 1 /\ persistent' = persistent
  BY <1>1 DEF Add, NewId
<1>3. \A i \in list' : i <= masterID + 1
  BY <1>2 DEF IdsInUse
<1> QED
  BY <1>2, <1>3 DEF PlainInv, TailIsLast

LEMMA PlainAddFails ==
    ASSUME IInv, PlainInv, NEW bytes \in Sizes, NEW ok \in BOOLEAN,
           AddFails(bytes, ok)
    PROVE  PlainInv'
<1> USE BucketAssumption DEF IInv, TypeOK
<1>1. /\ list' = list \ Spilt(bytes) /\ UNCHANGED <<orphans, persistent>>
      /\ tail' = TailAfterSpill(bytes)
  BY DEF AddFails
<1>2. CASE list = Spilt(bytes)
  BY <1>1, <1>2 DEF PlainInv, TailIsLast, TailAfterSpill
<1>3. CASE list # Spilt(bytes)
  <2>1. list # {}
    BY <1>3, SpiltIsSpillable
  <2>2. tail \in list \ Spilt(bytes) /\ \A i \in list : i <= tail
    BY <1>3, <2>1, SpiltLastIsAll DEF PlainInv, TailIsLast
  <2> QED
    BY <1>1, <1>3, <2>2 DEF PlainInv, TailIsLast, TailAfterSpill
<1> QED
  BY <1>2, <1>3

LEMMA PlainStep ==
    ASSUME Persistence \subseteq {FALSE}, IInv, PlainInv, [Next]_vars
    PROVE  PlainInv'
<1>1. CASE UNCHANGED store
  BY <1>1 DEF PlainInv, TailIsLast, store
<1>2. ASSUME NEW bytes \in Sizes, NEW persists \in Persistence, Add(bytes, persists)
      PROVE  PlainInv'
  BY <1>2, PlainAdd
<1> QED
  BY <1>1, <1>2, PlainAddFails
     DEF Next, Publish, PublishBegin, RepublishBegin, Begin, FlushBatch,
         BatchEntry, SendEntry, End, GetNextData, vars

LEMMA PlainInductive ==
    ASSUME Persistence \subseteq {FALSE}
    PROVE  Spec => []PlainInv
<1>1. Init => PlainInv
  BY DEF Init, PlainInv, TailIsLast
<1>2. IInv /\ PlainInv /\ [Next]_vars => PlainInv'
  BY PlainStep
<1> QED
  BY <1>1, <1>2, Inductive, PTL DEF Spec

(* With sources that use no persistent data, as all of the repository's,   *)
(* tail is the last node and add() links every entry where publish walks.  *)
THEOREM PlainTailIsLast ==
    ASSUME Persistence \subseteq {FALSE}
    PROVE  Spec => [](TailIsLast /\ AddedIsReachable)
<1>1. PlainInv => TailIsLast /\ AddedIsReachable
  BY DEF PlainInv, AddedIsReachable
<1> QED
  BY <1>1, PlainInductive, PTL

-----------------------------------------------------------------------------
(* A step of a loop delivers nodes of the list.                            *)
LEMMA SendsFromList ==
    ASSUME IInv, NEW S \in SUBSET list, Send(S)
    PROVE  Published' \subseteq Published \cup list /\ Published \subseteq Published'
<1>1. "live" \in Topics
  BY DEF Topics
<1>2. \A i \in Ids : times["live"][i] \in Nat
  BY <1>1 DEF IInv, TypeOK
<1> QED
  BY <1>1, <1>2, SendEffect DEF IInv, Published

LEMMA DeliverStep ==
    ASSUME IInv, NEW S \in SUBSET list, Send(S), Next,
           UNCHANGED <<masterID, list>>
    PROVE  Log!Deliver
<1>1. Published' \subseteq Published \cup list /\ Published \subseteq Published'
  BY SendsFromList
<1>2. ASSUME NEW i \in Published' \ Published, NEW j \in list \ Published'
      PROVE  i < j
  <2>1. i \in Ids /\ j \in Ids /\ i \in Int /\ j \in Int
    BY DEF Published, IInv, TypeOK, Ids
  <2>2. times'["live"][i] > times["live"][i]
    BY <2>1, SendEffect, <1>2 DEF Published, IInv, TypeOK, Topics
  <2>3. ~(j < i)
    BY <1>2, <2>1, <2>2, OrderedStep DEF Ordered, Published
  <2>4. i # j
    OBVIOUS
  <2> QED
    BY <2>1, <2>3, <2>4
<1> QED
  BY <1>1, <1>2 DEF Log!Deliver

(* spill frees only delivered entries. *)
LEMMA SpiltIsPublished ==
    ASSUME IInv, Unlocked, NEW bytes
    PROVE  Spilt(bytes) \subseteq list \cap Published
<1>1. \A i \in Spilt(bytes) : i \in list /\ Passed(i)
  BY SpiltIsSpillable DEF Passed
<1> QED
  BY <1>1 DEF IInv, TypeOK, LiveTimes, Published

LEMMA LogStep ==
    ASSUME Persistence \subseteq {FALSE}, IInv, PlainInv, [Next]_vars
    PROVE  [Log!Next]_<<masterID, list, Published>>
<1>1. ASSUME NEW bytes \in Sizes, NEW persists \in Persistence, Add(bytes, persists)
      PROVE  Log!Accept
  <2>1. list' = (list \ Spilt(bytes)) \cup {masterID + 1}
    BY <1>1, PlainAdd
  <2>2. Spilt(bytes) \in SUBSET (list \cap Published)
    BY <1>1, SpiltIsPublished DEF Add
  <2>3. masterID < MaxId /\ masterID' = masterID + 1 /\ Published' = Published
    BY <1>1 DEF Add, Published
  <2> QED
    BY <2>1, <2>2, <2>3 DEF Log!Accept
<1>2. ASSUME NEW bytes \in Sizes, NEW ok \in BOOLEAN, AddFails(bytes, ok)
      PROVE  Log!Refuse
  <2>1. Spilt(bytes) \in SUBSET (list \cap Published)
    BY <1>2, SpiltIsPublished DEF AddFails
  <2> QED
    BY <1>2, <2>1 DEF AddFails, Log!Refuse, Published
<1>3. CASE \/ \E i \in Ids : FlushBatch(i) \/ SendEntry(i)
           \/ End
  <2>1. walk.batch \in SUBSET list
    BY DEF IInv, LoopShape
  <2>2. ASSUME NEW i \in Ids, FlushBatch(i) PROVE Log!Deliver
    <3>1. Send(walk.batch) /\ UNCHANGED <<masterID, list>> /\ Next
      BY <2>2 DEF FlushBatch, store, Next, Publish
    <3> QED
      BY <2>1, <3>1, DeliverStep
  <2>3. ASSUME NEW i \in Ids, SendEntry(i) PROVE Log!Deliver
    <3>1. Send({i}) /\ UNCHANGED <<masterID, list>> /\ Next /\ {i} \in SUBSET list
      BY <2>3 DEF SendEntry, AtNode, Pending, store, Next, Publish
    <3> QED
      BY <3>1, DeliverStep
  <2>4. CASE End
    <3>1. Send(walk.batch) /\ UNCHANGED <<masterID, list>> /\ Next
      BY <2>4 DEF End, store, Next, Publish
    <3> QED
      BY <2>1, <3>1, DeliverStep DEF Log!Next
  <2> QED
    BY <1>3, <2>2, <2>3, <2>4 DEF Log!Next
<1>4. ASSUME UNCHANGED <<masterID, list, times>>
      PROVE  UNCHANGED <<masterID, list, Published>>
  BY <1>4 DEF Published
<1>5. ASSUME NEW ok \in BOOLEAN, RepublishBegin(ok)
      PROVE  UNCHANGED <<masterID, list, Published>>
  BY <1>5 DEF RepublishBegin, Begin, store, Topics, Published, IInv, TypeOK
<1> QED
  BY <1>1, <1>2, <1>3, <1>4, <1>5
     DEF Next, Publish, PublishBegin, Begin, BatchEntry, GetNextData, store, vars,
         Log!Next

(* A bucket of plain data implements the delivery log.                     *)
THEOREM Implements ==
    ASSUME Persistence \subseteq {FALSE}
    PROVE  Spec => ImplementsLog
<1>1. Init => Log!Init
  BY DEF Init, Log!Init, Published, Topics
<1>2. IInv /\ PlainInv /\ [Next]_vars => [Log!Next]_<<masterID, list, Published>>
  BY LogStep
<1> QED
  BY <1>1, <1>2, Inductive, PlainInductive, PTL DEF Spec, ImplementsLog, Log!Spec
=============================================================================
