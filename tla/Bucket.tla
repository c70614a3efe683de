------------------------------- MODULE Bucket -------------------------------
(***************************************************************************)
(* One bucket of the agent (agent/Bucket.cpp): the bounded store where the *)
(* data of one source waits until the publish thread sends it, and stays   *)
(* for later replay until the space is needed.                             *)
(*                                                                         *)
(* The C++ list is in the order of its ids, because add() gives a new node *)
(* ++masterID and links it behind the tail; so the nodes reachable from    *)
(* head are kept as the set `list' of their ids.  A node that add() links  *)
(* behind a tail that spill() has freed is not reachable from head: those  *)
(* ids go to `orphans'.  masterID is a uint32 that the model does not wrap *)
(* (MaxId bounds it): four thousand million entries are out of reach.      *)
(*                                                                         *)
(* Every public operation runs under the bucket lock.  add and getNextData *)
(* call nothing while they hold it and are one step each; publish and      *)
(* republish call the connectors from inside their loop and are one step   *)
(* per turn of the loop, with the lock held (walk.op # "none") throughout. *)
(***************************************************************************)
EXTENDS Integers, FiniteSets

CONSTANTS
    Capacity,     \* the bucket's capacity in bytes
    PublishSize,  \* the largest batch sent, 1 MB in the code
    Sizes,        \* the sizes of the data that sources offer
    Persistence,  \* the values of monitordata.persistent that sources use
    Readers,      \* the clients of getNextData
    Requests,     \* the sizes that clients ask of getNextData
    MaxId         \* bound: entries added in a run

ASSUME BucketAssumption ==
    /\ Capacity \in Nat
    /\ PublishSize \in Nat \ {0}
    /\ Sizes \subseteq Nat
    /\ Persistence \subseteq BOOLEAN
    /\ Requests \subseteq Nat
    /\ MaxId \in Nat

Ids == 1..MaxId
Topics == {"live", "history"}

VARIABLES
    masterID,     \* the id of the last entry added
    list,         \* ids of the nodes reachable from head
    tail,         \* id of the node tail points to, freed or not; 0 is NULL
    orphans,      \* ids of nodes added behind a freed tail
    sizeOf,       \* BucketData.size
    persistent,   \* ids of the nodes with BucketData.persistentData
    size,         \* bytes accounted to the bucket
    count,        \* number of entries accounted to the bucket
    lastPublish,  \* id of the last entry published
    walk,         \* the loop of publish or republish, while one holds the lock
    maxSend,      \* maxSendSize, the size of that loop's batch buffer
    times,        \* history: how often each entry went out on a topic
    cursor,       \* the id each client passes to getNextData
    got,          \* history: entries each client received
    dropped       \* history: entries each client was told it missed

store == <<masterID, list, tail, orphans, sizeOf, persistent, size, count>>
readers == <<cursor, got, dropped>>
vars == <<store, lastPublish, walk, maxSend, times, readers>>

NoWalk == [op |-> "none", at |-> 0, batch |-> {}, buffer |-> FALSE]

Init ==
    /\ masterID = 0
    /\ list = {}
    /\ tail = 0
    /\ orphans = {}
    /\ sizeOf = [i \in Ids |-> 0]
    /\ persistent = {}
    /\ size = 0
    /\ count = 0
    /\ lastPublish = 0
    /\ walk = NoWalk
    /\ maxSend = 0
    /\ times = [t \in Topics |-> [i \in Ids |-> 0]]
    /\ cursor = [r \in Readers |-> 0]
    /\ got = [r \in Readers |-> {}]
    /\ dropped = [r \in Readers |-> 0]

Unlocked == walk.op = "none"

(* The sum of f[i] over the ids i in S: each i brings f[i] units, which are *)
(* told apart by i and a number.                                           *)
Units(f, S) == UNION {{i} \X (1..f[i]) : i \in S}
Total(f, S) == Cardinality(Units(f, S))

Bytes(S) == Total(sizeOf, S)

(***************************************************************************)
(* add and spill                                                           *)
(***************************************************************************)

(* Mutant: spill frees what was not published. *)
Spillable_Unpublished == list \ persistent

(* What spill may free: nodes already published, unless they are persistent. *)
Spillable == {i \in list : i <= lastPublish} \ persistent

(* spill has room for `bytes' more once it has passed the nodes up to k. *)
RoomAfter(k, bytes) ==
    size - Bytes({i \in Spillable : i <= k}) + bytes <= Capacity

(* The nodes spill frees: those its loop reaches before there is room. *)
Spilt(bytes) ==
    {i \in Spillable :
        \A k \in {0} \cup {j \in list : j <= lastPublish} :
            k < i => ~RoomAfter(k, bytes)}

(* Mutant: spill does not refuse. *)
HasRoom_Always(bytes) == TRUE

(* The value of spill: an emptied bucket takes an entry of any size. *)
HasRoom(bytes) ==
    \/ list = Spilt(bytes)
    \/ size - Bytes(Spilt(bytes)) + bytes <= Capacity

(* Mutant: spill leaves tail alone. *)
TailAfterSpill_Kept(bytes) == tail

(* tail after spill, which resets it only when nothing is left behind head. *)
TailAfterSpill(bytes) == IF list = Spilt(bytes) THEN 0 ELSE tail

(* Mutant: spill frees nodes without giving back their bytes. *)
SizeAfter_Leak(out, bytes) == size + bytes

(* size once spill has freed `out' and add has linked `bytes'. *)
SizeAfter(out, bytes) == size - Bytes(out) + bytes

NewId == masterID + 1

Forget(S) == [i \in Ids |-> IF i \in S THEN 0 ELSE sizeOf[i]]

(* BucketList.addData, Bucket.add: the entry is linked behind the tail. *)
Add(bytes, persists) ==
    LET out == Spilt(bytes)
        kept == list \ out
        behind == TailAfterSpill(bytes)
        id == NewId
        linked == behind = 0 \/ behind \in kept
    IN  /\ Unlocked
        /\ bytes > 0
        /\ masterID < MaxId
        /\ HasRoom(bytes)
        /\ masterID' = masterID + 1
        /\ list' = IF linked THEN kept \cup {id} ELSE kept
        /\ orphans' = IF linked THEN orphans ELSE orphans \cup {id}
        /\ tail' = id
        /\ sizeOf' = [Forget(out) EXCEPT ![id] = bytes]
        /\ persistent' = IF persists THEN persistent \cup {id} ELSE persistent
        /\ size' = SizeAfter(out, bytes)
        /\ count' = count - Cardinality(out) + 1
        /\ UNCHANGED <<lastPublish, walk, maxSend, times, readers>>

(* Bucket.add that adds nothing: spill found no room, or the copy of the   *)
(* data could not be allocated.  What spill freed stays freed.             *)
AddFails(bytes, allocated) ==
    LET out == Spilt(bytes)
    IN  /\ Unlocked
        /\ bytes > 0
        /\ ~(HasRoom(bytes) /\ allocated)
        /\ list' = list \ out
        /\ tail' = TailAfterSpill(bytes)
        /\ sizeOf' = Forget(out)
        /\ size' = SizeAfter(out, 0)
        /\ count' = count - Cardinality(out)
        /\ UNCHANGED <<masterID, orphans, persistent, lastPublish, walk, maxSend,
                       times, readers>>

(***************************************************************************)
(* publish and republish                                                   *)
(***************************************************************************)

(* The lock is taken and the batch buffer allocated, or not. *)
Begin(op, allocated) ==
    /\ Unlocked
    /\ walk' = [op |-> op, at |-> 0, batch |-> {}, buffer |-> allocated]
    /\ maxSend' = IF size > PublishSize THEN PublishSize ELSE size
    /\ UNCHANGED <<store, lastPublish, readers>>

PublishBegin(allocated) ==
    /\ Begin("publish", allocated)
    /\ UNCHANGED times

RepublishBegin(allocated) ==
    /\ Begin("republish", allocated)
    /\ times' = [times EXCEPT !["history"] = [i \in Ids |-> 0]]

(* Mutant: republish leaves out the entry published last. *)
Pending_Strict ==
    {i \in list :
        /\ i > walk.at
        /\ IF walk.op = "publish" THEN i > lastPublish ELSE i < lastPublish}

(* The nodes the loop has still to visit: publish skips what went out      *)
(* before, republish stops at the first node that has not.                 *)
Pending ==
    {i \in list :
        /\ i > walk.at
        /\ IF walk.op = "publish" THEN i > lastPublish ELSE i <= lastPublish}

(* The loop has come to the node i. *)
AtNode(i) ==
    /\ walk.op # "none"
    /\ i \in Pending
    /\ \A j \in Pending : i <= j

Topic == IF walk.op = "publish" THEN "live" ELSE "history"

(* One message carries the data of the entries S to every connector. *)
Send(S) ==
    times' = [times EXCEPT ![Topic] =
                 [i \in Ids |-> IF i \in S THEN @[i] + 1 ELSE @[i]]]

Overfull(i) == Bytes(walk.batch) + sizeOf[i] > maxSend

(* There is a batch and the next entry does not fit: send the batch first. *)
FlushBatch(i) ==
    /\ AtNode(i)
    /\ walk.batch # {}
    /\ Overfull(i)
    /\ Send(walk.batch)
    /\ walk' = [walk EXCEPT !.batch = {}]
    /\ UNCHANGED <<store, lastPublish, maxSend, readers>>

(* The entry fits in the buffer and is copied there. *)
BatchEntry(i) ==
    /\ AtNode(i)
    /\ walk.buffer
    /\ ~Overfull(i)
    /\ walk' = [walk EXCEPT !.batch = @ \cup {i}, !.at = i]
    /\ UNCHANGED <<store, lastPublish, maxSend, times, readers>>

(* Mutant: a large entry goes out ahead of the batch collected before it. *)
SendEntry_BeforeBatch(i) ==
    /\ AtNode(i)
    /\ ~walk.buffer \/ Overfull(i)
    /\ Send({i})
    /\ walk' = [walk EXCEPT !.at = i]
    /\ UNCHANGED <<store, lastPublish, maxSend, readers>>

(* No buffer, or the entry alone is too large for it: send it by itself. *)
SendEntry(i) ==
    /\ AtNode(i)
    /\ walk.batch = {}
    /\ ~walk.buffer \/ Overfull(i)
    /\ Send({i})
    /\ walk' = [walk EXCEPT !.at = i]
    /\ UNCHANGED <<store, lastPublish, maxSend, readers>>

(* lastPublish when the loop is done. *)
LastIdSent ==
    IF walk.op = "publish" /\ walk.at > 0 THEN walk.at ELSE lastPublish

(* The rest of the batch goes out, publish moves lastPublish, the lock is  *)
(* released.  (republish also sends an empty message that ends the replay.) *)
End ==
    /\ walk.op # "none"
    /\ Pending = {}
    /\ Send(walk.batch)
    /\ lastPublish' = LastIdSent
    /\ walk' = NoWalk
    /\ maxSend' = 0
    /\ UNCHANGED <<store, readers>>

(***************************************************************************)
(* getNextData                                                             *)
(***************************************************************************)

(* Mutant: the entry next to the client's id is passed over. *)
Ahead_OffByOne(id) == {i \in list : i > id + 1}

Ahead(id) == {i \in list : i > id}

Least(S) == {i \in S : \A j \in S : i <= j}

(* The size loop leaves early at the first entry that exceeds the request. *)
Exceeds(id, i, request) == Bytes({j \in Ahead(id) : j <= i}) > request

(* The entries copied: one if no size is asked for; else all up to and     *)
(* including the one that exceeds the request, for which the buffer has    *)
(* been sized too.                                                         *)
Window(id, request) ==
    IF request = 0
    THEN Least(Ahead(id))
    ELSE {i \in Ahead(id) : \A j \in Ahead(id) : j < i => ~Exceeds(id, j, request)}

(* The ids missing between the id and the next entry. *)
Gap(id) == Total([next \in Ids |-> next - (id + 1)], Least(Ahead(id)))

(* Mutant: only the gap in front is counted. *)
Missed_FrontOnly(id, request) == Gap(id)

(* droppedCount: the gap in front, and the gaps the size loop steps over. *)
Missed(id, request) ==
    Gap(id) + IF request = 0 THEN 0
              ELSE Total([i \in Ids |-> Gap(i)],
                         {i \in Window(id, request) : ~Exceeds(id, i, request)})

(* A call that returns data.  A call that finds none, or cannot allocate   *)
(* the buffer, returns the same id and no data and leaves all as it was.   *)
GetNextData(r, request) ==
    LET window == Window(cursor[r], request)
    IN  /\ Unlocked
        /\ \E last \in window :
              /\ \A i \in window : i <= last
              /\ cursor' = [cursor EXCEPT ![r] = last]
        /\ got' = [got EXCEPT ![r] = @ \cup window]
        /\ dropped' = [dropped EXCEPT ![r] = @ + Missed(cursor[r], request)]
        /\ UNCHANGED <<store, lastPublish, walk, maxSend, times>>

(***************************************************************************)

Publish ==
    \/ \E ok \in BOOLEAN : PublishBegin(ok)
    \/ \E i \in Ids : FlushBatch(i) \/ BatchEntry(i) \/ SendEntry(i)
    \/ End

Next ==
    \/ \E bytes \in Sizes, persists \in Persistence : Add(bytes, persists)
    \/ \E bytes \in Sizes, ok \in BOOLEAN : AddFails(bytes, ok)
    \/ \E ok \in BOOLEAN : RepublishBegin(ok)
    \/ Publish
    \/ \E r \in Readers, request \in Requests : GetNextData(r, request)

Spec == Init /\ [][Next]_vars

(* The publish thread runs BucketList.publish every two seconds, and a     *)
(* loop that holds the lock goes on: no step of it waits for anybody.      *)
Fairness ==
    /\ WF_vars(End \/ \E i \in Ids : FlushBatch(i) \/ BatchEntry(i) \/ SendEntry(i))
    /\ SF_vars(\E ok \in BOOLEAN : PublishBegin(ok))

FairSpec == Spec /\ Fairness
-----------------------------------------------------------------------------
(* Every variable stays in its type.  (The sums size, count, maxSend and   *)
(* dropped are pinned down by Accounting and ReaderAccounting.)            *)
TypeOK ==
    /\ masterID \in 0..MaxId
    /\ list \subseteq Ids
    /\ tail \in 0..MaxId
    /\ orphans \subseteq Ids
    /\ sizeOf \in [Ids -> Nat]
    /\ persistent \subseteq Ids
    /\ lastPublish \in 0..MaxId
    /\ walk \in [op : {"none", "publish", "republish"}, at : 0..MaxId,
                 batch : SUBSET Ids, buffer : BOOLEAN]
    /\ times \in [Topics -> [Ids -> Nat]]
    /\ cursor \in [Readers -> 0..MaxId]
    /\ got \in [Readers -> SUBSET Ids]

(* count and size, which Bucket.h calls the number of items and the current *)
(* size of the bucket, are those of the nodes that add() linked and spill() *)
(* has not freed.                                                           *)
Accounting ==
    /\ count = Cardinality(list \cup orphans)
    /\ size = Bytes(list \cup orphans)

(* The bucket exceeds its capacity only by a single entry too large for it, *)
(* which spill() lets into an emptied bucket.                               *)
WithinCapacity == size <= Capacity \/ count = 1

(* Everything add() accepted is where publish() and getNextData() walk.     *)
AddedIsReachable == orphans = {}

(* tail is the last node of the list, or NULL when there is none (the       *)
(* structure that add()'s `tail->next = bdata' relies on).                  *)
TailIsLast ==
    IF list = {} THEN tail = 0
    ELSE tail \in list /\ \A i \in list : i <= tail

Accepted == 1..masterID

Published == {i \in Ids : times["live"][i] > 0}

(* spill() makes room only with what the connectors have been given: an     *)
(* entry that add() accepted is published before it is lost.                *)
NoUnpublishedLoss == \A i \in Accepted \ (list \cup orphans) : i \in Published

(* publish() gives each entry to the connectors at most once, over any      *)
(* number of batches, refused buffers and spills; a replay likewise.        *)
SentAtMostOnce == \A t \in Topics, i \in Ids : times[t][i] <= 1

(* When no loop is running, lastPublish divides the list exactly into what  *)
(* has been published and what has not: it is what spill() relies on.       *)
LastPublishIsExact ==
    Unlocked => \A i \in list : i \in Published <=> i <= lastPublish

(* Entries go out in the order in which they were added.                    *)
PublishedInOrder ==
    [][\A i \in Ids, j \in Ids :
          (times'["live"][i] > times["live"][i] /\ j < i /\ j \in list')
              => times'["live"][j] > 0]_vars

(* A replay ("history" request) repeats exactly the published entries that  *)
(* the bucket still holds: none is spilled or added while it runs.          *)
ReplayIsComplete ==
    [][walk.op = "republish" /\ walk'.op = "none"
          => {i \in Ids : times'["history"][i] > 0}
                = {i \in list : i <= lastPublish}]_vars

(* AgentExtensions.h:57: persistent data is not removed from the bucket.    *)
PersistentStays ==
    [][\A i \in persistent : i \in list \cup orphans => i \in list' \cup orphans']_vars

(* A client of getNextData can account for every id up to the one it got    *)
(* back: it received the entry or has been told that one was dropped.       *)
ReaderAccounting ==
    \A r \in Readers : Cardinality(got[r]) + dropped[r] = cursor[r]

(* getNextData never steps over an entry that the bucket still holds: a     *)
(* client that reads on misses only what spill() freed.                     *)
NoSilentSkip ==
    \A r \in Readers : {i \in list : i <= cursor[r]} \subseteq got[r]

(* Every entry that add() accepted is published in the end.                *)
EventuallyPublished == \A i \in Ids : i \in Accepted ~> i \in Published

-----------------------------------------------------------------------------
(* The bucket seen through its interface: what it accepted, what it holds  *)
(* where publish() can reach it, and what it has given to the connectors.  *)
Log == INSTANCE DeliveryLog WITH
    accepted <- masterID, kept <- list, delivered <- Published

(* A bucket of data that is not persistent is a log that delivers every    *)
(* entry in order and forgets none before.                                 *)
ImplementsLog == Log!Spec
=============================================================================
