-------------------------- MODULE MessagingProofs --------------------------
(***************************************************************************)
(* Theorems about Messaging for every number of buckets, connectors and    *)
(* threads: which locks are held where, that no set of threads waits for   *)
(* each other as long as clients and locking connectors do not meet, and   *)
(* that requests are served completely and in order in any case.           *)
(***************************************************************************)
EXTENDS Messaging, TLAPS

(* Where a thread may be inside sendMessage, and who may be where.         *)
PlaceShape ==
    \A t \in Threads :
        /\ call[t] # "none" => place[t] \in {"in bucket", "message", "replying"}
        /\ place[t] \in {"want bucket", "in bucket"} => t \in Walkers
        /\ place[t] \in {"replying", "serving"} => t = Processor
        /\ place[t] \in {"message", "delivering"} => t # Processor
        /\ call[t] \in {"headless", "starting", "rolling", "closing"}
              => t = Publisher /\ "headless" \in Connectors
        /\ call[t] = "mqtt" => "mqtt" \in Connectors
        /\ t = Paho /\ place[t] = "delivering" => "mqtt" \in Connectors
        /\ t = Timer /\ place[t] = "delivering" => "headless" \in Connectors

(* Where a loop over the buckets may stand.                                *)
LoopShape ==
    /\ \A t \in Walkers :
          /\ place[t] = "in bucket" => at[t] \in Buckets
          /\ place[t] = "want bucket" => at[t] \in Stops
    /\ place[Processor] = "replying" => at[Processor] \in Stops
    /\ place[Processor] = "replying" /\ call[Processor] # "none"
          => at[Processor] \in Buckets

(* Without requests of clients the processing thread only empties its queue. *)
QuietClients ==
    Requests \subseteq {"headless"} => place[Processor] \in {"idle", "serving"}

Shape == TypeOK /\ PlaceShape /\ LoopShape /\ QuietClients

IInv == Shape /\ LocksMatchPlaces

LEMMA ThreadsDiffer ==
    /\ NoThread \notin Threads
    /\ Walkers \subseteq Threads /\ Callers \subseteq Threads
    /\ Publisher \in Walkers /\ Processor \in Walkers
    /\ Paho \in Threads /\ Timer \in Threads /\ Paho # Timer
    /\ Processor # Publisher /\ Paho \notin Walkers /\ Timer \notin Walkers
    /\ \A t \in Walkers : t \in {Publisher, Processor}
    /\ \A t \in Callers : t \notin {Publisher, Processor, Paho, Timer}
BY MessagingAssumption
   DEF NoThread, Threads, Walkers, Publisher, Processor, Paho, Timer

LEMMA StopFacts ==
    /\ Buckets \subseteq Stops /\ Stops \subseteq Nat
    /\ 1 \in Stops
    /\ \A b \in Buckets : b + 1 \in Stops /\ b + 1 # b
    /\ \A b \in Stops : b \notin Buckets => b = NumBuckets + 1
BY MessagingAssumption DEF Buckets, Stops

(* What BucketsHeld says of one bucket and one thread. *)
LEMMA BucketHolder ==
    ASSUME BucketsHeld, NEW b \in Buckets, NEW t \in Threads
    PROVE  bucketOwner[b] = t
              <=> t \in Walkers /\ place[t] = "in bucket" /\ at[t] = b
BY DEF BucketsHeld

(* A step that neither enters nor leaves a bucket. *)
LEMMA BucketsStay ==
    ASSUME BucketsHeld, bucketOwner' = bucketOwner,
           \A t \in Walkers : place'[t] = "in bucket" <=> place[t] = "in bucket",
           \A t \in Walkers : place[t] = "in bucket" => at'[t] = at[t]
    PROVE  BucketsHeld'
<1> SUFFICES ASSUME NEW b \in Buckets, NEW t \in Threads
    PROVE  bucketOwner'[b] = t
              <=> t \in Walkers /\ place'[t] = "in bucket" /\ at'[t] = b
  BY DEF BucketsHeld
<1>1. bucketOwner[b] = t
         <=> t \in Walkers /\ place[t] = "in bucket" /\ at[t] = b
  BY DEF BucketsHeld
<1> QED
  BY <1>1

(* A step that touches neither the locks of buckets nor the walks. *)
LEMMA BucketsSame ==
    ASSUME BucketsHeld, UNCHANGED <<bucketOwner, place, at>>
    PROVE  BucketsHeld'
<1>1. \A t \in Walkers : place'[t] = "in bucket" <=> place[t] = "in bucket"
  OBVIOUS
<1>2. \A t \in Walkers : place[t] = "in bucket" => at'[t] = at[t]
  OBVIOUS
<1> QED
  BY <1>1, <1>2, BucketsStay

LEMMA InitIInv == Init => IInv
<1> SUFFICES ASSUME Init PROVE IInv
  OBVIOUS
<1>1. TypeOK
  <2>1. 0 \in 0..(MaxBatches + 1) /\ Budget \in 0..Budget
    BY MessagingAssumption
  <2>2. <<>> \in Seq(Kinds)
    OBVIOUS
  <2> QED
    BY <2>1, <2>2 DEF Init, TypeOK, Places, Calls
<1>2. PlaceShape /\ LoopShape /\ QuietClients
  BY ThreadsDiffer DEF Init, PlaceShape, LoopShape, QuietClients
<1>3. SendHeld /\ HeadlessHeld /\ MQTTHeld
  BY ThreadsDiffer
     DEF Init, SendHeld, HeadlessHeld, MQTTHeld, InLoop, InHeadless, Locks
<1>4. ReceiveHeld /\ BucketsHeld
  BY ThreadsDiffer DEF Init, ReceiveHeld, BucketsHeld, Locks
<1> QED
  BY <1>1, <1>2, <1>3, <1>4 DEF IInv, Shape, LocksMatchPlaces

LEMMA NextTypeOK == TypeOK /\ PlaceShape /\ LoopShape /\ [Next]_vars => TypeOK'
<1> SUFFICES ASSUME TypeOK, PlaceShape, LoopShape, [Next]_vars PROVE TypeOK'
  OBVIOUS
<1>1. ASSUME NEW t \in Threads, TakeSend(t) PROVE TypeOK'
  BY <1>1, ThreadsDiffer, StopFacts, MessagingAssumption
     DEF TypeOK, Places, Calls, Kinds, Locks, Walkers, TakeSend, Take,
         Enter, walks, Free
<1>2. ASSUME NEW t \in Threads, GiveSend(t) PROVE TypeOK'
  <2>1. at' \in [Walkers -> {0} \cup Stops]
    BY <1>2, ThreadsDiffer, StopFacts DEF GiveSend, TypeOK, PlaceShape, LoopShape
  <2>2. place' \in [Threads -> Places]
    BY <1>2 DEF GiveSend, Goto, TypeOK, Places
  <2> QED
    BY <1>2, <2>1, <2>2 DEF GiveSend, Goto, Enter, Give, TypeOK, Places, Calls, Kinds, Locks
<1>3. ASSUME NEW t \in Threads, NEW c \in Connectors, CallConnector(t, c) PROVE TypeOK'
  BY <1>3, ThreadsDiffer, StopFacts, MessagingAssumption
     DEF TypeOK, Places, Calls, Kinds, Locks, Walkers, CallConnector,
         locks, walks
<1>4. ASSUME NEW t \in Threads, CallMQTT(t) PROVE TypeOK'
  BY <1>4, ThreadsDiffer, StopFacts, MessagingAssumption
     DEF TypeOK, Places, Calls, Kinds, Locks, Walkers, CallMQTT, Enter,
         locks, walks
<1>5. ASSUME NEW t \in Threads, SendMQTT(t) PROVE TypeOK'
  BY <1>5, ThreadsDiffer, StopFacts, MessagingAssumption
     DEF TypeOK, Places, Calls, Kinds, Locks, Walkers, SendMQTT, Free,
         Enter, locks, walks
<1>6. ASSUME NEW t \in Threads, CallHeadless(t) PROVE TypeOK'
  <2>1. budget \in 0..Budget /\ budget >= 2 /\ budget' = budget - 2
    BY <1>6 DEF CallHeadless, TypeOK
  <2>2. budget' \in 0..Budget
    BY <2>1, MessagingAssumption
  <2> QED
    BY <1>6, <2>2 DEF CallHeadless, Enter, locks, walks, TypeOK, Places, Calls, Kinds, Locks
<1>7. ASSUME NEW t \in Threads, TakeHeadless(t) PROVE TypeOK'
  BY <1>7, ThreadsDiffer, StopFacts, MessagingAssumption
     DEF TypeOK, Places, Calls, Kinds, Locks, Walkers, TakeHeadless, Take,
         Enter, walks, Free
<1>8. ASSUME NEW t \in Threads, NotifyProviders(t) PROVE TypeOK'
  <2>1. queue' \in Seq(Kinds)
    BY <1>8 DEF NotifyProviders, Receive, Kinds, TypeOK
  <2> QED
    BY <1>8, <2>1 DEF NotifyProviders, Enter, Receive, locks, walks, Free, TypeOK, Places, Calls, Locks
<1>9. ASSUME NEW t \in Threads, FileIsFull(t) PROVE TypeOK'
  BY <1>9, ThreadsDiffer, StopFacts, MessagingAssumption
     DEF TypeOK, Places, Calls, Kinds, Locks, Walkers, FileIsFull, Enter,
         locks, walks
<1>10. ASSUME NEW t \in Threads, RollOver(t) PROVE TypeOK'
  <2>1. queue' \in Seq(Kinds)
    BY <1>10 DEF RollOver, Receive, Kinds, TypeOK
  <2> QED
    BY <1>10, <2>1 DEF RollOver, Enter, Give, Receive, walks, Free, TypeOK, Places, Calls, Locks
<1>11. ASSUME NEW t \in Threads, Write(t) PROVE TypeOK'
  BY <1>11, ThreadsDiffer, StopFacts, MessagingAssumption
     DEF TypeOK, Places, Calls, Kinds, Locks, Walkers, Write, Enter, Give,
         walks
<1>12. ASSUME NEW t \in Threads, Deliver(t) PROVE TypeOK'
  <2>1. queue' \in Seq(Kinds)
    BY <1>12 DEF Deliver, Receive, Kinds, TypeOK
  <2>2. owner' \in [Locks -> Threads \cup {NoThread}]
    BY <1>12 DEF Deliver, Locks, TypeOK
  <2>3. filesInitialized' \in BOOLEAN
    BY <1>12 DEF Deliver, TypeOK
  <2> QED
    BY <1>12, <2>1, <2>2, <2>3 DEF Deliver, Goto, walks, TypeOK, Places
<1>13. ASSUME NEW t \in Walkers, TakeBucket(t) PROVE TypeOK'
  <2>1. PICK n \in 0..MaxBatches : left' = [left EXCEPT ![t] = IF t = Processor THEN n + 1 ELSE n]
    BY <1>13 DEF TakeBucket
  <2>2. n \in 0..(MaxBatches + 1) /\ n + 1 \in 0..(MaxBatches + 1)
    BY MessagingAssumption
  <2>3. left' \in [Walkers -> 0..(MaxBatches + 1)]
    BY <2>1, <2>2 DEF TypeOK
  <2>4. bucketOwner' \in [Buckets -> Threads \cup {NoThread}]
    BY <1>13, ThreadsDiffer DEF TakeBucket, TypeOK
  <2>5. place' \in [Threads -> Places]
    BY <1>13, ThreadsDiffer DEF TakeBucket, Goto, TypeOK, Places
  <2>6. UNCHANGED <<owner, call, at, todo, queue, pending, filesInitialized, updates, budget>>
    BY <1>13 DEF TakeBucket
  <2> QED
    BY <2>3, <2>4, <2>5, <2>6 DEF TypeOK
<1>14. ASSUME NEW t \in Walkers, SendFromBucket(t) PROVE TypeOK'
  <2>1. left[t] \in 0..(MaxBatches + 1) /\ left[t] > 0
    BY <1>14 DEF SendFromBucket, TypeOK
  <2>2. left[t] - 1 \in 0..(MaxBatches + 1)
    BY <2>1, MessagingAssumption
  <2>3. left' \in [Walkers -> 0..(MaxBatches + 1)]
    BY <1>14, <2>2 DEF SendFromBucket, TypeOK
  <2> QED
    BY <1>14, <2>3, ThreadsDiffer DEF SendFromBucket, Enter, locks, TypeOK, Calls
<1>15. ASSUME NEW t \in Walkers, GiveBucket(t) PROVE TypeOK'
  <2>1. at[t] \in Buckets
    BY <1>15 DEF GiveBucket, LoopShape
  <2>2. at' \in [Walkers -> {0} \cup Stops]
    BY <1>15, <2>1, StopFacts DEF GiveBucket, TypeOK
  <2>3. bucketOwner' \in [Buckets -> Threads \cup {NoThread}]
    BY <1>15 DEF GiveBucket, TypeOK
  <2> QED
    BY <1>15, <2>2, <2>3, ThreadsDiffer DEF GiveBucket, Goto, TypeOK, Places
<1>16. ASSUME NEW t \in Walkers, EndWalk(t) PROVE TypeOK'
  BY <1>16, ThreadsDiffer, StopFacts, MessagingAssumption
     DEF TypeOK, Places, Calls, Kinds, Locks, Walkers, EndWalk, Goto,
         locks, walks
<1>17. CASE StartServing
  BY <1>17, ThreadsDiffer, StopFacts, MessagingAssumption
     DEF TypeOK, Places, Calls, Kinds, Locks, Walkers, StartServing, Take,
         Goto, walks, Free
<1>18. CASE PopMessage
  <2>1. queue \in Seq(Kinds) /\ queue # <<>> /\ queue' = Tail(queue)
    BY <1>18 DEF PopMessage, TypeOK
  <2>2. queue' \in Seq(Kinds)
    BY <2>1
  <2>3. at' \in [Walkers -> {0} \cup Stops]
    BY <1>18, StopFacts DEF PopMessage, TypeOK
  <2>4. place' \in [Threads -> Places]
    BY <1>18 DEF PopMessage, Goto, TypeOK, Places
  <2>5. updates' \in Nat
    <3>1. updates \in Nat
      BY DEF TypeOK
    <3>2. updates' = updates \/ updates' = updates + 1
      BY <1>18, Zenon DEF PopMessage
    <3> QED
      BY <3>1, <3>2
  <2> QED
    BY <1>18, <2>2, <2>3, <2>4, <2>5 DEF PopMessage, locks, TypeOK
<1>19. CASE StartReply
  BY <1>19, ThreadsDiffer, StopFacts, MessagingAssumption
     DEF TypeOK, Places, Calls, Kinds, Locks, Walkers, StartReply, Enter,
         locks, walks
<1>20. CASE EndReplies
  BY <1>20, ThreadsDiffer, StopFacts, MessagingAssumption
     DEF TypeOK, Places, Calls, Kinds, Locks, Walkers, EndReplies, Goto,
         locks, walks
<1>21. CASE EndServing
  BY <1>21, ThreadsDiffer, StopFacts, MessagingAssumption
     DEF TypeOK, Places, Calls, Kinds, Locks, Walkers, EndServing, Goto,
         Give, walks
<1>23. CASE StartPublish
  BY <1>23, ThreadsDiffer, StopFacts, MessagingAssumption
     DEF TypeOK, Places, Calls, Kinds, Locks, Walkers, StartPublish, Goto,
         locks
<1>24. ASSUME NEW t \in Callers \cup {Publisher}, StartMessage(t) PROVE TypeOK'
  BY <1>24, ThreadsDiffer, StopFacts, MessagingAssumption
     DEF TypeOK, Places, Calls, Kinds, Locks, Walkers, StartMessage, Goto,
         Enter, locks, walks
<1>25. ASSUME NEW kind \in Requests, MessageArrives(kind) PROVE TypeOK'
  <2>1. budget' \in 0..Budget
    BY <1>25, MessagingAssumption DEF MessageArrives, TypeOK
  <2>2. pending' \in [Threads -> Kinds \cup {"headless"}]
    BY <1>25, ThreadsDiffer DEF MessageArrives, Kinds, TypeOK
  <2> QED
    BY <1>25, <2>1, <2>2, ThreadsDiffer DEF MessageArrives, Take, Goto, walks, Free, TypeOK, Places, Locks
<1>26. ASSUME NEW t \in Callers, NEW kind \in Requests, SendControl(t, kind) PROVE TypeOK'
  <2>1. budget' \in 0..Budget
    BY <1>26, MessagingAssumption DEF SendControl, TypeOK
  <2>2. pending' \in [Threads -> Kinds \cup {"headless"}]
    BY <1>26, ThreadsDiffer DEF SendControl, Kinds, TypeOK
  <2> QED
    BY <1>26, <2>1, <2>2, ThreadsDiffer DEF SendControl, Goto, locks, walks, TypeOK, Places, Locks
<1>27. CASE RunEnds
  <2>1. budget' \in 0..Budget
    BY <1>27, MessagingAssumption DEF RunEnds, TypeOK
  <2>2. pending' \in [Threads -> Kinds \cup {"headless"}]
    BY <1>27, ThreadsDiffer DEF RunEnds, Kinds, TypeOK
  <2> QED
    BY <1>27, <2>1, <2>2, ThreadsDiffer DEF RunEnds, Take, Goto, walks, Free, TypeOK, Places, Locks
<1>28. CASE UNCHANGED vars
  BY <1>28, ThreadsDiffer, StopFacts, MessagingAssumption
     DEF TypeOK, Places, Calls, Kinds, Locks, Walkers, vars, locks, walks
<1> QED
  BY <1>1, <1>2, <1>3, <1>4, <1>5, <1>6, <1>7, <1>8, <1>9, <1>10, <1>11,
     <1>12, <1>13, <1>14, <1>15, <1>16, <1>17, <1>18, <1>19, <1>20, <1>21,
     <1>23, <1>24, <1>25, <1>26, <1>27, <1>28
     DEF Next, Sending, Walking, Serving

LEMMA NextPlaceShape == TypeOK /\ PlaceShape /\ [Next]_vars => PlaceShape'
<1> SUFFICES ASSUME TypeOK, PlaceShape, [Next]_vars PROVE PlaceShape'
  OBVIOUS
<1>1. ASSUME NEW t \in Threads, TakeSend(t) PROVE PlaceShape'
  BY <1>1, ThreadsDiffer
     DEF TypeOK, PlaceShape, Calls, TakeSend, Take, Enter, walks, Free
<1>2. ASSUME NEW t \in Threads, GiveSend(t) PROVE PlaceShape'
  <2>1. /\ call'[t] = "none" /\ call[t] = "loop"
        /\ \A u \in Threads : u # t => call'[u] = call[u] /\ place'[u] = place[u]
        /\ place'[t] \in {"idle", place[t]}
    BY <1>2 DEF GiveSend, Goto, Enter, TypeOK
  <2> QED
    BY <2>1 DEF PlaceShape
<1>3. ASSUME NEW t \in Threads, NEW c \in Connectors, CallConnector(t, c) PROVE PlaceShape'
  BY <1>3, ThreadsDiffer
     DEF TypeOK, PlaceShape, Calls, CallConnector, locks, walks
<1>4. ASSUME NEW t \in Threads, CallMQTT(t) PROVE PlaceShape'
  BY <1>4, ThreadsDiffer
     DEF TypeOK, PlaceShape, Calls, CallMQTT, Enter, locks, walks
<1>5. ASSUME NEW t \in Threads, SendMQTT(t) PROVE PlaceShape'
  BY <1>5, ThreadsDiffer
     DEF TypeOK, PlaceShape, Calls, SendMQTT, Free, Enter, locks, walks
<1>6. ASSUME NEW t \in Threads, CallHeadless(t) PROVE PlaceShape'
  BY <1>6, ThreadsDiffer
     DEF TypeOK, PlaceShape, Calls, CallHeadless, Enter, locks, walks
<1>7. ASSUME NEW t \in Threads, TakeHeadless(t) PROVE PlaceShape'
  <2>1. t = Publisher /\ call'[t] \in {"rolling", "starting"}
    BY <1>7 DEF TakeHeadless, Enter, TypeOK, PlaceShape
  <2> QED
    BY <1>7, <2>1, ThreadsDiffer DEF TakeHeadless, Enter, TypeOK, PlaceShape
<1>8. ASSUME NEW t \in Threads, NotifyProviders(t) PROVE PlaceShape'
  BY <1>8, ThreadsDiffer
     DEF TypeOK, PlaceShape, Calls, NotifyProviders, Enter, Receive,
         locks, walks, Free
<1>9. ASSUME NEW t \in Threads, FileIsFull(t) PROVE PlaceShape'
  BY <1>9, ThreadsDiffer
     DEF TypeOK, PlaceShape, Calls, FileIsFull, Enter, locks, walks
<1>10. ASSUME NEW t \in Threads, RollOver(t) PROVE PlaceShape'
  BY <1>10, ThreadsDiffer
     DEF TypeOK, PlaceShape, Calls, RollOver, Enter, Give, Receive, walks,
         Free
<1>11. ASSUME NEW t \in Threads, Write(t) PROVE PlaceShape'
  BY <1>11, ThreadsDiffer
     DEF TypeOK, PlaceShape, Calls, Write, Enter, Give, walks
<1>12. ASSUME NEW t \in Threads, Deliver(t) PROVE PlaceShape'
  <2>1. /\ UNCHANGED call /\ place'[t] = "idle" /\ place[t] = "delivering"
        /\ \A u \in Threads : u # t => place'[u] = place[u]
    BY <1>12 DEF Deliver, Goto, TypeOK
  <2> QED
    BY <2>1 DEF PlaceShape
<1>13. ASSUME NEW t \in Walkers, TakeBucket(t) PROVE PlaceShape'
  <2>1. /\ UNCHANGED call /\ place[t] = "want bucket" /\ place'[t] = "in bucket"
        /\ \A u \in Threads : u # t => place'[u] = place[u]
    BY <1>13, ThreadsDiffer DEF TakeBucket, Goto, TypeOK
  <2> QED
    BY <2>1, ThreadsDiffer DEF PlaceShape
<1>14. ASSUME NEW t \in Walkers, SendFromBucket(t) PROVE PlaceShape'
  <2>1. /\ place' = place /\ place[t] = "in bucket" /\ call'[t] = "send"
        /\ \A u \in Threads : u # t => call'[u] = call[u]
    BY <1>14, ThreadsDiffer DEF SendFromBucket, Enter, TypeOK, locks
  <2> QED
    BY <2>1 DEF PlaceShape
<1>15. ASSUME NEW t \in Walkers, GiveBucket(t) PROVE PlaceShape'
  BY <1>15, ThreadsDiffer
     DEF TypeOK, PlaceShape, Calls, GiveBucket, Goto
<1>16. ASSUME NEW t \in Walkers, EndWalk(t) PROVE PlaceShape'
  BY <1>16, ThreadsDiffer
     DEF TypeOK, PlaceShape, Calls, EndWalk, Goto, locks, walks
<1>17. CASE StartServing
  BY <1>17, ThreadsDiffer
     DEF TypeOK, PlaceShape, Calls, StartServing, Take, Goto, walks, Free
<1>18. CASE PopMessage
  BY <1>18, ThreadsDiffer
     DEF TypeOK, PlaceShape, Calls, PopMessage, Goto, locks
<1>19. CASE StartReply
  BY <1>19, ThreadsDiffer
     DEF TypeOK, PlaceShape, Calls, StartReply, Enter, locks, walks
<1>20. CASE EndReplies
  BY <1>20, ThreadsDiffer
     DEF TypeOK, PlaceShape, Calls, EndReplies, Goto, locks, walks
<1>21. CASE EndServing
  BY <1>21, ThreadsDiffer
     DEF TypeOK, PlaceShape, Calls, EndServing, Goto, Give, walks
<1>23. CASE StartPublish
  BY <1>23, ThreadsDiffer
     DEF TypeOK, PlaceShape, Calls, StartPublish, Goto, locks
<1>24. ASSUME NEW t \in Callers \cup {Publisher}, StartMessage(t) PROVE PlaceShape'
  <2>1. t \in Threads /\ t # Processor
    BY ThreadsDiffer
  <2>2. /\ call'[t] = "send" /\ place'[t] = "message"
        /\ \A u \in Threads : u # t => call'[u] = call[u] /\ place'[u] = place[u]
    BY <1>24, <2>1 DEF StartMessage, Goto, Enter, TypeOK
  <2> QED
    BY <2>1, <2>2 DEF PlaceShape
<1>25. ASSUME NEW kind \in Requests, MessageArrives(kind) PROVE PlaceShape'
  <2>1. /\ UNCHANGED call /\ place'[Paho] = "delivering"
        /\ place[Paho] = "idle" /\ "mqtt" \in Connectors
        /\ \A u \in Threads : u # Paho => place'[u] = place[u]
    BY <1>25, ThreadsDiffer DEF MessageArrives, Goto, TypeOK
  <2> QED
    BY <2>1, ThreadsDiffer DEF PlaceShape
<1>26. ASSUME NEW t \in Callers, NEW kind \in Requests, SendControl(t, kind) PROVE PlaceShape'
  <2>1. /\ UNCHANGED call /\ place'[t] = "delivering" /\ place[t] = "idle"
        /\ \A u \in Threads : u # t => place'[u] = place[u]
    BY <1>26, ThreadsDiffer DEF SendControl, Goto, TypeOK
  <2> QED
    BY <2>1, ThreadsDiffer DEF PlaceShape
<1>27. CASE RunEnds
  BY <1>27, ThreadsDiffer
     DEF TypeOK, PlaceShape, Calls, RunEnds, Take, Goto, walks, Free
<1>28. CASE UNCHANGED vars
  BY <1>28, ThreadsDiffer
     DEF TypeOK, PlaceShape, Calls, vars, locks, walks
<1> QED
  BY <1>1, <1>2, <1>3, <1>4, <1>5, <1>6, <1>7, <1>8, <1>9, <1>10, <1>11,
     <1>12, <1>13, <1>14, <1>15, <1>16, <1>17, <1>18, <1>19, <1>20, <1>21,
     <1>23, <1>24, <1>25, <1>26, <1>27, <1>28
     DEF Next, Sending, Walking, Serving

LEMMA NextQuietClients == TypeOK /\ PlaceShape /\ LoopShape /\ QuietClients /\ [Next]_vars => QuietClients'
<1> SUFFICES ASSUME TypeOK, PlaceShape, LoopShape, QuietClients, [Next]_vars PROVE QuietClients'
  OBVIOUS
<1>1. ASSUME NEW t \in Threads, TakeSend(t) PROVE QuietClients'
  BY <1>1, ThreadsDiffer
     DEF TypeOK, QuietClients, TakeSend, Take, Enter, walks, Free
<1>2. ASSUME NEW t \in Threads, GiveSend(t) PROVE QuietClients'
  BY <1>2, ThreadsDiffer
     DEF TypeOK, QuietClients, PlaceShape, GiveSend, Goto, Enter, Give
<1>3. ASSUME NEW t \in Threads, NEW c \in Connectors, CallConnector(t, c) PROVE QuietClients'
  BY <1>3, ThreadsDiffer
     DEF TypeOK, QuietClients, CallConnector, locks, walks
<1>4. ASSUME NEW t \in Threads, CallMQTT(t) PROVE QuietClients'
  BY <1>4, ThreadsDiffer
     DEF TypeOK, QuietClients, CallMQTT, Enter, locks, walks
<1>5. ASSUME NEW t \in Threads, SendMQTT(t) PROVE QuietClients'
  BY <1>5, ThreadsDiffer
     DEF TypeOK, QuietClients, SendMQTT, Free, Enter, locks, walks
<1>6. ASSUME NEW t \in Threads, CallHeadless(t) PROVE QuietClients'
  BY <1>6, ThreadsDiffer
     DEF TypeOK, QuietClients, CallHeadless, Enter, locks, walks
<1>7. ASSUME NEW t \in Threads, TakeHeadless(t) PROVE QuietClients'
  BY <1>7, ThreadsDiffer
     DEF TypeOK, QuietClients, TakeHeadless, Take, Enter, walks, Free
<1>8. ASSUME NEW t \in Threads, NotifyProviders(t) PROVE QuietClients'
  BY <1>8, ThreadsDiffer
     DEF TypeOK, QuietClients, NotifyProviders, Enter, Receive, locks,
         walks, Free
<1>9. ASSUME NEW t \in Threads, FileIsFull(t) PROVE QuietClients'
  BY <1>9, ThreadsDiffer
     DEF TypeOK, QuietClients, FileIsFull, Enter, locks, walks
<1>10. ASSUME NEW t \in Threads, RollOver(t) PROVE QuietClients'
  BY <1>10, ThreadsDiffer
     DEF TypeOK, QuietClients, RollOver, Enter, Give, Receive, walks, Free
<1>11. ASSUME NEW t \in Threads, Write(t) PROVE QuietClients'
  BY <1>11, ThreadsDiffer
     DEF TypeOK, QuietClients, Write, Enter, Give, walks
<1>12. ASSUME NEW t \in Threads, Deliver(t) PROVE QuietClients'
  BY <1>12, ThreadsDiffer
     DEF TypeOK, QuietClients, Deliver, Goto, Receive, walks, Free
<1>13. ASSUME NEW t \in Walkers, TakeBucket(t) PROVE QuietClients'
  BY <1>13, ThreadsDiffer DEF TypeOK, QuietClients, TakeBucket, Goto
<1>14. ASSUME NEW t \in Walkers, SendFromBucket(t) PROVE QuietClients'
  BY <1>14, ThreadsDiffer
     DEF TypeOK, QuietClients, SendFromBucket, Enter, locks
<1>15. ASSUME NEW t \in Walkers, GiveBucket(t) PROVE QuietClients'
  BY <1>15, ThreadsDiffer DEF GiveBucket, Goto, TypeOK, QuietClients
<1>16. ASSUME NEW t \in Walkers, EndWalk(t) PROVE QuietClients'
  BY <1>16, ThreadsDiffer
     DEF TypeOK, QuietClients, EndWalk, Goto, locks, walks
<1>17. CASE StartServing
  BY <1>17, ThreadsDiffer
     DEF TypeOK, QuietClients, StartServing, Take, Goto, walks, Free
<1>18. CASE PopMessage
  <2>1. queue \in Seq(Kinds) /\ queue # <<>>
    BY <1>18 DEF PopMessage, TypeOK
  <2>2. Head(queue) \in Kinds
    BY <2>1
  <2>3. SUFFICES ASSUME Requests \subseteq {"headless"} PROVE place'[Processor] = "serving"
    BY DEF QuietClients
  <2> QED
    BY <1>18, <2>2, <2>3, ThreadsDiffer DEF PopMessage, Goto, TypeOK, Kinds
<1>19. CASE StartReply
  BY <1>19, ThreadsDiffer
     DEF TypeOK, QuietClients, StartReply, Enter, locks, walks
<1>20. CASE EndReplies
  BY <1>20 DEF EndReplies, QuietClients
<1>21. CASE EndServing
  BY <1>21, ThreadsDiffer
     DEF TypeOK, QuietClients, EndServing, Goto, Give, walks
<1>23. CASE StartPublish
  BY <1>23, ThreadsDiffer
     DEF TypeOK, QuietClients, StartPublish, Goto, locks
<1>24. ASSUME NEW t \in Callers \cup {Publisher}, StartMessage(t) PROVE QuietClients'
  BY <1>24, ThreadsDiffer
     DEF TypeOK, QuietClients, StartMessage, Goto, Enter, locks, walks
<1>25. ASSUME NEW kind \in Requests, MessageArrives(kind) PROVE QuietClients'
  BY <1>25, ThreadsDiffer
     DEF TypeOK, QuietClients, MessageArrives, Take, Goto, walks, Free
<1>26. ASSUME NEW t \in Callers, NEW kind \in Requests, SendControl(t, kind) PROVE QuietClients'
  BY <1>26, ThreadsDiffer
     DEF TypeOK, QuietClients, SendControl, Goto, locks, walks
<1>27. CASE RunEnds
  BY <1>27, ThreadsDiffer
     DEF TypeOK, QuietClients, RunEnds, Take, Goto, walks, Free
<1>28. CASE UNCHANGED vars
  BY <1>28, ThreadsDiffer DEF TypeOK, QuietClients, vars, locks, walks
<1> QED
  BY <1>1, <1>2, <1>3, <1>4, <1>5, <1>6, <1>7, <1>8, <1>9, <1>10, <1>11,
     <1>12, <1>13, <1>14, <1>15, <1>16, <1>17, <1>18, <1>19, <1>20, <1>21,
     <1>23, <1>24, <1>25, <1>26, <1>27, <1>28
     DEF Next, Sending, Walking, Serving

LEMMA NextLoopShape == TypeOK /\ PlaceShape /\ LoopShape /\ [Next]_vars => LoopShape'
<1> SUFFICES ASSUME TypeOK, PlaceShape, LoopShape, [Next]_vars PROVE LoopShape'
  OBVIOUS
<1>1. ASSUME NEW t \in Threads, TakeSend(t) PROVE LoopShape'
  BY <1>1, ThreadsDiffer, StopFacts
     DEF TypeOK, LoopShape, TakeSend, Take, Enter, walks, Free
<1>2. ASSUME NEW t \in Threads, GiveSend(t) PROVE LoopShape'
  BY <1>2, ThreadsDiffer, StopFacts
     DEF TypeOK, LoopShape, PlaceShape, GiveSend, Goto, Enter, Give
<1>3. ASSUME NEW t \in Threads, NEW c \in Connectors, CallConnector(t, c) PROVE LoopShape'
  BY <1>3, ThreadsDiffer, StopFacts
     DEF TypeOK, LoopShape, CallConnector, locks, walks
<1>4. ASSUME NEW t \in Threads, CallMQTT(t) PROVE LoopShape'
  BY <1>4, ThreadsDiffer, StopFacts
     DEF TypeOK, LoopShape, CallMQTT, Enter, locks, walks
<1>5. ASSUME NEW t \in Threads, SendMQTT(t) PROVE LoopShape'
  BY <1>5, ThreadsDiffer, StopFacts
     DEF TypeOK, LoopShape, SendMQTT, Free, Enter, locks, walks
<1>6. ASSUME NEW t \in Threads, CallHeadless(t) PROVE LoopShape'
  BY <1>6, ThreadsDiffer, StopFacts
     DEF TypeOK, LoopShape, CallHeadless, Enter, locks, walks
<1>7. ASSUME NEW t \in Threads, TakeHeadless(t) PROVE LoopShape'
  BY <1>7, ThreadsDiffer, StopFacts
     DEF TypeOK, LoopShape, TakeHeadless, Take, Enter, walks, Free
<1>8. ASSUME NEW t \in Threads, NotifyProviders(t) PROVE LoopShape'
  BY <1>8, ThreadsDiffer, StopFacts
     DEF TypeOK, LoopShape, NotifyProviders, Enter, Receive, locks, walks,
         Free
<1>9. ASSUME NEW t \in Threads, FileIsFull(t) PROVE LoopShape'
  BY <1>9, ThreadsDiffer, StopFacts
     DEF TypeOK, LoopShape, FileIsFull, Enter, locks, walks
<1>10. ASSUME NEW t \in Threads, RollOver(t) PROVE LoopShape'
  BY <1>10, ThreadsDiffer, StopFacts
     DEF TypeOK, LoopShape, RollOver, Enter, Give, Receive, walks, Free
<1>11. ASSUME NEW t \in Threads, Write(t) PROVE LoopShape'
  BY <1>11, ThreadsDiffer, StopFacts
     DEF TypeOK, LoopShape, Write, Enter, Give, walks
<1>12. ASSUME NEW t \in Threads, Deliver(t) PROVE LoopShape'
  BY <1>12, ThreadsDiffer, StopFacts
     DEF TypeOK, LoopShape, Deliver, Goto, Receive, walks, Free
<1>13. ASSUME NEW t \in Walkers, TakeBucket(t) PROVE LoopShape'
  BY <1>13, ThreadsDiffer, StopFacts
     DEF TypeOK, LoopShape, TakeBucket, Goto
<1>14. ASSUME NEW t \in Walkers, SendFromBucket(t) PROVE LoopShape'
  BY <1>14, ThreadsDiffer, StopFacts
     DEF TypeOK, LoopShape, SendFromBucket, Enter, locks
<1>15. ASSUME NEW t \in Walkers, GiveBucket(t) PROVE LoopShape'
  BY <1>15, ThreadsDiffer, StopFacts
     DEF TypeOK, LoopShape, GiveBucket, Goto
<1>16. ASSUME NEW t \in Walkers, EndWalk(t) PROVE LoopShape'
  BY <1>16, ThreadsDiffer, StopFacts
     DEF TypeOK, LoopShape, EndWalk, Goto, locks, walks
<1>17. CASE StartServing
  BY <1>17, ThreadsDiffer, StopFacts
     DEF TypeOK, LoopShape, StartServing, Take, Goto, walks, Free
<1>18. CASE PopMessage
  <2>1. /\ place'[Processor] \in {"replying", "want bucket", "serving"}
        /\ \A u \in Threads : u # Processor => place'[u] = place[u]
    BY <1>18, ThreadsDiffer DEF PopMessage, Goto, TypeOK
  <2>2. /\ at'[Processor] = 1
        /\ \A u \in Walkers : u # Processor => at'[u] = at[u]
    BY <1>18, ThreadsDiffer DEF PopMessage, TypeOK
  <2>3. call[Processor] = "none"
    BY <1>18, ThreadsDiffer DEF PopMessage, PlaceShape
  <2> QED
    BY <1>18, <2>1, <2>2, <2>3, StopFacts, ThreadsDiffer DEF PopMessage, LoopShape
<1>19. CASE StartReply
  BY <1>19, ThreadsDiffer, StopFacts
     DEF TypeOK, LoopShape, StartReply, Enter, locks, walks
<1>20. CASE EndReplies
  BY <1>20, ThreadsDiffer, StopFacts
     DEF TypeOK, LoopShape, EndReplies, Goto, locks, walks
<1>21. CASE EndServing
  BY <1>21, ThreadsDiffer, StopFacts
     DEF TypeOK, LoopShape, EndServing, Goto, Give, walks
<1>23. CASE StartPublish
  BY <1>23, ThreadsDiffer, StopFacts
     DEF TypeOK, LoopShape, StartPublish, Goto, locks
<1>24. ASSUME NEW t \in Callers \cup {Publisher}, StartMessage(t) PROVE LoopShape'
  BY <1>24, ThreadsDiffer, StopFacts
     DEF TypeOK, LoopShape, StartMessage, Goto, Enter, locks, walks
<1>25. ASSUME NEW kind \in Requests, MessageArrives(kind) PROVE LoopShape'
  BY <1>25, ThreadsDiffer, StopFacts
     DEF TypeOK, LoopShape, MessageArrives, Take, Goto, walks, Free
<1>26. ASSUME NEW t \in Callers, NEW kind \in Requests, SendControl(t, kind) PROVE LoopShape'
  BY <1>26, ThreadsDiffer, StopFacts
     DEF TypeOK, LoopShape, SendControl, Goto, locks, walks
<1>27. CASE RunEnds
  BY <1>27, ThreadsDiffer, StopFacts
     DEF TypeOK, LoopShape, RunEnds, Take, Goto, walks, Free
<1>28. CASE UNCHANGED vars
  BY <1>28, ThreadsDiffer, StopFacts
     DEF TypeOK, LoopShape, vars, locks, walks
<1> QED
  BY <1>1, <1>2, <1>3, <1>4, <1>5, <1>6, <1>7, <1>8, <1>9, <1>10, <1>11,
     <1>12, <1>13, <1>14, <1>15, <1>16, <1>17, <1>18, <1>19, <1>20, <1>21,
     <1>23, <1>24, <1>25, <1>26, <1>27, <1>28
     DEF Next, Sending, Walking, Serving

LEMMA NextSendHeld == TypeOK /\ PlaceShape /\ SendHeld /\ [Next]_vars => SendHeld'
<1> SUFFICES ASSUME TypeOK, PlaceShape, SendHeld, [Next]_vars PROVE SendHeld'
  OBVIOUS
<1>1. ASSUME NEW t \in Threads, TakeSend(t) PROVE SendHeld'
  BY <1>1, ThreadsDiffer
     DEF TypeOK, SendHeld, InLoop, Calls, Locks, TakeSend, Take, Enter,
         walks, Free
<1>2. ASSUME NEW t \in Threads, GiveSend(t) PROVE SendHeld'
  <2>1. /\ InLoop(t) /\ ~InLoop(t)'
        /\ \A u \in Threads : u # t => call'[u] = call[u]
    BY <1>2 DEF GiveSend, Enter, TypeOK, InLoop, Calls
  <2>2. owner'["send"] = NoThread
    BY <1>2 DEF GiveSend, Give, Locks, TypeOK
  <2>3. \A u \in Threads : InLoop(u) => u = t
    BY <2>1 DEF SendHeld
  <2>4. ASSUME NEW u \in Threads
        PROVE  owner'["send"] = u <=> InLoop(u)'
    <3>1. owner'["send"] # u
      BY <2>2, ThreadsDiffer
    <3>2. ~InLoop(u)'
      BY <2>1, <2>3 DEF InLoop
    <3> QED
      BY ONLY <3>1, <3>2
  <2> QED
    BY ONLY <2>4 DEF SendHeld
<1>3. ASSUME NEW t \in Threads, NEW c \in Connectors, CallConnector(t, c) PROVE SendHeld'
  BY <1>3, ThreadsDiffer
     DEF TypeOK, SendHeld, InLoop, Calls, Locks, CallConnector, locks,
         walks
<1>4. ASSUME NEW t \in Threads, CallMQTT(t) PROVE SendHeld'
  BY <1>4, ThreadsDiffer
     DEF TypeOK, SendHeld, InLoop, Calls, Locks, CallMQTT, Enter, locks,
         walks
<1>5. ASSUME NEW t \in Threads, SendMQTT(t) PROVE SendHeld'
  BY <1>5, ThreadsDiffer
     DEF TypeOK, SendHeld, InLoop, Calls, Locks, SendMQTT, Free, Enter,
         locks, walks
<1>6. ASSUME NEW t \in Threads, CallHeadless(t) PROVE SendHeld'
  <2>1. /\ call[t] = "loop" /\ call'[t] = "headless" /\ owner' = owner
        /\ \A u \in Threads : u # t => call'[u] = call[u]
    BY <1>6 DEF CallHeadless, Enter, TypeOK, locks
  <2>2. \A u \in Threads : InLoop(u)' <=> InLoop(u)
    BY <2>1 DEF InLoop, Calls
  <2> QED
    BY <2>1, <2>2 DEF SendHeld
<1>7. ASSUME NEW t \in Threads, TakeHeadless(t) PROVE SendHeld'
  BY <1>7, ThreadsDiffer
     DEF TypeOK, SendHeld, InLoop, Calls, Locks, TakeHeadless, Take,
         Enter, walks, Free
<1>8. ASSUME NEW t \in Threads, NotifyProviders(t) PROVE SendHeld'
  BY <1>8, ThreadsDiffer
     DEF TypeOK, SendHeld, InLoop, Calls, Locks, NotifyProviders, Enter,
         Receive, locks, walks, Free
<1>9. ASSUME NEW t \in Threads, FileIsFull(t) PROVE SendHeld'
  BY <1>9, ThreadsDiffer
     DEF TypeOK, SendHeld, InLoop, Calls, Locks, FileIsFull, Enter, locks,
         walks
<1>10. ASSUME NEW t \in Threads, RollOver(t) PROVE SendHeld'
  BY <1>10, ThreadsDiffer
     DEF TypeOK, SendHeld, InLoop, Calls, Locks, RollOver, Enter, Give,
         Receive, walks, Free
<1>11. ASSUME NEW t \in Threads, Write(t) PROVE SendHeld'
  BY <1>11, ThreadsDiffer
     DEF TypeOK, SendHeld, InLoop, Calls, Locks, Write, Enter, Give, walks
<1>12. ASSUME NEW t \in Threads, Deliver(t) PROVE SendHeld'
  BY <1>12, ThreadsDiffer
     DEF TypeOK, SendHeld, InLoop, Calls, Locks, Deliver, Goto, Receive,
         walks, Free
<1>13. ASSUME NEW t \in Walkers, TakeBucket(t) PROVE SendHeld'
  BY <1>13, ThreadsDiffer
     DEF TypeOK, SendHeld, InLoop, Calls, Locks, TakeBucket, Goto
<1>14. ASSUME NEW t \in Walkers, SendFromBucket(t) PROVE SendHeld'
  BY <1>14, ThreadsDiffer
     DEF TypeOK, SendHeld, InLoop, Calls, Locks, SendFromBucket, Enter,
         locks
<1>15. ASSUME NEW t \in Walkers, GiveBucket(t) PROVE SendHeld'
  BY <1>15, ThreadsDiffer
     DEF TypeOK, SendHeld, InLoop, Calls, Locks, GiveBucket, Goto
<1>16. ASSUME NEW t \in Walkers, EndWalk(t) PROVE SendHeld'
  BY <1>16, ThreadsDiffer
     DEF TypeOK, SendHeld, InLoop, Calls, Locks, EndWalk, Goto, locks,
         walks
<1>17. CASE StartServing
  BY <1>17, ThreadsDiffer
     DEF TypeOK, SendHeld, InLoop, Calls, Locks, StartServing, Take, Goto,
         walks, Free
<1>18. CASE PopMessage
  BY <1>18, ThreadsDiffer
     DEF TypeOK, SendHeld, InLoop, Calls, Locks, PopMessage, Goto, locks
<1>19. CASE StartReply
  BY <1>19, ThreadsDiffer
     DEF TypeOK, SendHeld, InLoop, Calls, Locks, StartReply, Enter, locks,
         walks
<1>20. CASE EndReplies
  BY <1>20, ThreadsDiffer
     DEF TypeOK, SendHeld, InLoop, Calls, Locks, EndReplies, Goto, locks,
         walks
<1>21. CASE EndServing
  BY <1>21, ThreadsDiffer
     DEF TypeOK, SendHeld, InLoop, Calls, Locks, EndServing, Goto, Give,
         walks
<1>23. CASE StartPublish
  BY <1>23, ThreadsDiffer
     DEF TypeOK, SendHeld, InLoop, Calls, Locks, StartPublish, Goto, locks
<1>24. ASSUME NEW t \in Callers \cup {Publisher}, StartMessage(t) PROVE SendHeld'
  <2>1. call[t] = "none" /\ t \in Threads
    BY <1>24, ThreadsDiffer DEF StartMessage, PlaceShape
  <2> QED
    BY <1>24, <2>1 DEF StartMessage, Enter, locks, SendHeld, InLoop, Calls, TypeOK
<1>25. ASSUME NEW kind \in Requests, MessageArrives(kind) PROVE SendHeld'
  BY <1>25, ThreadsDiffer
     DEF TypeOK, SendHeld, InLoop, Calls, Locks, MessageArrives, Take,
         Goto, walks, Free
<1>26. ASSUME NEW t \in Callers, NEW kind \in Requests, SendControl(t, kind) PROVE SendHeld'
  BY <1>26, ThreadsDiffer
     DEF TypeOK, SendHeld, InLoop, Calls, Locks, SendControl, Goto, locks,
         walks
<1>27. CASE RunEnds
  BY <1>27, ThreadsDiffer
     DEF TypeOK, SendHeld, InLoop, Calls, Locks, RunEnds, Take, Goto,
         walks, Free
<1>28. CASE UNCHANGED vars
  BY <1>28, ThreadsDiffer
     DEF TypeOK, SendHeld, InLoop, Calls, Locks, vars, locks, walks
<1> QED
  BY <1>1, <1>2, <1>3, <1>4, <1>5, <1>6, <1>7, <1>8, <1>9, <1>10, <1>11,
     <1>12, <1>13, <1>14, <1>15, <1>16, <1>17, <1>18, <1>19, <1>20, <1>21,
     <1>23, <1>24, <1>25, <1>26, <1>27, <1>28
     DEF Next, Sending, Walking, Serving

LEMMA NextHeadlessHeld == TypeOK /\ PlaceShape /\ HeadlessHeld /\ [Next]_vars => HeadlessHeld'
<1> SUFFICES ASSUME TypeOK, PlaceShape, HeadlessHeld, [Next]_vars PROVE HeadlessHeld'
  OBVIOUS
<1>1. ASSUME NEW t \in Threads, TakeSend(t) PROVE HeadlessHeld'
  BY <1>1, ThreadsDiffer
     DEF TypeOK, HeadlessHeld, InHeadless, Calls, Locks, TakeSend, Take,
         Enter, walks, Free
<1>2. ASSUME NEW t \in Threads, GiveSend(t) PROVE HeadlessHeld'
  BY <1>2, ThreadsDiffer
     DEF TypeOK, HeadlessHeld, InHeadless, Calls, Locks, GiveSend, Goto,
         Enter, Give
<1>3. ASSUME NEW t \in Threads, NEW c \in Connectors, CallConnector(t, c) PROVE HeadlessHeld'
  BY <1>3, ThreadsDiffer
     DEF TypeOK, HeadlessHeld, InHeadless, Calls, Locks, CallConnector,
         locks, walks
<1>4. ASSUME NEW t \in Threads, CallMQTT(t) PROVE HeadlessHeld'
  BY <1>4, ThreadsDiffer
     DEF TypeOK, HeadlessHeld, InHeadless, Calls, Locks, CallMQTT, Enter,
         locks, walks
<1>5. ASSUME NEW t \in Threads, SendMQTT(t) PROVE HeadlessHeld'
  BY <1>5, ThreadsDiffer
     DEF TypeOK, HeadlessHeld, InHeadless, Calls, Locks, SendMQTT, Free,
         Enter, locks, walks
<1>6. ASSUME NEW t \in Threads, CallHeadless(t) PROVE HeadlessHeld'
  BY <1>6, ThreadsDiffer
     DEF TypeOK, HeadlessHeld, InHeadless, Calls, Locks, CallHeadless,
         Enter, locks, walks
<1>7. ASSUME NEW t \in Threads, TakeHeadless(t) PROVE HeadlessHeld'
  <2>1. /\ call'[t] \in {"rolling", "starting"} /\ place' = place
        /\ \A u \in Threads : u # t => call'[u] = call[u]
    BY <1>7 DEF TakeHeadless, Enter, TypeOK
  <2>2. owner["headless"] = NoThread /\ owner'["headless"] = t
    BY <1>7 DEF TakeHeadless, Take, Free, Locks, TypeOK
  <2> QED
    BY <2>1, <2>2, ThreadsDiffer DEF HeadlessHeld, InHeadless
<1>8. ASSUME NEW t \in Threads, NotifyProviders(t) PROVE HeadlessHeld'
  <2>1. /\ call[t] = "starting" /\ call'[t] = "rolling"
        /\ owner' = owner /\ place' = place
        /\ \A u \in Threads : u # t => call'[u] = call[u]
    BY <1>8 DEF NotifyProviders, Enter, TypeOK, locks
  <2> QED
    BY <2>1 DEF HeadlessHeld, InHeadless
<1>9. ASSUME NEW t \in Threads, FileIsFull(t) PROVE HeadlessHeld'
  <2>1. /\ call[t] = "rolling" /\ call'[t] = "closing"
        /\ \A u \in Threads : u # t => call'[u] = call[u]
    BY <1>9 DEF FileIsFull, Enter, TypeOK
  <2> QED
    BY <1>9, <2>1 DEF FileIsFull, locks, HeadlessHeld, InHeadless
<1>10. ASSUME NEW t \in Threads, RollOver(t) PROVE HeadlessHeld'
  <2>1. /\ call[t] = "closing" /\ call'[t] = "loop" /\ place' = place
        /\ \A u \in Threads : u # t => call'[u] = call[u]
    BY <1>10 DEF RollOver, Enter, TypeOK
  <2>2. owner["headless"] = t /\ owner'["headless"] = NoThread
    BY <1>10, <2>1 DEF RollOver, Give, Locks, TypeOK, HeadlessHeld, InHeadless
  <2>3. t = Publisher /\ place[t] # "delivering"
    BY <2>1 DEF PlaceShape
  <2> QED
    BY <2>1, <2>2, <2>3, ThreadsDiffer DEF HeadlessHeld, InHeadless
<1>11. ASSUME NEW t \in Threads, Write(t) PROVE HeadlessHeld'
  <2>1. /\ call[t] = "rolling" /\ call'[t] = "loop" /\ place' = place
        /\ \A u \in Threads : u # t => call'[u] = call[u]
    BY <1>11 DEF Write, Enter, TypeOK
  <2>2. owner["headless"] = t /\ owner'["headless"] = NoThread
    BY <1>11, <2>1 DEF Write, Give, Locks, TypeOK, HeadlessHeld, InHeadless
  <2>3. t = Publisher /\ place[t] # "delivering"
    BY <2>1 DEF PlaceShape
  <2> QED
    BY <2>1, <2>2, <2>3, ThreadsDiffer DEF HeadlessHeld, InHeadless
<1>12. ASSUME NEW t \in Threads, Deliver(t) PROVE HeadlessHeld'
  <2>1. /\ place[t] = "delivering" /\ place'[t] = "idle"
        /\ \A u \in Threads : u # t => place'[u] = place[u]
    BY <1>12 DEF Deliver, Goto, TypeOK
  <2>2. owner'["headless"] = IF t = Timer THEN NoThread ELSE owner["headless"]
    BY <1>12, ThreadsDiffer DEF Deliver, Locks, TypeOK
  <2>3. ~InHeadless(t) /\ call' = call
    BY <1>12, <2>1 DEF Deliver, PlaceShape, InHeadless
  <2> QED
    BY <2>1, <2>2, <2>3, ThreadsDiffer DEF HeadlessHeld, InHeadless
<1>13. ASSUME NEW t \in Walkers, TakeBucket(t) PROVE HeadlessHeld'
  <2>1. /\ owner' = owner /\ call' = call
        /\ t # Timer /\ place'[Timer] = place[Timer]
    BY <1>13, ThreadsDiffer DEF TakeBucket, Goto, TypeOK
  <2>2. \A u \in Threads : u # t => place'[u] = place[u]
    BY <1>13 DEF TakeBucket, Goto, TypeOK
  <2> QED
    BY <2>1, <2>2 DEF HeadlessHeld, InHeadless
<1>14. ASSUME NEW t \in Walkers, SendFromBucket(t) PROVE HeadlessHeld'
  BY <1>14, ThreadsDiffer
     DEF TypeOK, HeadlessHeld, InHeadless, Calls, Locks, SendFromBucket,
         Enter, locks
<1>15. ASSUME NEW t \in Walkers, GiveBucket(t) PROVE HeadlessHeld'
  BY <1>15, ThreadsDiffer
     DEF TypeOK, HeadlessHeld, InHeadless, Calls, Locks, GiveBucket, Goto
<1>16. ASSUME NEW t \in Walkers, EndWalk(t) PROVE HeadlessHeld'
  BY <1>16, ThreadsDiffer
     DEF TypeOK, HeadlessHeld, InHeadless, Calls, Locks, EndWalk, Goto,
         locks, walks
<1>17. CASE StartServing
  BY <1>17, ThreadsDiffer
     DEF TypeOK, HeadlessHeld, InHeadless, Calls, Locks, StartServing,
         Take, Goto, walks, Free
<1>18. CASE PopMessage
  BY <1>18, ThreadsDiffer
     DEF TypeOK, HeadlessHeld, InHeadless, Calls, Locks, PopMessage, Goto,
         locks
<1>19. CASE StartReply
  BY <1>19, ThreadsDiffer
     DEF TypeOK, HeadlessHeld, InHeadless, Calls, Locks, StartReply,
         Enter, locks, walks
<1>20. CASE EndReplies
  BY <1>20, ThreadsDiffer
     DEF TypeOK, HeadlessHeld, InHeadless, Calls, Locks, EndReplies, Goto,
         locks, walks
<1>21. CASE EndServing
  BY <1>21, ThreadsDiffer
     DEF TypeOK, HeadlessHeld, InHeadless, Calls, Locks, EndServing, Goto,
         Give, walks
<1>23. CASE StartPublish
  BY <1>23, ThreadsDiffer
     DEF TypeOK, HeadlessHeld, InHeadless, Calls, Locks, StartPublish,
         Goto, locks
<1>24. ASSUME NEW t \in Callers \cup {Publisher}, StartMessage(t) PROVE HeadlessHeld'
  <2>1. call[t] = "none" /\ t \in Threads
    BY <1>24, ThreadsDiffer DEF StartMessage, PlaceShape
  <2>2. /\ call'[t] = "send" /\ place'[t] = "message"
        /\ \A u \in Threads : u # t => place'[u] = place[u] /\ call'[u] = call[u]
    BY <1>24, <2>1 DEF StartMessage, Goto, Enter, TypeOK
  <2> QED
    BY <1>24, <2>1, <2>2 DEF StartMessage, locks, HeadlessHeld, InHeadless
<1>25. ASSUME NEW kind \in Requests, MessageArrives(kind) PROVE HeadlessHeld'
  BY <1>25, ThreadsDiffer
     DEF TypeOK, HeadlessHeld, InHeadless, Calls, Locks, MessageArrives,
         Take, Goto, walks, Free
<1>26. ASSUME NEW t \in Callers, NEW kind \in Requests, SendControl(t, kind) PROVE HeadlessHeld'
  BY <1>26, ThreadsDiffer
     DEF TypeOK, HeadlessHeld, InHeadless, Calls, Locks, SendControl,
         Goto, locks, walks
<1>27. CASE RunEnds
  BY <1>27, ThreadsDiffer
     DEF TypeOK, HeadlessHeld, InHeadless, Calls, Locks, RunEnds, Take,
         Goto, walks, Free
<1>28. CASE UNCHANGED vars
  BY <1>28, ThreadsDiffer
     DEF TypeOK, HeadlessHeld, InHeadless, Calls, Locks, vars, locks,
         walks
<1> QED
  BY <1>1, <1>2, <1>3, <1>4, <1>5, <1>6, <1>7, <1>8, <1>9, <1>10, <1>11,
     <1>12, <1>13, <1>14, <1>15, <1>16, <1>17, <1>18, <1>19, <1>20, <1>21,
     <1>23, <1>24, <1>25, <1>26, <1>27, <1>28
     DEF Next, Sending, Walking, Serving

LEMMA NextMQTTHeld == TypeOK /\ PlaceShape /\ MQTTHeld /\ [Next]_vars => MQTTHeld'
<1> SUFFICES ASSUME TypeOK, PlaceShape, MQTTHeld, [Next]_vars PROVE MQTTHeld'
  OBVIOUS
<1>1. ASSUME NEW t \in Threads, TakeSend(t) PROVE MQTTHeld'
  BY <1>1, ThreadsDiffer
     DEF TypeOK, MQTTHeld, Locks, TakeSend, Take, Enter, walks, Free
<1>2. ASSUME NEW t \in Threads, GiveSend(t) PROVE MQTTHeld'
  BY <1>2, ThreadsDiffer
     DEF TypeOK, MQTTHeld, Locks, GiveSend, Goto, Enter, Give
<1>3. ASSUME NEW t \in Threads, NEW c \in Connectors, CallConnector(t, c) PROVE MQTTHeld'
  BY <1>3, ThreadsDiffer
     DEF TypeOK, MQTTHeld, Locks, CallConnector, locks, walks
<1>4. ASSUME NEW t \in Threads, CallMQTT(t) PROVE MQTTHeld'
  BY <1>4, ThreadsDiffer
     DEF TypeOK, MQTTHeld, Locks, CallMQTT, Enter, locks, walks
<1>5. ASSUME NEW t \in Threads, SendMQTT(t) PROVE MQTTHeld'
  BY <1>5, ThreadsDiffer
     DEF TypeOK, MQTTHeld, Locks, SendMQTT, Free, Enter, locks, walks
<1>6. ASSUME NEW t \in Threads, CallHeadless(t) PROVE MQTTHeld'
  BY <1>6, ThreadsDiffer
     DEF TypeOK, MQTTHeld, Locks, CallHeadless, Enter, locks, walks
<1>7. ASSUME NEW t \in Threads, TakeHeadless(t) PROVE MQTTHeld'
  BY <1>7, ThreadsDiffer
     DEF TypeOK, MQTTHeld, Locks, TakeHeadless, Take, Enter, walks, Free
<1>8. ASSUME NEW t \in Threads, NotifyProviders(t) PROVE MQTTHeld'
  BY <1>8, ThreadsDiffer
     DEF TypeOK, MQTTHeld, Locks, NotifyProviders, Enter, Receive, locks,
         walks, Free
<1>9. ASSUME NEW t \in Threads, FileIsFull(t) PROVE MQTTHeld'
  BY <1>9, ThreadsDiffer
     DEF TypeOK, MQTTHeld, Locks, FileIsFull, Enter, locks, walks
<1>10. ASSUME NEW t \in Threads, RollOver(t) PROVE MQTTHeld'
  BY <1>10, ThreadsDiffer
     DEF TypeOK, MQTTHeld, Locks, RollOver, Enter, Give, Receive, walks,
         Free
<1>11. ASSUME NEW t \in Threads, Write(t) PROVE MQTTHeld'
  BY <1>11, ThreadsDiffer
     DEF TypeOK, MQTTHeld, Locks, Write, Enter, Give, walks
<1>12. ASSUME NEW t \in Threads, Deliver(t) PROVE MQTTHeld'
  <2>1. /\ place[t] = "delivering" /\ place'[t] = "idle"
        /\ \A u \in Threads : u # t => place'[u] = place[u]
    BY <1>12 DEF Deliver, Goto, TypeOK
  <2>2. owner'["mqtt"] = IF t = Paho THEN NoThread ELSE owner["mqtt"]
    BY <1>12, ThreadsDiffer DEF Deliver, Locks, TypeOK
  <2> QED
    BY <2>1, <2>2, ThreadsDiffer DEF MQTTHeld
<1>13. ASSUME NEW t \in Walkers, TakeBucket(t) PROVE MQTTHeld'
  BY <1>13, ThreadsDiffer
     DEF TypeOK, MQTTHeld, Locks, TakeBucket, Goto
<1>14. ASSUME NEW t \in Walkers, SendFromBucket(t) PROVE MQTTHeld'
  BY <1>14, ThreadsDiffer
     DEF TypeOK, MQTTHeld, Locks, SendFromBucket, Enter, locks
<1>15. ASSUME NEW t \in Walkers, GiveBucket(t) PROVE MQTTHeld'
  BY <1>15, ThreadsDiffer
     DEF TypeOK, MQTTHeld, Locks, GiveBucket, Goto
<1>16. ASSUME NEW t \in Walkers, EndWalk(t) PROVE MQTTHeld'
  BY <1>16, ThreadsDiffer
     DEF TypeOK, MQTTHeld, Locks, EndWalk, Goto, locks, walks
<1>17. CASE StartServing
  BY <1>17, ThreadsDiffer
     DEF TypeOK, MQTTHeld, Locks, StartServing, Take, Goto, walks, Free
<1>18. CASE PopMessage
  BY <1>18, ThreadsDiffer
     DEF TypeOK, MQTTHeld, Locks, PopMessage, Goto, locks
<1>19. CASE StartReply
  BY <1>19, ThreadsDiffer
     DEF TypeOK, MQTTHeld, Locks, StartReply, Enter, locks, walks
<1>20. CASE EndReplies
  BY <1>20, ThreadsDiffer
     DEF TypeOK, MQTTHeld, Locks, EndReplies, Goto, locks, walks
<1>21. CASE EndServing
  BY <1>21, ThreadsDiffer
     DEF TypeOK, MQTTHeld, Locks, EndServing, Goto, Give, walks
<1>23. CASE StartPublish
  BY <1>23, ThreadsDiffer
     DEF TypeOK, MQTTHeld, Locks, StartPublish, Goto, locks
<1>24. ASSUME NEW t \in Callers \cup {Publisher}, StartMessage(t) PROVE MQTTHeld'
  BY <1>24, ThreadsDiffer
     DEF TypeOK, MQTTHeld, Locks, StartMessage, Goto, Enter, locks, walks
<1>25. ASSUME NEW kind \in Requests, MessageArrives(kind) PROVE MQTTHeld'
  BY <1>25, ThreadsDiffer
     DEF TypeOK, MQTTHeld, Locks, MessageArrives, Take, Goto, walks, Free
<1>26. ASSUME NEW t \in Callers, NEW kind \in Requests, SendControl(t, kind) PROVE MQTTHeld'
  BY <1>26, ThreadsDiffer
     DEF TypeOK, MQTTHeld, Locks, SendControl, Goto, locks, walks
<1>27. CASE RunEnds
  BY <1>27, ThreadsDiffer
     DEF TypeOK, MQTTHeld, Locks, RunEnds, Take, Goto, walks, Free
<1>28. CASE UNCHANGED vars
  BY <1>28, ThreadsDiffer
     DEF TypeOK, MQTTHeld, Locks, vars, locks, walks
<1> QED
  BY <1>1, <1>2, <1>3, <1>4, <1>5, <1>6, <1>7, <1>8, <1>9, <1>10, <1>11,
     <1>12, <1>13, <1>14, <1>15, <1>16, <1>17, <1>18, <1>19, <1>20, <1>21,
     <1>23, <1>24, <1>25, <1>26, <1>27, <1>28
     DEF Next, Sending, Walking, Serving

LEMMA NextReceiveHeld == TypeOK /\ PlaceShape /\ ReceiveHeld /\ [Next]_vars => ReceiveHeld'
<1> SUFFICES ASSUME TypeOK, PlaceShape, ReceiveHeld, [Next]_vars PROVE ReceiveHeld'
  OBVIOUS
<1>1. ASSUME NEW t \in Threads, TakeSend(t) PROVE ReceiveHeld'
  BY <1>1, ThreadsDiffer
     DEF TypeOK, ReceiveHeld, Locks, TakeSend, Take, Enter, walks, Free
<1>2. ASSUME NEW t \in Threads, GiveSend(t) PROVE ReceiveHeld'
  <2>1. /\ owner'["receive"] = owner["receive"] /\ call[t] # "none"
        /\ \A u \in Threads : u # t => place'[u] = place[u]
        /\ place'[t] = IF place[t] = "message" THEN "idle" ELSE place[t]
    BY <1>2 DEF GiveSend, Goto, Give, Locks, TypeOK
  <2>2. place'[Processor] = place[Processor]
    BY <2>1, ThreadsDiffer DEF PlaceShape
  <2> QED
    BY <2>1, <2>2 DEF ReceiveHeld
<1>3. ASSUME NEW t \in Threads, NEW c \in Connectors, CallConnector(t, c) PROVE ReceiveHeld'
  BY <1>3, ThreadsDiffer
     DEF TypeOK, ReceiveHeld, Locks, CallConnector, locks, walks
<1>4. ASSUME NEW t \in Threads, CallMQTT(t) PROVE ReceiveHeld'
  BY <1>4, ThreadsDiffer
     DEF TypeOK, ReceiveHeld, Locks, CallMQTT, Enter, locks, walks
<1>5. ASSUME NEW t \in Threads, SendMQTT(t) PROVE ReceiveHeld'
  BY <1>5, ThreadsDiffer
     DEF TypeOK, ReceiveHeld, Locks, SendMQTT, Free, Enter, locks, walks
<1>6. ASSUME NEW t \in Threads, CallHeadless(t) PROVE ReceiveHeld'
  BY <1>6, ThreadsDiffer
     DEF TypeOK, ReceiveHeld, Locks, CallHeadless, Enter, locks, walks
<1>7. ASSUME NEW t \in Threads, TakeHeadless(t) PROVE ReceiveHeld'
  BY <1>7, ThreadsDiffer
     DEF TypeOK, ReceiveHeld, Locks, TakeHeadless, Take, Enter, walks,
         Free
<1>8. ASSUME NEW t \in Threads, NotifyProviders(t) PROVE ReceiveHeld'
  BY <1>8, ThreadsDiffer
     DEF TypeOK, ReceiveHeld, Locks, NotifyProviders, Enter, Receive,
         locks, walks, Free
<1>9. ASSUME NEW t \in Threads, FileIsFull(t) PROVE ReceiveHeld'
  BY <1>9, ThreadsDiffer
     DEF TypeOK, ReceiveHeld, Locks, FileIsFull, Enter, locks, walks
<1>10. ASSUME NEW t \in Threads, RollOver(t) PROVE ReceiveHeld'
  BY <1>10, ThreadsDiffer
     DEF TypeOK, ReceiveHeld, Locks, RollOver, Enter, Give, Receive,
         walks, Free
<1>11. ASSUME NEW t \in Threads, Write(t) PROVE ReceiveHeld'
  BY <1>11, ThreadsDiffer
     DEF TypeOK, ReceiveHeld, Locks, Write, Enter, Give, walks
<1>12. ASSUME NEW t \in Threads, Deliver(t) PROVE ReceiveHeld'
  <2>1. owner'["receive"] = owner["receive"]
    BY <1>12, ThreadsDiffer DEF Deliver, Locks, TypeOK
  <2>2. t # Processor /\ place'[Processor] = place[Processor]
    BY <1>12, ThreadsDiffer DEF Deliver, Goto, PlaceShape, TypeOK
  <2> QED
    BY <2>1, <2>2 DEF ReceiveHeld
<1>13. ASSUME NEW t \in Walkers, TakeBucket(t) PROVE ReceiveHeld'
  BY <1>13, ThreadsDiffer
     DEF TypeOK, ReceiveHeld, Locks, TakeBucket, Goto
<1>14. ASSUME NEW t \in Walkers, SendFromBucket(t) PROVE ReceiveHeld'
  BY <1>14, ThreadsDiffer
     DEF TypeOK, ReceiveHeld, Locks, SendFromBucket, Enter, locks
<1>15. ASSUME NEW t \in Walkers, GiveBucket(t) PROVE ReceiveHeld'
  BY <1>15, ThreadsDiffer
     DEF TypeOK, ReceiveHeld, Locks, GiveBucket, Goto
<1>16. ASSUME NEW t \in Walkers, EndWalk(t) PROVE ReceiveHeld'
  BY <1>16, ThreadsDiffer
     DEF TypeOK, ReceiveHeld, Locks, EndWalk, Goto, locks, walks
<1>17. CASE StartServing
  BY <1>17, ThreadsDiffer
     DEF TypeOK, ReceiveHeld, Locks, StartServing, Take, Goto, walks, Free
<1>18. CASE PopMessage
  BY <1>18, ThreadsDiffer
     DEF TypeOK, ReceiveHeld, Locks, PopMessage, Goto, locks
<1>19. CASE StartReply
  BY <1>19, ThreadsDiffer
     DEF TypeOK, ReceiveHeld, Locks, StartReply, Enter, locks, walks
<1>20. CASE EndReplies
  BY <1>20, ThreadsDiffer
     DEF TypeOK, ReceiveHeld, Locks, EndReplies, Goto, locks, walks
<1>21. CASE EndServing
  BY <1>21, ThreadsDiffer
     DEF TypeOK, ReceiveHeld, Locks, EndServing, Goto, Give, walks
<1>23. CASE StartPublish
  BY <1>23, ThreadsDiffer
     DEF TypeOK, ReceiveHeld, Locks, StartPublish, Goto, locks
<1>24. ASSUME NEW t \in Callers \cup {Publisher}, StartMessage(t) PROVE ReceiveHeld'
  BY <1>24, ThreadsDiffer
     DEF TypeOK, ReceiveHeld, Locks, StartMessage, Goto, Enter, locks,
         walks
<1>25. ASSUME NEW kind \in Requests, MessageArrives(kind) PROVE ReceiveHeld'
  BY <1>25, ThreadsDiffer
     DEF TypeOK, ReceiveHeld, Locks, MessageArrives, Take, Goto, walks,
         Free
<1>26. ASSUME NEW t \in Callers, NEW kind \in Requests, SendControl(t, kind) PROVE ReceiveHeld'
  BY <1>26, ThreadsDiffer
     DEF TypeOK, ReceiveHeld, Locks, SendControl, Goto, locks, walks
<1>27. CASE RunEnds
  BY <1>27, ThreadsDiffer
     DEF TypeOK, ReceiveHeld, Locks, RunEnds, Take, Goto, walks, Free
<1>28. CASE UNCHANGED vars
  BY <1>28, ThreadsDiffer
     DEF TypeOK, ReceiveHeld, Locks, vars, locks, walks
<1> QED
  BY <1>1, <1>2, <1>3, <1>4, <1>5, <1>6, <1>7, <1>8, <1>9, <1>10, <1>11,
     <1>12, <1>13, <1>14, <1>15, <1>16, <1>17, <1>18, <1>19, <1>20, <1>21,
     <1>23, <1>24, <1>25, <1>26, <1>27, <1>28
     DEF Next, Sending, Walking, Serving

LEMMA NextBucketsHeld == TypeOK /\ PlaceShape /\ LoopShape /\ BucketsHeld /\ [Next]_vars => BucketsHeld'
<1> SUFFICES ASSUME TypeOK, PlaceShape, LoopShape, BucketsHeld, [Next]_vars PROVE BucketsHeld'
  OBVIOUS
<1>1. ASSUME NEW t \in Threads, TakeSend(t) PROVE BucketsHeld'
  <2>1. UNCHANGED <<bucketOwner, place, at>>
    BY <1>1 DEF TakeSend, walks
  <2> QED
    BY <2>1, BucketsSame
<1>2. ASSUME NEW t \in Threads, GiveSend(t) PROVE BucketsHeld'
  <2>1. \A u \in Walkers : place'[u] = "in bucket" <=> place[u] = "in bucket"
    BY <1>2, ThreadsDiffer DEF GiveSend, Goto, Enter, Give, TypeOK, PlaceShape
  <2>2. \A u \in Walkers : place[u] = "in bucket" => at'[u] = at[u]
    BY <1>2, ThreadsDiffer DEF GiveSend, Goto, Enter, Give, TypeOK, PlaceShape
  <2> QED
    BY <1>2, <2>1, <2>2, BucketsStay DEF GiveSend, Goto, Enter, Give
<1>3. ASSUME NEW t \in Threads, NEW c \in Connectors, CallConnector(t, c) PROVE BucketsHeld'
  <2>1. UNCHANGED <<bucketOwner, place, at>>
    BY <1>3 DEF CallConnector, locks, walks
  <2> QED
    BY <2>1, BucketsSame
<1>4. ASSUME NEW t \in Threads, CallMQTT(t) PROVE BucketsHeld'
  <2>1. UNCHANGED <<bucketOwner, place, at>>
    BY <1>4 DEF CallMQTT, locks, walks
  <2> QED
    BY <2>1, BucketsSame
<1>5. ASSUME NEW t \in Threads, SendMQTT(t) PROVE BucketsHeld'
  <2>1. UNCHANGED <<bucketOwner, place, at>>
    BY <1>5 DEF SendMQTT, locks, walks
  <2> QED
    BY <2>1, BucketsSame
<1>6. ASSUME NEW t \in Threads, CallHeadless(t) PROVE BucketsHeld'
  <2>1. \A u \in Walkers : place'[u] = "in bucket" <=> place[u] = "in bucket"
    BY <1>6, ThreadsDiffer DEF CallHeadless, Enter, locks, walks, TypeOK
  <2>2. \A u \in Walkers : place[u] = "in bucket" => at'[u] = at[u]
    BY <1>6, ThreadsDiffer DEF CallHeadless, Enter, locks, walks, TypeOK
  <2> QED
    BY <1>6, <2>1, <2>2, BucketsStay DEF CallHeadless, Enter, locks, walks
<1>7. ASSUME NEW t \in Threads, TakeHeadless(t) PROVE BucketsHeld'
  <2>1. UNCHANGED <<bucketOwner, place, at>>
    BY <1>7 DEF TakeHeadless, walks
  <2> QED
    BY <2>1, BucketsSame
<1>8. ASSUME NEW t \in Threads, NotifyProviders(t) PROVE BucketsHeld'
  <2>1. UNCHANGED <<bucketOwner, place, at>>
    BY <1>8 DEF NotifyProviders, locks, walks
  <2> QED
    BY <2>1, BucketsSame
<1>9. ASSUME NEW t \in Threads, FileIsFull(t) PROVE BucketsHeld'
  <2>1. UNCHANGED <<bucketOwner, place, at>>
    BY <1>9 DEF FileIsFull, locks, walks
  <2> QED
    BY <2>1, BucketsSame
<1>10. ASSUME NEW t \in Threads, RollOver(t) PROVE BucketsHeld'
  <2>1. UNCHANGED <<bucketOwner, place, at>>
    BY <1>10 DEF RollOver, walks
  <2> QED
    BY <2>1, BucketsSame
<1>11. ASSUME NEW t \in Threads, Write(t) PROVE BucketsHeld'
  <2>1. UNCHANGED <<bucketOwner, place, at>>
    BY <1>11 DEF Write, walks
  <2> QED
    BY <2>1, BucketsSame
<1>12. ASSUME NEW t \in Threads, Deliver(t) PROVE BucketsHeld'
  <2>1. \A u \in Walkers : place'[u] = "in bucket" <=> place[u] = "in bucket"
    BY <1>12, ThreadsDiffer DEF Deliver, Goto, Receive, walks, Free, TypeOK
  <2>2. \A u \in Walkers : place[u] = "in bucket" => at'[u] = at[u]
    BY <1>12, ThreadsDiffer DEF Deliver, Goto, Receive, walks, Free, TypeOK
  <2> QED
    BY <1>12, <2>1, <2>2, BucketsStay DEF Deliver, Goto, Receive, walks, Free
<1>13. ASSUME NEW t \in Walkers, TakeBucket(t) PROVE BucketsHeld'
  <2>1. at[t] \in Buckets /\ t \in Walkers /\ t \in Threads
    BY <1>13, ThreadsDiffer DEF TakeBucket, LoopShape
  <2>2. bucketOwner' = [bucketOwner EXCEPT ![at[t]] = t]
    BY <1>13 DEF TakeBucket
  <2>3. /\ bucketOwner'[at[t]] = t
        /\ \A b \in Buckets : b # at[t] => bucketOwner'[b] = bucketOwner[b]
    BY <2>1, <2>2 DEF TypeOK
  <2>4. SUFFICES ASSUME NEW b \in Buckets, NEW u \in Threads
             PROVE  bucketOwner'[b] = u
                       <=> u \in Walkers /\ place'[u] = "in bucket" /\ at'[u] = b
    BY DEF BucketsHeld
  <2>5. bucketOwner[b] = u <=> u \in Walkers /\ place[u] = "in bucket" /\ at[u] = b
    BY DEF BucketsHeld
  <2>6. place[t] = "want bucket" /\ bucketOwner[at[t]] = NoThread /\ at' = at
    BY <1>13 DEF TakeBucket
  <2>7. /\ place'[t] = "in bucket"
        /\ u # t => place'[u] = place[u]
    BY <1>13, <2>1 DEF TakeBucket, Goto, TypeOK
  <2>8. CASE u = t
    BY <2>1, <2>3, <2>5, <2>6, <2>7, <2>8, ThreadsDiffer
  <2>9. CASE u # t /\ b = at[t]
    BY <2>1, <2>3, <2>5, <2>6, <2>7, <2>9, ThreadsDiffer
  <2>10. CASE u # t /\ b # at[t]
    BY <2>3, <2>5, <2>6, <2>7, <2>10
  <2> QED
    BY <2>8, <2>9, <2>10
<1>14. ASSUME NEW t \in Walkers, SendFromBucket(t) PROVE BucketsHeld'
  <2>1. UNCHANGED <<bucketOwner, place, at>>
    BY <1>14 DEF SendFromBucket, locks
  <2> QED
    BY <2>1, BucketsSame
<1>15. ASSUME NEW t \in Walkers, GiveBucket(t) PROVE BucketsHeld'
  <2>1. at[t] \in Buckets /\ t \in Walkers /\ t \in Threads
    BY <1>15, ThreadsDiffer DEF GiveBucket, LoopShape
  <2>2. bucketOwner' = [bucketOwner EXCEPT ![at[t]] = NoThread]
    BY <1>15 DEF GiveBucket
  <2>3. /\ bucketOwner'[at[t]] = NoThread
        /\ \A b \in Buckets : b # at[t] => bucketOwner'[b] = bucketOwner[b]
    BY <2>1, <2>2 DEF TypeOK
  <2>4. SUFFICES ASSUME NEW b \in Buckets, NEW u \in Threads
             PROVE  bucketOwner'[b] = u
                       <=> u \in Walkers /\ place'[u] = "in bucket" /\ at'[u] = b
    BY DEF BucketsHeld
  <2>5. bucketOwner[b] = u <=> u \in Walkers /\ place[u] = "in bucket" /\ at[u] = b
    BY DEF BucketsHeld
  <2>6. place[t] = "in bucket" /\ bucketOwner[at[t]] = t
    <3>1. place[t] = "in bucket"
      BY <1>15 DEF GiveBucket
    <3> QED
      BY ONLY BucketsHeld, <2>1, <3>1, BucketHolder
  <2>7. /\ place'[t] = "want bucket"
        /\ u # t => place'[u] = place[u]
        /\ u # t /\ u \in Walkers => at'[u] = at[u]
    BY <1>15, <2>1 DEF GiveBucket, Goto, TypeOK
  <2>8. CASE u = t
    BY <2>1, <2>3, <2>5, <2>6, <2>7, <2>8, ThreadsDiffer
  <2>9. CASE u # t /\ b = at[t]
    BY <2>1, <2>3, <2>5, <2>6, <2>7, <2>9, ThreadsDiffer
  <2>10. CASE u # t /\ b # at[t]
    BY <2>3, <2>5, <2>6, <2>7, <2>10
  <2> QED
    BY <2>8, <2>9, <2>10
<1>16. ASSUME NEW t \in Walkers, EndWalk(t) PROVE BucketsHeld'
  <2>1. \A u \in Walkers : place'[u] = "in bucket" <=> place[u] = "in bucket"
    BY <1>16, ThreadsDiffer DEF EndWalk, Goto, locks, walks, TypeOK
  <2>2. \A u \in Walkers : place[u] = "in bucket" => at'[u] = at[u]
    BY <1>16, ThreadsDiffer DEF EndWalk, Goto, locks, walks, TypeOK
  <2> QED
    BY <1>16, <2>1, <2>2, BucketsStay DEF EndWalk, Goto, locks, walks
<1>17. CASE StartServing
  <2>1. \A u \in Walkers : place'[u] = "in bucket" <=> place[u] = "in bucket"
    BY <1>17, ThreadsDiffer DEF StartServing, Take, Goto, walks, Free, TypeOK
  <2>2. \A u \in Walkers : place[u] = "in bucket" => at'[u] = at[u]
    BY <1>17, ThreadsDiffer DEF StartServing, Take, Goto, walks, Free, TypeOK
  <2> QED
    BY <1>17, <2>1, <2>2, BucketsStay DEF StartServing, Take, Goto, walks, Free
<1>18. CASE PopMessage
  <2>1. \A u \in Walkers : place'[u] = "in bucket" <=> place[u] = "in bucket"
    BY <1>18, ThreadsDiffer DEF PopMessage, Goto, locks, TypeOK
  <2>2. \A u \in Walkers : place[u] = "in bucket" => at'[u] = at[u]
    BY <1>18, ThreadsDiffer DEF PopMessage, Goto, locks, TypeOK
  <2> QED
    BY <1>18, <2>1, <2>2, BucketsStay DEF PopMessage, Goto, locks
<1>19. CASE StartReply
  <2>1. UNCHANGED <<bucketOwner, place, at>>
    BY <1>19 DEF StartReply, locks, walks
  <2> QED
    BY <2>1, BucketsSame
<1>20. CASE EndReplies
  <2>1. \A u \in Walkers : place'[u] = "in bucket" <=> place[u] = "in bucket"
    BY <1>20, ThreadsDiffer DEF EndReplies, Goto, locks, walks, TypeOK
  <2>2. \A u \in Walkers : place[u] = "in bucket" => at'[u] = at[u]
    BY <1>20, ThreadsDiffer DEF EndReplies, Goto, locks, walks, TypeOK
  <2> QED
    BY <1>20, <2>1, <2>2, BucketsStay DEF EndReplies, Goto, locks, walks
<1>21. CASE EndServing
  <2>1. \A u \in Walkers : place'[u] = "in bucket" <=> place[u] = "in bucket"
    BY <1>21, ThreadsDiffer DEF EndServing, Goto, Give, walks, TypeOK
  <2>2. \A u \in Walkers : place[u] = "in bucket" => at'[u] = at[u]
    BY <1>21, ThreadsDiffer DEF EndServing, Goto, Give, walks, TypeOK
  <2> QED
    BY <1>21, <2>1, <2>2, BucketsStay DEF EndServing, Goto, Give, walks
<1>23. CASE StartPublish
  <2>1. \A u \in Walkers : place'[u] = "in bucket" <=> place[u] = "in bucket"
    BY <1>23, ThreadsDiffer DEF StartPublish, Goto, locks, TypeOK
  <2>2. \A u \in Walkers : place[u] = "in bucket" => at'[u] = at[u]
    BY <1>23, ThreadsDiffer DEF StartPublish, Goto, locks, TypeOK
  <2> QED
    BY <1>23, <2>1, <2>2, BucketsStay DEF StartPublish, Goto, locks
<1>24. ASSUME NEW t \in Callers \cup {Publisher}, StartMessage(t) PROVE BucketsHeld'
  <2>1. \A u \in Walkers : place'[u] = "in bucket" <=> place[u] = "in bucket"
    BY <1>24, ThreadsDiffer DEF StartMessage, Goto, Enter, locks, walks, TypeOK
  <2>2. \A u \in Walkers : place[u] = "in bucket" => at'[u] = at[u]
    BY <1>24, ThreadsDiffer DEF StartMessage, Goto, Enter, locks, walks, TypeOK
  <2> QED
    BY <1>24, <2>1, <2>2, BucketsStay DEF StartMessage, Goto, Enter, locks, walks
<1>25. ASSUME NEW kind \in Requests, MessageArrives(kind) PROVE BucketsHeld'
  <2>1. \A u \in Walkers : place'[u] = "in bucket" <=> place[u] = "in bucket"
    BY <1>25, ThreadsDiffer DEF MessageArrives, Take, Goto, walks, Free, TypeOK
  <2>2. \A u \in Walkers : place[u] = "in bucket" => at'[u] = at[u]
    BY <1>25, ThreadsDiffer DEF MessageArrives, Take, Goto, walks, Free, TypeOK
  <2> QED
    BY <1>25, <2>1, <2>2, BucketsStay DEF MessageArrives, Take, Goto, walks, Free
<1>26. ASSUME NEW t \in Callers, NEW kind \in Requests, SendControl(t, kind) PROVE BucketsHeld'
  <2>1. \A u \in Walkers : place'[u] = "in bucket" <=> place[u] = "in bucket"
    BY <1>26, ThreadsDiffer DEF SendControl, Goto, locks, walks, TypeOK
  <2>2. \A u \in Walkers : place[u] = "in bucket" => at'[u] = at[u]
    BY <1>26, ThreadsDiffer DEF SendControl, Goto, locks, walks, TypeOK
  <2> QED
    BY <1>26, <2>1, <2>2, BucketsStay DEF SendControl, Goto, locks, walks
<1>27. CASE RunEnds
  <2>1. \A u \in Walkers : place'[u] = "in bucket" <=> place[u] = "in bucket"
    BY <1>27, ThreadsDiffer DEF RunEnds, Take, Goto, walks, Free, TypeOK
  <2>2. \A u \in Walkers : place[u] = "in bucket" => at'[u] = at[u]
    BY <1>27, ThreadsDiffer DEF RunEnds, Take, Goto, walks, Free, TypeOK
  <2> QED
    BY <1>27, <2>1, <2>2, BucketsStay DEF RunEnds, Take, Goto, walks, Free
<1>28. CASE UNCHANGED vars
  BY <1>28, ThreadsDiffer DEF TypeOK, BucketsHeld, vars, locks, walks
<1> QED
  BY <1>1, <1>2, <1>3, <1>4, <1>5, <1>6, <1>7, <1>8, <1>9, <1>10, <1>11,
     <1>12, <1>13, <1>14, <1>15, <1>16, <1>17, <1>18, <1>19, <1>20, <1>21,
     <1>23, <1>24, <1>25, <1>26, <1>27, <1>28
     DEF Next, Sending, Walking, Serving

LEMMA NextIInv == IInv /\ [Next]_vars => IInv'
BY NextTypeOK, NextPlaceShape, NextQuietClients, NextLoopShape, NextSendHeld, NextHeadlessHeld,
   NextMQTTHeld, NextReceiveHeld, NextBucketsHeld
   DEF IInv, Shape, LocksMatchPlaces

(* Every variable stays in its type, for every instance.                   *)
THEOREM TypeCorrect == Spec => []TypeOK
<1>1. IInv => TypeOK
  BY DEF IInv, Shape
<1> QED
  BY InitIInv, NextIInv, <1>1, PTL DEF Spec

(* A lock is held exactly by the thread that is where the code holds it.   *)
THEOREM LocksAreGivenBack == Spec => []LocksMatchPlaces
<1>1. IInv => LocksMatchPlaces
  BY DEF IInv, Shape
<1> QED
  BY InitIInv, NextIInv, <1>1, PTL DEF Spec

(* The two kinds of agent for which the locks are in order: one whose      *)
(* connectors take none, and one without the requests of clients.          *)
NoConflict ==
    \/ Connectors \cap {"headless", "mqtt"} = {}
    \/ Requests \subseteq {"headless"}

(* Whom a thread waits for, place by place. *)
LEMMA BlockerFacts ==
    ASSUME NEW t \in Threads
    PROVE  /\ call[t] = "send" => Blocker(t) = owner["send"]
           /\ call[t] = "mqtt" => Blocker(t) = owner["mqtt"]
           /\ call[t] = "headless" => Blocker(t) = owner["headless"]
           /\ call[t] \in {"starting", "closing"} => Blocker(t) = owner["receive"]
           /\ call[t] \in {"rolling", "loop"} => Blocker(t) = NoThread
           /\ call[t] = "none" /\ place[t] = "delivering"
                 => Blocker(t) = owner["receive"]
           /\ call[t] = "none" /\ place[t] = "want bucket" /\ at[t] \in Buckets
                 => Blocker(t) = bucketOwner[at[t]]
           /\ /\ call[t] = "none" /\ place[t] # "delivering"
              /\ place[t] # "want bucket" \/ at[t] \notin Buckets
              => Blocker(t) = NoThread
<1>1. call[t] = "send" => Blocker(t) = owner["send"]
  BY DEF Blocker
<1>2. call[t] = "mqtt" => Blocker(t) = owner["mqtt"]
  BY DEF Blocker
<1>3. call[t] = "headless" => Blocker(t) = owner["headless"]
  BY DEF Blocker
<1>4. call[t] \in {"starting", "closing"} => Blocker(t) = owner["receive"]
  BY DEF Blocker
<1>5. call[t] \in {"rolling", "loop"} => Blocker(t) = NoThread
  BY DEF Blocker
<1>6. call[t] = "none" /\ place[t] = "delivering"
         => Blocker(t) = owner["receive"]
  BY DEF Blocker
<1>7. call[t] = "none" /\ place[t] = "want bucket" /\ at[t] \in Buckets
         => Blocker(t) = bucketOwner[at[t]]
  BY DEF Blocker
<1>8. /\ call[t] = "none" /\ place[t] # "delivering"
      /\ place[t] # "want bucket" \/ at[t] \notin Buckets
      => Blocker(t) = NoThread
  BY DEF Blocker
<1> QED
  BY <1>1, <1>2, <1>3, <1>4, <1>5, <1>6, <1>7, <1>8

LEMMA OrderWithoutLockingConnectors ==
    ASSUME IInv, Connectors \cap {"headless", "mqtt"} = {},
           NEW S \in SUBSET Threads, \A t \in S : Blocker(t) \in S
    PROVE  S = {}
<1> USE DEF IInv, Shape, LocksMatchPlaces
<1>1. \A t \in Threads : call[t] \in {"none", "send", "loop"}
  <2>1. \A t \in Threads : call[t] \in Calls
    BY DEF TypeOK
  <2>2. \A t \in Threads : call[t] \notin {"mqtt", "headless", "starting", "rolling", "closing"}
    BY DEF PlaceShape
  <2> QED
    BY <2>1, <2>2 DEF Calls
<1>2. \A t \in S : call[t] # "send"
  <2> SUFFICES ASSUME NEW t \in S, call[t] = "send" PROVE FALSE
    OBVIOUS
  <2>1. PICK u \in S : u = owner["send"]
    BY BlockerFacts
  <2>2. call[u] = "loop"
    BY <1>1, <2>1 DEF SendHeld, InLoop
  <2>3. place[u] \in {"in bucket", "message", "replying"}
    BY <2>2 DEF PlaceShape
  <2>4. Blocker(u) = NoThread
    BY <2>2, <2>3, BlockerFacts
  <2> QED
    BY <2>4, ThreadsDiffer
<1>3. \A t \in S : place[t] # "in bucket" /\ place[t] \notin {"serving", "replying"}
  <2> SUFFICES ASSUME NEW t \in S, place[t] \in {"in bucket", "serving", "replying"}
               PROVE  FALSE
    OBVIOUS
  <2>1. Blocker(t) = NoThread
    BY <1>1, <1>2, BlockerFacts
  <2> QED
    BY <2>1, ThreadsDiffer
<1>4. \A t \in S : place[t] # "want bucket"
  <2> SUFFICES ASSUME NEW t \in S, place[t] = "want bucket" PROVE FALSE
    OBVIOUS
  <2>1. call[t] = "none"
    BY DEF PlaceShape
  <2>2. at[t] \in Buckets /\ bucketOwner[at[t]] \in S
    BY <2>1, ThreadsDiffer, BlockerFacts
  <2>3. place[bucketOwner[at[t]]] = "in bucket"
    BY <2>2 DEF BucketsHeld
  <2> QED
    BY <1>3, <2>2, <2>3
<1>5. \A t \in S : place[t] # "delivering"
  <2> SUFFICES ASSUME NEW t \in S, place[t] = "delivering" PROVE FALSE
    OBVIOUS
  <2>1. call[t] = "none"
    BY DEF PlaceShape
  <2>2. owner["receive"] \in S
    BY <2>1, BlockerFacts
  <2>3. place[owner["receive"]]
           \in {"serving", "replying", "want bucket", "in bucket"}
    BY <2>2 DEF ReceiveHeld
  <2> QED
    BY <1>3, <1>4, <2>2, <2>3
<1>6. \A t \in S : Blocker(t) = NoThread
  BY <1>1, <1>2, <1>4, <1>5, BlockerFacts
<1> QED
  BY <1>6, ThreadsDiffer

LEMMA OrderWithoutClients ==
    ASSUME IInv, Requests \subseteq {"headless"},
           NEW S \in SUBSET Threads, \A t \in S : Blocker(t) \in S
    PROVE  S = {}
<1> USE DEF IInv, Shape, LocksMatchPlaces
<1>1. Processor \notin S
  <2>1. place[Processor] \in {"idle", "serving"}
    BY DEF QuietClients
  <2>2. call[Processor] = "none"
    BY <2>1, ThreadsDiffer DEF PlaceShape
  <2>3. Blocker(Processor) = NoThread
    BY <2>1, <2>2, BlockerFacts, ThreadsDiffer
  <2> QED
    BY <2>3, ThreadsDiffer
<1>2. owner["receive"] \notin S
  BY <1>1 DEF ReceiveHeld
<1>3. \A t \in S : call[t] \notin {"starting", "closing"}
  BY <1>2, BlockerFacts
<1>4. \A t \in S : place[t] # "delivering"
  <2> SUFFICES ASSUME NEW t \in S, place[t] = "delivering" PROVE FALSE
    OBVIOUS
  <2>1. call[t] = "none"
    BY DEF PlaceShape
  <2> QED
    BY <1>2, <2>1, BlockerFacts
<1>5. \A t \in S : call[t] # "mqtt"
  BY <1>4, BlockerFacts DEF MQTTHeld
<1>6. \A t \in S : call[t] \notin {"rolling", "loop"}
  <2> SUFFICES ASSUME NEW t \in S, call[t] \in {"rolling", "loop"}
               PROVE  FALSE
    OBVIOUS
  <2>1. place[t] \in {"in bucket", "message", "replying"}
    BY DEF PlaceShape
  <2>2. Blocker(t) = NoThread
    BY <2>1, BlockerFacts
  <2> QED
    BY <2>2, ThreadsDiffer
<1>7. \A t \in S : call[t] # "headless"
  BY <1>3, <1>4, <1>6, BlockerFacts DEF HeadlessHeld, InHeadless
<1>8. \A t \in S : call[t] # "send"
  <2> SUFFICES ASSUME NEW t \in S, call[t] = "send" PROVE FALSE
    OBVIOUS
  <2>1. PICK u \in S : u = owner["send"]
    BY BlockerFacts
  <2>2. call[u] \in Calls \ {"none", "send"}
    BY <2>1 DEF SendHeld, InLoop
  <2> QED
    BY <1>3, <1>5, <1>6, <1>7, <2>2 DEF Calls
<1>9. \A t \in S : call[t] = "none"
  BY <1>3, <1>5, <1>6, <1>7, <1>8 DEF TypeOK, Calls
<1>10. \A t \in S : place[t] # "want bucket"
  <2> SUFFICES ASSUME NEW t \in S, place[t] = "want bucket" PROVE FALSE
    OBVIOUS
  <2>1. at[t] \in Buckets /\ bucketOwner[at[t]] \in S
    BY <1>9, ThreadsDiffer, BlockerFacts
  <2>2. PICK u \in S : u = bucketOwner[at[t]]
    BY <2>1
  <2>3. place[u] = "in bucket"
    <3>1. u \in Threads
      BY <2>2
    <3>2. bucketOwner[at[t]] = u
              <=> u \in Walkers /\ place[u] = "in bucket" /\ at[u] = at[t]
      BY ONLY BucketsHeld, <2>1, <3>1, BucketHolder
    <3> QED
      BY <2>2, <3>2
  <2>4. Blocker(u) = NoThread
    BY <1>9, <2>3, BlockerFacts
  <2> QED
    BY <2>4, ThreadsDiffer
<1>11. \A t \in S : Blocker(t) = NoThread
  BY <1>4, <1>9, <1>10, BlockerFacts
<1> QED
  BY <1>11, ThreadsDiffer

(* No threads wait for each other, in an agent whose connectors take no    *)
(* lock or which no client sends requests to.                              *)
THEOREM NoDeadlock == NoConflict => (Spec => []NoCircularWait)
<1> SUFFICES ASSUME NoConflict PROVE Spec => []NoCircularWait
  OBVIOUS
<1>1. IInv => NoCircularWait
  <2> SUFFICES ASSUME IInv, NEW S \in SUBSET Threads,
                      \A t \in S : Blocker(t) \in S
               PROVE  S = {}
    BY DEF NoCircularWait
  <2> QED
    BY OrderWithoutLockingConnectors, OrderWithoutClients DEF NoConflict
<1> QED
  BY InitIInv, NextIInv, <1>1, PTL DEF Spec
-----------------------------------------------------------------------------
(* A step that leaves the service to clients as it is. *)
LEMMA ServiceStays ==
    ASSUME place'[Processor] = place[Processor]
              \/ {place[Processor], place'[Processor]}
                    \subseteq {"want bucket", "in bucket"}
              \/ {place[Processor], place'[Processor]} \subseteq {"idle", "serving"},
           at'[Processor] = at[Processor],
           place[Processor] = "replying" =>
               /\ InLoop(Processor)' <=> InLoop(Processor)
               /\ InLoop(Processor) => todo' = todo
    PROVE  UNCHANGED <<Served, Answered, Replayed>>
<1>1. Served' = Served
  BY DEF Served
<1>2. Replayed' = Replayed
  BY <1>1 DEF Replayed
<1>3. Answered' = Answered
  <2>1. CASE place[Processor] = "replying"
    BY <1>1, <2>1 DEF Answered
  <2>2. CASE place[Processor] # "replying"
    BY <1>1, <2>2 DEF Answered, Served
  <2> QED
    BY <2>1, <2>2
<1> QED
  BY <1>1, <1>2, <1>3

(* Only one thread is in the loop over the connectors. *)
LEMMA OneInLoop ==
    ASSUME SendHeld
    PROVE  /\ Free("send") => \A t \in Threads : ~InLoop(t)
           /\ \A t, u \in Threads : InLoop(t) /\ InLoop(u) => t = u
BY ThreadsDiffer DEF SendHeld, Free

(* The processing thread goes on to the connector c. *)
LEMMA ReplyStep ==
    ASSUME Shape, place[Processor] = "replying", InLoop(Processor),
           NEW c \in Connectors, c \in todo, todo' = todo \ {c},
           UNCHANGED <<queue, place, at>>, InLoop(Processor)'
    PROVE  Service!Reply(at[Processor], c) /\ at[Processor] \in Buckets
<1>1. at[Processor] \in Buckets
  BY DEF Shape, LoopShape, InLoop
<1>2. Served = "datasources" /\ Served' = Served /\ Replayed' = Replayed
  BY DEF Served, Replayed
<1>3. <<at[Processor], c>> \notin Answered
  BY <1>1, <1>2 DEF Answered, Buckets
<1>4. (1..(at[Processor] - 1)) \X Connectors \subseteq Answered
  BY <1>1, <1>2, MessagingAssumption DEF Answered, Buckets
<1>5. Answered' = Answered \cup {<<at[Processor], c>>}
  BY <1>1, <1>2 DEF Answered, Buckets
<1> QED
  BY <1>1, <1>2, <1>3, <1>4, <1>5 DEF Service!Reply
LEMMA SendingImplements ==
    ASSUME IInv, NEW t \in Threads, Sending(t)
    PROVE  [Service!Next]_(Service!vars)
<1> USE DEF IInv, Shape, LocksMatchPlaces
<1> DEFINE Stays == UNCHANGED <<queue, Served, Answered, Replayed>>
<1>0. Processor \in Threads
  BY ThreadsDiffer
<1>1. ASSUME TakeSend(t) PROVE Stays
  <2>1. ~InLoop(Processor) /\ Processor \in Threads
    BY <1>1, OneInLoop, ThreadsDiffer DEF TakeSend, Take
  <2>2. CASE t = Processor /\ place[Processor] = "replying"
    <3>1. InLoop(Processor)' /\ todo' = Connectors
      BY <1>0, <1>1, <2>2 DEF TakeSend, Enter, InLoop, Calls, TypeOK
    <3>2. UNCHANGED <<queue, Served, Replayed>>
      BY <1>1 DEF TakeSend, walks, Served, Replayed
    <3>3. Answered' = Answered
      BY <1>1, <2>1, <3>1, <3>2 DEF TakeSend, walks, Answered
    <3> QED
      BY <3>2, <3>3
  <2>3. CASE t # Processor \/ place[Processor] # "replying"
    <3>1. t # Processor => call'[Processor] = call[Processor]
      BY <1>1 DEF TakeSend, Enter, TypeOK
    <3>2. place[Processor] = "replying" => ~InLoop(Processor)'
      BY <2>1, <2>3, <3>1 DEF InLoop
    <3> QED
      BY <1>1, <2>1, <3>2, ServiceStays DEF TakeSend, walks
  <2> QED
    BY <2>2, <2>3
<1>2. ASSUME GiveSend(t) PROVE Stays
  <2>1. InLoop(t)
    BY <1>2 DEF GiveSend, InLoop, Calls
  <2>2. CASE t = Processor /\ place[Processor] = "replying"
    <3>1. at[Processor] \in Buckets
      BY <1>2, <2>2 DEF GiveSend, LoopShape
    <3>2. place' = place /\ at'[Processor] = at[Processor] + 1 /\ ~InLoop(Processor)'
      BY <1>0, <1>2, <2>2, ThreadsDiffer
         DEF GiveSend, Goto, Enter, InLoop, TypeOK
    <3>3. UNCHANGED <<queue, Served, Replayed>>
      BY <1>2, <2>2, <3>2 DEF GiveSend, Served, Replayed
    <3>4. Answered' = Answered
      <4>1. Served = "datasources" /\ todo = {} /\ InLoop(Processor)
        BY <1>2, <2>1, <2>2 DEF GiveSend, Served
      <4>2. \A b \in Buckets :
               b < at[Processor] + 1 <=> b < at[Processor] \/ b = at[Processor]
        BY <3>1, MessagingAssumption DEF Buckets
      <4> QED
        BY <3>2, <3>3, <4>1, <4>2 DEF Answered
    <3> QED
      BY <3>3, <3>4
  <2>3. CASE t = Processor /\ place[Processor] # "replying"
    <3>1. place[Processor] # "message"
      BY <1>0 DEF PlaceShape
    <3>2. place' = place /\ at' = at
      BY <1>0, <1>2, <2>3, <3>1 DEF GiveSend, Goto, TypeOK
    <3> QED
      BY <1>2, <2>3, <3>2, ServiceStays DEF GiveSend
  <2>4. CASE t # Processor
    <3>1. ~InLoop(Processor)
      BY <1>0, <2>1, <2>4, OneInLoop
    <3>2. place'[Processor] = place[Processor] /\ call'[Processor] = call[Processor]
      BY <1>0, <1>2, <2>4 DEF GiveSend, Goto, Enter, TypeOK
    <3>3. place[t] # "replying"
      BY <2>4 DEF PlaceShape
    <3>4. ~InLoop(Processor)'
      BY <3>1, <3>2 DEF InLoop
    <3> QED
      BY <1>2, <3>1, <3>2, <3>3, <3>4, ServiceStays DEF GiveSend
  <2> QED
    BY <2>2, <2>3, <2>4
<1>3. ASSUME NEW c \in Connectors, c \in todo, todo' = todo \ {c}, InLoop(t),
             InLoop(t)', UNCHANGED <<queue, place, at>>,
             t # Processor => call'[Processor] = call[Processor]
      PROVE  Stays \/ \E b \in Buckets : Service!Reply(b, c)
  <2>1. CASE t = Processor /\ place[Processor] = "replying"
    BY <1>3, <2>1, ReplyStep
  <2>2. CASE t # Processor \/ place[Processor] # "replying"
    <3>1. t # Processor => ~InLoop(Processor) /\ ~InLoop(Processor)'
      <4> SUFFICES ASSUME t # Processor
                   PROVE  ~InLoop(Processor) /\ ~InLoop(Processor)'
        OBVIOUS
      <4>1. ~InLoop(Processor)
        BY <1>0, <1>3, OneInLoop
      <4> QED
        BY <1>3, <4>1 DEF InLoop
    <3> QED
      BY <1>3, <2>2, <3>1, ServiceStays
  <2> QED
    BY <2>1, <2>2
<1>4. ASSUME NEW c \in Connectors, CallConnector(t, c)
      PROVE  Stays \/ \E b \in Buckets : Service!Reply(b, c)
  <2>1. InLoop(t) /\ InLoop(t)'
    BY <1>4 DEF CallConnector, InLoop, Calls
  <2> QED
    BY <1>3, <1>4, <2>1 DEF CallConnector, walks
<1>5. ASSUME SendMQTT(t)
      PROVE  Stays \/ \E b \in Buckets : Service!Reply(b, "mqtt")
  <2>1. InLoop(t) /\ InLoop(t)'
    BY <1>5 DEF SendMQTT, Enter, InLoop, Calls, TypeOK
  <2>2. t # Processor => call'[Processor] = call[Processor]
    BY <1>0, <1>5 DEF SendMQTT, Enter, TypeOK
  <2>3. CASE "mqtt" \in todo
    <3>1. "mqtt" \in Connectors
      BY <2>3 DEF TypeOK
    <3> QED
      BY <1>3, <1>5, <2>1, <2>2, <2>3, <3>1 DEF SendMQTT, walks
  <2>4. CASE "mqtt" \notin todo
    <3>1. todo' = todo
      BY <1>5, <2>4 DEF SendMQTT
    <3>2. InLoop(Processor)' <=> InLoop(Processor)
      BY <2>1, <2>2 DEF InLoop
    <3> QED
      BY <1>5, <3>1, <3>2, ServiceStays DEF SendMQTT, walks
  <2> QED
    BY <2>3, <2>4
<1>6. ASSUME CallMQTT(t) PROVE Stays
  <2>1. InLoop(Processor)' <=> InLoop(Processor)
    BY <1>0, <1>6 DEF CallMQTT, Enter, InLoop, Calls, TypeOK
  <2> QED
    BY <1>6, <2>1, ServiceStays DEF CallMQTT, walks
<1>7. ASSUME t = Publisher, place' = place, at' = at, InLoop(t),
             call'[Processor] = call[Processor]
      PROVE  UNCHANGED <<Served, Answered, Replayed>>
  <2>1. ~InLoop(Processor)
    BY <1>0, <1>7, OneInLoop, ThreadsDiffer
  <2>2. ~InLoop(Processor)'
    BY <1>7, <2>1 DEF InLoop
  <2> QED
    BY <1>7, <2>1, <2>2, ServiceStays
<1>8. ASSUME CallHeadless(t) \/ TakeHeadless(t) \/ FileIsFull(t) \/ Write(t)
      PROVE  Stays
  <2>1. t = Publisher /\ InLoop(t)
    BY <1>8 DEF CallHeadless, TakeHeadless, FileIsFull, Write, PlaceShape, InLoop, Calls
  <2>2. UNCHANGED <<queue, place, at>>
    BY <1>8 DEF CallHeadless, TakeHeadless, FileIsFull, Write, walks
  <2>3. call'[Processor] = call[Processor]
    BY <1>0, <1>8, <2>1, ThreadsDiffer
       DEF CallHeadless, TakeHeadless, FileIsFull, Write, Enter, TypeOK
  <2> QED
    BY <1>7, <2>1, <2>2, <2>3
<1>9. ASSUME NotifyProviders(t) \/ RollOver(t)
      PROVE  \E kind \in Kinds : Service!Arrive(kind)
  <2>1. t = Publisher /\ InLoop(t)
    BY <1>9 DEF NotifyProviders, RollOver, PlaceShape, InLoop, Calls
  <2>2. UNCHANGED <<place, at>>
    BY <1>9 DEF NotifyProviders, RollOver, walks
  <2>3. call'[Processor] = call[Processor]
    BY <1>0, <1>9, <2>1, ThreadsDiffer DEF NotifyProviders, RollOver, Enter, TypeOK
  <2>4. UNCHANGED <<Served, Answered, Replayed>>
    BY <1>7, <2>1, <2>2, <2>3
  <2>5. \E kind \in Kinds : queue' = Append(queue, kind)
    BY <1>9 DEF NotifyProviders, RollOver, Receive, Kinds
  <2> QED
    BY <2>4, <2>5 DEF Service!Arrive
<1> QED
  <2>1. "mqtt" \in todo => "mqtt" \in Connectors
    BY DEF TypeOK
  <2>2. SendMQTT(t) => [Service!Next]_(Service!vars)
    <3>1. ASSUME "mqtt" \notin Connectors PROVE SendMQTT(t) => FALSE
      BY <3>1 DEF SendMQTT, PlaceShape
    <3> QED
      BY <1>5, <3>1 DEF Service!Next, Service!Serve, Service!vars, Service!Buckets, Buckets
  <2>3. (\E c \in Connectors : CallConnector(t, c)) => [Service!Next]_(Service!vars)
    BY <1>4 DEF Service!Next, Service!Serve, Service!vars, Service!Buckets, Buckets
  <2>4. NotifyProviders(t) \/ RollOver(t) => [Service!Next]_(Service!vars)
    BY <1>9 DEF Service!Next
  <2>5. Stays => [Service!Next]_(Service!vars)
    BY DEF Service!vars
  <2> QED
    BY <1>1, <1>2, <1>6, <1>8, <2>2, <2>3, <2>4, <2>5 DEF Sending
LEMMA WalkingImplements ==
    ASSUME IInv, NEW t \in Walkers, Walking(t)
    PROVE  [Service!Next]_(Service!vars)
<1> USE DEF IInv, Shape, LocksMatchPlaces
<1> DEFINE Stays == UNCHANGED <<queue, Served, Answered, Replayed>>
<1>0. Processor \in Threads /\ t \in Threads /\ t \in {Publisher, Processor}
  BY ThreadsDiffer
<1>1. ASSUME TakeBucket(t) PROVE Stays
  <2>1. UNCHANGED <<call, at, todo, queue>>
    BY <1>1 DEF TakeBucket
  <2>2. \/ place'[Processor] = place[Processor]
        \/ {place[Processor], place'[Processor]} \subseteq {"want bucket", "in bucket"}
    BY <1>0, <1>1 DEF TakeBucket, Goto, TypeOK
  <2> QED
    BY <2>1, <2>2, ServiceStays DEF InLoop
<1>2. ASSUME SendFromBucket(t) PROVE Stays
  <2>1. place' = place /\ UNCHANGED <<at, todo, queue>>
    BY <1>2 DEF SendFromBucket
  <2>2. InLoop(Processor)' <=> InLoop(Processor)
    BY <1>0, <1>2 DEF SendFromBucket, Enter, InLoop, TypeOK
  <2> QED
    BY <2>1, <2>2, ServiceStays
<1>3. ASSUME GiveBucket(t), t = Publisher PROVE Stays
  <2>1. UNCHANGED <<call, todo, queue>> /\ place'[Processor] = place[Processor]
    BY <1>0, <1>3, ThreadsDiffer DEF GiveBucket, Goto, TypeOK
  <2>2. at'[Processor] = at[Processor]
    BY <1>3, ThreadsDiffer DEF GiveBucket, TypeOK
  <2> QED
    BY <2>1, <2>2, ServiceStays DEF InLoop
<1>4. ASSUME GiveBucket(t), t = Processor
      PROVE  \E b \in Buckets : Service!Replay(b)
  <2>1. at[Processor] \in Buckets /\ at[Processor] \in Nat
    BY <1>4, StopFacts DEF GiveBucket, LoopShape
  <2>2. at'[Processor] = at[Processor] + 1
    BY <1>0, <1>4 DEF GiveBucket, TypeOK
  <2>3. Served = "history" /\ Served' = "history" /\ queue' = queue
    BY <1>0, <1>4 DEF GiveBucket, Goto, Served, TypeOK
  <2>4. Answered' = Answered
    BY <2>3 DEF Answered
  <2>5. Replayed = 1..(at[Processor] - 1)
    BY <2>3 DEF Replayed
  <2>7. Replayed' = 1..(at'[Processor] - 1)
    BY <2>3 DEF Replayed
  <2>6. at[Processor] + 1 - 1 = at[Processor]
    BY <2>1
  <2> QED
    BY <2>1, <2>2, <2>3, <2>4, <2>5, <2>6, <2>7 DEF Service!Replay
<1>5. ASSUME EndWalk(t), t = Publisher PROVE Stays
  <2>1. UNCHANGED <<call, at, todo, queue>> /\ place'[Processor] = place[Processor]
    BY <1>0, <1>5, ThreadsDiffer DEF EndWalk, Goto, TypeOK, walks
  <2> QED
    BY <2>1, ServiceStays DEF InLoop
<1>6. ASSUME EndWalk(t), t = Processor PROVE Service!Finish
  <2>1. at[Processor] = NumBuckets + 1
    BY <1>6, StopFacts DEF EndWalk, LoopShape
  <2>2. Served = "history" /\ Served' = "none" /\ queue' = queue
    BY <1>0, <1>6, ThreadsDiffer DEF EndWalk, Goto, Served, TypeOK
  <2>4. Replayed = Buckets
    <3>1. Replayed = 1..(at[Processor] - 1)
      BY <2>2 DEF Replayed
    <3>2. at[Processor] - 1 = NumBuckets
      BY <2>1, MessagingAssumption
    <3> QED
      BY <3>1, <3>2 DEF Buckets
  <2>5. Answered' = {} /\ Replayed' = {}
    BY <2>2 DEF Answered, Replayed
  <2> QED
    BY <2>2, <2>4, <2>5 DEF Service!Finish, Service!Buckets, Buckets
<1>7. Stays => [Service!Next]_(Service!vars)
  BY DEF Service!vars
<1> QED
  BY <1>0, <1>1, <1>2, <1>3, <1>4, <1>5, <1>6, <1>7
     DEF Walking, Service!Next, Service!Serve, Service!Buckets, Buckets

LEMMA ServingImplements ==
    ASSUME IInv, Serving
    PROVE  [Service!Next]_(Service!vars)
<1> USE DEF IInv, Shape, LocksMatchPlaces
<1> DEFINE Stays == UNCHANGED <<queue, Served, Answered, Replayed>>
<1>0. Processor \in Threads
  BY ThreadsDiffer
<1>1. ASSUME StartServing \/ EndServing PROVE Stays
  <2>1. {place[Processor], place'[Processor]} \subseteq {"idle", "serving"}
           /\ UNCHANGED <<at, queue>>
    BY <1>0, <1>1 DEF StartServing, EndServing, Goto, walks, TypeOK
  <2> QED
    BY <2>1, ServiceStays
<1>2. ASSUME PopMessage PROVE Service!Take
  <2>1. Served = "none" /\ Answered = {} /\ Replayed = {}
    BY <1>2 DEF PopMessage, Served, Answered, Replayed
  <2>2. at'[Processor] = 1
    BY <1>2, ThreadsDiffer DEF PopMessage, TypeOK
  <2>3. ~InLoop(Processor)'
    <3>1. call[Processor] = "none"
      BY <1>0, <1>2 DEF PopMessage, PlaceShape
    <3> QED
      BY <1>2, <3>1 DEF PopMessage, InLoop
  <2>4. Served' = IF Head(queue) \in {"datasources", "history"}
                  THEN Head(queue) ELSE "none"
    <3>1. place'[Processor] = CASE Head(queue) = "datasources" -> "replying"
                                [] Head(queue) = "history" -> "want bucket"
                                [] OTHER -> "serving"
      BY <1>0, <1>2 DEF PopMessage, Goto, TypeOK
    <3>2. CASE Head(queue) = "datasources"
      BY <3>1, <3>2 DEF Served
    <3>3. CASE Head(queue) = "history"
      BY <3>1, <3>3 DEF Served
    <3>4. CASE Head(queue) \notin {"datasources", "history"}
      BY <3>1, <3>4 DEF Served
    <3> QED
      BY <3>2, <3>3, <3>4
  <2>5. Answered' = {}
    <3>1. \A b \in Buckets : ~(b < 1)
      BY DEF Buckets
    <3> QED
      BY <2>2, <2>3, <3>1 DEF Answered
  <2>6. Replayed' = {}
    BY <2>2 DEF Replayed
  <2> QED
    BY <1>2, <2>1, <2>4, <2>5, <2>6 DEF PopMessage, Service!Take
<1>3. ASSUME StartReply PROVE Stays
  <2>1. InLoop(Processor)' <=> InLoop(Processor)
    BY <1>0, <1>3 DEF StartReply, Enter, InLoop, TypeOK
  <2> QED
    BY <1>3, <2>1, ServiceStays DEF StartReply, walks
<1>4. ASSUME EndReplies PROVE Service!Finish
  <2>1. at[Processor] = NumBuckets + 1
    BY <1>4, StopFacts DEF EndReplies, LoopShape
  <2>2. Served = "datasources" /\ Served' = "none" /\ queue' = queue
    BY <1>0, <1>4 DEF EndReplies, Goto, Served, TypeOK
  <2>3. \A b \in Buckets : b < NumBuckets + 1
    BY MessagingAssumption DEF Buckets
  <2>4. Answered = Buckets \X Connectors
    BY <2>1, <2>2, <2>3 DEF Answered
  <2>5. Answered' = {} /\ Replayed' = {}
    BY <2>2 DEF Answered, Replayed
  <2> QED
    BY <2>2, <2>4, <2>5 DEF Service!Finish, Service!Buckets, Buckets
<1>5. Stays => [Service!Next]_(Service!vars)
  BY DEF Service!vars
<1> QED
  BY <1>1, <1>2, <1>3, <1>4, <1>5 DEF Serving, Service!Next, Service!Serve

(* What threads do that are neither in sendMessage, a bucket nor serving. *)
LEMMA DeliveringImplements ==
    ASSUME IInv, NEW t \in Threads, Deliver(t)
    PROVE  [Service!Next]_(Service!vars)
<1> USE DEF IInv, Shape
<1>1. t # Processor
  BY DEF Deliver, PlaceShape
<1>2. place'[Processor] = place[Processor] /\ UNCHANGED <<call, at, todo>>
  BY <1>1, ThreadsDiffer DEF Deliver, Goto, TypeOK, walks
<1>3. UNCHANGED <<Served, Answered, Replayed>>
  BY <1>2, ServiceStays DEF InLoop
<1>4. \E kind \in Kinds : queue' = Append(queue, kind)
  BY DEF Deliver, Receive, TypeOK, Kinds
<1> QED
  BY <1>3, <1>4 DEF Service!Arrive, Service!Next

LEMMA StartingImplements ==
    ASSUME IInv,
           \/ StartPublish
           \/ \E t \in Callers \cup {Publisher} : StartMessage(t)
           \/ \E kind \in Requests :
                 MessageArrives(kind) \/ \E t \in Callers : SendControl(t, kind)
           \/ RunEnds
    PROVE  [Service!Next]_(Service!vars)
<1> USE DEF IInv, Shape
<1> DEFINE Same == /\ place'[Processor] = place[Processor]
                   /\ at'[Processor] = at[Processor]
                   /\ call'[Processor] = call[Processor]
                   /\ UNCHANGED <<queue, todo>>
<1>2. StartPublish => Same
  BY ThreadsDiffer DEF StartPublish, Goto, TypeOK
<1>3. ASSUME NEW t \in Callers \cup {Publisher} PROVE StartMessage(t) => Same
  BY <1>3, ThreadsDiffer DEF StartMessage, Goto, Enter, TypeOK, walks
<1>4. ASSUME NEW kind \in Requests PROVE MessageArrives(kind) => Same
  BY ThreadsDiffer DEF MessageArrives, Goto, TypeOK, walks
<1>5. ASSUME NEW kind \in Requests, NEW t \in Callers
      PROVE  SendControl(t, kind) => Same
  BY ThreadsDiffer DEF SendControl, Goto, TypeOK, walks
<1>6. RunEnds => Same
  BY ThreadsDiffer DEF RunEnds, Goto, TypeOK, walks
<1>7. Same
  BY <1>2, <1>3, <1>4, <1>5, <1>6
<1>8. InLoop(Processor)' <=> InLoop(Processor)
  BY <1>7 DEF InLoop
<1> QED
  BY <1>7, <1>8, ServiceStays DEF Service!vars

(* Whatever the threads do at the same time, every message is served once, *)
(* in order and completely: the agent is the request service.              *)
THEOREM Implements == Spec => ImplementsService
<1>1. Init => Service!Init
  BY ThreadsDiffer DEF Init, Service!Init, Served, Answered, Replayed
<1>2. IInv /\ [Next]_vars => [Service!Next]_(Service!vars)
  <2> SUFFICES ASSUME IInv, [Next]_vars PROVE [Service!Next]_(Service!vars)
    OBVIOUS
  <2>1. ASSUME UNCHANGED vars PROVE [Service!Next]_(Service!vars)
    <3>1. InLoop(Processor)' <=> InLoop(Processor)
      BY <2>1 DEF vars, InLoop
    <3> QED
      BY <2>1, <3>1, ServiceStays DEF vars, walks, Service!vars
  <2> QED
    BY <2>1, SendingImplements, WalkingImplements, ServingImplements,
       DeliveringImplements, StartingImplements
       DEF Next
<1> QED
  BY InitIInv, NextIInv, <1>1, <1>2, PTL DEF Spec, ImplementsService, Service!Spec
=============================================================================
