------------------------------ MODULE Messaging ------------------------------
(***************************************************************************)
(* The threads and locks between the buckets and the connectors: the       *)
(* publish thread (agent/Agent.cpp), ConnectorManager, SystemReceiver, and *)
(* of the connectors what they lock and whom they call back.               *)
(*                                                                         *)
(* Five kinds of lock are taken, none of them recursive on POSIX: one for  *)
(* each bucket, ConnectorManager.sendLock and receiveLock, the headless    *)
(* connector's lock, and mqttasync_mutex of the Paho client, which its     *)
(* receiving thread holds while it calls messageReceived and which         *)
(* MQTTAsync_isConnected takes.                                            *)
(*                                                                         *)
(* A thread is described by its place, which says what it does outside     *)
(* sendMessage, and its call, which says how far inside sendMessage it is. *)
(* Taking a lock, using it and giving it back is one step where nothing    *)
(* else is locked in between.  The data of messages is left out: a message *)
(* is its kind, and Bucket says what the loops of a bucket send.           *)
(***************************************************************************)
EXTENDS Integers, Sequences, FiniteSets

CONSTANTS
    NumBuckets,  \* the buckets of the agent are 1..NumBuckets
    Connectors,  \* connectors; "headless" and "mqtt" are those that lock
    Callers,     \* threads of the application: sendControl, agentSendMessage
    Requests,    \* the kinds of message that callers and MQTT clients send;
                 \* "other" is answered by nothing, as a "datasources" request
                 \* without a topic
    MaxBatches,  \* bound: messages that one publish of a bucket sends
    Budget       \* bound: messages received in a run

Publisher == "publisher"    \* processPublishLoop
Processor == "processor"    \* ConnectorManager::processThread
Paho == "paho"              \* MQTTAsync_receiveThread
Timer == "timer"            \* HLConnector::processLoop
NoThread == "none"

Threads == {Publisher, Processor, Paho, Timer} \cup Callers
Walkers == {Publisher, Processor}
Buckets == 1..NumBuckets
Stops == 1..(NumBuckets + 1)  \* a loop is at a bucket or behind the last
Locks == {"send", "receive", "headless", "mqtt"}
Kinds == Requests \cup {"headless", "zip"}

ASSUME MessagingAssumption ==
    /\ NumBuckets \in Nat
    /\ MaxBatches \in Nat
    /\ Budget \in Nat
    /\ Callers \cap {Publisher, Processor, Paho, Timer, NoThread} = {}
    /\ Requests \subseteq {"datasources", "history", "headless", "other"}

VARIABLES
    bucketOwner,       \* who holds the lock of each bucket
    owner,             \* who holds each other lock
    place,             \* what each thread does outside sendMessage
    call,              \* how far each thread is inside sendMessage
    at,                \* the bucket each walker has come to
    left,              \* messages that bucket has yet to send
    todo,              \* connectors that the holder of sendLock has yet to call
    queue,             \* ConnectorManager.receiveQueue
    pending,           \* the kind of message each thread is about to deliver
    filesInitialized,  \* HLConnector.filesInitialized
    updates,           \* history: calls of Agent::immediateUpdate
    budget             \* bound: messages that may still be received

locks == <<bucketOwner, owner>>
walks == <<at, left>>
vars == <<locks, place, call, walks, todo, queue, pending, filesInitialized,
          updates, budget>>

Places == {"idle", "want bucket", "in bucket", "message", "replying",
           "serving", "delivering"}
Calls == {"none", "send", "loop", "mqtt", "headless", "starting",
          "rolling", "closing"}

Init ==
    /\ bucketOwner = [b \in Buckets |-> NoThread]
    /\ owner = [l \in Locks |-> NoThread]
    /\ place = [t \in Threads |-> "idle"]
    /\ call = [t \in Threads |-> "none"]
    /\ at = [t \in Walkers |-> 0]
    /\ left = [t \in Walkers |-> 0]
    /\ todo = {}
    /\ queue = <<>>
    /\ pending = [t \in Threads |-> "headless"]
    /\ filesInitialized = FALSE
    /\ updates = 0
    /\ budget = Budget

Free(lock) == owner[lock] = NoThread

Goto(t, p) == place' = [place EXCEPT ![t] = p]
Enter(t, c) == call' = [call EXCEPT ![t] = c]
Take(t, lock) == Free(lock) /\ owner' = [owner EXCEPT ![lock] = t]
Give(lock) == owner' = [owner EXCEPT ![lock] = NoThread]

(***************************************************************************)
(* ConnectorManager.sendMessage and the connectors it calls                *)
(***************************************************************************)

TakeSend(t) ==
    /\ call[t] = "send"
    /\ Take(t, "send")
    /\ Enter(t, "loop")
    /\ todo' = Connectors
    /\ UNCHANGED <<bucketOwner, place, walks, queue, pending, filesInitialized,
                   updates, budget>>

(* Mutant: sendMessage returns without leaving its lock. *)
GiveSend_Kept(t) ==
    /\ call[t] = "loop"
    /\ todo = {}
    /\ Enter(t, "none")
    /\ Goto(t, IF place[t] = "message" THEN "idle" ELSE place[t])
    /\ at' = IF place[t] = "replying" THEN [at EXCEPT ![t] = @ + 1] ELSE at
    /\ UNCHANGED <<locks, left, todo, queue, pending, filesInitialized,
                   updates, budget>>

(* The loop over the connectors ends. *)
GiveSend(t) ==
    /\ call[t] = "loop"
    /\ todo = {}
    /\ Give("send")
    /\ Enter(t, "none")
    /\ Goto(t, IF place[t] = "message" THEN "idle" ELSE place[t])
    /\ at' = IF place[t] = "replying" THEN [at EXCEPT ![t] = @ + 1] ELSE at
    /\ UNCHANGED <<bucketOwner, left, todo, queue, pending, filesInitialized,
                   updates, budget>>

(* A connector that needs no lock, or the headless one when the message is *)
(* not the data of a bucket or no run is collecting.                       *)
CallConnector(t, c) ==
    /\ call[t] = "loop"
    /\ c \in todo \ {"mqtt"}
    /\ todo' = todo \ {c}
    /\ UNCHANGED <<locks, place, call, walks, queue, pending, filesInitialized,
                   updates, budget>>

CallMQTT(t) ==
    /\ call[t] = "loop"
    /\ "mqtt" \in todo
    /\ Enter(t, "mqtt")
    /\ UNCHANGED <<locks, place, walks, todo, queue, pending, filesInitialized,
                   updates, budget>>

(* MQTTAsync_isConnected, then MQTTAsync_send: Paho's mutex comes and goes. *)
SendMQTT(t) ==
    /\ call[t] = "mqtt"
    /\ Free("mqtt")
    /\ Enter(t, "loop")
    /\ todo' = todo \ {"mqtt"}
    /\ UNCHANGED <<locks, place, walks, queue, pending, filesInitialized,
                   updates, budget>>

(* The data of a bucket goes to the headless connector, which may send two *)
(* messages to the processing thread.                                      *)
CallHeadless(t) ==
    /\ call[t] = "loop"
    /\ "headless" \in todo
    /\ t = Publisher /\ place[t] = "in bucket"
    /\ budget >= 2
    /\ budget' = budget - 2
    /\ Enter(t, "headless")
    /\ UNCHANGED <<locks, place, walks, todo, queue, pending, filesInitialized,
                   updates>>

TakeHeadless(t) ==
    /\ call[t] = "headless"
    /\ Take(t, "headless")
    /\ Enter(t, IF filesInitialized THEN "rolling" ELSE "starting")
    /\ UNCHANGED <<bucketOwner, place, walks, todo, queue, pending,
                   filesInitialized, updates, budget>>

(* ConnectorManager.receiveMessage *)
Receive(kind) ==
    /\ Free("receive")
    /\ queue' = Append(queue, kind)

(* Mutant: the flag is set, the providers are not asked. *)
NotifyProviders_FlagOnly(t) ==
    /\ call[t] = "starting"
    /\ filesInitialized' = TRUE
    /\ Enter(t, "rolling")
    /\ UNCHANGED <<locks, place, walks, todo, queue, pending, updates, budget>>

(* The first data since the files were created: the providers are asked to *)
(* send anew.                                                              *)
NotifyProviders(t) ==
    /\ call[t] = "starting"
    /\ Receive("headless")
    /\ filesInitialized' = TRUE
    /\ Enter(t, "rolling")
    /\ UNCHANGED <<locks, place, walks, todo, pending, updates, budget>>

(* The data would make the file too large. *)
FileIsFull(t) ==
    /\ call[t] = "rolling"
    /\ Enter(t, "closing")
    /\ UNCHANGED <<locks, place, walks, todo, queue, pending, filesInitialized,
                   updates, budget>>

(* closeFilesAndNotify and startNewTempDir; then all is as in a new run. *)
RollOver(t) ==
    /\ call[t] = "closing"
    /\ Receive("zip")
    /\ filesInitialized' = FALSE
    /\ Give("headless")
    /\ Enter(t, "loop")
    /\ todo' = todo \ {"headless"}
    /\ UNCHANGED <<bucketOwner, place, walks, pending, updates, budget>>

Write(t) ==
    /\ call[t] = "rolling"
    /\ Give("headless")
    /\ Enter(t, "loop")
    /\ todo' = todo \ {"headless"}
    /\ UNCHANGED <<bucketOwner, place, walks, queue, pending, filesInitialized,
                   updates, budget>>

(***************************************************************************)
(* BucketList.publish and republish: bucket after bucket, each under its   *)
(* own lock, which is held while sendMessage is called                     *)
(***************************************************************************)

TakeBucket(t) ==
    /\ place[t] = "want bucket"
    /\ at[t] \in Buckets
    /\ bucketOwner[at[t]] = NoThread
    /\ bucketOwner' = [bucketOwner EXCEPT ![at[t]] = t]
    /\ \E n \in 0..MaxBatches :
          left' = [left EXCEPT ![t] = IF t = Processor THEN n + 1 ELSE n]
    /\ Goto(t, "in bucket")
    /\ UNCHANGED <<owner, call, at, todo, queue, pending, filesInitialized,
                   updates, budget>>

SendFromBucket(t) ==
    /\ place[t] = "in bucket"
    /\ call[t] = "none"
    /\ left[t] > 0
    /\ left' = [left EXCEPT ![t] = @ - 1]
    /\ Enter(t, "send")
    /\ UNCHANGED <<locks, place, at, todo, queue, pending, filesInitialized,
                   updates, budget>>

GiveBucket(t) ==
    /\ place[t] = "in bucket"
    /\ call[t] = "none"
    /\ left[t] = 0
    /\ bucketOwner' = [bucketOwner EXCEPT ![at[t]] = NoThread]
    /\ at' = [at EXCEPT ![t] = @ + 1]
    /\ Goto(t, "want bucket")
    /\ UNCHANGED <<owner, call, left, todo, queue, pending, filesInitialized,
                   updates, budget>>

EndWalk(t) ==
    /\ place[t] = "want bucket"
    /\ at[t] \notin Buckets
    /\ Goto(t, IF t = Publisher THEN "idle" ELSE "serving")
    /\ UNCHANGED <<locks, call, walks, todo, queue, pending, filesInitialized,
                   updates, budget>>

(* processPublishLoop: a round every two seconds, now and then a heartbeat. *)
StartPublish ==
    /\ place[Publisher] = "idle"
    /\ Goto(Publisher, "want bucket")
    /\ at' = [at EXCEPT ![Publisher] = 1]
    /\ UNCHANGED <<locks, call, left, todo, queue, pending, filesInitialized,
                   updates, budget>>

(* The heartbeat, or a message that a plugin sends by agentSendMessage. *)
StartMessage(t) ==
    /\ place[t] = "idle"
    /\ Goto(t, "message")
    /\ Enter(t, "send")
    /\ UNCHANGED <<locks, walks, todo, queue, pending, filesInitialized,
                   updates, budget>>

(***************************************************************************)
(* ConnectorManager.processReceivedMessages and SystemReceiver             *)
(***************************************************************************)

StartServing ==
    /\ place[Processor] = "idle"
    /\ Take(Processor, "receive")
    /\ Goto(Processor, "serving")
    /\ UNCHANGED <<bucketOwner, call, walks, todo, queue, pending,
                   filesInitialized, updates, budget>>

(* Mutant: the last message is left in the queue. *)
PopMessage_LeavesOne ==
    /\ place[Processor] = "serving"
    /\ Len(queue) > 1
    /\ queue' = Tail(queue)
    /\ Goto(Processor, CASE Head(queue) = "datasources" -> "replying"
                         [] Head(queue) = "history" -> "want bucket"
                         [] OTHER -> "serving")
    /\ at' = [at EXCEPT ![Processor] = 1]
    /\ updates' = IF Head(queue) = "headless" THEN updates + 1 ELSE updates
    /\ UNCHANGED <<locks, call, left, todo, pending, filesInitialized, budget>>

(* SystemReceiver.receiveMessage for the message in front: "headless"      *)
(* without data calls immediateUpdate, whose flag is the matter of         *)
(* PullWorkers; with a directory it calls the application's zip function.  *)
PopMessage ==
    /\ place[Processor] = "serving"
    /\ queue # <<>>
    /\ queue' = Tail(queue)
    /\ Goto(Processor, CASE Head(queue) = "datasources" -> "replying"
                         [] Head(queue) = "history" -> "want bucket"
                         [] OTHER -> "serving")
    /\ at' = [at EXCEPT ![Processor] = 1]
    /\ updates' = IF Head(queue) = "headless" THEN updates + 1 ELSE updates
    /\ UNCHANGED <<locks, call, left, todo, pending, filesInitialized, budget>>

(* Mutant: the loop over the buckets stops one early. *)
StartReply_OneShort ==
    /\ place[Processor] = "replying"
    /\ call[Processor] = "none"
    /\ at[Processor] \in Buckets
    /\ IF at[Processor] < NumBuckets
       THEN Enter(Processor, "send") /\ UNCHANGED at
       ELSE at' = [at EXCEPT ![Processor] = @ + 1] /\ UNCHANGED call
    /\ UNCHANGED <<locks, place, left, todo, queue, pending, filesInitialized,
                   updates, budget>>

(* The reply for the next bucket. *)
StartReply ==
    /\ place[Processor] = "replying"
    /\ call[Processor] = "none"
    /\ at[Processor] \in Buckets
    /\ Enter(Processor, "send")
    /\ UNCHANGED <<locks, place, walks, todo, queue, pending, filesInitialized,
                   updates, budget>>

EndReplies ==
    /\ place[Processor] = "replying"
    /\ call[Processor] = "none"
    /\ at[Processor] \notin Buckets
    /\ Goto(Processor, "serving")
    /\ UNCHANGED <<locks, call, walks, todo, queue, pending, filesInitialized,
                   updates, budget>>

EndServing ==
    /\ place[Processor] = "serving"
    /\ queue = <<>>
    /\ Give("receive")
    /\ Goto(Processor, "idle")
    /\ UNCHANGED <<bucketOwner, call, walks, todo, queue, pending,
                   filesInitialized, updates, budget>>

(***************************************************************************)
(* Those who call receiveMessage                                           *)
(***************************************************************************)

(* Paho's thread has a message for us: it calls us with its mutex held. *)
MessageArrives(kind) ==
    /\ "mqtt" \in Connectors
    /\ place[Paho] = "idle"
    /\ budget > 0
    /\ budget' = budget - 1
    /\ Take(Paho, "mqtt")
    /\ Goto(Paho, "delivering")
    /\ pending' = [pending EXCEPT ![Paho] = kind]
    /\ UNCHANGED <<bucketOwner, call, walks, todo, queue, filesInitialized,
                   updates>>

(* HLConnector.processLoop: a run is over, lockCloseFilesAndNotify. *)
RunEnds ==
    /\ "headless" \in Connectors
    /\ place[Timer] = "idle"
    /\ budget > 0
    /\ budget' = budget - 1
    /\ Take(Timer, "headless")
    /\ Goto(Timer, "delivering")
    /\ pending' = [pending EXCEPT ![Timer] = "zip"]
    /\ UNCHANGED <<bucketOwner, call, walks, todo, queue, filesInitialized,
                   updates>>

(* APIConnector sendControl *)
SendControl(t, kind) ==
    /\ t \in Callers
    /\ place[t] = "idle"
    /\ budget > 0
    /\ budget' = budget - 1
    /\ Goto(t, "delivering")
    /\ pending' = [pending EXCEPT ![t] = kind]
    /\ UNCHANGED <<locks, call, walks, todo, queue, filesInitialized, updates>>

(* receiveMessage, and the caller gives back what it held.  The last run   *)
(* starts no new temporary directory, the others do.                       *)
Deliver(t) ==
    /\ place[t] = "delivering"
    /\ Receive(pending[t])
    /\ Goto(t, "idle")
    /\ owner' = CASE t = Paho -> [owner EXCEPT !["mqtt"] = NoThread]
                  [] t = Timer -> [owner EXCEPT !["headless"] = NoThread]
                  [] OTHER -> owner
    /\ filesInitialized' \in IF t = Timer THEN {FALSE, filesInitialized}
                             ELSE {filesInitialized}
    /\ UNCHANGED <<bucketOwner, call, walks, todo, pending, updates, budget>>

(***************************************************************************)

(* What t does inside sendMessage. *)
Sending(t) ==
    \/ TakeSend(t) \/ GiveSend(t)
    \/ \E c \in Connectors : CallConnector(t, c)
    \/ CallMQTT(t) \/ SendMQTT(t)
    \/ CallHeadless(t) \/ TakeHeadless(t)
    \/ NotifyProviders(t) \/ FileIsFull(t) \/ RollOver(t) \/ Write(t)

Walking(t) == TakeBucket(t) \/ SendFromBucket(t) \/ GiveBucket(t) \/ EndWalk(t)

Serving == StartServing \/ PopMessage \/ StartReply \/ EndReplies \/ EndServing

Next ==
    \/ \E t \in Threads : Sending(t) \/ Deliver(t)
    \/ \E t \in Walkers : Walking(t)
    \/ Serving
    \/ StartPublish
    \/ \E t \in Callers \cup {Publisher} : StartMessage(t)
    \/ \E kind \in Requests :
          MessageArrives(kind) \/ \E t \in Callers : SendControl(t, kind)
    \/ RunEnds

Spec == Init /\ [][Next]_vars

(* What t does next once it has begun something. *)
GoOn(t) ==
    \/ Sending(t)
    \/ Deliver(t)
    \/ t \in Walkers /\ Walking(t)
    \/ t = Processor /\ Serving

(* Every thread that has begun goes on, and gets the lock it waits for if  *)
(* that becomes free again and again: its users sleep between their turns. *)
Fairness == \A t \in Threads : SF_vars(GoOn(t))

FairSpec == Spec /\ Fairness
-----------------------------------------------------------------------------
(* Every variable stays in its type. *)
TypeOK ==
    /\ bucketOwner \in [Buckets -> Threads \cup {NoThread}]
    /\ owner \in [Locks -> Threads \cup {NoThread}]
    /\ place \in [Threads -> Places]
    /\ call \in [Threads -> Calls]
    /\ at \in [Walkers -> {0} \cup Stops]
    /\ left \in [Walkers -> 0..(MaxBatches + 1)]
    /\ todo \subseteq Connectors
    /\ queue \in Seq(Kinds)
    /\ pending \in [Threads -> Kinds \cup {"headless"}]
    /\ filesInitialized \in BOOLEAN
    /\ updates \in Nat
    /\ budget \in 0..Budget

InHeadless(t) == call[t] \in {"starting", "rolling", "closing"}
InLoop(t) == call[t] \in Calls \ {"none", "send"}

(* Where each lock is held. *)
SendHeld == \A t \in Threads : owner["send"] = t <=> InLoop(t)

HeadlessHeld ==
    \A t \in Threads :
        owner["headless"] = t
            <=> InHeadless(t) \/ (t = Timer /\ place[t] = "delivering")

MQTTHeld ==
    \A t \in Threads : owner["mqtt"] = t <=> t = Paho /\ place[t] = "delivering"

ReceiveHeld ==
    \A t \in Threads :
        owner["receive"] = t
            <=> /\ t = Processor
                /\ place[t] \in {"serving", "replying", "want bucket", "in bucket"}

BucketsHeld ==
    \A b \in Buckets, t \in Threads :
        bucketOwner[b] = t <=> t \in Walkers /\ place[t] = "in bucket" /\ at[t] = b

(* Every lock that is taken is given back on every path: a lock is held by *)
(* exactly the thread that is where the code holds it.                     *)
LocksMatchPlaces ==
    SendHeld /\ HeadlessHeld /\ MQTTHeld /\ ReceiveHeld /\ BucketsHeld

(* The thread that holds what t waits for. *)
Blocker(t) ==
    CASE call[t] = "send" -> owner["send"]
      [] call[t] = "mqtt" -> owner["mqtt"]
      [] call[t] = "headless" -> owner["headless"]
      [] call[t] \in {"starting", "closing"} -> owner["receive"]
      [] call[t] = "none" /\ place[t] = "delivering" -> owner["receive"]
      [] call[t] = "none" /\ place[t] = "want bucket" /\ at[t] \in Buckets
            -> bucketOwner[at[t]]
      [] OTHER -> NoThread

(* No set of threads wait for each other (nor a thread for itself, the     *)
(* mutexes of Lock.cpp not being recursive).                               *)
NoCircularWait ==
    \A S \in SUBSET Threads : S # {} => \E t \in S : Blocker(t) \notin S

Waiting(kind) == {i \in 1..Len(queue) : queue[i] = kind}

(* The number of updates when all that is in the queue now is served. *)
Owed == updates + Cardinality(Waiting("headless"))

(* When new files are begun, the request that the collecting thread queues *)
(* for it, with three locks held, reaches Agent::immediateUpdate, and each *)
(* such request does so for itself: it is not taken for one queued before. *)
(* Whether a turn of the pull thread then sees the flag is another matter  *)
(* (UpdateIsSeen in PullWorkers: not always).                              *)
UpdateIsAskedFor ==
    \A n \in 0..Budget :
        (call[Publisher] = "starting" /\ Owed = n) ~> updates > n

(* SystemReceiver.cpp:64: a "datasources" request has the source names and *)
(* config sent back to the client.  Whoever asks is answered.              *)
RequestsAreAnswered ==
    Waiting("datasources") # {}
        ~> (place[Processor] = "replying" /\ at[Processor] > NumBuckets)

-----------------------------------------------------------------------------
(* What the clients see.  The request that is served, and the replies it   *)
(* has been given, are read off the processing thread's position.          *)
Served ==
    CASE place[Processor] = "replying" -> "datasources"
      [] place[Processor] \in {"want bucket", "in bucket"} -> "history"
      [] OTHER -> "none"

Answered ==
    IF Served = "datasources"
    THEN {r \in Buckets \X Connectors :
             \/ r[1] < at[Processor]
             \/ r[1] = at[Processor] /\ InLoop(Processor) /\ r[2] \notin todo}
    ELSE {}

Replayed == IF Served = "history" THEN 1..(at[Processor] - 1) ELSE {}

Service == INSTANCE RequestService WITH
    inbox <- queue, serving <- Served, answered <- Answered, replayed <- Replayed

(* Among threads that publish, deliver and collect at the same time, each  *)
(* message is served once, in order and completely.                        *)
ImplementsService == Service!Spec

(* And none is left waiting. *)
ImplementsFairService == Service!FairSpec
=============================================================================
