# Verification of the Health Center agent core (omr-agentcore)

This directory models, model-checks and proves properties of the monitoring
agent in `src/src/ibmras`: the agent that pulls data from plugins, keeps it in
buckets and publishes it through connectors, while clients send it messages.
Paths below are relative to `src/src/ibmras` unless they begin with `src/`. The
settings assumed are those of `src/binding.gyp` (`OMR_NODEJS`, debug logging
compiled in). The ports of the thread layer differ in what a stop does and how a
semaphore behaves: `PullWorkers` models all of them, `AgentLifecycle` those for
Linux, AIX and OS X, `Headless` tells those that cancel threads (Linux, AIX) from
those that do not (Windows, z/OS, OS X); the rest is the same on all.

## 1. The system

    plugins --callback--> workers --add--> buckets --publish--> ConnectorManager --> connectors
       ^                     ^                ^                  |  sendLock             |
       |            ticket   |         walk   |                  |                       | receiveMessage
    pull thread -------------+    publish thread, and the        v                       v
    (1 s turns)                   processing thread <---- receiveQueue, receiveLock <----+
                                  (requests: "history", "datasources", "headless")

| component | state | operations | talks to | what is hard | what makes it correct |
|---|---|---|---|---|---|
| `Bucket`, `BucketList` (monitoring/agent) | list, `tail`, `masterID`, byte and entry counts, `lastPublish`, a lock | `add` (spills first), `publish`, `republish`, `getNextData` | workers and push callers add; the publish and the processing thread walk it under its lock and call the connectors | spill between publications, persistent entries, batches that are full, too small or not allocated, boundary ids of clients | accepted data is published once, in order, before it is lost; the accounts follow the list; clients can account for every id |
| pull thread, `ThreadPool`, `WorkerThread` (monitoring/agent/threads, Agent.cpp) | countdowns, `updateNow`, a semaphore, `running` and `stopped` per worker | `process`, `immediateUpdate`, `stopAll`, the worker's loop, `cleanUp` | plugins' callbacks, buckets | slow sources, updates against turns, a way of ending for each port, workers without a thread or a semaphore | each source is pulled when due and closed once, and not after the stop; a slow one holds up nobody |
| `ConnectorManager`, `SystemReceiver` (monitoring/connector, monitoring/agent) | connectors, receivers, `receiveQueue`, `sendLock`, `receiveLock`, `running` | `sendMessage`, `receiveMessage`, the processing loop, `start`, `stop` | every thread that sends; connectors that call back | lock order across five kinds of lock; callbacks with locks held | requests are served once, in order and in the end; no circular wait |
| `Agent` and the thread layer (Agent.cpp, common/port/{linux,aix,osx,windows,zos}/Thread.cpp) | `running`, `headlessRunning`, `threadMap`, `stopping`, `condMap` | `start`, `stop`, `createThread`, `stopAllThreads`, `sleep`; `Semaphore` | everything | threads created while others are stopped, failed creation, cancellation inside calls, stop by the agent itself, ports that differ | stop ends every thread and returns; the agent can start again |
| `HLConnector` (connector/headless) | open files, `tmpPath`, `collect`, `filesInitialized`, `times_run`, a lock | `sendMessage`, roll-over, runs, `stop` | receives data under `sendLock`, sends itself messages | roll-over in the middle of a message, pauses, the last run, a stop at any moment | what is written is announced with its set or at the stop; the runs end |
| `MQTTConnector` (connector/mqtt) and the Paho client it is linked with (`src/org.eclipse.paho.mqtt.c`) | `enabled`; the client's command queue, ids, connection, pending writes | `connect`, `sendMessage`, callbacks, `stop`; the client's send and receive threads | broker, Paho's threads | reconnection by heartbeat, callbacks under Paho's mutex, results handled after the mutex was left, socket numbers used again | each session begins with the subscriptions and the identity, messages keep their order, a stop publishes the will |
| API, configuration, output connectors | `listener`; a table with its lock | `sendMessage`, `registerListener`, `sendControl` | the application | listener changed during a call | the configuration read is one that was sent |
| initialisation, `DataSourceList`, `Plugin` | source lists, plugins | `init`, `addPlugin`, `createBuckets` | plugins | repeated `init`, provider ids that move, failed starts | the data of a source go to its own bucket; what start adds is started |
| `Properties`, `LogManager` | table; levels | `add`, `toString`, `load`; `setLevel`, `msgHandler` | everything | text form and back, order of settings | levels and values are those set |
| plugins (monitoring/plugins/common) | CPU: two samples | pull callbacks | workers, the operating system | failed samples, counters that go back | values in range, no stale sample |
| utilities, the rest of vendored Paho, publish threads of Windows and z/OS | - | - | - | - | not modelled, or external (see section 9) |

The hazards are listed with their lines in PROJECT.json; each has the properties
that would catch it or a note why none does.

## 2. Modules

| module | what it is |
|---|---|
| `Bucket` | one bucket |
| `DeliveryLog` | abstract: a log that accepts, delivers in order, forgets what was delivered |
| `BucketProofs` | theorems about `Bucket`, among them that it implements `DeliveryLog` |
| `BucketAccounts` | theorems about its sums: sizes, counts and what clients are told was dropped |
| `PullWorkers`, `PullWorkersProofs` | pull thread, workers, semaphores, updates, stop |
| `Messaging`, `MessagingProofs` | the threads and locks between buckets and connectors |
| `RequestService` | abstract: what the agent promises to those who send it messages |
| `AgentLifecycle`, `AgentLifecycleProofs` | start, stop, thread creation and cancellation |
| `Headless`, `HeadlessProofs` | the headless connector's files, runs, pauses and stop |
| `Mqtt`, `MqttProofs` | the MQTT connector and the Paho client below it, a broker and a network that fails |
| `Registration`, `RegistrationProofs` | plugins, sources, buckets, connectors and receivers over repeated additions, inits, starts and stops |
| `MC...` | instances of the seven for TLC |

They share no variables. `Messaging` composes the publish and processing loops,
the connector manager and the connectors' locks; what it leaves out of a bucket
(which entry goes out) is `Bucket`, what it leaves out of threads (how they begin
and end) is `AgentLifecycle`, what it leaves out of the pull thread is
`PullWorkers`, of the headless connector `Headless`, of MQTT `Mqtt`. Which bucket
the data of a source go to, and which connectors there are, is `Registration`.

### Bucket (Bucket.cpp, BucketList.cpp)

`add` and `getNextData` call nothing while they hold the bucket's lock and are
one step each (`Add`, `AddFails`, `GetNextData`). `publish` and `republish` call
connectors inside their loop; `PublishBegin`/`RepublishBegin` take the lock and
try to allocate the batch buffer, then each turn of the loop is a step
(`FlushBatch`, `BatchEntry`, `SendEntry`), and `End` sends the last batch and
gives the lock back. The list is kept as a set of ids, which is exact because
ids grow along it; ids linked behind a freed `tail` are `orphans`. `times`, `got`
and `dropped` are history.

### PullWorkers (Agent.cpp 337-377, ThreadPool.cpp, WorkerThread.cpp, the semaphores of all ports)

`StartAll`, `Tick` (a whole `process` of the pool: each countdown, `updateNow`
read), `ClearFlag` (`updateNow = false`, in which a request may be lost),
`ImmediateUpdate`, and the stop. `platform`, chosen at first, says how it goes. On
Linux and AIX threads are cancelled where they may block and `cleanUp` runs
(`Cancel`), and `stop` goes on when all have been joined (`StopGoesOn`). On
Windows and z/OS the pull thread leaves its loop, calls `StopAll` and waits for
the workers (`AwaitWorkers`, which gives up after `MaxWait` rounds), and `stop`
goes on when it has counted itself out. On OS X nothing ends the workers and
`stop` goes on at once.

A worker is `TakeTicket`, `WaitEnds`, `WaitFails` (any error but a timeout is
taken for a ticket), `Pull`, `AddData`, `Complete`, `Close`. `semaphore` tells
whether the constructor got one; on z/OS it may be only a key, found late
(`FindKey`) and turned into a set by the first wait (`OpenSet`), so that the
tickets posted before are lost, or a set left by an earlier process with a count
in it. What a source returns, and whether it returns, is external.

### Messaging (ConnectorManager.cpp, SystemReceiver.cpp, Agent.cpp 306-329, and the locking in HLConnector.cpp, MQTTConnector.cpp, APIConnector.cpp)

A thread has a `place` (what it does outside `sendMessage`) and a `call` (how far
inside it is). Taking a lock, using it and giving it back is one step where no
other lock is taken in between; every other acquisition and release is a step.
Threads: the publish thread, the processing thread, Paho's receiving thread
(which holds Paho's mutex while it calls back), the headless timer, and any
threads of the application. Messages are their kinds; "other" are requests that
nothing answers, such as "datasources" without a topic. `updates` counts the calls of
`Agent::immediateUpdate`; what the pull thread makes of the flag that they set, and
how it may lose one, is `PullWorkers`.

### AgentLifecycle (Agent.cpp start/stop, ConnectorManager start/stop, Thread.cpp of Linux, AIX and OS X)

`start` is one step for each thread it creates and one for the plugins. Each
thread is unborn, idle (in a sleep or wait, where a cancellation is acted on),
busy, spawning (the pull thread in `startAll`) or dead. `stop` is `BeginStop`
(`running` is cleared, without a lock), `BeginStopAll` (`stopping` is set), then
`Pop` and `Join` for each thread on the stack, `AllJoined`, `StopPlugins`,
`StopConnectors`. Between the first two another stopper may return and a start
begin. The publish thread calls the same steps when the headless runs are over
(`PublishStops`).

The ports differ in `stopAllThreads`: Linux pops a thread before it joins it; AIX
leaves it on the stack until the join is over and then pops whatever is on top,
may be told that a thread cannot join itself, and never resets `stopping`; OS X
sets `stopping` and does nothing else, its loop being commented out. (`Joining` are
the first two.) A busy thread is
cancelled inside its call only if its role is in `Interruptible` (`Interrupted`):
for the publish thread this aborts the process, because
`ConnectorManager::sendMessage` catches the unwinding; the processing thread
leaves `receiveLock` behind and the timer the headless connector's lock (`lost`).
Who may come to need a lock that was left (`Stuck`, `MayHang`, `StopMayHang`) is
not obliged to go on. `headless` set to `on` without durations is
`Headless = "on"`, with a number of runs `"timed"`.

### Headless (HLConnector.cpp)

A set of files is a number; the files of a set are one for each source, and
`dir` gives the directory of a set, which is an older one's if both were made in
the same second (`clash`). `held` records for each file the classes of what was
written to it and not announced yet: "plain" in the set's own time, the "trigger"
of a roll-over, a "straggler" of a pause, what was "skipped" because a run's end was
passed over or another start's thread paused in the middle of it. `sendMessage` is
`Offer` (up to `headlessLock`), then `TurnedAway`, `Write` or `RollOver`. Each start
creates a thread of its own (`CreateTimer`), or none, if the creation fails, which
the code does not look at; on the ports that do not wait for it the one of an
earlier start may still be there, and both use the same `running`, `collect` and
`times_run`. `processLoop` is `DelayEnds`, `LoopHead`, `RunEnds` (which reads
`times_run`), `CountRun` (which writes it, no lock being held), `CloseRun`,
`Unlock`, `Pause`, `PauseEnds`, and `Leave`, which clears the flags. `stop` is
`StopThreads` (where threads are cancelled: the timers and a sender, wherever they
are, also with the lock held), `BeginStop`, `CloseAtStop`. The settings (runs,
periodic collection, pause, delay, clash, platform) are chosen in `Init` from all
combinations `start` can read. Times and sizes are left to chance: a run may end,
and a file be full, at any moment.

### Mqtt (MQTTConnector.cpp, and MQTTAsync.c, MQTTProtocolClient.c, MQTTProtocolOut.c, Socket.c, SocketBuffer.c of Paho)

The connector (`Start`, `Offer`, `Heartbeat`, `Connect`, `BeginStop`,
`StopConnector`, `LookAgain`, `AddBye`, `OnConnect`, `ReceiveRequest`) calls the client.
`MQTTAsync_send` is three steps, since it leaves the mutex in between: `GiveUp`,
`AssignId`, `AddMessage`; so is `MQTTAsync_disconnect` two, since it looks at the
connection without the mutex: `LookAgain`, `AddBye` (together `Disconnect`). Requests
come with QoS 0 or 1. The client's send thread takes the first command of
`queue` (`OpenSocket`, `Write`, `ProcessDisconnect`...) or finds an attempt too old
(`CheckTimeouts`); the receive thread reads under the mutex (`TcpDone`,
`ReceivePuback`, `ReadError`...), leaves it, and handles what it read if there
still is a client with a socket of that number (`HandleConnack`, `HandleError`,
...). `callback` # 0 stands for the mutex held during `onSuccess`. Sockets are
numbers that are used again; `writes` are pending writes of sockets closed since.
The broker answers what reaches it; connections break, attempts are refused or
lost, as often as `MaxFaults` allows. Time is `Tick`, eleven seconds in which the
threads have done what they can.

### Registration (Agent.cpp 388-519, 599-678, DataSourceList.h, BucketList.cpp, Plugin.cpp)

`AddPlugin`, `Initialize`, `Start`, `Stop` are the loader's functions of those
names. A library's provider id is its place in the vector when `init` runs; what
its code keeps of it (`place`) is the first id it was told, for plugins with one
instance (`KeepsFirst`: CPU, environment, memory), or the last (API). The lists of
sources and buckets have one entry for each plugin, with the ids of its sources,
which the code adds one after the other and never takes apart. A connector
is the library and the call of its factory that made it.

## 3. Runs

| run | instance | shows |
|---|---|---|
| Bucket_plain | capacity 4, batches of 3, sizes 1, 2 and 4, 5 entries, no persistent data | `EventuallyPublished`, and that the bucket implements `DeliveryLog` |
| Bucket_persistent | the same with persistent entries and a client of `getNextData` | accounts, capacity, no loss before publication, in order, complete replays, nothing skipped silently |
| Bucket_tail | capacity 3, 3 entries, persistent data | finding 1 |
| PullWorkers_stop | two sources with intervals 1 and 3, threshold 2, all ports | exact countdowns, updates reach the slow source, pulled again and again, closed once, no pull begun after the stop but on OS X; the pull thread ends whatever a source does, the workers of sources that answer end, but on OS X |
| Messaging_requests | API and configuration connector, two buckets, all requests, an application thread | no circular wait, implements `RequestService` with and without fairness |
| Messaging_collecting | headless and MQTT connector, only "headless" messages | each request that a new set of files makes reaches `Agent::immediateUpdate` |
| Messaging_headless | one bucket, "datasources" requests | finding 2 |
| AgentLifecycle_stop | Linux, AIX and OS X, one source, two starts (one on AIX), runs that end by themselves, pull and publish thread may fail, cancellation in calls of the publish and processing thread, the worker and the timer | stop returns, unless the process was aborted or a lock left behind, and failed starts end; where threads are joined stop is complete and there is one publisher; on Linux restart is possible unless the agent stopped itself |
| AgentLifecycle_attach | Linux, without failures | finding 3 |
| Headless_runs | one source, a roll-over, two runs in one start or one in each of two, all settings | what is left behind, or left by `stop`, is announced; each set begins with a request to the providers; each run announces a set of its own, if its thread is the only one; `stop` returns, unless a cancelled thread has the lock |
| Mqtt_session | two messages, one identity request, one fault at any moment, four ids, two sockets | ids differ, sessions begin with the subscriptions, order, no message dropped for another's answer, the will is published, reconnection, the end of the session |
| Registration_restarts | three libraries in the path, one added up to twice, three inits, three starts | each source's data go to a bucket of its own; what runs is started and answers once |

### Bounds and why they are enough

* Bucket: sizes 1, 2 and 4 against capacity 4 and batches of 3 give an entry that
  fills the bucket, one larger than a batch, and pairs that fill a batch exactly
  or overflow it by one. Five entries (`MaxId`) are enough to fill the bucket,
  spill it and fill it again. A larger bucket repeats these cases; the theorems
  hold for all.
* PullWorkers: one interval lies below the threshold and one above. Every
  counter is bounded by the intervals, the semaphore's maximum and `MaxWait` (1:
  the pull thread may give up before or after the workers end).
  The POSIX semaphore has no effective maximum; the model's (2) lets a ticket
  pile up. Windows keeps the maximum asked for (1).
* Messaging: two buckets are needed for a walk with a lock to give back and one
  to take; `MaxBatches` = 1 gives sends with and without data; `Budget` = 3 lets
  a message arrive while one is served and one waits.
* Headless: one source is enough, since a set's files are opened, closed and
  announced together; two runs tell the last one from the others; two starts show
  what a stop leaves for the next start and how their threads meet. `MaxRuns` bounds
  the runs of all starts, so that there are two in one start or one in each of two;
  five sets are enough for all of them. The theorems hold for all.
* Mqtt: with `MaxId` = 4 (65535 in the code) the ids of two subscriptions, the
  identity and two messages wrap round; two sockets let a number be used again;
  one fault gives a session before and one after it, which is what each property
  needs. With two faults and three messages the state space is out of reach; a
  simulation of 36 million states found no safety property violated but
  `TokensDiffer`, with two requests (section 6).
* Registration: a library with a push source, with a pull source and with both; two
  that make connectors, one of them always the same; three inits so that the
  second and the third differ in what they move.
* AgentLifecycle: two starts are needed for what a stop leaves behind to matter,
  one worker for a thread that is created late. On AIX (`StartsOn`) one start is
  enough: its first stop leaves `stopping` set, and no thread is created again.
  Three starts on Linux, without workers, satisfy the same properties (617,000
  states); they are not in the run only for its time.

### Fairness and why the code justifies it

* Bucket: a loop that has the lock goes on (WF); the publish thread comes round
  every two seconds (SF, since others may hold the lock each time it tries).
* PullWorkers: the pool's turn and a worker's own steps are weakly fair, and a
  worker in a wait opens the set and gets a ticket that is there; cancellation of a worker is strongly fair, since it stays pending and the worker
  returns to its wait. That a source answers is not part of the specification:
  `SourcesArePulled` and `WorkersEnd` assume it (`Answering`), `PoolEnds` does not.
* Messaging: a thread that has begun goes on, and gets a lock that becomes free
  again and again (SF): all users of a lock sleep between their turns. No
  fairness for arrivals of messages, publish turns or the timer.
* Headless: each timer, a sender that has begun and a stop that has begun go on
  (WF), and a timer or stop that waits for the lock gets it (SF). Nothing obliges anyone to send
  or to stop.
* Mqtt: the client's two threads and the connector's calls go on (WF), time
  passes, a connection nobody answers is given up by the system; the broker
  answers what it gets (`AnsweredSpec`) unless the connection breaks. No fairness
  for messages, requests, faults or the stop.
* AgentLifecycle: start, stop and every thread go on (WF, each subscripted by the
  variable that all steps in question change: `app`, `stage`, `at`), but those that
  may wait for a lock that a cancelled thread has left behind (`MayHang`,
  `StopMayHang`); only the application decides whether it calls start or stop.

## 4. What is proved

All theorems are about `Spec` of the modules above for every value of the
constants that satisfies the module's named assumption, and use nothing else.

* **Bucket.** `IInv` adds to the types that ids above `masterID` are unused, what
  a running loop has and has not sent (`LoopShape`), and which entries have gone
  out (`LiveTimes`, `HistoryTimes`): `NoUnpublishedLoss` alone is not inductive,
  since nothing in it ties `lastPublish` to what was sent in the middle of a
  loop. From it: types, `NoUnpublishedLoss`, `SentAtMostOnce`,
  `LastPublishIsExact`, `PersistentStays`, `PublishedInOrder`,
  `ReplayIsComplete`, `NoSilentSkip`. If no source uses persistent data (the
  assumption of the theorem; true of every plugin in the repository) also
  `TailIsLast` and that the bucket implements `DeliveryLog`: a list without
  persistent entries is spilled from the front, so that the last node goes only
  with the whole list. `BucketAccounts` proves the sums, `Accounting`,
  `WithinCapacity` and `ReaderAccounting`, with and without persistent data: a sum
  is the number of its units (`Units`, one for each byte), so that the library's
  facts about finite sets do for sums, where an induction could not be stated.
  That a spill leaves room rests on the shape of the list around a freed `tail`
  (`TailShape`), and that a client is told of all it missed on the ids between two
  nodes having been dropped (`GapsOf`).
* **PullWorkers.** On every port: types, `CountdownMatches`, `ClosedAtTheEnd`,
  `UpdateReachesAll`; the invariant is their conjunction and that nothing is
  running before `StartAll`. `NoPullAfterStop` needs more: on Windows and z/OS no
  worker's running flag is set once the pool is being stopped, and `stop` has gone
  on only when the pull thread has ended and, on Linux and AIX, the workers too.
* **Messaging.** Types; `LocksMatchPlaces` (with the shapes of places and calls
  it is inductive, one lemma for each lock and step); `NoCircularWait` if no
  connector takes a lock or if clients send no requests: in the first case locks
  are taken in the order receive, bucket, send, in the second bucket, send, the
  connector's own, receive, and the holder of the last one waits for nobody;
  and that the agent implements `RequestService` with any
  connectors.
* **AgentLifecycle.** Types, on all three ports; and while only the application
  stops the agent, `StopIsComplete`, `PluginsAreStarted` and `OnePublisher` on Linux
  and AIX and `StopIsUndone` on Linux: the invariant says
  that every living thread is on the stack or being joined (`NoneEscapes`) and
  what the flags say of the application's place (`FlagsMatch`). The refusal of
  new threads during stop is not needed for it on Linux: a thread that creates
  others is itself on the stack. On AIX it is: only because nothing is pushed
  during a join is the thread that is popped the one that was joined.

* **Headless.** Types, `LeftBehindIsAnnounced`, `EverySetBeginsWithARequest`,
  `StopAnnouncesAll`, for any number of sources, runs, roll-overs and starts. The
  invariant adds which files can be reached from the current set (`CurrentSet`),
  that nothing written in a set's own time is held while nothing is collected or
  when there is no agent (`PauseIsClean`), and that where threads are cancelled there is
  at most one timer, of the latest start, and no run's end is skipped
  (`NothingSkipped`).

* **Mqtt.** Types and `InOrder` without further hypotheses: what is queued is later
  than what is written in part, and that is later than all that has arrived
  (`OrderInv`). `SubscribedFirst` and `WillIsNotForgotten` if threads are cancelled
  (`Posix`) and there are three ids (`MaxId` > 2; the code has 65535). Between two
  sessions nothing is left of the one before (`SessionInv`); who stops has the
  connector for itself (`StopInv`); once a sender has seen a connection that then
  ends, nothing asks for another one until the sender is done (`NoReturn`), so that
  its message cannot come into the opening of the next session, of which what is
  not sent yet stands at the head of the queue (`OpeningInv`); and from the will's
  entry into the queue to the DISCONNECT it is ahead of it (`WillInv`). Both hypotheses are
  needed: with `Posix` = FALSE TLC has a publisher's message added during the
  callback, ahead of the subscriptions, and a heartbeat's connection between the
  will and the end; with two ids the callback runs out of them.
  `TokensDiffer` and `DroppedOnlyWithSession` need that the ids suffice
  (`IdsSuffice`): while a sender holds an id that is in no queue yet, there are more
  ids than those taken and the requests that may still come, or at most one request
  may come. Then the search, which goes round, does not come back to the id held:
  what it has passed since (`Passed`) and what is taken are fewer than all the others
  (`Room`), and with each request one fewer is left. `OneRequestSuffices` proves that
  the condition always holds with one request, for any number of ids, messages and
  faults, and `ManyIdsSuffice` that it does with any number of requests when there are
  more ids than the opening, the requests, the messages and the will of the agent's
  whole life take (`BoundInv`: each takes one id at most, and a session's end gives
  all back); otherwise it is a condition on behaviours, which section 6 shows to be
  needed. That nothing is dropped rests on what answers what: every answer that has
  come is to a command that waits, and no two are to the same (`Answered`); what is
  written in part, or was being written when the connection broke, has no answer
  (`AnswersInv`); and what is in flight is earlier than what is queued (`FlightInv`).

* **Registration.** Types; `ReadyToServe`, for
  any libraries: the invariant says that the vector has no system plugin before
  the first `init` and one after it, that the configuration connector is there
  since, and that an agent that does not run, its starts not having failed, has no
  receivers. And `OwnBucket`, for any libraries, ids and directory orders: a place
  that a library is told anew is one at which no earlier entry bears its ids
  (`Known`: what stands in the vector up to the last `init` is what entries speak
  of; `InFront`: each search has put the same number of plugins before it), and the
  bucket found first stays the first (`Owned`), since lists only grow at their end.

The type invariants of these seven modules (that of `Mqtt` is in a run too), and `SentAtMostOnce`,
`LastPublishIsExact`, `PersistentStays`, `TailIsLast`, `LocksMatchPlaces` and
`PluginsAreStarted`, are proved and are in no run: the theorem says more.

Only model-checked: every liveness property and the fair refinement of
`RequestService`, which are out of the prover's reach (liveness under fairness,
ENABLED).

## 5. Findings

Each is shown by the run named; PROJECT.json quotes the line it contradicts.

1. Bucket_tail (Bucket.cpp:152). `spill` resets `tail` only if the list is empty.
   If a persistent entry stays and the last node is freed, `add` writes through
   the freed node and the new entry is never published. No plugin here uses
   persistent data.
2. Messaging_headless (HLConnector.cpp:430). The headless connector calls
   `receiveMessage` with `sendLock` held; the processing thread holds
   `receiveLock` while it replies. A "datasources" request at that moment stops
   both.
3. AgentLifecycle_attach (Agent.cpp:317). The publish thread calls `stop` at the
   end of the headless runs, cancels and joins itself and leaves `stopping` set:
   the agent cannot be started again.

Differences between code and comments for which there is no run: an entry larger
than the capacity enters an emptied bucket (Bucket.cpp:156; Bucket.h:67 speaks of
a maximum); the POSIX semaphore ignores its maximum (common/port/linux/Thread.cpp:167,
Semaphore.h:37); pulls come `pullInterval` + 1 seconds apart (WorkerThread.cpp:78);
the heartbeat comes every 22 seconds (Agent.cpp:321, comment at 320); with both
kinds of receiver the log says the factory is ignored, but the function is
(Plugin.cpp:207).

## 6. Properties that do not hold

The modules state some properties that the code does not have, so that no run
checks them; they say what is to be expected of it. TLC finds a counterexample to
each with the instance given, in seconds.

* `UpdateIsSeen` (PullWorkers; one source of interval 2): an immediate update asked
  for while the pool has its turn is cleared unseen (Agent.cpp:360).
* `RequestsAreAnswered` (Messaging; the MQTT connector only, `Budget` = 2): the
  deadlock of finding 2 between Paho's thread, which delivers with its mutex held,
  and the processing thread, which wants the mutex while it holds `receiveLock`
  (MQTTConnector.cpp:291).
* `CollectionStarts` (Headless; `FairSpec`): with a delay but neither runs nor
  periodic collection nothing ever sets `collect` again (HLConnector.cpp:120).
* `StopReturns` without its last case, `lost # {}` (AgentLifecycle; the instance of the
  run): the timer, cancelled inside `closeFilesAndNotify` (HLConnector.cpp:511-521),
  leaves the connector's lock held, and `HLConnector::stop` (HLConnector.cpp:377)
  waits for it for ever. In `Headless` the same case is `settings.cancels /\ lock`.
* `RunsEnd` without `single` (Headless; two starts, one run): on Windows, z/OS and OS X
  `stop` does not wait for the connector's thread, which looks at `running` once a
  second. If the agent is started again before that, the old thread may count a run
  of the new one (HLConnector.cpp:561), or, on its way out, clear `running` (573), so
  that a run ends without a set being announced; and no thread may have been created
  (HLConnector.cpp:184).
* `AttemptEnds` (Mqtt; `AnsweredSpec`, `Mute` = TRUE, no messages, one fault): each
  heartbeat's CONNECT is dropped while an attempt is under way, but starts its
  time again (MQTTAsync.c:1122), so that thirty seconds never pass.
* `WholePackets` (Mqtt; `Spec`, two messages): a write that was pending when its
  socket was closed stays in the list and goes on in the next connection of that
  number (SocketBuffer.c:124, 307).
* `OwnBucket` without its condition `~moved` (Registration): an `init` that finds
  libraries after a plugin was added and initialised moves that plugin's place;
  data it bears under the old one go to another source's bucket.
* `EachConnectorOnce` (Registration): `stop` keeps the connectors and the next
  `start` adds new ones of the API and MQTT libraries, so that each message goes
  out twice.
* `StopIsUndone` on AIX and OS X (AgentLifecycle): `stopping` is never reset there
  (common/port/aix/Thread.cpp:131, osx/Thread.cpp:141), so that the first stop is the
  last and a later start creates no thread.
* `OnePublisher`, `StopIsComplete` and `PluginsAreStarted` on OS X, where no thread is
  waited for: a publish thread that is in a call, or in its own stop between
  clearing `running` and setting `stopping`, is still there when the application has
  stopped and started the agent again.
* `OnePublisher` without `~byItself`, on Linux with three starts and no workers: the
  publish thread of the first start, in its own stop, lets the application's stop
  return and the next start create its threads, then pops and cancels the second
  publish thread; the application's next stop cancels the first one in that join
  and finds an empty stack, and the third start finds the second publish thread
  still in a call.
* `TokensDiffer` (Mqtt; `MaxRequests` = 2): the id a sender has taken but not yet
  queued is handed out again once the receive thread has taken all the others
  (MQTTAsync.c:2366); with 65535 ids instead of four that takes as many requests.
* `NoPullAfterStop` and `WorkersEnd` on OS X (PullWorkers): the workers go on.
* `StopEndsTheSession` (Mqtt) speaks of a stop that found a connection: one that
  comes during an attempt returns at once, and the attempt goes on.

## 7. Assumptions of the models

* `masterID` does not wrap (32 bits; `MaxId` bounds it).
* Connectors do not throw and, in Messaging, take no locks but those named; the
  application's listener returns.
* The only receiver is `SystemReceiver`; plugins do not send under a bucket's id.
* A thread's own logging takes no lock and is no cancellation point.
* `headless.output.directory` and the like are not changed while the agent runs.
* `start` is called only when the agent does not run, and `init` before it.
* `HLConnector::start` is one step: what it does to `createdFiles` without the lock is
  not mixed with the closing of files by a timer of an earlier start.
* Only messages may be written in part (`Putdatas`): the handshake packets (CONNECT,
  SUBSCRIBE, the identity, the will, DISCONNECT) are taken to fit into the socket's
  empty buffer, or to be cut off with the connection.
* Paho has one client with a clean session, QoS 0 and 1, no SSL and no persistence,
  as MQTTConnector.cpp creates it.
* A broker keeps the order of what it gets on one connection.

## 8. Plan

Done, in the order of importance: `Bucket`, `Messaging`, `PullWorkers` and
`AgentLifecycle` with their proofs and abstract specifications, `Headless` with
its proofs, `Mqtt` and `Registration` with theirs, the ports of the thread layer in
`PullWorkers` and `AgentLifecycle`. What could come next:

1. The lock order with connectors that lock, and the changes it needs.
2. `Mqtt` with a second client thread of the application, and a stop while other
   threads send (`Posix` = FALSE).
3. `AgentLifecycle` on Windows and z/OS, where `stop` waits for the pull thread only
   and the publish and processing threads end by themselves, later.

## 9. Not modelled

Formatting, logging text and z/OS code pages; the operating system's files,
processes and libraries; the CPU, memory and environment plugins, which read
values and print them, each in its own worker; JSON statistics, which nothing
uses; `shutdown`, which only logs; deletion of agent, buckets and workers at exit.
Of the thread layer: the stop of the publish and processing threads on Windows and
z/OS, and z/OS signals and thread attributes.

`Properties` and `LogManager` are tables that are filled before the agent starts;
what is intricate in them is the handling of text, which a model could only
repeat. The configuration connector is a table under a lock of its own.

Of Paho: SSL, persistence, QoS 2, retries, subscriptions' wildcards, several
clients or servers, and the blocking client `MQTTClient.c`, which is not linked
into the connector; they are a third of the repository's lines.

## 10. Running

    tlc -workers 2 -config MCBucket_plain.cfg MCBucket
    tlapm BucketProofs.tla

Headless_runs, AgentLifecycle_stop and Mqtt_session take two to three minutes each,
PullWorkers_stop a minute and a half, Messaging_requests half a minute, the others
seconds; the runs of section 5 end in the counterexample described.
