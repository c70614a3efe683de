---------------------------- MODULE AgentLifecycle ----------------------------
(***************************************************************************)
(* Starting and stopping the agent: Agent::start and Agent::stop,          *)
(* ConnectorManager::start and stop, and the thread layer under them       *)
(* (createThread and stopAllThreads in common/port/.../Thread.cpp).        *)
(*                                                                         *)
(* The application starts and stops the agent in turns.  start creates the *)
(* processing thread, the headless connector's timer, the pull thread and  *)
(* the publish thread; the pull thread creates the workers.  Once the      *)
(* headless runs are over the publish thread itself calls stop, as a       *)
(* second stopper.                                                         *)
(*                                                                         *)
(* How stop ends the threads depends on the port of the thread layer.  On  *)
(* Linux and AIX each thread is pushed on threadMap, and stopAllThreads    *)
(* cancels and joins them until the stack is empty; AIX keeps a thread on  *)
(* the stack until it is joined, and never resets the stopping flag.  On   *)
(* OS X that loop is commented out.  Windows and z/OS, where stop waits    *)
(* for the pull thread to count itself out, are not modelled here.         *)
(*                                                                         *)
(* A thread acts on its cancellation where it sleeps, waits or joins, and  *)
(* not while it is busy, unless what it calls then is Interruptible.       *)
(***************************************************************************)
EXTENDS Integers, Sequences

CONSTANTS
    Platforms,      \* the ports: among "linux", "aix" and "osx"
    Workers,        \* the pull sources, one worker thread each
    Headless,       \* "off", "on", or "timed" if the number of runs is set
    Failures,       \* roles whose thread the system may refuse to create
    Interruptible,  \* roles whose calls contain cancellation points
    MaxStarts,      \* bound: how often the application starts the agent,
    StartsOn        \* on each port

Roles == {"processing", "timer", "pull", "publish"}

ASSUME LifecycleAssumption ==
    /\ Platforms \subseteq {"linux", "aix", "osx"}
    /\ Workers \cap Roles = {}
    /\ "app" \notin Workers
    /\ Headless \in {"off", "on", "timed"}
    /\ Failures \subseteq Roles \cup Workers
    /\ MaxStarts \in Nat
    /\ StartsOn \in [Platforms -> 0..MaxStarts]

(* A thread is its role and the start it belongs to. *)
Threads == (Roles \cup Workers) \X (1..MaxStarts)
WorkerThreads == Workers \X (1..MaxStarts)

App == <<"app", 0>>
Publishers == {"publish"} \X (1..MaxStarts)
Stoppers == {App} \cup Publishers

VARIABLES
    platform,     \* the port this agent is built for
    running,      \* the agent's running flag
    stopping,     \* the thread layer's stopping flag
    threadMap,    \* the stack of the threads to join
    at,           \* where each thread is
    cancelled,    \* threads with a cancellation pending
    app,          \* where the application is in start or stop
    starts,       \* how often it called start
    stage,        \* where each stopper is in stop
    joinee,       \* the thread it cancels and joins
    cmRunning,    \* ConnectorManager.running
    headlessRunning,
    pluginsRunning,
    lost,         \* locks that were held by a thread that is gone
    aborted,      \* the process was aborted
    byItself      \* history: the publish thread has called stop

threads == <<threadMap, at, cancelled>>
stops == <<stage, joinee>>
parts == <<cmRunning, headlessRunning, pluginsRunning>>
fate == <<lost, aborted, byItself>>
vars == <<platform, running, stopping, threads, app, starts, stops, parts, fate>>

NoThread == <<"none", 0>>

(* The ports whose stopAllThreads cancels and joins. *)
Joining == platform \in {"linux", "aix"}

Init ==
    /\ platform \in Platforms
    /\ running = FALSE
    /\ stopping = FALSE
    /\ threadMap = <<>>
    /\ at = [t \in Threads |-> "unborn"]
    /\ cancelled = {}
    /\ app = "out"
    /\ starts = 0
    /\ stage = [x \in Stoppers |-> "none"]
    /\ joinee = [x \in Stoppers |-> NoThread]
    /\ cmRunning = FALSE
    /\ headlessRunning = FALSE
    /\ pluginsRunning = FALSE
    /\ lost = {}
    /\ aborted = FALSE
    /\ byItself = FALSE

Alive == {t \in Threads : at[t] \notin {"unborn", "dead"}}

Goto(t, place) == at' = [at EXCEPT ![t] = place]

(* A cancellation that is pending is forgotten when its thread ends. *)
Forget == cancelled' = {t \in cancelled : at'[t] # "dead"}

(***************************************************************************)
(* createThread                                                            *)
(***************************************************************************)

(* Mutant: createThread does not keep the thread.                          *)
Created_NotKept(t, place) ==
    /\ ~stopping
    /\ Goto(t, place)
    /\ UNCHANGED threadMap

(* The thread is created and, where there is one, pushed on the stack;     *)
(* that of OS X is never read.                                             *)
Created(t, place) ==
    /\ ~stopping
    /\ threadMap' = IF Joining THEN Append(threadMap, t) ELSE threadMap
    /\ Goto(t, place)

(* It is not: the system refuses, or threads are being stopped. *)
Refused(t) ==
    /\ stopping \/ t[1] \in Failures
    /\ Goto(t, "dead")
    /\ UNCHANGED threadMap

(***************************************************************************)
(* Agent::start, called by the application                                 *)
(***************************************************************************)

Own(role) == <<role, starts>>

(* ConnectorManager::start does nothing if it was not stopped before. *)
Start ==
    /\ app = "out"
    /\ starts < StartsOn[platform]
    /\ starts' = starts + 1
    /\ cmRunning' = TRUE
    /\ app' = IF cmRunning THEN "plugins" ELSE "processing"
    /\ UNCHANGED <<running, stopping, threads, stops, headlessRunning,
                   pluginsRunning, fate>>

(* The result of createThread is not looked at, here and for the timer. *)
StartProcessing ==
    /\ app = "processing"
    /\ app' = IF Headless = "off" THEN "plugins" ELSE "timer"
    /\ Created(Own("processing"), "busy") \/ Refused(Own("processing"))
    /\ UNCHANGED <<running, stopping, cancelled, starts, stops, parts,
                   fate>>

(* HLConnector::start, which creates no timer either if its files could    *)
(* not be created.  With no durations set, the timer returns at once.      *)
StartTimer ==
    /\ app = "timer"
    /\ app' = "plugins"
    /\ headlessRunning' = TRUE
    /\ Created(Own("timer"), "idle") \/ Refused(Own("timer"))
    /\ UNCHANGED <<running, stopping, cancelled, starts, stops, cmRunning,
                   pluginsRunning, fate>>

StartPlugins ==
    /\ app = "plugins"
    /\ app' = "pull"
    /\ pluginsRunning' = TRUE
    /\ running' = TRUE
    /\ UNCHANGED <<stopping, threads, starts, stops, cmRunning, headlessRunning,
                   fate>>

(* If the thread is not created, running is reset and start returns. *)
StartLoop(role, place, next) ==
    /\ app = role
    /\ \/ Created(Own(role), place) /\ app' = next /\ UNCHANGED running
       \/ Refused(Own(role)) /\ app' = "in" /\ running' = FALSE
    /\ UNCHANGED <<stopping, cancelled, starts, stops, parts, fate>>

StartPull == StartLoop("pull", "spawning", "publish")
StartPublish == StartLoop("publish", "idle", "in")

(***************************************************************************)
(* The threads                                                             *)
(***************************************************************************)

(* ThreadPool::startAll in the pull thread. *)
SpawnWorker(t, w) ==
    /\ at[t] = "spawning"
    /\ at[<<w, t[2]>>] = "unborn"
    /\ Created(<<w, t[2]>>, "idle") \/ Refused(<<w, t[2]>>)
    /\ UNCHANGED <<running, stopping, cancelled, app, starts, stops, parts,
                   fate>>

(* Mutant: the loops of a failed start go on. *)
GoesOn_Always(t) == TRUE

(* The condition of each thread's loop, read when it has had its turn.     *)
GoesOn(t) ==
    CASE t[1] \in {"pull", "publish"} -> running
      [] t[1] = "processing" -> cmRunning
      [] OTHER -> TRUE

SpawningDone(t) ==
    /\ at[t] = "spawning"
    /\ \A w \in Workers : at[<<w, t[2]>>] # "unborn"
    /\ Goto(t, IF GoesOn(t) THEN "idle" ELSE "dead")
    /\ Forget
    /\ UNCHANGED <<running, stopping, threadMap, app, starts, stops,
                   parts, fate>>

(* The sleep or wait of a thread that was not cancelled is over. *)
Wake(t) ==
    /\ at[t] = "idle"
    /\ t \notin cancelled
    /\ t[1] # "timer" \/ Headless = "timed"
    /\ Goto(t, "busy")
    /\ UNCHANGED <<running, stopping, threadMap, cancelled, app, starts, stops,
                   parts, fate>>

(* The publish thread finds that the headless runs are over. *)
RunsOver(t) == t[1] = "publish" /\ Headless # "off" /\ ~headlessRunning

(* A thread waits for a lock that will not be given back: the processing   *)
(* thread at each turn,                                                    *)
Stuck(t) == t[1] = "processing" /\ "receive" \in lost

(* the publish thread and the timer in the headless connector, if they     *)
(* come to use its lock or announce something.                             *)
MayHang(t) ==
    /\ t[1] \in {"publish", "timer"} /\ at[t] = "busy"
    /\ Headless # "off"
    /\ lost # {}

(* It has had its turn and goes round its loop. *)
Rest(t) ==
    /\ at[t] = "busy"
    /\ ~Stuck(t)
    /\ ~RunsOver(t)
    /\ Goto(t, IF GoesOn(t) THEN "idle" ELSE "dead")
    /\ Forget
    /\ UNCHANGED <<running, stopping, threadMap, app, starts, stops,
                   parts, fate>>

(* The timer ends after its runs, or at once if it has none. *)
EndTimer(t) ==
    /\ t[1] = "timer"
    /\ IF Headless = "timed" THEN at[t] = "busy" ELSE at[t] = "idle"
    /\ Goto(t, "dead")
    /\ headlessRunning' = (headlessRunning /\ Headless # "timed")
    /\ Forget
    /\ UNCHANGED <<running, stopping, threadMap, app, starts, stops,
                   cmRunning, pluginsRunning, fate>>

(* Mutant: a wait is no place where a cancellation is acted on. *)
Die_NotInWait(t) ==
    /\ t \in cancelled
    /\ t \in Publishers /\ stage[t] = "joining"
    /\ Goto(t, "dead")
    /\ cancelled' = cancelled \ {t}
    /\ stage' = [x \in Stoppers |-> IF x = t THEN "none" ELSE stage[x]]
    /\ joinee' = [x \in Stoppers |-> IF x = t THEN NoThread ELSE joinee[x]]
    /\ UNCHANGED <<running, stopping, threadMap, app, starts, parts, fate>>

(* A cancelled thread ends where it sleeps, waits or joins. *)
Die(t) ==
    /\ t \in cancelled
    /\ at[t] = "idle" \/ (t \in Publishers /\ stage[t] = "joining")
    /\ Goto(t, "dead")
    /\ cancelled' = cancelled \ {t}
    /\ stage' = [x \in Stoppers |-> IF x = t THEN "none" ELSE stage[x]]
    /\ joinee' = [x \in Stoppers |-> IF x = t THEN NoThread ELSE joinee[x]]
    /\ UNCHANGED <<running, stopping, threadMap, app, starts, parts, fate>>

(* It is cancelled inside what it calls.  ConnectorManager::sendMessage    *)
(* catches the unwinding of the publish or the processing thread and does  *)
(* not pass it on, for which the C library aborts the process.  In other   *)
(* calls the processing thread leaves receiveLock behind; the timer leaves *)
(* the headless connector's lock, if it has it.                            *)
Interrupted(t) ==
    /\ t \in cancelled
    /\ at[t] = "busy"
    /\ ~Stuck(t)
    /\ IF t \in WorkerThreads THEN "worker" \in Interruptible
                              ELSE t[1] \in Interruptible
    /\ Goto(t, "dead")
    /\ \/ t[1] \in {"publish", "processing"} /\ aborted' = TRUE /\ UNCHANGED lost
       \/ /\ t[1] # "publish"
          /\ aborted' = FALSE
          /\ lost' = lost \cup (IF t[1] = "processing" THEN {"receive"} ELSE {})
       \/ t[1] = "timer" /\ aborted' = FALSE /\ lost' = lost \cup {"files"}
    /\ cancelled' = cancelled \ {t}
    /\ UNCHANGED <<running, stopping, threadMap, app, starts, stops, parts,
                   byItself>>

(***************************************************************************)
(* Agent::stop, called by the application or by the publish thread         *)
(***************************************************************************)

(* The application calls stop, which does nothing if running is not set. *)
AppStops ==
    /\ app = "in"
    /\ IF running
       THEN app' = "stopping" /\ stage' = [stage EXCEPT ![App] = "entered"]
       ELSE app' = "out" /\ UNCHANGED stage
    /\ UNCHANGED <<running, stopping, threads, starts, joinee, parts,
                   fate>>

PublishStops(t) ==
    /\ at[t] = "busy"
    /\ RunsOver(t)
    /\ byItself' = TRUE
    /\ IF running
       THEN Goto(t, "stopping") /\ stage' = [stage EXCEPT ![t] = "entered"]
       ELSE Goto(t, "dead") /\ UNCHANGED stage
    /\ Forget
    /\ UNCHANGED <<running, stopping, threadMap, app, starts, joinee,
                   parts, lost, aborted>>

(* running is cleared, without a lock. *)
BeginStop(x) ==
    /\ stage[x] = "entered"
    /\ running' = FALSE
    /\ stage' = [stage EXCEPT ![x] = "cleared"]
    /\ UNCHANGED <<stopping, threads, app, starts, joinee, parts, fate>>

(* stopAllThreads begins, and on OS X ends, with setting the flag.         *)
BeginStopAll(x) ==
    /\ stage[x] = "cleared"
    /\ stopping' = TRUE
    /\ stage' = [stage EXCEPT ![x] = IF Joining THEN "popping" ELSE "joined"]
    /\ UNCHANGED <<running, threads, app, starts, joinee, parts, fate>>

Top == threadMap[Len(threadMap)]
Below == SubSeq(threadMap, 1, Len(threadMap) - 1)

(* The thread on top of the stack is cancelled, to be joined. *)
Pop(x) ==
    /\ stage[x] = "popping"
    /\ threadMap # <<>>
    /\ threadMap' = IF platform = "linux" THEN Below ELSE threadMap
    /\ cancelled' = cancelled \cup ({Top} \cap Alive)
    /\ joinee' = [joinee EXCEPT ![x] = Top]
    /\ stage' = [stage EXCEPT ![x] = "joining"]
    /\ UNCHANGED <<running, stopping, at, app, starts, parts, fate>>

(* Mutant: the thread is cancelled but not waited for. *)
Join_NoWait(x) ==
    /\ stage[x] = "joining"
    /\ threadMap' = IF platform = "aix" /\ threadMap # <<>> THEN Below ELSE threadMap
    /\ aborted' = (platform = "aix" /\ threadMap = <<>>)
    /\ stage' = [stage EXCEPT ![x] = "popping"]
    /\ joinee' = [joinee EXCEPT ![x] = NoThread]
    /\ UNCHANGED <<running, stopping, at, cancelled, app, starts, parts, lost,
                   byItself>>

(* AIX may tell a thread that joins itself so, where Linux lets it end.    *)
(* AIX pops what is on top by now; an empty stack, which another stopper   *)
(* has left, is taken to end the process.                                  *)
Join(x) ==
    /\ stage[x] = "joining"
    /\ at[joinee[x]] = "dead" \/ (platform = "aix" /\ joinee[x] = x)
    /\ threadMap' = IF platform = "aix" /\ threadMap # <<>> THEN Below ELSE threadMap
    /\ aborted' = (platform = "aix" /\ threadMap = <<>>)
    /\ stage' = [stage EXCEPT ![x] = "popping"]
    /\ joinee' = [joinee EXCEPT ![x] = NoThread]
    /\ UNCHANGED <<running, stopping, at, cancelled, app, starts, parts, lost,
                   byItself>>

(* Mutant: the stopping flag is left set. *)
AllJoined_StillStopping(x) ==
    /\ stage[x] = "popping"
    /\ threadMap = <<>>
    /\ stage' = [stage EXCEPT ![x] = "joined"]
    /\ UNCHANGED <<running, stopping, threads, app, starts, joinee, parts,
                   fate>>

(* The stack is empty: stopAllThreads returns.  AIX leaves the flag set.   *)
AllJoined(x) ==
    /\ stage[x] = "popping"
    /\ threadMap = <<>>
    /\ stopping' = (stopping /\ platform = "aix")
    /\ stage' = [stage EXCEPT ![x] = "joined"]
    /\ UNCHANGED <<running, threads, app, starts, joinee, parts, fate>>

StopPlugins(x) ==
    /\ stage[x] = "joined"
    /\ pluginsRunning' = FALSE
    /\ stage' = [stage EXCEPT ![x] = "connectors"]
    /\ UNCHANGED <<running, stopping, threads, app, starts, joinee, cmRunning,
                   headlessRunning, fate>>

(* ConnectorManager::stop, in which the headless connector takes its lock  *)
(* and may announce its files, for which it needs receiveLock; stop        *)
(* returns to the application or to the publish thread's loop.             *)
StopConnectors(x) ==
    /\ stage[x] = "connectors"
    /\ Headless = "off" \/ "files" \notin lost
    /\ cmRunning' = FALSE
    /\ stage' = [stage EXCEPT ![x] = "none"]
    /\ IF x = App
       THEN app' = "out" /\ UNCHANGED at
       ELSE Goto(x, IF running THEN "idle" ELSE "dead") /\ UNCHANGED app
    /\ Forget
    /\ UNCHANGED <<running, stopping, threadMap, starts, joinee,
                   headlessRunning, pluginsRunning, fate>>

-----------------------------------------------------------------------------
(* HLConnector::stop would wait for ever. *)
StopMayHang(x) == stage[x] = "connectors" /\ Headless # "off" /\ lost # {}

Starting ==
    \/ StartProcessing \/ StartTimer \/ StartPlugins \/ StartPull
    \/ StartPublish

Stop(x) ==
    /\ stage[x] # "none"
    /\ \/ BeginStop(x) \/ BeginStopAll(x) \/ Pop(x) \/ Join(x) \/ AllJoined(x)
       \/ StopPlugins(x) \/ StopConnectors(x)

Turn(t) ==
    /\ at[t] \notin {"unborn", "dead"}
    /\ \/ \E w \in Workers : SpawnWorker(t, w)
       \/ SpawningDone(t) \/ Wake(t) \/ Rest(t) \/ EndTimer(t)
       \/ Die(t) \/ Interrupted(t) \/ PublishStops(t)

Next ==
    /\ ~aborted
    /\ UNCHANGED platform
    /\ \/ Start \/ Starting \/ AppStops
       \/ \E t \in Threads : Turn(t)
       \/ \E x \in Stoppers : Stop(x)

Spec == Init /\ [][Next]_vars

(* Threads are scheduled and what they call returns, unless it waits for a *)
(* lock that is lost; start and stop go on.                                *)
(* Only the application decides whether it calls them.                     *)
(* (Each of these steps changes the variable that the fairness is about.)  *)
Fairness ==
    /\ WF_app(~aborted /\ Starting)
    /\ \A t \in Threads : WF_at(~aborted /\ ~MayHang(t) /\ Turn(t))
    /\ \A x \in Stoppers : WF_stage(~aborted /\ ~StopMayHang(x) /\ Stop(x))

FairSpec == Spec /\ Fairness
-----------------------------------------------------------------------------
(* Every variable stays in its type. *)
TypeOK ==
    /\ platform \in Platforms
    /\ running \in BOOLEAN
    /\ stopping \in BOOLEAN
    /\ threadMap \in Seq(Threads)
    /\ at \in [Threads -> {"unborn", "idle", "busy", "spawning", "stopping",
                          "dead"}]
    /\ cancelled \subseteq Threads
    /\ app \in {"out", "processing", "timer", "plugins", "pull", "publish", "in",
                "stopping"}
    /\ starts \in 0..MaxStarts
    /\ stage \in [Stoppers -> {"none", "entered", "cleared", "popping", "joining", "joined",
                               "connectors"}]
    /\ joinee \in [Stoppers -> Threads \cup {NoThread}]
    /\ cmRunning \in BOOLEAN
    /\ headlessRunning \in BOOLEAN
    /\ pluginsRunning \in BOOLEAN
    /\ lost \subseteq {"receive", "files"}
    /\ aborted \in BOOLEAN
    /\ byItself \in BOOLEAN

(* "All active threads now quit" (Agent.cpp:669): when the application's   *)
(* stop goes on to stop the plugins and the connectors, no thread of the   *)
(* agent is left that could call them, created late or not waited for -    *)
(* unless the publish thread has called stop too.  It is so where threads  *)
(* are joined.                                                             *)
StopIsComplete ==
    Joining /\ ~byItself /\ stage[App] \in {"joined", "connectors"} => Alive = {}

(* A plugin is not called by the agent's threads before its start or after *)
(* its stop ("stop function to end data production", Plugin.h:60).         *)
PluginsAreStarted ==
    Joining /\ ~byItself /\ ~pluginsRunning
        => Alive \subseteq {"processing", "timer"} \X (1..MaxStarts)

(* There is at most one publish thread that could walk the buckets, over   *)
(* any starts, stops and failures - unless the agent has stopped itself,   *)
(* and but on OS X, where the application's stop waits for no thread.      *)
OnePublisher ==
    Joining /\ ~byItself => \A s, t \in Publishers \cap Alive : s = t

(* When start() creates its threads and no stop is under way, the thread   *)
(* layer does not refuse them because of an earlier stop.  (The headless   *)
(* connector expects "late attach causing multiple runs", HLConnector.cpp  *)
(* line 111.)                                                              *)
CanBeRestarted ==
    /\ app \in {"processing", "timer", "pull", "publish"}
    /\ \A x \in Stoppers : stage[x] = "none"
    => ~stopping

(* It is so as long as only the application has stopped the agent, but on  *)
(* AIX and OS X, where the first stop is the last.                         *)
StopIsUndone == platform = "linux" /\ ~byItself => CanBeRestarted

(* stop() does not go on for ever: it returns to the application, unless   *)
(* the process is aborted, or a thread was cancelled inside a call with a  *)
(* lock that HLConnector::stop needs: the timer in lockCloseFilesAndNotify *)
(* (HLConnector.cpp:511-521), the processing thread anywhere but in        *)
(* sendMessage.                                                            *)
StopReturns == []<>(app # "stopping" \/ aborted \/ lost # {})

(* Agent.cpp:549: if the creation of a thread fails, running is reset and  *)
(* the started loops exit (or serve the next start): while the agent does  *)
(* not run and is neither started nor stopped, they do not go on for ever  *)
(* (unless they wait for a lock that was lost in an earlier stop).         *)
FailedStartEnds ==
    []<>(app \in {"in", "out"} /\ ~running /\ ~aborted /\ lost = {}
            => Alive \cap ({"pull", "publish"} \X (1..MaxStarts)) = {})
=============================================================================
