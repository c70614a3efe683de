------------------------- MODULE AgentLifecycleProofs -------------------------
(***************************************************************************)
(* Proofs about AgentLifecycle: as long as only the application stops the  *)
(* agent, on Linux and AIX a stop leaves no thread behind and there is one *)
(* publish thread at most, and on Linux the next start is not refused -    *)
(* for any pull sources, any threads that could not be created and         *)
(* cancellations anywhere.                                                 *)
(***************************************************************************)
EXTENDS AgentLifecycle, TLAPS

Places == {"unborn", "idle", "busy", "spawning", "stopping", "dead"}
Moments == {"out", "processing", "timer", "plugins", "pull", "publish", "in",
            "stopping"}

(* start has been called when the application is anywhere in it. *)
Typed == TypeOK /\ (app # "out" => starts \in 1..MaxStarts)

(* A thread is on the stack or is being joined by the application. *)
Kept(t) ==
    \/ \E i \in 1..Len(threadMap) : threadMap[i] = t
    \/ stage[App] = "joining" /\ joinee[App] = t

(* No living thread escapes. *)
NoneEscapes == \A t \in Alive : Kept(t)

(* On AIX, where the thread that is joined is popped only afterwards, it is *)
(* still on top of the stack then: none is pushed while threads are being   *)
(* stopped.                                                                 *)
TopIsJoined ==
    platform = "aix" /\ stage[App] = "joining"
        => threadMap # <<>> /\ joinee[App] = Top

(* Where the application is, and what the flags say of it. *)
FlagsMatch ==
    /\ \A p \in Publishers : stage[p] = "none"
    /\ stopping => platform = "aix" \/ stage[App] \in {"popping", "joining"}
    /\ stage[App] \in {"popping", "joining"} => stopping
    /\ stage[App] # "none" => app = "stopping"
    /\ app \in {"pull", "publish"} => pluginsRunning
    /\ \A t \in Threads : at[t] = "spawning" => t[1] = "pull"

(* The invariant while only the application has stopped the agent, where   *)
(* threads are joined.                                                     *)
Inner ==
    /\ Joining
    /\ NoneEscapes
    /\ TopIsJoined
    /\ FlagsMatch
    /\ StopIsComplete
    /\ PluginsAreStarted

IInv == Typed /\ (~byItself /\ Joining => Inner)

-----------------------------------------------------------------------------
(* The application is one of the stoppers and not a thread of the agent.   *)
LEMMA AppIsStopper == App \in Stoppers /\ App \notin Publishers
BY DEF App, Publishers, Stoppers

LEMMA AppIsNoThread == App \notin Threads
BY LifecycleAssumption DEF App, Threads, Roles

LEMMA PublishersAreThreads == Publishers \subseteq Threads \cap Stoppers
BY DEF Publishers, Threads, Roles, Stoppers

(* The threads that start creates. *)
LEMMA OwnThreads ==
    ASSUME Typed, app # "out", NEW role \in Roles
    PROVE  Own(role) \in Threads
BY DEF Own, Threads, Typed

(* The threads that the pull thread creates. *)
LEMMA WorkersAreThreads ==
    ASSUME NEW t \in Threads, NEW w \in Workers
    PROVE  <<w, t[2]>> \in Threads
BY DEF Threads

(* What is left of the stack under its top. *)
LEMMA BelowTheTop ==
    ASSUME Typed, threadMap # <<>>
    PROVE  /\ Below \in Seq(Threads)
           /\ Len(threadMap) \in Nat \ {0}
           /\ Len(Below) = Len(threadMap) - 1
           /\ \A i \in 1..(Len(threadMap) - 1) : Below[i] = threadMap[i]
<1>1. threadMap \in Seq(Threads) /\ Len(threadMap) \in Nat /\ Len(threadMap) > 0
  BY DEF Typed, TypeOK
<1> DEFINE last == Len(threadMap) - 1
<1>2. last \in 0..Len(threadMap)
  BY <1>1
<1> HIDE DEF last
<1>3. /\ SubSeq(threadMap, 1, last) \in Seq(Threads)
      /\ Len(SubSeq(threadMap, 1, last)) = last
      /\ \A i \in 1..last : SubSeq(threadMap, 1, last)[i] = threadMap[i]
  BY <1>1, <1>2
<1> QED
  BY <1>1, <1>3 DEF Below, last

-----------------------------------------------------------------------------
(* createThread keeps the types. *)
LEMMA CreatedTyped ==
    ASSUME Typed, NEW t \in Threads, NEW place \in Places, Created(t, place)
    PROVE  /\ threadMap' \in Seq(Threads)
           /\ at' \in [Threads -> Places]
BY DEF Typed, TypeOK, Created, Goto, Places

LEMMA RefusedTyped ==
    ASSUME Typed, NEW t \in Threads, Refused(t)
    PROVE  /\ threadMap' \in Seq(Threads)
           /\ at' \in [Threads -> Places]
BY DEF Typed, TypeOK, Refused, Goto, Places

THEOREM TypeStep == Typed /\ [Next]_vars => Typed'
<1> SUFFICES ASSUME Typed, [Next]_vars PROVE Typed'
  OBVIOUS
<1>0. platform' = platform
  BY DEF Next, vars
<1> USE LifecycleAssumption, <1>0
<1>1. CASE Start
  <2>1. starts' \in 1..MaxStarts
    <3>1. StartsOn[platform] \in 0..MaxStarts /\ MaxStarts \in Nat
      BY DEF Typed, TypeOK
    <3> QED
      BY <1>1, <3>1 DEF Start, Typed, TypeOK
  <2> QED
    BY <1>1, <2>1 DEF Start, Typed, TypeOK, threads, stops, fate
<1>2. CASE StartProcessing
  <2>1. Own("processing") \in Threads
    BY <1>2, OwnThreads DEF StartProcessing, Roles
  <2>2. threadMap' \in Seq(Threads) /\ at' \in [Threads -> Places]
    BY <1>2, <2>1, CreatedTyped, RefusedTyped DEF StartProcessing, Places
  <2> QED
    BY <1>2, <2>2 DEF StartProcessing, Typed, TypeOK, stops, parts, fate, Places
<1>3. CASE StartTimer
  <2>1. Own("timer") \in Threads
    BY <1>3, OwnThreads DEF StartTimer, Roles
  <2>2. threadMap' \in Seq(Threads) /\ at' \in [Threads -> Places]
    BY <1>3, <2>1, CreatedTyped, RefusedTyped DEF StartTimer, Places
  <2> QED
    BY <1>3, <2>2 DEF StartTimer, Typed, TypeOK, stops, fate, Places
<1>4. CASE StartPlugins
  BY <1>4 DEF StartPlugins, Typed, TypeOK, threads, stops, fate
<1>5. CASE StartPull
  <2>1. Own("pull") \in Threads
    BY <1>5, OwnThreads DEF StartPull, StartLoop, Roles
  <2>2. threadMap' \in Seq(Threads) /\ at' \in [Threads -> Places]
    BY <1>5, <2>1, CreatedTyped, RefusedTyped DEF StartPull, StartLoop, Places
  <2> QED
    BY <1>5, <2>2 DEF StartPull, StartLoop, Typed, TypeOK, stops, parts, fate, Places
<1>6. CASE StartPublish
  <2>1. Own("publish") \in Threads
    BY <1>6, OwnThreads DEF StartPublish, StartLoop, Roles
  <2>2. threadMap' \in Seq(Threads) /\ at' \in [Threads -> Places]
    BY <1>6, <2>1, CreatedTyped, RefusedTyped DEF StartPublish, StartLoop, Places
  <2> QED
    BY <1>6, <2>2 DEF StartPublish, StartLoop, Typed, TypeOK, stops, parts, fate, Places
<1>7. CASE AppStops
  BY <1>7 DEF AppStops, Typed, TypeOK, threads, parts, fate
<1>8. ASSUME NEW t \in Threads, Turn(t) PROVE Typed'
  <2>1. ASSUME NEW w \in Workers, SpawnWorker(t, w) PROVE Typed'
    <3>1. <<w, t[2]>> \in Threads
      BY <2>1, WorkersAreThreads
    <3>2. threadMap' \in Seq(Threads) /\ at' \in [Threads -> Places]
      BY <2>1, <3>1, CreatedTyped, RefusedTyped DEF SpawnWorker, Places
    <3> QED
      BY <2>1, <3>2 DEF SpawnWorker, Typed, TypeOK, stops, parts, fate, Places
  <2>2. CASE SpawningDone(t)
    BY <2>2 DEF SpawningDone, Goto, Forget, Typed, TypeOK, stops, parts, fate
  <2>3. CASE Wake(t)
    BY <2>3 DEF Wake, Goto, Typed, TypeOK, stops, parts, fate
  <2>4. CASE Rest(t)
    BY <2>4 DEF Rest, Goto, Forget, Typed, TypeOK, stops, parts, fate
  <2>5. CASE EndTimer(t)
    BY <2>5 DEF EndTimer, Goto, Forget, Typed, TypeOK, stops, fate
  <2>6. CASE Die(t)
    BY <2>6 DEF Die, Goto, Typed, TypeOK, parts, fate
  <2>7. CASE Interrupted(t)
    BY <2>7 DEF Interrupted, Goto, Typed, TypeOK, stops, parts
  <2>8. CASE PublishStops(t)
    BY <2>8 DEF PublishStops, Goto, Forget, Typed, TypeOK, parts
  <2> QED
    BY <1>8, <2>1, <2>2, <2>3, <2>4, <2>5, <2>6, <2>7, <2>8 DEF Turn
<1>9. ASSUME NEW x \in Stoppers, Stop(x) PROVE Typed'
  <2>1. CASE BeginStop(x)
    BY <2>1 DEF BeginStop, Typed, TypeOK, threads, parts, fate
  <2>2. CASE Pop(x)
    <3>1. Top \in Threads
      BY <2>2 DEF Pop, Top, Typed, TypeOK
    <3>2. threadMap' \in Seq(Threads)
      BY <2>2, BelowTheTop DEF Pop, Typed, TypeOK
    <3> QED
      BY <2>2, <3>1, <3>2 DEF Pop, Typed, TypeOK, parts, fate
  <2>3. CASE Join(x)
    <3>1. threadMap' \in Seq(Threads)
      BY <2>3, BelowTheTop DEF Join, Typed, TypeOK
    <3>2. aborted' \in BOOLEAN
      BY <2>3 DEF Join
    <3> QED
      BY <2>3, <3>1, <3>2 DEF Join, Typed, TypeOK, parts
  <2>4. CASE AllJoined(x)
    BY <2>4 DEF AllJoined, Typed, TypeOK, threads, parts, fate
  <2>5. CASE StopPlugins(x)
    BY <2>5 DEF StopPlugins, Typed, TypeOK, threads, fate
  <2>6. CASE StopConnectors(x)
    BY <2>6 DEF StopConnectors, Goto, Forget, Typed, TypeOK, fate
  <2>7. CASE BeginStopAll(x)
    BY <2>7 DEF BeginStopAll, Typed, TypeOK, threads, parts, fate
  <2> QED
    BY <1>9, <2>1, <2>2, <2>3, <2>4, <2>5, <2>6, <2>7 DEF Stop
<1>10. CASE UNCHANGED vars
  BY <1>10 DEF vars, threads, stops, parts, fate, Typed, TypeOK
<1> QED
  BY <1>1, <1>2, <1>3, <1>4, <1>5, <1>6, <1>7, <1>8, <1>9, <1>10
  DEF Next, Starting

THEOREM TypedInit == Init => Typed
<1> SUFFICES ASSUME Init PROVE Typed
  OBVIOUS
<1>1. starts \in 0..MaxStarts
  BY LifecycleAssumption DEF Init
<1>2. threadMap \in Seq(Threads)
  BY DEF Init
<1> QED
  BY <1>1, <1>2 DEF Init, Typed, TypeOK

(* TypeOK: the type invariant of start, stop and the threads.              *)
THEOREM TypeCorrect == Spec => []TypeOK
<1>1. Init => Typed
  BY TypedInit
<1>2. Typed /\ [Next]_vars => Typed'
  BY TypeStep
<1>3. Typed => TypeOK
  BY DEF Typed
<1> QED
  BY <1>1, <1>2, <1>3, PTL DEF Spec

-----------------------------------------------------------------------------
(* What happens to the set of living threads. *)
LEMMA Dies ==
    ASSUME Typed, NEW t \in Threads, Goto(t, "dead")
    PROVE  Alive' \subseteq Alive
BY DEF Alive, Goto, Typed, TypeOK

LEMMA GoesOnLiving ==
    ASSUME Typed, NEW t \in Alive, NEW place, Goto(t, place)
    PROVE  Alive' \subseteq Alive
BY DEF Alive, Goto, Typed, TypeOK

LEMMA Comes ==
    ASSUME Typed, NEW t \in Threads, NEW place, Goto(t, place)
    PROVE  Alive' \subseteq Alive \cup {t}
BY DEF Alive, Goto, Typed, TypeOK

(* No step but those of SpawnWorker and StartPull leads to spawning. *)
LEMMA SpawningStays ==
    ASSUME Typed, Inner, NEW t \in Threads, NEW place, Goto(t, place),
           place = "spawning" => t[1] = "pull"
    PROVE  \A s \in Threads : at'[s] = "spawning" => s[1] = "pull"
BY DEF Goto, Typed, TypeOK, Inner, FlagsMatch

(* A step that creates and stops nothing keeps the invariant. *)
LEMMA QuietStep ==
    ASSUME Typed, Inner,
           Alive' \subseteq Alive,
           \A s \in Threads : at'[s] = "spawning" => s[1] = "pull",
           UNCHANGED <<platform, threadMap, app, stopping, pluginsRunning, stage,
                       byItself>>,
           joinee'[App] = joinee[App]
    PROVE  Inner'
<1>0. Joining' /\ TopIsJoined'
  BY DEF Inner, Joining, TopIsJoined, Top
<1>1. NoneEscapes'
  BY DEF Inner, NoneEscapes, Kept
<1>2. FlagsMatch'
  BY DEF Inner, FlagsMatch
<1>3. StopIsComplete'
  BY DEF Inner, StopIsComplete
<1>4. PluginsAreStarted'
  BY DEF Inner, PluginsAreStarted
<1> QED
  BY <1>0, <1>1, <1>2, <1>3, <1>4 DEF Inner

(* What was kept is kept when a thread is pushed on the stack. *)
LEMMA KeptByPush ==
    ASSUME Typed, Joining, NEW t \in Threads, NEW place, Created(t, place),
           UNCHANGED <<stage, joinee>>
    PROVE  /\ Kept(t)'
           /\ \A s \in Threads : Kept(s) => Kept(s)'
<1>1. threadMap' = Append(threadMap, t) /\ threadMap \in Seq(Threads)
  BY DEF Created, Typed, TypeOK
<1>2. /\ Len(threadMap') = Len(threadMap) + 1
      /\ \A i \in 1..Len(threadMap) : threadMap'[i] = threadMap[i]
      /\ threadMap'[Len(threadMap) + 1] = t
      /\ Len(threadMap) \in Nat
  BY <1>1
<1> QED
  BY <1>2 DEF Kept

(* A step that only creates a thread, or fails to, keeps the invariant. *)
LEMMA CreateStep ==
    ASSUME Typed, Inner, NEW t \in Threads, NEW place \in Places,
           Created(t, place) \/ Refused(t),
           place = "spawning" => t[1] = "pull",
           stage[App] \notin {"joined", "connectors"},
           t \in {"processing", "timer"} \X (1..MaxStarts) \/ pluginsRunning,
           app' \in {"pull", "publish"} => pluginsRunning,
           stage[App] # "none" => app' = "stopping",
           UNCHANGED <<platform, stopping, pluginsRunning, stage, joinee, byItself>>
    PROVE  Inner'
<1>0. Joining' /\ TopIsJoined'
  BY DEF Inner, Joining, TopIsJoined, Top, FlagsMatch, Created, Refused
<1>1. \A s \in Threads : at'[s] = "spawning" => s[1] = "pull"
  <2>1. CASE Created(t, place)
    BY <2>1, SpawningStays DEF Created
  <2>2. CASE Refused(t)
    BY <2>2, SpawningStays DEF Refused
  <2> QED
    BY <2>1, <2>2
<1>2. FlagsMatch'
  BY <1>1 DEF Inner, FlagsMatch
<1>3. NoneEscapes'
  <2>1. CASE Created(t, place)
    <3>1. Alive' \subseteq Alive \cup {t}
      BY <2>1, Comes DEF Created
    <3> QED
      BY <2>1, <3>1, KeptByPush DEF Inner, NoneEscapes, Alive
  <2>2. CASE Refused(t)
    <3>1. Alive' \subseteq Alive
      BY <2>2, Dies DEF Refused
    <3> QED
      BY <2>2, <3>1 DEF Inner, NoneEscapes, Kept, Refused
  <2> QED
    BY <2>1, <2>2
<1>4. StopIsComplete'
  BY DEF StopIsComplete
<1>5. Alive' \subseteq Alive \cup {t}
  BY Comes DEF Created, Refused
<1>6. PluginsAreStarted'
  BY <1>5 DEF Inner, PluginsAreStarted
<1> QED
  BY <1>0, <1>2, <1>3, <1>4, <1>6 DEF Inner

-----------------------------------------------------------------------------
(* The steps of start keep the invariant. *)
LEMMA StartingStep ==
    ASSUME Typed, Inner, ~byItself, Start \/ Starting, UNCHANGED platform
    PROVE  Inner'
<1>j. Joining'
  BY DEF Inner, Joining
<1>0. stage[App] = "none" \/ app = "stopping"
  BY DEF Inner, FlagsMatch
<1>1. CASE Start
  <2>1. stage[App] = "none"
    BY <1>0, <1>1 DEF Start
  <2>2. Alive' = Alive
    BY <1>1 DEF Start, threads, Alive
  <2>3. NoneEscapes'
    BY <1>1, <2>2 DEF Start, threads, stops, Inner, NoneEscapes, Kept
  <2>4. FlagsMatch'
    BY <1>1, <2>1 DEF Start, threads, stops, Inner, FlagsMatch
  <2>5. StopIsComplete' /\ TopIsJoined'
    BY <1>1, <2>1 DEF Start, stops, StopIsComplete, TopIsJoined
  <2>6. PluginsAreStarted'
    BY <1>1, <2>2 DEF Start, fate, Inner, PluginsAreStarted
  <2> QED
    BY <1>j, <2>3, <2>4, <2>5, <2>6 DEF Inner
<1>2. CASE StartProcessing
  <2>1. Own("processing") \in Threads /\ Own("processing") \in {"processing", "timer"} \X (1..MaxStarts)
    BY <1>2, OwnThreads DEF StartProcessing, Roles, Own, Threads
  <2>2. stage[App] = "none" /\ app' \notin {"pull", "publish"}
    BY <1>0, <1>2 DEF StartProcessing
  <2>3. UNCHANGED <<platform, stopping, pluginsRunning, stage, joinee, byItself>>
    BY <1>2 DEF StartProcessing, stops, parts, fate
  <2>4. Created(Own("processing"), "busy") \/ Refused(Own("processing"))
    BY <1>2 DEF StartProcessing
  <2> QED
    BY <2>1, <2>2, <2>3, <2>4, CreateStep DEF Places
<1>3. CASE StartTimer
  <2>1. Own("timer") \in Threads /\ Own("timer") \in {"processing", "timer"} \X (1..MaxStarts)
    BY <1>3, OwnThreads DEF StartTimer, Roles, Own, Threads
  <2>2. stage[App] = "none" /\ app' \notin {"pull", "publish"}
    BY <1>0, <1>3 DEF StartTimer
  <2>3. UNCHANGED <<platform, stopping, pluginsRunning, stage, joinee, byItself>>
    BY <1>3 DEF StartTimer, stops, fate
  <2>4. Created(Own("timer"), "idle") \/ Refused(Own("timer"))
    BY <1>3 DEF StartTimer
  <2> QED
    BY <2>1, <2>2, <2>3, <2>4, CreateStep DEF Places
<1>4. CASE StartPlugins
  <2>1. stage[App] = "none"
    BY <1>0, <1>4 DEF StartPlugins
  <2>2. Alive' = Alive
    BY <1>4 DEF StartPlugins, threads, Alive
  <2>3. NoneEscapes'
    BY <1>4, <2>2 DEF StartPlugins, threads, stops, Inner, NoneEscapes, Kept
  <2>4. FlagsMatch'
    BY <1>4, <2>1 DEF StartPlugins, threads, stops, Inner, FlagsMatch
  <2>5. StopIsComplete' /\ TopIsJoined'
    BY <1>4, <2>1 DEF StartPlugins, stops, StopIsComplete, TopIsJoined
  <2>6. PluginsAreStarted'
    BY <1>4 DEF StartPlugins, PluginsAreStarted
  <2> QED
    BY <1>j, <2>3, <2>4, <2>5, <2>6 DEF Inner
<1>5. CASE StartPull
  <2>1. Own("pull") \in Threads /\ Own("pull")[1] = "pull"
    BY <1>5, OwnThreads DEF StartPull, StartLoop, Roles, Own
  <2>2. stage[App] = "none" /\ pluginsRunning
    BY <1>0, <1>5 DEF StartPull, StartLoop, Inner, FlagsMatch
  <2>3. UNCHANGED <<platform, stopping, pluginsRunning, stage, joinee, byItself>>
    BY <1>5 DEF StartPull, StartLoop, stops, parts, fate
  <2>4. Created(Own("pull"), "spawning") \/ Refused(Own("pull"))
    BY <1>5 DEF StartPull, StartLoop
  <2> QED
    BY <2>1, <2>2, <2>3, <2>4, CreateStep DEF Places
<1>6. CASE StartPublish
  <2>1. Own("publish") \in Threads
    BY <1>6, OwnThreads DEF StartPublish, StartLoop, Roles
  <2>2. stage[App] = "none" /\ pluginsRunning
    BY <1>0, <1>6 DEF StartPublish, StartLoop, Inner, FlagsMatch
  <2>3. UNCHANGED <<platform, stopping, pluginsRunning, stage, joinee, byItself>>
    BY <1>6 DEF StartPublish, StartLoop, stops, parts, fate
  <2>4. Created(Own("publish"), "idle") \/ Refused(Own("publish"))
    BY <1>6 DEF StartPublish, StartLoop
  <2> QED
    BY <2>1, <2>2, <2>3, <2>4, CreateStep DEF Places
<1> QED
  BY <1>1, <1>2, <1>3, <1>4, <1>5, <1>6 DEF Starting

(* The steps of the threads keep it. *)
LEMMA TurnStep ==
    ASSUME Typed, Inner, ~byItself, NEW t \in Threads, Turn(t), ~byItself',
           UNCHANGED platform
    PROVE  Inner'
<1>1. ASSUME NEW w \in Workers, SpawnWorker(t, w) PROVE Inner'
  <2>1. t \in Alive /\ t[1] = "pull"
    BY <1>1 DEF SpawnWorker, Alive, Inner, FlagsMatch
  <2>2. stage[App] \notin {"joined", "connectors"}
    BY <2>1 DEF Inner, StopIsComplete
  <2>3. pluginsRunning
    BY <2>1 DEF Inner, PluginsAreStarted
  <2>4. <<w, t[2]>> \in Threads
    BY <1>1, WorkersAreThreads
  <2>5. UNCHANGED <<platform, app, stopping, pluginsRunning, stage, joinee, byItself>>
    BY <1>1 DEF SpawnWorker, stops, parts, fate
  <2>6. Created(<<w, t[2]>>, "idle") \/ Refused(<<w, t[2]>>)
    BY <1>1 DEF SpawnWorker
  <2>7. stage[App] # "none" => app' = "stopping"
    BY <2>5 DEF Inner, FlagsMatch
  <2> QED
    BY <2>2, <2>3, <2>4, <2>5, <2>6, <2>7, CreateStep DEF Places
<1>2. CASE SpawningDone(t)
  <2>1. t \in Alive
    BY <1>2 DEF SpawningDone, Alive
  <2>2. PICK place \in {"idle", "dead"} : Goto(t, place)
    BY <1>2 DEF SpawningDone
  <2> QED
    BY <1>2, <2>1, <2>2, GoesOnLiving, SpawningStays, QuietStep
    DEF SpawningDone, stops, parts, fate
<1>3. CASE Wake(t)
  <2>1. t \in Alive /\ Goto(t, "busy")
    BY <1>3 DEF Wake, Alive
  <2> QED
    BY <1>3, <2>1, GoesOnLiving, SpawningStays, QuietStep
    DEF Wake, stops, parts, fate
<1>4. CASE Rest(t)
  <2>1. t \in Alive
    BY <1>4 DEF Rest, Alive
  <2>2. PICK place \in {"idle", "dead"} : Goto(t, place)
    BY <1>4 DEF Rest
  <2> QED
    BY <1>4, <2>1, <2>2, GoesOnLiving, SpawningStays, QuietStep
    DEF Rest, stops, parts, fate
<1>5. CASE EndTimer(t)
  BY <1>5, Dies, SpawningStays, QuietStep DEF EndTimer, stops, fate
<1>6. CASE Die(t)
  <2>1. t # App
    BY LifecycleAssumption DEF App, Threads, Roles
  <2>2. t \in Publishers => stage[t] = "none"
    BY DEF Inner, FlagsMatch
  <2>3. stage' = stage
    <3>1. \A x \in Stoppers : x = t => stage[x] = "none"
      BY <2>1, <2>2 DEF Stoppers
    <3>2. stage \in [Stoppers -> {stage[x] : x \in Stoppers}]
      BY DEF Typed, TypeOK
    <3> QED
      BY <1>6, <3>1, <3>2 DEF Die
  <2>4. joinee'[App] = joinee[App]
    BY <1>6, <2>1, AppIsStopper DEF Die
  <2>5. Alive' \subseteq Alive
    BY <1>6, Dies DEF Die
  <2>6. \A s \in Threads : at'[s] = "spawning" => s[1] = "pull"
    BY <1>6, SpawningStays DEF Die
  <2> QED
    BY <1>6, <2>3, <2>4, <2>5, <2>6, QuietStep DEF Die, parts, fate
<1>7. CASE Interrupted(t)
  BY <1>7, Dies, SpawningStays, QuietStep DEF Interrupted, stops, parts
<1>8. CASE PublishStops(t)
  BY <1>8 DEF PublishStops
<1> QED
  BY <1>1, <1>2, <1>3, <1>4, <1>5, <1>6, <1>7, <1>8 DEF Turn

(* The steps of stop keep it.  Only the application takes them. *)
LEMMA StopStep ==
    ASSUME Typed, Inner, ~byItself, NEW x \in Stoppers, Stop(x), UNCHANGED platform
    PROVE  Inner'
<1>j. Joining /\ Joining'
  BY DEF Inner, Joining
<1>1. x = App
  BY DEF Inner, FlagsMatch, Stoppers, Stop
<1>2. stage \in [Stoppers -> {"none", "entered", "cleared", "popping", "joining",
                              "joined", "connectors"}]
  BY DEF Typed, TypeOK
<1>3. CASE BeginStop(x)
  <2>1. Alive' = Alive
    BY <1>3 DEF BeginStop, threads, Alive
  <2>2. stage'[App] = "cleared" /\ stage[App] = "entered" /\ \A p \in Publishers : stage'[p] = stage[p]
    BY <1>1, <1>2, <1>3, AppIsStopper DEF BeginStop
  <2>3. NoneEscapes'
    BY <1>3, <2>1, <2>2 DEF BeginStop, threads, Inner, NoneEscapes, Kept
  <2>4. FlagsMatch'
    BY <1>3, <2>2 DEF BeginStop, threads, parts, Inner, FlagsMatch
  <2>5. StopIsComplete' /\ TopIsJoined'
    BY <2>2 DEF StopIsComplete, TopIsJoined
  <2>6. PluginsAreStarted'
    BY <1>3, <2>1 DEF BeginStop, parts, fate, Inner, PluginsAreStarted
  <2> QED
    BY <1>j, <2>3, <2>4, <2>5, <2>6 DEF Inner
<1>9. CASE BeginStopAll(x)
  <2>1. Alive' = Alive
    BY <1>9 DEF BeginStopAll, threads, Alive
  <2>2. stage'[App] = "popping" /\ stage[App] = "cleared" /\ \A p \in Publishers : stage'[p] = stage[p]
    BY <1>j, <1>1, <1>2, <1>9, AppIsStopper DEF BeginStopAll
  <2>3. NoneEscapes'
    BY <1>9, <2>1, <2>2 DEF BeginStopAll, threads, Inner, NoneEscapes, Kept
  <2>4. FlagsMatch'
    BY <1>9, <2>2 DEF BeginStopAll, threads, parts, Inner, FlagsMatch
  <2>5. StopIsComplete' /\ TopIsJoined'
    BY <2>2 DEF StopIsComplete, TopIsJoined
  <2>6. PluginsAreStarted'
    BY <1>9, <2>1 DEF BeginStopAll, parts, fate, Inner, PluginsAreStarted
  <2> QED
    BY <1>j, <2>3, <2>4, <2>5, <2>6 DEF Inner
<1>4. CASE Pop(x)
  <2>1. Alive' = Alive
    BY <1>4 DEF Pop, Alive
  <2>2. stage'[App] = "joining" /\ stage[App] = "popping" /\ \A p \in Publishers : stage'[p] = stage[p]
    BY <1>1, <1>2, <1>4, AppIsStopper DEF Pop
  <2>3. joinee'[App] = Top
    BY <1>1, <1>4, AppIsStopper DEF Pop, Typed, TypeOK
  <2>4. \A t \in Threads : Kept(t) => Kept(t)'
    <3>1. CASE platform = "linux"
      <4>1. threadMap # <<>> /\ threadMap' = Below
        BY <1>4, <3>1 DEF Pop
      <4>2. ASSUME NEW t \in Threads, NEW i \in 1..Len(threadMap), threadMap[i] = t
            PROVE  Kept(t)'
        <5>1. CASE i = Len(threadMap)
          BY <2>2, <2>3, <4>2, <5>1 DEF Kept, Top
        <5>2. CASE i # Len(threadMap)
          <6>1. i \in 1..Len(threadMap') /\ threadMap'[i] = t
            BY <4>1, <4>2, <5>2, BelowTheTop
          <6> QED
            BY <6>1 DEF Kept
        <5> QED
          BY <5>1, <5>2
      <4> QED
        BY <2>2, <4>2 DEF Kept
    <3>2. CASE platform # "linux"
      BY <1>4, <2>2, <3>2 DEF Pop, Kept
    <3> QED
      BY <3>1, <3>2
  <2>5. NoneEscapes'
    BY <2>1, <2>4 DEF Inner, NoneEscapes, Alive
  <2>6. FlagsMatch'
    BY <1>4, <2>2 DEF Pop, parts, Inner, FlagsMatch
  <2>7. StopIsComplete'
    BY <2>2 DEF StopIsComplete
  <2>8. PluginsAreStarted'
    BY <1>4, <2>1 DEF Pop, parts, fate, Inner, PluginsAreStarted
  <2>9. TopIsJoined'
    BY <1>4, <2>3 DEF Pop, TopIsJoined, Top
  <2> QED
    BY <1>j, <2>5, <2>6, <2>7, <2>8, <2>9 DEF Inner
<1>5. CASE Join(x)
  <2>1. Alive' = Alive
    BY <1>5 DEF Join, Alive
  <2>2. stage'[App] = "popping" /\ stage[App] = "joining" /\ \A p \in Publishers : stage'[p] = stage[p]
    BY <1>1, <1>2, <1>5, AppIsStopper DEF Join
  <2>3. joinee[App] \notin Alive
    BY <1>1, <1>5, AppIsNoThread DEF Join, Alive
  <2>4. NoneEscapes'
    <3>1. CASE platform = "linux"
      BY <1>5, <2>1, <2>2, <2>3, <3>1 DEF Join, Inner, NoneEscapes, Kept
    <3>2. CASE platform = "aix"
      <4>1. threadMap # <<>> /\ joinee[App] = Top /\ threadMap' = Below
        BY <1>5, <2>2, <3>2 DEF Join, Inner, TopIsJoined
      <4>2. ASSUME NEW t \in Alive PROVE Kept(t)'
        <5>1. PICK i \in 1..Len(threadMap) : threadMap[i] = t
          BY <2>3, <4>2 DEF Inner, NoneEscapes, Kept
        <5>2. i # Len(threadMap)
          BY <2>3, <4>1, <5>1 DEF Top
        <5>3. i \in 1..Len(threadMap') /\ threadMap'[i] = t
          BY <4>1, <5>1, <5>2, BelowTheTop
        <5> QED
          BY <5>3 DEF Kept
      <4> QED
        BY <2>1, <4>2 DEF NoneEscapes
    <3> QED
      BY <1>j, <3>1, <3>2 DEF Joining
  <2>5. FlagsMatch'
    BY <1>5, <2>2 DEF Join, parts, Inner, FlagsMatch
  <2>6. StopIsComplete' /\ TopIsJoined'
    BY <2>2 DEF StopIsComplete, TopIsJoined
  <2>7. PluginsAreStarted'
    BY <1>5, <2>1 DEF Join, parts, Inner, PluginsAreStarted
  <2> QED
    BY <1>j, <2>4, <2>5, <2>6, <2>7 DEF Inner
<1>6. CASE AllJoined(x)
  <2>1. stage'[App] = "joined" /\ stage[App] = "popping" /\ \A p \in Publishers : stage'[p] = stage[p]
    BY <1>1, <1>2, <1>6, AppIsStopper DEF AllJoined
  <2>2. Alive = {} /\ Alive' = {}
    <3>1. Alive = {}
      BY <1>6, <2>1 DEF AllJoined, Inner, NoneEscapes, Kept
    <3> QED
      BY <1>6, <3>1 DEF AllJoined, threads, Alive
  <2>3. NoneEscapes'
    BY <2>2 DEF NoneEscapes
  <2>4. FlagsMatch'
    BY <1>6, <2>1 DEF AllJoined, threads, parts, Inner, FlagsMatch
  <2>5. StopIsComplete' /\ PluginsAreStarted'
    BY <2>2 DEF StopIsComplete, PluginsAreStarted
  <2>6. TopIsJoined'
    BY <2>1 DEF TopIsJoined
  <2> QED
    BY <1>j, <2>3, <2>4, <2>5, <2>6 DEF Inner
<1>7. CASE StopPlugins(x)
  <2>1. stage'[App] = "connectors" /\ stage[App] = "joined" /\ \A p \in Publishers : stage'[p] = stage[p]
    BY <1>1, <1>2, <1>7, AppIsStopper DEF StopPlugins
  <2>2. Alive' = {}
    <3>1. Alive = {}
      BY <2>1 DEF Inner, StopIsComplete
    <3> QED
      BY <1>7, <3>1 DEF StopPlugins, threads, Alive
  <2>3. NoneEscapes'
    BY <2>2 DEF NoneEscapes
  <2>4. FlagsMatch'
    BY <1>7, <2>1 DEF StopPlugins, threads, Inner, FlagsMatch
  <2>5. StopIsComplete' /\ PluginsAreStarted'
    BY <2>2 DEF StopIsComplete, PluginsAreStarted
  <2>6. TopIsJoined'
    BY <2>1 DEF TopIsJoined
  <2> QED
    BY <1>j, <2>3, <2>4, <2>5, <2>6 DEF Inner
<1>8. CASE StopConnectors(x)
  <2>1. stage'[App] = "none" /\ stage[App] = "connectors" /\ \A p \in Publishers : stage'[p] = stage[p]
    BY <1>1, <1>2, <1>8, AppIsStopper DEF StopConnectors
  <2>2. app' = "out" /\ UNCHANGED at
    BY <1>1, <1>8 DEF StopConnectors
  <2>3. Alive' = {}
    BY <2>1, <2>2 DEF Inner, StopIsComplete, Alive
  <2>4. NoneEscapes'
    BY <2>3 DEF NoneEscapes
  <2>5. FlagsMatch'
    BY <1>8, <2>1, <2>2 DEF StopConnectors, Inner, FlagsMatch
  <2>6. StopIsComplete' /\ PluginsAreStarted'
    BY <2>3 DEF StopIsComplete, PluginsAreStarted
  <2>7. TopIsJoined'
    BY <2>1 DEF TopIsJoined
  <2> QED
    BY <1>j, <2>4, <2>5, <2>6, <2>7 DEF Inner
<1> QED
  BY <1>3, <1>4, <1>5, <1>6, <1>7, <1>8, <1>9 DEF Stop

LEMMA AppStopsStep ==
    ASSUME Typed, Inner, AppStops, UNCHANGED platform
    PROVE  Inner'
<1>j. Joining'
  BY DEF Inner, Joining
<1>1. Alive' = Alive
  BY DEF AppStops, threads, Alive
<1>2. stage[App] = "none"
  BY DEF AppStops, Inner, FlagsMatch
<1>3. stage'[App] \in {"none", "entered"} /\ \A p \in Publishers : stage'[p] = stage[p]
  <2>1. stage' = stage \/ stage' = [stage EXCEPT ![App] = "entered"]
    BY DEF AppStops
  <2>2. stage \in [Stoppers -> {stage[x] : x \in Stoppers}]
    BY DEF Typed, TypeOK
  <2> QED
    BY <1>2, <2>1, <2>2, AppIsStopper, PublishersAreThreads
<1>4. stage'[App] # "none" => app' = "stopping"
  BY <1>2 DEF AppStops
<1>5. NoneEscapes'
  BY <1>1, <1>2, <1>3 DEF AppStops, threads, Inner, NoneEscapes, Kept
<1>6. FlagsMatch'
  BY <1>2, <1>3, <1>4 DEF AppStops, threads, parts, Inner, FlagsMatch
<1>7. StopIsComplete' /\ TopIsJoined'
  BY <1>3 DEF StopIsComplete, TopIsJoined
<1>8. PluginsAreStarted'
  BY <1>1 DEF AppStops, parts, fate, Inner, PluginsAreStarted
<1> QED
  BY <1>j, <1>5, <1>6, <1>7, <1>8 DEF Inner

-----------------------------------------------------------------------------
THEOREM InductiveInit == Init => IInv
<1> SUFFICES ASSUME Init PROVE IInv
  OBVIOUS
<1>1. Alive = {}
  BY DEF Init, Alive
<1>2. stage[App] = "none" /\ \A p \in Publishers : stage[p] = "none"
  BY AppIsStopper, PublishersAreThreads DEF Init
<1>3. NoneEscapes /\ StopIsComplete /\ PluginsAreStarted /\ TopIsJoined
  BY <1>1, <1>2 DEF NoneEscapes, StopIsComplete, PluginsAreStarted, TopIsJoined
<1>4. FlagsMatch
  BY <1>2 DEF Init, FlagsMatch
<1> QED
  BY <1>3, <1>4, TypedInit DEF IInv, Inner

THEOREM InductiveStep == IInv /\ [Next]_vars => IInv'
<1> SUFFICES ASSUME IInv, [Next]_vars, ~byItself', Joining' PROVE Inner'
  BY TypeStep DEF IInv
<1>0. Typed /\ UNCHANGED platform
  BY DEF IInv, Next, vars
<1>1. ~byItself
  BY DEF Next, Start, Starting, StartProcessing, StartTimer, StartPlugins,
         StartPull, StartPublish, StartLoop, AppStops, Turn, SpawnWorker,
         SpawningDone, Wake, Rest, EndTimer, Die, Interrupted, PublishStops,
         Stop, BeginStop, BeginStopAll, Pop, Join, AllJoined, StopPlugins, StopConnectors,
         vars, fate
<1>2. Inner
  BY <1>0, <1>1 DEF IInv, Joining
<1>3. CASE Start \/ Starting
  BY <1>0, <1>1, <1>2, <1>3, StartingStep
<1>4. CASE AppStops
  BY <1>0, <1>2, <1>4, AppStopsStep
<1>5. ASSUME NEW t \in Threads, Turn(t) PROVE Inner'
  BY <1>0, <1>1, <1>2, <1>5, TurnStep
<1>6. ASSUME NEW x \in Stoppers, Stop(x) PROVE Inner'
  BY <1>0, <1>1, <1>2, <1>6, StopStep
<1>7. CASE UNCHANGED vars
  <2>1. UNCHANGED <<threads, app, stopping, parts, stops, byItself>>
    BY <1>7 DEF vars, fate
  <2>2. Alive' = Alive
    BY <2>1 DEF threads, Alive
  <2>3. \A s \in Threads : at'[s] = "spawning" => s[1] = "pull"
    BY <1>2, <2>1 DEF threads, Inner, FlagsMatch
  <2> QED
    BY <1>0, <1>2, <2>1, <2>2, <2>3, QuietStep DEF threads, parts, stops
<1> QED
  BY <1>3, <1>4, <1>5, <1>6, <1>7 DEF Next

THEOREM Invariance == Spec => []IInv
BY InductiveInit, InductiveStep, PTL DEF Spec

-----------------------------------------------------------------------------
(* A publish thread belongs to the last start, which has returned and is   *)
(* not undone yet.                                                         *)
OwnPublisher ==
    /\ app \in {"pull", "publish"} => running
    /\ \A p \in Publishers \cap Alive :
          /\ p[2] = starts
          /\ app = "stopping" \/ (app = "in" /\ running)

(* No step but StartPublish brings one. *)
LEMMA OthersBringNone ==
    ASSUME Typed, NEW t \in Threads, NEW place, Goto(t, place),
           t \in Alive \/ t \notin Publishers
    PROVE  Publishers \cap Alive' \subseteq Publishers \cap Alive
BY DEF Alive, Goto, Typed, TypeOK

LEMMA StartRole ==
    ASSUME Typed, app # "out", NEW role \in Roles \ {"publish"}, NEW place,
           Created(Own(role), place) \/ Refused(Own(role))
    PROVE  Publishers \cap Alive' \subseteq Publishers \cap Alive
<1>1. Own(role) \in Threads /\ Own(role) \notin Publishers
  BY OwnThreads DEF Own, Publishers
<1> QED
  BY <1>1, OthersBringNone DEF Created, Refused

LEMMA StartPublishOwn ==
    ASSUME Typed, OwnPublisher, StartPublish
    PROVE  OwnPublisher'
<1>1. app = "publish" /\ starts' = starts /\ Publishers \cap Alive = {}
  BY DEF StartPublish, StartLoop, OwnPublisher
<1>2. Own("publish") \in Threads /\ Own("publish")[2] = starts
  BY <1>1, OwnThreads DEF Roles, Own
<1>3. CASE Created(Own("publish"), "idle") /\ app' = "in" /\ UNCHANGED running
  <2>1. Alive' \subseteq Alive \cup {Own("publish")}
    BY <1>2, <1>3, Comes DEF Created
  <2> QED
    BY <1>1, <1>2, <1>3, <2>1 DEF OwnPublisher
<1>4. CASE Refused(Own("publish")) /\ app' = "in"
  <2>1. Alive' \subseteq Alive
    BY <1>2, <1>4, Dies DEF Refused
  <2> QED
    BY <1>1, <1>4, <2>1 DEF OwnPublisher
<1> QED
  BY <1>3, <1>4 DEF StartPublish, StartLoop

LEMMA StartOwn ==
    ASSUME Typed, OwnPublisher, Start \/ Starting
    PROVE  OwnPublisher'
<1>1. CASE Start
  BY <1>1 DEF Start, OwnPublisher, threads, Alive
<1>2. CASE StartProcessing
  <2>1. Publishers \cap Alive' \subseteq Publishers \cap Alive
    BY <1>2, StartRole DEF StartProcessing, Roles
  <2> QED
    BY <1>2, <2>1 DEF StartProcessing, OwnPublisher
<1>3. CASE StartTimer
  <2>1. Publishers \cap Alive' \subseteq Publishers \cap Alive
    BY <1>3, StartRole DEF StartTimer, Roles
  <2> QED
    BY <1>3, <2>1 DEF StartTimer, OwnPublisher
<1>4. CASE StartPlugins
  BY <1>4 DEF StartPlugins, OwnPublisher, threads, Alive
<1>5. CASE StartPull
  <2>1. Publishers \cap Alive' \subseteq Publishers \cap Alive
    BY <1>5, StartRole DEF StartPull, StartLoop, Roles
  <2> QED
    BY <1>5, <2>1 DEF StartPull, StartLoop, OwnPublisher
<1> QED
  BY <1>1, <1>2, <1>3, <1>4, <1>5, StartPublishOwn DEF Starting

LEMMA TurnOwn ==
    ASSUME Typed, OwnPublisher, NEW t \in Threads, Turn(t), ~byItself'
    PROVE  OwnPublisher'
<1>1. t \in Alive
  BY DEF Turn, Alive
<1>2. UNCHANGED <<app, starts, running>>
  BY DEF Turn, SpawnWorker, SpawningDone, Wake, Rest, EndTimer, Die, Interrupted,
         PublishStops
<1>3. Publishers \cap Alive' \subseteq Publishers \cap Alive
  <2>1. CASE \E w \in Workers : SpawnWorker(t, w)
    <3>1. PICK w \in Workers : SpawnWorker(t, w)
      BY <2>1
    <3>2. <<w, t[2]>> \in Threads /\ <<w, t[2]>> \notin Publishers
      BY WorkersAreThreads, LifecycleAssumption DEF Publishers, Roles
    <3> QED
      BY <3>1, <3>2, OthersBringNone DEF SpawnWorker, Created, Refused
  <2>2. CASE SpawningDone(t) \/ Wake(t) \/ Rest(t) \/ EndTimer(t) \/ Die(t)
                \/ Interrupted(t)
    <3>1. \E place : Goto(t, place)
      BY <2>2 DEF SpawningDone, Wake, Rest, EndTimer, Die, Interrupted
    <3> QED
      BY <1>1, <3>1, OthersBringNone
  <2>3. ~PublishStops(t)
    BY DEF PublishStops
  <2> QED
    BY <2>1, <2>2, <2>3 DEF Turn
<1> QED
  BY <1>2, <1>3 DEF OwnPublisher

LEMMA StopOwn ==
    ASSUME Typed, Inner, OwnPublisher, NEW x \in Stoppers, Stop(x), ~byItself
    PROVE  OwnPublisher'
<1>1. x = App /\ app = "stopping"
  BY DEF Stop, Inner, FlagsMatch, Stoppers
<1>2. CASE StopConnectors(x)
  <2>1. Alive = {} /\ app' = "out" /\ at' = at
    BY <1>1, <1>2 DEF StopConnectors, Inner, StopIsComplete
  <2> QED
    BY <2>1 DEF OwnPublisher, Alive
<1>3. CASE ~StopConnectors(x)
  <2>1. UNCHANGED <<at, app, starts>>
    BY <1>3 DEF Stop, BeginStop, BeginStopAll, Pop, Join, AllJoined, StopPlugins,
                threads
  <2> QED
    BY <1>1, <2>1 DEF OwnPublisher, Alive
<1> QED
  BY <1>2, <1>3

(* While only the application stops the agent, and threads are joined. *)
PublisherInv == ~byItself /\ Joining => OwnPublisher

LEMMA PublisherInit == Init => PublisherInv
<1> SUFFICES ASSUME Init PROVE OwnPublisher
  BY DEF PublisherInv
<1>1. Alive = {} /\ app = "out"
  BY DEF Init, Alive
<1> QED
  BY <1>1 DEF OwnPublisher

LEMMA PublisherStep == IInv /\ PublisherInv /\ [Next]_vars => PublisherInv'
<1> SUFFICES ASSUME IInv, PublisherInv, [Next]_vars, ~byItself', Joining'
             PROVE  OwnPublisher'
  BY DEF PublisherInv
<1>0. Typed /\ UNCHANGED platform
  BY DEF IInv, Next, vars
<1>1. ~byItself
  BY DEF Next, Start, Starting, StartProcessing, StartTimer, StartPlugins,
         StartPull, StartPublish, StartLoop, AppStops, Turn, SpawnWorker,
         SpawningDone, Wake, Rest, EndTimer, Die, Interrupted, PublishStops,
         Stop, BeginStop, BeginStopAll, Pop, Join, AllJoined, StopPlugins, StopConnectors,
         vars, fate
<1>2. Inner /\ OwnPublisher
  BY <1>0, <1>1 DEF IInv, PublisherInv, Joining
<1>3. CASE AppStops
  BY <1>2, <1>3 DEF AppStops, OwnPublisher, threads, Alive
<1>4. CASE UNCHANGED vars
  BY <1>2, <1>4 DEF vars, threads, OwnPublisher, Alive
<1> QED
  BY <1>0, <1>1, <1>2, <1>3, <1>4, StartOwn, TurnOwn, StopOwn DEF Next

(* OnePublisher: a publish thread is of the last start, for any number of  *)
(* starts that fail or not and of stops by the application.                *)
THEOREM OneWalksTheBuckets == Spec => []OnePublisher
<1>1. PublisherInv => OnePublisher
  BY DEF PublisherInv, OwnPublisher, OnePublisher, Publishers
<1> QED
  BY <1>1, PublisherInit, PublisherStep, Invariance, PTL DEF Spec

(* StopIsComplete: when the application's stop goes on to the plugins and  *)
(* connectors, no thread of the agent is left, whichever were created, or  *)
(* could not be, before and during the stop.                               *)
THEOREM NoThreadIsLeft == Spec => []StopIsComplete
<1>1. IInv => StopIsComplete
  BY DEF IInv, Inner, StopIsComplete
<1> QED
  BY <1>1, Invariance, PTL

(* PluginsAreStarted: the threads call a plugin only between its start and *)
(* its stop.                                                               *)
THEOREM NoCallOutsideStartAndStop == Spec => []PluginsAreStarted
<1>1. IInv => PluginsAreStarted
  BY DEF IInv, Inner, PluginsAreStarted
<1> QED
  BY <1>1, Invariance, PTL

(* StopIsUndone: on Linux, no stop of the application leaves threads       *)
(* refused.                                                                *)
THEOREM RestartIsPossible == Spec => []StopIsUndone
<1>1. IInv => StopIsUndone
  BY AppIsStopper DEF IInv, Joining, Inner, FlagsMatch, StopIsUndone, CanBeRestarted
<1> QED
  BY <1>1, Invariance, PTL
=============================================================================
