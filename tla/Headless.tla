------------------------------ MODULE Headless ------------------------------
(***************************************************************************)
(* The headless connector (HLConnector.cpp): it writes what the agent      *)
(* sends into files, one for each source, in a directory named after the   *)
(* second it was made in, and announces a directory when it closes the     *)
(* files in it.                                                            *)
(*                                                                         *)
(* Three kinds of thread meet here: the one that sends (the connector      *)
(* manager lets one in at a time), the connector's own, which times the    *)
(* runs and the pauses between them, and the one that stops the agent.     *)
(* The lock guards the files; running, collect and timesRun are also read  *)
(* and written outside it.  On Linux and AIX (settings.cancels) the first  *)
(* two are cancelled before the connector is stopped.  On Windows, z/OS    *)
(* and OS X they go on, and stop() does not wait for them: the timer of an *)
(* earlier start may still be there when the next one makes its own.       *)
(*                                                                         *)
(* Times and sizes are left to chance: a sleep may end at any moment, and  *)
(* any message may be the one that does not fit.                           *)
(***************************************************************************)
EXTENDS Naturals, FiniteSets

CONSTANTS
    Sources,    \* the buckets' ids: a file for each
    NoSource,   \* none of them
    MaxRuns,    \* bound: headless.run.number.of.runs, over all starts
    MaxRolls,   \* bound: times that the files roll over
    MaxStarts,  \* bound: starts of the connector
    MaxSets     \* bound: sets of files

ASSUME HeadlessAssumption ==
    /\ NoSource \notin Sources
    /\ MaxRuns \in Nat /\ MaxRolls \in Nat /\ MaxStarts \in Nat /\ MaxSets \in Nat

VARIABLES
    settings,          \* the properties and the platform
    phase,             \* how far starting and stopping have come
    starts,            \* how often the connector was started
    timer,             \* where the thread of each start is
    timesRun,          \* runs that were done
    seen,              \* what each thread read of timesRun to count on from
    sender,            \* the source whose message waits for the lock
    lock,              \* the lock is held beyond a step
    running,           \* the connector's flags
    collect,
    filesInitialized,  \* the providers were asked for their headers
    headlessRunning,   \* what the agent is told
    gen,               \* the current set of files
    dir,               \* the directory of each set: the first set in it
    known,             \* createdFiles: files the connector can still reach
    open,              \* files that are open
    rolls,             \* how often the files rolled over
    held,              \* history: what each file got since it was announced
    asked,             \* history: the current set began with a request
    ran,               \* history: sets that this start's runs ended with
    single             \* history: its thread is there, and no earlier one

flags == <<running, collect, filesInitialized, headlessRunning>>
counts == <<timesRun, seen>>
files == <<gen, dir, known, open, held, asked>>
story == <<ran, single>>
vars == <<settings, phase, starts, timer, counts, sender, lock, flags,
          files, rolls, story>>

Starts == 1..MaxStarts
Sets == 1..MaxSets
Files == Sets \X Sources

(* Why a message is not in what is announced, or not yet.                  *)
Classes == {"plain",      \* it came while its set was the current one
            "trigger",    \* it made the files roll over
            "straggler",  \* it came between the end of a run and the pause
            "skipped"}    \* a pause began without the end of its run

(* A number of runs, runs without end, or neither; a pause comes after a   *)
(* run; clash: two sources' names give the same file name.                 *)
Settings ==
    {c \in [runs : 0..MaxRuns, periodic : BOOLEAN, pause : BOOLEAN,
            delay : BOOLEAN, clash : BOOLEAN, cancels : BOOLEAN] :
        /\ c.periodic => c.runs = 0
        /\ c.pause => c.runs > 0 \/ c.periodic
        /\ c.clash => ~c.periodic /\ c.runs = 0 /\ ~c.delay}

Init ==
    /\ settings \in Settings
    /\ phase = "new"
    /\ starts = 0
    /\ timer = [t \in Starts |-> "ended"]
    /\ timesRun = 0
    /\ seen = [t \in Starts |-> 0]
    /\ sender = NoSource
    /\ lock = FALSE
    /\ running = FALSE
    /\ collect = TRUE
    /\ filesInitialized = FALSE
    /\ headlessRunning = FALSE
    /\ gen = 0
    /\ dir = [g \in Sets |-> g]
    /\ known = {}
    /\ open = {}
    /\ rolls = 0
    /\ held = [f \in Files |-> {}]
    /\ asked = FALSE
    /\ ran = {}
    /\ single = FALSE

Places == {"delay", "head", "collecting", "counting", "closing", "locked",
           "announced", "skipping", "pausing", "leaving", "ended"}

Alive == {t \in Starts : timer[t] # "ended"}
Goto(t, place) == timer' = [timer EXCEPT ![t] = place]

(***************************************************************************)
(* The files                                                               *)
(***************************************************************************)

(* closeFilesAndNotify: every file it can reach is closed, and what is in  *)
(* the current directory is announced, but for files still open.           *)
HeldAfterNotice ==
    [f \in Files |->
        IF gen \in Sets /\ dir[f[1]] = dir[gen] /\ f \notin open \ known
        THEN {} ELSE held[f]]

(* Mutant: filesInitialized is not reset with the new set. *)
NewSet_Initialized(kept) ==
    /\ gen < MaxSets
    /\ gen' = gen + 1
    /\ dir' = dir
    /\ known' = kept \cup ({gen + 1} \X Sources)
    /\ filesInitialized' = filesInitialized
    /\ asked' = FALSE

(* startNewTempDir: a file for each source, under the directory's name of  *)
(* this second; in the same second as the last one they replace its files  *)
(* in createdFiles.                                                        *)
NewSet(kept) ==
    /\ gen < MaxSets
    /\ gen' = gen + 1
    /\ \E d \in {gen + 1} \cup {dir[f[1]] : f \in kept \cap ({gen} \X Sources)} :
          /\ dir' = [dir EXCEPT ![gen + 1] = d]
          /\ known' = {f \in kept : dir[f[1]] # d} \cup ({gen + 1} \X Sources)
    /\ filesInitialized' = FALSE
    /\ asked' = FALSE

SameSet == UNCHANGED <<gen, dir, known, filesInitialized, asked>>

(***************************************************************************)
(* Starting                                                                *)
(***************************************************************************)

(* The result of createThread is not looked at: where earlier threads were *)
(* not joined, or the system refuses one, there is none for this start.    *)
CreateTimer ==
    \/ /\ ~settings.clash
       /\ Goto(starts + 1, IF settings.delay THEN "delay" ELSE "head")
       /\ single' = (Alive = {})
    \/ UNCHANGED timer /\ single' = FALSE

(* Mutant: times_run goes on from the start before. *)
Start_KeepsCount ==
    /\ phase \in {"new", "stopped"}
    /\ starts < MaxStarts /\ (starts + 1) * settings.runs <= MaxRuns
    /\ starts' = starts + 1
    /\ phase' = "started"
    /\ headlessRunning' = TRUE
    /\ collect' = ~settings.delay
    /\ NewSet({})
    /\ running' = ~settings.clash
    /\ CreateTimer
    /\ ran' = {}
    /\ UNCHANGED <<settings, counts, sender, lock, open, rolls, held>>

(* start(): with two ids that make the same file name it gives up after    *)
(* it has made the directory.  What was open before is forgotten.          *)
Start ==
    /\ phase \in {"new", "stopped"}
    /\ starts < MaxStarts /\ (starts + 1) * settings.runs <= MaxRuns
    /\ starts' = starts + 1
    /\ phase' = "started"
    /\ timesRun' = 0
    /\ headlessRunning' = TRUE
    /\ collect' = ~settings.delay
    /\ NewSet({})
    /\ running' = ~settings.clash
    /\ CreateTimer
    /\ ran' = {}
    /\ UNCHANGED <<settings, seen, sender, lock, open, rolls, held>>

(***************************************************************************)
(* Sending                                                                 *)
(***************************************************************************)

Collecting == running /\ collect

(* sendMessage looks at the flags before it asks for the lock. *)
Offer(s) ==
    /\ sender = NoSource
    /\ phase \in {"started", "stopping"}
    /\ Collecting
    /\ sender' = s
    /\ UNCHANGED <<settings, phase, starts, timer, counts, lock, flags,
                   files, rolls, story>>

(* Mutant: the early return does not give the lock back. *)
TurnedAway_Locked ==
    /\ sender # NoSource
    /\ ~lock
    /\ ~Collecting
    /\ lock' = TRUE
    /\ sender' = NoSource
    /\ UNCHANGED <<settings, phase, starts, timer, counts, flags, files,
                   rolls, story>>

(* and again when it has it. *)
TurnedAway ==
    /\ sender # NoSource
    /\ ~lock
    /\ ~Collecting
    /\ sender' = NoSource
    /\ UNCHANGED <<settings, phase, starts, timer, counts, lock, flags,
                   files, rolls, story>>

(* Mutant: the flags are not looked at again. *)
Write_Unchecked ==
    /\ sender # NoSource
    /\ ~lock
    /\ LET file == <<gen, sender>> IN
          /\ open' = open \cup {file}
          /\ held' = [held EXCEPT ![file] = @ \cup {"plain"}]
    /\ asked' = (asked \/ ~filesInitialized)
    /\ filesInitialized' = TRUE
    /\ sender' = NoSource
    /\ UNCHANGED <<settings, phase, starts, timer, counts, lock, running,
                   collect, headlessRunning, gen, dir, known, rolls, story>>

(* The first message of a set asks the providers, through the connection   *)
(* manager; the file is opened if it is not.                               *)
Write ==
    /\ sender # NoSource
    /\ ~lock
    /\ Collecting
    /\ LET file == <<gen, sender>> IN
          /\ open' = open \cup {file}
          /\ held' = [held EXCEPT ![file] = @ \cup {"plain"}]
    /\ asked' = (asked \/ ~filesInitialized)
    /\ filesInitialized' = TRUE
    /\ sender' = NoSource
    /\ UNCHANGED <<settings, phase, starts, timer, counts, lock, running,
                   collect, headlessRunning, gen, dir, known, rolls, story>>

(* Mutant: the files are closed without a notice. *)
RollOver_Silent ==
    /\ sender # NoSource
    /\ ~lock
    /\ Collecting
    /\ rolls < MaxRolls
    /\ rolls' = rolls + 1
    /\ LET file == <<gen, sender>> IN
          /\ file \in open
          /\ open' = (open \ known) \cup {file}
          /\ held' = [held EXCEPT ![file] = @ \cup {"trigger"}]
    /\ NewSet(known)
    /\ sender' = NoSource
    /\ UNCHANGED <<settings, phase, starts, timer, counts, lock, running,
                   collect, headlessRunning, story>>

(* The message does not fit: the set is closed and announced and a new one *)
(* made, but the message goes to the file that was looked up before.       *)
RollOver ==
    /\ sender # NoSource
    /\ ~lock
    /\ Collecting
    /\ rolls < MaxRolls
    /\ rolls' = rolls + 1
    /\ LET file == <<gen, sender>> IN
          /\ file \in open
          /\ open' = (open \ known) \cup {file}
          /\ held' = [HeldAfterNotice EXCEPT ![file] = @ \cup {"trigger"}]
    /\ NewSet(known)
    /\ sender' = NoSource
    /\ UNCHANGED <<settings, phase, starts, timer, counts, lock, running,
                   collect, headlessRunning, story>>

(***************************************************************************)
(* The connector's thread                                                  *)
(***************************************************************************)

InRuns == settings.runs > 0
Periodic == settings.periodic

(* The head of the loop: one more run, or the last is over, *)
LoopHead(t) ==
    /\ timer[t] = "head"
    /\ IF running /\ (IF InRuns THEN timesRun < settings.runs ELSE Periodic)
       THEN Goto(t, "collecting") /\ collect' = TRUE
       ELSE Goto(t, "leaving") /\ UNCHANGED collect
    /\ UNCHANGED <<settings, phase, starts, counts, sender, lock, running,
                   headlessRunning, filesInitialized, files, rolls, story>>

(* and the thread says so and ends. *)
Leave(t) ==
    /\ timer[t] = "leaving"
    /\ Goto(t, "ended")
    /\ running' = (running /\ ~InRuns)
    /\ headlessRunning' = (headlessRunning /\ ~InRuns /\ ~Periodic)
    /\ UNCHANGED <<settings, phase, starts, counts, sender, lock, collect,
                   filesInitialized, files, rolls, story>>

(* The start's delay is over. *)
DelayEnds(t) ==
    /\ timer[t] = "delay"
    /\ Goto(t, "head")
    /\ UNCHANGED <<settings, phase, starts, counts, sender, lock, flags,
                   files, rolls, story>>

(* A run is over.  times_run is read, *)
RunEnds(t) ==
    /\ timer[t] = "collecting"
    /\ Goto(t, "counting")
    /\ seen' = [seen EXCEPT ![t] = timesRun]
    /\ UNCHANGED <<settings, phase, starts, timesRun, sender, lock, flags,
                   files, rolls, story>>

(* and written, no lock being held; the files are closed, unless the       *)
(* connector is stopping.                                                  *)
CountRun(t) ==
    /\ timer[t] = "counting"
    /\ timesRun' = IF InRuns THEN seen[t] + 1 ELSE timesRun
    /\ seen' = [seen EXCEPT ![t] = 0]
    /\ Goto(t, IF running THEN "closing" ELSE "skipping")
    /\ UNCHANGED <<settings, phase, starts, sender, lock, flags, files,
                   rolls, story>>

(* lockCloseFilesAndNotify, up to where it gives the lock back. *)
CloseRun(t) ==
    /\ timer[t] = "closing"
    /\ ~lock
    /\ lock' = TRUE
    /\ Goto(t, "locked")
    /\ open' = open \ known
    /\ held' = HeldAfterNotice
    /\ ran' = IF InRuns THEN ran \cup {gen} ELSE ran
    /\ IF InRuns /\ timesRun < settings.runs THEN NewSet(known) ELSE SameSet
    /\ UNCHANGED <<settings, phase, starts, counts, sender, running,
                   collect, headlessRunning, rolls, single>>

Unlock(t) ==
    /\ timer[t] = "locked"
    /\ lock' = FALSE
    /\ Goto(t, "announced")
    /\ UNCHANGED <<settings, phase, starts, counts, sender, flags, files,
                   rolls, story>>

(* What has come since the run's end is late; if that was skipped, or the  *)
(* pause is that of an earlier start's thread, it cuts off a run.          *)
HeldInPause(t) ==
    [f \in Files |->
        IF "plain" \in held[f]
        THEN (held[f] \ {"plain"})
             \cup {IF timer[t] = "announced" /\ Alive = {t}
                   THEN "straggler" ELSE "skipped"}
        ELSE held[f]]

(* After the run: the pause, which needs no lock to begin. *)
Pause(t) ==
    /\ timer[t] \in {"announced", "skipping"}
    /\ IF settings.pause
       THEN Goto(t, "pausing") /\ collect' = FALSE /\ held' = HeldInPause(t)
       ELSE Goto(t, "head") /\ UNCHANGED <<collect, held>>
    /\ UNCHANGED <<settings, phase, starts, counts, sender, lock, running,
                   filesInitialized, headlessRunning, gen, dir, known, open,
                   rolls, asked, story>>

PauseEnds(t) ==
    /\ timer[t] = "pausing"
    /\ Goto(t, "head")
    /\ UNCHANGED <<settings, phase, starts, counts, sender, lock, flags,
                   files, rolls, story>>

(***************************************************************************)
(* Stopping                                                                *)
(***************************************************************************)

(* Agent::stop where threads are cancelled: wherever they wait or write,   *)
(* and joined.  A lock that one of them holds stays so (a sender inside    *)
(* closeFilesAndNotify; on Linux its end aborts the process).              *)
StopThreads ==
    /\ phase = "started"
    /\ settings.cancels
    /\ phase' = "cancelled"
    /\ timer' = [t \in Starts |-> "ended"]
    /\ seen' = [t \in Starts |-> 0]
    /\ sender' = NoSource
    /\ lock' \in {lock} \cup (IF sender # NoSource THEN {TRUE} ELSE {})
    /\ UNCHANGED <<settings, starts, timesRun, flags, files, rolls, story>>

(* HLConnector::stop tells the others, *)
BeginStop ==
    /\ phase = IF settings.cancels THEN "cancelled" ELSE "started"
    /\ phase' = "stopping"
    /\ running' = FALSE
    /\ UNCHANGED <<settings, starts, timer, counts, sender, lock, collect,
                   filesInitialized, headlessRunning, files, rolls, story>>

(* and closes the files, unless there is a pause. *)
CloseAtStop ==
    /\ phase = "stopping"
    /\ ~lock
    /\ phase' = "stopped"
    /\ IF collect
       THEN open' = open \ known /\ held' = HeldAfterNotice
       ELSE UNCHANGED <<open, held>>
    /\ UNCHANGED <<settings, starts, timer, counts, sender, lock, flags,
                   gen, dir, known, rolls, asked, story>>

-----------------------------------------------------------------------------
Timer(t) ==
    \/ LoopHead(t) \/ Leave(t) \/ DelayEnds(t) \/ RunEnds(t) \/ CountRun(t)
    \/ CloseRun(t) \/ Unlock(t) \/ Pause(t) \/ PauseEnds(t)

Send == (\E s \in Sources : Offer(s)) \/ TurnedAway \/ Write \/ RollOver

Stop == StopThreads \/ BeginStop \/ CloseAtStop

Next == Start \/ Send \/ (\E t \in Starts : Timer(t)) \/ Stop

Spec == Init /\ [][Next]_vars

(* The threads go on, sleeps end, and who waits for the lock gets it; the  *)
(* application may never stop the agent, but ends a stop that it began.    *)
Fairness ==
    /\ \A t \in Starts : WF_vars(Timer(t)) /\ SF_vars(CloseRun(t))
    /\ WF_vars(TurnedAway \/ Write \/ RollOver)
    /\ WF_vars(phase = "cancelled" /\ BeginStop)
    /\ SF_vars(CloseAtStop)

FairSpec == Spec /\ Fairness
-----------------------------------------------------------------------------
(* Every variable stays in its type. *)
TypeOK ==
    /\ settings \in Settings
    /\ phase \in {"new", "started", "cancelled", "stopping", "stopped"}
    /\ starts \in 0..MaxStarts
    /\ timer \in [Starts -> Places]
    /\ timesRun \in Nat
    /\ seen \in [Starts -> Nat]
    /\ sender \in Sources \cup {NoSource}
    /\ lock \in BOOLEAN
    /\ running \in BOOLEAN
    /\ collect \in BOOLEAN
    /\ filesInitialized \in BOOLEAN
    /\ headlessRunning \in BOOLEAN
    /\ gen \in 0..MaxSets
    /\ dir \in [Sets -> Sets]
    /\ known \subseteq Files
    /\ open \subseteq Files
    /\ rolls \in 0..MaxRolls
    /\ held \in [Files -> SUBSET Classes]
    /\ asked \in BOOLEAN
    /\ ran \subseteq Sets
    /\ single \in BOOLEAN

(* A set that is left behind has been announced with all that was written  *)
(* to it while it was the current one.                                     *)
LeftBehindIsAnnounced ==
    \A f \in Files : "plain" \in held[f] => f[1] = gen

(* When stop() has returned, all that was sent has been announced (that    *)
(* is, handed to receiveMessage: the processing thread that would deliver  *)
(* it is gone where threads are cancelled), except the messages that made  *)
(* the files roll over, those that came as a pause began, and, where the   *)
(* connector's threads go on during the stop, a run whose end was skipped  *)
(* or was cut off by the pause of an earlier start's thread.               *)
StopAnnouncesAll ==
    phase = "stopped" =>
        \A f \in Files :
            held[f] \subseteq {"trigger", "straggler"}
                              \cup (IF settings.cancels THEN {} ELSE {"skipped"})

(* The providers were asked for their headers after a set was made and     *)
(* before anything was written to it.                                      *)
EverySetBeginsWithARequest ==
    \A f \in Files : "plain" \in held[f] => asked

(* Headless mode ends: each of the runs that are configured announces a    *)
(* set of its own, however often the connector was started before, and     *)
(* the agent is told, unless the connector is stopped first.  It is so if  *)
(* the start has its thread and those of earlier starts have ended: two of *)
(* them count the same runs.                                               *)
RunsEnd ==
    (phase = "started" /\ InRuns /\ single)
        ~> \/ ~headlessRunning /\ Cardinality(ran) = settings.runs
           \/ phase # "started"

(* stop() returns, unless a thread was cancelled while it held the lock. *)
StopReturns ==
    phase \in {"cancelled", "stopping"}
        ~> phase = "stopped" \/ (settings.cancels /\ lock)

(* HLConnector.cpp:534: after the delay "Headless data collection has      *)
(* started".                                                               *)
CollectionStarts ==
    (\E t \in Starts : timer[t] = "delay") ~> (collect \/ phase # "started")
=============================================================================
