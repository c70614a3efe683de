----------------------------- MODULE PullWorkers -----------------------------
(***************************************************************************)
(* The pull sources: the agent's pull thread with its ThreadPool           *)
(* (processPullSourceLoop in Agent.cpp), one WorkerThread for each source, *)
(* the semaphore between them, and how they end when the agent stops.      *)
(*                                                                         *)
(* Once a second the pool's turn counts each worker's countdown down and,  *)
(* when it has come to 0, posts the worker's semaphore.  immediateUpdate() *)
(* sets a flag that the next turn reads and then clears.  A worker waits   *)
(* for its semaphore, calls the source, hands the data to its bucket and   *)
(* gives it back to the source by complete().                              *)
(*                                                                         *)
(* The thread layer has a port for each platform.  At stop, Linux and AIX  *)
(* cancel and join the threads, and WorkerThread::cleanUp ends the worker. *)
(* On Windows and z/OS the pull thread stops the workers itself and waits  *)
(* for them, but not for ever.  On OS X the loop of stopAllThreads is      *)
(* commented out, and nothing ends the workers.  A z/OS semaphore is a     *)
(* System V set that only a wait may create and that outlives its process. *)
(***************************************************************************)
EXTENDS Integers

CONSTANTS
    Workers,       \* one worker for each pull source
    Interval,      \* pullInterval of each worker's source
    Threshold,     \* an immediate update reaches longer countdowns (120)
    SemaphoreMax,  \* what a semaphore counts up to, but on Windows
    MaxWait        \* rounds of a second that stopAll waits (5)

ASSUME PullAssumption ==
    /\ Interval \in [Workers -> Nat]
    /\ Threshold \in Nat
    /\ SemaphoreMax \in Nat \ {0}
    /\ MaxWait \in Nat

VARIABLES
    platform,      \* the port of the thread layer
    agentRunning,  \* the agent's running flag
    stop,          \* where Agent::stop is: "none", "waiting" or "done"
    updateNow,     \* an immediate update is asked for
    asked,         \* history: and no turn of the pool has seen it yet
    pool,          \* where the pull thread is
    countdown,     \* turns until each worker's next pull
    elapsed,       \* history: turns since its semaphore was posted, or -1
    semaphore,     \* each worker's semaphore: "none", "key" or "open"
    tickets,       \* its count
    running,       \* each worker's running flag
    stopped,       \* and its stopped flag
    at,            \* where each worker is
    closed,        \* calls complete(NULL) its source has had
    waited         \* rounds that stopAll has waited

flags == <<platform, agentRunning, stop, updateNow, asked>>
timers == <<countdown, elapsed>>
tokens == <<semaphore, tickets>>
workers == <<running, stopped, at, closed>>
vars == <<flags, pool, timers, tokens, workers, waited>>

(* AIX does here what Linux does. *)
Platforms == {"linux", "osx", "windows", "zos"}

Posix == platform \in {"linux", "osx"}

(* stopAllThreads cancels and joins. *)
Cancelling == platform = "linux"

(* Agent::stop waits for the pull thread, which stops the pool. *)
Counting == platform \in {"windows", "zos"}

Stations == {"unstarted", "waiting", "pulling", "adding", "completing",
             "closing", "ended"}

Init ==
    /\ platform \in Platforms
    /\ agentRunning = TRUE
    /\ stop = "none"
    /\ updateNow = FALSE
    /\ asked = FALSE
    /\ pool = "new"
    /\ countdown = [w \in Workers |-> 0]
    /\ elapsed = [w \in Workers |-> -1]
    /\ semaphore = [w \in Workers |-> "none"]
    /\ tickets = [w \in Workers |-> 0]
    /\ running = [w \in Workers |-> FALSE]
    /\ stopped = [w \in Workers |-> TRUE]
    /\ at = [w \in Workers |-> "unstarted"]
    /\ closed = [w \in Workers |-> 0]
    /\ waited = 0

(* Mutant: inc takes its handle for missing. *)
Posted_NoHandle(w) == tickets[w]

(* The workers ask for a maximum of 1, which only Windows is told of. *)
MaxCount == IF platform = "windows" THEN 1 ELSE SemaphoreMax

(* Semaphore::inc; what goes beyond the maximum is lost.  With no handle   *)
(* it does nothing.  On z/OS it opens the set first, and one that this had *)
(* to create is destroyed again: the ticket is lost.                       *)
Posted(w) ==
    IF semaphore[w] = "open" /\ tickets[w] < MaxCount
    THEN tickets[w] + 1 ELSE tickets[w]

(***************************************************************************)
(* The pull thread                                                         *)
(***************************************************************************)

(* The constructor: the system may refuse the semaphore.  On z/OS it only  *)
(* looks for a key, and the set may be left over from an earlier process.  *)
NewSemaphore ==
    {"none", "open"} \cup IF platform = "zos" THEN {"key"} ELSE {}

(* What a new semaphore counts: what the earlier process left, or nothing. *)
NewCount(state) ==
    IF platform = "zos" /\ state = "open" THEN 0..SemaphoreMax ELSE {0}

(* The pull thread makes a WorkerThread for each source and starts them.   *)
(* The result of createThread is not looked at: the workers whose thread   *)
(* cannot be created count as started all the same.                        *)
StartAll ==
    /\ pool = "new"
    /\ pool' = "sleeping"
    /\ running' = [w \in Workers |-> TRUE]
    /\ stopped' = [w \in Workers |-> FALSE]
    /\ \E created \in SUBSET Workers :
          at' = [w \in Workers |->
                    IF w \in created THEN "waiting" ELSE "unstarted"]
    /\ semaphore' \in [Workers -> NewSemaphore]
    /\ tickets' \in [Workers -> 0..SemaphoreMax]
    /\ \A w \in Workers : tickets'[w] \in NewCount(semaphore'[w])
    /\ UNCHANGED <<flags, timers, closed, waited>>

(* Mutant: the threshold is compared the wrong way round. *)
Due_Short(w) ==
    (updateNow /\ countdown[w] < Threshold) \/ countdown[w] = 0

(* WorkerThread::process posts the semaphore. *)
Due(w) == (updateNow /\ countdown[w] > Threshold) \/ countdown[w] = 0

(* Mutant: the countdown starts one too high. *)
Tick_Late ==
    /\ pool = "sleeping"
    /\ agentRunning
    /\ pool' = "ticked"
    /\ tickets' = [w \in Workers |->
                      IF Due(w) THEN Posted(w) ELSE tickets[w]]
    /\ countdown' = [w \in Workers |->
                        IF Due(w) THEN Interval[w] + 1 ELSE countdown[w] - 1]
    /\ elapsed' = [w \in Workers |-> IF Due(w) THEN 0 ELSE elapsed[w] + 1]
    /\ asked' = (asked /\ ~updateNow)
    /\ UNCHANGED <<platform, agentRunning, stop, updateNow, semaphore, workers, waited>>

(* A second has gone by: ThreadPool::process with the flag's value. *)
Tick ==
    /\ pool = "sleeping"
    /\ agentRunning
    /\ pool' = "ticked"
    /\ tickets' = [w \in Workers |->
                      IF Due(w) THEN Posted(w) ELSE tickets[w]]
    /\ countdown' = [w \in Workers |->
                        IF Due(w) THEN Interval[w] ELSE countdown[w] - 1]
    /\ elapsed' = [w \in Workers |-> IF Due(w) THEN 0 ELSE elapsed[w] + 1]
    /\ asked' = (asked /\ ~updateNow)
    /\ UNCHANGED <<platform, agentRunning, stop, updateNow, semaphore, workers, waited>>

(* updateNow = false, in a statement of its own. *)
ClearFlag ==
    /\ pool = "ticked"
    /\ pool' = "sleeping"
    /\ updateNow' = FALSE
    /\ UNCHANGED <<platform, agentRunning, stop, asked, timers, tokens, workers, waited>>

(* Agent::immediateUpdate, called by the thread that serves messages. *)
ImmediateUpdate ==
    /\ agentRunning
    /\ updateNow' = TRUE
    /\ asked' = TRUE
    /\ UNCHANGED <<platform, agentRunning, stop, pool, timers, tokens, workers, waited>>

(***************************************************************************)
(* A worker                                                                *)
(***************************************************************************)

Goto(w, station) == at' = [at EXCEPT ![w] = station]

(* The loop goes on as long as the worker's running flag is set. *)
LoopHead(w) == IF running[w] THEN "waiting" ELSE "closing"

TakeTicket(w) ==
    /\ at[w] = "waiting"
    /\ tickets[w] > 0
    /\ tickets' = [tickets EXCEPT ![w] = @ - 1]
    /\ Goto(w, IF running[w] THEN "pulling" ELSE "closing")
    /\ UNCHANGED <<flags, pool, timers, semaphore, running, stopped, closed, waited>>

(* z/OS: open() in the next wait, or inc, obtains a key for the set.       *)
FindKey(w) ==
    /\ platform = "zos"
    /\ semaphore[w] = "none"
    /\ at[w] \notin {"unstarted", "ended"}
    /\ semaphore' = [semaphore EXCEPT ![w] = "key"]
    /\ UNCHANGED <<flags, pool, timers, tickets, workers, waited>>

(* z/OS: the wait creates the set, with nothing in it. *)
OpenSet(w) ==
    /\ at[w] = "waiting"
    /\ semaphore[w] = "key"
    /\ semaphore' = [semaphore EXCEPT ![w] = "open"]
    /\ UNCHANGED <<flags, pool, timers, tickets, workers, waited>>

(* The wait ends without a ticket, and the worker goes round its loop: the *)
(* time is over or there is no semaphore - for which the POSIX ports wait, *)
(* in the same call.  OS X sleeps through the time and tries once more.    *)
WaitEnds(w) ==
    /\ at[w] = "waiting"
    /\ ~(Posix /\ semaphore[w] = "none")
    /\ Goto(w, LoopHead(w))
    /\ UNCHANGED <<flags, pool, timers, tokens, running, stopped, closed, waited>>

(* Any other error is taken for a ticket: a signal or, on z/OS, that inc   *)
(* has destroyed the set that the wait had just opened.                    *)
WaitFails(w) ==
    /\ at[w] = "waiting"
    /\ platform # "windows"
    /\ semaphore[w] # "none"
    /\ running[w]
    /\ Goto(w, "pulling")
    /\ UNCHANGED <<flags, pool, timers, tokens, running, stopped, closed, waited>>

(* The source returns no data, data to keep or empty data. *)
Pull(w) ==
    /\ at[w] = "pulling"
    /\ \E next \in {LoopHead(w), "adding", "completing"} : Goto(w, next)
    /\ UNCHANGED <<flags, pool, timers, tokens, running, stopped, closed, waited>>

AddData(w) ==
    /\ at[w] = "adding"
    /\ Goto(w, "completing")
    /\ UNCHANGED <<flags, pool, timers, tokens, running, stopped, closed, waited>>

(* The source has its data back. *)
Complete(w) ==
    /\ at[w] = "completing"
    /\ Goto(w, LoopHead(w))
    /\ UNCHANGED <<flags, pool, timers, tokens, running, stopped, closed, waited>>

(* processLoop is left: complete(NULL), and the pool may go. *)
Close(w) ==
    /\ at[w] = "closing"
    /\ Goto(w, "ended")
    /\ closed' = [closed EXCEPT ![w] = @ + 1]
    /\ stopped' = [stopped EXCEPT ![w] = TRUE]
    /\ UNCHANGED <<flags, pool, timers, tokens, running, waited>>

(***************************************************************************)
(* Stopping                                                                *)
(***************************************************************************)

AgentStops ==
    /\ agentRunning
    /\ agentRunning' = FALSE
    /\ stop' = "waiting"
    /\ UNCHANGED <<platform, updateNow, asked, pool, timers, tokens, workers, waited>>

(* Mutant: stopAll leaves the running flags of the workers set. *)
StopAll_StillRunning ==
    /\ Counting
    /\ pool = "sleeping"
    /\ ~agentRunning
    /\ pool' = "stopping"
    /\ tickets' = [w \in Workers |-> Posted(w)]
    /\ UNCHANGED <<flags, timers, semaphore, workers, waited>>

(* Windows, z/OS: the pull thread has left its loop; ThreadPool::stopAll   *)
(* tells every worker to end and posts its semaphore to wake it.           *)
StopAll ==
    /\ Counting
    /\ pool = "sleeping"
    /\ ~agentRunning
    /\ pool' = "stopping"
    /\ running' = [w \in Workers |-> FALSE]
    /\ tickets' = [w \in Workers |-> Posted(w)]
    /\ UNCHANGED <<flags, timers, semaphore, stopped, at, closed, waited>>

(* Mutant: stopAll waits as long as it takes. *)
AwaitWorkers_Patient ==
    /\ pool = "stopping"
    /\ \A w \in Workers : stopped[w]
    /\ pool' = "ended"
    /\ UNCHANGED <<flags, timers, tokens, workers, waited>>

(* It waits until all have stopped, for MaxWait rounds at the most. *)
AwaitWorkers ==
    /\ pool = "stopping"
    /\ IF waited = MaxWait \/ \A w \in Workers : stopped[w]
       THEN pool' = "ended" /\ UNCHANGED waited
       ELSE waited' = waited + 1 /\ UNCHANGED pool
    /\ UNCHANGED <<flags, timers, tokens, workers>>

(* Mutant: the cancelled worker's loop is left as processLoop leaves it,   *)
(* and then cleanUp ends it once more.                                     *)
Cancel_Twice(w) ==
    /\ Cancelling
    /\ ~agentRunning
    /\ at[w] \in {"waiting", "pulling"}
    /\ Goto(w, "ended")
    /\ closed' = [closed EXCEPT ![w] = @ + 2]
    /\ running' = [running EXCEPT ![w] = FALSE]
    /\ tickets' = [tickets EXCEPT ![w] = Posted(w)]
    /\ UNCHANGED <<flags, pool, timers, semaphore, stopped, waited>>

(* Mutant: a worker that waits is not cancelled. *)
Cancel_PullOnly(w) ==
    /\ Cancelling
    /\ ~agentRunning
    /\ at[w] = "pulling"
    /\ Goto(w, "ended")
    /\ closed' = [closed EXCEPT ![w] = @ + 1]
    /\ running' = [running EXCEPT ![w] = FALSE]
    /\ tickets' = [tickets EXCEPT ![w] = Posted(w)]
    /\ UNCHANGED <<flags, pool, timers, semaphore, stopped, waited>>

(* Linux, AIX: stopAllThreads cancels the worker, which acts on it where it may *)
(* block; cleanUp calls stop().                                            *)
Cancel(w) ==
    /\ Cancelling
    /\ ~agentRunning
    /\ at[w] \in {"waiting", "pulling"}
    /\ Goto(w, "ended")
    /\ closed' = [closed EXCEPT ![w] = @ + 1]
    /\ running' = [running EXCEPT ![w] = FALSE]
    /\ tickets' = [tickets EXCEPT ![w] = Posted(w)]
    /\ UNCHANGED <<flags, pool, timers, semaphore, stopped, waited>>

(* The pull thread is cancelled in its sleep, or leaves its loop. *)
EndPool ==
    /\ Posix
    /\ ~agentRunning
    /\ pool = "sleeping"
    /\ pool' = "ended"
    /\ UNCHANGED <<flags, timers, tokens, workers, waited>>

(* Agent::stop goes on to stop the plugins: when it has joined the threads *)
(* it cancelled, when the pull thread has counted itself out of the active *)
(* threads, or at once.                                                    *)
StopGoesOn ==
    /\ stop = "waiting"
    /\ Cancelling \/ Counting => pool = "ended"
    /\ Cancelling => \A w \in Workers : at[w] \in {"unstarted", "ended"}
    /\ stop' = "done"
    /\ UNCHANGED <<platform, agentRunning, updateNow, asked, pool, timers, tokens,
                   workers, waited>>

-----------------------------------------------------------------------------
Pool == StartAll \/ Tick \/ ClearFlag \/ StopAll \/ AwaitWorkers \/ EndPool

Work(w) ==
    \/ FindKey(w) \/ OpenSet(w) \/ TakeTicket(w) \/ WaitEnds(w) \/ WaitFails(w)
    \/ Pull(w) \/ AddData(w) \/ Complete(w) \/ Close(w) \/ Cancel(w)

Next ==
    \/ Pool
    \/ \E w \in Workers : Work(w)
    \/ ImmediateUpdate
    \/ AgentStops
    \/ StopGoesOn

Spec == Init /\ [][Next]_vars

(* The threads go on; a worker that waits while its semaphore is posted    *)
(* gets the ticket; a source may take for ever.  A cancellation stays      *)
(* pending, so that a worker that comes back to its wait ends there.       *)
Fairness ==
    /\ WF_vars(Pool)
    /\ \A w \in Workers :
          /\ WF_vars(TakeTicket(w))
          /\ WF_vars(OpenSet(w))
          /\ WF_vars(AddData(w) \/ Complete(w) \/ Close(w))
          /\ WF_vars(~running[w] /\ WaitEnds(w))
          /\ SF_vars(Cancel(w))

FairSpec == Spec /\ Fairness

(* The sources answer: the assumption of two of the properties, not of the *)
(* specification.                                                          *)
Answering == \A w \in Workers : WF_vars(Pull(w))
-----------------------------------------------------------------------------
(* Every variable stays in its type. *)
TypeOK ==
    /\ platform \in Platforms
    /\ agentRunning \in BOOLEAN
    /\ stop \in {"none", "waiting", "done"}
    /\ updateNow \in BOOLEAN
    /\ asked \in BOOLEAN
    /\ pool \in {"new", "sleeping", "ticked", "stopping", "ended"}
    /\ countdown \in [Workers -> Nat]
    /\ elapsed \in [Workers -> Nat \cup {-1}]
    /\ semaphore \in [Workers -> {"none", "key", "open"}]
    /\ tickets \in [Workers -> 0..SemaphoreMax]
    /\ running \in [Workers -> BOOLEAN]
    /\ stopped \in [Workers -> BOOLEAN]
    /\ at \in [Workers -> Stations]
    /\ closed \in [Workers -> Nat]
    /\ waited \in 0..MaxWait

(* The countdown is what is left of the interval since the semaphore was   *)
(* last posted, whatever immediate updates came in between: no source      *)
(* waits longer than its interval and one turn.                            *)
CountdownMatches ==
    \A w \in Workers :
        IF elapsed[w] = -1 THEN countdown[w] = 0
        ELSE elapsed[w] + countdown[w] = Interval[w]

(* A source is told once that it is done with, by complete(NULL), when its *)
(* worker ends, and is not called after that (the comments on issues 99    *)
(* and 102 in WorkerThread.cpp).                                           *)
ClosedAtTheEnd ==
    \A w \in Workers : closed[w] = IF at[w] = "ended" THEN 1 ELSE 0

(* An immediate update that a turn has seen leaves no source with more     *)
(* than the threshold to wait, except those it has just posted.            *)
UpdateReachesAll ==
    [][pool = "sleeping" /\ pool' = "ticked" /\ updateNow =>
          \A w \in Workers : elapsed'[w] = 0 \/ countdown'[w] < Threshold]_vars

(* After Agent::stop has gone on to stop the plugins ("stop function to    *)
(* end data production", Plugin.h:60), no worker calls its source anew -   *)
(* but on OS X, where the workers go on.                                   *)
NoPullAfterStop ==
    [][platform # "osx" /\ stop = "done" =>
          \A w \in Workers : at'[w] = "pulling" => at[w] = "pulling"]_vars

(* A worker that has its thread and a semaphore calls its source again and *)
(* again while the agent runs, if the sources answer, whatever the port    *)
(* does with its tickets.                                                  *)
SourcesArePulled ==
    Answering =>
        \A w \in Workers :
            at[w] = "waiting" /\ semaphore[w] # "none"
                ~> (at[w] = "pulling" \/ ~agentRunning)

(* The agent's stop is not held up by a source that does not answer: the   *)
(* pull thread ends.                                                       *)
PoolEnds == (~agentRunning /\ pool # "new") ~> pool = "ended"

(* If the sources answer, their workers end as well, but on OS X. *)
WorkersEnd ==
    Answering =>
        \A w \in Workers :
            platform # "osx" /\ ~agentRunning /\ at[w] # "unstarted"
                ~> at[w] = "ended"

(* SystemReceiver.cpp:99: a "headless" message is to "force immediate      *)
(* update for pull sources".                                               *)
UpdateIsSeen == asked ~> (~asked \/ ~agentRunning)
=============================================================================
