-------------------------- MODULE PullWorkersProofs --------------------------
(***************************************************************************)
(* Theorems about PullWorkers for any number of sources, any intervals and *)
(* every port of the thread layer.                                         *)
(***************************************************************************)
EXTENDS PullWorkers, TLAPS

(* Before the pool starts them, no worker does anything. *)
NotYetStarted == pool = "new" => \A w \in Workers : at[w] = "unstarted"

(* Once the pool is being stopped, no worker is told to run. *)
WorkersTold ==
    Counting /\ pool \in {"stopping", "ended"} => \A w \in Workers : ~running[w]

(* What Agent::stop has waited for has happened. *)
StopWaited ==
    stop = "done" /\ platform # "osx" =>
        /\ pool = "ended"
        /\ Cancelling => \A w \in Workers : at[w] \in {"unstarted", "ended"}

IInv ==
    /\ TypeOK
    /\ CountdownMatches
    /\ ClosedAtTheEnd
    /\ NotYetStarted
    /\ WorkersTold
    /\ StopWaited

LEMMA PostedStays ==
    ASSUME TypeOK, NEW w \in Workers
    PROVE  Posted(w) \in 0..SemaphoreMax
<1>1. tickets[w] \in 0..SemaphoreMax /\ MaxCount \in 1..SemaphoreMax
  BY PullAssumption DEF TypeOK, MaxCount
<1> QED
  BY <1>1, PullAssumption DEF Posted

LEMMA LoopHeadFacts ==
    ASSUME NEW w \in Workers
    PROVE  LoopHead(w) \in {"waiting", "closing"}
BY DEF LoopHead

LEMMA InitIInv == Init => IInv
<1> SUFFICES ASSUME Init PROVE IInv
  OBVIOUS
<1>1. 0 \in 0..SemaphoreMax /\ 0 \in 0..MaxWait
  BY PullAssumption
<1> QED
  BY <1>1 DEF Init, IInv, TypeOK, CountdownMatches, ClosedAtTheEnd, NotYetStarted,
              WorkersTold, StopWaited, Stations

(* A turn of the pool, worker by worker. *)
LEMMA TickOfWorker ==
    ASSUME TypeOK, CountdownMatches, Tick, NEW w \in Workers
    PROVE  /\ countdown'[w] \in Nat
           /\ elapsed'[w] \in Nat
           /\ elapsed'[w] + countdown'[w] = Interval[w]
           /\ tickets'[w] \in 0..SemaphoreMax
<1>1. /\ countdown[w] \in Nat /\ elapsed[w] \in Nat \cup {-1}
      /\ tickets[w] \in 0..SemaphoreMax /\ Interval[w] \in Nat
  BY PullAssumption DEF TypeOK
<1>2. CASE Due(w)
  <2>1. Posted(w) \in 0..SemaphoreMax
    BY PostedStays
  <2> QED
    BY <1>1, <1>2, <2>1 DEF Tick
<1>3. CASE ~Due(w)
  <2>1. countdown[w] # 0
    BY <1>3 DEF Due
  <2>2. elapsed[w] # -1 /\ elapsed[w] + countdown[w] = Interval[w]
    BY <2>1 DEF CountdownMatches
  <2>3. countdown'[w] = countdown[w] - 1 /\ elapsed'[w] = elapsed[w] + 1
    BY <1>3 DEF Tick
  <2>4. tickets'[w] = tickets[w]
    BY <1>3 DEF Tick
  <2> QED
    BY <1>1, <2>1, <2>2, <2>3, <2>4
<1> QED
  BY <1>2, <1>3

LEMMA TickIInv == IInv /\ Tick => IInv'
<1> SUFFICES ASSUME IInv, Tick PROVE IInv'
  OBVIOUS
<1> USE DEF IInv
<1>1. \A w \in Workers : /\ countdown'[w] \in Nat
                         /\ elapsed'[w] \in Nat
                         /\ elapsed'[w] + countdown'[w] = Interval[w]
                         /\ tickets'[w] \in 0..SemaphoreMax
  BY TickOfWorker
<1>2. TypeOK'
  <2>1. countdown' \in [Workers -> Nat]
    BY <1>1 DEF Tick
  <2>2. elapsed' \in [Workers -> Nat \cup {-1}]
    BY <1>1 DEF Tick
  <2>3. tickets' \in [Workers -> 0..SemaphoreMax]
    BY <1>1 DEF Tick
  <2> QED
    BY <2>1, <2>2, <2>3 DEF Tick, TypeOK, workers
<1>3. CountdownMatches'
  BY <1>1 DEF CountdownMatches
<1>4. ClosedAtTheEnd'
  BY DEF Tick, ClosedAtTheEnd, workers
<1>5. NotYetStarted' /\ WorkersTold'
  BY DEF Tick, NotYetStarted, WorkersTold
<1>6. StopWaited'
  BY DEF Tick, StopWaited, Cancelling
<1> QED
  BY <1>2, <1>3, <1>4, <1>5, <1>6

(* The rest of the pool's steps, and what else leaves the workers alone. *)
LEMMA PoolIInv ==
    ASSUME IInv,
           StartAll \/ ClearFlag \/ StopAll \/ AwaitWorkers \/ EndPool
              \/ ImmediateUpdate \/ AgentStops \/ StopGoesOn
    PROVE  IInv'
<1> USE DEF IInv, NotYetStarted, Counting, Cancelling
<1>1. ASSUME StartAll PROVE IInv'
  <2>1. at' \in [Workers -> {"waiting", "unstarted"}]
    BY <1>1 DEF StartAll
  <2>2. \A w \in Workers : closed[w] = 0
    BY <1>1 DEF StartAll, ClosedAtTheEnd
  <2>3. semaphore' \in [Workers -> {"none", "key", "open"}]
    BY <1>1 DEF StartAll, NewSemaphore
  <2>4. TypeOK'
    BY <1>1, <2>1, <2>3 DEF StartAll, TypeOK, Stations, flags, timers
  <2>5. CountdownMatches' /\ ClosedAtTheEnd'
    BY <1>1, <2>1, <2>2 DEF StartAll, CountdownMatches, ClosedAtTheEnd, timers
  <2>6. NotYetStarted' /\ WorkersTold' /\ StopWaited'
    BY <1>1 DEF StartAll, WorkersTold, StopWaited, flags
  <2> QED
    BY <2>4, <2>5, <2>6
<1>2. ASSUME StopAll PROVE IInv'
  <2>1. tickets' \in [Workers -> 0..SemaphoreMax]
    BY <1>2, PostedStays DEF StopAll
  <2>2. TypeOK'
    BY <1>2, <2>1 DEF StopAll, TypeOK, flags, timers
  <2>3. CountdownMatches' /\ ClosedAtTheEnd'
    BY <1>2 DEF StopAll, CountdownMatches, ClosedAtTheEnd, timers
  <2>4. NotYetStarted' /\ WorkersTold' /\ StopWaited'
    BY <1>2 DEF StopAll, WorkersTold, StopWaited, flags
  <2> QED
    BY <2>2, <2>3, <2>4
<1>3. ASSUME AwaitWorkers PROVE IInv'
  <2>1. waited' \in 0..MaxWait /\ pool' \in {"stopping", "ended"}
    BY <1>3, PullAssumption DEF AwaitWorkers, TypeOK
  <2>2. TypeOK'
    BY <1>3, <2>1 DEF AwaitWorkers, TypeOK, flags, timers, tokens, workers
  <2>3. CountdownMatches' /\ ClosedAtTheEnd'
    BY <1>3 DEF AwaitWorkers, CountdownMatches, ClosedAtTheEnd, timers, workers
  <2>4. NotYetStarted' /\ WorkersTold' /\ StopWaited'
    BY <1>3, <2>1 DEF AwaitWorkers, WorkersTold, StopWaited, flags, workers
  <2> QED
    BY <2>2, <2>3, <2>4
<1>4. ASSUME ClearFlag \/ EndPool \/ ImmediateUpdate \/ AgentStops PROVE IInv'
  <2>1. TypeOK'
    BY <1>4 DEF ClearFlag, EndPool, ImmediateUpdate, AgentStops, TypeOK,
                flags, timers, tokens, workers
  <2>2. CountdownMatches' /\ ClosedAtTheEnd' /\ NotYetStarted'
    BY <1>4 DEF ClearFlag, EndPool, ImmediateUpdate, AgentStops,
                CountdownMatches, ClosedAtTheEnd, timers, workers
  <2>3. WorkersTold' /\ StopWaited'
    BY <1>4 DEF ClearFlag, EndPool, ImmediateUpdate, AgentStops, Posix,
                WorkersTold, StopWaited, flags, workers
  <2> QED
    BY <2>1, <2>2, <2>3
<1>5. ASSUME StopGoesOn PROVE IInv'
  <2>1. TypeOK' /\ CountdownMatches' /\ ClosedAtTheEnd' /\ NotYetStarted'
    BY <1>5 DEF StopGoesOn, TypeOK, CountdownMatches, ClosedAtTheEnd,
                timers, tokens, workers
  <2>2. WorkersTold'
    BY <1>5 DEF StopGoesOn, WorkersTold, workers
  <2>3. StopWaited'
    BY <1>5 DEF StopGoesOn, StopWaited, TypeOK, Platforms, workers
  <2> QED
    BY <2>1, <2>2, <2>3
<1> QED
  BY <1>1, <1>2, <1>3, <1>4, <1>5

LEMMA WorkIInv ==
    ASSUME IInv, NEW w \in Workers, Work(w)
    PROVE  IInv'
<1> USE DEF IInv, NotYetStarted, Counting, Cancelling
<1>1. ASSUME TakeTicket(w) PROVE IInv'
  <2>1. tickets' \in [Workers -> 0..SemaphoreMax]
    <3>1. tickets[w] \in 0..SemaphoreMax /\ tickets[w] > 0
      BY <1>1 DEF TakeTicket, TypeOK
    <3>2. tickets[w] - 1 \in 0..SemaphoreMax
      BY <3>1, PullAssumption
    <3> QED
      BY <1>1, <3>2 DEF TakeTicket, TypeOK
  <2>2. TypeOK'
    BY <1>1, <2>1 DEF TakeTicket, Goto, TypeOK, Stations, flags, timers
  <2>3. CountdownMatches' /\ ClosedAtTheEnd' /\ NotYetStarted'
    BY <1>1 DEF TakeTicket, Goto, TypeOK, CountdownMatches, ClosedAtTheEnd, timers
  <2>4. WorkersTold' /\ StopWaited'
    BY <1>1 DEF TakeTicket, WorkersTold, StopWaited, flags
  <2> QED
    BY <2>2, <2>3, <2>4
<1>2. ASSUME NEW station \in Stations \ {"ended"}, Goto(w, station), 
             at[w] \notin {"unstarted", "ended"},
             UNCHANGED <<flags, pool, timers, tokens, running, stopped, closed, waited>>
      PROVE  IInv'
  <2>1. TypeOK'
    BY <1>2 DEF Goto, TypeOK, flags, timers, tokens
  <2>2. CountdownMatches' /\ ClosedAtTheEnd' /\ NotYetStarted'
    BY <1>2 DEF Goto, TypeOK, CountdownMatches, ClosedAtTheEnd, timers
  <2>3. WorkersTold' /\ StopWaited'
    BY <1>2 DEF WorkersTold, StopWaited, flags
  <2> QED
    BY <2>1, <2>2, <2>3
<1>3. ASSUME WaitEnds(w) \/ WaitFails(w) \/ Pull(w) \/ AddData(w) \/ Complete(w)
      PROVE  IInv'
  <2>1. \E station \in Stations \ {"ended"} : Goto(w, station)
    BY <1>3, LoopHeadFacts DEF WaitEnds, WaitFails, Pull, AddData, Complete, Stations
  <2>2. at[w] \notin {"unstarted", "ended"}
    BY <1>3 DEF WaitEnds, WaitFails, Pull, AddData, Complete
  <2>3. UNCHANGED <<flags, pool, timers, tokens, running, stopped, closed, waited>>
    BY <1>3 DEF WaitEnds, WaitFails, Pull, AddData, Complete
  <2> QED
    BY <1>2, <2>1, <2>2, <2>3
<1>4. ASSUME Close(w) PROVE IInv'
  <2>1. closed[w] = 0
    BY <1>4 DEF Close, ClosedAtTheEnd
  <2>2. TypeOK'
    BY <1>4, <2>1 DEF Close, Goto, TypeOK, Stations, flags, timers, tokens
  <2>3. CountdownMatches' /\ ClosedAtTheEnd' /\ NotYetStarted'
    BY <1>4, <2>1 DEF Close, Goto, TypeOK, CountdownMatches, ClosedAtTheEnd, timers
  <2>4. WorkersTold' /\ StopWaited'
    BY <1>4 DEF Close, WorkersTold, StopWaited, flags
  <2> QED
    BY <2>2, <2>3, <2>4
<1>5. ASSUME Cancel(w) PROVE IInv'
  <2>1. closed[w] = 0
    BY <1>5 DEF Cancel, ClosedAtTheEnd
  <2>2. tickets' \in [Workers -> 0..SemaphoreMax]
    <3>1. Posted(w) \in 0..SemaphoreMax
      BY PostedStays
    <3> QED
      BY <1>5, <3>1 DEF Cancel, TypeOK
  <2>3. TypeOK'
    BY <1>5, <2>1, <2>2 DEF Cancel, Goto, TypeOK, Stations, flags, timers
  <2>4. CountdownMatches' /\ ClosedAtTheEnd' /\ NotYetStarted'
    BY <1>5, <2>1 DEF Cancel, Goto, TypeOK, CountdownMatches, ClosedAtTheEnd, timers
  <2>5. WorkersTold' /\ StopWaited'
    BY <1>5 DEF Cancel, Goto, TypeOK, WorkersTold, StopWaited, flags
  <2> QED
    BY <2>3, <2>4, <2>5
<1>6. ASSUME FindKey(w) \/ OpenSet(w) PROVE IInv'
  <2>1. semaphore' \in [Workers -> {"none", "key", "open"}]
    BY <1>6 DEF FindKey, OpenSet, TypeOK
  <2>2. UNCHANGED <<flags, pool, timers, tickets, workers, waited>>
    BY <1>6 DEF FindKey, OpenSet
  <2>3. TypeOK' /\ CountdownMatches' /\ ClosedAtTheEnd' /\ NotYetStarted'
    BY <2>1, <2>2 DEF TypeOK, CountdownMatches, ClosedAtTheEnd, flags, timers, workers
  <2>4. WorkersTold' /\ StopWaited'
    BY <2>2 DEF WorkersTold, StopWaited, flags, workers
  <2> QED
    BY <2>3, <2>4
<1> QED
  BY <1>1, <1>3, <1>4, <1>5, <1>6 DEF Work

LEMMA NextIInv == IInv /\ [Next]_vars => IInv'
<1> SUFFICES ASSUME IInv, [Next]_vars PROVE IInv'
  OBVIOUS
<1>1. ASSUME UNCHANGED vars PROVE IInv'
  BY <1>1 DEF vars, flags, timers, tokens, workers, IInv, NotYetStarted, TypeOK,
              CountdownMatches, ClosedAtTheEnd, WorkersTold, StopWaited,
              Counting, Cancelling
<1> QED
  BY <1>1, TickIInv, PoolIInv, WorkIInv DEF Next, Pool

(* Every variable stays in its type, for any number of sources. *)
THEOREM TypeCorrect == Spec => []TypeOK
<1>1. IInv => TypeOK
  BY DEF IInv
<1> QED
  BY InitIInv, NextIInv, <1>1, PTL DEF Spec

(* The countdown of a source is always what is left of its interval since  *)
(* its worker was last woken, so none waits more than one turn longer.     *)
THEOREM CountdownIsExact == Spec => []CountdownMatches
<1>1. IInv => CountdownMatches
  BY DEF IInv
<1> QED
  BY InitIInv, NextIInv, <1>1, PTL DEF Spec

(* complete(NULL) comes once, at the end of the worker, whether it is      *)
(* stopped by its flag or cancelled.                                       *)
THEOREM ClosedOnce == Spec => []ClosedAtTheEnd
<1>1. IInv => ClosedAtTheEnd
  BY DEF IInv
<1> QED
  BY InitIInv, NextIInv, <1>1, PTL DEF Spec

(* An immediate update that a turn sees leaves no source with more than    *)
(* the threshold to wait.                                                  *)
THEOREM UpdateReaches == Spec => UpdateReachesAll
<1> DEFINE Reaches ==
      pool = "sleeping" /\ pool' = "ticked" /\ updateNow =>
          \A w \in Workers : elapsed'[w] = 0 \/ countdown'[w] < Threshold
<1>1. IInv /\ [Next]_vars => [Reaches]_vars
  <2> SUFFICES ASSUME IInv, Next, pool = "sleeping", pool' = "ticked", updateNow,
                      NEW w \in Workers
               PROVE  elapsed'[w] = 0 \/ countdown'[w] < Threshold
    OBVIOUS
  <2>1. Tick
    BY DEF Next, Pool, StartAll, ClearFlag, StopAll, AwaitWorkers, EndPool,
           Work, FindKey, OpenSet, TakeTicket, WaitEnds, WaitFails, Pull, AddData, Complete, Close, Cancel,
           ImmediateUpdate, AgentStops, StopGoesOn
  <2>2. CASE Due(w)
    BY <2>1, <2>2 DEF Tick
  <2>3. CASE ~Due(w)
    <3>1. countdown[w] \in Nat /\ Threshold \in Nat
      BY PullAssumption DEF IInv, TypeOK
    <3>2. ~(countdown[w] > Threshold) /\ countdown'[w] = countdown[w] - 1
      BY <2>1, <2>3 DEF Tick, Due
    <3> QED
      BY <3>1, <3>2
  <2> QED
    BY <2>2, <2>3
<1> QED
  BY InitIInv, NextIInv, <1>1, PTL DEF Spec, UpdateReachesAll

(* Once Agent::stop has gone on to the plugins, no source is called anew,  *)
(* whether the port cancels its threads or counts them (but on OS X).      *)
THEOREM NoPullLater == Spec => NoPullAfterStop
<1> DEFINE Stays ==
      platform # "osx" /\ stop = "done" =>
          \A w \in Workers : at'[w] = "pulling" => at[w] = "pulling"
<1>1. IInv /\ [Next]_vars => [Stays]_vars
  <2> SUFFICES ASSUME IInv, Next, platform # "osx", stop = "done",
                      NEW w \in Workers, at'[w] = "pulling", at[w] # "pulling"
               PROVE  FALSE
    OBVIOUS
  <2>1. pool = "ended" /\ TypeOK
    BY DEF IInv, StopWaited
  <2>2. at'[w] # at[w]
    OBVIOUS
  <2>3. PICK v \in Workers : Work(v)
    BY <2>1, <2>2 DEF Next, Pool, StartAll, Tick, ClearFlag, StopAll, AwaitWorkers,
                      EndPool, ImmediateUpdate, AgentStops, StopGoesOn, workers
  <2>4. v = w
    BY <2>1, <2>2, <2>3 DEF Work, FindKey, OpenSet, TakeTicket, WaitEnds, WaitFails,
           Pull, AddData, Complete, Close, Cancel, Goto, TypeOK, workers
  <2>5. at[w] = "waiting" /\ running[w]
    BY <2>1, <2>2, <2>3, <2>4 DEF Work, FindKey, OpenSet, TakeTicket, WaitEnds,
           WaitFails, LoopHead, Pull, AddData, Complete, Close, Cancel, Goto, TypeOK,
           workers
  <2>6. CASE Cancelling
    BY <2>5, <2>6 DEF IInv, StopWaited
  <2>7. CASE Counting
    BY <2>1, <2>5, <2>7 DEF IInv, WorkersTold
  <2> QED
    BY <2>1, <2>6, <2>7 DEF TypeOK, Platforms, Cancelling, Counting
<1> QED
  BY InitIInv, NextIInv, <1>1, PTL DEF Spec, NoPullAfterStop
=============================================================================
