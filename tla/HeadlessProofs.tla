--------------------------- MODULE HeadlessProofs ---------------------------
(***************************************************************************)
(* Proofs about Headless: its types, and that every set of files that is   *)
(* left behind, or left by stop(), has been announced with all that was    *)
(* written to it in its time.                                              *)
(***************************************************************************)
EXTENDS Headless, TLAPS

(* The request flag tells the truth, and the current set can be reached. *)
CurrentSet ==
    /\ phase # "new" => gen \in Sets
    /\ gen = 0 => known = {}
    /\ \A s \in Sources : gen \in Sets => <<gen, s>> \in known
    /\ filesInitialized => asked

(* Nothing is held that was written to a set in its time, *)
NothingPlain == \A f \in Files : "plain" \notin held[f]

(* while nothing is collected, and when the connector is stopped. *)
PauseIsClean ==
    /\ ~collect => NothingPlain
    /\ phase \in {"new", "stopped"} => NothingPlain

(* Where the threads are cancelled, there is one for the latest start at   *)
(* most, and no run's end is skipped.                                      *)
NothingSkipped ==
    settings.cancels =>
        /\ \A t \in Alive : t = starts /\ phase = "started" /\ running
        /\ \A t \in Starts : timer[t] # "skipping"
        /\ \A f \in Files : "skipped" \notin held[f]

Stopping ==
    /\ phase \in {"new", "stopping", "stopped"} => ~running
    /\ phase = "new" => \A f \in Files : held[f] = {}
    /\ phase = "new" => sender = NoSource /\ Alive = {}

IInv ==
    /\ TypeOK
    /\ CurrentSet
    /\ LeftBehindIsAnnounced
    /\ EverySetBeginsWithARequest
    /\ PauseIsClean
    /\ NothingSkipped
    /\ Stopping

(* The settings are what the runs and the platform need. *)
LEMMA SettingsType ==
    ASSUME settings \in Settings
    PROVE  /\ settings.runs \in 0..MaxRuns
           /\ settings.cancels \in BOOLEAN
           /\ settings.pause \in BOOLEAN
           /\ settings.delay \in BOOLEAN
           /\ settings.clash \in BOOLEAN
           /\ settings.periodic \in BOOLEAN
  BY DEF Settings

(* A notice empties what it can reach of the current directory: nothing    *)
(* of the current set's own time is left, and nothing is added.            *)
LEMMA NoticeClears ==
    ASSUME IInv, phase # "new"
    PROVE  /\ HeldAfterNotice \in [Files -> SUBSET Classes]
           /\ \A f \in Files : "plain" \notin HeldAfterNotice[f]
           /\ \A f \in Files : HeldAfterNotice[f] \subseteq held[f]
<1>1. HeldAfterNotice \in [Files -> SUBSET Classes]
  BY DEF HeldAfterNotice, IInv, TypeOK
<1>2. ASSUME NEW f \in Files
      PROVE  /\ "plain" \notin HeldAfterNotice[f]
             /\ HeldAfterNotice[f] \subseteq held[f]
  <2>1. gen \in Sets
    BY DEF IInv, CurrentSet
  <2>2. "plain" \in held[f] => f[1] = gen
    BY <1>2 DEF IInv, LeftBehindIsAnnounced
  <2>3. f = <<f[1], f[2]>> /\ f[2] \in Sources
    BY <1>2 DEF Files
  <2>4. f[1] = gen => f \in known
    BY <2>1, <2>3 DEF IInv, CurrentSet
  <2> QED
    BY <1>2, <2>1, <2>2, <2>4 DEF HeldAfterNotice
<1> QED
  BY <1>1, <1>2

(* A new set is the current one, within reach, and nothing is asked yet. *)
LEMMA NewSetTypes ==
    ASSUME TypeOK, NEW kept \in SUBSET Files, NewSet(kept)
    PROVE  /\ gen' \in Sets
           /\ gen' \in 0..MaxSets
           /\ dir' \in [Sets -> Sets]
           /\ known' \in SUBSET Files
           /\ \A s \in Sources : <<gen', s>> \in known'
           /\ filesInitialized' = FALSE
           /\ asked' = FALSE
<1>1. gen \in Nat /\ MaxSets \in Nat /\ gen < MaxSets /\ gen' = gen + 1
  BY HeadlessAssumption DEF TypeOK, NewSet
<1>2. gen' \in Sets /\ gen' \in 0..MaxSets
  BY <1>1 DEF Sets
<1>3. PICK d \in {gen + 1} \cup {dir[f[1]] : f \in kept \cap ({gen} \X Sources)} :
         /\ dir' = [dir EXCEPT ![gen + 1] = d]
         /\ known' = {f \in kept : dir[f[1]] # d} \cup ({gen + 1} \X Sources)
  BY DEF NewSet
<1>4. \A f \in Files : f[1] \in Sets
  BY DEF Files
<1>5. d \in Sets
  BY <1>1, <1>2, <1>3, <1>4 DEF TypeOK
<1>6. dir' \in [Sets -> Sets]
  BY <1>3, <1>5 DEF TypeOK
<1>7. known' \in SUBSET Files
  BY <1>1, <1>2, <1>3 DEF Files
<1>8. \A s \in Sources : <<gen', s>> \in known'
  BY <1>1, <1>3
<1> QED
  BY <1>2, <1>6, <1>7, <1>8 DEF NewSet

(* The invariant holds initially. *)
LEMMA Initially == Init => IInv
<1> SUFFICES ASSUME Init PROVE IInv
  OBVIOUS
<1>1. TypeOK
  <2>1. held \in [Files -> SUBSET Classes] /\ dir \in [Sets -> Sets]
    BY DEF Init
  <2>2. 0 \in 0..MaxStarts /\ 0 \in 0..MaxSets /\ 0 \in 0..MaxRolls
    BY HeadlessAssumption
  <2>3. timer \in [Starts -> Places] /\ seen \in [Starts -> Nat]
    BY DEF Init, Places
  <2> QED
    BY <2>1, <2>2, <2>3 DEF Init, TypeOK
<1>2. \A f \in Files : held[f] = {}
  BY DEF Init
<1>3. 0 \notin Sets
  BY DEF Sets
<1> QED
  BY <1>1, <1>2, <1>3 DEF Init, IInv, CurrentSet, Alive,
       LeftBehindIsAnnounced, EverySetBeginsWithARequest, PauseIsClean,
       NothingPlain, NothingSkipped, Stopping, Sets

-----------------------------------------------------------------------------
(* Every step keeps it. *)
-----------------------------------------------------------------------------
LEMMA StartKeeps == ASSUME IInv, Start PROVE IInv'
<1>1. /\ gen' \in Sets /\ gen' \in 0..MaxSets /\ dir' \in [Sets -> Sets]
      /\ known' \in SUBSET Files
      /\ \A s \in Sources : <<gen', s>> \in known'
      /\ filesInitialized' = FALSE /\ asked' = FALSE
  BY NewSetTypes, {} \in SUBSET Files DEF IInv, Start
<1>2. NothingPlain /\ held' = held
  BY DEF IInv, PauseIsClean, Start
<1>3. starts + 1 \in Starts
  BY HeadlessAssumption DEF IInv, TypeOK, Start, Starts
<1>4. /\ timer' \in [Starts -> Places]
      /\ single' \in BOOLEAN
      /\ \A t \in Starts : timer'[t] # timer[t]
            => t = starts + 1 /\ timer'[t] \in {"delay", "head"} /\ ~settings.clash
  BY <1>3 DEF IInv, TypeOK, Places, Start, CreateTimer, Goto
<1>5. TypeOK'
  <2>1. starts' \in 0..MaxStarts /\ timesRun' \in Nat
    BY HeadlessAssumption DEF IInv, TypeOK, Start
  <2>2. collect' \in BOOLEAN /\ running' \in BOOLEAN
    BY SettingsType DEF IInv, TypeOK, Start
  <2>3. ran' \subseteq Sets
    BY DEF Start
  <2> QED
    BY <1>1, <1>4, <2>1, <2>2, <2>3 DEF IInv, TypeOK, Start
<1>6. CurrentSet'
  BY <1>1 DEF CurrentSet, Sets
<1>7. LeftBehindIsAnnounced' /\ EverySetBeginsWithARequest' /\ NothingPlain'
  BY <1>2 DEF NothingPlain, LeftBehindIsAnnounced, EverySetBeginsWithARequest
<1>8. PauseIsClean'
  BY <1>7 DEF PauseIsClean
<1>9. NothingSkipped'
  <2> SUFFICES ASSUME settings.cancels
               PROVE  /\ \A t \in Alive' :
                            t = starts' /\ phase' = "started" /\ running'
                      /\ \A t \in Starts : timer'[t] # "skipping"
                      /\ \A f \in Files : "skipped" \notin held'[f]
    BY DEF NothingSkipped, Start
  <2>1. Alive = {}
    BY DEF IInv, NothingSkipped, Stopping, Start
  <2>2. \A t \in Alive' : t = starts + 1 /\ ~settings.clash
    BY <1>4, <2>1 DEF Alive
  <2> QED
    BY <1>2, <1>4, <2>2 DEF IInv, NothingSkipped, Start
<1>10. Stopping'
  BY DEF Stopping, Start
<1> QED
  BY <1>5, <1>6, <1>7, <1>8, <1>9, <1>10 DEF IInv

LEMMA OfferKeeps == ASSUME IInv, NEW s \in Sources, Offer(s) PROVE IInv'
  BY DEF Offer, IInv, TypeOK, CurrentSet, LeftBehindIsAnnounced, Alive,
       EverySetBeginsWithARequest, PauseIsClean, NothingPlain, NothingSkipped,
       Stopping, counts, flags, files, story

LEMMA TurnedAwayKeeps == ASSUME IInv, TurnedAway PROVE IInv'
  BY DEF TurnedAway, IInv, TypeOK, CurrentSet, LeftBehindIsAnnounced, Alive,
       EverySetBeginsWithARequest, PauseIsClean, NothingPlain, NothingSkipped,
       Stopping, counts, flags, files, story

LEMMA WriteKeeps == ASSUME IInv, Write PROVE IInv'
<1> DEFINE file == <<gen, sender>>
<1>1. sender \in Sources /\ gen \in Sets /\ file \in Files
  BY DEF IInv, TypeOK, CurrentSet, Stopping, Write, Files
<1>2. /\ held' = [held EXCEPT ![file] = @ \cup {"plain"}]
      /\ open' = open \cup {file}
      /\ asked' = TRUE /\ filesInitialized' = TRUE
  BY DEF Write, IInv, CurrentSet
<1>4. held' \in [Files -> SUBSET Classes]
  BY <1>1, <1>2 DEF IInv, TypeOK, Classes
<1>5. \A f \in Files : f # file => held'[f] = held[f]
  BY <1>1, <1>2 DEF IInv, TypeOK
<1>6. held'[file] = held[file] \cup {"plain"}
  BY <1>1, <1>2 DEF IInv, TypeOK
<1>7. TypeOK'
  BY <1>1, <1>2, <1>4 DEF IInv, TypeOK, Write, counts, story
<1>8. CurrentSet'
  BY <1>2 DEF IInv, CurrentSet, Write
<1>9. LeftBehindIsAnnounced' /\ EverySetBeginsWithARequest'
  <2>1. file[1] = gen /\ gen' = gen
    BY DEF Write
  <2> QED
    BY <1>2, <1>5, <2>1 DEF IInv, LeftBehindIsAnnounced, EverySetBeginsWithARequest
<1>10. PauseIsClean'
  BY DEF IInv, PauseIsClean, Stopping, Write, Collecting
<1>11. NothingSkipped'
  BY <1>5, <1>6 DEF IInv, NothingSkipped, Alive, Write
<1>12. Stopping'
  BY DEF IInv, Stopping, Write, Collecting
<1> QED
  BY <1>7, <1>8, <1>9, <1>10, <1>11, <1>12 DEF IInv

LEMMA RollOverKeeps == ASSUME IInv, RollOver PROVE IInv'
<1> DEFINE file == <<gen, sender>>
<1>1. sender \in Sources /\ gen \in Sets /\ file \in Files /\ phase # "new"
  BY DEF IInv, TypeOK, CurrentSet, Stopping, RollOver, Files
<1>2. /\ gen' \in Sets /\ gen' \in 0..MaxSets /\ dir' \in [Sets -> Sets]
      /\ known' \in SUBSET Files
      /\ \A s \in Sources : <<gen', s>> \in known'
      /\ filesInitialized' = FALSE /\ asked' = FALSE
  BY NewSetTypes DEF IInv, TypeOK, RollOver
<1>3. held' = [HeldAfterNotice EXCEPT ![file] = @ \cup {"trigger"}]
  BY DEF RollOver
<1>4. /\ HeldAfterNotice \in [Files -> SUBSET Classes]
      /\ \A f \in Files : "plain" \notin HeldAfterNotice[f]
      /\ \A f \in Files : HeldAfterNotice[f] \subseteq held[f]
  BY <1>1, NoticeClears
<1>5. held' \in [Files -> SUBSET Classes]
  BY <1>1, <1>3, <1>4 DEF Classes
<1>6. \A f \in Files : held'[f] \subseteq held[f] \cup {"trigger"}
  BY <1>1, <1>3, <1>4
<1>7. NothingPlain'
  BY <1>1, <1>3, <1>4 DEF NothingPlain
<1>8. TypeOK'
  <2>1. open' \subseteq Files
    BY <1>1 DEF IInv, TypeOK, RollOver
  <2>2. rolls' \in 0..MaxRolls
    BY HeadlessAssumption DEF IInv, TypeOK, RollOver
  <2> QED
    BY <1>2, <1>5, <2>1, <2>2 DEF IInv, TypeOK, RollOver, counts, story
<1>9. CurrentSet'
  BY <1>2 DEF CurrentSet, Sets
<1>10. LeftBehindIsAnnounced' /\ EverySetBeginsWithARequest' /\ PauseIsClean'
  BY <1>7 DEF NothingPlain, LeftBehindIsAnnounced, EverySetBeginsWithARequest,
       PauseIsClean
<1>11. NothingSkipped'
  BY <1>6 DEF IInv, NothingSkipped, Alive, RollOver
<1>12. Stopping'
  BY DEF IInv, Stopping, RollOver, Collecting
<1> QED
  BY <1>8, <1>9, <1>10, <1>11, <1>12 DEF IInv

(* A thread that goes on to another place than "skipping" disturbs nothing *)
(* of what the invariant says of threads.                                  *)
LEMMA GoingOn ==
    ASSUME IInv, NEW t \in Alive, NEW place \in Places \ {"skipping"}, Goto(t, place)
    PROVE  /\ timer' \in [Starts -> Places]
           /\ Alive' \subseteq Alive
           /\ \A u \in Starts : timer'[u] = "skipping" => timer[u] = "skipping"
           /\ phase # "new"
  BY DEF IInv, TypeOK, Goto, Alive, Places, Stopping

LEMMA LoopHeadKeeps ==
    ASSUME IInv, NEW t \in Starts, LoopHead(t) \/ Leave(t) PROVE IInv'
<1>1. t \in Alive
  BY DEF LoopHead, Leave, Alive
<1>2. \E place \in Places \ {"skipping"} : Goto(t, place)
  BY DEF LoopHead, Leave, Places
<1>3. /\ timer' \in [Starts -> Places]
      /\ Alive' \subseteq Alive
      /\ \A u \in Starts : timer'[u] = "skipping" => timer[u] = "skipping"
      /\ phase # "new"
  BY <1>1, <1>2, GoingOn
<1>4. /\ UNCHANGED <<settings, phase, starts, counts, sender, lock,
                     filesInitialized, files, rolls, story>>
      /\ running' \in BOOLEAN /\ collect' \in BOOLEAN /\ headlessRunning' \in BOOLEAN
      /\ running' => running
      /\ collect => collect'
  <2>1. CASE LoopHead(t)
    <3>1. UNCHANGED <<settings, phase, starts, counts, sender, lock, running,
                      headlessRunning, filesInitialized, files, rolls, story>>
      BY <2>1 DEF LoopHead
    <3>2. collect' \in BOOLEAN /\ (collect => collect')
      BY <2>1 DEF LoopHead, IInv, TypeOK
    <3> QED
      BY <3>1, <3>2, Zenon DEF IInv, TypeOK
  <2>2. CASE Leave(t)
    <3>1. UNCHANGED <<settings, phase, starts, counts, sender, lock, collect,
                      filesInitialized, files, rolls, story>>
      BY <2>2 DEF Leave
    <3>2. /\ running' = (running /\ ~InRuns)
          /\ headlessRunning' = (headlessRunning /\ ~InRuns /\ ~Periodic)
      BY <2>2 DEF Leave
    <3> QED
      BY <3>1, <3>2, Zenon DEF IInv, TypeOK
  <2> QED
    BY <2>1, <2>2
<1>5. TypeOK' /\ CurrentSet'
  BY <1>3, <1>4 DEF IInv, TypeOK, CurrentSet, counts, files, story
<1>6. LeftBehindIsAnnounced' /\ EverySetBeginsWithARequest' /\ PauseIsClean'
  BY <1>4 DEF IInv, LeftBehindIsAnnounced, EverySetBeginsWithARequest, PauseIsClean,
       NothingPlain, files
<1>7. NothingSkipped'
  <2>1. ASSUME settings.cancels, NEW u \in Alive' PROVE running'
    <3>1. CASE LoopHead(t)
      BY <1>3, <2>1, <3>1 DEF IInv, NothingSkipped, LoopHead
    <3>2. CASE Leave(t)
      <4>1. timer'[t] = "ended" /\ timer'[u] # "ended" /\ u \in Alive
        BY <1>3, <2>1, <3>2 DEF IInv, TypeOK, Alive, Leave, Goto
      <4>2. u = starts /\ t = starts
        BY <1>1, <2>1, <4>1 DEF IInv, NothingSkipped
      <4> QED
        BY <4>1, <4>2
    <3> QED
      BY <3>1, <3>2
  <2> QED
    BY <1>3, <1>4, <2>1 DEF IInv, NothingSkipped, files
<1>8. Stopping'
  BY <1>3, <1>4 DEF IInv, Stopping, files
<1> QED
  BY <1>5, <1>6, <1>7, <1>8 DEF IInv

(* Steps of the connector's thread that leave the files alone. *)
LEMMA WaitingKeeps ==
    ASSUME IInv, NEW t \in Starts,
           DelayEnds(t) \/ RunEnds(t) \/ Unlock(t) \/ PauseEnds(t)
    PROVE  IInv'
<1>1. t \in Alive
  BY DEF DelayEnds, RunEnds, Unlock, PauseEnds, Alive
<1>2. \E place \in Places \ {"skipping"} : Goto(t, place)
  BY DEF DelayEnds, RunEnds, Unlock, PauseEnds, Places
<1>3. /\ timer' \in [Starts -> Places]
      /\ Alive' \subseteq Alive
      /\ \A u \in Starts : timer'[u] = "skipping" => timer[u] = "skipping"
      /\ phase # "new"
  BY <1>1, <1>2, GoingOn
<1>4. /\ lock' \in BOOLEAN /\ seen' \in [Starts -> Nat]
      /\ UNCHANGED <<settings, phase, starts, timesRun, sender, flags, files, rolls,
                     story>>
  BY DEF IInv, TypeOK, DelayEnds, RunEnds, Unlock, PauseEnds, counts
<1>5. TypeOK' /\ CurrentSet'
  BY <1>3, <1>4 DEF IInv, TypeOK, CurrentSet, files, flags, story
<1>6. LeftBehindIsAnnounced' /\ EverySetBeginsWithARequest' /\ PauseIsClean'
  BY <1>4 DEF IInv, LeftBehindIsAnnounced, EverySetBeginsWithARequest, PauseIsClean,
       NothingPlain, files, flags
<1>7. NothingSkipped' /\ Stopping'
  BY <1>3, <1>4 DEF IInv, NothingSkipped, Stopping, files, flags
<1> QED
  BY <1>5, <1>6, <1>7 DEF IInv

LEMMA CountRunKeeps == ASSUME IInv, NEW t \in Starts, CountRun(t) PROVE IInv'
<1>1. /\ timer' \in [Starts -> Places]
      /\ Alive' \subseteq Alive
      /\ \A u \in Starts :
            timer'[u] = "skipping" => timer[u] = "skipping" \/ ~running
      /\ t \in Alive
  BY DEF IInv, TypeOK, CountRun, Goto, Alive, Places
<1>2. phase # "new"
  BY <1>1 DEF IInv, Stopping
<1>3. timesRun' \in Nat /\ seen' \in [Starts -> Nat]
  BY DEF IInv, TypeOK, CountRun
<1>4. UNCHANGED <<settings, phase, starts, sender, lock, flags, files, rolls, story>>
  BY DEF CountRun
<1>5. TypeOK' /\ CurrentSet'
  BY <1>1, <1>3, <1>4 DEF IInv, TypeOK, CurrentSet, files, flags, story
<1>6. LeftBehindIsAnnounced' /\ EverySetBeginsWithARequest' /\ PauseIsClean'
  BY <1>4 DEF IInv, LeftBehindIsAnnounced, EverySetBeginsWithARequest, PauseIsClean,
       NothingPlain, files, flags
<1>7. NothingSkipped' /\ Stopping'
  BY <1>1, <1>2, <1>4 DEF IInv, NothingSkipped, Stopping, files, flags
<1> QED
  BY <1>5, <1>6, <1>7 DEF IInv

LEMMA CloseRunKeeps == ASSUME IInv, NEW t \in Starts, CloseRun(t) PROVE IInv'
<1>1. t \in Alive /\ Goto(t, "locked") /\ "locked" \in Places \ {"skipping"}
  BY DEF CloseRun, Alive, Places
<1>2. /\ timer' \in [Starts -> Places]
      /\ Alive' \subseteq Alive
      /\ \A u \in Starts : timer'[u] = "skipping" => timer[u] = "skipping"
      /\ phase # "new"
  BY <1>1, GoingOn
<1>3. gen \in Sets
  BY <1>2 DEF IInv, CurrentSet
<1>4. held' = HeldAfterNotice /\ open' = open \ known
  BY DEF CloseRun
<1>5. /\ held' \in [Files -> SUBSET Classes]
      /\ NothingPlain'
      /\ \A f \in Files : held'[f] \subseteq held[f]
  BY <1>2, <1>4, NoticeClears DEF NothingPlain
<1>6. /\ gen' \in Sets /\ gen' \in 0..MaxSets /\ dir' \in [Sets -> Sets]
      /\ known' \in SUBSET Files
      /\ \A s \in Sources : <<gen', s>> \in known'
      /\ filesInitialized' \in BOOLEAN /\ asked' \in BOOLEAN
      /\ filesInitialized' => asked'
  <2>1. CASE NewSet(known)
    BY <2>1, NewSetTypes DEF IInv, TypeOK
  <2>2. CASE SameSet
    BY <1>3, <2>2 DEF IInv, TypeOK, CurrentSet, SameSet
  <2> QED
    BY <2>1, <2>2 DEF CloseRun
<1>7. TypeOK'
  <2>1. ran' \subseteq Sets
    BY <1>3 DEF IInv, TypeOK, CloseRun
  <2> QED
    BY <1>2, <1>4, <1>5, <1>6, <2>1 DEF IInv, TypeOK, CloseRun, counts
<1>8. CurrentSet'
  BY <1>6 DEF CurrentSet, Sets
<1>9. LeftBehindIsAnnounced' /\ EverySetBeginsWithARequest' /\ PauseIsClean'
  BY <1>5 DEF NothingPlain, LeftBehindIsAnnounced, EverySetBeginsWithARequest,
       PauseIsClean
<1>10. NothingSkipped'
  BY <1>2, <1>5 DEF IInv, NothingSkipped, CloseRun
<1>11. Stopping'
  BY <1>2 DEF IInv, Stopping, CloseRun
<1> QED
  BY <1>7, <1>8, <1>9, <1>10, <1>11 DEF IInv

LEMMA PauseKeeps == ASSUME IInv, NEW t \in Starts, Pause(t) PROVE IInv'
<1>1. t \in Alive /\ \E place \in Places \ {"skipping"} : Goto(t, place)
  BY DEF Pause, Alive, Places
<1>2. /\ timer' \in [Starts -> Places]
      /\ Alive' \subseteq Alive
      /\ \A u \in Starts : timer'[u] = "skipping" => timer[u] = "skipping"
      /\ phase # "new"
  BY <1>1, GoingOn
<1>3. CASE settings.pause
  <2>1. held' = HeldInPause(t) /\ collect' = FALSE
    BY <1>3 DEF Pause
  <2>2. held' \in [Files -> SUBSET Classes] /\ NothingPlain'
    BY <2>1 DEF HeldInPause, IInv, TypeOK, Classes, NothingPlain
  <2>3. ASSUME settings.cancels, NEW f \in Files PROVE "skipped" \notin held'[f]
    <3>1. timer[t] = "announced" /\ Alive = {t}
      BY <1>1, <2>3 DEF IInv, NothingSkipped, Pause
    <3>2. "skipped" \notin held[f]
      BY <2>3 DEF IInv, NothingSkipped
    <3> QED
      BY <2>1, <3>1, <3>2 DEF HeldInPause
  <2>4. TypeOK' /\ CurrentSet'
    BY <1>2, <2>1, <2>2 DEF IInv, TypeOK, CurrentSet, Pause, counts, story
  <2>5. LeftBehindIsAnnounced' /\ EverySetBeginsWithARequest' /\ PauseIsClean'
    BY <2>2 DEF NothingPlain, LeftBehindIsAnnounced, EverySetBeginsWithARequest,
         PauseIsClean
  <2>6. NothingSkipped' /\ Stopping'
    BY <1>2, <2>3 DEF IInv, NothingSkipped, Stopping, Pause
  <2> QED
    BY <2>4, <2>5, <2>6 DEF IInv
<1>4. CASE ~settings.pause
  <2>1. held' = held /\ collect' = collect
    BY <1>4 DEF Pause
  <2>2. TypeOK' /\ CurrentSet'
    BY <1>2, <2>1 DEF IInv, TypeOK, CurrentSet, Pause, counts, story
  <2>3. LeftBehindIsAnnounced' /\ EverySetBeginsWithARequest' /\ PauseIsClean'
    BY <2>1 DEF IInv, LeftBehindIsAnnounced, EverySetBeginsWithARequest,
         PauseIsClean, NothingPlain, Pause
  <2>4. NothingSkipped' /\ Stopping'
    BY <1>2, <2>1 DEF IInv, NothingSkipped, Stopping, Pause
  <2> QED
    BY <2>2, <2>3, <2>4 DEF IInv
<1> QED
  BY <1>3, <1>4

LEMMA StopThreadsKeeps == ASSUME IInv, StopThreads PROVE IInv'
<1>1. Alive' = {} /\ lock' \in BOOLEAN /\ timer' \in [Starts -> Places]
  BY DEF StopThreads, Alive, Places, IInv, TypeOK
<1>2. TypeOK' /\ CurrentSet'
  BY <1>1 DEF StopThreads, IInv, TypeOK, CurrentSet, flags, files, story
<1>3. LeftBehindIsAnnounced' /\ EverySetBeginsWithARequest' /\ PauseIsClean'
  BY DEF StopThreads, IInv, LeftBehindIsAnnounced, EverySetBeginsWithARequest,
       PauseIsClean, NothingPlain, flags, files
<1>4. NothingSkipped' /\ Stopping'
  BY <1>1 DEF StopThreads, IInv, NothingSkipped, Stopping, flags, files
<1> QED
  BY <1>2, <1>3, <1>4 DEF IInv

LEMMA BeginStopKeeps == ASSUME IInv, BeginStop PROVE IInv'
<1>1. TypeOK' /\ CurrentSet'
  BY DEF BeginStop, IInv, TypeOK, CurrentSet, counts, files, story
<1>2. LeftBehindIsAnnounced' /\ EverySetBeginsWithARequest' /\ PauseIsClean'
  BY DEF BeginStop, IInv, LeftBehindIsAnnounced, EverySetBeginsWithARequest,
       PauseIsClean, NothingPlain, files
<1>3. NothingSkipped'
  BY SettingsType DEF BeginStop, IInv, TypeOK, NothingSkipped, Alive, files
<1>4. Stopping'
  BY DEF BeginStop, IInv, Stopping, Alive, files
<1> QED
  BY <1>1, <1>2, <1>3, <1>4 DEF IInv

LEMMA CloseAtStopKeeps == ASSUME IInv, CloseAtStop PROVE IInv'
<1>1. phase # "new"
  BY DEF CloseAtStop
<1>2. /\ held' \in [Files -> SUBSET Classes]
      /\ NothingPlain'
      /\ \A f \in Files : held'[f] \subseteq held[f]
      /\ open' \subseteq Files
  <2>1. CASE collect
    BY <1>1, <2>1, NoticeClears DEF IInv, TypeOK, CloseAtStop, NothingPlain
  <2>2. CASE ~collect
    BY <2>2 DEF IInv, TypeOK, PauseIsClean, CloseAtStop, NothingPlain
  <2> QED
    BY <2>1, <2>2
<1>3. TypeOK' /\ CurrentSet'
  BY <1>1, <1>2 DEF IInv, TypeOK, CurrentSet, CloseAtStop, counts, flags, story
<1>4. LeftBehindIsAnnounced' /\ EverySetBeginsWithARequest' /\ PauseIsClean'
  BY <1>2 DEF NothingPlain, LeftBehindIsAnnounced, EverySetBeginsWithARequest,
       PauseIsClean
<1>5. NothingSkipped'
  BY <1>2 DEF IInv, NothingSkipped, Alive, CloseAtStop, flags
<1>6. Stopping'
  BY <1>1 DEF IInv, Stopping, CloseAtStop, flags
<1> QED
  BY <1>3, <1>4, <1>5, <1>6 DEF IInv

LEMMA StepKeeps == IInv /\ [Next]_vars => IInv'
<1> SUFFICES ASSUME IInv, [Next]_vars PROVE IInv'
  OBVIOUS
<1>1. CASE Start
  BY <1>1, StartKeeps
<1>2. CASE Send
  BY <1>2, OfferKeeps, TurnedAwayKeeps, WriteKeeps, RollOverKeeps DEF Send
<1>3. CASE \E t \in Starts : Timer(t)
  BY <1>3, LoopHeadKeeps, WaitingKeeps, CountRunKeeps, CloseRunKeeps, PauseKeeps
     DEF Timer
<1>4. CASE Stop
  BY <1>4, StopThreadsKeeps, BeginStopKeeps, CloseAtStopKeeps DEF Stop
<1>5. CASE UNCHANGED vars
  BY <1>5 DEF vars, counts, flags, files, story, IInv, TypeOK, CurrentSet, Alive,
       LeftBehindIsAnnounced, EverySetBeginsWithARequest, PauseIsClean,
       NothingPlain, NothingSkipped, Stopping
<1> QED
  BY <1>1, <1>2, <1>3, <1>4, <1>5 DEF Next

THEOREM Invariance == Spec => []IInv
  BY Initially, StepKeeps, PTL DEF Spec

-----------------------------------------------------------------------------
(* Every variable stays in its type. *)
THEOREM TypeCorrect == Spec => []TypeOK
<1>1. IInv => TypeOK
  BY DEF IInv
<1> QED
  BY <1>1, Invariance, PTL

(* Whatever the runs, the pauses and the messages that do not fit: a set   *)
(* that is left behind has been announced with all that came in its time.  *)
THEOREM NothingLeftBehind == Spec => []LeftBehindIsAnnounced
<1>1. IInv => LeftBehindIsAnnounced
  BY DEF IInv
<1> QED
  BY <1>1, Invariance, PTL

(* The providers' headers are asked for in each set that is written to.    *)
THEOREM SetsBeginWithARequest == Spec => []EverySetBeginsWithARequest
<1>1. IInv => EverySetBeginsWithARequest
  BY DEF IInv
<1> QED
  BY <1>1, Invariance, PTL

(* stop() leaves nothing unannounced but for the messages at a roll-over,  *)
(* those at the beginning of a pause and, where the threads are not        *)
(* cancelled, a run whose end was skipped or that another start's pause    *)
(* cut off.                                                                *)
THEOREM StopIsComplete == Spec => []StopAnnouncesAll
<1>1. IInv => StopAnnouncesAll
  BY DEF IInv, TypeOK, PauseIsClean, NothingPlain, NothingSkipped,
       StopAnnouncesAll, Classes
<1> QED
  BY <1>1, Invariance, PTL
=============================================================================
