--------------------------- MODULE SchedulerLoop ----------------------------
(***************************************************************************)
(* createSchedulerLoop: the timer chain that calls service.runOnce() again *)
(* one cadence after each run.  start() and stop() are called by anybody,  *)
(* and stop() is asynchronous: hasty remembers that a start() came before  *)
(* a stop() in progress had returned, which may leave two chains.          *)
(*                                                                         *)
(* Runs and timers share a pool of identities, and one that nothing refers *)
(* to any more is given again.                                             *)
(***************************************************************************)
EXTENDS Integers, FiniteSets

CONSTANTS
    Callers,      \* whoever may have a stop() in progress
    MaxChains,    \* bound: start() waits while so many runs and timers go on
    MaxIds        \* bound: identities of the runs and timers

(* A timer fires into a run that needs an identity beside those of the     *)
(* other chains and those the stop() calls await.                          *)
ASSUME LoopAssumption ==
    /\ MaxChains \in Nat /\ MaxIds \in Nat
    /\ IsFiniteSet(Callers) /\ MaxIds > MaxChains + Cardinality(Callers)

VARIABLES
    running,      \* the loop's flag
    timer,        \* the handle it keeps, 0 for undefined
    inFlight,     \* the run whose promise it keeps, 0 for undefined
    armed,        \* the timers that will fire
    runs,         \* the runs that have not settled
    stopping,     \* caller -> the run its stop() awaits, or NotStopping
    active,       \* the service's schedulingLoopActive
    hasty         \* some start() came while a stop() was in progress

loopVars == <<running, timer, inFlight, armed, runs, stopping, active, hasty>>

NotStopping == -1

Ids == 1..MaxIds

(* The handles kept are those of a timer that will fire and of a run that  *)
(* has not settled.                                                        *)
LoopTypeOK ==
    /\ running \in BOOLEAN /\ active \in BOOLEAN /\ hasty \in BOOLEAN
    /\ armed \subseteq Ids /\ runs \subseteq Ids
    /\ timer \in {0} \cup armed
    /\ inFlight \in {0} \cup runs
    /\ stopping \in [Callers -> {NotStopping, 0} \cup Ids]

-----------------------------------------------------------------------------
Unused == Ids \ (armed \cup runs \cup {stopping[k] : k \in Callers})
NewId == CHOOSE i \in Unused : TRUE

(* inFlight = runOnce().                                                   *)
BeginRun ==
    /\ Unused # {}
    /\ inFlight' = NewId
    /\ runs' = runs \cup {NewId}

(* schedule.                                                               *)
ArmTimer ==
    /\ Unused # {}
    /\ timer' = NewId
    /\ armed' = armed \cup {NewId}

StopInProgress == \E k \in Callers : stopping[k] # NotStopping

(* start(), at once or with an initialDelayMs.                             *)
Start(delayed) ==
    /\ ~running
    /\ Cardinality(armed \cup runs) < MaxChains
    /\ running' = TRUE
    /\ active' = TRUE
    /\ hasty' = (hasty \/ StopInProgress)
    /\ IF delayed THEN ArmTimer /\ UNCHANGED <<inFlight, runs>>
                  ELSE BeginRun /\ UNCHANGED <<timer, armed>>
    /\ UNCHANGED stopping

TimerFires(t) ==
    /\ t \in armed
    /\ armed' = armed \ {t}
    /\ timer' = 0
    /\ BeginRun
    /\ UNCHANGED <<running, stopping, active, hasty>>

(* Fault for QuietWhenStopped and ComesToRest: a run that ends schedules   *)
(* the next one, stopped or not.                                           *)
RunEndsAndReschedules(i) ==
    /\ i \in runs
    /\ runs' = runs \ {i}
    /\ inFlight' = 0
    /\ ArmTimer
    /\ UNCHANGED <<running, stopping, active, hasty>>

(* Fault for ActiveMeansAlive: a run whose error report throws ends the    *)
(* chain.                                                                  *)
RunEndsOrBreaks(i) ==
    /\ i \in runs
    /\ runs' = runs \ {i}
    /\ inFlight' = 0
    /\ (running /\ ArmTimer) \/ UNCHANGED <<timer, armed>>
    /\ UNCHANGED <<running, stopping, active, hasty>>

(* The run settles; its finally clause schedules the next one, whatever    *)
(* the cycle, its error report or the readiness probe did.                 *)
RunEnds(i) ==
    /\ i \in runs
    /\ runs' = runs \ {i}
    /\ inFlight' = 0
    /\ IF running THEN ArmTimer ELSE UNCHANGED <<timer, armed>>
    /\ UNCHANGED <<running, stopping, active, hasty>>

(* stop() up to its await: the timer is cleared.                           *)
Stop(k) ==
    /\ stopping[k] = NotStopping
    /\ running' = FALSE
    /\ armed' = armed \ {timer}
    /\ timer' = 0
    /\ stopping' = [stopping EXCEPT ![k] = inFlight]
    /\ UNCHANGED <<inFlight, runs, active, hasty>>

(* Fault for OneRunAtATime: stop() does not await the run in flight.       *)
StopReturnsAtOnce(k) ==
    /\ stopping[k] # NotStopping
    /\ active' = FALSE
    /\ stopping' = [stopping EXCEPT ![k] = NotStopping]
    /\ UNCHANGED <<running, timer, inFlight, armed, runs, hasty>>

StopReturns(k) ==
    /\ stopping[k] # NotStopping
    /\ stopping[k] \notin runs
    /\ active' = FALSE
    /\ stopping' = [stopping EXCEPT ![k] = NotStopping]
    /\ UNCHANGED <<running, timer, inFlight, armed, runs, hasty>>

-----------------------------------------------------------------------------
LoopInit ==
    /\ running = FALSE
    /\ timer = 0
    /\ inFlight = 0
    /\ armed = {}
    /\ runs = {}
    /\ stopping = [k \in Callers |-> NotStopping]
    /\ active = FALSE
    /\ hasty = FALSE

LoopNext ==
    \/ \E delayed \in BOOLEAN : Start(delayed)
    \/ \E t \in armed : TimerFires(t)
    \/ \E i \in runs : RunEnds(i)
    \/ \E k \in Callers : Stop(k) \/ StopReturns(k)

LoopSpec == LoopInit /\ [][LoopNext]_loopVars

-----------------------------------------------------------------------------
(* README: "Runs never overlap."  They do not when every start() waits for *)
(* the stop() before it.                                                   *)
OneRunAtATime == ~hasty => \A i, j \in runs : i = j

(* A loop whose stop() has returned is quiet: no run goes on, and no timer *)
(* is left that would begin one.                                           *)
QuietWhenStopped ==
    ~hasty /\ ~running /\ ~StopInProgress => armed = {} /\ runs = {}

(* What readiness is told of the loop agrees with it, except while a stop  *)
(* is in progress.                                                         *)
ActiveMeansRunning == ~hasty /\ ~StopInProgress => active = running

(* However start() and stop() were mixed, readiness never takes a dead     *)
(* loop for an active one: a loop it is told is active has not been        *)
(* stopped, and a run or a timer keeps it going.  A stop() that a start()  *)
(* has overtaken errs on the other side only.                              *)
ActiveMeansAlive == active /\ ~StopInProgress => running /\ armed \cup runs # {}

(* However start() and stop() were mixed, a loop that is stopped for good  *)
(* comes to rest: a chain that a hasty start() left behind dies with its   *)
(* next run.                                                               *)
ComesToRest == []<>running \/ <>[](armed = {})
=============================================================================
