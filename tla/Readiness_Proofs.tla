-------------------------- MODULE Readiness_Proofs ---------------------------
(***************************************************************************)
(* The loop for any number of callers, and its readiness for any cadence.  *)
(*                                                                         *)
(* As long as no start() was hasty, the loop has at most one timer or run, *)
(* and it is the one whose handle it keeps: OneChain.  After a hasty one   *)
(* the chain still does not break: ChainGoesOn.  What readiness says does  *)
(* not depend on either; it rests on the age of the last success, which    *)
(* some run or timer accounts for: Accounted.                              *)
(***************************************************************************)
EXTENDS Readiness, TLAPS

(* The part of OneChain about stop(): it finds the run in flight.          *)
StopAwaitsRun ==
    /\ running => ~StopInProgress
    /\ ~running => timer = 0
    /\ ~running /\ inFlight # 0 => \E k \in Callers : stopping[k] = inFlight

OneChain ==
    ~hasty =>
        /\ armed = {timer} \ {0}
        /\ runs = {inFlight} \ {0}
        /\ timer = 0 \/ inFlight = 0
        /\ StopAwaitsRun
        /\ ~StopInProgress => active = running

LoopInv == LoopTypeOK /\ OneChain

-----------------------------------------------------------------------------
LEMMA NewIdIsUnused ==
    ASSUME Unused # {}
    PROVE  /\ NewId \in Ids
           /\ NewId \notin armed /\ NewId \notin runs
           /\ \A k \in Callers : stopping[k] # NewId
  BY DEF NewId, Unused

LEMMA IdsArePositive == \A i \in Ids : i \in Int /\ i # 0 /\ i # NotStopping
  <1>1. MaxIds \in Nat
    BY LoopAssumption
  <1> QED BY <1>1 DEF Ids, NotStopping

LEMMA LoopInvInit == LoopInit => LoopInv
  BY DEF LoopInit, LoopInv, LoopTypeOK, OneChain, StopAwaitsRun, StopInProgress, NotStopping

LEMMA LoopTypeStep == LoopTypeOK /\ [LoopNext]_loopVars => LoopTypeOK'
  <1> SUFFICES ASSUME LoopTypeOK, [LoopNext]_loopVars PROVE LoopTypeOK'
    OBVIOUS
  <1> USE DEF LoopTypeOK
  <1>1. ASSUME NEW delayed \in BOOLEAN, Start(delayed) PROVE LoopTypeOK'
    BY <1>1, NewIdIsUnused DEF Start, ArmTimer, BeginRun
  <1>2. ASSUME NEW t \in armed, TimerFires(t) PROVE LoopTypeOK'
    BY <1>2, NewIdIsUnused DEF TimerFires, BeginRun
  <1>3. ASSUME NEW i \in runs, RunEnds(i) PROVE LoopTypeOK'
    BY <1>3, NewIdIsUnused DEF RunEnds, ArmTimer
  <1>4. ASSUME NEW k \in Callers, Stop(k) PROVE LoopTypeOK'
    BY <1>4 DEF Stop
  <1>5. ASSUME NEW k \in Callers, StopReturns(k) PROVE LoopTypeOK'
    BY <1>5 DEF StopReturns
  <1>6. CASE UNCHANGED loopVars
    BY <1>6 DEF loopVars
  <1> QED BY <1>1, <1>2, <1>3, <1>4, <1>5, <1>6 DEF LoopNext

(* A start() that waited for the stop() before it finds nothing left.      *)
LEMMA StartKeepsOneChain ==
    ASSUME LoopInv, NEW delayed \in BOOLEAN, Start(delayed)
    PROVE  OneChain'
  <1> SUFFICES ASSUME ~hasty' PROVE OneChain'
    BY DEF OneChain
  <1>1. ~hasty /\ ~StopInProgress /\ ~running
    BY DEF Start, LoopInv, LoopTypeOK
  <1>2. timer = 0 /\ inFlight = 0 /\ armed = {} /\ runs = {}
    <2>1. timer = 0 /\ armed = {}
      BY <1>1 DEF LoopInv, OneChain, StopAwaitsRun
    <2>2. inFlight = 0
      <3>1. SUFFICES ASSUME inFlight # 0 PROVE FALSE
        OBVIOUS
      <3>2. PICK k \in Callers : stopping[k] = inFlight
        BY <1>1, <3>1 DEF LoopInv, OneChain, StopAwaitsRun
      <3>3. inFlight # NotStopping
        BY IdsArePositive, <3>1 DEF LoopInv, LoopTypeOK
      <3> QED BY <1>1, <3>2, <3>3 DEF StopInProgress
    <2> QED BY <1>1, <2>1, <2>2 DEF LoopInv, OneChain
  <1>3. running' /\ active' /\ stopping' = stopping /\ ~StopInProgress'
    BY <1>1 DEF Start, StopInProgress
  <1>4. /\ armed' = {timer'} \ {0}
        /\ runs' = {inFlight'} \ {0}
        /\ timer' = 0 \/ inFlight' = 0
    <2>1. CASE delayed
      BY <1>2, <2>1, NewIdIsUnused, IdsArePositive DEF Start, ArmTimer
    <2>2. CASE ~delayed
      BY <1>2, <2>2, NewIdIsUnused, IdsArePositive DEF Start, BeginRun
    <2> QED BY <2>1, <2>2
  <1> QED BY <1>3, <1>4 DEF OneChain, StopAwaitsRun

LEMMA TimerKeepsOneChain ==
    ASSUME LoopInv, NEW t \in armed, TimerFires(t)
    PROVE  OneChain'
  <1> SUFFICES ASSUME ~hasty' PROVE OneChain'
    BY DEF OneChain
  <1>1. ~hasty
    BY DEF TimerFires
  <1>2. t = timer /\ t # 0 /\ inFlight = 0 /\ runs = {} /\ armed = {t}
    BY <1>1 DEF LoopInv, OneChain
  <1>3. running /\ ~StopInProgress /\ active = running
    BY <1>1, <1>2 DEF LoopInv, OneChain, StopAwaitsRun
  <1>4. running' /\ ~StopInProgress' /\ active' = running' /\ timer' = 0 /\ armed' = {}
    BY <1>2, <1>3 DEF TimerFires, StopInProgress
  <1>5. runs' = {inFlight'} \ {0}
    BY <1>2, NewIdIsUnused, IdsArePositive DEF TimerFires, BeginRun
  <1> QED BY <1>4, <1>5 DEF OneChain, StopAwaitsRun

LEMMA RunKeepsOneChain ==
    ASSUME LoopInv, NEW i \in runs, RunEnds(i)
    PROVE  OneChain'
  <1> SUFFICES ASSUME ~hasty' PROVE OneChain'
    BY DEF OneChain
  <1>1. ~hasty
    BY DEF RunEnds
  <1>2. i = inFlight /\ timer = 0 /\ runs = {i} /\ armed = {}
    BY <1>1 DEF LoopInv, OneChain
  <1>3. /\ runs' = {} /\ inFlight' = 0
        /\ armed' = {timer'} \ {0}
    BY <1>2, NewIdIsUnused, IdsArePositive DEF RunEnds, ArmTimer
  <1>4. /\ running => ~StopInProgress
        /\ ~StopInProgress => active = running
    BY <1>1 DEF LoopInv, OneChain, StopAwaitsRun
  <1>5. /\ running' = running /\ active' = active
        /\ StopInProgress' = StopInProgress
        /\ ~running => timer' = 0
    BY <1>2 DEF RunEnds, StopInProgress
  <1> QED BY <1>3, <1>4, <1>5 DEF OneChain, StopAwaitsRun

LEMMA StopKeepsOneChain ==
    ASSUME LoopInv, NEW k \in Callers, Stop(k)
    PROVE  OneChain'
  <1> SUFFICES ASSUME ~hasty' PROVE OneChain'
    BY DEF OneChain
  <1>1. ~hasty
    BY DEF Stop
  <1>2. armed' = {} /\ timer' = 0 /\ ~running'
    BY <1>1 DEF Stop, LoopInv, OneChain
  <1>3. runs' = {inFlight'} \ {0}
    BY <1>1 DEF Stop, LoopInv, OneChain
  <1>4. stopping'[k] = inFlight' /\ inFlight' # NotStopping
    BY IdsArePositive DEF Stop, LoopInv, LoopTypeOK, NotStopping
  <1>5. StopInProgress'
    BY <1>4 DEF StopInProgress
  <1> QED BY <1>2, <1>3, <1>4, <1>5 DEF OneChain, StopAwaitsRun

(* A stop() returns when nothing is in flight, or when another stop() is   *)
(* still waiting for it.                                                   *)
LEMMA StopReturnKeepsOneChain ==
    ASSUME LoopInv, NEW k \in Callers, StopReturns(k)
    PROVE  OneChain'
  <1> SUFFICES ASSUME ~hasty' PROVE OneChain'
    BY DEF OneChain
  <1>1. ~hasty
    BY DEF StopReturns
  <1>2. StopInProgress
    BY DEF StopReturns, StopInProgress
  <1>3. running = FALSE /\ timer = 0
    BY <1>1, <1>2 DEF LoopInv, LoopTypeOK, OneChain, StopAwaitsRun
  <1>4. /\ running' = running /\ timer' = timer /\ inFlight' = inFlight
        /\ armed' = armed /\ runs' = runs /\ active' = FALSE
        /\ stopping' = [stopping EXCEPT ![k] = NotStopping]
    BY DEF StopReturns
  <1>5. ASSUME inFlight # 0 PROVE \E j \in Callers : stopping'[j] = inFlight
    <2>1. PICK j \in Callers : stopping[j] = inFlight
      BY <1>1, <1>3, <1>5 DEF LoopInv, OneChain, StopAwaitsRun
    <2>2. inFlight \in runs /\ stopping[k] \notin runs
      BY <1>5 DEF StopReturns, LoopInv, LoopTypeOK
    <2>3. stopping'[j] = stopping[j]
      BY <1>4, <2>1, <2>2 DEF LoopInv, LoopTypeOK
    <2> QED BY <2>1, <2>3
  <1>6. /\ armed = {timer} \ {0} /\ runs = {inFlight} \ {0}
        /\ timer = 0 \/ inFlight = 0
    BY <1>1 DEF LoopInv, OneChain
  <1> QED BY <1>3, <1>4, <1>5, <1>6 DEF OneChain, StopAwaitsRun

LEMMA LoopInvStep == LoopInv /\ [LoopNext]_loopVars => LoopInv'
  <1> SUFFICES ASSUME LoopInv, [LoopNext]_loopVars PROVE LoopInv'
    OBVIOUS
  <1>1. LoopTypeOK'
    BY LoopTypeStep DEF LoopInv
  <1>2. OneChain'
    <2>1. CASE LoopNext
      BY <2>1, StartKeepsOneChain, TimerKeepsOneChain, RunKeepsOneChain,
         StopKeepsOneChain, StopReturnKeepsOneChain DEF LoopNext
    <2>2. CASE UNCHANGED loopVars
      BY <2>2 DEF loopVars, LoopInv, OneChain, StopAwaitsRun, StopInProgress
    <2> QED BY <2>1, <2>2
  <1> QED BY <1>1, <1>2 DEF LoopInv

LEMMA LoopInvImplies ==
    LoopInv => LoopTypeOK /\ OneRunAtATime /\ QuietWhenStopped /\ ActiveMeansRunning
  <1> SUFFICES ASSUME LoopInv
               PROVE  LoopTypeOK /\ OneRunAtATime /\ QuietWhenStopped /\ ActiveMeansRunning
    OBVIOUS
  <1>1. OneRunAtATime
    BY DEF LoopInv, OneChain, OneRunAtATime
  <1>2. ASSUME ~hasty, ~running, ~StopInProgress PROVE armed = {} /\ runs = {}
    <2>1. armed = {}
      BY <1>2 DEF LoopInv, OneChain, StopAwaitsRun
    <2>2. inFlight = 0
      <3>1. SUFFICES ASSUME inFlight # 0 PROVE FALSE
        OBVIOUS
      <3>2. PICK k \in Callers : stopping[k] = inFlight
        BY <1>2, <3>1 DEF LoopInv, OneChain, StopAwaitsRun
      <3>3. inFlight # NotStopping
        BY IdsArePositive, <3>1 DEF LoopInv, LoopTypeOK
      <3> QED BY <1>2, <3>2, <3>3 DEF StopInProgress
    <2> QED BY <1>2, <2>1, <2>2 DEF LoopInv, OneChain
  <1>3. ActiveMeansRunning
    BY DEF LoopInv, OneChain, ActiveMeansRunning
  <1> QED BY <1>1, <1>2, <1>3 DEF LoopInv, QuietWhenStopped

-----------------------------------------------------------------------------
(* Under the clock the loop takes its own steps only.                      *)
LEMMA ReadinessStepsLoop == [Next]_vars => [LoopNext]_loopVars
  <1> SUFFICES ASSUME [Next]_vars PROVE [LoopNext]_loopVars
    OBVIOUS
  <1>1. ASSUME LoopStarts PROVE LoopNext
    BY <1>1 DEF LoopStarts, LoopNext
  <1>2. ASSUME NEW t \in armed, TimerDue(t) PROVE LoopNext
    BY <1>2 DEF TimerDue, LoopNext
  <1>3. ASSUME NEW i \in runs, CycleSucceeds(i) \/ CycleFails(i) PROVE UNCHANGED loopVars
    BY <1>3 DEF CycleSucceeds, CycleFails
  <1>4. ASSUME NEW i \in runs, RunSettles(i) PROVE LoopNext
    BY <1>4 DEF RunSettles, LoopNext
  <1>5. ASSUME NEW k \in Callers, StopBegins(k) \/ StopEnds(k) PROVE LoopNext
    BY <1>5 DEF StopBegins, StopEnds, LoopNext
  <1>6. ASSUME Tick PROVE UNCHANGED loopVars
    BY <1>6 DEF Tick
  <1>7. ASSUME UNCHANGED vars PROVE UNCHANGED loopVars
    BY <1>7 DEF vars
  <1> QED BY <1>1, <1>2, <1>3, <1>4, <1>5, <1>6, <1>7 DEF Next

LEMMA LoopInvHolds == Spec => []LoopInv
  <1>1. Init => LoopInv
    BY LoopInvInit DEF Init
  <1>2. LoopInv /\ [Next]_vars => LoopInv'
    BY LoopInvStep, ReadinessStepsLoop
  <1> QED BY <1>1, <1>2, PTL DEF Spec

(* As long as every start() waits for the stop() before it, and whoever    *)
(* else calls stop(), runs never overlap.                                  *)
THEOREM LoopOneRunAtATime == Spec => []OneRunAtATime
  BY LoopInvHolds, LoopInvImplies, PTL

(* Under the same proviso a stopped loop is quiet, for any number of       *)
(* callers of stop().                                                      *)
THEOREM LoopQuietWhenStopped == Spec => []QuietWhenStopped
  BY LoopInvHolds, LoopInvImplies, PTL

(* And under the same proviso what readiness is told of the loop agrees    *)
(* with it, except while a stop() is in progress.                          *)
THEOREM LoopActiveMeansRunning == Spec => []ActiveMeansRunning
  BY LoopInvHolds, LoopInvImplies, PTL

(* Without that proviso two facts remain: a loop that has not been stopped *)
(* has a run or a timer, and one that has been is active only until its    *)
(* stop() returns.                                                         *)
ChainGoesOn ==
    /\ running => armed \cup runs # {}
    /\ active /\ ~running => StopInProgress

LEMMA ChainGoesOnStep ==
    ASSUME LoopTypeOK, ChainGoesOn, [LoopNext]_loopVars
    PROVE  ChainGoesOn'
  <1>1. ASSUME NEW delayed \in BOOLEAN, Start(delayed) PROVE ChainGoesOn'
    BY <1>1 DEF Start, ArmTimer, BeginRun, ChainGoesOn
  <1>2. ASSUME NEW t \in armed, TimerFires(t) PROVE ChainGoesOn'
    BY <1>2 DEF TimerFires, BeginRun, ChainGoesOn, StopInProgress
  <1>3. ASSUME NEW i \in runs, RunEnds(i) PROVE ChainGoesOn'
    BY <1>3 DEF RunEnds, ArmTimer, ChainGoesOn, StopInProgress
  <1>4. ASSUME NEW k \in Callers, Stop(k) PROVE ChainGoesOn'
    <2>1. stopping'[k] = inFlight /\ inFlight # NotStopping /\ ~running'
      BY <1>4, IdsArePositive DEF Stop, LoopTypeOK, NotStopping
    <2> QED BY <2>1 DEF ChainGoesOn, StopInProgress
  <1>5. ASSUME NEW k \in Callers, StopReturns(k) PROVE ChainGoesOn'
    BY <1>5 DEF StopReturns, ChainGoesOn
  <1>6. CASE UNCHANGED loopVars
    BY <1>6 DEF loopVars, ChainGoesOn, StopInProgress
  <1> QED BY <1>1, <1>2, <1>3, <1>4, <1>5, <1>6 DEF LoopNext

(* However start() and stop() are mixed, a loop that readiness is told is  *)
(* active has a run or a timer that keeps it going, unless a stop() is in  *)
(* progress: the chain of runs never breaks.                               *)
THEOREM LoopActiveMeansAlive == Spec => []ActiveMeansAlive
  <1>1. Init => ChainGoesOn
    BY DEF Init, LoopInit, ChainGoesOn
  <1>2. LoopInv /\ ChainGoesOn /\ [Next]_vars => ChainGoesOn'
    BY ChainGoesOnStep, ReadinessStepsLoop DEF LoopInv
  <1>3. ChainGoesOn => ActiveMeansAlive
    BY DEF ChainGoesOn, ActiveMeansAlive
  <1> QED BY <1>1, <1>2, <1>3, LoopInvHolds, PTL DEF Spec

-----------------------------------------------------------------------------
(* Readiness.  The age of the last success never exceeds what a chain of   *)
(* prompt runs may have used up since: nothing but the rest of the run     *)
(* that succeeded; then a cadence; then a run that failed; then another    *)
(* cadence.  Debt is what the failing run adds.                            *)
Debt(n) == IF n = 0 THEN 0 ELSE PromptRun + Cadence

RunAccounts(i) ==
    /\ i \in runs
    /\ i \in over => since <= spent[i] + Debt(setbacks)
    /\ i \notin over => since <= spent[i] + Debt(setbacks) + PromptRun + Cadence

TimerAccounts(t) ==
    /\ t \in armed
    /\ since + wait[t] <= Debt(setbacks) + PromptRun + Cadence

Accounted ==
    setbacks <= 1 =>
        /\ running
        /\ since # Never
        /\ \A i \in runs : ~Overdue(i)
        /\ (\E i \in Ids : RunAccounts(i)) \/ (\E t \in Ids : TimerAccounts(t))

ReadyInv == TypeOK /\ Accounted

LEMMA Sizes ==
    /\ Cadence \in Nat /\ Cadence > 0 /\ PromptRun \in Nat
    /\ 3 * PromptRun <= Cadence
    /\ StaleAfter = 3 * Cadence /\ StaleAfter \in Nat
  BY ReadinessAssumption DEF StaleAfter

LEMMA ReadyInvInit == Init => ReadyInv
  <1> SUFFICES ASSUME Init PROVE ReadyInv
    OBVIOUS
  <1>1. LoopTypeOK
    BY LoopInvInit DEF Init, LoopInv
  <1>2. TypeOK
    BY <1>1, Sizes DEF Init, LoopInit, TypeOK, Never
  <1>3. Accounted
    BY DEF Init, Accounted
  <1> QED BY <1>2, <1>3 DEF ReadyInv

LEMMA ReadyTypeStep == TypeOK /\ [Next]_vars => TypeOK'
  <1> SUFFICES ASSUME TypeOK, [Next]_vars PROVE TypeOK'
    OBVIOUS
  <1>1. LoopTypeOK'
    BY LoopTypeStep, ReadinessStepsLoop DEF TypeOK
  <1>2. ASSUME NEW d \in 0..Cadence, SetTimers(d) PROVE wait' \in [Ids -> 0..Cadence]
    BY <1>2, Sizes DEF SetTimers, TypeOK
  <1>3. ASSUME SetRuns PROVE spent' \in [Ids -> 0..(PromptRun + 1)]
    BY <1>3, Sizes DEF SetRuns, TypeOK
  <1>4. 0 \in 0..Cadence /\ Cadence \in 0..Cadence /\ 1..Cadence \subseteq 0..Cadence
    BY Sizes
  <1>5. ASSUME LoopStarts PROVE TypeOK'
    <2>1. runs \subseteq runs' /\ wait' \in [Ids -> 0..Cadence]
      BY <1>2, <1>4, <1>5 DEF LoopStarts, Start, BeginRun, ArmTimer
    <2> QED BY <1>1, <1>3, <1>5, <2>1 DEF LoopStarts, TypeOK
  <1>6. ASSUME NEW t \in armed, TimerDue(t) PROVE TypeOK'
    <2>1. runs \subseteq runs' /\ wait' \in [Ids -> 0..Cadence]
      BY <1>2, <1>4, <1>6 DEF TimerDue, TimerFires, BeginRun
    <2> QED BY <1>1, <1>3, <1>6, <2>1 DEF TimerDue, TypeOK
  <1>7. ASSUME NEW i \in runs, CycleSucceeds(i) PROVE TypeOK'
    BY <1>1, <1>7, Sizes DEF CycleSucceeds, TypeOK, loopVars
  <1>8. ASSUME NEW i \in runs, CycleFails(i) PROVE TypeOK'
    BY <1>1, <1>8, Sizes DEF CycleFails, TypeOK, loopVars, Lower
  <1>9. ASSUME NEW i \in runs, RunSettles(i) PROVE TypeOK'
    <2>1. runs' = runs \ {i} /\ wait' \in [Ids -> 0..Cadence]
      BY <1>2, <1>4, <1>9 DEF RunSettles, RunEnds
    <2> QED BY <1>1, <1>3, <1>9, <2>1 DEF RunSettles, TypeOK
  <1>10. ASSUME NEW k \in Callers, StopBegins(k) PROVE TypeOK'
    <2>1. runs' = runs /\ wait' \in [Ids -> 0..Cadence]
      BY <1>2, <1>4, <1>10 DEF StopBegins, Stop
    <2> QED BY <1>1, <1>10, <2>1 DEF StopBegins, TypeOK
  <1>11. ASSUME NEW k \in Callers, StopEnds(k) PROVE TypeOK'
    BY <1>1, <1>11 DEF StopEnds, StopReturns, TypeOK, readyVars
  <1>12. ASSUME Tick PROVE TypeOK'
    <2>1. since' \in -1..(StaleAfter + 1) /\ setbacks' \in 0..2
      BY <1>12, Sizes DEF Tick, TypeOK, Lower, Never
    <2>2. wait' \in [Ids -> 0..Cadence]
      <3>1. \A i \in armed : i \in Ids /\ wait[i] - 1 \in 0..Cadence
        BY <1>12, Sizes DEF Tick, TypeOK, LoopTypeOK
      <3> QED BY <1>12, <3>1, Sizes DEF Tick
    <2>3. spent' \in [Ids -> 0..(PromptRun + 1)]
      <3>1. \A i \in Ids : Lower(spent[i] + 1, PromptRun + 1) \in 0..(PromptRun + 1)
        BY Sizes DEF TypeOK, Lower
      <3> QED BY <1>12, <3>1, Sizes DEF Tick
    <2> QED BY <1>1, <1>12, <2>1, <2>2, <2>3 DEF Tick, TypeOK, loopVars
  <1>13. CASE UNCHANGED vars
    BY <1>1, <1>13 DEF vars, readyVars, TypeOK, loopVars
  <1> QED BY <1>5, <1>6, <1>7, <1>8, <1>9, <1>10, <1>11, <1>12, <1>13 DEF Next

LEMMA DebtSizes ==
    /\ Debt(0) = 0 /\ Debt(1) = PromptRun + Cadence
    /\ \A n \in 0..2 : Debt(n) \in Nat
  BY Sizes DEF Debt

(* A loop that is started has no success to rest on yet.                   *)
LEMMA StartAccounted ==
    ASSUME ReadyInv, LoopStarts
    PROVE  Accounted'
  <1>1. ~running /\ setbacks' = setbacks
    BY DEF LoopStarts, Start
  <1>2. ~(setbacks <= 1)
    BY <1>1 DEF ReadyInv, Accounted
  <1> QED BY <1>1, <1>2 DEF Accounted

(* The chain goes on from the timer to its run.                            *)
LEMMA TimerAccounted ==
    ASSUME ReadyInv, NEW t \in armed, TimerDue(t)
    PROVE  Accounted'
  <1> SUFFICES ASSUME setbacks <= 1 PROVE Accounted'
    BY DEF Accounted, TimerDue
  <1>1. /\ since' = since /\ setbacks' = setbacks /\ over' = over
        /\ running' = running /\ armed' = armed \ {t}
        /\ runs' = runs \cup {NewId} /\ Unused # {} /\ wait[t] = 0
    BY DEF TimerDue, TimerFires, BeginRun
  <1>new. PICK n \in Ids : n = NewId
    BY <1>1, NewIdIsUnused
  <1>2. /\ runs' = runs \cup {n} /\ n \notin runs /\ n \notin over
        /\ t \in Ids /\ runs \subseteq Ids /\ armed \subseteq Ids
    BY <1>1, <1>new, NewIdIsUnused DEF ReadyInv, TypeOK, LoopTypeOK
  <1>3. \A i \in runs : spent'[i] = spent[i]
    BY <1>1, <1>2 DEF TimerDue, SetRuns
  <1>4. spent'[n] = 0
    BY <1>1, <1>2 DEF TimerDue, SetRuns
  <1>5. \A u \in armed \ {t} : wait'[u] = wait[u]
    BY <1>1, <1>2 DEF TimerDue, SetTimers
  <1>6. running' /\ since' # Never
    BY <1>1 DEF ReadyInv, Accounted
  <1>7. \A i \in runs' : ~Overdue(i)'
    BY <1>1, <1>2, <1>3, <1>4, Sizes DEF ReadyInv, Accounted, Overdue
  <1>8. (\E i \in Ids : RunAccounts(i))' \/ (\E u \in Ids : TimerAccounts(u))'
    <2>1. ASSUME NEW i \in Ids, RunAccounts(i) PROVE RunAccounts(i)'
      BY <1>1, <1>3, <2>1 DEF RunAccounts
    <2>2. ASSUME TimerAccounts(t) PROVE RunAccounts(n)'
      BY <1>1, <1>2, <1>4, <2>2, Sizes, DebtSizes DEF TimerAccounts, RunAccounts, ReadyInv, TypeOK
    <2>3. ASSUME NEW u \in Ids, TimerAccounts(u), u # t PROVE TimerAccounts(u)'
      BY <1>1, <1>5, <2>3 DEF TimerAccounts
    <2> QED BY <1>2, <2>1, <2>2, <2>3 DEF ReadyInv, Accounted
  <1> QED BY <1>6, <1>7, <1>8 DEF Accounted

(* A success starts the account anew, with what is left of its run.        *)
LEMMA SuccessAccounted ==
    ASSUME ReadyInv, NEW i \in runs, CycleSucceeds(i)
    PROVE  Accounted'
  <1> SUFFICES ASSUME setbacks' <= 1 PROVE Accounted'
    BY DEF Accounted
  <1>1. /\ since' = 0 /\ runs' = runs /\ running' = running
        /\ spent' = spent /\ i \in over' /\ i \in Ids
    BY DEF CycleSucceeds, loopVars, ReadyInv, TypeOK, LoopTypeOK
  <1>2. running /\ (\A j \in runs : ~Overdue(j)) /\ setbacks' = 0
    BY DEF CycleSucceeds
  <1>3. RunAccounts(i)'
    BY <1>1, <1>2, DebtSizes DEF RunAccounts, ReadyInv, TypeOK
  <1> QED BY <1>1, <1>2, <1>3 DEF Accounted, Overdue, Never

(* One failure is allowed for.                                             *)
LEMMA FailureAccounted ==
    ASSUME ReadyInv, NEW i \in runs, CycleFails(i)
    PROVE  Accounted'
  <1> SUFFICES ASSUME setbacks' <= 1 PROVE Accounted'
    BY DEF Accounted
  <1>1. setbacks = 0 /\ setbacks' = 1
    BY DEF CycleFails, Lower, ReadyInv, TypeOK
  <1>2. /\ since' = since /\ runs' = runs /\ armed' = armed /\ running' = running
        /\ spent' = spent /\ wait' = wait /\ over' = over \cup {i} /\ i \notin over
    BY DEF CycleFails, loopVars
  <1>3. /\ since \in Int /\ spent \in [Ids -> 0..(PromptRun + 1)]
        /\ wait \in [Ids -> 0..Cadence]
    BY DEF ReadyInv, TypeOK
  <1>4. ASSUME NEW j \in Ids, RunAccounts(j) PROVE RunAccounts(j)'
    <2>1. CASE j = i
      BY <1>1, <1>2, <1>3, <1>4, <2>1, Sizes, DebtSizes DEF RunAccounts
    <2>2. CASE j # i /\ j \in over
      BY <1>1, <1>2, <1>3, <1>4, <2>2, Sizes, DebtSizes DEF RunAccounts
    <2>3. CASE j # i /\ j \notin over
      BY <1>1, <1>2, <1>3, <1>4, <2>3, Sizes, DebtSizes DEF RunAccounts
    <2> QED BY <2>1, <2>2, <2>3
  <1>5. ASSUME NEW t \in Ids, TimerAccounts(t) PROVE TimerAccounts(t)'
    BY <1>1, <1>2, <1>3, <1>5, Sizes, DebtSizes DEF TimerAccounts
  <1> QED BY <1>1, <1>2, <1>4, <1>5 DEF ReadyInv, Accounted, Overdue

(* The run that settles hands the account to the timer it arms.            *)
LEMMA SettledAccounted ==
    ASSUME ReadyInv, NEW i \in runs, RunSettles(i)
    PROVE  Accounted'
  <1> SUFFICES ASSUME setbacks <= 1 PROVE Accounted'
    BY DEF Accounted, RunSettles
  <1>1. /\ running /\ since # Never
        /\ \A j \in runs : ~Overdue(j)
        /\ (\E j \in Ids : RunAccounts(j)) \/ (\E t \in Ids : TimerAccounts(t))
    BY DEF ReadyInv, Accounted
  <1>2. /\ since' = since /\ setbacks' = setbacks /\ running' = running
        /\ runs' = runs \ {i} /\ over' = over \ {i} /\ i \in over
        /\ armed' = armed \cup {NewId} /\ Unused # {}
    BY <1>1 DEF RunSettles, RunEnds, ArmTimer
  <1>new. PICK n \in Ids : n = NewId
    BY <1>2, NewIdIsUnused
  <1>3. /\ armed' = armed \cup {n} /\ n \notin armed /\ i \in Ids
        /\ runs \subseteq Ids /\ armed \subseteq Ids
    BY <1>2, <1>new, NewIdIsUnused DEF ReadyInv, TypeOK, LoopTypeOK
  <1>4. \A j \in runs \ {i} : spent'[j] = spent[j]
    BY <1>2, <1>3 DEF RunSettles, SetRuns
  <1>5. wait'[n] = Cadence /\ \A t \in armed : wait'[t] = wait[t]
    BY <1>2, <1>3 DEF RunSettles, SetTimers
  <1>6. \A j \in runs' : ~Overdue(j)'
    BY <1>1, <1>2, <1>4 DEF Overdue
  <1>7. ASSUME RunAccounts(i) PROVE TimerAccounts(n)'
    <2>1. spent[i] <= PromptRun /\ spent[i] \in Nat /\ since \in Int /\ Debt(setbacks) \in Nat
      BY <1>1, <1>3, Sizes, DebtSizes DEF Overdue, ReadyInv, TypeOK
    <2>2. since <= spent[i] + Debt(setbacks)
      BY <1>2, <1>7 DEF RunAccounts
    <2> QED BY <1>2, <1>3, <1>5, <2>1, <2>2, Sizes DEF TimerAccounts
  <1>8. ASSUME NEW j \in Ids, RunAccounts(j), j # i PROVE RunAccounts(j)'
    BY <1>2, <1>4, <1>8 DEF RunAccounts
  <1>9. ASSUME NEW t \in Ids, TimerAccounts(t) PROVE TimerAccounts(t)'
    BY <1>2, <1>5, <1>9 DEF TimerAccounts
  <1>10. (\E j \in Ids : RunAccounts(j))' \/ (\E t \in Ids : TimerAccounts(t))'
    BY <1>1, <1>3, <1>7, <1>8, <1>9
  <1> QED BY <1>1, <1>2, <1>6, <1>10 DEF Accounted

(* Time that passes is waited by a timer or spent by a run.                *)
LEMMA TickAccounted ==
    ASSUME ReadyInv, Tick
    PROVE  Accounted'
  <1> SUFFICES ASSUME setbacks' <= 1 PROVE Accounted'
    BY DEF Accounted
  <1>1. setbacks' = setbacks /\ \A i \in runs : ~(spent[i] >= PromptRun)
    BY DEF Tick
  <1>2. /\ running /\ since # Never
        /\ (\E j \in Ids : RunAccounts(j)) \/ (\E t \in Ids : TimerAccounts(t))
    BY <1>1 DEF ReadyInv, Accounted
  <1>3. /\ runs' = runs /\ armed' = armed /\ running' = running /\ over' = over
        /\ runs \subseteq Ids /\ armed \subseteq Ids
    BY DEF Tick, loopVars, ReadyInv, TypeOK, LoopTypeOK
  <1>4. since \in Nat /\ since' \in Nat /\ since' <= since + 1
    BY <1>2, Sizes DEF Tick, Lower, Never, ReadyInv, TypeOK
  <1>5. \A i \in runs : spent'[i] = spent[i] + 1 /\ spent'[i] <= PromptRun /\ spent[i] \in Nat
    BY <1>1, <1>3, Sizes DEF Tick, Lower, ReadyInv, TypeOK
  <1>6. \A t \in armed : wait'[t] = wait[t] - 1 /\ wait[t] \in Nat
    BY <1>3, Sizes DEF Tick, ReadyInv, TypeOK
  <1>7. Debt(setbacks) \in Nat
    BY DebtSizes DEF ReadyInv, TypeOK
  <1>8. ASSUME NEW i \in Ids, RunAccounts(i) PROVE RunAccounts(i)'
    BY <1>1, <1>3, <1>4, <1>5, <1>7, <1>8, Sizes DEF RunAccounts
  <1>9. ASSUME NEW t \in Ids, TimerAccounts(t) PROVE TimerAccounts(t)'
    BY <1>1, <1>3, <1>4, <1>6, <1>7, <1>9, Sizes DEF TimerAccounts
  <1>10. \A i \in runs' : ~Overdue(i)'
    BY <1>3, <1>5, Sizes DEF Overdue
  <1>11. since' # Never
    BY <1>4 DEF Never
  <1> QED BY <1>2, <1>3, <1>8, <1>9, <1>10, <1>11 DEF Accounted

LEMMA ReadyInvStep == ReadyInv /\ [Next]_vars => ReadyInv'
  <1> SUFFICES ASSUME ReadyInv, [Next]_vars PROVE ReadyInv'
    OBVIOUS
  <1>1. TypeOK'
    BY ReadyTypeStep DEF ReadyInv
  <1>2. ASSUME NEW k \in Callers, StopBegins(k) PROVE Accounted'
    BY <1>2 DEF StopBegins, Accounted
  <1>3. ASSUME NEW k \in Callers, StopEnds(k) PROVE Accounted'
    BY <1>3 DEF StopEnds, StopReturns, readyVars, ReadyInv, Accounted, Overdue, RunAccounts,
                TimerAccounts
  <1>4. ASSUME UNCHANGED vars PROVE Accounted'
    BY <1>4 DEF vars, loopVars, readyVars, ReadyInv, Accounted, Overdue, RunAccounts,
                TimerAccounts
  <1>5. Accounted'
    BY <1>2, <1>3, <1>4, StartAccounted, TimerAccounted, SuccessAccounted, FailureAccounted,
       SettledAccounted, TickAccounted DEF Next
  <1> QED BY <1>1, <1>5 DEF ReadyInv

LEMMA AccountedIsFresh == ReadyInv => SteadyLoopStaysFresh
  <1> SUFFICES ASSUME ReadyInv, active, setbacks <= 1 PROVE Fresh
    BY DEF SteadyLoopStaysFresh
  <1>1. /\ since # Never /\ since \in Int
        /\ \A i \in runs : ~Overdue(i)
        /\ (\E i \in Ids : RunAccounts(i)) \/ (\E t \in Ids : TimerAccounts(t))
    BY DEF ReadyInv, TypeOK, Accounted
  <1>2. Debt(setbacks) \in Nat /\ Debt(setbacks) <= PromptRun + Cadence
    BY Sizes DEF Debt
  <1>3. ASSUME NEW i \in Ids, RunAccounts(i) PROVE since <= StaleAfter
    <2>1. spent[i] <= PromptRun /\ spent[i] \in Nat
      BY <1>1, <1>3, Sizes DEF RunAccounts, Overdue, ReadyInv, TypeOK
    <2> QED BY <1>1, <1>2, <1>3, <2>1, Sizes DEF RunAccounts
  <1>4. ASSUME NEW t \in Ids, TimerAccounts(t) PROVE since <= StaleAfter
    <2>1. wait[t] \in Nat
      BY Sizes DEF ReadyInv, TypeOK
    <2> QED BY <1>1, <1>2, <1>4, <2>1, Sizes DEF TimerAccounts
  <1> QED BY <1>1, <1>3, <1>4 DEF Fresh

(* The state is well formed under the clock, too.                          *)
THEOREM ReadinessTypeOK == Spec => []TypeOK
  <1>1. ReadyInv => TypeOK
    BY DEF ReadyInv
  <1> QED BY <1>1, ReadyInvInit, ReadyInvStep, PTL DEF Spec

(* Three cadences are enough, whatever the cadence, the number of callers  *)
(* and the chains they have left behind: an active loop whose runs take at *)
(* most a third of a cadence stays fresh over one failing cycle.           *)
THEOREM ReadinessStaysFresh == Spec => []SteadyLoopStaysFresh
  BY ReadyInvInit, ReadyInvStep, AccountedIsFresh, PTL DEF Spec
=============================================================================
