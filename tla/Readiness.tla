----------------------------- MODULE Readiness ------------------------------
(***************************************************************************)
(* What the readiness check "scheduling loop" says of the loop: fresh when *)
(* the last cycle without failures ended at most three cadences ago.  The  *)
(* loop of SchedulerLoop runs under a clock; a run is a cycle that         *)
(* succeeds or fails, then the readiness probe of runOnce's finally, and   *)
(* any of it may take arbitrarily long.  Timers fire when they are due and *)
(* nobody sets the system clock back.                                      *)
(***************************************************************************)
EXTENDS SchedulerLoop

CONSTANTS
    Cadence,      \* config.cadenceMs
    PromptRun     \* the longest a run may take to count as prompt

ASSUME ReadinessAssumption ==
    /\ Cadence \in Nat \ {0} /\ PromptRun \in Nat
    /\ 3 * PromptRun <= Cadence

VARIABLES
    since,        \* age of lastSuccessAt, Never for undefined
    wait,         \* armed timer -> how long until it is due
    spent,        \* run -> how long it has taken
    over,         \* runs whose cycle has ended and whose probe has not
    setbacks      \* since the last success: a failed cycle counts 1, a stop()
                  \* or a run that is overdue 2, and 2 stands for more

readyVars == <<since, wait, spent, over, setbacks>>
vars == <<loopVars, readyVars>>

Never == -1

(* Fault for SteadyLoopStaysFresh: two cadences.                           *)
StaleAfterTwo == 2 * Cadence
StaleAfter == 3 * Cadence     \* schedulingLoopStaleAfterMs

(* Fault for FreshNeedsSuccess: a loop that is active is fresh.            *)
FreshWhenActive == active /\ since # Never
Fresh == active /\ since # Never /\ since <= StaleAfter

(* The state the loop may be in, with its clock.                           *)
TypeOK ==
    /\ LoopTypeOK
    /\ since \in -1..(StaleAfter + 1)
    /\ wait \in [Ids -> 0..Cadence]
    /\ spent \in [Ids -> 0..(PromptRun + 1)]
    /\ over \subseteq runs
    /\ setbacks \in 0..2

Overdue(i) == spent[i] > PromptRun

-----------------------------------------------------------------------------
Lower(a, b) == IF a < b THEN a ELSE b

(* A timer that is armed by this step waits for delay.                     *)
SetTimers(delay) ==
    wait' = [i \in Ids |-> IF i \in armed' \ armed THEN delay
                           ELSE IF i \in armed' THEN wait[i] ELSE 0]

SetRuns == spent' = [i \in Ids |-> IF i \in runs' \cap runs THEN spent[i] ELSE 0]

LoopStarts ==
    /\ \/ Start(FALSE) /\ SetTimers(0)
       \/ \E delay \in 1..Cadence : Start(TRUE) /\ SetTimers(delay)
    /\ SetRuns
    /\ UNCHANGED <<since, over, setbacks>>

TimerDue(t) ==
    /\ wait[t] = 0
    /\ TimerFires(t)
    /\ SetTimers(0) /\ SetRuns
    /\ UNCHANGED <<since, over, setbacks>>

(* The cycle of a run ends without failures: lastSuccessAt = now.          *)
CycleSucceeds(i) ==
    /\ i \in runs \ over
    /\ over' = over \cup {i}
    /\ since' = 0
    /\ setbacks' = IF running /\ ~\E j \in runs : Overdue(j) THEN 0 ELSE 2
    /\ UNCHANGED <<loopVars, wait, spent>>

(* It ends with failures, or runOnce rejects.                              *)
CycleFails(i) ==
    /\ i \in runs \ over
    /\ over' = over \cup {i}
    /\ setbacks' = Lower(setbacks + 1, 2)
    /\ UNCHANGED <<loopVars, since, wait, spent>>

(* The readiness probe is over, and the loop schedules the next run.       *)
RunSettles(i) ==
    /\ i \in over
    /\ RunEnds(i)
    /\ over' = over \ {i}
    /\ SetTimers(Cadence) /\ SetRuns
    /\ UNCHANGED <<since, setbacks>>

StopBegins(k) ==
    /\ Stop(k)
    /\ SetTimers(0)
    /\ setbacks' = 2
    /\ UNCHANGED <<since, spent, over>>

StopEnds(k) ==
    /\ StopReturns(k)
    /\ UNCHANGED readyVars

(* Time passes, unless a timer is due.                                     *)
Tick ==
    /\ \A t \in armed : wait[t] > 0
    /\ since' = IF since = Never THEN Never ELSE Lower(since + 1, StaleAfter + 1)
    /\ wait' = [i \in Ids |-> IF i \in armed THEN wait[i] - 1 ELSE 0]
    /\ spent' = [i \in Ids |-> IF i \in runs THEN Lower(spent[i] + 1, PromptRun + 1)
                               ELSE 0]
    /\ setbacks' = IF \E i \in runs : spent[i] >= PromptRun THEN 2 ELSE setbacks
    /\ UNCHANGED <<loopVars, over>>

-----------------------------------------------------------------------------
Init ==
    /\ LoopInit
    /\ since = Never
    /\ wait = [i \in Ids |-> 0]
    /\ spent = [i \in Ids |-> 0]
    /\ over = {}
    /\ setbacks = 2

Next ==
    \/ LoopStarts
    \/ \E t \in armed : TimerDue(t)
    \/ \E i \in runs : CycleSucceeds(i) \/ CycleFails(i) \/ RunSettles(i)
    \/ \E k \in Callers : StopBegins(k) \/ StopEnds(k)
    \/ Tick

(* Time passes and timers fire; a run need not end.                        *)
Fairness ==
    /\ WF_vars(Tick)
    /\ \A t \in Ids : WF_vars(TimerDue(t))
    /\ \A k \in Callers : WF_vars(StopEnds(k))

Spec == Init /\ [][Next]_vars /\ Fairness

-----------------------------------------------------------------------------
(* A loop that is not being stopped and whose runs take at most a third of *)
(* a cadence stays ready over one failing cycle; the three cadences are    *)
(* just enough.                                                            *)
SteadyLoopStaysFresh == active /\ setbacks <= 1 => Fresh

(* Readiness does not go on by itself: a loop that hangs, or whose cycles  *)
(* all fail, is reported stale.                                            *)
FreshNeedsSuccess ==
    []<>~Fresh \/ []<><<\E i \in runs : CycleSucceeds(i)>>_vars
=============================================================================
