----------------------------- MODULE Lifecycle ------------------------------
(***************************************************************************)
(* One scheduler process from start to end: application.start() (index.ts) *)
(* and the shutdown that a signal may trigger meanwhile, over the service's *)
(* start() and stop() and the scheduling loop.  Between two awaits a       *)
(* process runs alone, so that an action is the code between two awaits.   *)
(*                                                                         *)
(* The runtime library is external: its shutdown controller calls the      *)
(* three callbacks in order, a broker lifecycle that is stopped while it   *)
(* connects rejects the start, and a drain that has stopped accepting work *)
(* rejects it.  A second pool.end() is rejected by the driver.             *)
(***************************************************************************)
EXTENDS Integers, FiniteSets

VARIABLES
    running, timer, inFlight, armed, runs, stopping, active, hasty,   \* the loop
    mode,            \* config.dependencyMode
    at,              \* process -> where it is
    started,         \* the service's flag
    generation,      \* lifecycleGeneration
    mine,            \* start()'s startGeneration
    broker,          \* the broker lifecycle's state
    store,           \* the lease store's pool
    http,            \* the HTTP server listens
    draining,        \* the drain accepts no more work
    tracked,         \* runs that the drain tracks, and that do work
    lastSuccess      \* lastSuccessAt: undefined, or how old

loop == <<running, timer, inFlight, armed, runs, stopping, active, hasty>>
adapters == <<broker, store, http>>
work == <<draining, tracked, lastSuccess>>
service == <<mode, started, generation, mine, adapters, work>>
vars == <<loop, at, service>>

(* Both end in loop.stop(), service.stop() and httpServer.close().         *)
Processes == {"startup", "shutdown"}

Loop == INSTANCE SchedulerLoop WITH Callers <- Processes, MaxChains <- 1, MaxIds <- 4

Http == INSTANCE HttpServer

StopSteps == {"stopLoop", "awaitRun", "stopService", "drain", "stopBroker", "closeStore",
              "closeHttp"}
Steps == {"new", "probing", "connecting", "cancelled", "reporting", "started", "ended"}
             \cup StopSteps

TypeOK ==
    /\ Loop!LoopTypeOK
    /\ at \in [Processes -> Steps]
    /\ mode \in {"test", "production"}
    /\ started \in BOOLEAN /\ http \in BOOLEAN /\ draining \in BOOLEAN
    /\ generation \in 0..3 /\ mine \in 0..generation
    /\ broker \in {"closed", "connecting", "open"}
    /\ store \in {"open", "closed"}
    /\ tracked \subseteq runs
    /\ lastSuccess \in {"never", "recent", "old"}

-----------------------------------------------------------------------------
(* The health probes, with the feed source and the broker's probe healthy: *)
(* ready means that the broker is up, the lease store answers and, in      *)
(* production mode, the loop is active and its last success recent.        *)
Healthy(condition) == IF condition THEN "ok" ELSE "unhealthy"

LoopIsFresh == active /\ lastSuccess = "recent"

Health ==
    [liveness |-> "ok",
     startup |-> Healthy(started),
     readiness |-> Healthy(/\ broker = "open"
                           /\ mode = "production" => store = "open" /\ LoopIsFresh)]

(* The answer to a GET, 0 when nobody listens.                             *)
Get(path) == IF http THEN Http!GetCode(Health, path) ELSE 0

-----------------------------------------------------------------------------
Goto(p, step) == at' = [at EXCEPT ![p] = step]

(* application.start() up to its first wait in service.start(): the server *)
(* listens, then production probes its adapters and test mode connects.    *)
Listen ==
    /\ at["startup"] = "new"
    /\ http' = TRUE
    /\ generation' = generation + 1
    /\ mine' = generation + 1
    /\ IF mode = "production"
       THEN Goto("startup", "probing") /\ UNCHANGED broker
       ELSE Goto("startup", "connecting") /\ broker' = "connecting"
    /\ UNCHANGED <<loop, mode, started, store, work>>

(* The probes of the feed source and the lease store, then broker.start(). *)
ProbesSucceed ==
    /\ at["startup"] = "probing"
    /\ broker' = "connecting"
    /\ Goto("startup", "connecting")
    /\ UNCHANGED <<loop, mode, started, generation, mine, store, http, work>>

(* The catch clause of application.start() cleans up.                      *)
ProbesFail ==
    /\ at["startup"] = "probing"
    /\ Goto("startup", "stopLoop")
    /\ UNCHANGED <<loop, service>>

(* Fault for ShutdownIsFinal: start() does not look at the generation.     *)
ConnectedAnyway ==
    /\ at["startup"] = "connecting"
    /\ broker = "connecting"
    /\ broker' = "open"
    /\ started' = TRUE
    /\ Goto("startup", "reporting")
    /\ UNCHANGED <<loop, mode, generation, mine, store, http, work>>

(* broker.start() resolves: started, unless the generation has moved on.   *)
Connected ==
    /\ at["startup"] = "connecting"
    /\ broker = "connecting"
    /\ broker' = "open"
    /\ IF generation = mine
       THEN started' = TRUE /\ Goto("startup", "reporting")
       ELSE UNCHANGED started /\ Goto("startup", "cancelled")
    /\ UNCHANGED <<loop, mode, generation, mine, store, http, work>>

(* broker.start() rejects, by itself or as broker.stop() has come between. *)
ConnectFails ==
    /\ at["startup"] = "connecting"
    /\ broker' = "closed"
    /\ Goto("startup", "stopLoop")
    /\ UNCHANGED <<loop, mode, started, generation, mine, store, http, work>>

(* broker.stop("startup-cancelled"), and start() throws.                   *)
StartCancelled ==
    /\ at["startup"] = "cancelled"
    /\ broker' = "closed"
    /\ Goto("startup", "stopLoop")
    /\ UNCHANGED <<loop, mode, started, generation, mine, store, http, work>>

(* A run that begins is tracked by the drain, or rejected.                 *)
Track == tracked' = IF draining THEN tracked ELSE tracked \cup (runs' \ runs)

(* The health probes and the telemetry of start() are done: loop.start().  *)
StartLoop ==
    /\ at["startup"] = "reporting"
    /\ Loop!Start(FALSE)
    /\ Track
    /\ Goto("startup", "started")
    /\ UNCHANGED <<mode, started, generation, mine, adapters, draining, lastSuccess>>

(* A signal, once the controller listens for it.                           *)
Signal ==
    /\ at["shutdown"] = "new"
    /\ at["startup"] \in {"probing", "connecting", "cancelled", "reporting", "started"}
    /\ Goto("shutdown", "stopLoop")
    /\ UNCHANGED <<loop, service>>

-----------------------------------------------------------------------------
(* The loop's own steps                                                    *)

TimerFires ==
    /\ \E t \in armed : Loop!TimerFires(t)
    /\ Track
    /\ UNCHANGED <<at, mode, started, generation, mine, adapters, draining, lastSuccess>>

(* Fault for ShutdownEnds: work that is over is tracked for ever.          *)
WorkEndsUntold(i) ==
    /\ i \in tracked
    /\ lastSuccess' \in {lastSuccess, "recent"}
    /\ UNCHANGED <<loop, at, mode, started, generation, mine, adapters, draining, tracked>>

(* The cycle that the drain tracks ends, with failures or without.         *)
WorkEnds(i) ==
    /\ i \in tracked
    /\ tracked' = tracked \ {i}
    /\ lastSuccess' \in {lastSuccess, "recent"}
    /\ UNCHANGED <<loop, at, mode, started, generation, mine, adapters, draining>>

(* The rest of runOnce, or all of it when the drain has rejected the cycle. *)
RunEnds(i) ==
    /\ i \in runs \ tracked
    /\ Loop!RunEnds(i)
    /\ UNCHANGED <<at, service>>

(* Three cadences go by.                                                   *)
SuccessAges ==
    /\ lastSuccess = "recent"
    /\ lastSuccess' = "old"
    /\ UNCHANGED <<loop, at, mode, started, generation, mine, adapters, draining, tracked>>

-----------------------------------------------------------------------------
(* loop.stop(), service.stop() and httpServer.close()                      *)

StopLoop(p) ==
    /\ at[p] = "stopLoop"
    /\ Loop!Stop(p)
    /\ Goto(p, "awaitRun")
    /\ UNCHANGED service

LoopStopped(p) ==
    /\ at[p] = "awaitRun"
    /\ Loop!StopReturns(p)
    /\ Goto(p, "stopService")
    /\ UNCHANGED service

(* Fault for WorkHasItsAdapters: service.stop() goes on accepting work.    *)
StopServiceWithoutDrain(p) ==
    /\ at[p] = "stopService"
    /\ generation' = generation + 1
    /\ IF ~started /\ broker = "closed"
       THEN Goto(p, "closeHttp") /\ UNCHANGED active
       ELSE Goto(p, "drain") /\ active' = FALSE
    /\ UNCHANGED <<running, timer, inFlight, armed, runs, stopping, hasty>>
    /\ UNCHANGED <<mode, started, mine, adapters, work>>

(* Fault for ReadyMeansServing: only the loop's stop() says it is inactive. *)
StopServiceLeavesActive(p) ==
    /\ at[p] = "stopService"
    /\ generation' = generation + 1
    /\ IF ~started /\ broker = "closed"
       THEN Goto(p, "closeHttp") /\ UNCHANGED draining
       ELSE Goto(p, "drain") /\ draining' = TRUE
    /\ UNCHANGED <<loop, mode, started, mine, adapters, tracked, lastSuccess>>

(* service.stop() returns early when there is nothing to stop.             *)
StopService(p) ==
    /\ at[p] = "stopService"
    /\ generation' = generation + 1
    /\ IF ~started /\ broker = "closed"
       THEN Goto(p, "closeHttp") /\ UNCHANGED <<draining, active>>
       ELSE Goto(p, "drain") /\ draining' = TRUE /\ active' = FALSE
    /\ UNCHANGED <<running, timer, inFlight, armed, runs, stopping, hasty>>
    /\ UNCHANGED <<mode, started, mine, adapters, tracked, lastSuccess>>

(* waitForDrain; that it ends before its own time-out is assumed.          *)
Drained(p) ==
    /\ at[p] = "drain"
    /\ tracked = {}
    /\ Goto(p, "stopBroker")
    /\ UNCHANGED <<loop, service>>

StopBroker(p) ==
    /\ at[p] = "stopBroker"
    /\ broker' = "closed"
    /\ Goto(p, "closeStore")
    /\ UNCHANGED <<loop, mode, started, generation, mine, store, http, work>>

(* A second end of the pool is rejected, and started is left as it was; the *)
(* store of test mode does not mind.                                       *)
CloseStore(p) ==
    /\ at[p] = "closeStore"
    /\ store' = "closed"
    /\ started' = IF store = "open" \/ mode = "test" THEN FALSE ELSE started
    /\ Goto(p, "closeHttp")
    /\ UNCHANGED <<loop, mode, generation, mine, broker, http, work>>

CloseHttp(p) ==
    /\ at[p] = "closeHttp"
    /\ http' = FALSE
    /\ Goto(p, "ended")
    /\ UNCHANGED <<loop, mode, started, generation, mine, broker, store, work>>

StopStep(p) ==
    \/ StopLoop(p) \/ LoopStopped(p) \/ StopService(p) \/ Drained(p)
    \/ StopBroker(p) \/ CloseStore(p) \/ CloseHttp(p)

-----------------------------------------------------------------------------
StartStep ==
    \/ Listen \/ ProbesSucceed \/ ProbesFail \/ Connected \/ ConnectFails
    \/ StartCancelled \/ StartLoop

Init ==
    /\ Loop!LoopInit
    /\ mode \in {"test", "production"}
    /\ at = [p \in Processes |-> "new"]
    /\ started = FALSE
    /\ generation = 0
    /\ mine = 0
    /\ broker = "closed"
    /\ store = "open"
    /\ http = FALSE
    /\ draining = FALSE
    /\ tracked = {}
    /\ lastSuccess = "never"

Next ==
    \/ StartStep
    \/ Signal
    \/ \E p \in Processes : StopStep(p)
    \/ TimerFires
    \/ \E i \in runs : WorkEnds(i) \/ RunEnds(i)
    \/ SuccessAges

Spec == Init /\ [][Next]_vars

(* Promises settle: the probes, the broker's start and stop and the store  *)
(* have time-outs, and so has every await of a run.                        *)
Fairness ==
    /\ WF_vars(StartStep)
    /\ WF_vars(\E i \in runs : WorkEnds(i) \/ RunEnds(i))
    /\ \A p \in Processes : WF_vars(StopStep(p))

FairSpec == Spec /\ Fairness

-----------------------------------------------------------------------------
(* Neither the startup nor the shutdown has anything left to do.           *)
Over == at["shutdown"] = "ended" /\ at["startup"] \in {"started", "ended"}

(* A run does work only while the broker and the lease store are there:    *)
(* nothing is scheduled on closed adapters, in whatever order the signal   *)
(* and the startup come.                                                   *)
WorkHasItsAdapters == tracked # {} => broker = "open" /\ store = "open"

(* A shutdown that overtakes the startup is not undone by it: when both    *)
(* are through, the service is not started and the broker not connected.   *)
ShutdownIsFinal == Over => ~started /\ broker = "closed" /\ ~http

(* A process in production mode whose GET /ready is answered 200 is        *)
(* started and takes work: no shutdown has begun to drain it, whatever     *)
(* cycle succeeds meanwhile and however late the loop was started.         *)
ReadyMeansServing ==
    mode = "production" /\ Get("/ready") = 200 => Get("/startup") = 200 /\ ~draining

(* The signal's callbacks come to their end, whatever run, connection or   *)
(* startup they meet.                                                      *)
ShutdownEnds == at["shutdown"] # "new" ~> at["shutdown"] = "ended"

(* service.test: the shutdown "cancels its timer", and the loop is over.   *)
LoopEndsWithShutdown == Over => ~running /\ armed = {}

=============================================================================
