--------------------------- MODULE Process_Proofs ----------------------------
(***************************************************************************)
(* What a scheduler process promises: that the configuration it accepts is *)
(* one it can run with, that its work, its shutdown and its readiness fit  *)
(* together in whatever order startup and signal come, and what its        *)
(* diagnostic server may answer.                                           *)
(***************************************************************************)
EXTENDS Lifecycle, Configuration, FiniteSetTheorems, TLAPS

(* The bounds, kept as names wherever they end a range.                    *)
LEMMA Sizes ==
    /\ SCHEDULE_LEASE_MAX_MS \in Int /\ SCHEDULE_LEASE_MAX_MS >= 60000
    /\ A_DAY_MS \in Int /\ A_DAY_MS >= SCHEDULE_LEASE_MAX_MS
    /\ SCHEDULER_PRODUCTION_MIN_LEASE_MS = 60000
    /\ SCHEDULER_PRODUCTION_PUBLISH_MIN_REMAINING_MS = 25000
    /\ DEPENDENCY_TIMEOUT_MS = 5000
  BY SMT DEF SCHEDULE_LEASE_MAX_MS, A_DAY_MS, SCHEDULER_PRODUCTION_MIN_LEASE_MS,
             SCHEDULER_PRODUCTION_PUBLISH_MIN_REMAINING_MS, DEPENDENCY_TIMEOUT_MS

LEMMA ParsedInRange ==
    ASSUME NEW setting, NEW range, NEW fallback \in range
    PROVE  Parsed(setting, fallback, range) \in range
  BY Zenon DEF Parsed

(* An accepted configuration never trips a check at run time: the lease    *)
(* store takes its lease duration, and in production a renewal's duration  *)
(* is usable and leaves, after the store's own time-out, what a            *)
(* publication needs.  The cadence that is accepted is at most the longest *)
(* lease, although its own range goes up to a day.                         *)
THEOREM AcceptedLeaseIsUsable ==
    ASSUME NEW env \in Env, Accepted(env)
    PROVE  LET c == Config(env) IN
           /\ LeaseDurationAllowed(c.lease)
           /\ c.cadence \in 1000..SCHEDULE_LEASE_MAX_MS
           /\ c.mode = "production" =>
                 /\ RenewalUsable(c.lease)
                 /\ RemainingAfterRenewal(c.lease)
                      >= SCHEDULER_PRODUCTION_PUBLISH_MIN_REMAINING_MS
  <1> DEFINE c == Config(env)
  <1>1. c.lease \in LeaseRange /\ c.cadence \in CadenceRange
    <2>1. SCHEDULE_LEASE_MAX_MS \in LeaseRange /\ 60000 \in CadenceRange
      BY Sizes, SMT DEF LeaseRange, CadenceRange
    <2>2. /\ c.lease = Parsed(env.lease, SCHEDULE_LEASE_MAX_MS, LeaseRange)
          /\ c.cadence = Parsed(env.cadence, 60000, CadenceRange)
      BY SMT DEF Config
    <2> HIDE DEF c
    <2> QED BY <2>1, <2>2, ParsedInRange, SMT
  <1>2. /\ c.lease >= c.cadence
        /\ c.mode = "production" => c.lease >= SCHEDULER_PRODUCTION_MIN_LEASE_MS
    <2>1. Coherent(c)
      BY Zenon DEF Accepted
    <2> HIDE DEF c
    <2> QED BY <2>1, Zenon DEF Coherent
  <1> HIDE DEF c
  <1>3. c.cadence \in 1000..SCHEDULE_LEASE_MAX_MS
    BY <1>1, <1>2, Sizes, SMT DEF LeaseRange, CadenceRange
  <1>4. ASSUME c.mode = "production"
        PROVE  /\ RenewalUsable(c.lease)
               /\ RemainingAfterRenewal(c.lease)
                    >= SCHEDULER_PRODUCTION_PUBLISH_MIN_REMAINING_MS
    <2>1. c.lease \in Int /\ 60000 <= c.lease /\ c.lease <= SCHEDULE_LEASE_MAX_MS
      BY <1>1, <1>2, <1>4, Sizes, SMT DEF LeaseRange
    <2> QED BY <2>1, Sizes, SMT DEF RenewalUsable, RemainingAfterRenewal
  <1> QED BY <1>1, <1>3, <1>4, SMT DEF c, LeaseDurationAllowed

(* A process in the production environment runs the production adapters    *)
(* and nothing else: whatever bundle it is handed, the service is made     *)
(* only with all of them, so that the readiness check "production-adapters" *)
(* can never be what fails; and the bundle that is made for an accepted    *)
(* configuration is one that passes.                                       *)
THEOREM ProductionHasNoDoubles ==
    ASSUME NEW env \in Env, Accepted(env)
    PROVE  /\ \A bundle \in Bundle :
                 /\ WithinBoundary(Config(env), bundle)
                 /\ env.environment = "production"
                 => AdapterMode(bundle) = "production"
           /\ WithinBoundary(Config(env), Dependencies(Config(env)))
  <1>1. Config(env).mode \in {"test", "production"}
        /\ Config(env).environment = env.environment
    BY DEF Config, Mode
  <1>2. ASSUME NEW bundle \in Bundle, WithinBoundary(Config(env), bundle),
               env.environment = "production"
        PROVE  AdapterMode(bundle) = "production"
    <2>1. PICK c : c = Config(env)
      OBVIOUS
    <2>2. c.mode = "production"
      <3>1. Coherent(c) /\ c.environment = env.environment
        BY <1>1, <2>1, Zenon DEF Accepted
      <3> QED BY <1>2, <3>1, Zenon DEF Coherent
    <2>3. WithinBoundary(c, bundle)
      BY <1>2, <2>1, Zenon
    <2>4. bundle.production = Parts
      BY <2>2, <2>3, Zenon DEF WithinBoundary
    <2>5. ~(bundle.production = {})
      BY <2>4, SMT DEF Parts
    <2> QED BY <2>4, <2>5, Zenon DEF AdapterMode
  <1>3. WithinBoundary(Config(env), Dependencies(Config(env)))
    BY <1>1 DEF WithinBoundary, Dependencies
  <1> QED BY <1>2, <1>3

(* The reconciliation path succeeds for dry runs only: not for an apply    *)
(* request, be it confirmed, nor without the token, nor under the stop     *)
(* switch.                                                                 *)
THEOREM ApplyNeverSucceeds ==
    ASSUME NEW server \in Http!Server, NEW request \in Http!Request,
           Http!Reconciles(request), Http!AnswerCode(server, request) = 200
    PROVE  /\ request.mode # "apply"
           /\ server.tokenConfigured /\ request.authorized
           /\ ~server.stopSwitch
  <1>1. Http!ReconciliationCode(server, request) = 200
    BY DEF Http!AnswerCode
  <1>2. server.tokenConfigured /\ request.authorized
        /\ Http!ReportCode(Http!ReportStatus(server, request)) = 200
    BY <1>1 DEF Http!ReconciliationCode, Http!Server, Http!Request
  <1>3. Http!ReportStatus(server, request) = "dry_run"
    BY <1>2 DEF Http!ReportCode
  <1> QED BY <1>2, <1>3 DEF Http!ReportStatus, Http!Server, Http!Request

-----------------------------------------------------------------------------
(* service.stop() has been called, by the shutdown or by the startup's own *)
(* clean-up.                                                               *)
Past(p) == at[p] \in {"drain", "stopBroker", "closeStore", "closeHttp", "ended"}

(* The service has been started and the loop is about to be, or has been.  *)
Begun == at["startup"] \in {"reporting", "started"}

(* Who calls service.start() or service.stop() makes a new generation, and *)
(* a start() that a stop() has overtaken can tell.                         *)
GenerationOK ==
    /\ generation = (IF at["startup"] = "new" THEN 0 ELSE 1)
                       + (IF Past("startup") THEN 1 ELSE 0)
                       + (IF Past("shutdown") THEN 1 ELSE 0)
    /\ at["startup"] = "new" => at["shutdown"] = "new"
    /\ at["startup"] \in {"probing", "connecting", "cancelled"} /\ Past("shutdown")
          => mine < generation

(* Before the service is started, and when the startup has failed.         *)
StartupOK ==
    /\ ~Begun => ~started
    /\ ~Begun /\ at["startup"] \notin {"connecting", "cancelled"} => broker = "closed"
    /\ at["startup"] = "connecting" => broker # "open"
    /\ ~Past("startup") /\ ~Past("shutdown") => ~draining /\ store = "open"

(* A service that is started is taken down by the shutdown alone, step by  *)
(* step.                                                                   *)
ShutdownOK ==
    Begun =>
        /\ ~Past("shutdown") \/ at["shutdown"] \in {"drain", "stopBroker"}
              => started /\ broker = "open" /\ store = "open"
        /\ at["shutdown"] = "closeStore" => broker = "closed" /\ store = "open"
        /\ at["shutdown"] \in {"closeHttp", "ended"} => ~started /\ broker = "closed"
        /\ Past("shutdown") => draining
        /\ Past("shutdown") /\ at["shutdown"] # "drain" => tracked = {}

(* The loop does nothing before it is started, and a service that has      *)
(* begun to drain never looks fresh again: its loop is inactive, or was    *)
(* started too late to have had a success.                                 *)
WorkOK ==
    /\ at["startup"] # "started" =>
          armed = {} /\ runs = {} /\ tracked = {} /\ lastSuccess = "never" /\ ~active
    /\ draining => ~active \/ (tracked = {} /\ lastSuccess = "never")

(* The server's close() is the last step.                                  *)
HttpOK == (\E p \in Processes : at[p] = "ended") => ~http

LifecycleInv ==
    TypeOK /\ GenerationOK /\ StartupOK /\ ShutdownOK /\ WorkOK /\ HttpOK

-----------------------------------------------------------------------------
USE DEF Processes, StopSteps, Steps

(* The loop's identities are what Unused leaves, as it takes them.         *)
LEMMA LoopIdIsUnused ==
    ASSUME Loop!Unused # {}
    PROVE  Loop!NewId \in Loop!Ids
  BY DEF Loop!NewId, Loop!Unused

LEMMA LoopTypeStep ==
    ASSUME Loop!LoopTypeOK, Loop!LoopNext
    PROVE  Loop!LoopTypeOK'
  <1> USE DEF Loop!LoopTypeOK
  <1>1. ASSUME NEW delayed \in BOOLEAN, Loop!Start(delayed) PROVE Loop!LoopTypeOK'
    BY <1>1, LoopIdIsUnused DEF Loop!Start, Loop!ArmTimer, Loop!BeginRun
  <1>2. ASSUME NEW t \in armed, Loop!TimerFires(t) PROVE Loop!LoopTypeOK'
    BY <1>2, LoopIdIsUnused DEF Loop!TimerFires, Loop!BeginRun
  <1>3. ASSUME NEW i \in runs, Loop!RunEnds(i) PROVE Loop!LoopTypeOK'
    BY <1>3, LoopIdIsUnused DEF Loop!RunEnds, Loop!ArmTimer
  <1>4. ASSUME NEW k \in Processes, Loop!Stop(k) PROVE Loop!LoopTypeOK'
    BY <1>4 DEF Loop!Stop
  <1>5. ASSUME NEW k \in Processes, Loop!StopReturns(k) PROVE Loop!LoopTypeOK'
    BY <1>5 DEF Loop!StopReturns
  <1> QED BY <1>1, <1>2, <1>3, <1>4, <1>5 DEF Loop!LoopNext

-----------------------------------------------------------------------------
(* The steps of the startup and the signal                                 *)

USE DEF LifecycleInv, Goto, loop, service, adapters, work

(* A step that leaves the loop alone, of a process that goes to a step.    *)
LEMMA TypeStep ==
    ASSUME TypeOK, UNCHANGED loop, NEW p \in Processes, NEW step \in Steps,
           at' = [at EXCEPT ![p] = step], mode' = mode, started' \in BOOLEAN,
           http' \in BOOLEAN, draining' = draining, generation' = generation, mine' = mine,
           broker' \in {"closed", "connecting", "open"}, store' \in {"open", "closed"},
           tracked' = tracked, lastSuccess' = lastSuccess
    PROVE  TypeOK'
  <1>1. Loop!LoopTypeOK'
    BY DEF TypeOK, Loop!LoopTypeOK
  <1>2. at' \in [Processes -> Steps]
    BY DEF TypeOK
  <1>3. /\ mode' \in {"test", "production"} /\ draining' \in BOOLEAN
        /\ generation' \in 0..3 /\ mine' \in 0..generation'
        /\ tracked' \subseteq runs' /\ lastSuccess' \in {"never", "recent", "old"}
    BY DEF TypeOK
  <1> QED BY <1>1, <1>2, <1>3 DEF TypeOK

LEMMA ListenInv ==
    ASSUME LifecycleInv, Listen
    PROVE  LifecycleInv'
  BY DEF TypeOK, Loop!LoopTypeOK, GenerationOK, StartupOK, ShutdownOK, WorkOK, HttpOK, Past, Begun,
         Listen

LEMMA ProbesSucceedInv ==
    ASSUME LifecycleInv, ProbesSucceed
    PROVE  LifecycleInv'
  BY DEF TypeOK, Loop!LoopTypeOK, GenerationOK, StartupOK, ShutdownOK, WorkOK, HttpOK, Past, Begun,
         ProbesSucceed

LEMMA ProbesFailInv ==
    ASSUME LifecycleInv, ProbesFail
    PROVE  LifecycleInv'
  BY DEF TypeOK, Loop!LoopTypeOK, GenerationOK, StartupOK, ShutdownOK, WorkOK, HttpOK, Past, Begun,
         ProbesFail

LEMMA ConnectedInv ==
    ASSUME LifecycleInv, Connected
    PROVE  LifecycleInv'
  <1> USE DEF Connected
  <1>1. TypeOK'
    <2>1. PICK step \in Steps : at' = [at EXCEPT !["startup"] = step]
      OBVIOUS
    <2>2. started' \in BOOLEAN
      BY DEF TypeOK
    <2> QED BY <2>1, <2>2, TypeStep DEF TypeOK
  <1>2. (GenerationOK /\ StartupOK)'
    BY DEF TypeOK, GenerationOK, StartupOK, ShutdownOK, Past, Begun
  <1>3. (ShutdownOK /\ WorkOK)'
    BY DEF TypeOK, GenerationOK, StartupOK, ShutdownOK, WorkOK, Past, Begun
  <1>4. HttpOK'
    BY DEF TypeOK, HttpOK
  <1> QED BY <1>1, <1>2, <1>3, <1>4

LEMMA ConnectFailsInv ==
    ASSUME LifecycleInv, ConnectFails
    PROVE  LifecycleInv'
  BY DEF TypeOK, Loop!LoopTypeOK, GenerationOK, StartupOK, ShutdownOK, WorkOK, HttpOK, Past, Begun,
         ConnectFails

LEMMA StartCancelledInv ==
    ASSUME LifecycleInv, StartCancelled
    PROVE  LifecycleInv'
  BY DEF TypeOK, Loop!LoopTypeOK, GenerationOK, StartupOK, ShutdownOK, WorkOK, HttpOK, Past, Begun,
         StartCancelled

LEMMA SignalInv ==
    ASSUME LifecycleInv, Signal
    PROVE  LifecycleInv'
  BY DEF TypeOK, Loop!LoopTypeOK, GenerationOK, StartupOK, ShutdownOK, WorkOK, HttpOK, Past, Begun,
         Signal

(* The loop starts, late or not: what is begun is tracked only while the   *)
(* service takes work, and then its adapters are there.                    *)
LEMMA StartLoopInv ==
    ASSUME LifecycleInv, StartLoop
    PROVE  LifecycleInv'
  <1>1. /\ at["startup"] = "reporting" /\ at' = [at EXCEPT !["startup"] = "started"]
        /\ UNCHANGED <<mode, started, generation, mine, broker, store, http, draining, lastSuccess>>
        /\ Loop!Start(FALSE) /\ Track
    BY DEF StartLoop
  <1>2. Loop!LoopTypeOK'
    BY <1>1, LoopTypeStep DEF TypeOK, Loop!LoopNext
  <1>3. runs \subseteq runs' /\ active' = TRUE
    BY <1>1 DEF Loop!Start, Loop!BeginRun
  <1>4. TypeOK'
    <2>1. tracked' \subseteq runs'
      BY <1>1, <1>3 DEF TypeOK, Track
    <2> QED BY <1>1, <1>2, <2>1 DEF TypeOK
  <1>5. (GenerationOK /\ StartupOK /\ HttpOK)'
    BY <1>1 DEF TypeOK, GenerationOK, StartupOK, HttpOK, Past, Begun
  <1>6. tracked = {} /\ lastSuccess = "never" /\ (draining => tracked' = {})
    BY <1>1 DEF WorkOK, Track
  <1>7. ShutdownOK'
    BY <1>1, <1>6 DEF TypeOK, ShutdownOK, Past, Begun
  <1>8. WorkOK'
    BY <1>1, <1>6 DEF TypeOK, WorkOK
  <1> QED BY <1>4, <1>5, <1>7, <1>8

-----------------------------------------------------------------------------
(* The loop's own steps                                                    *)

LEMMA TimerFiresInv ==
    ASSUME LifecycleInv, TimerFires
    PROVE  LifecycleInv'
  <1>1. PICK t \in armed : Loop!TimerFires(t)
    BY DEF TimerFires
  <1>2. /\ Track
        /\ UNCHANGED <<at, mode, started, generation, mine, broker, store, http, draining,
                       lastSuccess>>
    BY DEF TimerFires
  <1>3. Loop!LoopTypeOK'
    BY <1>1, LoopTypeStep DEF TypeOK, Loop!LoopNext
  <1>4. runs \subseteq runs' /\ active' = active
    BY <1>1 DEF Loop!TimerFires, Loop!BeginRun
  <1>5. at["startup"] = "started"
    BY <1>1 DEF WorkOK
  <1>6. TypeOK'
    <2>1. tracked' \subseteq runs'
      BY <1>2, <1>4 DEF TypeOK, Track
    <2> QED BY <1>2, <1>3, <2>1 DEF TypeOK
  <1>7. (GenerationOK /\ StartupOK /\ HttpOK)'
    BY <1>2 DEF GenerationOK, StartupOK, HttpOK, Past, Begun
  <1>8. draining => tracked' = tracked
    BY <1>2 DEF Track
  <1>9. (ShutdownOK /\ WorkOK)'
    BY <1>2, <1>4, <1>5, <1>8 DEF TypeOK, ShutdownOK, WorkOK, Past, Begun
  <1> QED BY <1>6, <1>7, <1>9

LEMMA WorkEndsInv ==
    ASSUME LifecycleInv, NEW i \in runs, WorkEnds(i)
    PROVE  LifecycleInv'
  BY DEF TypeOK, Loop!LoopTypeOK, GenerationOK, StartupOK, ShutdownOK, WorkOK, HttpOK, Past, Begun,
         WorkEnds

LEMMA RunEndsInv ==
    ASSUME LifecycleInv, NEW i \in runs, RunEnds(i)
    PROVE  LifecycleInv'
  <1>1. /\ i \notin tracked /\ Loop!RunEnds(i)
        /\ UNCHANGED <<at, mode, started, generation, mine, broker, store, http, draining, tracked,
                       lastSuccess>>
    BY DEF RunEnds
  <1>2. Loop!LoopTypeOK'
    BY <1>1, LoopTypeStep DEF TypeOK, Loop!LoopNext
  <1>3. runs' = runs \ {i} /\ active' = active
    BY <1>1 DEF Loop!RunEnds
  <1>4. at["startup"] = "started"
    BY DEF WorkOK
  <1>5. TypeOK'
    <2>1. tracked' \subseteq runs'
      BY <1>1, <1>3 DEF TypeOK
    <2> QED BY <1>1, <1>2, <2>1 DEF TypeOK
  <1>6. (GenerationOK /\ StartupOK /\ ShutdownOK /\ HttpOK)'
    BY <1>1 DEF GenerationOK, StartupOK, ShutdownOK, HttpOK, Past, Begun
  <1>7. WorkOK'
    BY <1>1, <1>3, <1>4 DEF WorkOK
  <1> QED BY <1>5, <1>6, <1>7

LEMMA SuccessAgesInv ==
    ASSUME LifecycleInv, SuccessAges
    PROVE  LifecycleInv'
  BY DEF TypeOK, Loop!LoopTypeOK, GenerationOK, StartupOK, ShutdownOK, WorkOK, HttpOK, Past, Begun,
         SuccessAges

-----------------------------------------------------------------------------
(* The steps of stopping                                                   *)

LEMMA StopLoopInv ==
    ASSUME LifecycleInv, NEW p \in Processes, StopLoop(p)
    PROVE  LifecycleInv'
  <1>1. /\ at[p] = "stopLoop" /\ at' = [at EXCEPT ![p] = "awaitRun"]
        /\ Loop!Stop(p)
        /\ UNCHANGED <<mode, started, generation, mine, broker, store, http, draining, tracked,
                       lastSuccess>>
    BY DEF StopLoop
  <1>2. Loop!LoopTypeOK'
    BY <1>1, LoopTypeStep DEF TypeOK, Loop!LoopNext
  <1>3. runs' = runs /\ armed' \subseteq armed /\ active' = active
    BY <1>1 DEF Loop!Stop
  <1>4. TypeOK'
    BY <1>1, <1>2, <1>3 DEF TypeOK
  <1>5. (GenerationOK /\ StartupOK /\ HttpOK)'
    BY <1>1 DEF TypeOK, GenerationOK, StartupOK, HttpOK, Past, Begun
  <1>6. ShutdownOK'
    BY <1>1 DEF TypeOK, ShutdownOK, Past, Begun
  <1>7. WorkOK'
    BY <1>1, <1>3 DEF TypeOK, WorkOK
  <1> QED BY <1>4, <1>5, <1>6, <1>7

LEMMA LoopStoppedInv ==
    ASSUME LifecycleInv, NEW p \in Processes, LoopStopped(p)
    PROVE  LifecycleInv'
  <1>1. /\ at[p] = "awaitRun" /\ at' = [at EXCEPT ![p] = "stopService"]
        /\ Loop!StopReturns(p)
        /\ UNCHANGED <<mode, started, generation, mine, broker, store, http, draining, tracked,
                       lastSuccess>>
    BY DEF LoopStopped
  <1>2. Loop!LoopTypeOK'
    BY <1>1, LoopTypeStep DEF TypeOK, Loop!LoopNext
  <1>3. runs' = runs /\ armed' = armed /\ active' = FALSE
    BY <1>1 DEF Loop!StopReturns
  <1>4. TypeOK'
    BY <1>1, <1>2, <1>3 DEF TypeOK
  <1>5. (GenerationOK /\ StartupOK /\ HttpOK)'
    BY <1>1 DEF TypeOK, GenerationOK, StartupOK, HttpOK, Past, Begun
  <1>6. ShutdownOK'
    BY <1>1 DEF TypeOK, ShutdownOK, Past, Begun
  <1>7. WorkOK'
    BY <1>1, <1>3 DEF TypeOK, WorkOK
  <1> QED BY <1>4, <1>5, <1>6, <1>7

(* service.stop() makes a new generation, and unless there is nothing to   *)
(* stop it takes no more work.                                             *)
LEMMA StopServiceInv ==
    ASSUME LifecycleInv, NEW p \in Processes, StopService(p)
    PROVE  LifecycleInv'
  <1>1. /\ at[p] = "stopService" /\ generation' = generation + 1
        /\ UNCHANGED <<running, timer, inFlight, armed, runs, stopping, hasty>>
        /\ UNCHANGED <<mode, started, mine, broker, store, http, tracked, lastSuccess>>
        /\ \/ /\ ~started /\ broker = "closed"
              /\ at' = [at EXCEPT ![p] = "closeHttp"] /\ UNCHANGED <<draining, active>>
           \/ /\ started \/ broker # "closed"
              /\ at' = [at EXCEPT ![p] = "drain"] /\ draining' = TRUE /\ active' = FALSE
    BY DEF StopService
  <1>2. TypeOK'
    <2>1. Loop!LoopTypeOK'
      BY <1>1 DEF TypeOK, Loop!LoopTypeOK
    <2>2. at' \in [Processes -> Steps]
      BY <1>1 DEF TypeOK
    <2>3. generation' \in 0..3 /\ mine' \in 0..generation'
      BY <1>1 DEF TypeOK, GenerationOK, Past
    <2> QED BY <1>1, <2>1, <2>2, <2>3 DEF TypeOK
  <1>3. (GenerationOK /\ HttpOK)'
    BY <1>1 DEF TypeOK, GenerationOK, HttpOK, Past
  <1>4. (StartupOK /\ ShutdownOK /\ WorkOK)'
    BY <1>1 DEF TypeOK, StartupOK, ShutdownOK, WorkOK, Past, Begun
  <1> QED BY <1>2, <1>3, <1>4

LEMMA DrainedInv ==
    ASSUME LifecycleInv, NEW p \in Processes, Drained(p)
    PROVE  LifecycleInv'
  BY DEF TypeOK, Loop!LoopTypeOK, GenerationOK, StartupOK, ShutdownOK, WorkOK, HttpOK, Past, Begun,
         Drained

LEMMA StopBrokerInv ==
    ASSUME LifecycleInv, NEW p \in Processes, StopBroker(p)
    PROVE  LifecycleInv'
  BY DEF TypeOK, Loop!LoopTypeOK, GenerationOK, StartupOK, ShutdownOK, WorkOK, HttpOK, Past, Begun,
         StopBroker

LEMMA CloseStoreInv ==
    ASSUME LifecycleInv, NEW p \in Processes, CloseStore(p)
    PROVE  LifecycleInv'
  <1> USE DEF CloseStore
  <1>1. TypeOK'
    <2>1. started' \in BOOLEAN
      BY DEF TypeOK
    <2> QED BY <2>1, TypeStep DEF TypeOK
  <1>2. (GenerationOK /\ StartupOK)'
    BY DEF TypeOK, GenerationOK, StartupOK, ShutdownOK, Past, Begun
  <1>3. (ShutdownOK /\ WorkOK)'
    BY DEF TypeOK, GenerationOK, StartupOK, ShutdownOK, WorkOK, Past, Begun
  <1>4. HttpOK'
    BY DEF TypeOK, HttpOK
  <1> QED BY <1>1, <1>2, <1>3, <1>4

LEMMA CloseHttpInv ==
    ASSUME LifecycleInv, NEW p \in Processes, CloseHttp(p)
    PROVE  LifecycleInv'
  <1> USE DEF CloseHttp
  <1>1. TypeOK'
    BY TypeStep DEF TypeOK
  <1>2. (GenerationOK /\ StartupOK)'
    BY DEF TypeOK, GenerationOK, StartupOK, ShutdownOK, Past, Begun
  <1>3. (ShutdownOK /\ WorkOK)'
    BY DEF TypeOK, GenerationOK, StartupOK, ShutdownOK, WorkOK, Past, Begun
  <1>4. HttpOK'
    BY DEF TypeOK, HttpOK
  <1> QED BY <1>1, <1>2, <1>3, <1>4

-----------------------------------------------------------------------------
LEMMA LifecycleInit == Init => LifecycleInv
  <1> SUFFICES ASSUME Init PROVE LifecycleInv
    OBVIOUS
  <1>1. Loop!LoopTypeOK
    <2>1. stopping \in [Processes -> {Loop!NotStopping, 0} \cup Loop!Ids]
      BY DEF Init, Loop!LoopInit
    <2> QED BY <2>1 DEF Init, Loop!LoopInit, Loop!LoopTypeOK
  <1>2. TypeOK
    <2>1. at \in [Processes -> Steps] /\ mode \in {"test", "production"}
      BY DEF Init
    <2>2. started \in BOOLEAN /\ http \in BOOLEAN /\ draining \in BOOLEAN
      BY Zenon DEF Init
    <2>3. /\ generation \in 0..3 /\ mine \in 0..generation
          /\ broker \in {"closed", "connecting", "open"} /\ store \in {"open", "closed"}
          /\ lastSuccess \in {"never", "recent", "old"}
      BY DEF Init
    <2>4. tracked \subseteq runs
      BY DEF Init
    <2> QED BY <1>1, <2>1, <2>2, <2>3, <2>4, Zenon DEF TypeOK
  <1>3. at["startup"] = "new" /\ at["shutdown"] = "new"
    BY DEF Init
  <1>4. GenerationOK /\ StartupOK /\ ShutdownOK /\ WorkOK /\ HttpOK
    BY <1>3 DEF Init, Loop!LoopInit, GenerationOK, StartupOK, ShutdownOK, WorkOK, HttpOK, Past, Begun
  <1> QED BY <1>2, <1>4

LEMMA LifecycleStep ==
    ASSUME LifecycleInv, [Next]_vars
    PROVE  LifecycleInv'
  <1>1. CASE UNCHANGED vars
    BY <1>1 DEF vars, TypeOK, Loop!LoopTypeOK, GenerationOK, StartupOK, ShutdownOK, WorkOK, HttpOK,
                Past, Begun
  <1>2. CASE StartStep \/ Signal
    BY <1>2, ListenInv, ProbesSucceedInv, ProbesFailInv, ConnectedInv, ConnectFailsInv,
       StartCancelledInv, StartLoopInv, SignalInv DEF StartStep
  <1>3. ASSUME NEW p \in Processes, StopStep(p)
        PROVE  LifecycleInv'
    BY <1>3, StopLoopInv, LoopStoppedInv, StopServiceInv, DrainedInv, StopBrokerInv,
       CloseStoreInv, CloseHttpInv DEF StopStep
  <1>4. ASSUME NEW i \in runs, WorkEnds(i) \/ RunEnds(i)
        PROVE  LifecycleInv'
    BY <1>4, WorkEndsInv, RunEndsInv
  <1>5. CASE TimerFires \/ SuccessAges
    BY <1>5, TimerFiresInv, SuccessAgesInv
  <1> QED BY <1>1, <1>2, <1>3, <1>4, <1>5 DEF Next

LEMMA LifecycleInvariant == Spec => []LifecycleInv
  BY LifecycleInit, LifecycleStep, PTL DEF Spec

(* The types of a process's state, the loop's included.                    *)
THEOREM LifecycleTypeOK == Spec => []TypeOK
  <1>1. LifecycleInv => TypeOK
    OBVIOUS
  <1> QED BY <1>1, LifecycleInvariant, PTL

(* A run that the drain tracks finds the broker and the store open.        *)
THEOREM LifecycleWorkHasItsAdapters == Spec => []WorkHasItsAdapters
  <1>1. LifecycleInv => WorkHasItsAdapters
    BY DEF TypeOK, ShutdownOK, WorkOK, Past, Begun, WorkHasItsAdapters
  <1> QED BY <1>1, LifecycleInvariant, PTL

(* Once the shutdown is through, the startup has not undone it.            *)
THEOREM LifecycleShutdownIsFinal == Spec => []ShutdownIsFinal
  <1>1. LifecycleInv => ShutdownIsFinal
    BY DEF TypeOK, StartupOK, ShutdownOK, HttpOK, Past, Begun, ShutdownIsFinal, Over
  <1> QED BY <1>1, LifecycleInvariant, PTL

(* An answer 200 to GET /ready comes from a service that takes work.       *)
THEOREM LifecycleReadyMeansServing == Spec => []ReadyMeansServing
  <1>1. ASSUME LifecycleInv, mode = "production", Get("/ready") = 200
        PROVE  Get("/startup") = 200 /\ ~draining
    <2>1. http /\ Health.readiness = "ok"
      BY <1>1 DEF Get, Http!GetCode, Http!HealthCode
    <2>2. broker = "open" /\ store = "open" /\ active /\ lastSuccess = "recent"
      BY <1>1, <2>1 DEF Health, Healthy, LoopIsFresh
    <2>3. ~draining /\ at["startup"] = "started"
      BY <1>1, <2>2 DEF WorkOK
    <2>4. started
      BY <1>1, <2>2, <2>3 DEF TypeOK, ShutdownOK, Past, Begun
    <2>5. Get("/startup") = 200
      BY <2>1, <2>4 DEF Get, Http!GetCode, Http!HealthCode, Health, Healthy
    <2> QED BY <2>3, <2>5
  <1>2. LifecycleInv => ReadyMeansServing
    BY <1>1 DEF ReadyMeansServing
  <1> QED BY <1>2, LifecycleInvariant, PTL

-----------------------------------------------------------------------------
(* The chain of timers and runs. application.start() calls loop.start()    *)
(* once at most, so that there is one chain: a timer or a run, not both.   *)
OneChain == (\A x, y \in armed \cup runs : x = y) /\ armed \cap runs = {}

(* README: "Runs never overlap."  Here without OneRunAtATime's condition:  *)
(* also when the signal's loop.stop() has come before the loop's start.    *)
RunsNeverOverlap ==
    /\ \A i, j \in runs : i = j
    /\ runs # {} => armed = {}

(* The bounds of the loop never hold a process back: an identity is free   *)
(* for the next timer or run, and nothing is in the way of the one start.  *)
BoundsNeverBind ==
    /\ Loop!Unused # {}
    /\ at["startup"] = "reporting" => Cardinality(armed \cup runs) = 0

(* What is new in a chain is what the loop has no other use for.           *)
LEMMA NewIdIsFree ==
    ASSUME Loop!Unused # {}
    PROVE  Loop!NewId \notin armed \cup runs
  BY DEF Loop!NewId, Loop!Unused

LEMMA OneChainStep ==
    ASSUME LifecycleInv, OneChain, [Next]_vars
    PROVE  OneChain'
  <1>1. CASE armed' \subseteq armed /\ runs' \subseteq runs
    BY <1>1 DEF OneChain
  <1>2. CASE StartLoop
    <2>1. armed = {} /\ runs = {} /\ Loop!Start(FALSE)
      BY <1>2 DEF StartLoop, WorkOK
    <2>2. armed' = {} /\ runs' = {Loop!NewId}
      BY <2>1 DEF Loop!Start, Loop!BeginRun
    <2> QED BY <2>2 DEF OneChain
  <1>3. CASE TimerFires
    <2>1. PICK t \in armed : Loop!TimerFires(t)
      BY <1>3 DEF TimerFires
    <2>2. armed = {t} /\ runs = {}
      BY DEF OneChain
    <2>3. armed' = {} /\ runs' = {Loop!NewId}
      BY <2>1, <2>2 DEF Loop!TimerFires, Loop!BeginRun
    <2> QED BY <2>3 DEF OneChain
  <1>4. ASSUME NEW i \in runs, RunEnds(i)
        PROVE  OneChain'
    <2>1. armed = {} /\ runs = {i} /\ Loop!RunEnds(i)
      BY <1>4 DEF OneChain, RunEnds
    <2>2. runs' = {} /\ (armed' = {} \/ armed' = {Loop!NewId})
      BY <2>1 DEF Loop!RunEnds, Loop!ArmTimer
    <2> QED BY <2>2 DEF OneChain
  <1>5. ASSUME NEW p \in Processes, StopStep(p)
        PROVE  armed' \subseteq armed /\ runs' \subseteq runs
    <2>1. StopLoop(p) => armed' \subseteq armed /\ runs' = runs
      BY DEF StopLoop, Loop!Stop
    <2>2. ~StopLoop(p) => UNCHANGED <<armed, runs>>
      BY <1>5 DEF StopStep, LoopStopped, Loop!StopReturns, StopService, Drained, StopBroker,
                  CloseStore, CloseHttp
    <2> QED BY <2>1, <2>2
  <1>6. CASE UNCHANGED loop
    BY <1>1, <1>6
  <1>7. (StartStep \/ Signal \/ SuccessAges) => StartLoop \/ UNCHANGED loop
    BY DEF StartStep, Listen, ProbesSucceed, ProbesFail, Connected, ConnectFails, StartCancelled,
           Signal, SuccessAges
  <1>8. \A i \in runs : WorkEnds(i) => UNCHANGED loop
    BY DEF WorkEnds
  <1>9. UNCHANGED vars => UNCHANGED loop
    BY DEF vars
  <1> QED BY <1>1, <1>2, <1>3, <1>4, <1>5, <1>6, <1>7, <1>8, <1>9 DEF Next

LEMMA OneChainInvariant == Spec => []OneChain
  <1>1. Init => OneChain
    BY DEF Init, Loop!LoopInit, OneChain
  <1> QED BY <1>1, OneChainStep, LifecycleInvariant, PTL DEF Spec

(* Two runs of one process never go on at once, whenever the signal comes. *)
THEOREM LifecycleRunsNeverOverlap == Spec => []RunsNeverOverlap
  <1>1. OneChain => RunsNeverOverlap
    BY DEF OneChain, RunsNeverOverlap
  <1> QED BY <1>1, OneChainInvariant, PTL

(* That a process has so few timers and runs is a fact about the code, and *)
(* none of the bounds of the loop's model.                                 *)
THEOREM LifecycleBoundsNeverBind == Spec => []BoundsNeverBind
  <1>1. ASSUME LifecycleInv, OneChain
        PROVE  BoundsNeverBind
    <2>1. Loop!Unused # {}
      <3> DEFINE a == stopping["startup"]  b == stopping["shutdown"]
      <3>1. {stopping[k] : k \in Processes} = {a, b}
        OBVIOUS
      <3>2. PICK c : armed \cup runs \subseteq {c}
        BY <1>1 DEF OneChain
      <3> HIDE DEF a, b
      <3>3. Loop!Ids = 1..4
        BY DEF Loop!Ids
      <3>4. PICK x \in 1..4 : x # a /\ x # b /\ x # c
        <4>1. 1 \in 1..4 /\ 2 \in 1..4 /\ 3 \in 1..4 /\ 4 \in 1..4
          OBVIOUS
        <4> QED BY <4>1
      <3> QED BY <3>1, <3>2, <3>3, <3>4 DEF Loop!Unused
    <2>2. at["startup"] = "reporting" => armed \cup runs = {}
      BY <1>1 DEF WorkOK
    <2>3. Cardinality({}) = 0
      BY FS_EmptySet
    <2> QED BY <2>1, <2>2, <2>3 DEF BoundsNeverBind
  <1> QED BY <1>1, OneChainInvariant, LifecycleInvariant, PTL

(* A shutdown that is through is through for good: no run does any work    *)
(* then, and no step of a loop that was started too late makes it work.    *)
THEOREM LifecycleNoWorkOnceOver ==
    Spec => [][Over => tracked = {} /\ tracked' = {} /\ Over']_vars
  <1>1. LifecycleInv /\ Over => tracked = {}
    BY DEF TypeOK, ShutdownOK, WorkOK, Past, Begun, Over
  <1>2. ASSUME LifecycleInv, Over, Next
        PROVE  Over'
    <2>1. at["shutdown"] = "ended" /\ at["startup"] \in {"started", "ended"}
      BY <1>2 DEF Over
    <2>2. ~StartStep /\ ~Signal /\ \A p \in Processes : ~StopStep(p)
      BY <2>1 DEF StartStep, Listen, ProbesSucceed, ProbesFail, Connected, ConnectFails,
                  StartCancelled, StartLoop, Signal, StopStep, StopLoop, LoopStopped, StopService,
                  Drained, StopBroker, CloseStore, CloseHttp
    <2>3. at' = at
      BY <1>2, <2>2 DEF Next, TimerFires, WorkEnds, RunEnds, SuccessAges
    <2> QED BY <2>1, <2>3 DEF Over
  <1>3. LifecycleInv /\ LifecycleInv' /\ [Next]_vars
          => [Over => tracked = {} /\ tracked' = {} /\ Over']_vars
    <2> SUFFICES ASSUME LifecycleInv, LifecycleInv', Next, Over
                 PROVE  tracked = {} /\ tracked' = {} /\ Over'
      BY Zenon
    <2>1. Over'
      BY <1>2
    <2>2. (LifecycleInv /\ Over)' => tracked' = {}
      BY DEF TypeOK, ShutdownOK, WorkOK, Past, Begun, Over
    <2> QED BY <1>1, <2>1, <2>2
  <1> QED BY <1>3, LifecycleInvariant, PTL DEF Spec

-----------------------------------------------------------------------------
(* What the late start of the loop is to blame for                         *)

(* The loop is started before the signal's loop.stop(), or not at all.     *)
TimelyStart == StartLoop => at["shutdown"] \in {"new", "stopLoop"}

(* The loop's handles are all that it has, and what the signal's stop()    *)
(* has seen of them is all that there will be.                             *)
TimelyOK ==
    /\ armed \subseteq {timer} /\ runs \subseteq {inFlight}
    /\ at["startup"] # "started" => ~running
    /\ at["shutdown"] \notin {"new", "stopLoop"} => ~running /\ armed = {}
    /\ at["shutdown"] = "awaitRun" => runs \subseteq {stopping["shutdown"]}
    /\ at["shutdown"] \notin {"new", "stopLoop", "awaitRun"} => runs = {}

LEMMA TimelyStep ==
    ASSUME LifecycleInv, OneChain, TimelyOK, [Next]_vars, [TimelyStart]_vars
    PROVE  TimelyOK'
  <1>1. CASE UNCHANGED <<at, loop>>
    BY <1>1 DEF TimelyOK
  <1>2. ASSUME UNCHANGED loop, NEW p \in Processes, NEW step \in Steps,
               at' = [at EXCEPT ![p] = step], "awaitRun" \notin {at[p], step},
               p = "startup" => step # "started" /\ at[p] # "started",
               p = "shutdown" => (at[p] \in {"new", "stopLoop"} <=> step \in {"new", "stopLoop"})
        PROVE  TimelyOK'
    BY <1>2 DEF TypeOK, TimelyOK
  <1>3. ASSUME StartLoop
        PROVE  TimelyOK'
    <2>1. /\ at["startup"] = "reporting" /\ at' = [at EXCEPT !["startup"] = "started"]
          /\ Loop!Start(FALSE) /\ armed = {} /\ runs = {}
      BY <1>3 DEF StartLoop, WorkOK
    <2>2. at' # at
      BY <2>1 DEF TypeOK
    <2>3. at["shutdown"] \in {"new", "stopLoop"}
      BY <1>3, <2>2 DEF TimelyStart, vars
    <2>4. armed' = {} /\ runs' = {inFlight'}
      BY <2>1 DEF Loop!Start, Loop!BeginRun
    <2> QED BY <2>1, <2>3, <2>4 DEF TypeOK, TimelyOK
  <1>4. CASE TimerFires
    <2>1. PICK t \in armed : Loop!TimerFires(t)
      BY <1>4 DEF TimerFires
    <2>2. at' = at /\ at["startup"] = "started" /\ at["shutdown"] \in {"new", "stopLoop"}
      BY <1>4, <2>1 DEF TimerFires, WorkOK, TimelyOK
    <2>3. armed = {t} /\ runs = {}
      BY DEF OneChain
    <2>4. armed' = {} /\ runs' = {inFlight'} /\ running' = running
      BY <2>1, <2>3 DEF Loop!TimerFires, Loop!BeginRun
    <2> QED BY <2>2, <2>4 DEF TimelyOK
  <1>5. ASSUME NEW i \in runs, RunEnds(i)
        PROVE  TimelyOK'
    <2>1. /\ armed = {} /\ runs = {i} /\ Loop!RunEnds(i) /\ at' = at
          /\ at["startup"] = "started"
      BY <1>5 DEF OneChain, RunEnds, WorkOK
    <2>2. /\ runs' = {} /\ armed' \subseteq {timer'} /\ (~running => armed' = {})
          /\ running' = running
      BY <2>1 DEF Loop!RunEnds, Loop!ArmTimer
    <2> QED BY <2>1, <2>2 DEF TimelyOK
  <1>6. ASSUME NEW p \in Processes, StopLoop(p)
        PROVE  TimelyOK'
    <2>1. /\ at[p] = "stopLoop" /\ at' = [at EXCEPT ![p] = "awaitRun"]
          /\ stopping' = [stopping EXCEPT ![p] = inFlight]
          /\ ~running' /\ armed' = armed \ {timer} /\ UNCHANGED <<inFlight, runs>>
      BY <1>6 DEF StopLoop, Loop!Stop
    <2>2. armed' = {}
      BY <2>1 DEF TimelyOK
    <2>3. p = "shutdown" => stopping'["shutdown"] = inFlight
      BY <2>1 DEF TypeOK, Loop!LoopTypeOK
    <2>4. p = "startup" => stopping'["shutdown"] = stopping["shutdown"]
      BY <2>1
    <2> QED BY <2>1, <2>2, <2>3, <2>4 DEF TypeOK, TimelyOK
  <1>7. ASSUME NEW p \in Processes, LoopStopped(p)
        PROVE  TimelyOK'
    <2>1. /\ at[p] = "awaitRun" /\ at' = [at EXCEPT ![p] = "stopService"]
          /\ stopping[p] \notin runs
          /\ stopping' = [stopping EXCEPT ![p] = Loop!NotStopping]
          /\ UNCHANGED <<running, timer, inFlight, armed, runs>>
      BY <1>7 DEF LoopStopped, Loop!StopReturns
    <2>2. p = "shutdown" => runs = {}
      BY <2>1 DEF TimelyOK
    <2>3. p = "startup" => stopping'["shutdown"] = stopping["shutdown"]
      BY <2>1
    <2> QED BY <2>1, <2>2, <2>3 DEF TypeOK, TimelyOK
  <1>8. ASSUME NEW p \in Processes, StopService(p)
        PROVE  TimelyOK'
    <2>1. PICK step \in {"closeHttp", "drain"} : at' = [at EXCEPT ![p] = step]
      BY <1>8 DEF StopService
    <2>2. at[p] = "stopService" /\ UNCHANGED <<running, timer, inFlight, armed, runs, stopping>>
      BY <1>8 DEF StopService
    <2> QED BY <2>1, <2>2 DEF TypeOK, TimelyOK
  <1>9. ASSUME NEW p \in Processes,
               Drained(p) \/ StopBroker(p) \/ CloseStore(p) \/ CloseHttp(p)
        PROVE  TimelyOK'
    BY <1>2, <1>9 DEF Drained, StopBroker, CloseStore, CloseHttp
  <1>10. CASE Listen \/ ProbesSucceed \/ ProbesFail \/ Connected \/ ConnectFails \/ StartCancelled
    <2>1. PICK step \in Steps \ {"started", "awaitRun"} :
             UNCHANGED loop /\ at' = [at EXCEPT !["startup"] = step]
      BY <1>10 DEF Listen, ProbesSucceed, ProbesFail, Connected, ConnectFails, StartCancelled
    <2>2. at["startup"] \notin {"started", "awaitRun"}
      BY <1>10 DEF Listen, ProbesSucceed, ProbesFail, Connected, ConnectFails, StartCancelled
    <2> QED BY <1>2, <2>1, <2>2
  <1>11. CASE Signal
    BY <1>2, <1>11 DEF Signal
  <1>12. (SuccessAges \/ \E i \in runs : WorkEnds(i)) => UNCHANGED <<at, loop>>
    BY DEF SuccessAges, WorkEnds
  <1>13. UNCHANGED vars => UNCHANGED <<at, loop>>
    BY DEF vars
  <1> QED
    BY <1>1, <1>3, <1>4, <1>5, <1>6, <1>7, <1>8, <1>9, <1>10, <1>11, <1>12, <1>13
    DEF Next, StartStep, StopStep

(* service.test: the shutdown "cancels its timer".  It does, and leaves no *)
(* run, unless the loop is started behind the signal's loop.stop(): the    *)
(* late start is all that LoopEndsWithShutdown can fail by.                *)
THEOREM LifecycleTimelyLoopEnds ==
    Spec /\ [][TimelyStart]_vars => [](LoopEndsWithShutdown /\ (Over => runs = {}))
  <1>1. Init => TimelyOK
    <2>1. Init => at["startup"] = "new" /\ at["shutdown"] = "new"
      BY DEF Init
    <2> QED BY <2>1 DEF Init, Loop!LoopInit, TimelyOK
  <1>2. TimelyOK => LoopEndsWithShutdown /\ (Over => runs = {})
    BY DEF TimelyOK, LoopEndsWithShutdown, Over
  <1> QED BY <1>1, <1>2, TimelyStep, OneChainInvariant, LifecycleInvariant, PTL DEF Spec

-----------------------------------------------------------------------------
(* service.test: service.stop() "closes the scheduler-owned lease store    *)
(* during shutdown".  It does for a service that has been started: only a  *)
(* startup that the signal met before its connection, or that failed, can  *)
(* leave the pool open.                                                    *)
StoreClosedOnceStarted == Over /\ at["startup"] = "started" => store = "closed"

StoreOK == Begun /\ at["shutdown"] \in {"closeHttp", "ended"} => store = "closed"

LEMMA StoreStep ==
    ASSUME LifecycleInv, StoreOK, [Next]_vars
    PROVE  StoreOK'
  <1>1. CASE UNCHANGED <<at, store>>
    BY <1>1 DEF StoreOK, Begun
  <1>2. CASE StartStep
    <2>1. Begun' => Begun \/ Connected
      BY <1>2 DEF TypeOK, Begun, StartStep, Listen, ProbesSucceed, ProbesFail, ConnectFails,
                  StartCancelled, StartLoop
    <2>2. Connected /\ Begun' => ~Past("shutdown")
      BY DEF TypeOK, GenerationOK, Connected, Begun, Past
    <2>3. at'["shutdown"] = at["shutdown"] /\ store' = store
      BY <1>2 DEF TypeOK, StartStep, Listen, ProbesSucceed, ProbesFail, Connected, ConnectFails,
                  StartCancelled, StartLoop
    <2> QED BY <2>1, <2>2, <2>3 DEF StoreOK, Past
  <1>3. CASE Signal
    BY <1>3 DEF TypeOK, StoreOK, Begun, Signal
  <1>4. ASSUME NEW p \in Processes, StopStep(p)
        PROVE  StoreOK'
    <2>1. StopService(p) => StoreOK'
      BY DEF TypeOK, ShutdownOK, StoreOK, Begun, Past, StopService
    <2>2. CloseStore(p) => StoreOK'
      BY DEF TypeOK, StoreOK, Begun, CloseStore
    <2>3. StopLoop(p) \/ LoopStopped(p) \/ Drained(p) \/ StopBroker(p) => StoreOK'
      BY DEF TypeOK, StoreOK, Begun, StopLoop, LoopStopped, Drained, StopBroker
    <2>4. CloseHttp(p) => StoreOK'
      BY DEF TypeOK, StoreOK, Begun, CloseHttp
    <2> QED BY <1>4, <2>1, <2>2, <2>3, <2>4 DEF StopStep
  <1>5. (TimerFires \/ SuccessAges \/ \E i \in runs : WorkEnds(i) \/ RunEnds(i))
           => UNCHANGED <<at, store>>
    BY DEF TimerFires, SuccessAges, WorkEnds, RunEnds
  <1>6. UNCHANGED vars => UNCHANGED <<at, store>>
    BY DEF vars
  <1> QED BY <1>1, <1>2, <1>3, <1>4, <1>5, <1>6 DEF Next

THEOREM LifecycleStoreClosedOnceStarted == Spec => []StoreClosedOnceStarted
  <1>1. Init => StoreOK
    <2>1. Init => at["shutdown"] = "new"
      BY DEF Init
    <2> QED BY <2>1 DEF StoreOK
  <1>2. StoreOK => StoreClosedOnceStarted
    BY DEF StoreOK, StoreClosedOnceStarted, Begun, Over
  <1> QED BY <1>1, <1>2, StoreStep, LifecycleInvariant, PTL DEF Spec
=============================================================================
