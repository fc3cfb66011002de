--------------------------- MODULE Configuration ----------------------------
(***************************************************************************)
(* loadSchedulerConfig: what an environment is read as and when it is      *)
(* refused; the dependencies that are made for it; and the boundary that   *)
(* createSchedulerService puts before them.  Times are milliseconds.       *)
(***************************************************************************)
EXTENDS Integers

(* An integer variable; a text that is no integer is given as -1, which is *)
(* outside every range.                                                    *)
Setting == [given : BOOLEAN, value : Int]

Adapters == {"database", "backendUrl", "backendToken", "rabbitmq"}

Env == [environment : {"absent", "production", "other"},
        mode : {"absent", "test", "production", "other"},
        revision : {"absent", "unknown", "identity", "malformed"},
        shadow : {"absent", "true", "false", "other"},
        metrics : {"absent", "true", "false", "other"},
        logs : {"absent", "stdout", "silent", "other"},
        configured : SUBSET Adapters,
        port : Setting, cadence : Setting, lease : Setting, concurrency : Setting,
        shutdownTimeout : Setting]

SCHEDULE_LEASE_MAX_MS == 300000
SCHEDULER_PRODUCTION_MIN_LEASE_MS == 60000
A_DAY_MS == 86400000

PortRange == 0..65535
CadenceRange == 1000..A_DAY_MS
LeaseRange == 1000..SCHEDULE_LEASE_MAX_MS
ConcurrencyRange == 1..128
ShutdownRange == 1000..600000

-----------------------------------------------------------------------------
(* parseInteger                                                            *)
Parsed(setting, fallback, range) ==
    IF setting.given /\ setting.value \in range THEN setting.value ELSE fallback

Refused(setting, range) == setting.given /\ setting.value \notin range

(* parseDependencyMode, parseBuildRevision, parseBoolean                   *)
Mode(env) == IF env.mode = "production" THEN "production" ELSE "test"
Revision(env) == IF env.revision = "identity" THEN "identity" ELSE "unknown"
Truth(text) == text \notin {"false"}

Config(env) ==
    [environment |-> env.environment,
     mode |-> Mode(env),
     revision |-> Revision(env),
     shadow |-> Truth(env.shadow),
     configured |-> env.configured,
     port |-> Parsed(env.port, 8080, PortRange),
     cadence |-> Parsed(env.cadence, 60000, CadenceRange),
     lease |-> Parsed(env.lease, SCHEDULE_LEASE_MAX_MS, LeaseRange),
     concurrency |-> Parsed(env.concurrency, 4, ConcurrencyRange),
     shutdownTimeout |-> Parsed(env.shutdownTimeout, 30000, ShutdownRange)]

(* The issues that a variable has by itself.                               *)
WellFormed(env) ==
    /\ env.mode # "other"
    /\ env.revision # "malformed"
    /\ env.shadow # "other" /\ env.metrics # "other" /\ env.logs # "other"
    /\ ~Refused(env.port, PortRange)
    /\ ~Refused(env.cadence, CadenceRange)
    /\ ~Refused(env.lease, LeaseRange)
    /\ ~Refused(env.concurrency, ConcurrencyRange)
    /\ ~Refused(env.shutdownTimeout, ShutdownRange)

(* Those that appear between the values.                                   *)
Coherent(c) ==
    /\ c.mode = "production" => /\ c.configured = Adapters
                                /\ c.revision # "unknown"
                                /\ c.lease >= SCHEDULER_PRODUCTION_MIN_LEASE_MS
    /\ c.lease >= c.cadence
    /\ c.shadow
    /\ c.environment = "production" => c.mode = "production"

(* loadSchedulerConfig returns instead of throwing its issues.             *)
Accepted(env) == WellFormed(env) /\ Coherent(Config(env))

-----------------------------------------------------------------------------
Parts == {"clock", "feedSource", "leaseStore", "broker"}

(* A bundle of dependencies names its mode and which of its parts are the  *)
(* production adapters.                                                    *)
Bundle == [mode : {"test", "production"}, production : SUBSET Parts]

(* createSchedulerDependencies.                                            *)
Dependencies(c) ==
    IF c.mode = "test" THEN [mode |-> "test", production |-> {}]
                       ELSE [mode |-> "production", production |-> Parts]

(* createSchedulerApplicationDependencies.                                 *)
LocalDependenciesWithSystemClock == [mode |-> "test", production |-> {"clock"}]

(* assertSchedulerDependencyBoundary lets the bundle pass.                 *)
WithinBoundary(c, bundle) ==
    /\ bundle.mode = c.mode
    /\ c.mode = "production" => bundle.production = Parts

(* aggregateAdapterMode.                                                   *)
AdapterMode(bundle) ==
    CASE bundle.production = Parts -> "production"
      [] bundle.production = {} -> "local"
      [] OTHER -> "mixed"

-----------------------------------------------------------------------------
(* assertScheduleLeaseDuration.                                            *)
LeaseDurationAllowed(leaseMs) == leaseMs \in LeaseRange

(* renewedLeaseDurationMs takes the duration of a renewal that gave what   *)
(* was asked for.                                                          *)
RenewalUsable(leaseMs) ==
    leaseMs \in SCHEDULER_PRODUCTION_MIN_LEASE_MS..SCHEDULE_LEASE_MAX_MS

SCHEDULER_PRODUCTION_PUBLISH_MIN_REMAINING_MS == 25000
DEPENDENCY_TIMEOUT_MS == 5000

(* What is left of a lease whose renewal was answered within the store's   *)
(* own time-out.                                                           *)
RemainingAfterRenewal(leaseMs) == leaseMs - DEPENDENCY_TIMEOUT_MS
=============================================================================
