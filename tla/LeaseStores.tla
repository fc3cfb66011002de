---------------------------- MODULE LeaseStores ----------------------------
(***************************************************************************)
(* createSchedulerDependencies gives a process one of the two lease        *)
(* stores: PostgreSQL in production mode, the in-memory double in test     *)
(* mode.  Either one implements the ledger for its callers.                *)
(***************************************************************************)
EXTENDS PostgresLeaseStore

CONSTANTS
    Keys,            \* idempotency keys of test mode
    MaxTokens        \* bound: leases of test mode

VARIABLES
    mode,            \* config.dependencyMode
    records, tokenCounter, clock, replaced    \* the in-memory store

Memory == INSTANCE InMemoryLeaseStore

ASSUME MemoryAssumption == Memory!ParametersOK

memoryVars == <<records, tokenCounter, clock, replaced>>

StoresInit ==
    /\ mode \in {"test", "production"}
    /\ Init
    /\ Memory!Init

PostgresStep == mode = "production" /\ Next /\ UNCHANGED <<mode, memoryVars>>

MemoryStep == mode = "test" /\ Memory!Next /\ UNCHANGED <<mode, vars>>

StoresNext == PostgresStep \/ MemoryStep

StoresSpec == StoresInit /\ [][StoresNext]_<<mode, vars, memoryVars>>

-----------------------------------------------------------------------------
(* The in-memory store implements the ledger of its keys: at most one      *)
(* lease per window, nothing after a confirmation, stale tokens refused.   *)
MemoryImplementsLedger == Memory!ImplementsLedger
=============================================================================
