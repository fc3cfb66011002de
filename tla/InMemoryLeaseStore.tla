------------------------ MODULE InMemoryLeaseStore -------------------------
(***************************************************************************)
(* InMemoryScheduleLeaseStore, the lease store of test mode: one record    *)
(* per idempotency key, replaced by each new lease, and tokens from one    *)
(* counter.  It knows keys, not feeds, so that it keeps the promises of    *)
(* LeaseLedger for every feed and window of its own: each key stands for a *)
(* feed of the ledger that has this one window.  replaced keeps what the   *)
(* program forgets, the rows that the ledger still has.                    *)
(***************************************************************************)
EXTENDS Integers, Sequences

CONSTANTS
    Keys,            \* idempotency keys: positive numbers
    LeaseMs,         \* config.leaseMs
    MaxTokens,       \* bound: leases ever given
    Horizon          \* bound: the clock stops here

(* What is assumed of the constants; LeaseStores assumes it.               *)
ParametersOK ==
    /\ Keys \subseteq Nat
    /\ LeaseMs \in Nat \ {0}
    /\ MaxTokens \in Nat
    /\ Horizon \in Nat

VARIABLES
    records,         \* key -> the record of the key's newest lease, or NoRecord
    tokenCounter,
    clock,           \* the store's now()
    replaced         \* key -> rows of the leases before the newest

vars == <<records, tokenCounter, clock, replaced>>

NoRecord == [token |-> 0]
HasRecord(k) == records[k].token # 0

Record == [token : 1..tokenCounter, status : {"leased", "confirmed", "failed", "released"},
           expires : Nat, attempt : Nat \ {0}]

(* No two keys have records with one token.                                *)
TypeOK ==
    /\ tokenCounter \in Nat /\ clock \in Nat
    /\ DOMAIN records = Keys /\ DOMAIN replaced = Keys
    /\ \A k \in Keys : HasRecord(k) => records[k] \in Record
    /\ \A j, k \in Keys : HasRecord(j) /\ records[j].token = records[k].token => j = k

-----------------------------------------------------------------------------
Unexpired(k) == records[k].status = "leased" /\ records[k].expires > clock

(* The lease that acquire replaces, as a row of the ledger's history.      *)
Ended(k) ==
    [window |-> k, expires |-> records[k].expires, attempt |-> records[k].attempt,
     status |-> IF records[k].status = "leased" THEN "expired" ELSE records[k].status]

NextToken == tokenCounter + 1

(* acquire returns already_confirmed or lease_active: nothing changes.     *)
AcquireRefused(k) ==
    /\ HasRecord(k)
    /\ records[k].status = "confirmed" \/ Unexpired(k)
    /\ UNCHANGED vars

AcquireGranted(k) ==
    /\ HasRecord(k) => records[k].status # "confirmed" /\ ~Unexpired(k)
    /\ tokenCounter < MaxTokens
    /\ tokenCounter' = tokenCounter + 1
    /\ records' = [records EXCEPT ![k] =
          [token |-> NextToken, status |-> "leased", expires |-> clock + LeaseMs,
           attempt |-> IF HasRecord(k) THEN records[k].attempt + 1 ELSE 1]]
    /\ replaced' = [replaced EXCEPT ![k] =
          IF HasRecord(k) THEN Append(@, Ended(k)) ELSE @]
    /\ UNCHANGED clock

(* Fault for MemoryImplementsLedger: an expired lease may still be ended.  *)
FoundLeasedToken(token, k) == records[k].token = token /\ records[k].status = "leased"

(* findUnexpiredLeasedToken finds the record of key k.                     *)
FindUnexpiredLeasedToken(token, k) == records[k].token = token /\ Unexpired(k)

Renew(token) ==
    /\ \E k \in Keys :
          /\ FindUnexpiredLeasedToken(token, k)
          /\ records' = [records EXCEPT ![k].expires = clock + LeaseMs]
    /\ UNCHANGED <<tokenCounter, clock, replaced>>

(* release, markConfirmed and markFailed differ in the status written.     *)
Finish(token, status) ==
    /\ \E k \in Keys :
          /\ FindUnexpiredLeasedToken(token, k)
          /\ records' = [records EXCEPT ![k].status = status]
    /\ UNCHANGED <<tokenCounter, clock, replaced>>

(* The token is unknown, replaced, ended or expired: ScheduleLeaseOwnershipError. *)
OwnershipLost(token) ==
    /\ ~\E k \in Keys : FindUnexpiredLeasedToken(token, k)
    /\ UNCHANGED vars

ClockAdvances ==
    /\ clock < Horizon
    /\ clock' = clock + 1
    /\ UNCHANGED <<records, tokenCounter, replaced>>

-----------------------------------------------------------------------------
Init ==
    /\ records = [k \in Keys |-> NoRecord]
    /\ tokenCounter = 0
    /\ clock = 0
    /\ replaced = [k \in Keys |-> <<>>]

Operation ==
    \/ \E k \in Keys : AcquireRefused(k) \/ AcquireGranted(k)
    \/ \E token \in 1..tokenCounter :
          \/ Renew(token) \/ OwnershipLost(token)
          \/ \E status \in {"released", "confirmed", "failed"} : Finish(token, status)

Next == Operation \/ ClockAdvances

Spec == Init /\ [][Next]_vars

-----------------------------------------------------------------------------
RowsOf(k) ==
    IF HasRecord(k)
    THEN Append(replaced[k],
                [window |-> k, status |-> records[k].status,
                 expires |-> records[k].expires, attempt |-> records[k].attempt])
    ELSE <<>>

Ledger == INSTANCE LeaseLedger WITH
    Feeds <- Keys, Windows <- Keys, StatementBound <- 0, MaxRows <- MaxTokens,
    leases <- [k \in Keys |-> RowsOf(k)], now <- clock

(* Test mode runs on the same promises as production, window by window:    *)
(* the double's records, which forget what they replace, and its tokens    *)
(* implement the ledger whose safety is proved.                            *)
ImplementsLedger == Ledger!Spec
=============================================================================
