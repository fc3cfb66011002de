---------------------------- MODULE LeaseLedger ----------------------------
(***************************************************************************)
(* What the lease table worker_uplift_scheduler.feed_leases promises: one  *)
(* atomic action per operation of PostgresScheduleLeaseStore, as its       *)
(* callers see them.  PostgresLeaseStore has the statements and the        *)
(* transactions behind these actions and implements this module;           *)
(* SchedulerCycle drives it from the replicas.                             *)
(*                                                                         *)
(* leases[f] is the sequence of the feed's rows in lease_version order, so *)
(* that a row's version is its index and nextFeedLeaseVersion is Append.   *)
(* A token is a fresh UUID stored in one row: the pair (feed, version)     *)
(* stands for it.  The key scheduler:feed:<feed>:<window> is the pair      *)
(* (feed, window).  Every UPDATE that sets released_at also sets the       *)
(* status, so status = "leased" stands for released_at IS NULL.            *)
(***************************************************************************)
EXTENDS Integers, Sequences, FiniteSets

CONSTANTS
    Feeds,           \* feed_url of the rows
    Windows,         \* schedule windows of a feed, in order of their start
    LeaseMs,         \* config.leaseMs, in clock units
    StatementBound,  \* statement_timeout: how old statement_timestamp() may be
                     \* when the statement takes effect (a wait for a row lock)
    MaxRows,         \* bound: rows per feed
    Horizon          \* bound: the clock stops here

ASSUME LedgerAssumption ==
    /\ LeaseMs \in Nat \ {0}
    /\ StatementBound \in Nat
    /\ MaxRows \in Nat
    /\ Horizon \in Nat
    /\ Windows \subseteq Nat

VARIABLES
    leases,          \* feed -> sequence of rows
    now              \* PostgreSQL's clock

ledgerVars == <<leases, now>>

Statuses == {"leased", "confirmed", "failed", "released", "expired"}

Row == [window : Windows, status : Statuses, expires : Nat, attempt : Nat \ {0}]

TypeOK ==
    /\ leases \in [Feeds -> Seq(Row)]
    /\ now \in Nat

-----------------------------------------------------------------------------
(* Statement clocks: a statement takes effect now and carries the time it  *)
(* started.                                                                *)
StatementTimes == {at \in 0..now : now - at <= StatementBound}

Leased(f, v) == v \in DOMAIN leases[f] /\ leases[f][v].status = "leased"

(* Fault for EndedRowsFrozen: the fence forgets the status.                *)
OwnedByExpiryOnly(f, v, at) == v \in DOMAIN leases[f] /\ leases[f][v].expires > at

(* The row's own predicate of every fenced UPDATE.                         *)
Owned(f, v, at) == Leased(f, v) /\ leases[f][v].expires > at

(* lease_unexpired of the feed's row with released_at IS NULL.             *)
LeaseActive(f) == \E v \in DOMAIN leases[f] : Owned(f, v, now)

(* Fault for OneLeasePerFeed: nothing marks the expired row.               *)
SweptNothing(rows) == rows

(* releaseExpiredFeedLease over a feed's rows.                             *)
Swept(rows) ==
    [v \in DOMAIN rows |->
        IF rows[v].status = "leased" /\ rows[v].expires <= now
        THEN [rows[v] EXCEPT !.status = "expired"]
        ELSE rows[v]]

(* latestLeaseForIdempotencyKey: v is the newest row of window w.          *)
IsLatest(rows, w, v) ==
    /\ v \in DOMAIN rows
    /\ rows[v].window = w
    /\ \A u \in DOMAIN rows : rows[u].window = w => u <= v

(* Fault for ConfirmedIsFinal: only the feed's newest row is looked at.    *)
NewestRowConfirmed(rows, w) ==
    \E v \in DOMAIN rows :
        v = Len(rows) /\ rows[v].window = w /\ rows[v].status = "confirmed"

AlreadyConfirmed(rows, w) ==
    \E v \in DOMAIN rows : IsLatest(rows, w, v) /\ rows[v].status = "confirmed"

(* Fault for AttemptsIncrease: the count starts again after another window. *)
AttemptAfterNewestRow(rows, w) ==
    IF Len(rows) > 0 /\ rows[Len(rows)].window = w
    THEN rows[Len(rows)].attempt + 1
    ELSE 1

NextAttempt(rows, w) ==
    IF \E v \in DOMAIN rows : rows[v].window = w
    THEN rows[CHOOSE v \in DOMAIN rows : IsLatest(rows, w, v)].attempt + 1
    ELSE 1

NewRow(f, w, at) ==
    [window |-> w, status |-> "leased", expires |-> at + LeaseMs,
     attempt |-> NextAttempt(leases[f], w)]

-----------------------------------------------------------------------------
(* acquire returns lease_active.                                           *)
AcquireActive(f, w) ==
    /\ LeaseActive(f)
    /\ UNCHANGED leases

(* acquire returns already_confirmed; the sweep before it is committed.    *)
AcquireConfirmed(f, w) ==
    /\ ~LeaseActive(f)
    /\ AlreadyConfirmed(leases[f], w)
    /\ leases' = [leases EXCEPT ![f] = Swept(@)]

(* acquire inserts a row with a fresh token, released expired ones first.  *)
AcquireGranted(f, w, at) ==
    /\ ~LeaseActive(f)
    /\ ~AlreadyConfirmed(leases[f], w)
    /\ Len(leases[f]) < MaxRows
    /\ leases' = [leases EXCEPT ![f] = Append(Swept(@), NewRow(f, w, at))]

(* Fault for ExpiryIsBounded: the renewal adds to the old expiry.          *)
RenewFromExpiry(f, v, at) ==
    /\ Owned(f, v, at)
    /\ leases' = [leases EXCEPT ![f][v].expires = @ + LeaseMs]

Renew(f, v, at) ==
    /\ Owned(f, v, at)
    /\ leases' = [leases EXCEPT ![f][v].expires = at + LeaseMs]

(* The three fenced UPDATEs that end a lease differ in the status written. *)
Finish(f, v, at, status) ==
    /\ Owned(f, v, at)
    /\ leases' = [leases EXCEPT ![f][v].status = status]

Release(f, v, at) == Finish(f, v, at, "released")

MarkConfirmed(f, v, at) == Finish(f, v, at, "confirmed")

MarkFailed(f, v, at) == Finish(f, v, at, "failed")

Tick ==
    /\ now < Horizon
    /\ now' = now + 1
    /\ UNCHANGED leases

-----------------------------------------------------------------------------
Acquire(f, w) ==
    /\ \/ AcquireActive(f, w)
       \/ AcquireConfirmed(f, w)
       \/ \E at \in StatementTimes : AcquireGranted(f, w, at)
    /\ UNCHANGED now

(* Any caller that knows the token of row v.                               *)
Update(f, v) ==
    /\ \E at \in StatementTimes :
          \/ Renew(f, v, at)
          \/ Release(f, v, at)
          \/ MarkConfirmed(f, v, at)
          \/ MarkFailed(f, v, at)
    /\ UNCHANGED now

Init ==
    /\ leases = [f \in Feeds |-> <<>>]
    /\ now = 0

Next ==
    \/ Tick
    \/ \E f \in Feeds : \E w \in Windows : Acquire(f, w)
    \/ \E f \in Feeds : \E v \in DOMAIN leases[f] : Update(f, v)

Spec == Init /\ [][Next]_ledgerVars

-----------------------------------------------------------------------------
(* A feed has at most one lease, and it is the newest row: what the unique *)
(* index on feed_url WHERE released_at IS NULL would refuse, and what lets *)
(* activeLeaseForFeed look at one row only.                                *)
OneLeasePerFeed ==
    \A f \in Feeds : \A v \in DOMAIN leases[f] :
        Leased(f, v) => v = Len(leases[f])

(* A confirmed window is over: acquire never adds a row for it again, so   *)
(* that no later row can hide the confirmation from                        *)
(* latestLeaseForIdempotencyKey.                                           *)
ConfirmedIsFinal ==
    \A f \in Feeds : \A u, v \in DOMAIN leases[f] :
        u < v /\ leases[f][u].window = leases[f][v].window
            => leases[f][u].status # "confirmed"

(* attemptCount tells the attempts on one window apart and orders them,    *)
(* although rows of other windows lie between them.                        *)
AttemptsIncrease ==
    \A f \in Feeds : \A u, v \in DOMAIN leases[f] :
        u < v /\ leases[f][u].window = leases[f][v].window
            => leases[f][u].attempt < leases[f][v].attempt

(* A lease whose owner is gone can be taken over after one lease duration, *)
(* however often and however late it was renewed.                          *)
ExpiryIsBounded ==
    \A f \in Feeds : \A v \in DOMAIN leases[f] :
        leases[f][v].expires <= now + LeaseMs

Safety == OneLeasePerFeed /\ ConfirmedIsFinal /\ AttemptsIncrease /\ ExpiryIsBounded

(* A row whose lease has ended keeps its status, expiry and attempt for    *)
(* ever: a late renew, release, confirmation or failure with its token is  *)
(* refused, and no sweep rewrites history.                                 *)
EndedRowsFrozen ==
    [][\A f \in Feeds : \A v \in DOMAIN leases[f] :
          ~Leased(f, v) => /\ v \in DOMAIN leases'[f]
                           /\ leases'[f][v] = leases[f][v]]_ledgerVars
=============================================================================
