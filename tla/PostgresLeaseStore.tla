------------------------- MODULE PostgresLeaseStore -------------------------
(***************************************************************************)
(* PostgresScheduleLeaseStore statement by statement.  Each session is a   *)
(* connection of some replica's pool that runs either the transaction of   *)
(* acquire or one fenced UPDATE (renew, release, markConfirmed,            *)
(* markFailed).  READ COMMITTED: a statement sees the committed rows and   *)
(* its own transaction's changes; an UPDATE that waited for a row lock     *)
(* checks the row again, with the clock it sampled when it started.        *)
(*                                                                         *)
(* The table's unique indexes belong to the backend and are left out: the  *)
(* advisory lock must suffice.  The module implements LeaseLedger.         *)
(***************************************************************************)
EXTENDS Integers, Sequences

CONSTANTS
    Sessions,        \* database connections
    Feeds,           \* feed_url of the rows
    Windows,         \* schedule windows
    LeaseMs,         \* config.leaseMs
    StatementBound,  \* bound on the age of a statement's clock when its
                     \* change becomes visible (statement_timeout)
    MaxRows,         \* bound: rows per feed
    Horizon          \* bound: the clock stops here

ASSUME PostgresAssumption ==
    /\ LeaseMs \in Nat \ {0}
    /\ StatementBound \in Nat
    /\ MaxRows \in Nat
    /\ Horizon \in Nat
    /\ Windows \subseteq Nat

VARIABLES
    leases,          \* the committed rows of each feed
    now,             \* the server's clock
    session          \* session -> what it is doing

vars == <<leases, now, session>>

Ledger == INSTANCE LeaseLedger

TxSteps == {"lock", "sweep", "active", "resweep", "existing", "insert", "commit"}
Updates == {"renew", "release", "markConfirmed", "markFailed"}

NoTx == [step |-> "none"]
Tx == [step : TxSteps, feed : Feeds, window : Windows,
       swept : SUBSET Nat,       \* rows this transaction has marked expired
       locked : SUBSET Nat,      \* rows it has locked
       fresh : Seq(Ledger!Row),  \* the row it has inserted
       at : Nat]                 \* the INSERT's clock
Upd == [step : Updates, feed : Feeds, version : Nat, at : Nat]

TypeOK ==
    /\ Ledger!TypeOK
    /\ \A s \in Sessions : session[s] = NoTx \/ session[s] \in Tx \/ session[s] \in Upd

-----------------------------------------------------------------------------
InTx(s) == session[s].step \in TxSteps

(* pg_advisory_xact_lock, held from its statement to the transaction's end. *)
HoldsLock(s, f) == InTx(s) /\ session[s].step # "lock" /\ session[s].feed = f

(* No other transaction has locked row v of feed f.                        *)
RowFree(s, f, v) ==
    \A t \in Sessions \ {s} : InTx(t) /\ session[t].feed = f => v \notin session[t].locked

(* The feed's rows as session s's transaction sees them.                   *)
View(s) ==
    [v \in DOMAIN leases[session[s].feed] |->
        IF v \in session[s].swept
        THEN [leases[session[s].feed][v] EXCEPT !.status = "expired"]
        ELSE leases[session[s].feed][v]]

(* The row activeLeaseForFeed finds: the newest with released_at IS NULL.  *)
IsActive(s, v) ==
    /\ v \in DOMAIN View(s)
    /\ View(s)[v].status = "leased"
    /\ \A u \in DOMAIN View(s) : View(s)[u].status = "leased" => u <= v

Goto(s, step) == session' = [session EXCEPT ![s].step = step]

-----------------------------------------------------------------------------
(* acquire                                                                 *)

Begin(s, f, w) ==
    /\ session[s] = NoTx
    /\ session' = [session EXCEPT ![s] =
          [step |-> "lock", feed |-> f, window |-> w, swept |-> {}, locked |-> {},
           fresh |-> <<>>, at |-> 0]]
    /\ UNCHANGED <<leases, now>>

(* Fault for ReadsStayTrue: the lock does not exclude the other sessions.  *)
TakeSharedLock(s) ==
    /\ session[s].step = "lock"
    /\ Goto(s, "sweep")
    /\ UNCHANGED <<leases, now>>

TakeLock(s) ==
    /\ session[s].step = "lock"
    /\ \A t \in Sessions : ~HoldsLock(t, session[s].feed)
    /\ Goto(s, "sweep")
    /\ UNCHANGED <<leases, now>>

(* releaseExpiredFeedLease, before activeLeaseForFeed and again after it.  *)
ExpiredRows(s) ==
    {v \in DOMAIN View(s) : View(s)[v].status = "leased" /\ View(s)[v].expires <= now}

SweepExpired(s) ==
    /\ session[s].step \in {"sweep", "resweep"}
    /\ \A v \in ExpiredRows(s) : RowFree(s, session[s].feed, v)
    /\ session' = [session EXCEPT
          ![s].step = IF session[s].step = "sweep" THEN "active" ELSE "existing",
          ![s].swept = session[s].swept \cup ExpiredRows(s),
          ![s].locked = session[s].locked \cup ExpiredRows(s)]
    /\ UNCHANGED <<leases, now>>

NoActiveLease(s) ==
    /\ session[s].step = "active"
    /\ ~\E v \in DOMAIN View(s) : IsActive(s, v)
    /\ Goto(s, "existing")
    /\ UNCHANGED <<leases, now>>

(* Fault for ImplementsLedger: a row that has expired meanwhile is passed  *)
(* over, not swept.                                                        *)
ReadActiveLeaseOnce(s) ==
    /\ session[s].step = "active"
    /\ \E v \in DOMAIN View(s) :
          /\ IsActive(s, v)
          /\ RowFree(s, session[s].feed, v)
          /\ session' = [session EXCEPT
                ![s].step = IF View(s)[v].expires > now THEN "commit" ELSE "existing",
                ![s].locked = session[s].locked \cup {v}]
    /\ UNCHANGED <<leases, now>>

(* The row is read and locked; it may have expired since the sweep.        *)
ReadActiveLease(s) ==
    /\ session[s].step = "active"
    /\ \E v \in DOMAIN View(s) :
          /\ IsActive(s, v)
          /\ RowFree(s, session[s].feed, v)
          /\ session' = [session EXCEPT
                ![s].step = IF View(s)[v].expires > now THEN "commit" ELSE "resweep",
                ![s].locked = session[s].locked \cup {v}]
    /\ UNCHANGED <<leases, now>>

(* latestLeaseForIdempotencyKey, which locks the row it finds.             *)
ReadExisting(s) ==
    LET latest == {v \in DOMAIN View(s) : Ledger!IsLatest(View(s), session[s].window, v)} IN
    /\ session[s].step = "existing"
    /\ \A v \in latest : RowFree(s, session[s].feed, v)
    /\ session' = [session EXCEPT
          ![s].step = IF Ledger!AlreadyConfirmed(View(s), session[s].window)
                      THEN "commit" ELSE "insert",
          ![s].locked = session[s].locked \cup latest]
    /\ UNCHANGED <<leases, now>>

LeaseRow(s) ==
    [window |-> session[s].window, status |-> "leased", expires |-> now + LeaseMs,
     attempt |-> Ledger!NextAttempt(View(s), session[s].window)]

(* nextFeedLeaseVersion and the INSERT with a fresh token.                 *)
InsertLease(s) ==
    /\ session[s].step = "insert"
    /\ Len(leases[session[s].feed]) < MaxRows
    /\ session' = [session EXCEPT
          ![s].step = "commit", ![s].at = now, ![s].fresh = <<LeaseRow(s)>>]
    /\ UNCHANGED <<leases, now>>

Commit(s) ==
    /\ session[s].step = "commit"
    /\ session[s].fresh # <<>> => now - session[s].at <= StatementBound
    /\ leases' = [leases EXCEPT ![session[s].feed] = View(s) \o session[s].fresh]
    /\ session' = [session EXCEPT ![s] = NoTx]
    /\ UNCHANGED now

(* A statement fails or times out, the ROLLBACK runs, or the client dies.  *)
Abort(s) ==
    /\ session[s] # NoTx
    /\ session' = [session EXCEPT ![s] = NoTx]
    /\ UNCHANGED <<leases, now>>

-----------------------------------------------------------------------------
(* renew, release, markConfirmed and markFailed                            *)

StartUpdate(s, op, f, v) ==
    /\ session[s] = NoTx
    /\ session' = [session EXCEPT ![s] = [step |-> op, feed |-> f, version |-> v, at |-> now]]
    /\ UNCHANGED <<leases, now>>

RunUpdate(s) ==
    LET u == session[s] IN
    /\ u.step \in Updates
    /\ RowFree(s, u.feed, u.version)
    /\ now - u.at <= StatementBound
    /\ \/ ~Ledger!Owned(u.feed, u.version, u.at) /\ UNCHANGED leases
       \/ u.step = "renew" /\ Ledger!Renew(u.feed, u.version, u.at)
       \/ u.step = "release" /\ Ledger!Release(u.feed, u.version, u.at)
       \/ u.step = "markConfirmed" /\ Ledger!MarkConfirmed(u.feed, u.version, u.at)
       \/ u.step = "markFailed" /\ Ledger!MarkFailed(u.feed, u.version, u.at)
    /\ session' = [session EXCEPT ![s] = NoTx]
    /\ UNCHANGED now

Tick == Ledger!Tick /\ UNCHANGED session

-----------------------------------------------------------------------------
Init ==
    /\ Ledger!Init
    /\ session = [s \in Sessions |-> NoTx]

AcquireStep(s) ==
    \/ \E f \in Feeds, w \in Windows : Begin(s, f, w)
    \/ TakeLock(s) \/ SweepExpired(s) \/ NoActiveLease(s) \/ ReadActiveLease(s)
    \/ ReadExisting(s) \/ InsertLease(s) \/ Commit(s) \/ Abort(s)

UpdateStep(s) ==
    \/ \E f \in Feeds : \E v \in DOMAIN leases[f], op \in Updates : StartUpdate(s, op, f, v)
    \/ RunUpdate(s)

Next ==
    \/ \E s \in Sessions : AcquireStep(s) \/ UpdateStep(s)
    \/ Tick

Spec == Init /\ [][Next]_vars

-----------------------------------------------------------------------------
(* Callers see only the atomic operations of the ledger.                   *)
ImplementsLedger == Ledger!Spec

(* s has found no lease and no confirmation and is about to add a row.     *)
Inserting(s) ==
    \/ session[s].step = "insert"
    \/ session[s].step = "commit" /\ session[s].fresh # <<>>

(* The sessions of one feed take turns: from its checks to its commit, what *)
(* an acquire has read of the feed stays true, although renewals and       *)
(* confirmations of other sessions do not take the advisory lock.          *)
ReadsStayTrue ==
    \A s \in Sessions :
        Inserting(s) =>
            \A v \in DOMAIN View(s) :
                /\ View(s)[v].status # "leased"
                /\ View(s)[v].window = session[s].window => View(s)[v].status # "confirmed"
=============================================================================
