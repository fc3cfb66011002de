---------------------- MODULE PostgresLeaseStore_Proofs ----------------------
(***************************************************************************)
(* The transactions of the lease table implement the ledger, for any       *)
(* number of connections, feeds and windows.  What a transaction relies on *)
(* is a function of its own state, its feed's rows and the clock (TxInv):  *)
(* the advisory lock keeps other transactions of the feed away, and the    *)
(* row locks the updates, which do not take it; so the rows that a         *)
(* transaction has read cannot change under it where it matters.           *)
(***************************************************************************)
EXTENDS PostgresLeaseStore, TLAPS

Proved == INSTANCE LeaseLedger_Proofs

(* The rows of a transaction's feed.                                       *)
OwnRows(s) == leases[session[s].feed]

LeasedIn(rows) == {v \in DOMAIN rows : rows[v].status = "leased"}

(* Every leased row of the feed is marked expired by the transaction.      *)
AllSwept(tx, rows) == LeasedIn(rows) \subseteq tx.swept

(* What a transaction that is about to commit will have done.              *)
ReadsOnly(tx) == tx.swept = {} /\ tx.fresh = <<>>

FoundConfirmed(tx, rows) ==
    tx.fresh = <<>> /\ AllSwept(tx, rows) /\ Ledger!AlreadyConfirmed(rows, tx.window)

Inserted(tx, rows, clock) ==
    /\ AllSwept(tx, rows) /\ ~Ledger!AlreadyConfirmed(rows, tx.window)
    /\ tx.at <= clock /\ Len(rows) < MaxRows
    /\ tx.fresh = <<[window |-> tx.window, status |-> "leased", expires |-> tx.at + LeaseMs,
                     attempt |-> Ledger!NextAttempt(rows, tx.window)]>>

TxInv(tx, rows, clock) ==
    /\ tx.swept \subseteq tx.locked
    /\ \A v \in tx.swept :
          v \in DOMAIN rows /\ rows[v].status = "leased" /\ rows[v].expires <= clock
    /\ tx.step = "lock" => tx.swept = {}
    /\ tx.step = "resweep" =>
          \A v \in LeasedIn(rows) : v \in tx.locked /\ rows[v].expires <= clock
    /\ tx.step \in {"existing", "insert"} => AllSwept(tx, rows)
    /\ tx.step = "insert" => ~Ledger!AlreadyConfirmed(rows, tx.window)
    /\ tx.step # "commit" => tx.fresh = <<>>
    /\ tx.step = "commit" =>
          ReadsOnly(tx) \/ FoundConfirmed(tx, rows) \/ Inserted(tx, rows, clock)

SessionInv(s) ==
    /\ InTx(s) => TxInv(session[s], OwnRows(s), now)
    /\ session[s].step \in Updates => session[s].at <= now

OneHolder ==
    \A s, t \in Sessions : \A f \in Feeds : HoldsLock(s, f) /\ HoldsLock(t, f) => s = t

PgInv ==
    /\ TypeOK
    /\ DOMAIN session = Sessions
    /\ Proved!LedgerInv
    /\ OneHolder
    /\ \A s \in Sessions : SessionInv(s)

-----------------------------------------------------------------------------
(* The three kinds of session are told apart by their step.                *)
LEMMA Kinds ==
    ASSUME TypeOK, NEW s \in Sessions
    PROVE  /\ InTx(s) <=> session[s] \in Tx
           /\ session[s].step \in Updates <=> session[s] \in Upd
           /\ session[s] = NoTx <=> session[s].step \notin TxSteps \cup Updates
  BY DEF TypeOK, InTx, Tx, Upd, NoTx, TxSteps, Updates

LEMMA LedgerFacts ==
    ASSUME PgInv
    PROVE  /\ now \in Nat
           /\ \A f \in Feeds : leases[f] \in Seq(Ledger!Row)
           /\ DOMAIN leases = Feeds
           /\ \A f \in Feeds : \A v \in LeasedIn(leases[f]) : v = Len(leases[f])
  <1>1. now \in Nat /\ leases \in [Feeds -> Seq(Ledger!Row)]
    BY DEF PgInv, TypeOK, Ledger!TypeOK
  <1>2. \A f \in Feeds : \A v \in LeasedIn(leases[f]) : v = Len(leases[f])
    BY DEF PgInv, Proved!LedgerInv, Proved!Safety, Proved!OneLeasePerFeed, Proved!Leased, LeasedIn
  <1> QED BY <1>1, <1>2

(* Time does a transaction no harm.                                        *)
LEMMA Later ==
    ASSUME NEW tx, NEW rows, NEW clock \in Nat, NEW later \in Nat, clock <= later,
           TxInv(tx, rows, clock), tx \in Tx, rows \in Seq(Ledger!Row)
    PROVE  TxInv(tx, rows, later)
  <1>1. \A v \in DOMAIN rows : rows[v].expires <= clock => rows[v].expires <= later
    <2>1. \A r \in Ledger!Row : r.expires \in Nat
      BY DEF Ledger!Row
    <2>2. \A v \in DOMAIN rows : rows[v] \in Ledger!Row
      OBVIOUS
    <2> QED BY <2>1, <2>2
  <1>2. tx.at <= clock => tx.at <= later
    BY DEF Tx
  <1>3. Inserted(tx, rows, clock) => Inserted(tx, rows, later)
    BY <1>2 DEF Inserted
  <1> QED BY <1>1, <1>3 DEF TxInv, LeasedIn

(* Nor does the change of a leased row that it has not locked: where the   *)
(* transaction has concluded anything from the leased rows, it holds them. *)
LEMMA OtherRowChanges ==
    ASSUME NEW tx, NEW rows, NEW clock, TxInv(tx, rows, clock), rows \in Seq(Ledger!Row),
           NEW v \in LeasedIn(rows), v \notin tx.locked, NEW row
    PROVE  TxInv(tx, [rows EXCEPT ![v] = row], clock)
  <1> DEFINE new == [rows EXCEPT ![v] = row]
  <1>1. /\ DOMAIN new = DOMAIN rows
        /\ \A u \in DOMAIN rows : u # v => new[u] = rows[u]
    OBVIOUS
  <1>2. v \notin tx.swept
    BY DEF TxInv
  <1>3. ~AllSwept(tx, rows)
    BY <1>2 DEF AllSwept
  <1>4. tx.step \notin {"resweep", "existing", "insert"}
    BY <1>3 DEF TxInv
  <1>5. tx.step = "commit" => ReadsOnly(tx)
    BY <1>3 DEF TxInv, FoundConfirmed, Inserted
  <1> HIDE DEF new
  <1>6. \A u \in tx.swept :
           u \in DOMAIN new /\ new[u].status = "leased" /\ new[u].expires <= clock
    BY <1>1, <1>2 DEF TxInv
  <1>7. TxInv(tx, new, clock)
    BY <1>4, <1>5, <1>6 DEF TxInv
  <1> QED BY <1>7 DEF new

-----------------------------------------------------------------------------
(* From the ledger's own proofs.                                           *)
LEMMA SameLatest ==
    ASSUME NEW rows \in Seq(Ledger!Row), NEW w, \E v \in DOMAIN rows : rows[v].window = w
    PROVE  \E v \in DOMAIN rows : Ledger!IsLatest(rows, w, v)
  <1>1. Ledger!Row = Proved!Row
    BY DEF Ledger!Row, Proved!Row, Ledger!Statuses, Proved!Statuses
  <1>2. PICK u \in 1..Len(rows) : rows[u].window = w
    OBVIOUS
  <1>3. \E v \in 1..Len(rows) : Proved!IsLatest(rows, w, v)
    <2>1. rows \in Seq(Proved!Row)
      BY <1>1, Zenon
    <2>2. Proved!LedgerAssumption
      BY PostgresAssumption DEF Proved!LedgerAssumption
    <2> QED BY <1>2, <2>1, <2>2, Proved!LatestExists, Zenon
  <1> QED BY <1>3 DEF Ledger!IsLatest, Proved!IsLatest

LEMMA LatestCounts ==
    ASSUME NEW rows \in Seq(Ledger!Row), NEW w, NEW v \in DOMAIN rows,
           Ledger!IsLatest(rows, w, v)
    PROVE  Ledger!NextAttempt(rows, w) = rows[v].attempt + 1
  <1>1. \A u \in DOMAIN rows : Ledger!IsLatest(rows, w, u) => u = v
    BY DEF Ledger!IsLatest
  <1>2. (CHOOSE u \in DOMAIN rows : Ledger!IsLatest(rows, w, u)) = v
    BY <1>1
  <1>3. \E u \in DOMAIN rows : rows[u].window = w
    BY DEF Ledger!IsLatest
  <1> QED BY <1>2, <1>3, Zenon DEF Ledger!NextAttempt

LEMMA NextAttemptCounts ==
    ASSUME NEW rows \in Seq(Ledger!Row), NEW w
    PROVE  Ledger!NextAttempt(rows, w) \in Nat \ {0}
  <1>1. CASE \E v \in DOMAIN rows : rows[v].window = w
    <2>1. PICK v \in DOMAIN rows : Ledger!IsLatest(rows, w, v)
      BY <1>1, SameLatest
    <2>2. rows[v].attempt \in Nat
      <3>1. rows[v] \in Ledger!Row
        OBVIOUS
      <3> QED BY <3>1 DEF Ledger!Row
    <2> QED BY <2>1, <2>2, LatestCounts
  <1>2. CASE ~\E v \in DOMAIN rows : rows[v].window = w
    BY <1>2 DEF Ledger!NextAttempt
  <1> QED BY <1>1, <1>2

-----------------------------------------------------------------------------
(* What a transaction sees are its feed's rows with some of the leased ones *)
(* expired: neither confirmations nor attempts look different.             *)
LEMMA ViewOfRows ==
    ASSUME PgInv, NEW s \in Sessions, InTx(s)
    PROVE  /\ OwnRows(s) \in Seq(Ledger!Row) /\ session[s].feed \in Feeds /\ session[s] \in Tx
           /\ TxInv(session[s], OwnRows(s), now)
           /\ View(s) \in Seq(Ledger!Row)
           /\ Len(View(s)) = Len(OwnRows(s)) /\ DOMAIN View(s) = DOMAIN OwnRows(s)
           /\ View(s) = [v \in DOMAIN OwnRows(s) |-> View(s)[v]]
           /\ \A v \in DOMAIN OwnRows(s) :
                 /\ v \in session[s].swept => /\ OwnRows(s)[v].status = "leased"
                                              /\ View(s)[v] = [OwnRows(s)[v] EXCEPT !.status = "expired"]
                                              /\ View(s)[v].status = "expired"
                 /\ v \notin session[s].swept => View(s)[v] = OwnRows(s)[v]
                 /\ View(s)[v].window = OwnRows(s)[v].window
                 /\ View(s)[v].attempt = OwnRows(s)[v].attempt
                 /\ View(s)[v].expires = OwnRows(s)[v].expires
  <1>0. PICK rows : rows = OwnRows(s)
    OBVIOUS
  <1>1. session[s] \in Tx /\ session[s].feed \in Feeds
    BY Kinds DEF PgInv, Tx
  <1>2. rows \in Seq(Ledger!Row)
    BY <1>0, <1>1, LedgerFacts DEF OwnRows
  <1>3. TxInv(session[s], rows, now)
    BY <1>0 DEF PgInv, SessionInv
  <1>4. \A v \in DOMAIN rows :
           /\ rows[v] \in Ledger!Row
           /\ [rows[v] EXCEPT !.status = "expired"] \in Ledger!Row
    <2>1. \A v \in DOMAIN rows : rows[v] \in Ledger!Row
      BY <1>2
    <2>2. \A r \in Ledger!Row : [r EXCEPT !.status = "expired"] \in Ledger!Row
      BY DEF Ledger!Row, Ledger!Statuses
    <2> QED BY <2>1, <2>2
  <1>5. View(s) = [v \in DOMAIN rows |-> IF v \in session[s].swept
                                          THEN [rows[v] EXCEPT !.status = "expired"]
                                          ELSE rows[v]]
    BY <1>0 DEF View, OwnRows
  <1>6. \A v \in DOMAIN rows : View(s)[v] \in Ledger!Row
    BY <1>4, <1>5
  <1>7. DOMAIN rows = 1..Len(rows) /\ Len(rows) \in Nat
    BY <1>2
  <1>8. View(s) \in [1..Len(rows) -> Ledger!Row]
    BY <1>5, <1>6, <1>7
  <1>9. View(s) \in Seq(Ledger!Row) /\ Len(View(s)) = Len(rows)
    BY <1>7, <1>8
  <1>10. \A r \in Ledger!Row : LET e == [r EXCEPT !.status = "expired"] IN
            e.status = "expired" /\ e.window = r.window /\ e.attempt = r.attempt
            /\ e.expires = r.expires
    BY DEF Ledger!Row
  <1>11. \A v \in session[s].swept : rows[v].status = "leased"
    BY <1>3 DEF TxInv
  <1> HIDE DEF View, TxInv
  <1>12. ASSUME NEW v \in DOMAIN rows
         PROVE  /\ v \in session[s].swept => /\ rows[v].status = "leased"
                                             /\ View(s)[v] = [rows[v] EXCEPT !.status = "expired"]
                                             /\ View(s)[v].status = "expired"
                /\ v \notin session[s].swept => View(s)[v] = rows[v]
                /\ View(s)[v].window = rows[v].window
                /\ View(s)[v].attempt = rows[v].attempt
                /\ View(s)[v].expires = rows[v].expires
    BY <1>4, <1>5, <1>10, <1>11
  <1> QED BY <1>0, <1>1, <1>2, <1>3, <1>5, <1>9, <1>12, Zenon

LEMMA ViewTellsTheSame ==
    ASSUME PgInv, NEW s \in Sessions, InTx(s), NEW w
    PROVE  /\ \A v : Ledger!IsLatest(View(s), w, v) <=> Ledger!IsLatest(OwnRows(s), w, v)
           /\ Ledger!AlreadyConfirmed(View(s), w) <=> Ledger!AlreadyConfirmed(OwnRows(s), w)
           /\ Ledger!NextAttempt(View(s), w) = Ledger!NextAttempt(OwnRows(s), w)
  <1>1. PICK rows : rows = OwnRows(s)
    OBVIOUS
  <1>2. /\ rows \in Seq(Ledger!Row) /\ View(s) \in Seq(Ledger!Row)
        /\ Len(View(s)) = Len(rows) /\ DOMAIN View(s) = DOMAIN rows
        /\ \A v \in DOMAIN rows : /\ View(s)[v].window = rows[v].window
                                  /\ View(s)[v].attempt = rows[v].attempt
                                  /\ View(s)[v].status = "confirmed" <=> rows[v].status = "confirmed"
    <2>1. /\ rows \in Seq(Ledger!Row) /\ View(s) \in Seq(Ledger!Row)
          /\ Len(View(s)) = Len(rows) /\ DOMAIN View(s) = DOMAIN rows
          /\ \A v \in DOMAIN rows :
                /\ v \in session[s].swept => /\ rows[v].status = "leased"
                                             /\ View(s)[v].status = "expired"
                /\ v \notin session[s].swept => View(s)[v] = rows[v]
                /\ View(s)[v].window = rows[v].window /\ View(s)[v].attempt = rows[v].attempt
      BY <1>1, ViewOfRows, Zenon
    <2>2. ASSUME NEW v \in DOMAIN rows
          PROVE  View(s)[v].status = "confirmed" <=> rows[v].status = "confirmed"
      BY <2>1
    <2> QED BY <2>1, <2>2
  <1>3. \A v : Ledger!IsLatest(View(s), w, v) <=> Ledger!IsLatest(rows, w, v)
    BY <1>2 DEF Ledger!IsLatest
  <1>4. Ledger!AlreadyConfirmed(View(s), w) <=> Ledger!AlreadyConfirmed(rows, w)
    BY <1>2, <1>3 DEF Ledger!AlreadyConfirmed
  <1>5. Ledger!NextAttempt(View(s), w) = Ledger!NextAttempt(rows, w)
    <2>1. CASE \E v \in DOMAIN rows : rows[v].window = w
      <3>1. PICK v \in DOMAIN rows : Ledger!IsLatest(rows, w, v)
        BY <1>2, <2>1, SameLatest
      <3>2. Ledger!NextAttempt(rows, w) = rows[v].attempt + 1
        BY <1>2, <3>1, LatestCounts
      <3>3. Ledger!NextAttempt(View(s), w) = View(s)[v].attempt + 1
        BY <1>2, <1>3, <3>1, LatestCounts
      <3> QED BY <1>2, <3>2, <3>3
    <2>2. CASE ~\E v \in DOMAIN rows : rows[v].window = w
      BY <1>2, <2>2 DEF Ledger!NextAttempt
    <2> QED BY <2>1, <2>2
  <1> QED BY <1>1, <1>3, <1>4, <1>5

-----------------------------------------------------------------------------
(* A session moves and the rows stay as they are.                          *)
LEMMA SessionMoves ==
    ASSUME PgInv, NEW s \in Sessions, NEW x,
           session' = [session EXCEPT ![s] = x], UNCHANGED <<leases, now>>,
           x = NoTx \/ x \in Tx \/ x \in Upd,
           x \in Tx => /\ TxInv(x, leases[x.feed], now)
                       /\ x.step # "lock" => \A t \in Sessions \ {s} : ~HoldsLock(t, x.feed),
           x \in Upd => x.at <= now
    PROVE  PgInv'
  <1>1. /\ session'[s] = x /\ DOMAIN session' = Sessions
        /\ \A t \in Sessions \ {s} : session'[t] = session[t]
    BY DEF PgInv
  <1>2. TypeOK'
    <2>1. Ledger!TypeOK'
      BY DEF PgInv, TypeOK, Ledger!TypeOK
    <2>2. Tx' = Tx /\ Upd' = Upd /\ NoTx' = NoTx
      BY DEF Tx, Upd, NoTx
    <2> QED BY <1>1, <2>1, <2>2 DEF PgInv, TypeOK
  <1>3. Proved!LedgerInv'
    BY DEF PgInv, Proved!LedgerInv, Proved!TypeOK, Proved!Safety, Proved!OneLeasePerFeed,
           Proved!ConfirmedIsFinal, Proved!AttemptsIncrease, Proved!ExpiryIsBounded,
           Proved!Leased
  <1>4. \A t \in Sessions \ {s} : \A f \in Feeds : HoldsLock(t, f)' <=> HoldsLock(t, f)
    BY <1>1 DEF HoldsLock, InTx
  <1>5. OneHolder'
    <2>1. ASSUME NEW f \in Feeds, HoldsLock(s, f)'
          PROVE  x \in Tx /\ x.step # "lock" /\ x.feed = f
      BY <1>1, <2>1 DEF HoldsLock, InTx, NoTx, Upd, TxSteps, Updates
    <2> QED BY <1>4, <2>1 DEF PgInv, OneHolder
  <1>6. ASSUME NEW t \in Sessions PROVE SessionInv(t)'
    <2>1. CASE t # s
      BY <1>1, <2>1 DEF PgInv, SessionInv, InTx, OwnRows
    <2>2. CASE t = s
      <3>1. InTx(s)' => x \in Tx /\ OwnRows(s)' = leases[x.feed]
        BY <1>1 DEF InTx, OwnRows, NoTx, Upd, TxSteps, Updates
      <3>2. x.step \in Updates => x \in Upd
        BY DEF NoTx, Tx, TxSteps, Updates
      <3> QED BY <1>1, <2>2, <3>1, <3>2 DEF SessionInv
    <2> QED BY <2>1, <2>2
  <1> QED BY <1>1, <1>2, <1>3, <1>5, <1>6 DEF PgInv

(* The move of a transaction that holds its feed's lock, or takes it.      *)
LEMMA TxMoves ==
    ASSUME PgInv, NEW s \in Sessions, InTx(s), NEW x \in Tx,
           session' = [session EXCEPT ![s] = x], UNCHANGED <<leases, now>>,
           x.feed = session[s].feed, TxInv(x, OwnRows(s), now),
           \/ session[s].step # "lock"
           \/ \A t \in Sessions : ~HoldsLock(t, x.feed)
    PROVE  PgInv'
  <1>1. TxInv(x, leases[x.feed], now)
    BY DEF OwnRows
  <1>2. \A t \in Sessions \ {s} : ~HoldsLock(t, x.feed)
    <2>1. CASE session[s].step # "lock"
      <3>1. HoldsLock(s, x.feed) /\ x.feed \in Feeds
        BY <2>1 DEF HoldsLock, Tx
      <3> QED BY <3>1 DEF PgInv, OneHolder
    <2> QED BY <2>1
  <1>3. x \notin Upd
    BY DEF Tx, Upd, TxSteps, Updates
  <1> QED BY <1>1, <1>2, <1>3, SessionMoves

LEMMA EndKeeps ==
    ASSUME PgInv, NEW s \in Sessions,
           session' = [session EXCEPT ![s] = NoTx], UNCHANGED <<leases, now>>
    PROVE  PgInv'
  <1>1. NoTx \notin Tx /\ NoTx \notin Upd
    BY DEF NoTx, Tx, Upd
  <1> QED BY <1>1, SessionMoves

LEMMA BeginKeeps ==
    ASSUME PgInv, NEW s \in Sessions, NEW f \in Feeds, NEW w \in Windows, Begin(s, f, w)
    PROVE  PgInv'
  <1> DEFINE x == [step |-> "lock", feed |-> f, window |-> w, swept |-> {}, locked |-> {},
                   fresh |-> <<>>, at |-> 0]
  <1>1. x \in Tx
    BY DEF Tx, TxSteps
  <1>2. TxInv(x, leases[x.feed], now)
    BY DEF TxInv
  <1>3. x.step = "lock" /\ x \notin Upd
    BY DEF Upd, Updates
  <1>4. session' = [session EXCEPT ![s] = x] /\ UNCHANGED <<leases, now>>
    BY DEF Begin
  <1> HIDE DEF x
  <1> QED BY <1>1, <1>2, <1>3, <1>4, SessionMoves

LEMMA StartUpdateKeeps ==
    ASSUME PgInv, NEW s \in Sessions, NEW op \in Updates, NEW f \in Feeds,
           NEW v \in DOMAIN leases[f], StartUpdate(s, op, f, v)
    PROVE  PgInv'
  <1> DEFINE x == [step |-> op, feed |-> f, version |-> v, at |-> now]
  <1>1. v \in Nat /\ now \in Nat
    BY LedgerFacts
  <1>2. x \in Upd /\ x.at <= now
    BY <1>1 DEF Upd
  <1>3. x \notin Tx
    BY DEF Tx, TxSteps, Updates
  <1>4. session' = [session EXCEPT ![s] = x] /\ UNCHANGED <<leases, now>>
    BY DEF StartUpdate
  <1> HIDE DEF x
  <1> QED BY <1>2, <1>3, <1>4, SessionMoves

-----------------------------------------------------------------------------
(* The statements of acquire, up to the commit.                            *)
LEMMA TakeLockKeeps ==
    ASSUME PgInv, NEW s \in Sessions, TakeLock(s)
    PROVE  PgInv'
  <1> DEFINE x == [session[s] EXCEPT !.step = "sweep"]
  <1>1. session[s].step = "lock" /\ InTx(s) /\ UNCHANGED <<leases, now>>
    BY DEF TakeLock, InTx, TxSteps
  <1>2. session[s] \in Tx /\ TxInv(session[s], OwnRows(s), now)
    BY <1>1, ViewOfRows
  <1>3. /\ x \in Tx /\ x.step = "sweep" /\ x.feed = session[s].feed
        /\ x.swept = session[s].swept /\ x.locked = session[s].locked
        /\ x.fresh = session[s].fresh
    BY <1>2 DEF Tx, TxSteps
  <1>4. session' = [session EXCEPT ![s] = x]
    BY DEF TakeLock, Goto
  <1>5. \A t \in Sessions : ~HoldsLock(t, session[s].feed)
    BY DEF TakeLock
  <1> HIDE DEF x
  <1>6. TxInv(x, OwnRows(s), now)
    BY <1>1, <1>2, <1>3 DEF TxInv
  <1> QED BY <1>1, <1>3, <1>4, <1>5, <1>6, TxMoves

LEMMA SweepKeeps ==
    ASSUME PgInv, NEW s \in Sessions, SweepExpired(s)
    PROVE  PgInv'
  <1> DEFINE swept == session[s].swept \cup ExpiredRows(s)
             locked == session[s].locked \cup ExpiredRows(s)
             step == IF session[s].step = "sweep" THEN "active" ELSE "existing"
             x == [session[s] EXCEPT !.step = step, !.swept = swept, !.locked = locked]
  <1>1. session[s].step \in {"sweep", "resweep"} /\ InTx(s) /\ UNCHANGED <<leases, now>>
    BY DEF SweepExpired, InTx, TxSteps
  <1>2. session[s] \in Tx /\ TxInv(session[s], OwnRows(s), now) /\ OwnRows(s) \in Seq(Ledger!Row)
    BY <1>1, ViewOfRows
  <1>3. \A v : v \in ExpiredRows(s) <=>
               /\ v \in LeasedIn(OwnRows(s)) /\ v \notin session[s].swept
               /\ OwnRows(s)[v].expires <= now
    <2>1. \A v \in DOMAIN OwnRows(s) :
             /\ v \in session[s].swept => View(s)[v].status = "expired"
             /\ v \notin session[s].swept => View(s)[v].status = OwnRows(s)[v].status
             /\ View(s)[v].expires = OwnRows(s)[v].expires
      BY <1>1, ViewOfRows, Zenon
    <2>2. DOMAIN View(s) = DOMAIN OwnRows(s)
      BY <1>1, ViewOfRows, Zenon
    <2> QED BY <2>1, <2>2 DEF ExpiredRows, LeasedIn
  <1>4. ExpiredRows(s) \subseteq Nat
    BY <1>2, <1>3 DEF LeasedIn
  <1>5. /\ x \in Tx /\ x.step = step /\ x.feed = session[s].feed
        /\ x.swept = swept /\ x.locked = locked /\ x.fresh = session[s].fresh
    BY <1>2, <1>4 DEF Tx, TxSteps
  <1>6. session' = [session EXCEPT ![s] = x]
    BY DEF SweepExpired
  <1>7. step = "active" \/ (step = "existing" /\ session[s].step = "resweep")
    BY <1>1
  <1> HIDE DEF x, step
  <1>8. step = "existing" => LeasedIn(OwnRows(s)) \subseteq swept
    BY <1>2, <1>3, <1>7 DEF TxInv
  <1>9. \A v \in swept : /\ v \in DOMAIN OwnRows(s) /\ OwnRows(s)[v].status = "leased"
                         /\ OwnRows(s)[v].expires <= now
    BY <1>2, <1>3 DEF TxInv, LeasedIn
  <1>10. swept \subseteq locked
    BY <1>2 DEF TxInv
  <1>11. session[s].fresh = <<>>
    BY <1>1, <1>2 DEF TxInv
  <1> HIDE DEF swept, locked
  <1>12. TxInv(x, OwnRows(s), now)
    BY <1>5, <1>7, <1>8, <1>9, <1>10, <1>11 DEF TxInv, AllSwept
  <1> QED BY <1>1, <1>5, <1>6, <1>12, TxMoves

(* The row that a transaction finds leased is the only one: the newest.    *)
LEMMA OneLeasedRow ==
    ASSUME PgInv, NEW s \in Sessions, InTx(s)
    PROVE  /\ \A u, v \in LeasedIn(OwnRows(s)) : u = v
           /\ \A v : IsActive(s, v) <=> v \in LeasedIn(OwnRows(s)) \ session[s].swept
  <1>1. \A v \in LeasedIn(OwnRows(s)) : v = Len(OwnRows(s))
    BY ViewOfRows, LedgerFacts DEF OwnRows
  <1>2. /\ DOMAIN View(s) = DOMAIN OwnRows(s)
        /\ \A v \in DOMAIN OwnRows(s) :
             /\ v \in session[s].swept => View(s)[v].status = "expired"
             /\ v \notin session[s].swept => View(s)[v].status = OwnRows(s)[v].status
    BY ViewOfRows, Zenon
  <1>3. \A v : v \in DOMAIN View(s) /\ View(s)[v].status = "leased"
                 <=> v \in LeasedIn(OwnRows(s)) \ session[s].swept
    BY <1>2 DEF LeasedIn
  <1>4. \A v \in DOMAIN OwnRows(s) : v \in Nat
    <2>1. OwnRows(s) \in Seq(Ledger!Row)
      BY ViewOfRows, Zenon
    <2> QED BY <2>1
  <1>5. ASSUME NEW v PROVE IsActive(s, v) <=> v \in LeasedIn(OwnRows(s)) \ session[s].swept
    <2>1. ASSUME v \in LeasedIn(OwnRows(s)) \ session[s].swept,
                 NEW u \in DOMAIN View(s), View(s)[u].status = "leased"
          PROVE  u <= v
      BY <1>1, <1>2, <1>3, <1>4, <2>1
    <2> QED BY <1>3, <2>1 DEF IsActive
  <1> QED BY <1>1, <1>5

LEMMA NoActiveKeeps ==
    ASSUME PgInv, NEW s \in Sessions, NoActiveLease(s)
    PROVE  PgInv'
  <1> DEFINE x == [session[s] EXCEPT !.step = "existing"]
  <1>1. session[s].step = "active" /\ InTx(s) /\ UNCHANGED <<leases, now>>
    BY DEF NoActiveLease, InTx, TxSteps
  <1>2. session[s] \in Tx /\ TxInv(session[s], OwnRows(s), now)
    BY <1>1, ViewOfRows
  <1>3. /\ x \in Tx /\ x.step = "existing" /\ x.feed = session[s].feed
        /\ x.swept = session[s].swept /\ x.locked = session[s].locked
        /\ x.fresh = session[s].fresh
    BY <1>2 DEF Tx, TxSteps
  <1>4. session' = [session EXCEPT ![s] = x]
    BY DEF NoActiveLease, Goto
  <1>5. LeasedIn(OwnRows(s)) \subseteq session[s].swept
    <2>1. \A v : IsActive(s, v) => v \in DOMAIN View(s)
      BY DEF IsActive
    <2> QED BY <1>1, <2>1, OneLeasedRow DEF NoActiveLease
  <1> HIDE DEF x
  <1>6. TxInv(x, OwnRows(s), now)
    BY <1>1, <1>2, <1>3, <1>5 DEF TxInv, AllSwept
  <1> QED BY <1>1, <1>3, <1>4, <1>6, TxMoves

LEMMA ReadActiveKeeps ==
    ASSUME PgInv, NEW s \in Sessions, ReadActiveLease(s)
    PROVE  PgInv'
  <1>1. session[s].step = "active" /\ InTx(s) /\ UNCHANGED <<leases, now>>
    BY DEF ReadActiveLease, InTx, TxSteps
  <1>2. PICK v \in DOMAIN View(s) :
           /\ IsActive(s, v)
           /\ session' = [session EXCEPT
                 ![s].step = IF View(s)[v].expires > now THEN "commit" ELSE "resweep",
                 ![s].locked = session[s].locked \cup {v}]
    BY DEF ReadActiveLease
  <1> DEFINE step == IF View(s)[v].expires > now THEN "commit" ELSE "resweep"
             locked == session[s].locked \cup {v}
             x == [session[s] EXCEPT !.step = step, !.locked = locked]
  <1>3. session[s] \in Tx /\ TxInv(session[s], OwnRows(s), now) /\ OwnRows(s) \in Seq(Ledger!Row)
    BY <1>1, ViewOfRows
  <1>4. /\ v \in LeasedIn(OwnRows(s)) \ session[s].swept
        /\ \A u \in LeasedIn(OwnRows(s)) : u = v
    BY <1>1, <1>2, OneLeasedRow
  <1>5. v \in Nat /\ View(s)[v].expires = OwnRows(s)[v].expires
        /\ OwnRows(s)[v].expires \in Nat /\ now \in Nat
    <2>1. v \in DOMAIN OwnRows(s)
      BY <1>4 DEF LeasedIn
    <2>2. \A r \in Ledger!Row : r.expires \in Nat
      BY DEF Ledger!Row
    <2>3. View(s)[v].expires = OwnRows(s)[v].expires
      BY <1>1, <2>1, ViewOfRows, Zenon
    <2>4. v \in Nat /\ OwnRows(s)[v] \in Ledger!Row
      BY <1>3, <2>1
    <2> QED BY <2>2, <2>3, <2>4, LedgerFacts
  <1>6. /\ x \in Tx /\ x.step = step /\ x.feed = session[s].feed
        /\ x.swept = session[s].swept /\ x.locked = locked /\ x.fresh = session[s].fresh
    BY <1>3, <1>5 DEF Tx, TxSteps
  <1>7. session' = [session EXCEPT ![s] = x]
    BY <1>2
  <1>8. session[s].swept = {}
    BY <1>3, <1>4 DEF TxInv, LeasedIn
  <1>9. \/ step = "commit"
        \/ step = "resweep" /\ OwnRows(s)[v].expires <= now
    BY <1>5
  <1> HIDE DEF x, step
  <1>10. session[s].fresh = <<>>
    BY <1>1, <1>3 DEF TxInv
  <1>11. TxInv(x, OwnRows(s), now)
    BY <1>4, <1>6, <1>8, <1>9, <1>10 DEF TxInv, ReadsOnly
  <1> QED BY <1>1, <1>6, <1>7, <1>11, TxMoves

LEMMA ReadExistingKeeps ==
    ASSUME PgInv, NEW s \in Sessions, ReadExisting(s)
    PROVE  PgInv'
  <1> DEFINE latest == {v \in DOMAIN View(s) : Ledger!IsLatest(View(s), session[s].window, v)}
             confirmed == Ledger!AlreadyConfirmed(View(s), session[s].window)
             step == IF confirmed THEN "commit" ELSE "insert"
             locked == session[s].locked \cup latest
             x == [session[s] EXCEPT !.step = step, !.locked = locked]
  <1>1. session[s].step = "existing" /\ InTx(s) /\ UNCHANGED <<leases, now>>
    BY DEF ReadExisting, InTx, TxSteps
  <1>2. session[s] \in Tx /\ TxInv(session[s], OwnRows(s), now) /\ View(s) \in Seq(Ledger!Row)
    BY <1>1, ViewOfRows
  <1>3. latest \subseteq Nat
    BY <1>2
  <1>4. session' = [session EXCEPT ![s] = x]
    BY DEF ReadExisting
  <1>5. confirmed <=> Ledger!AlreadyConfirmed(OwnRows(s), session[s].window)
    BY <1>1, ViewTellsTheSame, Zenon
  <1> HIDE DEF latest, confirmed
  <1>6. /\ x \in Tx /\ x.step = step /\ x.feed = session[s].feed /\ x.window = session[s].window
        /\ x.swept = session[s].swept /\ x.locked = locked /\ x.fresh = session[s].fresh
    BY <1>2, <1>3 DEF Tx, TxSteps
  <1>7. \/ step = "commit" /\ Ledger!AlreadyConfirmed(OwnRows(s), session[s].window)
        \/ step = "insert" /\ ~Ledger!AlreadyConfirmed(OwnRows(s), session[s].window)
    BY <1>5
  <1> HIDE DEF x, step
  <1>8. AllSwept(session[s], OwnRows(s)) /\ session[s].fresh = <<>>
    BY <1>1, <1>2 DEF TxInv
  <1>9. step = "commit" => FoundConfirmed(x, OwnRows(s))
    BY <1>6, <1>7, <1>8 DEF FoundConfirmed, AllSwept
  <1>10. TxInv(x, OwnRows(s), now)
    BY <1>2, <1>6, <1>7, <1>8, <1>9 DEF TxInv, AllSwept
  <1> QED BY <1>1, <1>4, <1>6, <1>10, TxMoves

LEMMA InsertKeeps ==
    ASSUME PgInv, NEW s \in Sessions, InsertLease(s)
    PROVE  PgInv'
  <1> DEFINE fresh == <<LeaseRow(s)>>
             x == [session[s] EXCEPT !.step = "commit", !.at = now, !.fresh = fresh]
  <1>1. session[s].step = "insert" /\ InTx(s) /\ UNCHANGED <<leases, now>>
        /\ Len(OwnRows(s)) < MaxRows
    BY DEF InsertLease, InTx, TxSteps, OwnRows
  <1>2. session[s] \in Tx /\ TxInv(session[s], OwnRows(s), now) /\ OwnRows(s) \in Seq(Ledger!Row)
    BY <1>1, ViewOfRows
  <1>3. now \in Nat /\ session[s].window \in Windows
    BY <1>2, LedgerFacts DEF Tx
  <1>4. LeaseRow(s) = [window |-> session[s].window, status |-> "leased",
                       expires |-> now + LeaseMs,
                       attempt |-> Ledger!NextAttempt(OwnRows(s), session[s].window)]
    <2>1. Ledger!NextAttempt(View(s), session[s].window)
            = Ledger!NextAttempt(OwnRows(s), session[s].window)
      BY <1>1, ViewTellsTheSame, Zenon
    <2> QED BY <2>1 DEF LeaseRow
  <1>5. Ledger!NextAttempt(OwnRows(s), session[s].window) \in Nat \ {0}
    BY <1>2, NextAttemptCounts
  <1>6. LeaseRow(s) \in Ledger!Row
    BY <1>3, <1>4, <1>5, PostgresAssumption DEF Ledger!Row, Ledger!Statuses
  <1>7. fresh \in Seq(Ledger!Row)
    BY <1>6
  <1>8. session' = [session EXCEPT ![s] = x]
    BY DEF InsertLease
  <1>9. fresh = <<[window |-> session[s].window, status |-> "leased", expires |-> now + LeaseMs,
                   attempt |-> Ledger!NextAttempt(OwnRows(s), session[s].window)]>>
    BY <1>4, Zenon
  <1> HIDE DEF fresh
  <1>10. /\ x \in Tx /\ x.step = "commit" /\ x.feed = session[s].feed
         /\ x.window = session[s].window /\ x.at = now
         /\ x.swept = session[s].swept /\ x.locked = session[s].locked /\ x.fresh = fresh
    BY <1>2, <1>3, <1>7 DEF Tx, TxSteps
  <1> HIDE DEF x
  <1>11. Inserted(x, OwnRows(s), now)
    <2>1. AllSwept(x, OwnRows(s)) /\ ~Ledger!AlreadyConfirmed(OwnRows(s), x.window)
      BY <1>1, <1>2, <1>10 DEF TxInv, AllSwept
    <2>2. x.at <= now
      BY <1>3, <1>10
    <2>3. x.fresh = <<[window |-> x.window, status |-> "leased", expires |-> x.at + LeaseMs,
                       attempt |-> Ledger!NextAttempt(OwnRows(s), x.window)]>>
      BY <1>9, <1>10, Zenon
    <2> QED BY <1>1, <2>1, <2>2, <2>3, Zenon DEF Inserted
  <1>12. TxInv(x, OwnRows(s), now)
    BY <1>2, <1>10, <1>11 DEF TxInv
  <1> QED BY <1>1, <1>8, <1>10, <1>12, TxMoves

-----------------------------------------------------------------------------
(* The commit and the fenced updates are operations of the ledger.         *)
LEMMA SweptIsView ==
    ASSUME PgInv, NEW s \in Sessions, InTx(s), AllSwept(session[s], OwnRows(s))
    PROVE  Ledger!Swept(OwnRows(s)) = View(s)
  <1>1. TxInv(session[s], OwnRows(s), now)
    BY ViewOfRows, Zenon
  <1>2. ASSUME NEW v \in DOMAIN OwnRows(s)
        PROVE  View(s)[v] = IF OwnRows(s)[v].status = "leased" /\ OwnRows(s)[v].expires <= now
                            THEN [OwnRows(s)[v] EXCEPT !.status = "expired"]
                            ELSE OwnRows(s)[v]
    <2>1. CASE v \in session[s].swept
      <3>1. OwnRows(s)[v].status = "leased" /\ OwnRows(s)[v].expires <= now
        BY <1>1, <2>1 DEF TxInv
      <3>2. View(s)[v] = [OwnRows(s)[v] EXCEPT !.status = "expired"]
        BY <2>1, ViewOfRows, Zenon
      <3> QED BY <3>1, <3>2, Zenon
    <2>2. CASE v \notin session[s].swept
      <3>1. OwnRows(s)[v].status # "leased"
        BY <2>2 DEF AllSwept, LeasedIn
      <3>2. View(s)[v] = OwnRows(s)[v]
        BY <2>2, ViewOfRows, Zenon
      <3> QED BY <3>1, <3>2, Zenon
    <2> QED BY <2>1, <2>2
  <1>3. View(s) = [v \in DOMAIN OwnRows(s) |-> View(s)[v]]
    BY ViewOfRows, Zenon
  <1> QED BY <1>2, <1>3, Zenon DEF Ledger!Swept

LEMMA NoneActive ==
    ASSUME PgInv, NEW s \in Sessions, InTx(s), AllSwept(session[s], OwnRows(s))
    PROVE  ~Ledger!LeaseActive(session[s].feed)
  <1>1. TxInv(session[s], OwnRows(s), now) /\ OwnRows(s) \in Seq(Ledger!Row)
    BY ViewOfRows, Zenon
  <1>2. ASSUME NEW v \in DOMAIN OwnRows(s), OwnRows(s)[v].status = "leased",
               OwnRows(s)[v].expires > now
        PROVE  FALSE
    <2>1. v \in session[s].swept
      BY <1>2 DEF AllSwept, LeasedIn
    <2>2. OwnRows(s)[v].expires <= now
      BY <1>1, <2>1 DEF TxInv
    <2>3. OwnRows(s)[v].expires \in Nat
      <3>1. OwnRows(s)[v] \in Ledger!Row
        BY <1>1, <1>2
      <3> QED BY <3>1 DEF Ledger!Row
    <2>4. now \in Nat
      BY LedgerFacts
    <2> QED BY <1>2, <2>2, <2>3, <2>4
  <1> QED BY <1>2 DEF Ledger!LeaseActive, Ledger!Owned, Ledger!Leased, OwnRows

LEMMA CommitIsAcquire ==
    ASSUME PgInv, NEW s \in Sessions, Commit(s)
    PROVE  UNCHANGED leases \/ Ledger!Next
  <1>1. /\ session[s].step = "commit" /\ InTx(s)
        /\ leases' = [leases EXCEPT ![session[s].feed] = View(s) \o session[s].fresh]
        /\ UNCHANGED now
        /\ session[s].fresh # <<>> => now - session[s].at <= StatementBound
    BY DEF Commit, InTx, TxSteps
  <1>2. PICK f, w, tx : f = session[s].feed /\ w = session[s].window /\ tx = session[s]
    OBVIOUS
  <1>3. /\ f \in Feeds /\ tx \in Tx /\ leases[f] = OwnRows(s)
        /\ TxInv(tx, OwnRows(s), now) /\ View(s) \in Seq(Ledger!Row)
    BY <1>1, <1>2, ViewOfRows DEF OwnRows
  <1>4. w \in Windows /\ tx.at \in Nat /\ now \in Nat
    BY <1>2, <1>3, LedgerFacts DEF Tx
  <1>5. ReadsOnly(tx) \/ FoundConfirmed(tx, OwnRows(s)) \/ Inserted(tx, OwnRows(s), now)
    BY <1>1, <1>2, <1>3 DEF TxInv
  <1>6. leases' = [leases EXCEPT ![f] = View(s) \o tx.fresh]
    BY <1>1, <1>2
  <1>7. CASE ReadsOnly(tx)
    <2>1. tx.fresh = <<>> /\ tx.swept = {}
      BY <1>7 DEF ReadsOnly
    <2>2. View(s) = OwnRows(s)
      <3>1. /\ DOMAIN View(s) = DOMAIN OwnRows(s)
            /\ \A v \in DOMAIN OwnRows(s) : View(s)[v] = OwnRows(s)[v]
        BY <1>1, <1>2, <2>1, ViewOfRows
      <3>2. OwnRows(s) \in Seq(Ledger!Row)
        BY <1>1, ViewOfRows, Zenon
      <3> QED BY <1>3, <3>1, <3>2
    <2>3. View(s) \o tx.fresh = leases[f]
      BY <1>3, <2>1, <2>2
    <2>4. leases = [g \in Feeds |-> leases[g]]
      BY DEF PgInv, TypeOK, Ledger!TypeOK
    <2> QED BY <1>3, <1>6, <2>3, <2>4
  <1>8. CASE FoundConfirmed(tx, OwnRows(s))
    <2>1. /\ tx.fresh = <<>> /\ AllSwept(tx, OwnRows(s))
          /\ Ledger!AlreadyConfirmed(leases[f], w)
      BY <1>2, <1>3, <1>8 DEF FoundConfirmed
    <2>2. View(s) \o tx.fresh = View(s)
      BY <1>3, <2>1
    <2>3. View(s) = Ledger!Swept(leases[f]) /\ ~Ledger!LeaseActive(f)
      BY <1>1, <1>2, <1>3, <2>1, SweptIsView, NoneActive
    <2>4. leases' = [leases EXCEPT ![f] = Ledger!Swept(leases[f])]
      BY <1>6, <2>2, <2>3
    <2>5. Ledger!AcquireConfirmed(f, w)
      BY <2>1, <2>3, <2>4 DEF Ledger!AcquireConfirmed
    <2> QED BY <1>1, <1>3, <1>4, <2>5 DEF Ledger!Acquire, Ledger!Next
  <1>9. CASE Inserted(tx, OwnRows(s), now)
    <2>1. /\ AllSwept(tx, OwnRows(s)) /\ ~Ledger!AlreadyConfirmed(leases[f], w)
          /\ tx.at <= now /\ Len(leases[f]) < MaxRows
      BY <1>2, <1>3, <1>9 DEF Inserted
    <2>2. tx.fresh = <<Ledger!NewRow(f, w, tx.at)>>
      <3>1. tx.fresh = <<[window |-> w, status |-> "leased", expires |-> tx.at + LeaseMs,
                          attempt |-> Ledger!NextAttempt(leases[f], w)]>>
        BY <1>2, <1>3, <1>9, Zenon DEF Inserted
      <3> QED BY <3>1, Zenon DEF Ledger!NewRow
    <2>3. View(s) = Ledger!Swept(leases[f]) /\ ~Ledger!LeaseActive(f)
      BY <1>1, <1>2, <1>3, <2>1, SweptIsView, NoneActive
    <2>4. PICK row : row = Ledger!NewRow(f, w, tx.at)
      OBVIOUS
    <2>5. View(s) \o <<row>> = Append(View(s), row)
      <3>1. row \in Ledger!Row
        <4>1. tx.fresh \in Seq(Ledger!Row) /\ tx.fresh = <<row>>
          BY <1>3, <2>2, <2>4 DEF Tx
        <4> QED BY <4>1
      <3> QED BY <1>3, <3>1
    <2>6. leases' = [leases EXCEPT ![f] = Append(Ledger!Swept(leases[f]), row)]
      BY <1>6, <2>2, <2>3, <2>4, <2>5
    <2>7. tx.at \in Ledger!StatementTimes
      <3>1. tx.fresh # <<>>
        BY <2>2
      <3> QED BY <1>1, <1>2, <1>4, <2>1, <3>1 DEF Ledger!StatementTimes
    <2>8. Ledger!AcquireGranted(f, w, tx.at)
      BY <2>1, <2>3, <2>4, <2>6 DEF Ledger!AcquireGranted
    <2> QED BY <1>1, <1>3, <1>4, <2>7, <2>8 DEF Ledger!Acquire, Ledger!Next
  <1> QED BY <1>5, <1>7, <1>8, <1>9

(* An update that finds its row changes that row, of a lease, and no other. *)
LEMMA UpdateIsUpdate ==
    ASSUME PgInv, NEW s \in Sessions, RunUpdate(s)
    PROVE  /\ UNCHANGED leases \/ Ledger!Next
           /\ \/ UNCHANGED leases
              \/ \E row : /\ leases' = [leases EXCEPT ![session[s].feed] =
                                [leases[session[s].feed] EXCEPT ![session[s].version] = row]]
                          /\ session[s].version \in LeasedIn(leases[session[s].feed])
  <1>1. PICK u : u = session[s]
    OBVIOUS
  <1>2. /\ u.step \in Updates /\ now - u.at <= StatementBound /\ UNCHANGED now
        /\ \/ UNCHANGED leases
           \/ Ledger!Renew(u.feed, u.version, u.at)
           \/ Ledger!Release(u.feed, u.version, u.at)
           \/ Ledger!MarkConfirmed(u.feed, u.version, u.at)
           \/ Ledger!MarkFailed(u.feed, u.version, u.at)
    BY <1>1 DEF RunUpdate
  <1>3. u \in Upd /\ u.at <= now /\ now \in Nat
    BY <1>1, <1>2, Kinds, LedgerFacts DEF PgInv, SessionInv
  <1>4. u.feed \in Feeds /\ u.at \in Ledger!StatementTimes
    BY <1>2, <1>3 DEF Upd, Ledger!StatementTimes
  <1>5. CASE Ledger!Renew(u.feed, u.version, u.at)
    <2>1. u.version \in LeasedIn(leases[u.feed])
      BY <1>5 DEF Ledger!Renew, Ledger!Owned, Ledger!Leased, LeasedIn
    <2>2. leases' = [leases EXCEPT ![u.feed] = [leases[u.feed] EXCEPT ![u.version] =
                        [leases[u.feed][u.version] EXCEPT !.expires = u.at + LeaseMs]]]
      BY <1>5 DEF Ledger!Renew
    <2>3. Ledger!Next
      BY <1>2, <1>4, <1>5, <2>1 DEF Ledger!Next, Ledger!Update, LeasedIn
    <2> QED BY <1>1, <2>1, <2>2, <2>3
  <1>6. ASSUME NEW status, Ledger!Finish(u.feed, u.version, u.at, status)
        PROVE  /\ u.version \in LeasedIn(leases[u.feed])
               /\ \E row : leases' = [leases EXCEPT ![u.feed] =
                                        [leases[u.feed] EXCEPT ![u.version] = row]]
    <2>1. u.version \in LeasedIn(leases[u.feed])
      BY <1>6 DEF Ledger!Finish, Ledger!Owned, Ledger!Leased, LeasedIn
    <2>2. leases' = [leases EXCEPT ![u.feed] = [leases[u.feed] EXCEPT ![u.version] =
                        [leases[u.feed][u.version] EXCEPT !.status = status]]]
      BY <1>6 DEF Ledger!Finish
    <2> QED BY <2>1, <2>2
  <1>7. CASE \/ Ledger!Release(u.feed, u.version, u.at)
             \/ Ledger!MarkConfirmed(u.feed, u.version, u.at)
             \/ Ledger!MarkFailed(u.feed, u.version, u.at)
    <2>1. /\ u.version \in LeasedIn(leases[u.feed])
          /\ \E row : leases' = [leases EXCEPT ![u.feed] =
                                   [leases[u.feed] EXCEPT ![u.version] = row]]
      BY <1>6, <1>7 DEF Ledger!Release, Ledger!MarkConfirmed, Ledger!MarkFailed
    <2>2. Ledger!Next
      BY <1>2, <1>4, <1>7, <2>1 DEF Ledger!Next, Ledger!Update, LeasedIn
    <2> QED BY <1>1, <2>1, <2>2
  <1> QED BY <1>2, <1>5, <1>7

-----------------------------------------------------------------------------
(* Every step is a step of the ledger, or none.                            *)
LEMMA StepIsLedgerStep ==
    ASSUME PgInv, [Next]_vars
    PROVE  [Ledger!Next]_Ledger!ledgerVars
  <1>1. ASSUME UNCHANGED <<leases, now>> PROVE UNCHANGED Ledger!ledgerVars
    BY <1>1 DEF Ledger!ledgerVars
  <1>2. ASSUME NEW s \in Sessions, AcquireStep(s) PROVE [Ledger!Next]_Ledger!ledgerVars
    <2>1. CASE Commit(s)
      BY <1>1, <2>1, CommitIsAcquire DEF Commit
    <2>2. CASE ~Commit(s)
      BY <1>1, <1>2, <2>2 DEF AcquireStep, Begin, TakeLock, SweepExpired, NoActiveLease,
         ReadActiveLease, ReadExisting, InsertLease, Abort
    <2> QED BY <2>1, <2>2
  <1>3. ASSUME NEW s \in Sessions, UpdateStep(s) PROVE [Ledger!Next]_Ledger!ledgerVars
    <2>1. CASE RunUpdate(s)
      BY <1>1, <2>1, UpdateIsUpdate, Zenon DEF RunUpdate
    <2>2. CASE ~RunUpdate(s)
      BY <1>1, <1>3, <2>2 DEF UpdateStep, StartUpdate
    <2> QED BY <2>1, <2>2
  <1>4. ASSUME Tick PROVE Ledger!Next
    BY <1>4 DEF Tick, Ledger!Next
  <1>5. ASSUME UNCHANGED vars PROVE UNCHANGED <<leases, now>>
    BY <1>5 DEF vars
  <1> QED BY <1>1, <1>2, <1>3, <1>4, <1>5 DEF Next

LEMMA SameNext == [Ledger!Next]_Ledger!ledgerVars => [Proved!Next]_Proved!ledgerVars
  BY Zenon DEF Ledger!Next, Proved!Next, Ledger!ledgerVars, Proved!ledgerVars, Ledger!Tick,
         Proved!Tick, Ledger!Acquire, Proved!Acquire, Ledger!Update,
         Proved!Update, Ledger!StatementTimes, Proved!StatementTimes,
         Ledger!AcquireActive, Proved!AcquireActive, Ledger!AcquireConfirmed,
         Proved!AcquireConfirmed, Ledger!AcquireGranted,
         Proved!AcquireGranted, Ledger!LeaseActive, Proved!LeaseActive,
         Ledger!Owned, Proved!Owned, Ledger!Leased, Proved!Leased, Ledger!Swept, Proved!Swept,
         Ledger!AlreadyConfirmed, Proved!AlreadyConfirmed, Ledger!IsLatest, Proved!IsLatest,
         Ledger!NextAttempt, Proved!NextAttempt, Ledger!NewRow, Proved!NewRow,
         Ledger!Renew, Proved!Renew, Ledger!Finish, Proved!Finish, Ledger!Release,
         Proved!Release, Ledger!MarkConfirmed, Proved!MarkConfirmed, Ledger!MarkFailed,
         Proved!MarkFailed

LEMMA LedgerKept ==
    ASSUME PgInv, [Next]_vars
    PROVE  Proved!LedgerInv'
  <1>1. [Proved!Next]_Proved!ledgerVars
    BY StepIsLedgerStep, SameNext
  <1>2. Proved!LedgerAssumption
    BY PostgresAssumption DEF Proved!LedgerAssumption
  <1> QED BY <1>1, <1>2, Proved!LedgerStep DEF PgInv
-----------------------------------------------------------------------------
(* A session ends and changes the rows of its feed.                        *)
LEMMA RowsMove ==
    ASSUME PgInv, [Next]_vars, NEW s \in Sessions, NEW f \in Feeds,
           session' = [session EXCEPT ![s] = NoTx], now' = now,
           \A g \in Feeds \ {f} : leases'[g] = leases[g],
           \A t \in Sessions \ {s} : InTx(t) /\ session[t].feed = f
               => TxInv(session[t], leases'[f], now)
    PROVE  PgInv'
  <1>1. /\ session'[s] = NoTx /\ DOMAIN session' = Sessions
        /\ \A t \in Sessions \ {s} : session'[t] = session[t]
    BY DEF PgInv
  <1>2. Proved!LedgerInv'
    BY LedgerKept
  <1>3. TypeOK'
    <2>1. Ledger!TypeOK'
      BY <1>2 DEF Proved!LedgerInv, Proved!TypeOK, Ledger!TypeOK, Proved!Row, Ledger!Row,
         Proved!Statuses, Ledger!Statuses
    <2>2. Tx' = Tx /\ Upd' = Upd /\ NoTx' = NoTx
      BY DEF Tx, Upd, NoTx
    <2> QED BY <1>1, <2>1, <2>2 DEF PgInv, TypeOK
  <1>4. ~InTx(s)' /\ session'[s].step \notin Updates
    BY <1>1 DEF InTx, NoTx, TxSteps, Updates
  <1>5. OneHolder'
    <2>1. \A t \in Sessions \ {s} : \A g \in Feeds : HoldsLock(t, g)' <=> HoldsLock(t, g)
      BY <1>1 DEF HoldsLock, InTx
    <2> QED BY <1>4, <2>1 DEF PgInv, OneHolder, HoldsLock
  <1>6. ASSUME NEW t \in Sessions PROVE SessionInv(t)'
    <2>1. CASE t = s
      BY <1>4, <2>1 DEF SessionInv
    <2>2. CASE t # s
      <3>1. session'[t] = session[t] /\ (InTx(t)' <=> InTx(t)) /\ SessionInv(t)
        BY <1>1, <2>2 DEF InTx, PgInv
      <3>2. InTx(t) => session[t].feed \in Feeds
        BY Kinds DEF PgInv, Tx
      <3>3. InTx(t) => TxInv(session[t], leases'[session[t].feed], now)
        <4>1. CASE session[t].feed = f
          BY <2>2, <4>1
        <4>2. CASE session[t].feed # f
          BY <3>1, <3>2, <4>2 DEF SessionInv, OwnRows
        <4> QED BY <4>1, <4>2
      <3> QED BY <3>1, <3>3 DEF SessionInv, OwnRows
    <2> QED BY <2>1, <2>2
  <1> QED BY <1>1, <1>2, <1>3, <1>5, <1>6 DEF PgInv

(* At the commit every other transaction of the feed waits for the lock    *)
(* and has read nothing yet.                                               *)
LEMMA CommitKeeps ==
    ASSUME PgInv, NEW s \in Sessions, Commit(s)
    PROVE  PgInv'
  <1>1. [Next]_vars
    BY DEF Next, AcquireStep
  <1>2. /\ session[s].step = "commit" /\ InTx(s) /\ now' = now
        /\ session' = [session EXCEPT ![s] = NoTx]
        /\ leases' = [leases EXCEPT ![session[s].feed] = View(s) \o session[s].fresh]
    BY DEF Commit, InTx, TxSteps
  <1>3. PICK f \in Feeds : f = session[s].feed
    BY <1>2, Kinds DEF PgInv, Tx
  <1>4. \A g \in Feeds \ {f} : leases'[g] = leases[g]
    BY <1>2, <1>3, LedgerFacts
  <1>5. HoldsLock(s, f)
    BY <1>2, <1>3 DEF HoldsLock
  <1>6. ASSUME NEW t \in Sessions \ {s}, InTx(t), session[t].feed = f
        PROVE  TxInv(session[t], leases'[f], now)
    <2>1. session[t].step = "lock"
      BY <1>5, <1>6 DEF PgInv, OneHolder, HoldsLock
    <2>2. TxInv(session[t], OwnRows(t), now)
      BY <1>6 DEF PgInv, SessionInv
    <2> QED BY <2>1, <2>2 DEF TxInv
  <1> QED BY <1>1, <1>2, <1>3, <1>4, <1>6, RowsMove

LEMMA RunUpdateKeeps ==
    ASSUME PgInv, NEW s \in Sessions, RunUpdate(s)
    PROVE  PgInv'
  <1>1. [Next]_vars
    BY DEF Next, UpdateStep
  <1>2. /\ session[s].step \in Updates /\ now' = now
        /\ session' = [session EXCEPT ![s] = NoTx]
        /\ RowFree(s, session[s].feed, session[s].version)
    BY DEF RunUpdate
  <1>3. PICK f, v : f \in Feeds /\ f = session[s].feed /\ v = session[s].version
    BY <1>2, Kinds DEF PgInv, Upd
  <1>4. CASE UNCHANGED leases
    BY <1>2, <1>4, EndKeeps
  <1>5. ASSUME NEW row, leases' = [leases EXCEPT ![f] = [leases[f] EXCEPT ![v] = row]],
               v \in LeasedIn(leases[f])
        PROVE  PgInv'
    <2>1. /\ leases'[f] = [leases[f] EXCEPT ![v] = row]
          /\ \A g \in Feeds \ {f} : leases'[g] = leases[g]
      BY <1>3, <1>5, LedgerFacts
    <2>2. ASSUME NEW t \in Sessions \ {s}, InTx(t), session[t].feed = f
          PROVE  TxInv(session[t], leases'[f], now)
      <3>1. v \notin session[t].locked
        BY <1>2, <1>3, <2>2 DEF RowFree
      <3>2. TxInv(session[t], leases[f], now) /\ leases[f] \in Seq(Ledger!Row)
        BY <1>3, <2>2, LedgerFacts DEF PgInv, SessionInv, OwnRows
      <3>3. TxInv(session[t], [leases[f] EXCEPT ![v] = row], now)
        BY <1>5, <3>1, <3>2, OtherRowChanges
      <3> QED BY <2>1, <3>3, Zenon
    <2> QED BY <1>1, <1>2, <1>3, <2>1, <2>2, RowsMove
  <1> QED BY <1>3, <1>4, <1>5, UpdateIsUpdate

LEMMA TickKeeps ==
    ASSUME PgInv, Tick
    PROVE  PgInv'
  <1>1. UNCHANGED <<leases, session>> /\ now \in Nat /\ now' = now + 1
    BY LedgerFacts DEF Tick, Ledger!Tick
  <1>2. now' \in Nat /\ now <= now'
    BY <1>1
  <1>3. Proved!LedgerInv'
    BY LedgerKept DEF Next
  <1>4. TypeOK'
    BY <1>1, <1>2 DEF PgInv, TypeOK, Ledger!TypeOK
  <1>5. OneHolder'
    BY <1>1 DEF PgInv, OneHolder, HoldsLock, InTx
  <1>6. ASSUME NEW s \in Sessions PROVE SessionInv(s)'
    <2>1. InTx(s) => TxInv(session[s], OwnRows(s), now')
      <3> SUFFICES ASSUME InTx(s) PROVE TxInv(session[s], OwnRows(s), now')
        OBVIOUS
      <3> QED BY <1>1, <1>2, ViewOfRows, Later, Zenon
    <2>2. session[s].step \in Updates => session[s].at <= now'
      <3>1. session[s].step \in Updates => session[s].at \in Nat
        BY Kinds DEF PgInv, Upd
      <3> QED BY <1>1, <3>1 DEF PgInv, SessionInv
    <2> QED BY <1>1, <2>1, <2>2 DEF SessionInv, InTx, OwnRows
  <1> QED BY <1>1, <1>3, <1>4, <1>5, <1>6 DEF PgInv

LEMMA PgStep ==
    ASSUME PgInv, [Next]_vars
    PROVE  PgInv'
  <1>1. ASSUME NEW s \in Sessions, AcquireStep(s) PROVE PgInv'
    <2>1. CASE Abort(s)
      BY <2>1, EndKeeps DEF Abort
    <2> QED BY <1>1, <2>1, BeginKeeps, TakeLockKeeps, SweepKeeps, NoActiveKeeps, ReadActiveKeeps,
               ReadExistingKeeps, InsertKeeps, CommitKeeps DEF AcquireStep
  <1>2. ASSUME NEW s \in Sessions, UpdateStep(s) PROVE PgInv'
    BY <1>2, StartUpdateKeeps, RunUpdateKeeps DEF UpdateStep
  <1>3. CASE UNCHANGED vars
    <2>1. UNCHANGED <<leases, now, session>>
      BY <1>3 DEF vars
    <2>2. Proved!LedgerInv'
      BY LedgerKept
    <2> QED BY <2>1, <2>2 DEF PgInv, TypeOK, Ledger!TypeOK, OneHolder, HoldsLock, InTx, SessionInv,
               OwnRows
  <1> QED BY <1>1, <1>2, <1>3, TickKeeps DEF Next

LEMMA PgInit == Init => PgInv
  <1> SUFFICES ASSUME Init PROVE PgInv
    OBVIOUS
  <1>1. \A s \in Sessions : session[s] = NoTx
    BY DEF Init
  <1>2. Proved!LedgerInv
    <2>1. Proved!LedgerAssumption
      BY PostgresAssumption DEF Proved!LedgerAssumption
    <2>2. Proved!Init
      BY DEF Init, Ledger!Init, Proved!Init
    <2> QED BY <2>1, <2>2, Proved!LedgerInit
  <1>3. \A s \in Sessions : ~InTx(s) /\ session[s].step \notin Updates
    <2>1. NoTx.step = "none" /\ "none" \notin TxSteps \cup Updates
      BY DEF NoTx, TxSteps, Updates
    <2> QED BY <1>1, <2>1, Zenon DEF InTx
  <1>4. TypeOK
    <2>1. Ledger!TypeOK
      BY <1>2 DEF Proved!LedgerInv, Proved!TypeOK, Ledger!TypeOK, Proved!Row, Ledger!Row,
         Proved!Statuses, Ledger!Statuses
    <2> QED BY <1>1, <2>1 DEF TypeOK
  <1> QED BY <1>2, <1>3, <1>4 DEF Init, PgInv, OneHolder, HoldsLock, SessionInv

LEMMA PgInvariant == Spec => []PgInv
  BY PgInit, PgStep, PTL DEF Spec

-----------------------------------------------------------------------------
(* Every session is idle, in a transaction or in an update, and the rows   *)
(* are rows.                                                               *)
THEOREM PostgresTypeOK == Spec => []TypeOK
  <1>1. PgInv => TypeOK
    BY DEF PgInv
  <1> QED BY <1>1, PgInvariant, PTL

(* What acquire has read of its feed stays true until it commits: no row   *)
(* that it would have to respect can appear behind its back.               *)
THEOREM PostgresReadsStayTrue == Spec => []ReadsStayTrue
  <1>1. ASSUME PgInv PROVE ReadsStayTrue
    <2> SUFFICES ASSUME NEW s \in Sessions, Inserting(s), NEW v \in DOMAIN View(s)
                 PROVE  /\ View(s)[v].status # "leased"
                        /\ View(s)[v].window = session[s].window
                              => View(s)[v].status # "confirmed"
      BY DEF ReadsStayTrue
    <2>1. InTx(s)
      BY DEF Inserting, InTx, TxSteps
    <2>2. TxInv(session[s], OwnRows(s), now) /\ DOMAIN View(s) = DOMAIN OwnRows(s)
          /\ OwnRows(s) \in Seq(Ledger!Row) /\ session[s].feed \in Feeds
      BY <1>1, <2>1, ViewOfRows
    <2>3. AllSwept(session[s], OwnRows(s))
          /\ ~Ledger!AlreadyConfirmed(OwnRows(s), session[s].window)
      BY <2>2 DEF Inserting, TxInv, ReadsOnly, FoundConfirmed, Inserted
    <2>4. View(s)[v].status # "leased"
      <3>1. CASE v \in session[s].swept
        <4>1. View(s)[v].status = "expired"
          BY <1>1, <2>1, <2>2, <3>1, ViewOfRows, Zenon
        <4> QED BY <4>1
      <3>2. CASE v \notin session[s].swept
        <4>1. View(s)[v] = OwnRows(s)[v]
          BY <1>1, <2>1, <2>2, <3>2, ViewOfRows, Zenon
        <4> QED BY <2>2, <2>3, <3>2, <4>1 DEF AllSwept, LeasedIn
      <3> QED BY <3>1, <3>2
    <2>5. ASSUME View(s)[v].window = session[s].window, View(s)[v].status = "confirmed"
          PROVE  FALSE
      <3>1. v \in DOMAIN OwnRows(s) /\ OwnRows(s)[v].window = session[s].window
        BY <1>1, <2>1, <2>2, <2>5, ViewOfRows, Zenon
      <3>2. OwnRows(s)[v].status = "confirmed"
        <4>1. v \notin session[s].swept
          <5>1. v \in session[s].swept => View(s)[v].status = "expired"
            BY <1>1, <2>1, <2>2, ViewOfRows, Zenon
          <5> QED BY <2>5, <5>1
        <4>2. View(s)[v] = OwnRows(s)[v]
          BY <1>1, <2>1, <2>2, <4>1, ViewOfRows, Zenon
        <4> QED BY <2>5, <4>2
      <3>3. \A u \in DOMAIN OwnRows(s) : OwnRows(s)[u].window = session[s].window => u <= v
        <4>1. Proved!ConfirmedIsFinal
          BY <1>1 DEF PgInv, Proved!LedgerInv, Proved!Safety
        <4>2. \A u \in DOMAIN OwnRows(s) :
                 ~(v < u /\ OwnRows(s)[u].window = session[s].window)
          BY <2>2, <3>1, <3>2, <4>1 DEF Proved!ConfirmedIsFinal, OwnRows
        <4>3. v \in Nat /\ DOMAIN OwnRows(s) \subseteq Nat
          BY <2>2, <3>1
        <4> QED BY <4>2, <4>3
      <3> QED BY <2>3, <3>1, <3>2, <3>3 DEF Ledger!AlreadyConfirmed, Ledger!IsLatest
    <2> QED BY <2>4, <2>5
  <1> QED BY <1>1, PgInvariant, PTL

(* For every number of connections, feeds and windows, the transactions    *)
(* and updates look to their callers like the atomic operations of the     *)
(* ledger, whatever the interleaving of their statements.                  *)
THEOREM PostgresImplementsLedger == Spec => ImplementsLedger
  <1>1. Init => Ledger!Init
    BY DEF Init
  <1>2. PgInv /\ [Next]_vars => [Ledger!Next]_Ledger!ledgerVars
    BY StepIsLedgerStep
  <1> QED BY <1>1, <1>2, PgInvariant, PTL DEF Spec, ImplementsLedger, Ledger!Spec
=============================================================================
