------------------------- MODULE LeaseLedger_Proofs -------------------------
(***************************************************************************)
(* Type correctness and the safety invariants of the lease table, for      *)
(* every number of feeds, windows and rows, every lease duration and every *)
(* statement timeout.  Safety is inductive together with TypeOK; the proof *)
(* works on the rows of one feed at a time (RowsInv).                      *)
(***************************************************************************)
EXTENDS LeaseLedger, SequenceTheorems, NaturalsInduction, WellFoundedInduction, TLAPS

(* Safety of the rows of one feed.                                         *)
RowsInv(rows) ==
    /\ \A v \in 1..Len(rows) : rows[v].status = "leased" => v = Len(rows)
    /\ \A u, v \in 1..Len(rows) :
          u < v /\ rows[u].window = rows[v].window
              => rows[u].status # "confirmed" /\ rows[u].attempt < rows[v].attempt
    /\ \A v \in 1..Len(rows) : rows[v].expires <= now + LeaseMs

-----------------------------------------------------------------------------
(* The invariants speak about every feed's rows separately.                *)
LEMMA SafetyByFeed ==
    TypeOK => (Safety <=> \A f \in Feeds : RowsInv(leases[f]))
<1> SUFFICES ASSUME TypeOK PROVE Safety <=> \A f \in Feeds : RowsInv(leases[f])
    OBVIOUS
<1>1. \A f \in Feeds : DOMAIN leases[f] = 1..Len(leases[f])
    BY LenProperties DEF TypeOK
<1>2. QED
    BY <1>1 DEF Safety, OneLeasePerFeed, ConfirmedIsFinal, AttemptsIncrease,
                ExpiryIsBounded, RowsInv, Leased

(* The same of the next state.                                             *)
LEMMA SafetyByFeedNext ==
    TypeOK' => (Safety' <=> (\A f \in Feeds : RowsInv(leases[f]))')
<1>1. QED
    BY SafetyByFeed, PTL

(* A sweep changes only the status of rows, and leaves none that is        *)
(* expired leased.                                                         *)
LEMMA SweptRows ==
    ASSUME NEW rows \in Seq(Row), now \in Nat
    PROVE  /\ Swept(rows) \in Seq(Row)
           /\ Len(Swept(rows)) = Len(rows)
           /\ \A v \in 1..Len(rows) :
                 /\ Swept(rows)[v].window = rows[v].window
                 /\ Swept(rows)[v].attempt = rows[v].attempt
                 /\ Swept(rows)[v].expires = rows[v].expires
                 /\ Swept(rows)[v].status =
                       IF rows[v].status = "leased" /\ rows[v].expires <= now
                       THEN "expired" ELSE rows[v].status
<1>1. DOMAIN rows = 1..Len(rows) /\ Len(rows) \in Nat /\ \A v \in 1..Len(rows) : rows[v] \in Row
    BY LenProperties, ElementOfSeq
<1>2. DOMAIN Swept(rows) = 1..Len(rows)
    BY <1>1 DEF Swept
<1>3. \A v \in 1..Len(rows) :
        /\ Swept(rows)[v] \in Row
        /\ Swept(rows)[v].window = rows[v].window
        /\ Swept(rows)[v].attempt = rows[v].attempt
        /\ Swept(rows)[v].expires = rows[v].expires
        /\ Swept(rows)[v].status =
              IF rows[v].status = "leased" /\ rows[v].expires <= now
              THEN "expired" ELSE rows[v].status
    BY <1>1 DEF Swept, Row, Statuses
<1>4. Swept(rows) \in [1..Len(rows) -> Row]
    BY <1>1, <1>2, <1>3 DEF Swept
<1>5. Swept(rows) \in Seq(Row)
    BY <1>1, <1>4
<1>6. Len(Swept(rows)) = Len(rows)
    BY <1>1, <1>2, <1>5, LenProperties
<1>7. QED
    BY <1>3, <1>5, <1>6

(* Sweeping keeps a feed's rows safe.                                      *)
LEMMA SweptInv ==
    ASSUME NEW rows \in Seq(Row), now \in Nat, RowsInv(rows)
    PROVE  RowsInv(Swept(rows))
<1>1. /\ Len(Swept(rows)) = Len(rows)
      /\ \A v \in 1..Len(rows) :
            /\ Swept(rows)[v].window = rows[v].window
            /\ Swept(rows)[v].attempt = rows[v].attempt
            /\ Swept(rows)[v].expires = rows[v].expires
            /\ Swept(rows)[v].status \in {"leased", "confirmed"}
                  => Swept(rows)[v].status = rows[v].status
    BY SweptRows
<1>2. QED
    BY <1>1 DEF RowsInv

(* If a window has a row, it has a newest one.                             *)
LEMMA LatestExists ==
    ASSUME NEW rows \in Seq(Row), NEW w,
           NEW u \in 1..Len(rows), rows[u].window = w
    PROVE  \E v \in 1..Len(rows) : IsLatest(rows, w, v)
<1> DEFINE T == {n \in Nat : n <= Len(rows) /\ Len(rows) - n \in 1..Len(rows)
                                            /\ rows[Len(rows) - n].window = w}
<1>1. Len(rows) \in Nat /\ DOMAIN rows = 1..Len(rows)
    BY LenProperties
<1>2. Len(rows) - u \in T
    BY <1>1
<1> DEFINE R == {ss \in Nat \X Nat : ss[1] < ss[2]}
<1>3. PICK n \in T : \A m \in T : ~(<<m, n>> \in R)
    <2>1. T \subseteq Nat /\ T # {}
        BY <1>2
    <2>2. IsWellFoundedOn(R, Nat)
        BY NatLessThanWellFounded DEF OpToRel
    <2> HIDE DEF T, R
    <2>3. QED
        BY <2>1, <2>2, WFMin
<1>4. \A m \in T : n <= m
    <2>1. T \subseteq Nat
        OBVIOUS
    <2>2. \A i, j \in Nat : i < j => <<i, j>> \in R
        OBVIOUS
    <2> HIDE DEF T, R
    <2>3. SUFFICES ASSUME NEW m \in T PROVE n <= m
        OBVIOUS
    <2>4. m \in Nat /\ n \in Nat
        BY <2>1
    <2>5. ~(m < n)
        BY <1>3, <2>2, <2>4
    <2>6. QED
        BY <2>4, <2>5
<1>5. ASSUME NEW x \in 1..Len(rows), rows[x].window = w
      PROVE  x <= Len(rows) - n
    <2>1. Len(rows) - x \in T
        BY <1>1, <1>5
    <2>2. QED
        BY <1>1, <1>4, <2>1
<1>6. Len(rows) - n \in 1..Len(rows) /\ rows[Len(rows) - n].window = w
    BY <1>3
<1> HIDE DEF T
<1>7. QED
    BY <1>5, <1>6 DEF IsLatest

(* attemptCount is a positive number and continues from the newest row of  *)
(* the window.                                                             *)
LEMMA NextAttemptType ==
    ASSUME NEW rows \in Seq(Row), NEW w
    PROVE  /\ NextAttempt(rows, w) \in Nat \ {0}
           /\ \A v \in 1..Len(rows) :
                 IsLatest(rows, w, v) => NextAttempt(rows, w) = rows[v].attempt + 1
<1>1. DOMAIN rows = 1..Len(rows) /\ Len(rows) \in Nat
    BY LenProperties
<1>2. \A v \in 1..Len(rows) : rows[v].attempt \in Nat \ {0}
    <2>1. \A v \in 1..Len(rows) : rows[v] \in Row
        BY ElementOfSeq
    <2>2. QED
        BY <2>1 DEF Row
<1>3. CASE \E v \in DOMAIN rows : rows[v].window = w
    <2> DEFINE l == CHOOSE v \in DOMAIN rows : IsLatest(rows, w, v)
    <2>1. l \in 1..Len(rows) /\ IsLatest(rows, w, l)
        BY <1>1, <1>3, LatestExists
    <2>2. \A v \in 1..Len(rows) : IsLatest(rows, w, v) => v = l
        BY <1>1, <2>1 DEF IsLatest
    <2>3. NextAttempt(rows, w) = rows[l].attempt + 1
        BY <1>3 DEF NextAttempt
    <2> HIDE DEF l
    <2>4. QED
        BY <1>2, <2>1, <2>2, <2>3
<1>4. CASE ~\E v \in DOMAIN rows : rows[v].window = w
    BY <1>1, <1>4 DEF NextAttempt, IsLatest
<1>5. QED
    BY <1>3, <1>4

(* A granted claim keeps a feed's rows safe: the sweep has ended every     *)
(* older lease, and the window's newest row tells that none is confirmed.  *)
LEMMA GrantedInv ==
    ASSUME NEW f \in Feeds, NEW w \in Windows, NEW at \in Nat, at <= now,
           TypeOK, RowsInv(leases[f]), ~LeaseActive(f), ~AlreadyConfirmed(leases[f], w)
    PROVE  /\ Append(Swept(leases[f]), NewRow(f, w, at)) \in Seq(Row)
           /\ RowsInv(Append(Swept(leases[f]), NewRow(f, w, at)))
<1> DEFINE rows == leases[f]
           new == NewRow(f, w, at)
           all == Append(Swept(rows), new)
<1>1. rows \in Seq(Row) /\ now \in Nat /\ LeaseMs \in Nat
    BY LedgerAssumption DEF TypeOK
<1>2. Len(rows) \in Nat /\ DOMAIN rows = 1..Len(rows) /\ \A v \in 1..Len(rows) : rows[v] \in Row
    BY <1>1, LenProperties, ElementOfSeq
<1>3. new \in Row /\ new.window = w /\ new.attempt = NextAttempt(rows, w)
        /\ new.expires = at + LeaseMs /\ new.status = "leased"
    <2>1. NextAttempt(rows, w) \in Nat \ {0}
        BY <1>1, NextAttemptType
    <2>2. QED
        BY <1>1, <2>1 DEF NewRow, Row, Statuses
<1>4. /\ Swept(rows) \in Seq(Row)
      /\ Len(Swept(rows)) = Len(rows)
      /\ \A v \in 1..Len(rows) :
            /\ Swept(rows)[v].window = rows[v].window
            /\ Swept(rows)[v].attempt = rows[v].attempt
            /\ Swept(rows)[v].expires = rows[v].expires
            /\ Swept(rows)[v].status # "leased"
            /\ Swept(rows)[v].status = "confirmed" => rows[v].status = "confirmed"
    <2>1. \A v \in 1..Len(rows) : rows[v].status = "leased" => rows[v].expires <= now
        BY <1>1, <1>2 DEF LeaseActive, Owned, Leased, Row
    <2>2. QED
        BY <1>1, <2>1, SweptRows
<1> HIDE DEF new
<1>5. /\ all \in Seq(Row)
      /\ Len(all) = Len(rows) + 1
      /\ all[Len(rows) + 1] = new
      /\ \A v \in 1..Len(rows) : all[v] = Swept(rows)[v]
    BY <1>2, <1>3, <1>4, AppendProperties
<1>6. \A u \in 1..Len(rows) : rows[u].window = w
        => rows[u].status # "confirmed" /\ rows[u].attempt < NextAttempt(rows, w)
    <2>1. SUFFICES ASSUME NEW u \in 1..Len(rows), rows[u].window = w
                   PROVE  rows[u].status # "confirmed"
                            /\ rows[u].attempt < NextAttempt(rows, w)
        OBVIOUS
    <2>2. PICK l \in 1..Len(rows) : IsLatest(rows, w, l)
        BY <1>1, <2>1, LatestExists
    <2>3. rows[l].window = w /\ u <= l /\ rows[l].status # "confirmed"
        BY <1>2, <2>1, <2>2 DEF IsLatest, AlreadyConfirmed
    <2>4. NextAttempt(rows, w) = rows[l].attempt + 1
        BY <1>1, <2>2, NextAttemptType
    <2>5. rows[u].attempt \in Nat /\ rows[l].attempt \in Nat
        BY <1>2 DEF Row
    <2>6. CASE u = l
        BY <2>3, <2>4, <2>5, <2>6
    <2>7. CASE u < l
        <3>1. rows[u].status # "confirmed" /\ rows[u].attempt < rows[l].attempt
            BY <2>1, <2>3, <2>7 DEF RowsInv
        <3>2. QED
            BY <2>4, <2>5, <3>1
    <2>8. QED
        BY <1>2, <2>3, <2>6, <2>7
<1> HIDE DEF all
<1>7. ASSUME NEW v \in 1..Len(all), v # Len(all)
      PROVE  all[v].status # "leased"
    <2>1. v \in 1..Len(rows)
        BY <1>2, <1>5, <1>7
    <2>2. all[v] = Swept(rows)[v]
        BY <1>5, <2>1
    <2>3. QED
        BY <1>4, <2>1, <2>2
<1>8. ASSUME NEW u \in 1..Len(all), NEW v \in 1..Len(all), u < v,
             all[u].window = all[v].window
      PROVE  all[u].status # "confirmed" /\ all[u].attempt < all[v].attempt
    <2>1. u \in 1..Len(rows)
        BY <1>2, <1>5, <1>8
    <2>2. CASE v = Len(rows) + 1
        <3>1. all[v] = new /\ all[u] = Swept(rows)[u]
            BY <1>5, <2>1, <2>2
        <3>2. rows[u].window = w
            BY <1>3, <1>4, <1>8, <2>1, <3>1
        <3>3. rows[u].status # "confirmed" /\ rows[u].attempt < NextAttempt(rows, w)
            BY <1>6, <2>1, <3>2
        <3>4. QED
            BY <1>3, <1>4, <2>1, <3>1, <3>3
    <2>3. CASE v \in 1..Len(rows)
        <3>1. rows[u].window = rows[v].window
            BY <1>4, <1>5, <1>8, <2>1, <2>3
        <3>2. rows[u].status # "confirmed" /\ rows[u].attempt < rows[v].attempt
            BY <1>8, <2>1, <2>3, <3>1 DEF RowsInv
        <3>3. QED
            BY <1>4, <1>5, <2>1, <2>3, <3>2
    <2>4. QED
        BY <1>2, <1>5, <2>2, <2>3
<1>9. \A v \in 1..Len(all) : all[v].expires <= now + LeaseMs
    <2>1. \A v \in 1..Len(rows) : rows[v].expires <= now + LeaseMs
        BY DEF RowsInv
    <2>2. at + LeaseMs <= now + LeaseMs
        BY <1>1
    <2>3. QED
        BY <1>2, <1>3, <1>4, <1>5, <2>1, <2>2
<1>10. QED
    BY <1>5, <1>7, <1>8, <1>9 DEF RowsInv, all, new

(* A renewal of a row that is still leased keeps a feed's rows safe.       *)
LEMMA RenewInv ==
    ASSUME NEW f \in Feeds, NEW v, NEW at \in Nat, at <= now,
           TypeOK, RowsInv(leases[f]), Owned(f, v, at)
    PROVE  LET rows == [leases[f] EXCEPT ![v].expires = at + LeaseMs]
           IN  rows \in Seq(Row) /\ RowsInv(rows)
<1> DEFINE old == leases[f]
           row == [old[v] EXCEPT !.expires = at + LeaseMs]
           rows == [old EXCEPT ![v] = row]
<1>1. old \in Seq(Row) /\ now \in Nat /\ LeaseMs \in Nat
    BY LedgerAssumption DEF TypeOK
<1>2. Len(old) \in Nat /\ DOMAIN old = 1..Len(old) /\ \A u \in 1..Len(old) : old[u] \in Row
    BY <1>1, LenProperties, ElementOfSeq
<1>3. v \in 1..Len(old) /\ old[v].status = "leased"
    BY <1>2 DEF Owned, Leased
<1>4. row \in Row /\ row.window = old[v].window /\ row.attempt = old[v].attempt
        /\ row.status = "leased" /\ row.expires = at + LeaseMs
    <2>1. at + LeaseMs \in Nat /\ old[v] \in Row /\ old[v].status = "leased"
        BY <1>1, <1>2, <1>3
    <2>2. QED
        BY <2>1 DEF Row
<1> HIDE DEF row
<1>5. /\ rows \in Seq(Row)
      /\ Len(rows) = Len(old)
      /\ \A u \in 1..Len(old) : rows[u] = IF u = v THEN row ELSE old[u]
    BY <1>1, <1>3, <1>4, ExceptSeq
<1> HIDE DEF rows
<1>6. at + LeaseMs <= now + LeaseMs
    BY <1>1
<1>7. RowsInv(rows)
    BY <1>3, <1>4, <1>5, <1>6 DEF RowsInv
<1>8. QED
    BY <1>5, <1>7 DEF rows, row

(* So does a release, a confirmation or a failure: the row that stops      *)
(* being leased is the feed's newest one, so that no later row of its      *)
(* window is there to contradict a confirmation.                           *)
LEMMA FinishInv ==
    ASSUME NEW f \in Feeds, NEW v, NEW at \in Nat, NEW status \in Statuses \ {"leased"},
           TypeOK, RowsInv(leases[f]), Owned(f, v, at)
    PROVE  LET rows == [leases[f] EXCEPT ![v].status = status]
           IN  rows \in Seq(Row) /\ RowsInv(rows)
<1> DEFINE old == leases[f]
           row == [old[v] EXCEPT !.status = status]
           rows == [old EXCEPT ![v] = row]
<1>1. old \in Seq(Row)
    BY DEF TypeOK
<1>2. Len(old) \in Nat /\ DOMAIN old = 1..Len(old) /\ \A u \in 1..Len(old) : old[u] \in Row
    BY <1>1, LenProperties, ElementOfSeq
<1>3. v \in 1..Len(old) /\ v = Len(old)
    BY <1>2 DEF Owned, Leased, RowsInv
<1>4. row \in Row /\ row.window = old[v].window /\ row.attempt = old[v].attempt
        /\ row.status # "leased" /\ row.expires = old[v].expires
    BY <1>2, <1>3 DEF Row
<1> HIDE DEF row
<1>5. /\ rows \in Seq(Row)
      /\ Len(rows) = Len(old)
      /\ \A u \in 1..Len(old) : rows[u] = IF u = v THEN row ELSE old[u]
    BY <1>1, <1>3, <1>4, ExceptSeq
<1> HIDE DEF rows
<1>6. RowsInv(rows)
    <2>1. \A u \in 1..Len(old) :
            /\ rows[u].window = old[u].window /\ rows[u].attempt = old[u].attempt
            /\ rows[u].expires = old[u].expires
            /\ u < v => rows[u].status = old[u].status
            /\ u = v => rows[u].status # "leased"
        BY <1>4, <1>5
    <2>2. \A u \in 1..Len(old) : u < v \/ u = v
        BY <1>2, <1>3
    <2>3. QED
        BY <1>2, <1>3, <1>5, <2>1, <2>2 DEF RowsInv
<1>7. QED
    BY <1>5, <1>6 DEF rows, row

-----------------------------------------------------------------------------
(* The inductive invariant: the four safety properties need one another.   *)
LedgerInv == TypeOK /\ Safety

(* Replacing one feed's rows by safe ones keeps the table safe.            *)
LEMMA OneFeedChanges ==
    ASSUME LedgerInv, NEW f \in Feeds, NEW rows \in Seq(Row), RowsInv(rows),
           leases' = [leases EXCEPT ![f] = rows], now' = now
    PROVE  LedgerInv'
<1>1. TypeOK'
    BY DEF LedgerInv, TypeOK
<1>2. \A g \in Feeds : RowsInv(leases[g])
    BY SafetyByFeed DEF LedgerInv
<1>3. \A g \in Feeds : leases'[g] = IF g = f THEN rows ELSE leases[g]
    BY DEF LedgerInv, TypeOK
<1>4. ASSUME NEW g \in Feeds PROVE RowsInv(leases[g])'
    BY <1>2, <1>3 DEF RowsInv
<1>5. Safety'
    BY <1>1, <1>4, SafetyByFeedNext
<1>6. QED
    BY <1>1, <1>5 DEF LedgerInv

(* Every operation of the lease store, and the passing of time, preserves  *)
(* the invariant.                                                          *)
LEMMA LedgerStep ==
    LedgerInv /\ [Next]_ledgerVars => LedgerInv'
<1> SUFFICES ASSUME LedgerInv, [Next]_ledgerVars PROVE LedgerInv'
    OBVIOUS
<1>0. TypeOK /\ now \in Nat /\ \A f \in Feeds : RowsInv(leases[f]) /\ leases[f] \in Seq(Row)
    BY SafetyByFeed DEF LedgerInv, TypeOK
<1>1. CASE Tick
    <2>1. now' = now + 1 /\ leases' = leases /\ TypeOK' /\ LeaseMs \in Nat
        BY <1>0, <1>1, LedgerAssumption DEF Tick, TypeOK
    <2>2. ASSUME NEW f \in Feeds PROVE RowsInv(leases[f])'
        <3>1. \A v \in 1..Len(leases[f]) : leases[f][v].expires \in Nat
            <4>1. \A v \in 1..Len(leases[f]) : leases[f][v] \in Row
                BY <1>0, ElementOfSeq
            <4>2. QED
                BY <4>1 DEF Row
        <3>2. \A v \in 1..Len(leases[f]) : leases[f][v].expires <= (now + 1) + LeaseMs
            BY <1>0, <2>1, <3>1 DEF RowsInv
        <3>3. QED
            BY <1>0, <2>1, <3>2 DEF RowsInv
    <2>3. QED
        BY <2>1, <2>2, SafetyByFeedNext DEF LedgerInv
<1>2. ASSUME NEW f \in Feeds, NEW w \in Windows, Acquire(f, w)
      PROVE  LedgerInv'
    <2>1. CASE AcquireActive(f, w)
        BY <1>2, <2>1 DEF AcquireActive, Acquire, LedgerInv, TypeOK, Safety, OneLeasePerFeed,
                          ConfirmedIsFinal, AttemptsIncrease, ExpiryIsBounded, Leased
    <2>2. CASE AcquireConfirmed(f, w)
        <3>1. Swept(leases[f]) \in Seq(Row) /\ RowsInv(Swept(leases[f]))
            BY <1>0, SweptRows, SweptInv
        <3>2. leases' = [leases EXCEPT ![f] = Swept(leases[f])] /\ now' = now
            BY <1>2, <2>2 DEF AcquireConfirmed, Acquire
        <3>3. QED
            BY <3>1, <3>2, OneFeedChanges
    <2>3. ASSUME NEW at \in StatementTimes, AcquireGranted(f, w, at)
          PROVE  LedgerInv'
        <3> DEFINE rows == Append(Swept(leases[f]), NewRow(f, w, at))
        <3>1. at \in Nat /\ at <= now
            BY <1>0 DEF StatementTimes
        <3>2. rows \in Seq(Row) /\ RowsInv(rows)
            BY <1>0, <2>3, <3>1, GrantedInv DEF AcquireGranted
        <3>3. leases' = [leases EXCEPT ![f] = rows] /\ now' = now
            BY <1>2, <2>3 DEF AcquireGranted, Acquire
        <3> HIDE DEF rows
        <3>4. QED
            BY <3>2, <3>3, OneFeedChanges
    <2>4. QED
        BY <1>2, <2>1, <2>2, <2>3 DEF Acquire
<1>3. ASSUME NEW f \in Feeds, NEW v \in DOMAIN leases[f], Update(f, v)
      PROVE  LedgerInv'
    <2>1. PICK at \in StatementTimes :
              \/ Renew(f, v, at)
              \/ Release(f, v, at)
              \/ MarkConfirmed(f, v, at)
              \/ MarkFailed(f, v, at)
        BY <1>3 DEF Update
    <2>2. at \in Nat /\ at <= now /\ now' = now
        BY <1>0, <1>3 DEF StatementTimes, Update
    <2>3. CASE Renew(f, v, at)
        <3> DEFINE rows == [leases[f] EXCEPT ![v].expires = at + LeaseMs]
        <3>1. rows \in Seq(Row) /\ RowsInv(rows)
            BY <1>0, <2>2, <2>3, RenewInv DEF Renew
        <3>2. leases' = [leases EXCEPT ![f] = rows]
            BY <2>3 DEF Renew
        <3> HIDE DEF rows
        <3>3. QED
            BY <2>2, <3>1, <3>2, OneFeedChanges
    <2>4. ASSUME NEW status \in Statuses \ {"leased"}, Finish(f, v, at, status)
          PROVE  LedgerInv'
        <3> DEFINE rows == [leases[f] EXCEPT ![v].status = status]
        <3>1. rows \in Seq(Row) /\ RowsInv(rows)
            BY <1>0, <2>2, <2>4, FinishInv DEF Finish
        <3>2. leases' = [leases EXCEPT ![f] = rows]
            BY <2>4 DEF Finish
        <3> HIDE DEF rows
        <3>3. QED
            BY <2>2, <3>1, <3>2, OneFeedChanges
    <2>5. QED
        BY <2>1, <2>3, <2>4 DEF Release, MarkConfirmed, MarkFailed, Statuses
<1>4. CASE UNCHANGED ledgerVars
    BY <1>4 DEF ledgerVars, LedgerInv, TypeOK, Safety, OneLeasePerFeed, ConfirmedIsFinal,
                AttemptsIncrease, ExpiryIsBounded, Leased
<1>5. QED
    BY <1>1, <1>2, <1>3, <1>4 DEF Next

(* The empty table is safe.                                                *)
LEMMA LedgerInit ==
    Init => LedgerInv
<1> SUFFICES ASSUME Init PROVE LedgerInv
    OBVIOUS
<1>1. TypeOK
    BY EmptySeq DEF Init, TypeOK
<1>2. \A f \in Feeds : leases[f] = <<>> /\ Len(leases[f]) = 0
    BY EmptySeq DEF Init
<1>3. \A f \in Feeds : RowsInv(leases[f])
    <2>1. SUFFICES ASSUME NEW f \in Feeds PROVE RowsInv(leases[f])
        OBVIOUS
    <2>2. Len(leases[f]) = 0
        BY <1>2
    <2>3. 1..Len(leases[f]) = {}
        BY <2>2
    <2>4. QED
        BY <2>3 DEF RowsInv
<1>4. QED
    BY <1>1, <1>3, SafetyByFeed DEF LedgerInv

(* The lease table is well typed and safe in every reachable state.        *)
THEOREM LedgerInvariant ==
    Spec => []LedgerInv
<1>1. QED
    BY LedgerInit, LedgerStep, PTL DEF Spec

(* Every reachable table is well typed.                                    *)
THEOREM LedgerTypeOK ==
    Spec => []TypeOK
<1>1. LedgerInv => TypeOK
    BY DEF LedgerInv
<1>2. QED
    BY <1>1, LedgerInvariant, PTL

(* A feed never has two leases at once, whoever claims it and whatever     *)
(* statement clocks the operations carry.                                  *)
THEOREM LedgerOneLeasePerFeed ==
    Spec => []OneLeasePerFeed
<1>1. LedgerInv => OneLeasePerFeed
    BY DEF LedgerInv, Safety
<1>2. QED
    BY <1>1, LedgerInvariant, PTL

(* A confirmed window is never claimed again.                              *)
THEOREM LedgerConfirmedIsFinal ==
    Spec => []ConfirmedIsFinal
<1>1. LedgerInv => ConfirmedIsFinal
    BY DEF LedgerInv, Safety
<1>2. QED
    BY <1>1, LedgerInvariant, PTL

(* Attempt numbers order the attempts on a window.                         *)
THEOREM LedgerAttemptsIncrease ==
    Spec => []AttemptsIncrease
<1>1. LedgerInv => AttemptsIncrease
    BY DEF LedgerInv, Safety
<1>2. QED
    BY <1>1, LedgerInvariant, PTL

(* Every lease, its owner alive or not, expires within one lease duration. *)
THEOREM LedgerExpiryIsBounded ==
    Spec => []ExpiryIsBounded
<1>1. LedgerInv => ExpiryIsBounded
    BY DEF LedgerInv, Safety
<1>2. QED
    BY <1>1, LedgerInvariant, PTL
-----------------------------------------------------------------------------
(* rows, the next ones of feed f, keep the rows of f whose lease has ended. *)
Keeps(f, rows) ==
    \A v \in DOMAIN leases[f] :
        ~Leased(f, v) => v \in DOMAIN rows /\ rows[v] = leases[f][v]

Frozen == \A f \in Feeds : Keeps(f, leases'[f])

(* Replacing one feed's rows by rows that keep the ended ones is enough.   *)
LEMMA OneFeedKeeps ==
    ASSUME TypeOK, NEW f \in Feeds, NEW rows, Keeps(f, rows),
           leases' = [leases EXCEPT ![f] = rows]
    PROVE  Frozen
<1>1. \A g \in Feeds : leases'[g] = IF g = f THEN rows ELSE leases[g]
    BY DEF TypeOK
<1>2. QED
    BY <1>1 DEF Frozen, Keeps

(* A sweep rewrites leased rows only, with or without a row appended.      *)
LEMMA SweepKeeps ==
    ASSUME TypeOK, NEW f \in Feeds
    PROVE  /\ Keeps(f, Swept(leases[f]))
           /\ \A row \in Row : Keeps(f, Append(Swept(leases[f]), row))
<1>1. leases[f] \in Seq(Row) /\ now \in Nat
    BY DEF TypeOK
<1>2. DOMAIN leases[f] = 1..Len(leases[f]) /\ Len(leases[f]) \in Nat
    BY <1>1, LenProperties
<1>3. Swept(leases[f]) \in Seq(Row) /\ Len(Swept(leases[f])) = Len(leases[f])
    BY <1>1, SweptRows
<1>4. DOMAIN Swept(leases[f]) = 1..Len(leases[f])
    BY <1>3, LenProperties
<1>5. \A v \in DOMAIN leases[f] : ~Leased(f, v) => Swept(leases[f])[v] = leases[f][v]
    BY DEF Swept, Leased
<1>6. ASSUME NEW row \in Row PROVE Keeps(f, Append(Swept(leases[f]), row))
    <2> DEFINE all == Append(Swept(leases[f]), row)
    <2>1. all \in Seq(Row) /\ Len(all) = Len(leases[f]) + 1
            /\ \A v \in 1..Len(leases[f]) : all[v] = Swept(leases[f])[v]
        BY <1>3, AppendProperties
    <2>2. DOMAIN all = 1..Len(leases[f]) + 1
        BY <2>1, LenProperties
    <2> HIDE DEF all
    <2>3. Keeps(f, all)
        BY <1>2, <1>5, <2>1, <2>2 DEF Keeps
    <2>4. QED
        BY <2>3 DEF all
<1>7. QED
    BY <1>2, <1>4, <1>5, <1>6 DEF Keeps

(* The fence lets an UPDATE write to a leased row only.                    *)
LEMMA UpdateKeeps ==
    ASSUME TypeOK, NEW f \in Feeds, NEW v, NEW at, NEW row, Owned(f, v, at)
    PROVE  Keeps(f, [leases[f] EXCEPT ![v] = row])
BY DEF Keeps, Owned, Leased

(* No step of the ledger touches a row whose lease has ended.              *)
LEMMA StepFreezes ==
    TypeOK /\ [Next]_ledgerVars => Frozen
<1> SUFFICES ASSUME TypeOK, [Next]_ledgerVars PROVE Frozen
    OBVIOUS
<1>1. CASE leases' = leases
    BY <1>1 DEF Frozen, Keeps
<1>2. ASSUME NEW f \in Feeds, NEW w \in Windows, Acquire(f, w)
      PROVE  Frozen
    <2>1. CASE AcquireActive(f, w)
        BY <1>1, <2>1 DEF AcquireActive
    <2>2. CASE AcquireConfirmed(f, w)
        BY <2>2, SweepKeeps, OneFeedKeeps DEF AcquireConfirmed
    <2>3. ASSUME NEW at \in StatementTimes, AcquireGranted(f, w, at)
          PROVE  Frozen
        <3>1. NextAttempt(leases[f], w) \in Nat \ {0}
            BY NextAttemptType DEF TypeOK
        <3>2. NewRow(f, w, at) \in Row
            BY <3>1, LedgerAssumption DEF NewRow, Row, Statuses, StatementTimes, TypeOK
        <3>3. Keeps(f, Append(Swept(leases[f]), NewRow(f, w, at)))
            BY <3>2, SweepKeeps
        <3>4. QED
            BY <2>3, <3>3, OneFeedKeeps DEF AcquireGranted
    <2>4. QED
        BY <1>2, <2>1, <2>2, <2>3 DEF Acquire
<1>3. ASSUME NEW f \in Feeds, NEW v \in DOMAIN leases[f], Update(f, v)
      PROVE  Frozen
    <2>1. PICK at \in StatementTimes :
              \/ Renew(f, v, at)
              \/ Release(f, v, at)
              \/ MarkConfirmed(f, v, at)
              \/ MarkFailed(f, v, at)
        BY <1>3 DEF Update
    <2>2. PICK row : Owned(f, v, at)
                       /\ leases' = [leases EXCEPT ![f] = [leases[f] EXCEPT ![v] = row]]
        BY <2>1 DEF Renew, Release, MarkConfirmed, MarkFailed, Finish
    <2>3. QED
        BY <2>2, UpdateKeeps, OneFeedKeeps
<1>4. QED
    BY <1>1, <1>2, <1>3 DEF Next, Tick, ledgerVars

(* The end of a lease is final: no late operation with its token and no    *)
(* sweep changes its row again.                                            *)
THEOREM LedgerEndedRowsFrozen ==
    Spec => EndedRowsFrozen
<1>1. TypeOK /\ [Next]_ledgerVars
        => [\A f \in Feeds : \A v \in DOMAIN leases[f] :
               ~Leased(f, v) => /\ v \in DOMAIN leases'[f]
                                /\ leases'[f][v] = leases[f][v]]_ledgerVars
    BY StepFreezes DEF Frozen, Keeps
<1>2. QED
    BY <1>1, LedgerTypeOK, PTL DEF Spec, EndedRowsFrozen
=============================================================================
