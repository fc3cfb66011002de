---------------------- MODULE InMemoryLeaseStore_Proofs ----------------------
(***************************************************************************)
(* The in-memory store implements the ledger of its keys.  A row of a key  *)
(* is one of the leases that were replaced, none of which is leased or     *)
(* confirmed any more, or the record, which comes last: so acquire, which  *)
(* looks at the record only, sees all that the ledger would look at.       *)
(***************************************************************************)
EXTENDS InMemoryLeaseStore, SequenceTheorems, TLAPS

OldRow(k) == [window : {k}, status : {"expired", "failed", "released"},
              expires : Nat, attempt : Nat \ {0}]

(* The rows of a key are fewer than the tokens that were given.            *)
Remembered ==
    \A k \in Keys :
        /\ replaced[k] \in Seq(OldRow(k))
        /\ HasRecord(k) => Len(replaced[k]) < records[k].token
        /\ ~HasRecord(k) => replaced[k] = <<>>

MemoryInv ==
    /\ TypeOK
    /\ \A k \in Keys : records[k] = NoRecord \/ records[k] \in Record
    /\ records = [k \in Keys |-> records[k]]
    /\ replaced = [k \in Keys |-> replaced[k]]
    /\ Remembered

NewestRow(k) ==
    [window |-> k, status |-> records[k].status,
     expires |-> records[k].expires, attempt |-> records[k].attempt]

Rows == [k \in Keys |-> RowsOf(k)]

-----------------------------------------------------------------------------
LEMMA MemoryInvInit == Init => MemoryInv
  <1> SUFFICES ASSUME Init PROVE MemoryInv
    OBVIOUS
  <1>1. \A k \in Keys : ~HasRecord(k) /\ records[k] = NoRecord /\ replaced[k] = <<>>
    BY DEF Init, HasRecord, NoRecord
  <1>2. TypeOK
    BY <1>1 DEF Init, TypeOK
  <1>3. \A k \in Keys : <<>> \in Seq(OldRow(k))
    OBVIOUS
  <1> QED BY <1>1, <1>2, <1>3 DEF Init, MemoryInv, Remembered

(* What acquire leaves of the lease it replaces.                           *)
LEMMA EndedIsOld ==
    ASSUME ParametersOK, MemoryInv, NEW k \in Keys, HasRecord(k),
           records[k].status # "confirmed"
    PROVE  Ended(k) \in OldRow(k)
  <1>1. records[k] \in Record
    BY DEF MemoryInv, NoRecord, HasRecord
  <1> QED BY <1>1 DEF Record, Ended, OldRow

LEMMA GrantedKeepsInv ==
    ASSUME ParametersOK, MemoryInv, NEW k \in Keys, AcquireGranted(k)
    PROVE  MemoryInv'
  <1> DEFINE new == [token |-> NextToken, status |-> "leased", expires |-> clock + LeaseMs,
                     attempt |-> IF HasRecord(k) THEN records[k].attempt + 1 ELSE 1]
             old == IF HasRecord(k) THEN Append(replaced[k], Ended(k)) ELSE replaced[k]
  <1>1. /\ tokenCounter \in Nat /\ tokenCounter' = tokenCounter + 1
        /\ clock \in Nat /\ clock' = clock /\ LeaseMs \in Nat
        /\ NextToken = tokenCounter + 1
    BY DEF AcquireGranted, MemoryInv, TypeOK, ParametersOK, NextToken
  <1>2. records' = [records EXCEPT ![k] = new] /\ replaced' = [replaced EXCEPT ![k] = old]
    BY DEF AcquireGranted
  <1>3. \A j \in Keys : records[j] = NoRecord \/ records[j] \in Record
    BY DEF MemoryInv
  <1>4. new \in Record' /\ new.token = tokenCounter + 1
    <2>1. HasRecord(k) => records[k].attempt \in Nat
      BY <1>3 DEF Record, NoRecord, HasRecord
    <2> QED BY <1>1, <2>1 DEF Record
  <1> HIDE DEF new, old
  <1>5. /\ records'[k] = new /\ replaced'[k] = old
        /\ \A j \in Keys \ {k} : records'[j] = records[j] /\ replaced'[j] = replaced[j]
        /\ records' = [j \in Keys |-> records'[j]] /\ replaced' = [j \in Keys |-> replaced'[j]]
        /\ DOMAIN records' = Keys /\ DOMAIN replaced' = Keys
    BY <1>2 DEF MemoryInv
  <1>6. Record \subseteq Record'
    BY <1>1 DEF Record
  <1>7. \A j \in Keys : HasRecord(j) => records[j].token \in 1..tokenCounter
    BY <1>3 DEF HasRecord, NoRecord, Record
  <1>8. HasRecord(k)' /\ \A j \in Keys \ {k} : HasRecord(j)' <=> HasRecord(j)
    BY <1>1, <1>4, <1>5 DEF HasRecord
  <1>9. ASSUME NEW i \in Keys, NEW j \in Keys, HasRecord(i)', records'[j].token = records'[i].token
        PROVE  i = j
    BY <1>1, <1>3, <1>4, <1>5, <1>7, <1>8, <1>9 DEF MemoryInv, TypeOK, HasRecord, NoRecord
  <1>10. \A j \in Keys : records'[j] = NoRecord \/ records'[j] \in Record'
    BY <1>3, <1>4, <1>5, <1>6
  <1>11. TypeOK'
    BY <1>1, <1>5, <1>9, <1>10 DEF TypeOK, HasRecord, NoRecord
  <1>12. old \in Seq(OldRow(k)) /\ Len(old) < tokenCounter + 1
    <2>1. CASE HasRecord(k)
      <3>1. Ended(k) \in OldRow(k)
        BY <2>1, EndedIsOld DEF AcquireGranted
      <3>2. replaced[k] \in Seq(OldRow(k)) /\ Len(replaced[k]) < records[k].token
        BY <2>1 DEF MemoryInv, Remembered
      <3> QED BY <1>1, <1>7, <2>1, <3>1, <3>2 DEF old
    <2>2. CASE ~HasRecord(k)
      BY <1>1, <2>2 DEF old, MemoryInv, Remembered
    <2> QED BY <2>1, <2>2
  <1>13. Remembered'
    <2>1. \A j \in Keys : OldRow(j)' = OldRow(j)
      BY DEF OldRow
    <2> QED BY <1>4, <1>5, <1>8, <1>12, <2>1 DEF MemoryInv, Remembered
  <1> QED BY <1>5, <1>10, <1>11, <1>13 DEF MemoryInv

(* A change of a record that keeps its token.                              *)
LEMMA UpdateKeepsInv ==
    ASSUME MemoryInv, NEW k \in Keys, HasRecord(k), NEW r \in Record,
           r.token = records[k].token,
           records' = [records EXCEPT ![k] = r],
           UNCHANGED <<tokenCounter, clock, replaced>>
    PROVE  MemoryInv'
  <1>1. /\ records'[k] = r /\ \A j \in Keys \ {k} : records'[j] = records[j]
        /\ records' = [j \in Keys |-> records'[j]] /\ DOMAIN records' = Keys
        /\ Record' = Record
    BY DEF MemoryInv, Record
  <1>2. \A j \in Keys : records'[j].token = records[j].token
    BY <1>1
  <1>3. \A j \in Keys : (HasRecord(j)' <=> HasRecord(j)) /\ OldRow(j)' = OldRow(j)
    BY <1>2 DEF HasRecord, OldRow
  <1>4. \A j \in Keys : records'[j] = NoRecord \/ records'[j] \in Record'
    BY <1>1 DEF MemoryInv
  <1>5. TypeOK'
    <2>1. \A i, j \in Keys : HasRecord(i)' /\ records'[i].token = records'[j].token => i = j
      BY <1>2, <1>3 DEF MemoryInv, TypeOK
    <2> QED BY <1>1, <1>3, <1>4, <2>1 DEF MemoryInv, TypeOK, HasRecord, NoRecord
  <1>6. Remembered'
    BY <1>2, <1>3 DEF MemoryInv, Remembered
  <1> QED BY <1>1, <1>4, <1>5, <1>6 DEF MemoryInv

LEMMA FoundRecord ==
    ASSUME MemoryInv, NEW token \in 1..tokenCounter, NEW k \in Keys,
           FindUnexpiredLeasedToken(token, k)
    PROVE  /\ HasRecord(k) /\ records[k] \in Record
           /\ records[k].status = "leased" /\ records[k].expires > clock
  <1>1. tokenCounter \in Nat
    BY DEF MemoryInv, TypeOK
  <1>2. HasRecord(k)
    BY <1>1 DEF FindUnexpiredLeasedToken, HasRecord
  <1> QED BY <1>2 DEF FindUnexpiredLeasedToken, Unexpired, MemoryInv, HasRecord, NoRecord

LEMMA RenewKeepsInv ==
    ASSUME ParametersOK, MemoryInv, NEW token \in 1..tokenCounter, Renew(token)
    PROVE  MemoryInv'
  <1>1. PICK k \in Keys :
            /\ FindUnexpiredLeasedToken(token, k)
            /\ records' = [records EXCEPT ![k].expires = clock + LeaseMs]
    BY DEF Renew
  <1> DEFINE r == [records[k] EXCEPT !.expires = clock + LeaseMs]
  <1>2. HasRecord(k) /\ records[k] \in Record
    BY <1>1, FoundRecord
  <1>3. clock + LeaseMs \in Nat
    BY DEF MemoryInv, TypeOK, ParametersOK
  <1>4. r \in Record /\ r.token = records[k].token
    BY <1>2, <1>3 DEF Record
  <1>5. records' = [records EXCEPT ![k] = r] /\ UNCHANGED <<tokenCounter, clock, replaced>>
    BY <1>1 DEF Renew
  <1> HIDE DEF r
  <1> QED BY <1>2, <1>4, <1>5, UpdateKeepsInv

LEMMA FinishKeepsInv ==
    ASSUME MemoryInv, NEW token \in 1..tokenCounter,
           NEW status \in {"released", "confirmed", "failed"}, Finish(token, status)
    PROVE  MemoryInv'
  <1>1. PICK k \in Keys :
            /\ FindUnexpiredLeasedToken(token, k)
            /\ records' = [records EXCEPT ![k].status = status]
    BY DEF Finish
  <1> DEFINE r == [records[k] EXCEPT !.status = status]
  <1>2. HasRecord(k) /\ records[k] \in Record
    BY <1>1, FoundRecord
  <1>3. r \in Record /\ r.token = records[k].token
    BY <1>2 DEF Record
  <1>4. records' = [records EXCEPT ![k] = r] /\ UNCHANGED <<tokenCounter, clock, replaced>>
    BY <1>1 DEF Finish
  <1> HIDE DEF r
  <1> QED BY <1>2, <1>3, <1>4, UpdateKeepsInv

LEMMA MemoryInvStep == ParametersOK /\ MemoryInv /\ [Next]_vars => MemoryInv'
  <1> SUFFICES ASSUME ParametersOK, MemoryInv, [Next]_vars PROVE MemoryInv'
    OBVIOUS
  <1>1. ASSUME UNCHANGED vars PROVE MemoryInv'
    BY <1>1 DEF vars, MemoryInv, TypeOK, Remembered, HasRecord, Record, OldRow
  <1>2. ASSUME ClockAdvances PROVE MemoryInv'
    <2>1. /\ UNCHANGED <<records, tokenCounter, replaced>>
          /\ clock' \in Nat
      BY <1>2 DEF ClockAdvances, MemoryInv, TypeOK
    <2>2. Record' = Record /\ \A k \in Keys : HasRecord(k)' = HasRecord(k)
      BY <2>1 DEF Record, HasRecord
    <2>3. TypeOK' /\ Remembered'
      BY <2>1, <2>2 DEF MemoryInv, TypeOK, Remembered, OldRow
    <2> QED BY <2>1, <2>2, <2>3 DEF MemoryInv
  <1>3. ASSUME Operation PROVE MemoryInv'
    <2>1. ASSUME NEW k \in Keys, AcquireRefused(k) PROVE MemoryInv'
      BY <1>1, <2>1 DEF AcquireRefused
    <2>2. ASSUME NEW token \in 1..tokenCounter, OwnershipLost(token) PROVE MemoryInv'
      BY <1>1, <2>2 DEF OwnershipLost
    <2> QED BY <1>3, <2>1, <2>2, GrantedKeepsInv, RenewKeepsInv, FinishKeepsInv DEF Operation
  <1> QED BY <1>1, <1>2, <1>3 DEF Next

-----------------------------------------------------------------------------
(* The rows of a key that has a record: the old ones, then the record.     *)
LEMMA RowsShape ==
    ASSUME MemoryInv, NEW k \in Keys, HasRecord(k)
    PROVE  /\ Rows[k] = Append(replaced[k], NewestRow(k))
           /\ replaced[k] \in Seq(OldRow(k)) /\ Len(replaced[k]) \in Nat
           /\ Len(Rows[k]) = Len(replaced[k]) + 1
           /\ DOMAIN Rows[k] = 1..(Len(replaced[k]) + 1)
           /\ Rows[k][Len(replaced[k]) + 1] = NewestRow(k)
           /\ \A v \in 1..Len(replaced[k]) :
                 Rows[k][v] = replaced[k][v] /\ replaced[k][v] \in OldRow(k)
  <1>1. Rows[k] = Append(replaced[k], NewestRow(k)) /\ replaced[k] \in Seq(OldRow(k))
    BY DEF Rows, RowsOf, NewestRow, MemoryInv, Remembered
  <1> QED BY <1>1

LEMMA RowsParts ==
    ASSUME MemoryInv, NEW k \in Keys, HasRecord(k), NEW n, n = Len(replaced[k])
    PROVE  /\ n \in Nat /\ DOMAIN Rows[k] = 1..(n + 1)
           /\ Rows[k][n + 1] = NewestRow(k)
           /\ \A v \in 1..n : /\ Rows[k][v].window = k
                              /\ Rows[k][v].status \in {"expired", "failed", "released"}
  <1>1. \A v \in 1..n : Rows[k][v] \in OldRow(k)
    BY RowsShape
  <1>2. \A r \in OldRow(k) : r.window = k /\ r.status \in {"expired", "failed", "released"}
    BY DEF OldRow
  <1>3. n \in Nat /\ DOMAIN Rows[k] = 1..(n + 1) /\ Rows[k][n + 1] = NewestRow(k)
    BY RowsShape
  <1> QED BY <1>1, <1>2, <1>3

LEMMA NoRowsWithoutRecord ==
    ASSUME NEW k \in Keys, ~HasRecord(k)
    PROVE  Rows[k] = <<>>
  BY DEF Rows, RowsOf

LEMMA ClockIsStatementTime ==
    ASSUME MemoryInv
    PROVE  clock \in Ledger!StatementTimes
  BY DEF Ledger!StatementTimes, MemoryInv, TypeOK

(* A lease that is not unexpired is none for the ledger, and a record that *)
(* is not confirmed hides no confirmation.                                 *)
LEMMA AcquireSeesAll ==
    ASSUME ParametersOK, MemoryInv, NEW k \in Keys,
           HasRecord(k) => records[k].status # "confirmed" /\ ~Unexpired(k)
    PROVE  /\ ~Ledger!LeaseActive(k)
           /\ ~Ledger!AlreadyConfirmed(Rows[k], k)
  <1>1. CASE ~HasRecord(k)
    <2>1. Rows[k] = <<>>
      BY <1>1, NoRowsWithoutRecord
    <2> QED BY <2>1 DEF Rows, Ledger!LeaseActive, Ledger!Owned, Ledger!Leased,
                        Ledger!AlreadyConfirmed, Ledger!IsLatest
  <1>2. CASE HasRecord(k)
    <2>1. \A v \in DOMAIN Rows[k] :
             /\ Rows[k][v].status # "confirmed"
             /\ ~(Rows[k][v].status = "leased" /\ Rows[k][v].expires > clock)
      <3>1. PICK n : n = Len(replaced[k])
        OBVIOUS
      <3>2. /\ n \in Nat /\ DOMAIN Rows[k] = 1..(n + 1)
            /\ Rows[k][n + 1] = NewestRow(k)
            /\ \A v \in 1..n : Rows[k][v].status \in {"expired", "failed", "released"}
        BY <1>2, <3>1, RowsParts
      <3>3. /\ Rows[k][n + 1].status # "confirmed"
            /\ ~(Rows[k][n + 1].status = "leased" /\ Rows[k][n + 1].expires > clock)
        BY <1>2, <3>2 DEF NewestRow, Unexpired
      <3> QED BY <3>2, <3>3
    <2> QED BY <2>1 DEF Rows, Ledger!LeaseActive, Ledger!Owned, Ledger!Leased,
                        Ledger!AlreadyConfirmed, Ledger!IsLatest
  <1> QED BY <1>1, <1>2

LEMMA AttemptIsNext ==
    ASSUME MemoryInv, NEW k \in Keys
    PROVE  Ledger!NextAttempt(Rows[k], k) = IF HasRecord(k) THEN records[k].attempt + 1 ELSE 1
  <1>1. CASE ~HasRecord(k)
    BY <1>1, NoRowsWithoutRecord DEF Ledger!NextAttempt
  <1>2. CASE HasRecord(k)
    <2>0. PICK n : n = Len(replaced[k])
      OBVIOUS
    <2>1. /\ DOMAIN Rows[k] = 1..(n + 1) /\ n \in Nat
          /\ \A v \in DOMAIN Rows[k] : Rows[k][v].window = k
          /\ Rows[k][n + 1].attempt = records[k].attempt
      <3>1. /\ n \in Nat /\ DOMAIN Rows[k] = 1..(n + 1)
            /\ Rows[k][n + 1] = NewestRow(k)
            /\ \A v \in 1..n : Rows[k][v].window = k
        BY <1>2, <2>0, RowsParts
      <3>2. Rows[k][n + 1].window = k /\ Rows[k][n + 1].attempt = records[k].attempt
        BY <3>1 DEF NewestRow
      <3> QED BY <3>1, <3>2
    <2>2. Ledger!IsLatest(Rows[k], k, n + 1)
      BY <2>1 DEF Ledger!IsLatest
    <2>3. \A v \in DOMAIN Rows[k] : Ledger!IsLatest(Rows[k], k, v) => v = n + 1
      BY <2>1 DEF Ledger!IsLatest
    <2>4. (CHOOSE v \in DOMAIN Rows[k] : Ledger!IsLatest(Rows[k], k, v)) = n + 1
      BY <2>1, <2>2, <2>3
    <2>5. n + 1 \in DOMAIN Rows[k] /\ Rows[k][n + 1].window = k
      BY <2>1
    <2>6. Ledger!NextAttempt(Rows[k], k) = Rows[k][n + 1].attempt + 1
      BY <2>4, <2>5, Zenon DEF Ledger!NextAttempt
    <2> QED BY <1>2, <2>1, <2>6
  <1> QED BY <1>1, <1>2

LEMMA AppendIsFunction ==
    ASSUME NEW S, NEW s \in Seq(S), NEW a
    PROVE  Append(s, a) = [v \in 1..(Len(s) + 1) |-> Append(s, a)[v]]
  <1>1. /\ s \in Seq(S \cup {a}) /\ a \in S \cup {a}
        /\ Len(Append(s, a)) = Len(s) + 1
    OBVIOUS
  <1>2. Append(s, a) \in Seq(S \cup {a})
    BY <1>1
  <1>3. Append(s, a) \in [1..Len(Append(s, a)) -> S \cup {a}]
    BY <1>2, LenProperties
  <1>4. Append(s, a) = [v \in 1..Len(Append(s, a)) |-> Append(s, a)[v]]
    BY <1>3, Zenon
  <1> QED BY <1>1, <1>4, Zenon

(* The ledger's sweep makes of the record what acquire makes of it.        *)
LEMMA SweptIsReplaced ==
    ASSUME ParametersOK, MemoryInv, NEW k \in Keys, HasRecord(k), ~Unexpired(k)
    PROVE  Ledger!Swept(Rows[k]) = Append(replaced[k], Ended(k))
  <1> DEFINE n == Len(replaced[k])
             A == Append(replaced[k], Ended(k))
  <1>1. /\ DOMAIN Rows[k] = 1..(n + 1) /\ n \in Nat
        /\ replaced[k] \in Seq(OldRow(k))
    BY RowsShape
  <1>2. DOMAIN A = 1..(n + 1) /\ A[n + 1] = Ended(k)
        /\ \A v \in 1..n : A[v] = replaced[k][v]
    BY <1>1
  <1>3. \A v \in 1..n : Rows[k][v] = A[v] /\ Rows[k][v].status # "leased"
    <2>1. \A v \in 1..n : Rows[k][v] = replaced[k][v]
      BY RowsShape
    <2>2. \A v \in 1..n : Rows[k][v].status # "leased"
      BY RowsParts
    <2> QED BY <1>2, <2>1, <2>2
  <1>4. Rows[k][n + 1] = NewestRow(k)
    BY RowsShape
  <1>5. /\ records[k].expires \in Nat /\ clock \in Nat
        /\ records[k].status = "leased" => records[k].expires <= clock
    BY DEF MemoryInv, TypeOK, HasRecord, NoRecord, Record, Unexpired
  <1>6. (IF Rows[k][n + 1].status = "leased" /\ Rows[k][n + 1].expires <= clock
         THEN [Rows[k][n + 1] EXCEPT !.status = "expired"] ELSE Rows[k][n + 1]) = Ended(k)
    BY <1>4, <1>5 DEF NewestRow, Ended
  <1> HIDE DEF n, A
  <1>7. \A v \in 1..(n + 1) :
          (IF Rows[k][v].status = "leased" /\ Rows[k][v].expires <= clock
           THEN [Rows[k][v] EXCEPT !.status = "expired"] ELSE Rows[k][v]) = A[v]
    <2>1. ASSUME NEW v \in 1..(n + 1)
          PROVE (IF Rows[k][v].status = "leased" /\ Rows[k][v].expires <= clock
                 THEN [Rows[k][v] EXCEPT !.status = "expired"] ELSE Rows[k][v]) = A[v]
      <3>1. CASE v = n + 1
        BY <1>2, <1>6, <3>1
      <3>2. CASE v \in 1..n
        BY <1>3, <3>2
      <3> QED BY <1>1, <3>1, <3>2
    <2> QED BY <2>1
  <1>8. Ledger!Swept(Rows[k]) =
          [v \in 1..(n + 1) |->
             IF Rows[k][v].status = "leased" /\ Rows[k][v].expires <= clock
             THEN [Rows[k][v] EXCEPT !.status = "expired"] ELSE Rows[k][v]]
    BY <1>1 DEF Ledger!Swept
  <1>9. Ledger!Swept(Rows[k]) = [v \in 1..(n + 1) |-> A[v]]
    BY <1>7, <1>8
  <1>10. A = [v \in 1..(n + 1) |-> A[v]]
    BY <1>1, AppendIsFunction DEF A, n
  <1>11. Ledger!Swept(Rows[k]) = A
    BY <1>9, <1>10, Zenon
  <1> QED BY <1>11 DEF A

-----------------------------------------------------------------------------
(* Each step of the store is one of the ledger's, or none.                 *)
LEMMA GrantedIsGranted ==
    ASSUME ParametersOK, MemoryInv, NEW k \in Keys, AcquireGranted(k)
    PROVE  Ledger!Next
  <1>1. /\ records' = [records EXCEPT ![k] = records'[k]]
        /\ replaced' = [replaced EXCEPT ![k] = replaced'[k]]
        /\ records'[k] = [token |-> NextToken, status |-> "leased", expires |-> clock + LeaseMs,
                         attempt |-> IF HasRecord(k) THEN records[k].attempt + 1 ELSE 1]
        /\ replaced'[k] = IF HasRecord(k) THEN Append(replaced[k], Ended(k)) ELSE replaced[k]
        /\ clock' = clock
        /\ HasRecord(k) => records[k].status # "confirmed" /\ ~Unexpired(k)
        /\ tokenCounter < MaxTokens
    BY DEF AcquireGranted, MemoryInv
  <1>2. HasRecord(k)'
    BY <1>1 DEF HasRecord, NextToken, MemoryInv, TypeOK
  <1>3. ~Ledger!LeaseActive(k) /\ ~Ledger!AlreadyConfirmed(Rows[k], k)
    BY <1>1, AcquireSeesAll
  <1>4. NewestRow(k)' = Ledger!NewRow(k, k, clock)
    <2>1. Ledger!NewRow(k, k, clock) =
            [window |-> k, status |-> "leased", expires |-> clock + LeaseMs,
             attempt |-> Ledger!NextAttempt(Rows[k], k)]
      BY DEF Ledger!NewRow, Rows
    <2> QED BY <1>1, <2>1, AttemptIsNext DEF NewestRow
  <1>5. replaced'[k] = Ledger!Swept(Rows[k])
    <2>1. CASE HasRecord(k)
      BY <1>1, <2>1, SweptIsReplaced
    <2>2. CASE ~HasRecord(k)
      BY <1>1, <2>2, NoRowsWithoutRecord DEF Ledger!Swept, MemoryInv, Remembered
    <2> QED BY <2>1, <2>2
  <1>6. Len(Rows[k]) < MaxTokens
    <2>1. CASE HasRecord(k)
      <3>1. /\ Len(Rows[k]) = Len(replaced[k]) + 1 /\ Len(replaced[k]) \in Nat
            /\ Len(replaced[k]) < records[k].token
        BY <2>1, RowsShape DEF MemoryInv, Remembered
      <3>2. records[k].token \in 1..tokenCounter /\ tokenCounter \in Nat /\ MaxTokens \in Nat
        BY <2>1 DEF MemoryInv, TypeOK, HasRecord, NoRecord, Record, ParametersOK
      <3> QED BY <1>1, <3>1, <3>2
    <2>2. CASE ~HasRecord(k)
      BY <1>1, <2>2, NoRowsWithoutRecord DEF MemoryInv, TypeOK, ParametersOK
    <2> QED BY <2>1, <2>2
  <1>7. Rows' = [Rows EXCEPT ![k] = Append(Ledger!Swept(Rows[k]), Ledger!NewRow(k, k, clock))]
    <2>1. RowsOf(k)' = Append(Ledger!Swept(Rows[k]), Ledger!NewRow(k, k, clock))
      BY <1>2, <1>4, <1>5 DEF RowsOf, NewestRow
    <2>2. \A j \in Keys \ {k} : RowsOf(j)' = RowsOf(j)
      BY <1>1 DEF RowsOf, HasRecord, MemoryInv, TypeOK
    <2> QED BY <2>1, <2>2 DEF Rows
  <1>8. Ledger!AcquireGranted(k, k, clock)
    BY <1>3, <1>6, <1>7 DEF Rows, Ledger!AcquireGranted
  <1> QED BY <1>1, <1>8, ClockIsStatementTime DEF Ledger!Acquire, Ledger!Next

(* A token that is found owns the newest row of its key.                   *)
LEMMA FoundOwns ==
    ASSUME MemoryInv, NEW token \in 1..tokenCounter, NEW k \in Keys,
           FindUnexpiredLeasedToken(token, k), NEW v, v = Len(replaced[k]) + 1
    PROVE  v \in DOMAIN Rows[k] /\ Rows[k][v] = NewestRow(k) /\ Ledger!Owned(k, v, clock)
  <1>1. HasRecord(k) /\ records[k].status = "leased" /\ records[k].expires > clock
    BY FoundRecord
  <1>2. v \in DOMAIN Rows[k] /\ Rows[k][v] = NewestRow(k)
    BY <1>1, RowsShape
  <1> QED BY <1>1, <1>2 DEF Rows, NewestRow, Ledger!Owned, Ledger!Leased

(* A record that changes changes its row and no other.                     *)
LEMMA ChangedRow ==
    ASSUME MemoryInv, NEW k \in Keys, HasRecord(k), HasRecord(k)',
           records' = [records EXCEPT ![k] = records'[k]], UNCHANGED replaced,
           NEW v, v = Len(replaced[k]) + 1
    PROVE  Rows' = [Rows EXCEPT ![k] = [Rows[k] EXCEPT ![v] = NewestRow(k)']]
  <1>1. RowsOf(k)' = Append(replaced[k], NewestRow(k)')
    BY DEF RowsOf, NewestRow
  <1>2. Rows[k] = Append(replaced[k], NewestRow(k)) /\ replaced[k] \in Seq(OldRow(k))
    BY RowsShape
  <1>3. RowsOf(k)' = [Rows[k] EXCEPT ![v] = NewestRow(k)']
    <2>1. PICK f, g, b : f = Rows[k] /\ g = RowsOf(k)' /\ b = NewestRow(k)'
      OBVIOUS
    <2>2. f = [i \in 1..v |-> f[i]] /\ g = [i \in 1..v |-> g[i]]
      BY <1>1, <1>2, <2>1, AppendIsFunction
    <2>3. v \in 1..v /\ g[v] = b /\ \A i \in 1..v : i # v => g[i] = f[i]
      BY <1>1, <1>2, <2>1
    <2>4. g = [f EXCEPT ![v] = b]
      BY <2>2, <2>3
    <2> QED BY <2>1, <2>4, Zenon
  <1>4. \A j \in Keys \ {k} : RowsOf(j)' = RowsOf(j)
    BY DEF RowsOf, HasRecord, MemoryInv, TypeOK
  <1> QED BY <1>3, <1>4 DEF Rows

LEMMA RenewIsRenew ==
    ASSUME ParametersOK, MemoryInv, NEW token \in 1..tokenCounter, Renew(token)
    PROVE  Ledger!Next
  <1>1. PICK k \in Keys :
            /\ FindUnexpiredLeasedToken(token, k)
            /\ records' = [records EXCEPT ![k].expires = clock + LeaseMs]
    BY DEF Renew
  <1>2. PICK v : v = Len(replaced[k]) + 1
    OBVIOUS
  <1>3. HasRecord(k) /\ records[k] \in Record
    BY <1>1, FoundRecord
  <1>4. /\ UNCHANGED <<replaced, clock>>
        /\ records'[k] = [records[k] EXCEPT !.expires = clock + LeaseMs]
        /\ records' = [records EXCEPT ![k] = records'[k]]
    BY <1>1 DEF Renew, MemoryInv
  <1>5. HasRecord(k)'
    BY <1>3, <1>4 DEF HasRecord, Record
  <1>6. NewestRow(k)' = [NewestRow(k) EXCEPT !.expires = clock + LeaseMs]
    BY <1>3, <1>4 DEF NewestRow, Record
  <1>7. Rows' = [Rows EXCEPT ![k] = [Rows[k] EXCEPT ![v] = NewestRow(k)']]
    BY <1>2, <1>3, <1>4, <1>5, ChangedRow
  <1>8. v \in DOMAIN Rows[k] /\ Rows[k][v] = NewestRow(k) /\ Ledger!Owned(k, v, clock)
    BY <1>1, <1>2, FoundOwns
  <1>9. Ledger!Renew(k, v, clock)
    BY <1>6, <1>7, <1>8 DEF Rows, Ledger!Renew
  <1> QED BY <1>4, <1>8, <1>9, ClockIsStatementTime DEF Rows, Ledger!Update, Ledger!Next

LEMMA FinishIsFinish ==
    ASSUME ParametersOK, MemoryInv, NEW token \in 1..tokenCounter,
           NEW status \in {"released", "confirmed", "failed"}, Finish(token, status)
    PROVE  Ledger!Next
  <1>1. PICK k \in Keys :
            /\ FindUnexpiredLeasedToken(token, k)
            /\ records' = [records EXCEPT ![k].status = status]
    BY DEF Finish
  <1>2. PICK v : v = Len(replaced[k]) + 1
    OBVIOUS
  <1>3. HasRecord(k) /\ records[k] \in Record
    BY <1>1, FoundRecord
  <1>4. /\ UNCHANGED <<replaced, clock>>
        /\ records'[k] = [records[k] EXCEPT !.status = status]
        /\ records' = [records EXCEPT ![k] = records'[k]]
    BY <1>1 DEF Finish, MemoryInv
  <1>5. HasRecord(k)'
    BY <1>3, <1>4 DEF HasRecord, Record
  <1>6. NewestRow(k)' = [NewestRow(k) EXCEPT !.status = status]
    BY <1>3, <1>4 DEF NewestRow, Record
  <1>7. Rows' = [Rows EXCEPT ![k] = [Rows[k] EXCEPT ![v] = NewestRow(k)']]
    BY <1>2, <1>3, <1>4, <1>5, ChangedRow
  <1>8. v \in DOMAIN Rows[k] /\ Rows[k][v] = NewestRow(k) /\ Ledger!Owned(k, v, clock)
    BY <1>1, <1>2, FoundOwns
  <1>9. Ledger!Finish(k, v, clock, status)
    BY <1>6, <1>7, <1>8 DEF Rows, Ledger!Finish
  <1>10. \/ Ledger!Release(k, v, clock)
         \/ Ledger!MarkConfirmed(k, v, clock)
         \/ Ledger!MarkFailed(k, v, clock)
    BY <1>9 DEF Ledger!Release, Ledger!MarkConfirmed, Ledger!MarkFailed
  <1> QED BY <1>4, <1>8, <1>10, ClockIsStatementTime DEF Rows, Ledger!Update, Ledger!Next

LEMMA UnchangedRows == UNCHANGED <<records, replaced, clock>> => UNCHANGED Ledger!ledgerVars
  BY DEF Ledger!ledgerVars, RowsOf, HasRecord

LEMMA StepIsLedgerStep ==
    ParametersOK /\ MemoryInv /\ [Next]_vars => [Ledger!Next]_Ledger!ledgerVars
  <1> SUFFICES ASSUME ParametersOK, MemoryInv, [Next]_vars
               PROVE  [Ledger!Next]_Ledger!ledgerVars
    OBVIOUS
  <1>1. ASSUME UNCHANGED vars PROVE UNCHANGED Ledger!ledgerVars
    BY <1>1, UnchangedRows DEF vars
  <1>2. ASSUME ClockAdvances PROVE Ledger!Next
    <2>1. [k \in Keys |-> RowsOf(k)]' = [k \in Keys |-> RowsOf(k)]
      BY <1>2 DEF ClockAdvances, RowsOf, HasRecord
    <2> QED BY <1>2, <2>1 DEF ClockAdvances, Ledger!Tick, Ledger!Next
  <1>3. ASSUME Operation PROVE [Ledger!Next]_Ledger!ledgerVars
    <2>1. ASSUME NEW k \in Keys, AcquireRefused(k) PROVE UNCHANGED Ledger!ledgerVars
      BY <1>1, <2>1 DEF AcquireRefused
    <2>2. ASSUME NEW token \in 1..tokenCounter, OwnershipLost(token)
          PROVE  UNCHANGED Ledger!ledgerVars
      BY <1>1, <2>2 DEF OwnershipLost
    <2> QED BY <1>3, <2>1, <2>2, GrantedIsGranted, RenewIsRenew, FinishIsFinish DEF Operation
  <1> QED BY <1>1, <1>2, <1>3 DEF Next

LEMMA InitIsLedgerInit == Init => Ledger!Init
  BY DEF Init, Ledger!Init, RowsOf, HasRecord, NoRecord

(* Two keys never share a token, whatever the keys and the lease duration. *)
THEOREM MemoryTypeOK ==
    ASSUME ParametersOK
    PROVE  Spec => []TypeOK
  <1>1. MemoryInv => TypeOK
    BY DEF MemoryInv
  <1>2. MemoryInv /\ [Next]_vars => MemoryInv'
    BY MemoryInvStep
  <1> QED BY <1>1, <1>2, MemoryInvInit, PTL DEF Spec

(* The store of test mode keeps the promises of the lease table, for any   *)
(* set of keys: what it forgets of a replaced lease is never needed.       *)
THEOREM MemoryStoreImplementsLedger ==
    ASSUME ParametersOK
    PROVE  Spec => ImplementsLedger
  <1>1. MemoryInv /\ [Next]_vars => MemoryInv'
    BY MemoryInvStep
  <1>2. MemoryInv /\ [Next]_vars => [Ledger!Next]_Ledger!ledgerVars
    BY StepIsLedgerStep
  <1> QED BY <1>1, <1>2, MemoryInvInit, InitIsLedgerInit, PTL
          DEF Spec, ImplementsLedger, Ledger!Spec
=============================================================================
