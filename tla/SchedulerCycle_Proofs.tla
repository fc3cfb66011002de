----------------------- MODULE SchedulerCycle_Proofs -----------------------
(***************************************************************************)
(* Whatever any number of replicas, their crashes and the statements they  *)
(* leave behind do to the lease table is an operation of LeaseLedger, so   *)
(* that the ledger's invariants hold of every deployment; and what the     *)
(* replicas write there is true of the messages.                           *)
(***************************************************************************)
EXTENDS SchedulerCycle, SequenceTheorems, FiniteSetTheorems, TLAPS

Ledger == INSTANCE LeaseLedger_Proofs

(* A replica at one of these steps works on the first of its due feeds.    *)
Busy == {"acquiring", "acquired", "renewing", "publishing", "settling", "confirming"}

(* At these it may await a statement.                                      *)
Calling == Busy \ {"acquired", "publishing"}

Call == [stmt : Statement, result : Results, version : Nat]

(* The part of the state that decides which statements reach the table.    *)
CycleInv ==
    /\ now \in 0..Horizon
    /\ cycle \in [Replicas -> Cycle]
    /\ call \in [Replicas -> {NoCall} \cup Call]
    /\ orphans \subseteq Statement
    /\ flights \subseteq Flight
    /\ \A r \in Replicas : cycle[r].step \in Busy => cycle[r].due # <<>>
    /\ \A r \in Replicas : call[r] # NoCall => cycle[r].step \in Calling

-----------------------------------------------------------------------------
(* The window of an instant before the horizon is one of Windows.          *)
LEMMA WindowType ==
    ASSUME NEW t \in 0..Horizon
    PROVE  WindowAt(t) \in Windows
<1>1. Cadence \in Nat \ {0} /\ Horizon \in Nat /\ t \in Nat /\ t <= Horizon
    BY CycleAssumption
<1> DEFINE q == t \div Cadence
           h == Horizon \div Cadence
           a == t % Cadence
           b == Horizon % Cadence
<1>2. q \in Int /\ h \in Int /\ a \in 0..Cadence - 1 /\ b \in 0..Cadence - 1
        /\ t = Cadence * q + a /\ Horizon = Cadence * h + b
    BY <1>1
<1> HIDE DEF q, h, a, b
<1>3. q >= 0
    <2>1. SUFFICES ASSUME q <= -1 PROVE FALSE
        BY <1>2
    <2>2. Cadence * q <= -Cadence
        BY <1>1, <1>2, <2>1
    <2>3. QED
        BY <1>1, <1>2, <2>2
<1>4. q <= h
    <2>1. SUFFICES ASSUME q >= h + 1 PROVE FALSE
        BY <1>2
    <2>2. Cadence * q >= Cadence * h + Cadence
        BY <1>1, <1>2, <2>1
    <2>3. QED
        BY <1>1, <1>2, <2>2
<1>5. QED
    BY <1>2, <1>3, <1>4 DEF WindowAt, Windows, q, h

(* The ledger's assumption holds of the cycle's constants.                 *)
LEMMA LedgerConstants == Store!LedgerAssumption
BY CycleAssumption DEF Store!LedgerAssumption, Windows
-----------------------------------------------------------------------------
(* A replica between two cycles.                                           *)
LEMMA IdleType == Idle \in Cycle
<1>1. WindowAt(0) \in 0..(Horizon \div Cadence)
    BY WindowType, CycleAssumption DEF Windows
<1>2. 0 \in Windows
    BY <1>1, CycleAssumption DEF Windows
<1>3. <<>> \in Seq(Feeds)
    BY EmptySeq
<1>4. QED
    BY <1>2, <1>3 DEF Idle, Cycle, Steps

(* No replica has begun.                                                   *)
LEMMA CycleInit == Init => CycleInv
<1>1. SUFFICES ASSUME Init PROVE CycleInv
    OBVIOUS
<1>2. now \in 0..Horizon
    BY <1>1, CycleAssumption DEF Init, Store!Init
<1>3. Idle \in Cycle
    BY IdleType
<1>4. QED
    BY <1>1, <1>2, <1>3 DEF Init, CycleInv, Idle, Busy, Calling

(* A step of one replica keeps the invariant if its new locals are typed,  *)
(* it works on a feed it has, and it awaits statements only about it.      *)
LEMMA ReplicaMoves ==
    ASSUME CycleInv, NEW r \in Replicas, NEW c \in Cycle, NEW k \in {NoCall} \cup Call,
           cycle' = [cycle EXCEPT ![r] = c],
           call' = [call EXCEPT ![r] = k],
           now' = now, orphans' \subseteq Statement, flights' \subseteq Flight,
           c.step \in Busy => c.due # <<>>,
           k # NoCall => c.step \in Calling
    PROVE  CycleInv'
<1>1. cycle' \in [Replicas -> Cycle] /\ call' \in [Replicas -> {NoCall} \cup Call]
    BY DEF CycleInv
<1>2. \A q \in Replicas : cycle'[q] = (IF q = r THEN c ELSE cycle[q])
    BY DEF CycleInv
<1>3. \A q \in Replicas : call'[q] = (IF q = r THEN k ELSE call[q])
    BY DEF CycleInv
<1>4. QED
    BY <1>1, <1>2, <1>3 DEF CycleInv

(* The counters stay typed and leave the step alone.                       *)
LEMMA CountType ==
    ASSUME NEW c \in Cycle
    PROVE  /\ CountAttempt(c) \in Cycle /\ CountAttempt(c).step = c.step
           /\ CountConfirmed(c) \in Cycle /\ CountConfirmed(c).step = c.step
           /\ CountFailure(c) \in Cycle /\ CountFailure(c).step = c.step
           /\ CountFailure(c).due = c.due
<1>1. c.attempted + 1 \in Nat /\ c.confirmed + 1 \in Nat /\ c.failed + 1 \in Nat
    BY DEF Cycle
<1>2. QED
    BY <1>1 DEF CountAttempt, CountConfirmed, CountFailure, Cycle

(* What the invariant says of a replica that works on a feed.              *)
LEMMA BusyReplica ==
    ASSUME CycleInv, NEW r \in Replicas, cycle[r].step \in Busy
    PROVE  /\ cycle[r] \in Cycle
           /\ cycle[r].due # <<>>
           /\ Feed(r) \in Feeds
           /\ NextDecision(cycle[r]) \in Cycle
           /\ CountFailure(NextDecision(cycle[r])) \in Cycle
           /\ CountFailure(cycle[r]) \in Cycle
<1>1. cycle[r] \in Cycle /\ cycle[r].due # <<>>
    BY DEF CycleInv
<1>2. cycle[r].due \in Seq(Feeds)
    BY <1>1 DEF Cycle
<1>3. Head(cycle[r].due) \in Feeds /\ Tail(cycle[r].due) \in Seq(Feeds)
    BY <1>1, <1>2, HeadTailProperties
<1>4. NextDecision(cycle[r]) \in Cycle
    BY <1>1, <1>3 DEF NextDecision, Cycle, Steps
<1>5. QED
    BY <1>1, <1>3, <1>4, CountType DEF Feed

(* What Send leaves in call[r].                                            *)
LEMMA SendType ==
    ASSUME CycleInv, NEW r \in Replicas, NEW op \in Ops, NEW version \in Nat,
           cycle[r].due # <<>>, Send(r, op, version)
    PROVE  \E k \in Call : call' = [call EXCEPT ![r] = k]
<1>1. cycle[r] \in Cycle
    BY DEF CycleInv
<1>2. Feed(r) \in Feeds /\ cycle[r].window \in Windows
    BY <1>1, HeadTailProperties DEF Feed, Cycle
<1>3. QED
    BY <1>2 DEF Send, Call, Statement, Results

(* What the end of a statement leaves in call[r] and orphans.              *)
LEMMA AbandonedType ==
    ASSUME CycleInv, NEW r \in Replicas, Abandoned(r)
    PROVE  orphans' \subseteq Statement
<1>1. CASE UNCHANGED orphans
    BY <1>1 DEF CycleInv
<1>2. CASE Answered(r, "pending") /\ orphans' = orphans \cup {call[r].stmt}
    BY <1>2 DEF CycleInv, Answered, Call
<1>3. QED
    BY <1>1, <1>2 DEF Abandoned

(* A step that ends the statement replica r awaits.                        *)
LEMMA CallEnds ==
    ASSUME CycleInv, NEW r \in Replicas, NEW op, NEW result,
           CallFails(r, op) \/ CallSucceeds(r, op, result)
    PROVE  /\ call[r] \in Call
           /\ cycle[r].step \in Calling /\ cycle[r].step \in Busy
           /\ call' = [call EXCEPT ![r] = NoCall]
           /\ orphans' \subseteq Statement
<1>1. call[r] # NoCall /\ Forget(r)
    BY DEF CallFails, CallSucceeds, Answered
<1>2. orphans' \subseteq Statement
    BY AbandonedType DEF CallFails, CallSucceeds, CycleInv
<1>3. QED
    BY <1>1, <1>2 DEF CycleInv, Forget, Calling

-----------------------------------------------------------------------------
(* The steps of a cycle keep the invariant.                                *)
LEMMA CycleStepInv ==
    ASSUME CycleInv, NEW r \in Replicas, CycleStep(r)
    PROVE  CycleInv'
<1>1. /\ cycle[r] \in Cycle
      /\ call[r] \in {NoCall} \cup Call
      /\ call[r] # NoCall => cycle[r].step \in Calling
      /\ cycle[r].step \in Busy => cycle[r].due # <<>>
      /\ cycle \in [Replicas -> Cycle] /\ call \in [Replicas -> {NoCall} \cup Call]
      /\ orphans \subseteq Statement /\ flights \subseteq Flight
      /\ now \in Nat
    BY CycleAssumption DEF CycleInv
<1>2. call = [call EXCEPT ![r] = call[r]]
    BY <1>1
<1>3. ASSUME NEW c \in Cycle, NEW k \in {NoCall} \cup Call,
             cycle' = [cycle EXCEPT ![r] = c],
             call' = [call EXCEPT ![r] = k],
             now' = now, orphans' \subseteq Statement, flights' \subseteq Flight,
             c.step \in Busy => c.due # <<>>,
             k # NoCall => c.step \in Calling
      PROVE  CycleInv'
    BY <1>3, ReplicaMoves
<1>4. CASE StartCycle(r)
    <2> DEFINE c == [cycle[r] EXCEPT !.step = "listing", !.window = WindowAt(now)]
    <2>1. WindowAt(now) \in Windows
        BY WindowType DEF CycleInv
    <2>2. c \in Cycle /\ c.step \notin Busy
        BY <1>1, <2>1 DEF Cycle, Steps, Busy, Calling
    <2>3. cycle' = [cycle EXCEPT ![r] = c] /\ call[r] = NoCall
        BY <1>1, <1>4 DEF StartCycle, Busy, Calling
    <2>4. QED
        BY <1>1, <1>2, <1>3, <1>4, <2>2, <2>3 DEF StartCycle
<1>5. CASE ListReturns(r)
    <2>1. \A n \in 0..MaxDue : [1..n -> Feeds] \subseteq Seq(Feeds)
        BY CycleAssumption
    <2>2. \E due \in Seq(Feeds) : cycle' = [cycle EXCEPT ![r].step = "next", ![r].due = due]
        BY <1>5, <2>1, Zenon DEF ListReturns
    <2>3. PICK due \in Seq(Feeds) : cycle' = [cycle EXCEPT ![r].step = "next", ![r].due = due]
        BY <2>2
    <2> DEFINE c == [cycle[r] EXCEPT !.step = "next", !.due = due]
    <2>4. c \in Cycle /\ c.step \notin Busy
        BY <1>1, <2>3 DEF Cycle, Steps, Busy, Calling
    <2>5. cycle' = [cycle EXCEPT ![r] = c] /\ call[r] = NoCall
        BY <1>1, <1>5, <2>3 DEF ListReturns, Busy, Calling
    <2>6. QED
        BY <1>1, <1>2, <1>3, <1>5, <2>4, <2>5 DEF ListReturns
<1>6. CASE ListFails(r) \/ FinishCycle(r)
    <2>1. Idle \in Cycle /\ Idle.step \notin Busy
        BY IdleType DEF Idle, Busy
    <2>2. cycle' = [cycle EXCEPT ![r] = Idle] /\ call[r] = NoCall
        BY <1>1, <1>6 DEF ListFails, FinishCycle, Busy, Calling
    <2>3. QED
        BY <1>1, <1>2, <1>3, <1>6, <2>1, <2>2 DEF ListFails, FinishCycle
<1>7. CASE BeginAcquire(r)
    <2> DEFINE c == [cycle[r] EXCEPT !.step = "acquiring"]
    <2>1. c \in Cycle /\ c.step \in Calling /\ c.due # <<>>
        BY <1>1, <1>7 DEF BeginAcquire, Cycle, Steps, Busy, Calling
    <2>2. PICK k \in Call : call' = [call EXCEPT ![r] = k]
        BY <1>7, SendType DEF BeginAcquire, Ops
    <2>3. cycle' = [cycle EXCEPT ![r] = c]
        BY <1>1, <1>7 DEF BeginAcquire
    <2>4. QED
        BY <1>1, <1>3, <1>7, <2>1, <2>2, <2>3 DEF BeginAcquire
<1>8. ASSUME cycle[r].step \in Busy
      PROVE  /\ cycle[r].due # <<>>
             /\ NextDecision(cycle[r]) \in Cycle
             /\ CountFailure(NextDecision(cycle[r])) \in Cycle
             /\ CountFailure(cycle[r]) \in Cycle
             /\ NextDecision(cycle[r]).step = "next"
             /\ CountFailure(NextDecision(cycle[r])).step = "next"
    <2>1. NextDecision(cycle[r]).step = "next"
        BY <1>1 DEF NextDecision, Cycle
    <2>2. CountFailure(NextDecision(cycle[r])).step = "next"
        BY <1>8, <2>1, BusyReplica, CountType
    <2>3. QED
        BY <1>8, <2>1, <2>2, BusyReplica
<1>9. "next" \notin Busy
    BY DEF Busy, Calling
<1>10. ASSUME NEW c \in Cycle, c.step = "next",
              cycle' = [cycle EXCEPT ![r] = c],
              call' = [call EXCEPT ![r] = NoCall],
              orphans' \subseteq Statement,
              UNCHANGED <<leases, now, flights, sent>>
       PROVE  CycleInv'
    BY <1>1, <1>3, <1>9, <1>10
<1>11. CASE Acquired(r)
    <2> DEFINE c == [cycle[r] EXCEPT !.step = "acquired", !.version = call[r].version,
                                     !.attempted = @ + 1, !.scheduled = @ + 1]
    <2>1. /\ call[r] \in Call /\ cycle[r].step \in Busy
          /\ call' = [call EXCEPT ![r] = NoCall] /\ orphans' \subseteq Statement
        BY <1>11, CallEnds DEF Acquired
    <2>2. /\ call[r].version \in Nat /\ cycle[r].due # <<>>
          /\ cycle[r].attempted + 1 \in Nat /\ cycle[r].scheduled + 1 \in Nat
        BY <1>1, <2>1 DEF Call, Cycle
    <2>3. c \in Cycle /\ c.step \in Busy /\ c.due # <<>>
        BY <1>1, <2>2 DEF Cycle, Steps, Busy
    <2>4. cycle' = [cycle EXCEPT ![r] = c]
        BY <1>1, <1>11 DEF Acquired
    <2>5. QED
        BY <1>1, <1>3, <1>11, <2>1, <2>3, <2>4 DEF Acquired
<1>12. CASE NotAcquired(r)
    <2>1. /\ cycle[r].step \in Busy
          /\ call' = [call EXCEPT ![r] = NoCall] /\ orphans' \subseteq Statement
        BY <1>12, CallEnds DEF NotAcquired
    <2>2. cycle' = [cycle EXCEPT ![r] = NextDecision(cycle[r])]
        BY <1>12 DEF NotAcquired
    <2>3. QED
        BY <1>8, <1>10, <1>12, <2>1, <2>2 DEF NotAcquired
<1>13. CASE AcquireFails(r)
    <2> DEFINE n == NextDecision(cycle[r])
               c == CountFailure(CountAttempt(n))
    <2>1. /\ cycle[r].step \in Busy
          /\ call' = [call EXCEPT ![r] = NoCall] /\ orphans' \subseteq Statement
        BY <1>13, CallEnds DEF AcquireFails
    <2>2. n \in Cycle /\ n.step = "next"
        BY <1>8, <2>1
    <2>3. cycle' = [cycle EXCEPT ![r] = c]
        BY <1>13 DEF AcquireFails
    <2>4. UNCHANGED <<leases, now, flights, sent>>
        BY <1>13 DEF AcquireFails
    <2> HIDE DEF n
    <2>5. c \in Cycle /\ c.step = "next"
        BY <2>2, CountType
    <2>6. QED
        BY <1>10, <2>1, <2>3, <2>4, <2>5
<1>14. CASE CommandRejected(r)
    <2> DEFINE n == CountFailure(cycle[r])
               c == [n EXCEPT !.step = "settling"]
    <2>1. cycle[r].step \in Busy /\ cycle[r].version \in Nat
        BY <1>1, <1>14 DEF CommandRejected, Busy, Cycle
    <2>2. n \in Cycle /\ n.due # <<>>
        BY <1>1, <1>8, <2>1, CountType
    <2>3. cycle' = [cycle EXCEPT ![r] = c]
        BY <1>14 DEF CommandRejected
    <2>4. PICK k \in Call : call' = [call EXCEPT ![r] = k]
        BY <1>1, <1>14, <2>1, SendType DEF CommandRejected, Ops
    <2> HIDE DEF n
    <2>5. c \in Cycle /\ c.step \in Calling /\ c.due # <<>>
        BY <2>2 DEF Cycle, Steps, Busy, Calling
    <2>6. QED
        BY <1>1, <1>3, <1>14, <2>3, <2>4, <2>5 DEF CommandRejected
<1>15. CASE BeginRenew(r)
    <2> DEFINE c == [cycle[r] EXCEPT !.step = "renewing", !.deadline = now + LeaseMs]
    <2>1. cycle[r].step \in Busy /\ cycle[r].version \in Nat
        BY <1>1, <1>15 DEF BeginRenew, Busy, Cycle
    <2>2. now + LeaseMs \in Nat /\ cycle[r].due # <<>>
        BY <1>1, <2>1, CycleAssumption
    <2>3. c \in Cycle /\ c.step \in Calling /\ c.due # <<>>
        BY <1>1, <2>2 DEF Cycle, Steps, Busy, Calling
    <2>4. cycle' = [cycle EXCEPT ![r] = c]
        BY <1>1, <1>15 DEF BeginRenew
    <2>5. PICK k \in Call : call' = [call EXCEPT ![r] = k]
        BY <1>1, <1>15, <2>1, SendType DEF BeginRenew, Ops
    <2>6. QED
        BY <1>1, <1>3, <1>15, <2>3, <2>4, <2>5 DEF BeginRenew
<1>16. CASE RenewFails(r)
    <2>1. /\ cycle[r].step \in Busy
          /\ call' = [call EXCEPT ![r] = NoCall] /\ orphans' \subseteq Statement
        BY <1>16, CallEnds DEF RenewFails
    <2>2. cycle' = [cycle EXCEPT ![r] = CountFailure(NextDecision(cycle[r]))]
        BY <1>16 DEF RenewFails
    <2>3. QED
        BY <1>8, <1>10, <1>16, <2>1, <2>2 DEF RenewFails
<1>17. CASE RenewedTooLate(r)
    <2> DEFINE n == CountFailure(cycle[r])
               c == [n EXCEPT !.step = "settling"]
    <2>1. cycle[r].step \in Busy /\ cycle[r].version \in Nat
        BY <1>1, <1>17 DEF RenewedTooLate, Answered, Calling, Cycle
    <2>2. n \in Cycle /\ n.due # <<>>
        BY <1>1, <1>8, <2>1, CountType
    <2>3. cycle' = [cycle EXCEPT ![r] = c]
        BY <1>17 DEF RenewedTooLate
    <2>4. PICK k \in Call : call' = [call EXCEPT ![r] = k]
        BY <1>1, <1>17, <2>1, SendType DEF RenewedTooLate, Ops
    <2> HIDE DEF n
    <2>5. c \in Cycle /\ c.step \in Calling /\ c.due # <<>>
        BY <2>2 DEF Cycle, Steps, Busy, Calling
    <2>6. QED
        BY <1>1, <1>3, <1>17, <2>3, <2>4, <2>5 DEF RenewedTooLate
<1>18. CASE StartPublication(r)
    <2> DEFINE c == [cycle[r] EXCEPT !.step = "publishing"]
    <2>1. /\ cycle[r].step \in Busy
          /\ call' = [call EXCEPT ![r] = NoCall] /\ orphans' \subseteq Statement
        BY <1>18, CallEnds DEF StartPublication
    <2>2. c \in Cycle /\ c.step \in Busy /\ c.due # <<>>
        BY <1>1, <2>1 DEF Cycle, Steps, Busy, Calling
    <2>3. cycle' = [cycle EXCEPT ![r] = c]
        BY <1>1, <1>18 DEF StartPublication
    <2>4. Feed(r) \in Feeds /\ cycle[r].version \in Nat
        BY <1>1, <2>1, BusyReplica DEF Cycle
    <2>5. flights' \subseteq Flight
        BY <1>1, <1>18, <2>4 DEF StartPublication, Flight
    <2>6. QED
        BY <1>3, <1>18, <2>1, <2>2, <2>3, <2>5 DEF StartPublication
<1>19. CASE DeadlineTimer(r)
    <2>1. cycle[r].step \in Busy /\ call[r] = NoCall
        BY <1>1, <1>19 DEF DeadlineTimer, Busy, Calling
    <2>2. cycle' = [cycle EXCEPT ![r] = CountFailure(NextDecision(cycle[r]))]
        BY <1>19 DEF DeadlineTimer
    <2>3. QED
        BY <1>1, <1>2, <1>8, <1>10, <1>19, <2>1, <2>2 DEF DeadlineTimer
<1>20. CASE SettlingEnds(r)
    <2>1. /\ cycle[r].step \in Busy
          /\ call' = [call EXCEPT ![r] = NoCall] /\ orphans' \subseteq Statement
        BY <1>20, CallEnds DEF SettlingEnds
    <2>2. cycle' = [cycle EXCEPT ![r] = NextDecision(cycle[r])]
        BY <1>20 DEF SettlingEnds
    <2>3. QED
        BY <1>8, <1>10, <1>20, <2>1, <2>2 DEF SettlingEnds
<1>21. CASE Confirmed(r)
    <2> DEFINE n == NextDecision(cycle[r])
    <2>1. /\ cycle[r].step \in Busy
          /\ call' = [call EXCEPT ![r] = NoCall] /\ orphans' \subseteq Statement
        BY <1>21, CallEnds DEF Confirmed
    <2>2. n \in Cycle /\ n.step = "next"
        BY <1>8, <2>1
    <2>3. CountConfirmed(n) \in Cycle /\ CountConfirmed(n).step = "next"
        BY <2>2, CountType
    <2>4. QED
        BY <1>10, <1>21, <2>1, <2>3 DEF Confirmed
<1>22. CASE ConfirmFails(r)
    <2>1. /\ cycle[r].step \in Busy
          /\ call' = [call EXCEPT ![r] = NoCall] /\ orphans' \subseteq Statement
        BY <1>22, CallEnds DEF ConfirmFails
    <2>2. cycle' = [cycle EXCEPT ![r] = CountFailure(NextDecision(cycle[r]))]
        BY <1>22 DEF ConfirmFails
    <2>3. QED
        BY <1>8, <1>10, <1>22, <2>1, <2>2 DEF ConfirmFails
<1>23. QED
    BY <1>4, <1>5, <1>6, <1>7, <1>11, <1>12, <1>13, <1>14, <1>15, <1>16, <1>17, <1>18,
       <1>19, <1>20, <1>21, <1>22 DEF CycleStep

(* The steps of a publication keep the invariant.                          *)
LEMMA PublicationStepInv ==
    ASSUME CycleInv, NEW fl \in flights, PublicationStep(fl)
    PROVE  CycleInv'
<1> DEFINE r == fl.replica
<1>1. /\ r \in Replicas /\ fl \in Flight /\ fl.version \in Nat /\ flights \subseteq Flight
      /\ cycle[r] \in Cycle
      /\ call[r] \in {NoCall} \cup Call
      /\ call[r] # NoCall => cycle[r].step \in Calling
      /\ orphans \subseteq Statement
      /\ now \in Nat
    BY CycleAssumption DEF CycleInv, Flight
<1>2. ASSUME UNCHANGED <<now, cycle, call, orphans>>, flights' \subseteq Flight
      PROVE  CycleInv'
    BY <1>2 DEF CycleInv
<1>3. CASE HandOver(fl)
    <2>1. [fl EXCEPT !.phase = "sent", !.since = now] \in Flight
        BY <1>1 DEF Flight
    <2>2. QED
        BY <1>1, <1>2, <1>3, <2>1 DEF HandOver
<1>14. CASE SetupFails(fl)
    <2>1. [fl EXCEPT !.phase = "closing", !.since = now] \in Flight
        BY <1>1 DEF Flight
    <2>2. QED
        BY <1>1, <1>2, <1>14, <2>1 DEF SetupFails
<1>4. CASE UnawaitedSettles(fl)
    BY <1>1, <1>2, <1>4 DEF UnawaitedSettles
<1>5. ASSUME Settles(fl)
      PROVE  /\ cycle[r].step \in Busy /\ call[r] = NoCall
             /\ call = [call EXCEPT ![r] = NoCall]
             /\ cycle[r].due # <<>>
             /\ CountFailure(NextDecision(cycle[r])) \in Cycle
             /\ CountFailure(NextDecision(cycle[r])).step = "next"
             /\ now' = now /\ orphans' \subseteq Statement /\ flights' \subseteq Flight
    <2>1. cycle[r].step = "publishing"
        BY <1>5 DEF Settles, Awaits
    <2>2. cycle[r].step \in Busy /\ call[r] = NoCall
        BY <1>1, <2>1 DEF Busy, Calling
    <2>3. call = [call EXCEPT ![r] = NoCall]
        BY <2>2 DEF CycleInv
    <2>4. NextDecision(cycle[r]) \in Cycle /\ NextDecision(cycle[r]).step = "next"
        BY <1>1, <2>2, BusyReplica DEF NextDecision, Cycle
    <2>5. /\ CountFailure(NextDecision(cycle[r])) \in Cycle
          /\ CountFailure(NextDecision(cycle[r])).step = "next"
        BY <2>4, CountType
    <2>6. now' = now /\ orphans' \subseteq Statement /\ flights' \subseteq Flight
        BY <1>1, <1>5 DEF Settles
    <2>7. QED
        BY <1>1, <2>2, <2>3, <2>5, <2>6, BusyReplica
<1>6. ASSUME Settles(fl), UNCHANGED call,
             cycle' = [cycle EXCEPT ![r] = CountFailure(NextDecision(cycle[r]))]
      PROVE  CycleInv'
    <2>1. "next" \notin Busy
        BY DEF Busy
    <2>2. QED
        BY <1>1, <1>5, <1>6, <2>1, ReplicaMoves
<1>7. ASSUME Settles(fl), NEW op \in Ops, Send(r, op, fl.version),
             NEW c \in Cycle, c.step \in Calling, c.due # <<>>,
             cycle' = [cycle EXCEPT ![r] = c]
      PROVE  CycleInv'
    <2>1. PICK k \in Call : call' = [call EXCEPT ![r] = k]
        BY <1>1, <1>5, <1>7, SendType
    <2>2. QED
        BY <1>1, <1>5, <1>7, <2>1, ReplicaMoves
<1>8. ASSUME Settles(fl), NEW op \in Ops, Send(r, op, fl.version),
             cycle' = [cycle EXCEPT ![r] = [CountFailure(cycle[r]) EXCEPT !.step = "settling"]]
      PROVE  CycleInv'
    <2> DEFINE n == CountFailure(cycle[r])
               c == [n EXCEPT !.step = "settling"]
    <2>1. n \in Cycle /\ n.due # <<>>
        BY <1>1, <1>5, <1>8, CountType
    <2>2. cycle' = [cycle EXCEPT ![r] = c]
        BY <1>8
    <2> HIDE DEF n
    <2>3. c \in Cycle /\ c.step \in Calling /\ c.due # <<>>
        BY <2>1 DEF Cycle, Steps, Calling, Busy
    <2>4. QED
        BY <1>7, <1>8, <2>2, <2>3
<1>9. CASE NotPublished(fl)
    BY <1>8, <1>9 DEF NotPublished, Ops
<1>10. CASE Rejected(fl)
    BY <1>8, <1>10 DEF Rejected, Ops
<1>11. CASE Ambiguous(fl)
    BY <1>6, <1>11 DEF Ambiguous
<1>12. CASE ConfirmedInTime(fl)
    <2> DEFINE c == [cycle[r] EXCEPT !.step = "confirming"]
    <2>1. Settles(fl) /\ Send(r, "markConfirmed", fl.version)
        BY <1>12 DEF ConfirmedInTime
    <2>2. cycle' = [cycle EXCEPT ![r] = c]
        BY <1>1, <1>12 DEF ConfirmedInTime, CycleInv
    <2>3. c \in Cycle /\ c.step \in Calling /\ c.due # <<>>
        BY <1>1, <1>5, <2>1 DEF Cycle, Steps, Calling, Busy
    <2>4. QED
        BY <1>7, <2>1, <2>2, <2>3 DEF Ops
<1>13. CASE ConfirmedTooLate(fl)
    BY <1>6, <1>13 DEF ConfirmedTooLate
<1>15. QED
    BY <1>3, <1>4, <1>9, <1>10, <1>11, <1>12, <1>13, <1>14 DEF PublicationStep

(* A statement that takes effect only fills in its answer.                 *)
LEMMA StatementRunsInv ==
    ASSUME CycleInv, NEW r \in Replicas, StatementRuns(r)
    PROVE  CycleInv'
<1>1. PICK result \in Results, version \in 0..(Len(leases[call[r].stmt.feed]) + 1) :
        call' = [call EXCEPT ![r].result = result, ![r].version = version]
    BY Zenon DEF StatementRuns
<1>2. version \in Nat
    BY <1>1
<1> DEFINE k == [call[r] EXCEPT !.result = result, !.version = version]
<1>3. call[r] \in Call /\ cycle[r].step \in Calling
    BY DEF StatementRuns, Answered, CycleInv
<1>4. k \in Call
    BY <1>1, <1>3, <1>2 DEF Call
<1>5. call' = [call EXCEPT ![r] = k]
    BY <1>1 DEF CycleInv
<1>6. cycle' = [cycle EXCEPT ![r] = cycle[r]] /\ cycle[r] \in Cycle
    BY DEF StatementRuns, CycleInv
<1>7. UNCHANGED <<now, orphans, flights>>
    BY DEF StatementRuns
<1>8. QED
    BY <1>3, <1>4, <1>5, <1>6, <1>7, ReplicaMoves DEF CycleInv

(* A crash forgets the cycle and may leave its statement behind.           *)
LEMMA CrashInv ==
    ASSUME CycleInv, NEW r \in Replicas, Crash(r)
    PROVE  CycleInv'
<1>1. orphans' \subseteq Statement
    BY AbandonedType DEF Crash
<1>2. flights' \subseteq Flight
    BY DEF Crash, CycleInv
<1>3. Idle \in Cycle /\ Idle.step \notin Busy
    BY IdleType DEF Idle, Busy
<1>4. QED
    BY <1>1, <1>2, <1>3, ReplicaMoves DEF Crash, Forget

(* CycleInv is inductive.                                                  *)
LEMMA CycleNextInv ==
    ASSUME CycleInv, [Next]_vars
    PROVE  CycleInv'
<1>1. CASE UNCHANGED vars
    BY <1>1 DEF vars, CycleInv
<1>2. CASE \E r \in Replicas : CycleStep(r) \/ StatementRuns(r) \/ Crash(r)
    BY <1>2, CycleStepInv, StatementRunsInv, CrashInv
<1>3. CASE \E fl \in flights : PublicationStep(fl)
    BY <1>3, PublicationStepInv
<1>4. CASE OrphanRuns
    <2>1. orphans' \subseteq orphans
        BY <1>4 DEF OrphanRuns
    <2>2. QED
        BY <1>4, <2>1 DEF OrphanRuns, CycleInv
<1>5. CASE BrokerStep
    BY <1>5 DEF BrokerStep, BrokerHandles, CycleInv
<1>6. CASE Tick
    <2>1. now' \in 0..Horizon
        BY <1>6, CycleAssumption DEF Tick, Store!Tick, CycleInv
    <2>2. QED
        BY <1>6, <2>1 DEF Tick, CycleInv
<1>7. QED
    BY <1>1, <1>2, <1>3, <1>4, <1>5, <1>6 DEF Next

-----------------------------------------------------------------------------
(* A statement that takes effect is an operation of the ledger.            *)
LEMMA EffectIsOperation ==
    ASSUME NEW s \in Statement, NEW at \in Store!StatementTimes, NEW result, NEW version,
           TakesEffect(s, at, result, version), UNCHANGED now
    PROVE  [Store!Next]_(Store!ledgerVars)
<1>1. s.feed \in Feeds /\ s.window \in Windows
    BY DEF Statement
<1>2. CASE AcquireRuns(s, at, result, version)
    <2>1. Store!Acquire(s.feed, s.window)
        BY <1>2 DEF AcquireRuns, Store!Acquire
    <2>2. QED
        BY <1>1, <2>1 DEF Store!Next
<1>3. CASE UpdateRuns(s, at, result, version) /\ result = "ok"
    <2>1. \/ Store!Renew(s.feed, s.version, at)
          \/ Store!Release(s.feed, s.version, at)
          \/ Store!MarkFailed(s.feed, s.version, at)
          \/ Store!MarkConfirmed(s.feed, s.version, at)
        BY <1>3 DEF UpdateRuns
    <2>2. s.version \in DOMAIN leases[s.feed]
        BY <2>1 DEF Store!Renew, Store!Release, Store!MarkFailed, Store!MarkConfirmed,
                    Store!Finish, Store!Owned, Store!Leased
    <2>3. Store!Update(s.feed, s.version)
        BY <2>1 DEF Store!Update
    <2>4. QED
        BY <1>1, <2>2, <2>3 DEF Store!Next
<1>4. CASE UpdateRuns(s, at, result, version) /\ result # "ok"
    BY <1>4 DEF UpdateRuns, Store!ledgerVars
<1>5. QED
    BY <1>2, <1>3, <1>4 DEF TakesEffect

(* Every step is an operation of the ledger or leaves the table alone.     *)
LEMMA StepImplementsLedger ==
    ASSUME CycleInv, [Next]_vars
    PROVE  [Store!Next]_(Store!ledgerVars)
<1>1. ASSUME UNCHANGED <<leases, now>>
      PROVE  [Store!Next]_(Store!ledgerVars)
    BY <1>1 DEF Store!ledgerVars
<1>2. CASE UNCHANGED vars
    BY <1>1, <1>2 DEF vars
<1>3. CASE \E r \in Replicas : CycleStep(r) \/ Crash(r)
    BY <1>1, <1>3 DEF CycleStep, Crash, StartCycle, ListReturns, ListFails, FinishCycle,
        BeginAcquire, Acquired, NotAcquired, AcquireFails, CommandRejected, BeginRenew,
        RenewFails, RenewedTooLate, StartPublication, DeadlineTimer, SettlingEnds,
        Confirmed, ConfirmFails
<1>4. CASE \E r \in Replicas : StatementRuns(r)
    <2>1. PICK r \in Replicas : StatementRuns(r)
        BY <1>4
    <2>2. call[r].stmt \in Statement
        BY <2>1 DEF StatementRuns, Answered, CycleInv, Call
    <2>3. QED
        BY <2>1, <2>2, EffectIsOperation DEF StatementRuns
<1>5. CASE \E fl \in flights : PublicationStep(fl)
    BY <1>1, <1>5 DEF PublicationStep, HandOver, SetupFails, NotPublished, Rejected, Ambiguous,
        ConfirmedInTime, ConfirmedTooLate, UnawaitedSettles, Settles
<1>6. CASE OrphanRuns
    BY <1>6, EffectIsOperation DEF OrphanRuns, CycleInv
<1>7. CASE BrokerStep
    BY <1>1, <1>7 DEF BrokerStep, BrokerHandles
<1>8. CASE Tick
    BY <1>8 DEF Tick, Store!Next
<1>9. QED
    BY <1>2, <1>3, <1>4, <1>5, <1>6, <1>7, <1>8 DEF Next

(* In every reachable state each replica's locals are typed, it works on a *)
(* feed of its due list, and it awaits the statements of that work only.   *)
THEOREM CycleInvariant == Spec => []CycleInv
BY CycleInit, CycleNextInv, PTL DEF Spec

(* The replicas reach the lease table through the ledger's operations.     *)
LEMMA CycleUsesLedger == Spec => Store!Spec
<1>1. Init => Store!Init
    BY DEF Init
<1>2. CycleInv /\ [Next]_vars => [Store!Next]_(Store!ledgerVars)
    BY StepImplementsLedger
<1>3. QED
    BY <1>1, <1>2, CycleInvariant, PTL DEF Spec, Store!Spec

(* The ledger the replicas use is the ledger LeaseLedger_Proofs is about:  *)
(* their initial states, steps and invariants are the same.                *)
LEMMA SameInit == Store!Init => Ledger!Init
BY Zenon DEF Store!Init, Ledger!Init

(* The steps of the one are steps of the other.                            *)
LEMMA SameNext == [Store!Next]_(Store!ledgerVars) => [Ledger!Next]_(Ledger!ledgerVars)
BY Zenon DEF Store!Next, Ledger!Next, Store!ledgerVars, Ledger!ledgerVars, Store!Tick,
       Ledger!Tick, Store!Acquire, Ledger!Acquire, Store!Update,
       Ledger!Update, Store!StatementTimes, Ledger!StatementTimes,
       Store!AcquireActive, Ledger!AcquireActive, Store!AcquireConfirmed,
       Ledger!AcquireConfirmed, Store!AcquireGranted,
       Ledger!AcquireGranted, Store!LeaseActive, Ledger!LeaseActive,
       Store!AlreadyConfirmed, Ledger!AlreadyConfirmed, Store!Swept,
       Ledger!Swept, Store!NewRow, Ledger!NewRow, Store!NextAttempt,
       Ledger!NextAttempt, Store!IsLatest, Ledger!IsLatest, Store!Renew,
       Ledger!Renew, Store!Release, Ledger!Release, Store!MarkConfirmed,
       Ledger!MarkConfirmed, Store!MarkFailed, Ledger!MarkFailed,
       Store!Finish, Ledger!Finish, Store!Owned, Ledger!Owned,
       Store!Leased, Ledger!Leased

(* What is proved of the one holds of the other.                           *)
LEMMA SameSafety == Ledger!Safety => Store!Safety
BY DEF Store!Safety, Ledger!Safety, Store!OneLeasePerFeed,
       Ledger!OneLeasePerFeed, Store!ConfirmedIsFinal,
       Ledger!ConfirmedIsFinal, Store!AttemptsIncrease,
       Ledger!AttemptsIncrease, Store!ExpiryIsBounded,
       Ledger!ExpiryIsBounded, Store!Leased, Ledger!Leased

(* The promises of the lease table (one lease per feed, a confirmed window *)
(* is final, attempts are told apart, every lease expires) hold whatever   *)
(* any number of replicas, crashes, lost answers and late statements do:   *)
(* acquire and the fenced updates need no cooperation of their callers.    *)
THEOREM CycleKeepsLedgerSafe == Spec => []Store!Safety
<1>1. Ledger!Spec => []Ledger!LedgerInv
    BY Ledger!LedgerInvariant, LedgerConstants DEF Store!LedgerAssumption, Ledger!LedgerAssumption
<1>2. Ledger!LedgerInv => Store!Safety
    BY SameSafety DEF Ledger!LedgerInv
<1>3. Store!Spec => Ledger!Spec
    BY SameNext, SameInit, PTL DEF Ledger!Spec, Store!Spec
<1>4. QED
    BY <1>1, <1>2, <1>3, CycleUsesLedger, PTL

-----------------------------------------------------------------------------
(***************************************************************************)
(* What the replicas write into the lease table is true of the messages,   *)
(* for any number of replicas and feeds and whatever crashes, answers that *)
(* are lost and statements that come late do to them.                      *)
(*                                                                         *)
(* The argument follows a token.  The answer of acquire gives it to one    *)
(* replica, which holds it until it learns what became of its publication; *)
(* meanwhile no statement about it is outstanding but that replica's own   *)
(* renewal.  Whoever lets go of it does so with a statement that the       *)
(* messages sent under the token warrant, or with none (AttemptInv).       *)
(*                                                                         *)
(* The last part assumes that the margins fit the transport's bounds and   *)
(* follows a publication: it has its time left under the lease, and the    *)
(* replica that awaits it is the only holder (MarginInv).                  *)
(***************************************************************************)

(* A lease with which its replica has not yet done.                        *)
Holding == {"acquired", "renewing", "publishing"}

(* Replica r holds the token (f, v): in the answer to its acquire, or as   *)
(* its lease up to the outcome of the publication.                         *)
Holds(r, f, v) ==
    \/ cycle[r].step \in Holding /\ f = Feed(r) /\ v = cycle[r].version
    \/ Answered(r, "acquired") /\ f = Feed(r) /\ v = call[r].version

Unsent(f, v) == \A x \in sent \cup flights : Token(x) # <<f, v>>

HasMessage(f, v, fate) == \E m \in sent : Token(m) = <<f, v>> /\ m.fate = fate

(* The reason to write an outcome into a row.                              *)
Warranted(op, f, v) ==
    /\ op = "release" => Unsent(f, v)
    /\ op = "markFailed" => HasMessage(f, v, "returned")
    /\ op = "markConfirmed" => HasMessage(f, v, "queued")

(* A statement that is awaited or left behind.                             *)
StatementOK(s) ==
    s.op # "acquire" =>
        s.version \in DOMAIN leases[s.feed] /\ Warranted(s.op, s.feed, s.version)

OrphansOK ==
    \A s \in orphans :
        /\ StatementOK(s)
        /\ s.op # "acquire" => \A q \in Replicas : ~Holds(q, s.feed, s.version)

OpsAt(step) ==
    {op \in Ops : \/ step = "acquiring" /\ op = "acquire"
                  \/ step = "renewing" /\ op = "renew"
                  \/ step = "settling" /\ op \in {"release", "markFailed"}
                  \/ step = "confirming" /\ op = "markConfirmed"}

CallOK(r) ==
    LET s == call[r].stmt IN
    /\ s.feed = Feed(r) /\ s.op \in OpsAt(cycle[r].step)
    /\ StatementOK(s)
    /\ s.op = "renew" => s.version = cycle[r].version
    /\ call[r].result = "acquired" => s.op = "acquire"
    /\ s.op # "acquire" =>
          \A q \in Replicas : Holds(q, s.feed, s.version) => q = r /\ s.op = "renew"

CallsOK == \A r \in Replicas : call[r] # NoCall => CallOK(r)

HoldersOK ==
    \A r \in Replicas : \A f \in Feeds, v \in Nat :
        Holds(r, f, v) =>
            /\ v \in DOMAIN leases[f] /\ leases[f][v].status \in {"leased", "expired"}
            /\ cycle[r].step # "publishing" => Unsent(f, v)
            /\ \A q \in Replicas : Holds(q, f, v) => q = r

(* The answer to the renewal covers the replica's own deadline.            *)
RenewedOK ==
    \A r \in Replicas :
        \/ cycle[r].step = "publishing"
        \/ cycle[r].step = "renewing" /\ Answered(r, "ok")
        => leases[Feed(r)][cycle[r].version].expires >= cycle[r].deadline

FlightsOK ==
    \A x \in flights :
        /\ x.version \in DOMAIN leases[x.feed]
        /\ \A y \in flights : Token(x) = Token(y) => x = y
        /\ x.phase # "sent" => \A m \in sent : Token(m) # Token(x)

MessagesOK ==
    \A m \in sent :
        /\ m \in Message /\ m.version \in DOMAIN leases[m.feed]
        /\ m.window = Row(m).window

RowsOK ==
    \A f \in Feeds : \A v \in DOMAIN leases[f] :
        /\ leases[f][v].status = "released" => Unsent(f, v)
        /\ leases[f][v].status = "failed" => HasMessage(f, v, "returned")
        /\ leases[f][v].status = "confirmed" => HasMessage(f, v, "queued")
        /\ leases[f][v].status = "expired" => leases[f][v].expires <= now

AttemptInv ==
    /\ OrphansOK /\ CallsOK /\ HoldersOK /\ RenewedOK
    /\ FlightsOK /\ MessagesOK /\ RowsOK

-----------------------------------------------------------------------------
(* What a statement that takes effect does to one row that is there.       *)
Touches(s, f, v) == s.op # "acquire" /\ s.feed = f /\ s.version = v

Ended(op) ==
    CASE op = "release" -> "released"
      [] op = "markFailed" -> "failed"
      [] op = "markConfirmed" -> "confirmed"

Changed(s, at, f, v, old, new) ==
    \/ new = old
    \/ old.status = "leased" /\ old.expires <= now /\ new = [old EXCEPT !.status = "expired"]
    \/ /\ Touches(s, f, v) /\ old.status = "leased"
       /\ \/ s.op = "renew" /\ new = [old EXCEPT !.expires = at + LeaseMs]
          \/ s.op # "renew" /\ new = [old EXCEPT !.status = Ended(s.op)]

LEMMA SweptRow ==
    ASSUME NEW rows \in Seq(Store!Row)
    PROVE  /\ Len(Store!Swept(rows)) = Len(rows)
           /\ Store!Swept(rows) \in Seq(Store!Row)
           /\ \A v \in DOMAIN rows :
                 \/ Store!Swept(rows)[v] = rows[v]
                 \/ /\ rows[v].status = "leased" /\ rows[v].expires <= now
                    /\ Store!Swept(rows)[v] = [rows[v] EXCEPT !.status = "expired"]
  <1>1. \A r \in Store!Row : [r EXCEPT !.status = "expired"] \in Store!Row
    BY DEF Store!Row, Store!Statuses
  <1>2. \A v \in DOMAIN rows : rows[v] \in Store!Row
    OBVIOUS
  <1>3. Store!Swept(rows) = [v \in DOMAIN rows |->
            IF rows[v].status = "leased" /\ rows[v].expires <= now
            THEN [rows[v] EXCEPT !.status = "expired"] ELSE rows[v]]
    BY DEF Store!Swept
  <1>4. \A v \in DOMAIN rows : Store!Swept(rows)[v] \in Store!Row
    BY <1>1, <1>2, <1>3
  <1>5. DOMAIN rows = 1..Len(rows) /\ Len(rows) \in Nat
    OBVIOUS
  <1>6. Store!Swept(rows) \in Seq(Store!Row) /\ Len(Store!Swept(rows)) = Len(rows)
    BY <1>3, <1>4, <1>5
  <1> QED BY <1>3, <1>6

(* A row is replaced.                                                      *)
LEMMA RowReplaced ==
    ASSUME Store!TypeOK, NEW f \in Feeds, NEW v \in DOMAIN leases[f], NEW row,
           leases' = [leases EXCEPT ![f] = [leases[f] EXCEPT ![v] = row]]
    PROVE  /\ leases'[f][v] = row
           /\ \A g \in Feeds : DOMAIN leases'[g] = DOMAIN leases[g]
           /\ \A g \in Feeds : \A u \in DOMAIN leases[g] :
                 g # f \/ u # v => leases'[g][u] = leases[g][u]
  BY DEF Store!TypeOK

(* The rows of a feed after a statement: none is lost, and what is added   *)
(* is the lease that acquire answers with.                                 *)
LEMMA EffectOnRows ==
    ASSUME Store!TypeOK, NEW s \in Statement, NEW at \in Store!StatementTimes,
           NEW result, NEW version, TakesEffect(s, at, result, version)
    PROVE  /\ \A f \in Feeds : \A v \in DOMAIN leases[f] :
                 /\ v \in DOMAIN leases'[f]
                 /\ Changed(s, at, f, v, leases[f][v], leases'[f][v])
           /\ \A f \in Feeds : \A v \in DOMAIN leases'[f] : v \notin DOMAIN leases[f] =>
                 leases'[f][v].status = "leased"
           /\ result = "acquired" =>
                 /\ s.op = "acquire" /\ version \in Nat
                 /\ version \notin DOMAIN leases[s.feed]
                 /\ version \in DOMAIN leases'[s.feed]
           /\ result = "ok" /\ s.op = "renew" =>
                 /\ s.version \in DOMAIN leases[s.feed]
                 /\ leases'[s.feed][s.version].expires = at + LeaseMs
  <1>1. s.feed \in Feeds /\ leases \in [Feeds -> Seq(Store!Row)]
    BY DEF Statement, Store!TypeOK
  <1>2. PICK f : f = s.feed
    OBVIOUS
  <1>3. \A g \in Feeds : leases[g] \in Seq(Store!Row) /\ Len(leases[g]) \in Nat
                         /\ DOMAIN leases[g] = 1..Len(leases[g])
    BY <1>1
  <1>4. CASE UNCHANGED leases /\ result \notin {"acquired", "ok"}
    BY <1>4 DEF Changed
  <1>5. CASE AcquireRuns(s, at, result, version) /\ result = "already_confirmed"
    <2>1. leases' = [leases EXCEPT ![f] = Store!Swept(leases[f])]
      BY <1>2, <1>5 DEF AcquireRuns, Store!AcquireConfirmed
    <2>2. leases'[f] = Store!Swept(leases[f]) /\ \A g \in Feeds \ {f} : leases'[g] = leases[g]
      BY <1>1, <1>2, <2>1
    <2>3. DOMAIN leases'[f] = DOMAIN leases[f]
      BY <1>1, <1>2, <1>3, <2>2, SweptRow
    <2>4. \A v \in DOMAIN leases[f] : Changed(s, at, f, v, leases[f][v], leases'[f][v])
      BY <1>1, <1>2, <1>3, <2>2, SweptRow DEF Changed
    <2>5. \A g \in Feeds \ {f} : \A v \in DOMAIN leases[g] :
             Changed(s, at, g, v, leases[g][v], leases'[g][v])
      BY <2>2 DEF Changed
    <2> QED BY <1>5, <2>2, <2>3, <2>4, <2>5
  <1>6. CASE AcquireRuns(s, at, result, version) /\ result = "acquired"
    <2>1. /\ s.op = "acquire" /\ version = Len(leases[f]) + 1
          /\ Store!AcquireGranted(s.feed, s.window, at)
      BY <1>2, <1>6 DEF AcquireRuns
    <2>2. PICK row : row = Store!NewRow(s.feed, s.window, at)
      OBVIOUS
    <2>3. row.status = "leased"
      BY <2>2 DEF Store!NewRow
    <2>4. leases' = [leases EXCEPT ![f] = Append(Store!Swept(leases[f]), row)]
      BY <1>2, <2>1, <2>2 DEF Store!AcquireGranted
    <2>5. /\ leases'[f] = Append(Store!Swept(leases[f]), row)
          /\ \A g \in Feeds \ {f} : leases'[g] = leases[g]
      BY <1>1, <1>2, <2>4
    <2>6. PICK swept : swept = Store!Swept(leases[f])
      OBVIOUS
    <2>7. swept \in Seq(Store!Row) /\ Len(swept) = Len(leases[f])
      BY <1>1, <1>2, <1>3, <2>6, SweptRow
    <2>8. /\ DOMAIN leases'[f] = 1..Len(leases[f]) + 1
          /\ leases'[f][Len(leases[f]) + 1] = row
          /\ \A v \in DOMAIN leases[f] : leases'[f][v] = swept[v]
      BY <1>1, <1>2, <1>3, <2>5, <2>6, <2>7
    <2>9. \A v \in DOMAIN leases[f] : Changed(s, at, f, v, leases[f][v], leases'[f][v])
      BY <1>1, <1>2, <1>3, <2>6, <2>8, SweptRow DEF Changed
    <2>10. \A g \in Feeds \ {f} : \A v \in DOMAIN leases[g] :
             Changed(s, at, g, v, leases[g][v], leases'[g][v])
      BY <2>5 DEF Changed
    <2>11. /\ DOMAIN leases[f] \subseteq DOMAIN leases'[f]
           /\ version \in Nat /\ version \notin DOMAIN leases[f] /\ version \in DOMAIN leases'[f]
           /\ \A v \in DOMAIN leases'[f] : v \notin DOMAIN leases[f] => v = Len(leases[f]) + 1
      BY <1>1, <1>2, <1>3, <2>1, <2>8
    <2> QED BY <1>2, <1>6, <2>1, <2>3, <2>5, <2>8, <2>9, <2>10, <2>11
  <1>7. CASE UpdateRuns(s, at, result, version) /\ result = "ok" /\ s.op = "renew"
    <2>1. Store!Renew(s.feed, s.version, at)
      BY <1>7 DEF UpdateRuns
    <2>2. PICK v : v = s.version
      OBVIOUS
    <2>3. PICK row : row = [leases[f][v] EXCEPT !.expires = at + LeaseMs]
      OBVIOUS
    <2>4. /\ v \in DOMAIN leases[f]
          /\ leases' = [leases EXCEPT ![f] = [leases[f] EXCEPT ![v] = row]]
      BY <1>2, <2>1, <2>2, <2>3 DEF Store!Renew, Store!Owned, Store!Leased
    <2>5. /\ leases'[f][v] = row
          /\ \A g \in Feeds : DOMAIN leases'[g] = DOMAIN leases[g]
          /\ \A g \in Feeds : \A u \in DOMAIN leases[g] :
                g # f \/ u # v => leases'[g][u] = leases[g][u]
      BY <1>1, <1>2, <2>4, RowReplaced
    <2>6. leases[f][v].status = "leased"
      BY <1>2, <2>1, <2>2 DEF Store!Renew, Store!Owned, Store!Leased
    <2>7. \A g \in Feeds : \A u \in DOMAIN leases[g] :
             Changed(s, at, g, u, leases[g][u], leases'[g][u])
      BY <1>2, <1>7, <2>2, <2>3, <2>5, <2>6 DEF Changed, Touches
    <2>8. leases'[f][v].expires = at + LeaseMs
      <3>1. leases[f][v] \in Store!Row
        BY <1>1, <1>2, <2>4
      <3> QED BY <2>3, <2>5, <3>1 DEF Store!Row
    <2> QED BY <1>2, <1>7, <2>2, <2>4, <2>5, <2>7, <2>8
  <1>8. CASE UpdateRuns(s, at, result, version) /\ result = "ok" /\ s.op # "renew"
    <2>1. PICK v : v = s.version
      OBVIOUS
    <2>2. s.op # "acquire" /\ Store!Finish(f, v, at, Ended(s.op))
      BY <1>2, <1>8, <2>1 DEF UpdateRuns, Store!Release, Store!MarkFailed, Store!MarkConfirmed, Ended
    <2>3. PICK row : row = [leases[f][v] EXCEPT !.status = Ended(s.op)]
      OBVIOUS
    <2>4. /\ v \in DOMAIN leases[f]
          /\ leases' = [leases EXCEPT ![f] = [leases[f] EXCEPT ![v] = row]]
      BY <2>2, <2>3 DEF Store!Finish, Store!Owned, Store!Leased
    <2>5. /\ leases'[f][v] = row
          /\ \A g \in Feeds : DOMAIN leases'[g] = DOMAIN leases[g]
          /\ \A g \in Feeds : \A u \in DOMAIN leases[g] :
                g # f \/ u # v => leases'[g][u] = leases[g][u]
      BY <1>1, <1>2, <2>4, RowReplaced
    <2>6. leases[f][v].status = "leased"
      BY <2>2 DEF Store!Finish, Store!Owned, Store!Leased
    <2>7. \A g \in Feeds : \A u \in DOMAIN leases[g] :
             Changed(s, at, g, u, leases[g][u], leases'[g][u])
      BY <1>2, <1>8, <2>1, <2>2, <2>3, <2>5, <2>6 DEF Changed, Touches
    <2> QED BY <1>8, <2>5, <2>7
  <1> QED BY <1>4, <1>5, <1>6, <1>7, <1>8 DEF TakesEffect, AcquireRuns, UpdateRuns,
             Store!AcquireActive

(* The same, field by field.                                               *)
LEMMA ChangedFields ==
    ASSUME NEW s \in Statement, NEW at, NEW f, NEW v, NEW old \in Store!Row, NEW new,
           Changed(s, at, f, v, old, new)
    PROVE  /\ new.window = old.window
           /\ ~(Touches(s, f, v) /\ s.op = "renew") => new.expires = old.expires
           /\ \/ new.status = old.status /\ (old.status # "leased" => new.expires = old.expires)
              \/ new.status = "expired" /\ old.expires <= now /\ new.expires = old.expires
              \/ /\ Touches(s, f, v) /\ s.op # "renew" /\ old.status = "leased"
                 /\ new.status = Ended(s.op)
  <1>1. CASE new = old
    BY <1>1
  <1>2. CASE old.status = "leased" /\ old.expires <= now /\ new = [old EXCEPT !.status = "expired"]
    BY <1>2 DEF Store!Row
  <1>3. CASE /\ Touches(s, f, v) /\ old.status = "leased" /\ s.op = "renew"
             /\ new = [old EXCEPT !.expires = at + LeaseMs]
    BY <1>3 DEF Store!Row
  <1>4. CASE /\ Touches(s, f, v) /\ old.status = "leased" /\ s.op # "renew"
             /\ new = [old EXCEPT !.status = Ended(s.op)]
    <2>1. PICK status : status = Ended(s.op)
      OBVIOUS
    <2>2. new = [old EXCEPT !.status = status]
      BY <1>4, <2>1
    <2>3. new.window = old.window /\ new.expires = old.expires /\ new.status = status
      BY <2>2 DEF Store!Row
    <2> QED BY <1>4, <2>1, <2>3
  <1> QED BY <1>1, <1>2, <1>3, <1>4 DEF Changed

LEMMA EndedStatus ==
    ASSUME NEW s \in Statement, s.op \notin {"acquire", "renew"}
    PROVE  \/ s.op = "release" /\ Ended(s.op) = "released"
           \/ s.op = "markFailed" /\ Ended(s.op) = "failed"
           \/ s.op = "markConfirmed" /\ Ended(s.op) = "confirmed"
  BY DEF Statement, Ops, Ended

(* A statement that is warranted takes effect: the rows stay true of the   *)
(* messages, and a lease that is held changes by its renewal or its expiry *)
(* only.                                                                   *)
LEMMA RowsStep ==
    ASSUME CycleInv, Store!TypeOK, AttemptInv, NEW s \in Statement,
           NEW at \in Store!StatementTimes, NEW result, NEW version,
           TakesEffect(s, at, result, version), StatementOK(s),
           s.op \notin {"acquire", "renew"} =>
               \A q \in Replicas : ~Holds(q, s.feed, s.version),
           UNCHANGED <<now, cycle, flights, sent>>
    PROVE  /\ \A f \in Feeds : \A v \in DOMAIN leases[f] : v \in DOMAIN leases'[f]
           /\ FlightsOK' /\ MessagesOK' /\ RowsOK'
           /\ \A q \in Replicas : \A f \in Feeds, v \in Nat : Holds(q, f, v) =>
                 /\ leases'[f][v].status \in {"leased", "expired"}
                 /\ ~(Touches(s, f, v) /\ s.op = "renew") =>
                       leases'[f][v].expires = leases[f][v].expires
           /\ \A t \in Statement : StatementOK(t) => StatementOK(t)'
  <1>1. /\ \A f \in Feeds : \A v \in DOMAIN leases[f] :
              /\ v \in DOMAIN leases'[f]
              /\ Changed(s, at, f, v, leases[f][v], leases'[f][v])
        /\ \A f \in Feeds : \A v \in DOMAIN leases'[f] : v \notin DOMAIN leases[f] =>
              leases'[f][v].status = "leased"
    BY EffectOnRows
  <1>2. \A f \in Feeds : \A v \in DOMAIN leases[f] : leases[f][v] \in Store!Row /\ v \in Nat
    BY DEF Store!TypeOK
  <1>3. \A f \in Feeds : \A v \in DOMAIN leases[f] :
           LET old == leases[f][v]
               new == leases'[f][v]
           IN  /\ new.window = old.window
               /\ ~(Touches(s, f, v) /\ s.op = "renew") => new.expires = old.expires
               /\ \/ new.status = old.status /\ (old.status # "leased" => new.expires = old.expires)
                  \/ new.status = "expired" /\ old.expires <= now /\ new.expires = old.expires
                  \/ /\ Touches(s, f, v) /\ s.op # "renew" /\ old.status = "leased"
                     /\ new.status = Ended(s.op)
    BY <1>1, <1>2, ChangedFields
  <1>4. \A f \in Feeds, v \in Nat : Touches(s, f, v) =>
           s.op # "acquire" /\ s.feed = f /\ s.version = v /\ Warranted(s.op, f, v)
    BY DEF Touches, StatementOK
  <1>5. /\ \A f, v : Unsent(f, v)' <=> Unsent(f, v)
        /\ \A f, v, fate : HasMessage(f, v, fate)' <=> HasMessage(f, v, fate)
    BY DEF Unsent, HasMessage
  <1>6. FlightsOK'
    <2>1. \A x \in flights : x.feed \in Feeds
      BY DEF CycleInv, Flight
    <2> QED BY <1>1, <2>1 DEF FlightsOK, AttemptInv
  <1>7. MessagesOK'
    <2>1. \A m \in sent : m.feed \in Feeds /\ Row(m)' = leases'[m.feed][m.version]
                          /\ Row(m) = leases[m.feed][m.version]
      BY DEF AttemptInv, MessagesOK, Message, Row
    <2> QED BY <1>1, <1>3, <2>1 DEF MessagesOK, AttemptInv
  <1>8. RowsOK'
    <2> SUFFICES ASSUME NEW f \in Feeds, NEW v \in DOMAIN leases'[f]
                 PROVE  (/\ leases[f][v].status = "released" => Unsent(f, v)
                         /\ leases[f][v].status = "failed" => HasMessage(f, v, "returned")
                         /\ leases[f][v].status = "confirmed" => HasMessage(f, v, "queued")
                         /\ leases[f][v].status = "expired" => leases[f][v].expires <= now)'
      BY DEF RowsOK
    <2>1. CASE v \notin DOMAIN leases[f]
      BY <1>1, <2>1
    <2>2. CASE v \in DOMAIN leases[f] /\ leases'[f][v].status = leases[f][v].status
      BY <1>2, <1>3, <1>5, <2>2 DEF RowsOK, AttemptInv
    <2>3. CASE /\ v \in DOMAIN leases[f] /\ leases'[f][v].status = "expired"
               /\ leases[f][v].expires <= now /\ leases'[f][v].expires = leases[f][v].expires
      BY <2>3
    <2>4. CASE /\ v \in DOMAIN leases[f] /\ Touches(s, f, v) /\ s.op # "renew"
               /\ leases'[f][v].status = Ended(s.op)
      <3>1. Warranted(s.op, f, v) /\ s.op \notin {"acquire", "renew"}
        BY <1>2, <1>4, <2>4
      <3>2. CASE s.op = "release" /\ Ended(s.op) = "released"
        BY <1>5, <2>4, <3>1, <3>2 DEF Warranted
      <3>3. CASE s.op = "markFailed" /\ Ended(s.op) = "failed"
        BY <1>5, <2>4, <3>1, <3>3 DEF Warranted
      <3>4. CASE s.op = "markConfirmed" /\ Ended(s.op) = "confirmed"
        BY <1>5, <2>4, <3>1, <3>4 DEF Warranted
      <3> QED BY <3>1, <3>2, <3>3, <3>4, EndedStatus
    <2> QED BY <1>3, <2>1, <2>2, <2>3, <2>4
  <1>9. ASSUME NEW q \in Replicas, NEW f \in Feeds, NEW v \in Nat, Holds(q, f, v)
        PROVE  /\ leases'[f][v].status \in {"leased", "expired"}
               /\ ~(Touches(s, f, v) /\ s.op = "renew") =>
                     leases'[f][v].expires = leases[f][v].expires
    <2>1. v \in DOMAIN leases[f] /\ leases[f][v].status \in {"leased", "expired"}
      BY <1>9 DEF AttemptInv, HoldersOK
    <2>2. ~(Touches(s, f, v) /\ s.op # "renew")
      BY <1>4, <1>9
    <2> QED BY <1>3, <2>1, <2>2
  <1>10. ASSUME NEW t \in Statement, StatementOK(t) PROVE StatementOK(t)'
    <2>1. t.feed \in Feeds
      BY DEF Statement
    <2> QED BY <1>1, <1>5, <1>10, <2>1 DEF StatementOK, Warranted
  <1> QED BY <1>1, <1>6, <1>7, <1>8, <1>9, <1>10

-----------------------------------------------------------------------------
(* Nothing in what is said of a replica depends on the others' locals.     *)
LEMMA OtherReplica ==
    ASSUME NEW q, cycle'[q] = cycle[q], call'[q] = call[q]
    PROVE  /\ \A f, v : Holds(q, f, v)' <=> Holds(q, f, v)
           /\ Feed(q)' = Feed(q)
           /\ \A result : Answered(q, result)' <=> Answered(q, result)
  BY DEF Holds, Feed, Answered

(* With fewer publications and the same messages and rows a statement is   *)
(* still warranted.                                                        *)
LEMMA StillWarranted ==
    ASSUME UNCHANGED <<leases, sent>>, flights' \subseteq flights
    PROVE  /\ \A f, v : Unsent(f, v) => Unsent(f, v)'
           /\ \A f, v, fate : HasMessage(f, v, fate) => HasMessage(f, v, fate)'
           /\ \A t : StatementOK(t) => StatementOK(t)'
  <1>1. /\ \A f, v : Unsent(f, v) => Unsent(f, v)'
        /\ \A f, v, fate : HasMessage(f, v, fate) => HasMessage(f, v, fate)'
    BY DEF Unsent, HasMessage
  <1> QED BY <1>1 DEF StatementOK, Warranted

(* A replica is done with its lease, if it had one: it writes the reason   *)
(* into the row, leaves its last statement behind, or does neither.        *)
LEMMA LetsGo ==
    ASSUME CycleInv, AttemptInv, NEW r \in Replicas,
           \A q \in Replicas \ {r} : cycle'[q] = cycle[q] /\ call'[q] = call[q],
           UNCHANGED <<leases, now, sent>>, flights' \subseteq flights,
           cycle'[r].step \notin Holding,
           call'[r] = NoCall \/ (call'[r].result = "pending" /\ CallOK(r)'),
           \A s \in orphans' : s \in orphans \/ (call[r] # NoCall /\ s = call[r].stmt)
    PROVE  AttemptInv'
  <1>1. \A f, v : ~Holds(r, f, v)'
    BY DEF Holds, Answered, NoCall
  <1>2. \A q \in Replicas : \A f, v : Holds(q, f, v)' => q # r /\ Holds(q, f, v)
    BY <1>1, OtherReplica
  <1>3. \A t : StatementOK(t) => StatementOK(t)'
    BY StillWarranted
  <1>4. OrphansOK'
    <2> SUFFICES ASSUME NEW s \in orphans'
                 PROVE  /\ StatementOK(s)'
                        /\ s.op # "acquire" =>
                              \A q \in Replicas : ~Holds(q, s.feed, s.version)'
      BY DEF OrphansOK
    <2>1. CASE s \in orphans
      BY <1>2, <1>3, <2>1 DEF OrphansOK, AttemptInv
    <2>2. CASE call[r] # NoCall /\ s = call[r].stmt
      <3>1. /\ StatementOK(s)
            /\ s.op # "acquire" => \A q \in Replicas : Holds(q, s.feed, s.version) => q = r
        BY <2>2 DEF CallsOK, CallOK, AttemptInv
      <3> QED BY <1>2, <1>3, <3>1
    <2> QED BY <2>1, <2>2
  <1>5. CallsOK'
    <2> SUFFICES ASSUME NEW q \in Replicas, call'[q] # NoCall, q # r PROVE CallOK(q)'
      BY DEF CallsOK
    <2>1. CallOK(q) /\ call'[q] = call[q] /\ cycle'[q] = cycle[q] /\ Feed(q)' = Feed(q)
      BY OtherReplica DEF CallsOK, AttemptInv
    <2> QED BY <1>2, <1>3, <2>1 DEF CallOK
  <1>6. HoldersOK'
    <2> SUFFICES ASSUME NEW q \in Replicas, NEW f \in Feeds, NEW v \in Nat, Holds(q, f, v)'
                 PROVE  /\ v \in DOMAIN leases'[f]
                        /\ leases'[f][v].status \in {"leased", "expired"}
                        /\ cycle'[q].step # "publishing" => Unsent(f, v)'
                        /\ \A p \in Replicas : Holds(p, f, v)' => p = q
      BY DEF HoldersOK
    <2>1. Holds(q, f, v) /\ cycle'[q] = cycle[q]
      BY <1>2
    <2> QED BY <1>2, <2>1, StillWarranted DEF HoldersOK, AttemptInv
  <1>7. RenewedOK'
    <2> SUFFICES ASSUME NEW q \in Replicas,
                        \/ cycle'[q].step = "publishing"
                        \/ cycle'[q].step = "renewing" /\ Answered(q, "ok")'
                 PROVE  leases'[Feed(q)'][cycle'[q].version].expires >= cycle'[q].deadline
      BY DEF RenewedOK
    <2>1. q # r
      BY DEF Holding
    <2> QED BY <2>1, OtherReplica DEF RenewedOK, AttemptInv
  <1>8. FlightsOK' /\ MessagesOK'
    <2>1. \A m \in sent : Row(m)' = Row(m)
      BY DEF Row
    <2> QED BY <2>1 DEF FlightsOK, MessagesOK, AttemptInv
  <1>9. RowsOK'
    BY StillWarranted DEF RowsOK, AttemptInv
  <1> QED BY <1>4, <1>5, <1>6, <1>7, <1>8, <1>9 DEF AttemptInv

(* A replica goes on with the lease it has, and may begin to publish.      *)
LEMMA KeepsHold ==
    ASSUME CycleInv, CycleInv', AttemptInv, NEW r \in Replicas, NEW fresh,
           \A q \in Replicas \ {r} : cycle'[q] = cycle[q] /\ call'[q] = call[q],
           UNCHANGED <<leases, now, sent, orphans>>,
           cycle[r].step # "publishing",
           \A f, v : Holds(r, f, v)' => Holds(r, f, v),
           flights' = flights \cup fresh,
           \A x \in fresh : Holds(r, x.feed, x.version) /\ cycle'[r].step = "publishing",
           \A x, y \in fresh : x = y,
           call'[r] # NoCall => CallOK(r)',
           \/ cycle'[r].step = "publishing"
           \/ cycle'[r].step = "renewing" /\ Answered(r, "ok")'
           => leases[Feed(r)'][cycle'[r].version].expires >= cycle'[r].deadline
    PROVE  AttemptInv'
  <1>1. \A q \in Replicas : \A f, v : Holds(q, f, v)' => Holds(q, f, v)
    BY OtherReplica
  <1>2. \A x \in flights' : x.feed \in Feeds /\ x.version \in Nat
    BY DEF CycleInv, Flight
  <1>3. \A x \in fresh : /\ x.version \in DOMAIN leases[x.feed]
                         /\ leases[x.feed][x.version].status \in {"leased", "expired"}
                         /\ Unsent(x.feed, x.version)
                         /\ \A q \in Replicas : Holds(q, x.feed, x.version) => q = r
    BY <1>2 DEF HoldersOK, AttemptInv
  <1>4. \A f, v : Unsent(f, v) /\ ~Holds(r, f, v) => Unsent(f, v)'
    BY DEF Unsent, Token
  <1>5. \A f, v, fate : HasMessage(f, v, fate) => HasMessage(f, v, fate)'
    BY DEF HasMessage
  <1>6. \A t : /\ StatementOK(t)
               /\ t.op \notin {"acquire", "renew"} => ~Holds(r, t.feed, t.version)
               => StatementOK(t)'
    BY <1>4, <1>5 DEF StatementOK, Warranted
  <1>7. OrphansOK'
    BY <1>1, <1>6 DEF OrphansOK, AttemptInv
  <1>8. CallsOK'
    <2> SUFFICES ASSUME NEW q \in Replicas, call'[q] # NoCall, q # r PROVE CallOK(q)'
      BY DEF CallsOK
    <2>1. CallOK(q) /\ call'[q] = call[q] /\ cycle'[q] = cycle[q] /\ Feed(q)' = Feed(q)
      BY OtherReplica DEF CallsOK, AttemptInv
    <2> QED BY <1>1, <1>6, <2>1 DEF CallOK
  <1>9. HoldersOK'
    <2> SUFFICES ASSUME NEW q \in Replicas, NEW f \in Feeds, NEW v \in Nat, Holds(q, f, v)'
                 PROVE  /\ v \in DOMAIN leases'[f]
                        /\ leases'[f][v].status \in {"leased", "expired"}
                        /\ cycle'[q].step # "publishing" => Unsent(f, v)'
                        /\ \A p \in Replicas : Holds(p, f, v)' => p = q
      BY DEF HoldersOK
    <2>1. /\ Holds(q, f, v) /\ v \in DOMAIN leases[f]
          /\ leases[f][v].status \in {"leased", "expired"}
          /\ cycle[q].step # "publishing" => Unsent(f, v)
          /\ \A p \in Replicas : Holds(p, f, v) => p = q
      BY <1>1 DEF HoldersOK, AttemptInv
    <2>2. CASE q = r
      <3>1. cycle'[q].step # "publishing" => fresh = {}
        BY <2>2
      <3> QED BY <1>1, <2>1, <2>2, <3>1 DEF Unsent
    <2>3. CASE q # r
      BY <1>1, <1>4, <2>1, <2>3
    <2> QED BY <2>2, <2>3
  <1>10. RenewedOK'
    <2> SUFFICES ASSUME NEW q \in Replicas,
                        \/ cycle'[q].step = "publishing"
                        \/ cycle'[q].step = "renewing" /\ Answered(q, "ok")'
                 PROVE  leases'[Feed(q)'][cycle'[q].version].expires >= cycle'[q].deadline
      BY DEF RenewedOK
    <2>1. CASE q = r
      BY <2>1
    <2>2. CASE q # r
      BY <2>2, OtherReplica DEF RenewedOK, AttemptInv
    <2> QED BY <2>1, <2>2
  <1>11. FlightsOK'
    <2> SUFFICES ASSUME NEW x \in flights'
                 PROVE  /\ x.version \in DOMAIN leases'[x.feed]
                        /\ \A y \in flights' : Token(x) = Token(y) => x = y
                        /\ x.phase # "sent" => \A m \in sent' : Token(m) # Token(x)
      BY DEF FlightsOK, Token
    <2>1. \A y \in fresh : \A z \in sent \cup flights : Token(z) # Token(y)
      BY <1>3 DEF Unsent, Token
    <2>2. CASE x \in fresh
      BY <1>3, <2>1, <2>2
    <2>3. CASE x \in flights
      BY <2>1, <2>3 DEF FlightsOK, AttemptInv
    <2> QED BY <2>2, <2>3
  <1>12. MessagesOK'
    <2>1. \A m \in sent : Row(m)' = Row(m)
      BY DEF Row
    <2> QED BY <2>1 DEF MessagesOK, AttemptInv
  <1>13. RowsOK'
    <2> SUFFICES ASSUME NEW f \in Feeds, NEW v \in DOMAIN leases[f],
                        leases[f][v].status = "released"
                 PROVE  Unsent(f, v)'
      BY <1>5 DEF RowsOK, AttemptInv
    <2>1. Unsent(f, v)
      BY DEF RowsOK, AttemptInv
    <2>2. \A x \in fresh : Token(x) # <<f, v>>
      BY <1>3 DEF Token
    <2> QED BY <2>1, <2>2 DEF Unsent
  <1> QED BY <1>7, <1>8, <1>9, <1>10, <1>11, <1>12, <1>13 DEF AttemptInv

(* The same before the publication.                                        *)
LEMMA GoesOn ==
    ASSUME CycleInv, CycleInv', AttemptInv, NEW r \in Replicas,
           \A q \in Replicas \ {r} : cycle'[q] = cycle[q] /\ call'[q] = call[q],
           UNCHANGED <<leases, now, sent, orphans, flights>>,
           cycle[r].step # "publishing", cycle'[r].step # "publishing",
           \A f, v : Holds(r, f, v)' => Holds(r, f, v),
           call'[r] # NoCall => CallOK(r)',
           ~Answered(r, "ok")'
    PROVE  AttemptInv'
  <1>1. PICK fresh : fresh = {}
    OBVIOUS
  <1>2. flights' = flights \cup fresh /\ \A x : x \notin fresh
    BY <1>1
  <1> QED BY <1>2, KeepsHold

(* The messages go their way, the clock runs on, and the replicas wait.    *)
LEMMA WorldMoves ==
    ASSUME CycleInv, AttemptInv, UNCHANGED <<leases, cycle, call, orphans>>,
           now \in Nat, now' \in Nat, now' >= now, Store!TypeOK,
           \A x \in sent' \cup flights' :
               \E y \in sent \cup flights : Token(x) = Token(y),
           \A m \in sent : m.fate # "wire" => m \in sent',
           FlightsOK', MessagesOK'
    PROVE  AttemptInv'
  <1>1. /\ \A f, v : Unsent(f, v) => Unsent(f, v)'
        /\ \A f, v, fate : HasMessage(f, v, fate) /\ fate # "wire" => HasMessage(f, v, fate)'
    BY DEF Unsent, HasMessage, Token
  <1>2. \A t : StatementOK(t) => StatementOK(t)'
    BY <1>1 DEF StatementOK, Warranted
  <1>3. /\ \A q, f, v : Holds(q, f, v)' <=> Holds(q, f, v)
        /\ \A q : Feed(q)' = Feed(q)
        /\ \A q, result : Answered(q, result)' <=> Answered(q, result)
    BY DEF Holds, Feed, Answered
  <1>4. OrphansOK'
    BY <1>2, <1>3 DEF OrphansOK, AttemptInv
  <1>5. CallsOK'
    <2> SUFFICES ASSUME NEW q \in Replicas, call[q] # NoCall PROVE CallOK(q)'
      BY DEF CallsOK
    <2>1. CallOK(q)
      BY DEF CallsOK, AttemptInv
    <2> QED BY <1>2, <1>3, <2>1 DEF CallOK
  <1>6. HoldersOK'
    BY <1>1, <1>3 DEF HoldersOK, AttemptInv
  <1>7. RenewedOK'
    BY <1>3 DEF RenewedOK, AttemptInv
  <1>8. RowsOK'
    <2> SUFFICES ASSUME NEW f \in Feeds, NEW v \in DOMAIN leases[f]
                 PROVE  (/\ leases[f][v].status = "released" => Unsent(f, v)
                         /\ leases[f][v].status = "failed" => HasMessage(f, v, "returned")
                         /\ leases[f][v].status = "confirmed" => HasMessage(f, v, "queued")
                         /\ leases[f][v].status = "expired" => leases[f][v].expires <= now)'
      BY DEF RowsOK
    <2>1. leases[f][v].expires \in Nat
      <3>1. leases[f][v] \in Store!Row
        BY DEF Store!TypeOK
      <3> QED BY <3>1 DEF Store!Row
    <2> QED BY <1>1, <2>1 DEF RowsOK, AttemptInv
  <1> QED BY <1>4, <1>5, <1>6, <1>7, <1>8 DEF AttemptInv

-----------------------------------------------------------------------------
(* The locals of the others stay when one replica moves.                   *)
LEMMA OneMoves ==
    ASSUME CycleInv, NEW r \in Replicas, NEW c, NEW k,
           cycle' = [cycle EXCEPT ![r] = c], call' = [call EXCEPT ![r] = k]
    PROVE  /\ cycle'[r] = c /\ call'[r] = k
           /\ \A q \in Replicas \ {r} : cycle'[q] = cycle[q] /\ call'[q] = call[q]
  BY DEF CycleInv

(* A replica drops what it was doing.                                      *)
LEMMA Drops ==
    ASSUME CycleInv, AttemptInv, NEW r \in Replicas, NEW c,
           cycle' = [cycle EXCEPT ![r] = c], call' = [call EXCEPT ![r] = NoCall],
           UNCHANGED <<leases, now, sent>>, flights' \subseteq flights,
           UNCHANGED orphans \/ Abandoned(r), c.step \notin Holding
    PROVE  AttemptInv'
  <1>1. /\ cycle'[r] = c /\ call'[r] = NoCall
        /\ \A q \in Replicas \ {r} : cycle'[q] = cycle[q] /\ call'[q] = call[q]
    BY OneMoves
  <1>2. \A s \in orphans' : s \in orphans \/ (call[r] # NoCall /\ s = call[r].stmt)
    BY DEF Abandoned, Answered
  <1> QED BY <1>1, <1>2, LetsGo

(* A replica writes the outcome of the lease it holds into its row.        *)
LEMMA Closes ==
    ASSUME CycleInv, AttemptInv, NEW r \in Replicas, NEW c, NEW op,
           NEW f \in Feeds, NEW v \in Nat, f = Feed(r), v = cycle[r].version,
           cycle[r].step \in Holding, c.step \notin Holding,
           cycle' = [cycle EXCEPT ![r] = c], c.due = cycle[r].due,
           op \in OpsAt(c.step), op # "acquire", op # "renew", Send(r, op, v),
           UNCHANGED <<leases, now, sent, orphans>>, flights' \subseteq flights,
           Warranted(op, f, v)'
    PROVE  AttemptInv'
  <1>1. PICK k : k = [stmt |-> [op |-> op, feed |-> f, window |-> cycle[r].window,
                                version |-> v],
                      result |-> "pending", version |-> 0]
    OBVIOUS
  <1>2. /\ k.result = "pending" /\ k.stmt.op = op
        /\ k.stmt.feed = f /\ k.stmt.version = v
    BY <1>1
  <1>3. /\ cycle'[r] = c /\ call'[r] = k
        /\ \A q \in Replicas \ {r} : cycle'[q] = cycle[q] /\ call'[q] = call[q]
    <2>1. call' = [call EXCEPT ![r] = k]
      BY <1>1 DEF Send
    <2> QED BY <2>1, OneMoves
  <1>4. Feed(r)' = f
    BY <1>3 DEF Feed
  <1>5. Holds(r, f, v)
    BY DEF Holds
  <1>6. v \in DOMAIN leases[f] /\ \A q \in Replicas : Holds(q, f, v) => q = r
    BY <1>5 DEF HoldersOK, AttemptInv
  <1>7. \A q \in Replicas : ~Holds(q, f, v)'
    <2>1. ~Holds(r, f, v)'
      BY <1>2, <1>3 DEF Holds, Answered
    <2> QED BY <1>3, <1>6, <2>1, OtherReplica
  <1>8. CallOK(r)'
    BY <1>2, <1>3, <1>4, <1>6, <1>7 DEF CallOK, StatementOK
  <1> QED BY <1>2, <1>3, <1>8, LetsGo

(* What is known of a replica that awaits a statement.                     *)
LEMMA Awaiting ==
    ASSUME CycleInv, AttemptInv, NEW r \in Replicas, call[r] # NoCall
    PROVE  /\ CallOK(r) /\ cycle[r].step \in Calling /\ cycle[r].step \in Busy
           /\ cycle[r].step # "publishing" /\ call[r].stmt \in Statement
           /\ call[r].stmt.op = "acquire" => cycle[r].step = "acquiring"
           /\ call[r].stmt.op = "renew" => cycle[r].step = "renewing"
           /\ call[r].stmt.op \in {"release", "markFailed"} => cycle[r].step = "settling"
           /\ call[r].stmt.op = "markConfirmed" => cycle[r].step = "confirming"
  <1>1. CallOK(r) /\ cycle[r].step \in Calling
    BY DEF CallsOK, AttemptInv, CycleInv
  <1>2. call[r].stmt.op \in OpsAt(cycle[r].step)
    BY <1>1 DEF CallOK
  <1>3. \A step \in Calling : /\ "acquire" \in OpsAt(step) => step = "acquiring"
                              /\ "renew" \in OpsAt(step) => step = "renewing"
                              /\ "release" \in OpsAt(step) => step = "settling"
                              /\ "markFailed" \in OpsAt(step) => step = "settling"
                              /\ "markConfirmed" \in OpsAt(step) => step = "confirming"
    BY DEF OpsAt, Calling, Busy
  <1>4. call[r].stmt \in Statement
    BY DEF CycleInv, Call
  <1>5. cycle[r].step \in Busy /\ cycle[r].step # "publishing"
    BY <1>1 DEF Calling
  <1> QED BY <1>1, <1>2, <1>3, <1>4, <1>5

(* A decision that ends is followed by the next.                           *)
LEMMA NextStep ==
    ASSUME CycleInv, NEW r \in Replicas, cycle[r].step \in Busy
    PROVE  /\ NextDecision(cycle[r]).step = "next"
           /\ CountFailure(NextDecision(cycle[r])).step = "next"
           /\ CountConfirmed(NextDecision(cycle[r])).step = "next"
           /\ CountFailure(CountAttempt(NextDecision(cycle[r]))).step = "next"
  <1>1. PICK n \in Cycle : n = NextDecision(cycle[r])
    BY BusyReplica
  <1>2. n.step = "next"
    BY <1>1, BusyReplica DEF NextDecision, Cycle
  <1>3. CountAttempt(n) \in Cycle /\ CountAttempt(n).step = "next"
    BY <1>2, CountType
  <1> QED BY <1>1, <1>2, <1>3, CountType

(* The first statement of an attempt: nothing is held yet.                 *)
LEMMA BeginAcquireStep ==
    ASSUME CycleInv, AttemptInv, NEW r \in Replicas, BeginAcquire(r)
    PROVE  AttemptInv'
  <1>1. PICK c : c = [cycle[r] EXCEPT !.step = "acquiring"]
    OBVIOUS
  <1>2. PICK k : k = [stmt |-> [op |-> "acquire", feed |-> Feed(r),
                                window |-> cycle[r].window, version |-> 0],
                      result |-> "pending", version |-> 0]
    OBVIOUS
  <1>3. cycle' = [cycle EXCEPT ![r] = c] /\ call' = [call EXCEPT ![r] = k]
    BY <1>1, <1>2 DEF BeginAcquire, Send, CycleInv
  <1>4. /\ cycle'[r] = c /\ call'[r] = k
        /\ \A q \in Replicas \ {r} : cycle'[q] = cycle[q] /\ call'[q] = call[q]
    BY <1>3, OneMoves
  <1>5. c.step = "acquiring" /\ c.due = cycle[r].due
    BY <1>1 DEF CycleInv, Cycle
  <1>6. k.result = "pending" /\ k.stmt.op = "acquire" /\ k.stmt.feed = Feed(r)
    BY <1>2
  <1>7. Feed(r)' = Feed(r)
    BY <1>4, <1>5 DEF Feed
  <1>8. CallOK(r)'
    BY <1>4, <1>5, <1>6, <1>7 DEF CallOK, StatementOK, OpsAt, Ops
  <1>9. UNCHANGED <<leases, now, orphans, flights, sent>>
    BY DEF BeginAcquire
  <1> QED BY <1>4, <1>5, <1>6, <1>8, <1>9, LetsGo DEF Holding

(* The answer becomes the replica's lease.                                 *)
LEMMA AcquiredStep ==
    ASSUME CycleInv, CycleInv', AttemptInv, NEW r \in Replicas, Acquired(r)
    PROVE  AttemptInv'
  <1>1. PICK c : c = [cycle[r] EXCEPT !.step = "acquired", !.version = call[r].version,
                              !.attempted = @ + 1, !.scheduled = @ + 1]
    OBVIOUS
  <1>2. cycle' = [cycle EXCEPT ![r] = c] /\ call' = [call EXCEPT ![r] = NoCall]
    BY <1>1 DEF Acquired, CallSucceeds, Forget, CycleInv
  <1>3. /\ cycle'[r] = c /\ call'[r] = NoCall
        /\ \A q \in Replicas \ {r} : cycle'[q] = cycle[q] /\ call'[q] = call[q]
    BY <1>2, OneMoves
  <1>4. c.step = "acquired" /\ c.due = cycle[r].due /\ c.version = call[r].version
    BY <1>1 DEF CycleInv, Cycle
  <1>5. /\ Answered(r, "acquired") /\ cycle[r].step # "publishing"
        /\ UNCHANGED <<leases, now, sent, orphans, flights>>
    BY Awaiting DEF Acquired, CallSucceeds, Answered
  <1>6. \A f, v : Holds(r, f, v)' => Holds(r, f, v)
    BY <1>3, <1>4, <1>5 DEF Holds, Feed, Answered, Holding
  <1>7. ~Answered(r, "ok")'
    BY <1>3 DEF Answered
  <1> QED BY <1>3, <1>4, <1>5, <1>6, <1>7, GoesOn

(* The renewal is sent for the lease that is held.                         *)
LEMMA BeginRenewStep ==
    ASSUME CycleInv, CycleInv', AttemptInv, NEW r \in Replicas, BeginRenew(r)
    PROVE  AttemptInv'
  <1>1. PICK c : c = [cycle[r] EXCEPT !.step = "renewing", !.deadline = now + LeaseMs]
    OBVIOUS
  <1>2. PICK f, v : f = Feed(r) /\ v = cycle[r].version
    OBVIOUS
  <1>3. PICK k : k = [stmt |-> [op |-> "renew", feed |-> f, window |-> cycle[r].window,
                                version |-> v],
                      result |-> "pending", version |-> 0]
    OBVIOUS
  <1>4. cycle' = [cycle EXCEPT ![r] = c] /\ call' = [call EXCEPT ![r] = k]
    BY <1>1, <1>2, <1>3 DEF BeginRenew, Send, CycleInv
  <1>5. /\ cycle'[r] = c /\ call'[r] = k
        /\ \A q \in Replicas \ {r} : cycle'[q] = cycle[q] /\ call'[q] = call[q]
    BY <1>4, OneMoves
  <1>6. c.step = "renewing" /\ c.due = cycle[r].due /\ c.version = v
    BY <1>1, <1>2 DEF CycleInv, Cycle
  <1>7. /\ k.result = "pending" /\ k.stmt.op = "renew"
        /\ k.stmt.feed = f /\ k.stmt.version = v
    BY <1>3
  <1>8. /\ cycle[r].step = "acquired" /\ f \in Feeds /\ v \in Nat
        /\ UNCHANGED <<leases, now, sent, orphans, flights>>
    <2>1. cycle[r].step = "acquired" /\ UNCHANGED <<leases, now, sent, orphans, flights>>
      BY DEF BeginRenew
    <2> QED BY <1>2, <2>1, BusyReplica DEF Busy, CycleInv, Cycle
  <1>9. Feed(r)' = f
    BY <1>2, <1>5, <1>6 DEF Feed
  <1>10. \A g, u : Holds(r, g, u)' => Holds(r, g, u)
    BY <1>2, <1>5, <1>6, <1>7, <1>8, <1>9 DEF Holds, Answered, Holding
  <1>11. /\ v \in DOMAIN leases[f]
         /\ \A q \in Replicas : Holds(q, f, v) => q = r
    <2>1. Holds(r, f, v)
      BY <1>2, <1>8 DEF Holds, Holding
    <2> QED BY <1>8, <2>1 DEF HoldersOK, AttemptInv
  <1>12. \A q \in Replicas : Holds(q, f, v)' => q = r
    BY <1>5, <1>11, OtherReplica
  <1>13. CallOK(r)'
    BY <1>5, <1>6, <1>7, <1>8, <1>9, <1>11, <1>12
       DEF CallOK, StatementOK, Warranted, OpsAt, Ops
  <1>14. ~Answered(r, "ok")'
    BY <1>5, <1>7 DEF Answered
  <1> QED BY <1>5, <1>6, <1>8, <1>10, <1>13, <1>14, GoesOn

(* The renewed lease is published under.                                   *)
LEMMA StartPublicationStep ==
    ASSUME CycleInv, CycleInv', AttemptInv, NEW r \in Replicas, StartPublication(r)
    PROVE  AttemptInv'
  <1>1. PICK c : c = [cycle[r] EXCEPT !.step = "publishing"]
    OBVIOUS
  <1>2. PICK f, v : f = Feed(r) /\ v = cycle[r].version
    OBVIOUS
  <1>3. PICK fl : fl = [replica |-> r, feed |-> f, version |-> v,
                        phase |-> "connecting", since |-> now]
    OBVIOUS
  <1>4. cycle' = [cycle EXCEPT ![r] = c] /\ call' = [call EXCEPT ![r] = NoCall]
    BY <1>1 DEF StartPublication, CallSucceeds, Forget, CycleInv
  <1>5. /\ cycle'[r] = c /\ call'[r] = NoCall
        /\ \A q \in Replicas \ {r} : cycle'[q] = cycle[q] /\ call'[q] = call[q]
    BY <1>4, OneMoves
  <1>6. /\ c.step = "publishing" /\ c.due = cycle[r].due /\ c.version = v
        /\ c.deadline = cycle[r].deadline
    BY <1>1, <1>2 DEF CycleInv, Cycle
  <1>7. /\ cycle[r].step = "renewing" /\ Answered(r, "ok")
        /\ UNCHANGED <<leases, now, sent, orphans>> /\ flights' = flights \cup {fl}
    BY <1>2, <1>3, Awaiting DEF StartPublication, CallSucceeds, Answered
  <1>8. Feed(r)' = f
    BY <1>2, <1>5, <1>6 DEF Feed
  <1>9. Holds(r, f, v)
    BY <1>2, <1>7 DEF Holds, Holding
  <1>10. \A g, u : Holds(r, g, u)' => Holds(r, g, u)
    BY <1>2, <1>5, <1>6, <1>8, <1>9 DEF Holds, Answered
  <1>11. leases[f][v].expires >= cycle[r].deadline
    BY <1>2, <1>7 DEF RenewedOK, AttemptInv
  <1>12. fl.feed = f /\ fl.version = v
    BY <1>3
  <1>13. PICK fresh : fresh = {fl}
    OBVIOUS
  <1>14. /\ \A x \in fresh : Holds(r, x.feed, x.version) /\ cycle'[r].step = "publishing"
         /\ \A x, y \in fresh : x = y
         /\ flights' = flights \cup fresh
    BY <1>5, <1>6, <1>7, <1>9, <1>12, <1>13
  <1>15. leases[Feed(r)'][cycle'[r].version].expires >= cycle'[r].deadline
    BY <1>5, <1>6, <1>8, <1>11
  <1> QED BY <1>5, <1>7, <1>10, <1>14, <1>15, KeepsHold

(* The lease is given back before anything was published under it.         *)
LEMMA GiveBackStep ==
    ASSUME CycleInv, AttemptInv, NEW r \in Replicas, CommandRejected(r) \/ RenewedTooLate(r)
    PROVE  AttemptInv'
  <1>1. PICK n \in Cycle : n = CountFailure(cycle[r]) /\ n.due = cycle[r].due
    BY CountType DEF CycleInv
  <1>2. PICK c : c = [n EXCEPT !.step = "settling"]
    OBVIOUS
  <1>3. c.step = "settling" /\ c.due = cycle[r].due
    BY <1>1, <1>2 DEF Cycle
  <1>4. PICK f, v : f = Feed(r) /\ v = cycle[r].version
    OBVIOUS
  <1>5. /\ cycle[r].step \in {"acquired", "renewing"}
        /\ cycle' = [cycle EXCEPT ![r] = c] /\ Send(r, "release", v)
        /\ UNCHANGED <<leases, now, sent, orphans, flights>>
    BY <1>1, <1>2, <1>4, Awaiting DEF CommandRejected, RenewedTooLate, Answered
  <1>6. f \in Feeds /\ v \in Nat
    BY <1>4, <1>5, BusyReplica DEF Busy, CycleInv, Cycle
  <1>7. Holds(r, f, v)
    BY <1>4, <1>5 DEF Holds, Holding
  <1>8. Unsent(f, v)
    BY <1>5, <1>6, <1>7 DEF HoldersOK, AttemptInv
  <1>9. Warranted("release", f, v)'
    BY <1>5, <1>8, StillWarranted DEF Warranted
  <1>10. cycle[r].step \in Holding /\ c.step \notin Holding /\ "release" \in OpsAt(c.step)
    BY <1>3, <1>5 DEF Holding, OpsAt, Ops
  <1> QED BY <1>3, <1>4, <1>5, <1>6, <1>9, <1>10, Closes

(* What the steps before an attempt change.                                *)
LEMMA BetweenAttempts ==
    ASSUME CycleInv, NEW r \in Replicas,
           StartCycle(r) \/ ListReturns(r) \/ ListFails(r) \/ FinishCycle(r)
    PROVE  /\ cycle[r].step \notin Busy /\ UNCHANGED <<leases, now, orphans, flights, sent>>
           /\ call' = [call EXCEPT ![r] = NoCall]
           /\ \E c : cycle' = [cycle EXCEPT ![r] = c] /\ c.step \in {"idle", "listing", "next"}
  <1>1. cycle[r].step \notin Busy /\ UNCHANGED <<leases, now, call, orphans, flights, sent>>
    BY DEF StartCycle, ListReturns, ListFails, FinishCycle, Busy
  <1>2. call' = [call EXCEPT ![r] = NoCall]
    BY <1>1 DEF CycleInv, Calling
  <1>3. CASE StartCycle(r)
    <2> DEFINE c == [cycle[r] EXCEPT !.step = "listing", !.window = WindowAt(now)]
    <2>1. cycle' = [cycle EXCEPT ![r] = c] /\ c.step = "listing"
      BY <1>3 DEF StartCycle, CycleInv, Cycle
    <2> QED BY <1>1, <1>2, <2>1
  <1>4. CASE ListReturns(r)
    <2>1. PICK due : cycle' = [cycle EXCEPT ![r].step = "next", ![r].due = due]
      BY <1>4, Zenon DEF ListReturns
    <2> DEFINE c == [cycle[r] EXCEPT !.step = "next", !.due = due]
    <2>2. cycle' = [cycle EXCEPT ![r] = c] /\ c.step = "next"
      BY <2>1 DEF CycleInv, Cycle
    <2> QED BY <1>1, <1>2, <2>2
  <1>5. CASE ListFails(r) \/ FinishCycle(r)
    BY <1>1, <1>2, <1>5 DEF ListFails, FinishCycle, Idle
  <1> QED BY <1>3, <1>4, <1>5

(* What the answers that end an attempt change.                            *)
LEMMA AttemptsEnd ==
    ASSUME CycleInv, AttemptInv, NEW r \in Replicas,
           \/ NotAcquired(r) \/ AcquireFails(r) \/ RenewFails(r) \/ SettlingEnds(r)
           \/ Confirmed(r) \/ ConfirmFails(r)
    PROVE  /\ call[r] # NoCall /\ UNCHANGED <<leases, now, flights, sent>>
           /\ UNCHANGED orphans \/ Abandoned(r)
           /\ call' = [call EXCEPT ![r] = NoCall]
           /\ \E c : cycle' = [cycle EXCEPT ![r] = c] /\ c.step = "next"
  <1>1. /\ call[r] # NoCall /\ Forget(r) /\ (UNCHANGED orphans \/ Abandoned(r))
        /\ UNCHANGED <<leases, now, flights, sent>>
    BY DEF NotAcquired, AcquireFails, RenewFails, SettlingEnds, Confirmed,
           ConfirmFails, CallFails, CallSucceeds, Answered
  <1>2. PICK c : /\ c \in {NextDecision(cycle[r]), CountFailure(NextDecision(cycle[r])),
                           CountConfirmed(NextDecision(cycle[r])),
                           CountFailure(CountAttempt(NextDecision(cycle[r])))}
                 /\ cycle' = [cycle EXCEPT ![r] = c]
    BY DEF NotAcquired, AcquireFails, RenewFails, SettlingEnds, Confirmed, ConfirmFails
  <1>3. c.step = "next"
    BY <1>1, <1>2, NextStep, Awaiting
  <1> QED BY <1>1, <1>2, <1>3 DEF Forget

(* The steps of a cycle keep the rows and the messages in accord.          *)
LEMMA CycleStepKeeps ==
    ASSUME CycleInv, CycleInv', AttemptInv, NEW r \in Replicas, CycleStep(r) \/ Crash(r)
    PROVE  AttemptInv'
  <1>1. /\ call = [call EXCEPT ![r] = call[r]]
        /\ call[r] # NoCall => cycle[r].step \in Calling
    BY DEF CycleInv
  <1>2. {"idle", "listing", "next"} \cap (Holding \cup Busy) = {}
    BY DEF Holding, Busy
  <1>3. CASE StartCycle(r) \/ ListReturns(r) \/ ListFails(r) \/ FinishCycle(r)
    <2>1. PICK c : /\ cycle' = [cycle EXCEPT ![r] = c] /\ c.step \in {"idle", "listing", "next"}
                   /\ call' = [call EXCEPT ![r] = NoCall]
                   /\ UNCHANGED <<leases, now, orphans, flights, sent>>
      BY <1>3, BetweenAttempts
    <2> QED BY <1>2, <2>1, Drops
  <1>4. CASE BeginAcquire(r)
    BY <1>4, BeginAcquireStep
  <1>5. CASE Acquired(r)
    BY <1>5, AcquiredStep
  <1>6. CASE CommandRejected(r) \/ RenewedTooLate(r)
    BY <1>6, GiveBackStep
  <1>7. CASE BeginRenew(r)
    BY <1>7, BeginRenewStep
  <1>8. CASE StartPublication(r)
    BY <1>8, StartPublicationStep
  <1>9. CASE DeadlineTimer(r)
    <2>1. cycle[r].step = "publishing" /\ UNCHANGED <<leases, now, call, orphans, flights, sent>>
      BY <1>9 DEF DeadlineTimer
    <2>2. cycle[r].step \in Busy /\ call' = [call EXCEPT ![r] = NoCall]
      BY <1>1, <2>1 DEF Busy, Calling
    <2>3. PICK c : c = CountFailure(NextDecision(cycle[r]))
      OBVIOUS
    <2>4. cycle' = [cycle EXCEPT ![r] = c] /\ c.step = "next"
      BY <1>9, <2>2, <2>3, NextStep DEF DeadlineTimer
    <2> QED BY <1>2, <2>1, <2>2, <2>4, Drops
  <1>10. CASE NotAcquired(r) \/ AcquireFails(r) \/ RenewFails(r) \/ SettlingEnds(r)
              \/ Confirmed(r) \/ ConfirmFails(r)
    <2>1. PICK c : /\ cycle' = [cycle EXCEPT ![r] = c] /\ c.step = "next"
                   /\ call' = [call EXCEPT ![r] = NoCall] /\ call[r] # NoCall
                   /\ (UNCHANGED orphans \/ Abandoned(r))
                   /\ UNCHANGED <<leases, now, flights, sent>>
      BY <1>10, AttemptsEnd
    <2> QED BY <1>2, <2>1, Drops
  <1>11. CASE Crash(r)
    <2>1. Idle.step = "idle"
      BY DEF Idle
    <2>2. flights' \subseteq flights
      BY <1>11 DEF Crash
    <2> QED BY <1>2, <1>11, <2>1, <2>2, Drops DEF Crash, Forget
  <1> QED BY <1>3, <1>4, <1>5, <1>6, <1>7, <1>8, <1>9, <1>10, <1>11 DEF CycleStep

-----------------------------------------------------------------------------
(* The channel takes the message.                                          *)
LEMMA HandOverStep ==
    ASSUME CycleInv, Store!TypeOK, AttemptInv, NEW fl \in flights, HandOver(fl)
    PROVE  AttemptInv'
  <1>1. PICK gone : gone = [fl EXCEPT !.phase = "sent", !.since = now]
    OBVIOUS
  <1>2. PICK m : m = [feed |-> fl.feed, version |-> fl.version,
                      window |-> leases[fl.feed][fl.version].window, fate |-> "wire"]
    OBVIOUS
  <1>3. fl \in Flight /\ fl.feed \in Feeds /\ fl.version \in Nat
    BY DEF CycleInv, Flight
  <1>4. /\ gone.feed = fl.feed /\ gone.version = fl.version /\ gone.phase = "sent"
        /\ Token(gone) = Token(fl) /\ Token(m) = Token(fl)
        /\ m.feed = fl.feed /\ m.version = fl.version /\ m.fate = "wire"
        /\ m.window = leases[fl.feed][fl.version].window
    BY <1>1, <1>2, <1>3 DEF Flight, Token
  <1>5. /\ fl.phase = "connecting"
        /\ flights' = (flights \ {fl}) \cup {gone} /\ sent' = sent \cup {m}
        /\ UNCHANGED <<leases, now, cycle, call, orphans>>
    BY <1>1, <1>2 DEF HandOver
  <1>6. fl.version \in DOMAIN leases[fl.feed]
    BY DEF FlightsOK, AttemptInv
  <1>7. m \in Message
    <2>1. leases[fl.feed][fl.version] \in Store!Row
      BY <1>3, <1>6 DEF Store!TypeOK
    <2>2. leases[fl.feed][fl.version].window \in Windows
      BY <2>1 DEF Store!Row
    <2> QED BY <1>2, <1>3, <2>2 DEF Message
  <1>8. FlightsOK'
    <2> SUFFICES ASSUME NEW x \in flights'
                 PROVE  /\ x.version \in DOMAIN leases[x.feed]
                        /\ \A y \in flights' : Token(x) = Token(y) => x = y
                        /\ x.phase # "sent" => \A n \in sent' : Token(n) # Token(x)
      BY <1>5 DEF FlightsOK, Token
    <2>1. \A x1 \in flights \ {fl} : Token(x1) # Token(fl)
      BY DEF FlightsOK, AttemptInv
    <2>2. CASE x = gone
      BY <1>4, <1>5, <1>6, <2>1, <2>2
    <2>3. CASE x \in flights \ {fl}
      BY <1>4, <1>5, <2>1, <2>3 DEF FlightsOK, AttemptInv
    <2> QED BY <1>5, <2>2, <2>3
  <1>9. MessagesOK'
    <2>1. \A n : Row(n)' = Row(n) /\ Row(n) = leases[n.feed][n.version]
      BY <1>5 DEF Row
    <2> QED BY <1>4, <1>5, <1>6, <1>7, <2>1 DEF MessagesOK, AttemptInv
  <1>10. \A x \in sent' \cup flights' : \E y \in sent \cup flights : Token(x) = Token(y)
    BY <1>4, <1>5
  <1>11. now \in Nat /\ now' = now /\ \A n \in sent : n \in sent'
    BY <1>5 DEF Store!TypeOK
  <1> QED BY <1>5, <1>8, <1>9, <1>10, <1>11, WorldMoves

(* The set-up fails, and the publication goes on without a message.        *)
LEMMA SetupFailsStep ==
    ASSUME CycleInv, Store!TypeOK, AttemptInv, NEW fl \in flights, SetupFails(fl)
    PROVE  AttemptInv'
  <1>1. PICK gone : gone = [fl EXCEPT !.phase = "closing", !.since = now]
    OBVIOUS
  <1>2. /\ gone.version = fl.version /\ gone.feed = fl.feed /\ gone.phase = "closing"
        /\ Token(gone) = Token(fl)
    BY <1>1 DEF CycleInv, Flight, Token
  <1>3. /\ fl.phase = "connecting" /\ flights' = (flights \ {fl}) \cup {gone}
        /\ UNCHANGED <<leases, now, cycle, call, orphans, sent>>
    BY <1>1 DEF SetupFails
  <1>4. \A m \in sent : Token(m) # Token(fl)
    BY <1>3 DEF FlightsOK, AttemptInv
  <1>5. FlightsOK'
    <2> SUFFICES ASSUME NEW x \in flights'
                 PROVE  /\ x.version \in DOMAIN leases[x.feed]
                        /\ \A y \in flights' : Token(x) = Token(y) => x = y
                        /\ x.phase # "sent" => \A m \in sent : Token(m) # Token(x)
      BY <1>3 DEF FlightsOK, Token
    <2>1. /\ fl.version \in DOMAIN leases[fl.feed]
          /\ \A y \in flights \ {fl} : Token(y) # Token(fl)
      BY DEF FlightsOK, AttemptInv
    <2>2. CASE x = gone
      BY <1>2, <1>3, <1>4, <2>1, <2>2
    <2>3. CASE x \in flights \ {fl}
      BY <1>2, <1>3, <2>1, <2>3 DEF FlightsOK, AttemptInv
    <2> QED BY <1>3, <2>2, <2>3
  <1>6. MessagesOK'
    <2>1. \A m : Row(m)' = Row(m)
      BY <1>3 DEF Row
    <2> QED BY <1>3, <2>1 DEF MessagesOK, AttemptInv
  <1>7. \A x \in sent' \cup flights' : \E y \in sent \cup flights : Token(x) = Token(y)
    BY <1>2, <1>3
  <1>8. now \in Nat /\ now' = now /\ \A m \in sent : m \in sent'
    BY <1>3 DEF Store!TypeOK
  <1> QED BY <1>3, <1>5, <1>6, <1>7, <1>8, WorldMoves

(* The publication that a replica awaits is the one under its lease.       *)
LEMMA Publishing ==
    ASSUME CycleInv, AttemptInv, NEW fl \in flights, Settles(fl)
    PROVE  /\ fl.replica \in Replicas /\ fl.feed \in Feeds /\ fl.version \in Nat
           /\ fl.feed = Feed(fl.replica) /\ fl.version = cycle[fl.replica].version
           /\ cycle[fl.replica].step = "publishing" /\ cycle[fl.replica].step \in Busy
           /\ call[fl.replica] = NoCall
           /\ call = [call EXCEPT ![fl.replica] = NoCall]
           /\ UNCHANGED <<leases, now, orphans, sent>> /\ flights' = flights \ {fl}
  <1>1. /\ fl.replica \in Replicas /\ fl.feed \in Feeds /\ fl.version \in Nat
        /\ fl.feed = Feed(fl.replica) /\ fl.version = cycle[fl.replica].version
        /\ cycle[fl.replica].step = "publishing"
        /\ UNCHANGED <<leases, now, orphans, sent>> /\ flights' = flights \ {fl}
    BY DEF Settles, Awaits, CycleInv, Flight
  <1>2. cycle[fl.replica].step \in Busy /\ call[fl.replica] = NoCall
    BY <1>1 DEF CycleInv, Calling, Busy
  <1> QED BY <1>1, <1>2 DEF CycleInv

(* A settled publication is closed with the statement it warrants.         *)
LEMMA OutcomeStep ==
    ASSUME CycleInv, AttemptInv, NEW fl \in flights,
           NotPublished(fl) \/ Rejected(fl) \/ ConfirmedInTime(fl)
    PROVE  AttemptInv'
  <1>1. PICK r \in Replicas, f \in Feeds, v \in Nat :
           /\ fl.replica = r /\ fl.feed = f /\ fl.version = v
           /\ f = Feed(r) /\ v = cycle[r].version /\ cycle[r].step = "publishing"
           /\ UNCHANGED <<leases, now, orphans, sent>> /\ flights' = flights \ {fl}
    BY Publishing DEF NotPublished, Rejected, ConfirmedInTime
  <1>2. cycle[r].step \in Holding
    BY <1>1 DEF Holding
  <1>3. PICK n \in Cycle : n = CountFailure(cycle[r]) /\ n.due = cycle[r].due
    BY CountType DEF CycleInv
  <1>4. PICK c : c = [n EXCEPT !.step = "settling"]
    OBVIOUS
  <1>5. c.step = "settling" /\ c.due = cycle[r].due /\ c.step \notin Holding
        /\ "release" \in OpsAt(c.step) /\ "markFailed" \in OpsAt(c.step)
    BY <1>3, <1>4 DEF Cycle, Holding, OpsAt, Ops
  <1>6. \A fate : fate \in Fate(fl) => HasMessage(f, v, fate)'
    <2>1. \A fate : fate \in Fate(fl) => HasMessage(f, v, fate)
      BY <1>1 DEF Fate, HasMessage, Token
    <2> QED BY <1>1, <2>1 DEF HasMessage
  <1>7. CASE NotPublished(fl)
    <2>1. cycle' = [cycle EXCEPT ![r] = c] /\ Send(r, "release", v) /\ fl.phase # "sent"
      BY <1>1, <1>3, <1>4, <1>7 DEF NotPublished
    <2>2. Unsent(f, v)'
      <3>1. \A x \in flights \ {fl} : Token(x) # <<f, v>>
        BY <1>1 DEF FlightsOK, AttemptInv, Token
      <3>2. \A m \in sent : Token(m) # <<f, v>>
        BY <1>1, <2>1 DEF FlightsOK, AttemptInv, Token
      <3> QED BY <1>1, <3>1, <3>2 DEF Unsent
    <2>3. Warranted("release", f, v)'
      BY <2>2 DEF Warranted
    <2> QED BY <1>1, <1>2, <1>5, <2>1, <2>3, Closes
  <1>8. CASE Rejected(fl)
    <2>1. cycle' = [cycle EXCEPT ![r] = c] /\ Send(r, "markFailed", v)
          /\ Fate(fl) = {"returned"}
      BY <1>1, <1>3, <1>4, <1>8 DEF Rejected
    <2>2. Warranted("markFailed", f, v)'
      BY <1>6, <2>1 DEF Warranted
    <2> QED BY <1>1, <1>2, <1>5, <2>1, <2>2, Closes
  <1>9. CASE ConfirmedInTime(fl)
    <2>1. PICK d : d = [cycle[r] EXCEPT !.step = "confirming"]
      OBVIOUS
    <2>2. cycle' = [cycle EXCEPT ![r] = d] /\ Send(r, "markConfirmed", v)
          /\ Fate(fl) = {"queued"}
      BY <1>1, <1>9, <2>1 DEF ConfirmedInTime, CycleInv
    <2>3. d.step = "confirming" /\ d.due = cycle[r].due /\ d.step \notin Holding
          /\ "markConfirmed" \in OpsAt(d.step)
      BY <2>1 DEF CycleInv, Cycle, Holding, OpsAt, Ops
    <2>4. Warranted("markConfirmed", f, v)'
      BY <1>6, <2>2 DEF Warranted
    <2> QED BY <1>1, <1>2, <2>2, <2>3, <2>4, Closes
  <1> QED BY <1>7, <1>8, <1>9

(* The steps of a publication keep the rows and the messages in accord.    *)
LEMMA PublicationStepKeeps ==
    ASSUME CycleInv, Store!TypeOK, AttemptInv, NEW fl \in flights, PublicationStep(fl)
    PROVE  AttemptInv'
  <1>1. CASE HandOver(fl) \/ SetupFails(fl)
    BY <1>1, HandOverStep, SetupFailsStep
  <1>2. CASE NotPublished(fl) \/ Rejected(fl) \/ ConfirmedInTime(fl)
    BY <1>2, OutcomeStep
  <1>3. CASE Ambiguous(fl) \/ ConfirmedTooLate(fl)
    <2>1. PICK r : r = fl.replica
      OBVIOUS
    <2>2. PICK c : c = CountFailure(NextDecision(cycle[r]))
      OBVIOUS
    <2>3. cycle' = [cycle EXCEPT ![r] = c] /\ UNCHANGED call /\ Settles(fl)
      BY <1>3, <2>1, <2>2 DEF Ambiguous, ConfirmedTooLate
    <2>4. c.step = "next" /\ r \in Replicas
      BY <2>1, <2>2, <2>3, Publishing, NextStep
    <2>5. c.step \notin Holding
      BY <2>4 DEF Holding
    <2>6. /\ call' = [call EXCEPT ![r] = NoCall]
          /\ UNCHANGED <<leases, now, orphans, sent>> /\ flights' \subseteq flights
      BY <2>1, <2>3, Publishing
    <2> QED BY <2>3, <2>4, <2>5, <2>6, Drops
  <1>4. CASE UnawaitedSettles(fl)
    <2>1. /\ UNCHANGED <<leases, now, cycle, call, orphans, sent>>
          /\ flights' \subseteq flights
      BY <1>4 DEF UnawaitedSettles
    <2>2. \A m \in sent : Row(m)' = Row(m)
      BY <2>1 DEF Row
    <2>3. FlightsOK' /\ MessagesOK'
      BY <2>1, <2>2 DEF FlightsOK, MessagesOK, AttemptInv
    <2>4. now \in Nat
      BY DEF Store!TypeOK
    <2> QED BY <2>1, <2>3, <2>4, WorldMoves
  <1> QED BY <1>1, <1>2, <1>3, <1>4 DEF PublicationStep

(* So do the broker and the clock.                                         *)
LEMMA BrokerAndClock ==
    ASSUME CycleInv, Store!TypeOK, AttemptInv, BrokerStep \/ Tick
    PROVE  AttemptInv'
  <1>1. now \in Nat
    BY DEF Store!TypeOK
  <1>2. CASE BrokerStep
    <2>1. PICK m \in sent, fate \in {"queued", "returned"} : BrokerHandles(m, fate)
      BY <1>2 DEF BrokerStep
    <2>2. PICK n : n = [m EXCEPT !.fate = fate]
      OBVIOUS
    <2>3. m \in Message
      BY DEF MessagesOK, AttemptInv
    <2>4. /\ n \in Message /\ n.feed = m.feed /\ n.version = m.version /\ n.window = m.window
          /\ Token(n) = Token(m)
      BY <2>2, <2>3 DEF Message, Token
    <2>5. /\ m.fate = "wire" /\ sent' = (sent \ {m}) \cup {n}
          /\ UNCHANGED <<leases, now, cycle, call, orphans, flights>>
      BY <2>1, <2>2 DEF BrokerHandles
    <2>6. FlightsOK'
      BY <2>4, <2>5 DEF FlightsOK, AttemptInv, Token
    <2>7. MessagesOK'
      <3>1. \A x : Row(x)' = leases[x.feed][x.version] /\ Row(x) = leases[x.feed][x.version]
        BY <2>5 DEF Row
      <3> QED BY <2>4, <2>5, <3>1 DEF MessagesOK, AttemptInv
    <2> QED BY <1>1, <2>4, <2>5, <2>6, <2>7, WorldMoves
  <1>3. CASE Tick
    <2>1. now' = now + 1 /\ UNCHANGED <<leases, cycle, call, orphans, flights, sent>>
      BY <1>3 DEF Tick, Store!Tick
    <2>2. \A m \in sent : Row(m)' = Row(m)
      BY <2>1 DEF Row
    <2>3. FlightsOK' /\ MessagesOK'
      BY <2>1, <2>2 DEF FlightsOK, MessagesOK, AttemptInv
    <2> QED BY <1>1, <2>1, <2>3, WorldMoves
  <1> QED BY <1>2, <1>3

-----------------------------------------------------------------------------
(* A statement that no client awaits takes effect.                         *)
LEMMA OrphanStep ==
    ASSUME CycleInv, Store!TypeOK, AttemptInv, OrphanRuns
    PROVE  AttemptInv'
  <1>1. PICK s \in orphans, at \in Store!StatementTimes, result \in Results :
           /\ \E version : TakesEffect(s, at, result, version)
           /\ orphans' = orphans \ {s}
           /\ UNCHANGED <<now, cycle, call, flights, sent>>
    BY Zenon DEF OrphanRuns
  <1>2. PICK version : TakesEffect(s, at, result, version)
    BY <1>1
  <1>3. /\ s \in Statement /\ orphans' \subseteq orphans /\ orphans \subseteq Statement
        /\ StatementOK(s)
        /\ s.op # "acquire" => \A q \in Replicas : ~Holds(q, s.feed, s.version)
    BY <1>1 DEF CycleInv, OrphansOK, AttemptInv
  <1>4. /\ \A f \in Feeds : \A v \in DOMAIN leases[f] : v \in DOMAIN leases'[f]
        /\ FlightsOK' /\ MessagesOK' /\ RowsOK'
        /\ \A q \in Replicas : \A f \in Feeds, v \in Nat : Holds(q, f, v) =>
              /\ leases'[f][v].status \in {"leased", "expired"}
              /\ ~(Touches(s, f, v) /\ s.op = "renew") =>
                    leases'[f][v].expires = leases[f][v].expires
        /\ \A t \in Statement : StatementOK(t) => StatementOK(t)'
    BY <1>1, <1>2, <1>3, RowsStep
  <1>5. /\ \A q, f, v : Holds(q, f, v)' <=> Holds(q, f, v)
        /\ \A q : Feed(q)' = Feed(q)
        /\ \A q, res : Answered(q, res)' <=> Answered(q, res)
        /\ \A f, v : Unsent(f, v)' <=> Unsent(f, v)
    BY <1>1 DEF Holds, Feed, Answered, Unsent
  <1>6. OrphansOK'
    BY <1>3, <1>4, <1>5 DEF OrphansOK, AttemptInv
  <1>7. CallsOK'
    <2> SUFFICES ASSUME NEW q \in Replicas, call[q] # NoCall PROVE CallOK(q)'
      BY <1>1 DEF CallsOK
    <2>1. CallOK(q) /\ call[q].stmt \in Statement
      BY Awaiting
    <2> QED BY <1>1, <1>4, <1>5, <2>1 DEF CallOK
  <1>8. HoldersOK'
    <2> SUFFICES ASSUME NEW q \in Replicas, NEW f \in Feeds, NEW v \in Nat, Holds(q, f, v)
                 PROVE  /\ v \in DOMAIN leases'[f]
                        /\ leases'[f][v].status \in {"leased", "expired"}
                        /\ cycle'[q].step # "publishing" => Unsent(f, v)
                        /\ \A p \in Replicas : Holds(p, f, v) => p = q
      BY <1>5 DEF HoldersOK
    <2>1. /\ v \in DOMAIN leases[f] /\ (cycle[q].step # "publishing" => Unsent(f, v))
          /\ \A p \in Replicas : Holds(p, f, v) => p = q
      BY DEF HoldersOK, AttemptInv
    <2> QED BY <1>1, <1>4, <2>1
  <1>9. RenewedOK'
    <2> SUFFICES ASSUME NEW q \in Replicas,
                        \/ cycle[q].step = "publishing"
                        \/ cycle[q].step = "renewing" /\ Answered(q, "ok")
                 PROVE  leases'[Feed(q)][cycle[q].version].expires >= cycle[q].deadline
      BY <1>1, <1>5 DEF RenewedOK
    <2>1. PICK f, v : f = Feed(q) /\ v = cycle[q].version
      OBVIOUS
    <2>2. f \in Feeds /\ v \in Nat
      BY <2>1, BusyReplica DEF Busy, Cycle
    <2>3. Holds(q, f, v)
      BY <2>1 DEF Holds, Holding
    <2>4. ~Touches(s, f, v)
      BY <1>3, <2>3 DEF Touches
    <2>5. leases[f][v].expires >= cycle[q].deadline
      BY <2>1 DEF RenewedOK, AttemptInv
    <2> QED BY <1>4, <2>1, <2>2, <2>3, <2>4, <2>5
  <1> QED BY <1>4, <1>6, <1>7, <1>8, <1>9 DEF AttemptInv

(* A statement that is awaited takes effect: acquire gives a token that    *)
(* nobody has seen.                                                        *)
LEMMA StatementStep ==
    ASSUME CycleInv, Store!TypeOK, AttemptInv, NEW r \in Replicas, StatementRuns(r)
    PROVE  AttemptInv'
  <1>1. PICK at \in Store!StatementTimes, result \in Results,
             version \in 0..(Len(leases[call[r].stmt.feed]) + 1) :
           /\ call[r].stmt.op = "renew" => at + LeaseMs >= cycle[r].deadline
           /\ TakesEffect(call[r].stmt, at, result, version)
           /\ call' = [call EXCEPT ![r].result = result, ![r].version = version]
           /\ UNCHANGED <<now, cycle, orphans, flights, sent>>
    BY Zenon DEF StatementRuns
  <1>2. PICK s : s = call[r].stmt
    OBVIOUS
  <1>3. PICK k : k = [call[r] EXCEPT !.result = result, !.version = version]
    OBVIOUS
  <1>4. call[r] \in Call /\ call[r] # NoCall /\ Answered(r, "pending")
    BY DEF StatementRuns, Answered, CycleInv
  <1>5. k.stmt = s /\ k.result = result /\ k.version = version /\ k # NoCall
    BY <1>2, <1>3, <1>4 DEF Call, NoCall
  <1>6. call'[r] = k /\ \A q \in Replicas \ {r} : call'[q] = call[q]
    BY <1>1, <1>3 DEF CycleInv
  <1>7. /\ s \in Statement /\ s.feed = Feed(r) /\ StatementOK(s)
        /\ s.op \in OpsAt(cycle[r].step) /\ cycle[r].step # "publishing"
        /\ s.op = "renew" => s.version = cycle[r].version
        /\ s.op # "acquire" => \A q \in Replicas :
              Holds(q, s.feed, s.version) => q = r /\ s.op = "renew"
    BY <1>2, <1>4, Awaiting DEF CallOK
  <1>8. /\ \A f \in Feeds : \A v \in DOMAIN leases[f] : v \in DOMAIN leases'[f]
        /\ FlightsOK' /\ MessagesOK' /\ RowsOK'
        /\ \A q \in Replicas : \A f \in Feeds, v \in Nat : Holds(q, f, v) =>
              /\ leases'[f][v].status \in {"leased", "expired"}
              /\ ~(Touches(s, f, v) /\ s.op = "renew") =>
                    leases'[f][v].expires = leases[f][v].expires
        /\ \A t \in Statement : StatementOK(t) => StatementOK(t)'
    BY <1>1, <1>2, <1>7, RowsStep
  <1>9. /\ \A f \in Feeds : \A v \in DOMAIN leases'[f] : v \notin DOMAIN leases[f] =>
              leases'[f][v].status = "leased"
        /\ result = "acquired" =>
              /\ s.op = "acquire" /\ version \in Nat
              /\ version \notin DOMAIN leases[s.feed]
              /\ version \in DOMAIN leases'[s.feed]
        /\ result = "ok" /\ s.op = "renew" =>
              leases'[s.feed][s.version].expires = at + LeaseMs
    BY <1>1, <1>2, <1>7, EffectOnRows
  <1> DEFINE Given(q, f, v) == q = r /\ result = "acquired" /\ f = s.feed /\ v = version
  <1>10. /\ \A f, v : Unsent(f, v)' <=> Unsent(f, v)
         /\ \A q : Feed(q)' = Feed(q)
         /\ \A q \in Replicas : \A f, v : Holds(q, f, v)' => Holds(q, f, v) \/ Given(q, f, v)
    <2>1. /\ \A f, v : Unsent(f, v)' <=> Unsent(f, v)
          /\ \A q : Feed(q)' = Feed(q)
      BY <1>1 DEF Feed, Unsent
    <2>2. ASSUME NEW q \in Replicas, q # r, NEW f, NEW v, Holds(q, f, v)'
          PROVE  Holds(q, f, v)
      BY <1>1, <1>6, <2>1, <2>2 DEF Holds, Answered
    <2>3. ASSUME NEW f, NEW v, Holds(r, f, v)'
          PROVE  Holds(r, f, v) \/ Given(r, f, v)
      BY <1>1, <1>5, <1>6, <1>7, <2>1, <2>3 DEF Holds, Answered
    <2> QED BY <2>1, <2>2, <2>3
  <1>11. \A f \in Feeds : \A v \in DOMAIN leases[f] : \A q : ~Given(q, f, v)
    BY <1>9
  <1> HIDE DEF Given
  <1>12. \A q \in Replicas : \A f \in Feeds, v \in Nat :
            Holds(q, f, v) => v \in DOMAIN leases[f]
    BY DEF HoldersOK, AttemptInv
  <1>13. \A t \in Statement : StatementOK(t) /\ t.op # "acquire" =>
            \A q \in Replicas : Holds(q, t.feed, t.version)' => Holds(q, t.feed, t.version)
    BY <1>10, <1>11 DEF StatementOK, Statement
  <1>14. OrphansOK'
    <2>1. orphans \subseteq Statement /\ orphans' = orphans
      BY <1>1 DEF CycleInv
    <2> QED BY <1>8, <1>13, <2>1 DEF OrphansOK, AttemptInv
  <1>15. CallsOK'
    <2> SUFFICES ASSUME NEW q \in Replicas, call'[q] # NoCall PROVE CallOK(q)'
      BY DEF CallsOK
    <2>1. call[q] # NoCall /\ call'[q].stmt = call[q].stmt
      BY <1>2, <1>4, <1>5, <1>6
    <2>2. CallOK(q) /\ call[q].stmt \in Statement
      BY <2>1, Awaiting
    <2>3. call'[q].result = "acquired" => call[q].stmt.op = "acquire"
      BY <1>2, <1>5, <1>6, <1>9, <2>2 DEF CallOK
    <2> QED BY <1>1, <1>8, <1>10, <1>13, <2>1, <2>2, <2>3 DEF CallOK
  <1>16. HoldersOK'
    <2> SUFFICES ASSUME NEW q \in Replicas, NEW f \in Feeds, NEW v \in Nat, Holds(q, f, v)'
                 PROVE  /\ v \in DOMAIN leases'[f]
                        /\ leases'[f][v].status \in {"leased", "expired"}
                        /\ cycle'[q].step # "publishing" => Unsent(f, v)
                        /\ \A p \in Replicas : Holds(p, f, v)' => p = q
      BY <1>10 DEF HoldersOK
    <2>1. CASE Holds(q, f, v)
      <3>1. /\ v \in DOMAIN leases[f] /\ (cycle[q].step # "publishing" => Unsent(f, v))
            /\ \A p \in Replicas : Holds(p, f, v) => p = q
        BY <2>1 DEF HoldersOK, AttemptInv
      <3> QED BY <1>1, <1>8, <1>10, <1>11, <2>1, <3>1
    <2>2. CASE Given(q, f, v)
      <3>1. v \notin DOMAIN leases[f] /\ v \in DOMAIN leases'[f]
        BY <1>9, <2>2 DEF Given
      <3>2. Unsent(f, v)
        BY <3>1 DEF Unsent, Token, FlightsOK, MessagesOK, AttemptInv
      <3>3. \A p \in Replicas : Holds(p, f, v)' => p = q
        BY <1>10, <1>12, <2>2, <3>1 DEF Given
      <3> QED BY <1>9, <3>1, <3>2, <3>3
    <2> QED BY <1>10, <2>1, <2>2
  <1>17. RenewedOK'
    <2> SUFFICES ASSUME NEW q \in Replicas,
                        \/ cycle[q].step = "publishing"
                        \/ cycle[q].step = "renewing" /\ Answered(q, "ok")'
                 PROVE  leases'[Feed(q)][cycle[q].version].expires >= cycle[q].deadline
      BY <1>1, <1>10 DEF RenewedOK
    <2>1. PICK f, v : f = Feed(q) /\ v = cycle[q].version
      OBVIOUS
    <2>2. f \in Feeds /\ v \in Nat
      BY <2>1, BusyReplica DEF Busy, Cycle
    <2>3. CASE q = r
      <3>1. cycle[r].step = "renewing" /\ result = "ok"
        BY <1>5, <1>6, <1>7, <2>3 DEF Answered
      <3>2. s.op = "renew"
        BY <1>7, <3>1 DEF OpsAt
      <3> QED BY <1>1, <1>2, <1>7, <1>9, <2>3, <3>1, <3>2
    <2>4. CASE q # r
      <3>1. \/ cycle[q].step = "publishing"
            \/ cycle[q].step = "renewing" /\ Answered(q, "ok")
        BY <1>6, <2>4 DEF Answered
      <3>2. Holds(q, f, v)
        BY <2>1, <3>1 DEF Holds, Holding
      <3>3. ~Touches(s, f, v)
        BY <1>7, <2>4, <3>2 DEF Touches
      <3>4. leases[f][v].expires >= cycle[q].deadline
        BY <2>1, <3>1 DEF RenewedOK, AttemptInv
      <3> QED BY <1>8, <2>1, <2>2, <3>2, <3>3, <3>4
    <2> QED BY <2>3, <2>4
  <1> QED BY <1>8, <1>14, <1>15, <1>16, <1>17 DEF AttemptInv

-----------------------------------------------------------------------------
(* Nothing has been written and nothing sent.                              *)
LEMMA AttemptInit == Init => AttemptInv
  <1> SUFFICES ASSUME Init PROVE AttemptInv
    OBVIOUS
  <1>1. /\ \A f \in Feeds : DOMAIN leases[f] = {}
        /\ orphans = {} /\ flights = {} /\ sent = {}
        /\ \A r \in Replicas : cycle[r].step = "idle" /\ call[r] = NoCall
    BY DEF Init, Store!Init, Idle
  <1>2. \A r \in Replicas : \A f, v : ~Holds(r, f, v)
    BY <1>1 DEF Holds, Holding, Answered
  <1> QED BY <1>1, <1>2 DEF AttemptInv, OrphansOK, CallsOK, HoldersOK, RenewedOK,
                            FlightsOK, MessagesOK, RowsOK

(* AttemptInv is inductive.                                                *)
LEMMA AttemptNext ==
    ASSUME CycleInv, CycleInv', Store!TypeOK, AttemptInv, [Next]_vars
    PROVE  AttemptInv'
  <1>1. CASE UNCHANGED vars
    <2>1. /\ UNCHANGED <<leases, now, cycle, call, orphans, flights, sent>> /\ now \in Nat
          /\ \A m \in sent : Row(m)' = Row(m)
      BY <1>1 DEF vars, Row, Store!TypeOK
    <2>2. FlightsOK' /\ MessagesOK'
      BY <2>1 DEF FlightsOK, MessagesOK, AttemptInv
    <2> QED BY <2>1, <2>2, WorldMoves
  <1>2. CASE \E r \in Replicas : CycleStep(r) \/ StatementRuns(r) \/ Crash(r)
    BY <1>2, CycleStepKeeps, StatementStep
  <1>3. CASE \E fl \in flights : PublicationStep(fl)
    BY <1>3, PublicationStepKeeps
  <1>4. CASE OrphanRuns
    BY <1>4, OrphanStep
  <1>5. CASE BrokerStep \/ Tick
    BY <1>5, BrokerAndClock
  <1> QED BY <1>1, <1>2, <1>3, <1>4, <1>5 DEF Next

(* The table the replicas use is the ledger's, so that its rows are typed. *)
LEMMA TableInvariant == Spec => [](Store!TypeOK /\ Store!Safety)
  <1>1. Ledger!Spec => []Ledger!LedgerInv
    BY Ledger!LedgerInvariant, LedgerConstants DEF Store!LedgerAssumption, Ledger!LedgerAssumption
  <1>2. Ledger!LedgerInv => Store!TypeOK
    BY DEF Ledger!LedgerInv, Ledger!TypeOK, Store!TypeOK, Ledger!Row, Store!Row,
           Ledger!Statuses, Store!Statuses
  <1>3. Store!Spec => Ledger!Spec
    BY SameNext, SameInit, PTL DEF Ledger!Spec, Store!Spec
  <1> QED BY <1>1, <1>2, <1>3, CycleUsesLedger, CycleKeepsLedgerSafe, PTL

(* In every reachable state the rows, the messages, the publications and   *)
(* the statements on their way to the database tell the same story of      *)
(* every token.                                                            *)
THEOREM AttemptInvariant == Spec => []AttemptInv
  <1>1. CycleInv /\ CycleInv' /\ Store!TypeOK /\ AttemptInv /\ [Next]_vars => AttemptInv'
    BY AttemptNext
  <1> QED BY <1>1, AttemptInit, CycleInvariant, TableInvariant, PTL DEF Spec

-----------------------------------------------------------------------------
(* runOnce marks a lease confirmed only after the broker has confirmed the *)
(* message, whatever crashes and late statements come in between.          *)
THEOREM CycleConfirmedIsQueued == Spec => []ConfirmedIsQueued
  <1>1. AttemptInv => ConfirmedIsQueued
    BY DEF AttemptInv, RowsOK, HasMessage, ConfirmedIsQueued
  <1> QED BY <1>1, AttemptInvariant, PTL

(* runOnce gives a lease back only if nothing was or will be published     *)
(* under it, and marks it failed only if the broker returned the message.  *)
THEOREM CycleEarlyEndsAreDefinitive == Spec => []EarlyEndsAreDefinitive
  <1>1. AttemptInv => EarlyEndsAreDefinitive
    BY DEF AttemptInv, RowsOK, HasMessage, Unsent, EarlyEndsAreDefinitive
  <1> QED BY <1>1, AttemptInvariant, PTL

(* A window is published a second time only after the row of the first     *)
(* attempt says failed or expired: acquire grants no lease beside a live   *)
(* one and none after a confirmed one, and a released one sent nothing.    *)
THEOREM CycleRepublishedOnlyAfterExpiry == Spec => []RepublishedOnlyAfterExpiry
  <1>1. ASSUME Store!TypeOK, Store!Safety, AttemptInv
        PROVE  RepublishedOnlyAfterExpiry
    <2> SUFFICES ASSUME NEW m \in sent, NEW n \in sent,
                        m.feed = n.feed, m.window = n.window, m.version < n.version
                 PROVE  Row(m).status \in {"failed", "expired"}
      BY DEF RepublishedOnlyAfterExpiry
    <2>1. /\ m.feed \in Feeds /\ n.feed \in Feeds
          /\ m.version \in DOMAIN leases[m.feed] /\ n.version \in DOMAIN leases[m.feed]
          /\ Row(m) = leases[m.feed][m.version] /\ Row(n) = leases[m.feed][n.version]
          /\ Row(m).window = Row(n).window
      BY <1>1 DEF AttemptInv, MessagesOK, Message, Row
    <2>2. leases[m.feed] \in Seq(Store!Row)
      BY <1>1, <2>1 DEF Store!TypeOK
    <2>3. Row(m).status # "leased"
      <3>1. n.version <= Len(leases[m.feed]) /\ n.version \in Nat /\ m.version \in Nat
        BY <2>1, <2>2
      <3> QED BY <1>1, <2>1, <3>1 DEF Store!Safety, Store!OneLeasePerFeed, Store!Leased
    <2>4. Row(m).status # "confirmed"
      BY <1>1, <2>1 DEF Store!Safety, Store!ConfirmedIsFinal
    <2>5. Row(m).status # "released"
      BY <1>1, <2>1 DEF AttemptInv, RowsOK, Unsent, Token
    <2>6. Row(m) \in Store!Row
      BY <2>1, <2>2
    <2> QED BY <2>3, <2>4, <2>5, <2>6 DEF Store!Row, Store!Statuses
  <1> QED BY <1>1, AttemptInvariant, TableInvariant, PTL

(* The deadline a replica reckons from the sending of its renewal lies     *)
(* before the expiry the database wrote, and nobody else ends its lease,   *)
(* so that while it publishes and its deadline has not passed the lease is *)
(* its own.                                                                *)
THEOREM CycleOwnedUntilDeadline == Spec => []OwnedUntilDeadline
  <1>1. ASSUME CycleInv, Store!TypeOK, AttemptInv
        PROVE  OwnedUntilDeadline
    <2> SUFFICES ASSUME NEW r \in Replicas, cycle[r].step = "publishing",
                        now < cycle[r].deadline
                 PROVE  Store!Owned(Feed(r), cycle[r].version, now)
      BY DEF OwnedUntilDeadline
    <2>1. PICK f, v : f = Feed(r) /\ v = cycle[r].version
      OBVIOUS
    <2>2. f \in Feeds /\ v \in Nat /\ cycle[r].deadline \in Nat
      BY <1>1, <2>1, BusyReplica DEF Busy, Cycle
    <2>3. Holds(r, f, v)
      BY <2>1 DEF Holds, Holding
    <2>4. v \in DOMAIN leases[f] /\ leases[f][v].status \in {"leased", "expired"}
      BY <1>1, <2>2, <2>3 DEF AttemptInv, HoldersOK
    <2>5. leases[f][v].expires >= cycle[r].deadline
      BY <1>1, <2>1 DEF AttemptInv, RenewedOK
    <2>6. leases[f][v].expires \in Nat /\ now \in Nat
      <3>1. leases[f][v] \in Store!Row
        BY <1>1, <2>2, <2>4 DEF Store!TypeOK
      <3> QED BY <1>1, <3>1 DEF Store!TypeOK, Store!Row
    <2>7. leases[f][v].status = "expired" => leases[f][v].expires <= now
      BY <1>1, <2>2, <2>4 DEF AttemptInv, RowsOK
    <2> QED BY <2>1, <2>2, <2>4, <2>5, <2>6, <2>7 DEF Store!Owned, Store!Leased
  <1> QED BY <1>1, AttemptInvariant, CycleInvariant, TableInvariant, PTL

-----------------------------------------------------------------------------
(* What is known of the counters at each step of a cycle.                  *)
CountersOK(c) ==
    /\ c.scheduled <= c.attempted /\ c.attempted <= Concurrency
    /\ c.step \in {"idle", "listing"} => c.attempted = 0 /\ c.confirmed = 0 /\ c.failed = 0
    /\ c.step \in {"next", "acquiring", "settling"} => c.confirmed + c.failed = c.attempted
    /\ c.step = "acquiring" => c.attempted < Concurrency
    /\ c.step \in {"acquired", "renewing", "publishing", "confirming"} =>
          c.confirmed + c.failed + 1 = c.attempted

Counted == \A r \in Replicas : CountersOK(cycle[r])

(* What the counting leaves in the other counters.                         *)
LEMMA CountFields ==
    ASSUME NEW c \in Cycle
    PROVE  /\ LET n == NextDecision(c) IN
              /\ n.step = "next" /\ n.attempted = c.attempted /\ n.scheduled = c.scheduled
              /\ n.confirmed = c.confirmed /\ n.failed = c.failed
           /\ LET n == CountFailure(c) IN
              /\ n.step = c.step /\ n.attempted = c.attempted /\ n.scheduled = c.scheduled
              /\ n.confirmed = c.confirmed /\ n.failed = c.failed + 1
           /\ LET n == CountAttempt(c) IN
              /\ n.step = c.step /\ n.attempted = c.attempted + 1 /\ n.scheduled = c.scheduled
              /\ n.confirmed = c.confirmed /\ n.failed = c.failed
           /\ LET n == CountConfirmed(c) IN
              /\ n.step = c.step /\ n.attempted = c.attempted /\ n.scheduled = c.scheduled
              /\ n.confirmed = c.confirmed + 1 /\ n.failed = c.failed
  BY DEF NextDecision, CountFailure, CountAttempt, CountConfirmed, Cycle

(* One replica moves and its counters stay right.                          *)
LEMMA CounterMoves ==
    ASSUME CycleInv, Counted, NEW r \in Replicas, NEW c,
           cycle' = [cycle EXCEPT ![r] = c], CountersOK(c)
    PROVE  Counted'
  BY DEF Counted, CycleInv, CountersOK

(* The ways an attempt ends.                                               *)
LEMMA AttemptEnds ==
    ASSUME CycleInv, Counted, NEW r \in Replicas, cycle[r].step \in Busy
    PROVE  LET n == NextDecision(cycle[r]) IN
           /\ cycle[r].step \in {"acquiring", "settling"} => CountersOK(n)
           /\ cycle[r].step = "acquiring" => CountersOK(CountFailure(CountAttempt(n)))
           /\ cycle[r].step \in {"acquired", "renewing", "publishing", "confirming"} =>
                 CountersOK(CountFailure(n)) /\ CountersOK(CountConfirmed(n))
  <1>1. PICK c \in Cycle : c = cycle[r]
    BY DEF CycleInv
  <1>2. CountersOK(c) /\ Concurrency \in Nat
    BY <1>1, CycleAssumption DEF Counted
  <1>3. PICK n \in Cycle : n = NextDecision(c)
    BY <1>1, BusyReplica
  <1>4. /\ n.step = "next" /\ n.attempted = c.attempted /\ n.scheduled = c.scheduled
        /\ n.confirmed = c.confirmed /\ n.failed = c.failed
    BY <1>3, CountFields
  <1>5. PICK a \in Cycle : a = CountAttempt(n)
    BY CountType
  <1>6. PICK b : b = CountFailure(a)
    OBVIOUS
  <1>7. PICK d : d = CountFailure(n)
    OBVIOUS
  <1>8. PICK e : e = CountConfirmed(n)
    OBVIOUS
  <1>9. /\ a.step = "next" /\ a.attempted = c.attempted + 1 /\ a.scheduled = c.scheduled
        /\ a.confirmed = c.confirmed /\ a.failed = c.failed
    BY <1>4, <1>5, CountFields
  <1>10. /\ b.step = "next" /\ b.attempted = c.attempted + 1 /\ b.scheduled = c.scheduled
         /\ b.confirmed = c.confirmed /\ b.failed = c.failed + 1
    BY <1>6, <1>9, CountFields
  <1>11. /\ d.step = "next" /\ d.attempted = c.attempted /\ d.scheduled = c.scheduled
         /\ d.confirmed = c.confirmed /\ d.failed = c.failed + 1
         /\ e.step = "next" /\ e.attempted = c.attempted /\ e.scheduled = c.scheduled
         /\ e.confirmed = c.confirmed + 1 /\ e.failed = c.failed
    BY <1>4, <1>7, <1>8, CountFields
  <1>12. /\ c.attempted \in Nat /\ c.scheduled \in Nat
         /\ c.confirmed \in Nat /\ c.failed \in Nat
    BY DEF Cycle
  <1>13. /\ c.step \in {"acquiring", "settling"} => CountersOK(n)
         /\ c.step = "acquiring" => CountersOK(b)
         /\ c.step \in {"acquired", "renewing", "publishing", "confirming"} =>
               CountersOK(d) /\ CountersOK(e)
    BY <1>2, <1>4, <1>10, <1>11, <1>12 DEF CountersOK
  <1> QED BY <1>1, <1>3, <1>5, <1>6, <1>7, <1>8, <1>13

(* How an attempt goes on, and what is counted there.                      *)
GoesOnTo(d, c) ==
    /\ c.attempted = d.attempted /\ c.scheduled = d.scheduled /\ c.confirmed = d.confirmed
    /\ \/ c.step = "listing" /\ d.step = "idle" /\ c.failed = d.failed
       \/ c.step = "next" /\ d.step = "listing" /\ c.failed = d.failed
       \/ /\ c.step = "acquiring" /\ d.step = "next" /\ c.failed = d.failed
          /\ d.attempted < Concurrency
       \/ /\ c.step \in {"renewing", "publishing", "confirming"}
          /\ d.step \in {"acquired", "renewing", "publishing"} /\ c.failed = d.failed
       \/ /\ c.step = "settling" /\ d.step \in {"acquired", "renewing", "publishing"}
          /\ c.failed = d.failed + 1

LEMMA AttemptGoesOn ==
    ASSUME NEW d \in Cycle, CountersOK(d), NEW c, GoesOnTo(d, c)
    PROVE  CountersOK(c)
  <1>1. /\ d.attempted \in Nat /\ d.scheduled \in Nat /\ d.confirmed \in Nat
        /\ d.failed \in Nat /\ Concurrency \in Nat
    BY CycleAssumption DEF Cycle
  <1> QED BY <1>1 DEF GoesOnTo, CountersOK

(* The steps of a cycle.                                                   *)
LEMMA CycleStepCounts ==
    ASSUME CycleInv, AttemptInv, Counted, NEW r \in Replicas, CycleStep(r) \/ Crash(r)
    PROVE  Counted'
  <1>1. /\ cycle[r] \in Cycle /\ CountersOK(cycle[r])
        /\ call[r] # NoCall => cycle[r].step \in Busy
    BY DEF CycleInv, Counted, Calling
  <1>2. PICK n : n = CountFailure(cycle[r])
    OBVIOUS
  <1>3. /\ n \in Cycle /\ n.attempted = cycle[r].attempted /\ n.scheduled = cycle[r].scheduled
        /\ n.confirmed = cycle[r].confirmed /\ n.failed = cycle[r].failed + 1
    BY <1>1, <1>2, CountType, CountFields
  <1>4. CASE StartCycle(r)
    <2> DEFINE c == [cycle[r] EXCEPT !.step = "listing", !.window = WindowAt(now)]
    <2>1. cycle' = [cycle EXCEPT ![r] = c] /\ cycle[r].step = "idle"
      BY <1>4 DEF StartCycle, CycleInv
    <2>2. /\ c.step = "listing" /\ c.attempted = cycle[r].attempted
          /\ c.scheduled = cycle[r].scheduled /\ c.confirmed = cycle[r].confirmed
          /\ c.failed = cycle[r].failed
      BY <1>1 DEF Cycle
    <2>3. GoesOnTo(cycle[r], c)
      BY <2>1, <2>2 DEF GoesOnTo
    <2> HIDE DEF c
    <2> QED BY <1>1, <2>1, <2>3, AttemptGoesOn, CounterMoves
  <1>5. CASE ListReturns(r)
    <2>1. PICK due : /\ cycle' = [cycle EXCEPT ![r].step = "next", ![r].due = due]
                     /\ cycle[r].step = "listing"
      BY <1>5, Zenon DEF ListReturns
    <2>2. PICK c : c = [cycle[r] EXCEPT !.step = "next", !.due = due]
      OBVIOUS
    <2>3. cycle' = [cycle EXCEPT ![r] = c]
      BY <2>1, <2>2 DEF CycleInv
    <2>4. /\ c.step = "next" /\ c.attempted = cycle[r].attempted
          /\ c.scheduled = cycle[r].scheduled /\ c.confirmed = cycle[r].confirmed
          /\ c.failed = cycle[r].failed
      BY <1>1, <2>2 DEF Cycle
    <2> QED BY <1>1, <2>1, <2>3, <2>4, AttemptGoesOn, CounterMoves DEF GoesOnTo
  <1>6. CASE ListFails(r) \/ FinishCycle(r) \/ Crash(r)
    <2>1. cycle' = [cycle EXCEPT ![r] = Idle]
      BY <1>6 DEF ListFails, FinishCycle, Crash
    <2>2. CountersOK(Idle)
      BY CycleAssumption DEF Idle, CountersOK
    <2> QED BY <2>1, <2>2, CounterMoves
  <1>7. CASE BeginAcquire(r)
    <2> DEFINE c == [cycle[r] EXCEPT !.step = "acquiring"]
    <2>1. /\ cycle' = [cycle EXCEPT ![r] = c]
          /\ cycle[r].step = "next" /\ cycle[r].attempted < Concurrency
      BY <1>7 DEF BeginAcquire, CycleInv
    <2>2. /\ c.step = "acquiring" /\ c.attempted = cycle[r].attempted
          /\ c.scheduled = cycle[r].scheduled /\ c.confirmed = cycle[r].confirmed
          /\ c.failed = cycle[r].failed
      BY <1>1 DEF Cycle
    <2>3. GoesOnTo(cycle[r], c)
      BY <2>1, <2>2 DEF GoesOnTo
    <2> HIDE DEF c
    <2> QED BY <1>1, <2>1, <2>3, AttemptGoesOn, CounterMoves
  <1>8. CASE Acquired(r)
    <2>1. PICK c : c = [cycle[r] EXCEPT !.step = "acquired", !.version = call[r].version,
                                !.attempted = cycle[r].attempted + 1,
                                !.scheduled = cycle[r].scheduled + 1]
      OBVIOUS
    <2>2. cycle' = [cycle EXCEPT ![r] = c] /\ cycle[r].step = "acquiring"
      BY <1>8, <2>1, Awaiting DEF Acquired, CallSucceeds, Answered, CycleInv
    <2>3. /\ c.step = "acquired" /\ c.attempted = cycle[r].attempted + 1
          /\ c.scheduled = cycle[r].scheduled + 1 /\ c.confirmed = cycle[r].confirmed
          /\ c.failed = cycle[r].failed
      BY <1>1, <2>1 DEF Cycle
    <2>4. CountersOK(c)
      BY <1>1, <2>2, <2>3, CycleAssumption DEF CountersOK, Cycle
    <2> QED BY <2>2, <2>4, CounterMoves
  <1>9. CASE CommandRejected(r) \/ RenewedTooLate(r)
    <2>1. PICK c : c = [n EXCEPT !.step = "settling"]
      OBVIOUS
    <2>2. cycle' = [cycle EXCEPT ![r] = c] /\ cycle[r].step \in {"acquired", "renewing"}
      BY <1>2, <1>9, <2>1, Awaiting DEF CommandRejected, RenewedTooLate, Answered
    <2>3. /\ c.step = "settling" /\ c.attempted = n.attempted /\ c.scheduled = n.scheduled
          /\ c.confirmed = n.confirmed /\ c.failed = n.failed
      BY <1>3, <2>1 DEF Cycle
    <2> QED BY <1>1, <1>3, <2>2, <2>3, AttemptGoesOn, CounterMoves DEF GoesOnTo
  <1>10. CASE BeginRenew(r)
    <2> DEFINE c == [cycle[r] EXCEPT !.step = "renewing", !.deadline = now + LeaseMs]
    <2>1. cycle' = [cycle EXCEPT ![r] = c] /\ cycle[r].step = "acquired"
      BY <1>10 DEF BeginRenew, CycleInv
    <2>2. /\ c.step = "renewing" /\ c.attempted = cycle[r].attempted
          /\ c.scheduled = cycle[r].scheduled /\ c.confirmed = cycle[r].confirmed
          /\ c.failed = cycle[r].failed
      BY <1>1 DEF Cycle
    <2>3. GoesOnTo(cycle[r], c)
      BY <2>1, <2>2 DEF GoesOnTo
    <2> HIDE DEF c
    <2> QED BY <1>1, <2>1, <2>3, AttemptGoesOn, CounterMoves
  <1>11. CASE StartPublication(r)
    <2> DEFINE c == [cycle[r] EXCEPT !.step = "publishing"]
    <2>1. cycle' = [cycle EXCEPT ![r] = c] /\ cycle[r].step = "renewing"
      BY <1>11, Awaiting DEF StartPublication, CallSucceeds, Answered, CycleInv
    <2>2. /\ c.step = "publishing" /\ c.attempted = cycle[r].attempted
          /\ c.scheduled = cycle[r].scheduled /\ c.confirmed = cycle[r].confirmed
          /\ c.failed = cycle[r].failed
      BY <1>1 DEF Cycle
    <2>3. GoesOnTo(cycle[r], c)
      BY <2>1, <2>2 DEF GoesOnTo
    <2> HIDE DEF c
    <2> QED BY <1>1, <2>1, <2>3, AttemptGoesOn, CounterMoves
  <1>12. CASE NotAcquired(r) \/ AcquireFails(r) \/ RenewFails(r) \/ SettlingEnds(r)
              \/ Confirmed(r) \/ ConfirmFails(r) \/ DeadlineTimer(r)
    <2> DEFINE m == NextDecision(cycle[r])
    <2>1. PICK c : /\ cycle' = [cycle EXCEPT ![r] = c]
                   /\ \/ cycle[r].step \in {"acquiring", "settling"} /\ c = m
                      \/ cycle[r].step = "acquiring" /\ c = CountFailure(CountAttempt(m))
                      \/ /\ cycle[r].step \in {"acquired", "renewing", "publishing", "confirming"}
                         /\ c = CountFailure(m) \/ c = CountConfirmed(m)
      <3> HIDE DEF m
      <3>1. CASE NotAcquired(r)
        BY <3>1, Awaiting DEF NotAcquired, CallSucceeds, Answered, m
      <3>2. CASE AcquireFails(r)
        BY <3>2, Awaiting DEF AcquireFails, CallFails, m
      <3>3. CASE RenewFails(r)
        BY <3>3, Awaiting DEF RenewFails, CallFails, m
      <3>4. CASE SettlingEnds(r)
        BY <3>4 DEF SettlingEnds, m
      <3>5. CASE Confirmed(r)
        BY <3>5, Awaiting DEF Confirmed, CallSucceeds, Answered, m
      <3>6. CASE ConfirmFails(r)
        BY <3>6, Awaiting DEF ConfirmFails, CallFails, m
      <3>7. CASE DeadlineTimer(r)
        BY <3>7 DEF DeadlineTimer, m
      <3> QED BY <1>12, <3>1, <3>2, <3>3, <3>4, <3>5, <3>6, <3>7
    <2>2. cycle[r].step \in Busy
      BY <2>1 DEF Busy
    <2>3. CountersOK(c)
      BY <2>1, <2>2, AttemptEnds
    <2> QED BY <2>1, <2>3, CounterMoves
  <1> QED BY <1>4, <1>5, <1>6, <1>7, <1>8, <1>9, <1>10, <1>11, <1>12 DEF CycleStep

(* The outcome of a publication.                                           *)
LEMMA PublicationStepCounts ==
    ASSUME CycleInv, AttemptInv, Counted, NEW fl \in flights, PublicationStep(fl)
    PROVE  Counted'
  <1>1. CASE HandOver(fl) \/ SetupFails(fl) \/ UnawaitedSettles(fl)
    BY <1>1 DEF HandOver, SetupFails, UnawaitedSettles, Counted, CountersOK
  <1>2. CASE \/ NotPublished(fl) \/ Rejected(fl) \/ Ambiguous(fl)
             \/ ConfirmedInTime(fl) \/ ConfirmedTooLate(fl)
    <2>1. PICK r \in Replicas : /\ fl.replica = r /\ cycle[r].step = "publishing"
                                /\ cycle[r].step \in Busy
      BY <1>2, Publishing DEF NotPublished, Rejected, Ambiguous, ConfirmedInTime,
                              ConfirmedTooLate
    <2>2. cycle[r] \in Cycle /\ CountersOK(cycle[r])
      BY DEF CycleInv, Counted
    <2>3. CASE NotPublished(fl) \/ Rejected(fl)
      <3>1. PICK n : n = CountFailure(cycle[r])
        OBVIOUS
      <3>2. PICK c : c = [n EXCEPT !.step = "settling"]
        OBVIOUS
      <3>3. /\ n \in Cycle /\ n.attempted = cycle[r].attempted
            /\ n.scheduled = cycle[r].scheduled /\ n.confirmed = cycle[r].confirmed
            /\ n.failed = cycle[r].failed + 1
        BY <2>2, <3>1, CountType, CountFields
      <3>4. cycle' = [cycle EXCEPT ![r] = c]
        BY <2>1, <2>3, <3>1, <3>2 DEF NotPublished, Rejected
      <3>5. /\ c.step = "settling" /\ c.attempted = n.attempted /\ c.scheduled = n.scheduled
            /\ c.confirmed = n.confirmed /\ c.failed = n.failed
        BY <3>2, <3>3 DEF Cycle
      <3> QED BY <2>1, <2>2, <3>3, <3>4, <3>5, AttemptGoesOn, CounterMoves DEF GoesOnTo
    <2>4. CASE Ambiguous(fl) \/ ConfirmedTooLate(fl)
      <3>1. PICK c : c = CountFailure(NextDecision(cycle[r]))
        OBVIOUS
      <3>2. cycle' = [cycle EXCEPT ![r] = c]
        BY <2>1, <2>4, <3>1 DEF Ambiguous, ConfirmedTooLate
      <3>3. CountersOK(c)
        BY <2>1, <3>1, AttemptEnds
      <3> QED BY <3>2, <3>3, CounterMoves
    <2>5. CASE ConfirmedInTime(fl)
      <3> DEFINE c == [cycle[r] EXCEPT !.step = "confirming"]
      <3>1. cycle' = [cycle EXCEPT ![r] = c]
        BY <2>1, <2>5 DEF ConfirmedInTime, CycleInv
      <3>2. /\ c.step = "confirming" /\ c.attempted = cycle[r].attempted
            /\ c.scheduled = cycle[r].scheduled /\ c.confirmed = cycle[r].confirmed
            /\ c.failed = cycle[r].failed
        BY <2>2 DEF Cycle
      <3>3. PICK d : d = c
        OBVIOUS
      <3>4. GoesOnTo(cycle[r], d)
        BY <2>1, <3>2, <3>3 DEF GoesOnTo
      <3> QED BY <2>1, <2>2, <3>1, <3>3, <3>4, AttemptGoesOn, CounterMoves
    <2> QED BY <1>2, <2>3, <2>4, <2>5
  <1> QED BY <1>1, <1>2 DEF PublicationStep

(* runOnce counts every attempt once, as confirmed or as failed, before it *)
(* takes the next decision, and keeps to its concurrency: whichever of its *)
(* many ways an attempt ends, and however long the list of due feeds is.   *)
THEOREM CycleAttemptsAccounted == Spec => []AttemptsAccounted
  <1>1. Init => Counted
    BY CycleAssumption DEF Init, Counted, Idle, CountersOK
  <1>2. ASSUME CycleInv, AttemptInv, Counted, [Next]_vars PROVE Counted'
    <2>1. CASE UNCHANGED cycle
      BY <1>2, <2>1 DEF Counted, CountersOK
    <2>2. CASE \E r \in Replicas : CycleStep(r) \/ Crash(r)
      BY <1>2, <2>2, CycleStepCounts
    <2>3. CASE \E fl \in flights : PublicationStep(fl)
      BY <1>2, <2>3, PublicationStepCounts
    <2> QED BY <1>2, <2>1, <2>2, <2>3
            DEF Next, vars, StatementRuns, OrphanRuns, BrokerStep, BrokerHandles, Tick
  <1>3. Counted => AttemptsAccounted
    BY DEF Counted, CountersOK, AttemptsAccounted
  <1>4. CycleInv /\ AttemptInv /\ Counted /\ [Next]_vars => Counted'
    BY <1>2
  <1> QED BY <1>1, <1>3, <1>4, CycleInvariant, AttemptInvariant, PTL DEF Spec

-----------------------------------------------------------------------------
OrphansBounded == IsFiniteSet(orphans) /\ Cardinality(orphans) <= MaxOrphans

(* The statements left behind stay within their bound.                     *)
LEMMA OrphansStayBounded ==
    ASSUME OrphansBounded, [Next]_vars
    PROVE  OrphansBounded'
  <1>1. CASE UNCHANGED orphans
    BY <1>1 DEF OrphansBounded
  <1>2. CASE \E r \in Replicas : Abandoned(r)
    <2>1. PICK r \in Replicas : Abandoned(r)
      BY <1>2
    <2>2. CASE Cardinality(orphans) < MaxOrphans /\ orphans' = orphans \cup {call[r].stmt}
      <3>1. PICK s : s = call[r].stmt
        OBVIOUS
      <3>2. /\ IsFiniteSet(orphans \cup {s})
            /\ Cardinality(orphans \cup {s}) =
                  IF s \in orphans THEN Cardinality(orphans) ELSE Cardinality(orphans) + 1
        BY FS_AddElement DEF OrphansBounded
      <3>3. Cardinality(orphans) \in Nat /\ MaxOrphans \in Nat
        BY FS_CardinalityType, CycleAssumption DEF OrphansBounded
      <3> QED BY <2>2, <3>1, <3>2, <3>3 DEF OrphansBounded
    <2> QED BY <1>1, <2>1, <2>2 DEF Abandoned
  <1>3. CASE OrphanRuns
    <2>1. PICK s \in orphans : orphans' = orphans \ {s}
      BY <1>3, Zenon DEF OrphanRuns
    <2>2. /\ IsFiniteSet(orphans \ {s})
          /\ Cardinality(orphans \ {s}) = Cardinality(orphans) - 1
      BY FS_RemoveElement DEF OrphansBounded
    <2>3. Cardinality(orphans) \in Nat /\ MaxOrphans \in Nat
      BY FS_CardinalityType, CycleAssumption DEF OrphansBounded
    <2> QED BY <2>1, <2>2, <2>3 DEF OrphansBounded
  <1>4. UNCHANGED orphans \/ (\E r \in Replicas : Abandoned(r)) \/ OrphanRuns
    <2>1. ASSUME NEW r \in Replicas, CycleStep(r) PROVE UNCHANGED orphans \/ Abandoned(r)
      BY <2>1 DEF CycleStep, StartCycle, ListReturns, ListFails, FinishCycle, BeginAcquire,
          Acquired, NotAcquired, AcquireFails, CommandRejected, BeginRenew, RenewFails,
          RenewedTooLate, StartPublication, DeadlineTimer, SettlingEnds, Confirmed,
          ConfirmFails, CallFails, CallSucceeds
    <2>2. ASSUME NEW fl \in flights, PublicationStep(fl) PROVE UNCHANGED orphans
      BY <2>2 DEF PublicationStep, HandOver, SetupFails, NotPublished, Rejected, Ambiguous,
          ConfirmedInTime, ConfirmedTooLate, UnawaitedSettles, Settles
    <2>3. \A r \in Replicas : /\ StatementRuns(r) => UNCHANGED orphans
                              /\ Crash(r) => Abandoned(r)
      BY DEF StatementRuns, Crash
    <2>4. BrokerStep \/ Tick \/ UNCHANGED vars => UNCHANGED orphans
      BY DEF BrokerStep, BrokerHandles, Tick, vars
    <2> QED BY <2>1, <2>2, <2>3, <2>4 DEF Next
  <1> QED BY <1>1, <1>2, <1>3, <1>4

(* The locals, statements, publications and messages have their types, and *)
(* the bound on statements left behind is never exceeded.                  *)
THEOREM CycleTypeOK == Spec => []TypeOK
  <1>1. Init => OrphansBounded
    BY FS_EmptySet, CycleAssumption DEF Init, OrphansBounded
  <1>2. OrphansBounded /\ [Next]_vars => OrphansBounded'
    BY OrphansStayBounded
  <1>3. CycleInv /\ Store!TypeOK /\ AttemptInv /\ OrphansBounded => TypeOK
    BY DEF CycleInv, AttemptInv, MessagesOK, OrphansBounded, TypeOK, Call
  <1> QED BY <1>1, <1>2, <1>3, CycleInvariant, AttemptInvariant, TableInvariant, PTL DEF Spec

-----------------------------------------------------------------------------
(* The margins fit the bounds of the transport, as they do in production:  *)
(* 25 s against 10 s for the set-up, 10 s for the terminal statement, and  *)
(* between them 5 s for the confirm or, when the set-up failed, 5 s for    *)
(* closing its connection.                                                 *)
MarginsFit ==
    /\ TerminalMinRemaining > 0 /\ ConfirmBound > 0
    /\ PublishMinRemaining >= ConnectBound + ConfirmBound + TerminalMinRemaining
    /\ PublishMinRemaining >= ConnectBound + CloseBound + TerminalMinRemaining

(* What the lease had left when the publication entered its phase.         *)
Room(fl) ==
    IF fl.phase = "connecting" THEN PublishMinRemaining ELSE PublishMinRemaining - ConnectBound

InTime(fl) ==
    LET row == leases[fl.feed][fl.version] IN
    /\ fl.since <= now /\ now - fl.since <= PhaseBound[fl.phase]
    /\ row.expires >= fl.since + Room(fl) /\ row.status \in {"leased", "expired"}
    /\ IF Awaits(fl.replica, fl)
       THEN cycle[fl.replica].deadline >= fl.since + Room(fl)
       ELSE fl.phase # "connecting" /\ TimerDue(fl)

(* No statement is about a lease under which something is published, and   *)
(* nobody could send one but the replica that awaits the outcome.          *)
About(s, f, v) == s.op # "acquire" /\ s.feed = f /\ s.version = v

Untouched(f, v) ==
    /\ \A s \in orphans : ~About(s, f, v)
    /\ \A q \in Replicas : call[q] # NoCall => ~About(call[q].stmt, f, v)

Alone(fl) ==
    \A q \in Replicas : Holds(q, fl.feed, fl.version) => Awaits(fl.replica, fl)

MarginInv ==
    \A fl \in flights : InTime(fl) /\ Untouched(fl.feed, fl.version) /\ Alone(fl)

(* The awaited publication is the holder's.                                *)
LEMMA AwaitedIsHeld ==
    ASSUME CycleInv, AttemptInv, NEW fl \in flights, Awaits(fl.replica, fl)
    PROVE  /\ Holds(fl.replica, fl.feed, fl.version)
           /\ \A q \in Replicas : Holds(q, fl.feed, fl.version) => q = fl.replica
  <1>1. fl.replica \in Replicas /\ fl.feed \in Feeds /\ fl.version \in Nat
    BY DEF CycleInv, Flight
  <1>2. Holds(fl.replica, fl.feed, fl.version)
    BY DEF Awaits, Holds, Holding
  <1> QED BY <1>1, <1>2 DEF HoldersOK, AttemptInv

(* Before it publishes, nothing is published under a replica's lease.      *)
LEMMA NoFlightYet ==
    ASSUME CycleInv, AttemptInv, MarginInv, NEW r \in Replicas, cycle[r].step # "publishing",
           NEW fl \in flights
    PROVE  ~Holds(r, fl.feed, fl.version)
  <1> SUFFICES ASSUME Holds(r, fl.feed, fl.version) PROVE FALSE
    OBVIOUS
  <1>1. Awaits(fl.replica, fl)
    BY DEF MarginInv, Alone
  <1>2. fl.replica = r
    BY <1>1, AwaitedIsHeld
  <1> QED BY <1>1, <1>2 DEF Awaits

(* A replica moves on, and what it leaves behind has run out of time.      *)
LEMMA MarginLetsGo ==
    ASSUME CycleInv, AttemptInv, MarginInv, NEW r \in Replicas,
           \A q \in Replicas \ {r} : cycle'[q] = cycle[q] /\ call'[q] = call[q],
           UNCHANGED <<leases, now>>, flights' \subseteq flights,
           cycle'[r].step # "publishing",
           \A fl \in flights' : fl.replica = r /\ Awaits(r, fl) =>
               fl.phase # "connecting" /\ TimerDue(fl),
           \A f, v : Holds(r, f, v)' => Holds(r, f, v) /\ cycle[r].step # "publishing",
           \A fl \in flights' : call'[r] # NoCall => ~About(call'[r].stmt, fl.feed, fl.version),
           \A s \in orphans' : s \in orphans \/ (call[r] # NoCall /\ s = call[r].stmt)
    PROVE  MarginInv'
  <1> SUFFICES ASSUME NEW fl \in flights'
               PROVE  InTime(fl)' /\ Untouched(fl.feed, fl.version)' /\ Alone(fl)'
    BY DEF MarginInv
  <1>1. fl \in flights /\ fl.replica \in Replicas
    BY DEF CycleInv, Flight
  <1>2. InTime(fl) /\ Untouched(fl.feed, fl.version) /\ Alone(fl)
    BY <1>1 DEF MarginInv
  <1>3. /\ TimerDue(fl)' <=> TimerDue(fl)
        /\ fl.replica # r => (Awaits(fl.replica, fl)' <=> Awaits(fl.replica, fl))
        /\ fl.replica = r => ~Awaits(fl.replica, fl)'
    BY <1>1 DEF TimerDue, Awaits, Feed
  <1>4. InTime(fl)'
    <2>1. CASE fl.replica = r
      <3>1. fl.phase # "connecting" /\ TimerDue(fl)
        BY <1>2, <2>1 DEF InTime
      <3> QED BY <1>2, <1>3, <2>1, <3>1 DEF InTime, PhaseBound, Room
    <2>2. CASE fl.replica # r
      <3>1. cycle'[fl.replica] = cycle[fl.replica]
        BY <1>1, <2>2
      <3> QED BY <1>2, <1>3, <2>2, <3>1 DEF InTime, PhaseBound, Room
    <2> QED BY <2>1, <2>2
  <1>5. Untouched(fl.feed, fl.version)'
    BY <1>2 DEF Untouched, About
  <1>6. Alone(fl)'
    <2> SUFFICES ASSUME NEW q \in Replicas, Holds(q, fl.feed, fl.version)'
                 PROVE  Awaits(fl.replica, fl)'
      BY DEF Alone
    <2>1. q # r
      BY <1>1, NoFlightYet
    <2>2. Holds(q, fl.feed, fl.version)
      BY <2>1, OtherReplica
    <2>3. Awaits(fl.replica, fl) /\ fl.replica = q
      BY <1>1, <1>2, <2>2, AwaitedIsHeld DEF Alone
    <2> QED BY <1>3, <2>1, <2>3
  <1> QED BY <1>4, <1>5, <1>6

(* What a statement that is sent says.                                     *)
LEMMA SendFields ==
    ASSUME CycleInv, NEW r \in Replicas, NEW op, NEW v, Send(r, op, v)
    PROVE  /\ call'[r].stmt.op = op /\ call'[r].result = "pending"
           /\ call'[r].stmt.feed = Feed(r) /\ call'[r].stmt.version = v
           /\ \A q \in Replicas \ {r} : call'[q] = call[q]
  <1>1. PICK k : k = [stmt |-> [op |-> op, feed |-> Feed(r), window |-> cycle[r].window,
                                version |-> v],
                      result |-> "pending", version |-> 0]
    OBVIOUS
  <1>2. call'[r] = k /\ \A q \in Replicas \ {r} : call'[q] = call[q]
    BY <1>1 DEF Send, CycleInv
  <1> QED BY <1>1, <1>2

(* A replica that is not publishing sends nothing about what is published. *)
LEMMA MarginQuiet ==
    ASSUME CycleInv, AttemptInv, MarginInv, NEW r \in Replicas,
           \A q \in Replicas \ {r} : cycle'[q] = cycle[q] /\ call'[q] = call[q],
           UNCHANGED <<leases, now, flights>>, UNCHANGED orphans \/ Abandoned(r),
           cycle[r].step # "publishing", cycle'[r].step # "publishing",
           \A f, v : Holds(r, f, v)' => Holds(r, f, v),
           \/ call'[r] = NoCall \/ call'[r].stmt.op = "acquire"
           \/ Holds(r, call'[r].stmt.feed, call'[r].stmt.version)
    PROVE  MarginInv'
  <1>1. \A s \in orphans' : s \in orphans \/ (call[r] # NoCall /\ s = call[r].stmt)
    BY DEF Abandoned, Answered
  <1>2. \A fl \in flights' :
           /\ ~(fl.replica = r /\ Awaits(r, fl))
           /\ call'[r] # NoCall => ~About(call'[r].stmt, fl.feed, fl.version)
    BY NoFlightYet DEF Awaits, About
  <1> QED BY <1>1, <1>2, MarginLetsGo

(* Nothing that is said of the publications changes.                       *)
LEMMA MarginStays ==
    ASSUME MarginInv, UNCHANGED <<leases, now, cycle, call, orphans>>, flights' \subseteq flights
    PROVE  MarginInv'
  <1> SUFFICES ASSUME NEW fl \in flights
               PROVE  InTime(fl)' /\ Untouched(fl.feed, fl.version)' /\ Alone(fl)'
    BY DEF MarginInv
  <1>1. InTime(fl) /\ Untouched(fl.feed, fl.version) /\ Alone(fl)
    BY DEF MarginInv
  <1>2. /\ TimerDue(fl)' <=> TimerDue(fl)
        /\ Awaits(fl.replica, fl)' <=> Awaits(fl.replica, fl)
        /\ \A q, f, v : Holds(q, f, v)' <=> Holds(q, f, v)
    BY DEF TimerDue, Awaits, Feed, Holds, Answered
  <1> QED BY <1>1, <1>2 DEF InTime, PhaseBound, Room, Untouched, About, Alone

(* The deadline's timer comes when the transport's own has, at the latest. *)
LEMMA MarginDeadlineTimer ==
    ASSUME MarginsFit, CycleInv, AttemptInv, MarginInv, NEW r \in Replicas, DeadlineTimer(r)
    PROVE  MarginInv'
  <1>1. /\ cycle[r].step = "publishing" /\ Remaining(cycle[r]) <= TerminalMinRemaining
        /\ UNCHANGED <<leases, now, call, orphans, flights>>
    BY DEF DeadlineTimer
  <1>2. call[r] = NoCall
    BY <1>1 DEF CycleInv, Calling, Busy
  <1>3. PICK c : c = CountFailure(NextDecision(cycle[r]))
    OBVIOUS
  <1>4. cycle' = [cycle EXCEPT ![r] = c] /\ c.step = "next"
    BY <1>1, <1>3, NextStep DEF DeadlineTimer, Busy
  <1>5. cycle'[r].step = "next" /\ \A q \in Replicas \ {r} : cycle'[q] = cycle[q]
    BY <1>4 DEF CycleInv
  <1>6. ASSUME NEW fl \in flights, fl.replica = r, Awaits(r, fl)
        PROVE  fl.phase # "connecting" /\ TimerDue(fl)
    <2>1. /\ now - fl.since <= PhaseBound[fl.phase] /\ cycle[r].deadline >= fl.since + Room(fl)
      BY <1>6 DEF MarginInv, InTime
    <2>2. /\ fl.since \in Nat /\ fl.phase \in {"connecting", "closing", "sent"}
          /\ now \in Nat /\ cycle[r].deadline \in Nat
      BY CycleAssumption DEF CycleInv, Flight, Cycle
    <2>3. cycle[r].deadline - now <= TerminalMinRemaining
      BY <1>1 DEF Remaining
    <2> QED BY <2>1, <2>2, <2>3, CycleAssumption DEF MarginsFit, PhaseBound, Room, TimerDue
  <1>7. \A f, v : ~Holds(r, f, v)'
    BY <1>1, <1>2, <1>5 DEF Holds, Holding, Answered
  <1>8. call'[r] = NoCall /\ \A q \in Replicas \ {r} : call'[q] = call[q]
    BY <1>1, <1>2
  <1> QED BY <1>1, <1>5, <1>6, <1>7, <1>8, MarginLetsGo

(* A publication begins with its budget whole, under a lease that nobody   *)
(* else holds and no statement is about.                                   *)
LEMMA MarginStart ==
    ASSUME CycleInv, Store!TypeOK, AttemptInv, MarginInv, NEW r \in Replicas,
           StartPublication(r)
    PROVE  MarginInv'
  <1>1. PICK c : c = [cycle[r] EXCEPT !.step = "publishing"]
    OBVIOUS
  <1>2. PICK f, v : f = Feed(r) /\ v = cycle[r].version
    OBVIOUS
  <1>3. PICK new : new = [replica |-> r, feed |-> f, version |-> v,
                          phase |-> "connecting", since |-> now]
    OBVIOUS
  <1>4. /\ new.replica = r /\ new.feed = f /\ new.version = v
        /\ new.phase = "connecting" /\ new.since = now
    BY <1>3
  <1>5. cycle' = [cycle EXCEPT ![r] = c] /\ call' = [call EXCEPT ![r] = NoCall]
    BY <1>1 DEF StartPublication, CallSucceeds, Forget, CycleInv
  <1>6. /\ cycle'[r] = c /\ call'[r] = NoCall
        /\ \A q \in Replicas \ {r} : cycle'[q] = cycle[q] /\ call'[q] = call[q]
    BY <1>5, OneMoves
  <1>7. /\ c.step = "publishing" /\ c.due = cycle[r].due /\ c.version = v
        /\ c.deadline = cycle[r].deadline /\ c.deadline \in Nat
    BY <1>1, <1>2 DEF CycleInv, Cycle
  <1>8. /\ cycle[r].step = "renewing" /\ Answered(r, "ok") /\ ~TooLateToPublish(cycle[r])
        /\ UNCHANGED <<leases, now, orphans>> /\ flights' = flights \cup {new}
    BY <1>2, <1>3, Awaiting DEF StartPublication, CallSucceeds, Answered
  <1>9. Feed(r)' = f /\ f \in Feeds /\ v \in Nat
    BY <1>2, <1>6, <1>7, <1>8, BusyReplica DEF Feed, Busy, Cycle
  <1>10. Holds(r, f, v)
    BY <1>2, <1>8 DEF Holds, Holding
  <1>11. \A q \in Replicas : \A g, u : Holds(q, g, u)' => Holds(q, g, u)
    <2>1. \A g, u : Holds(r, g, u)' => Holds(r, g, u)
      BY <1>2, <1>6, <1>7, <1>9, <1>10 DEF Holds, Answered
    <2> QED BY <1>6, <2>1, OtherReplica
  <1>12. \A fl \in flights : ~Holds(r, fl.feed, fl.version)
    BY <1>8, NoFlightYet
  <1>13. ASSUME NEW fl \in flights
         PROVE  InTime(fl)' /\ Untouched(fl.feed, fl.version)' /\ Alone(fl)'
    <2>1. InTime(fl) /\ Untouched(fl.feed, fl.version) /\ Alone(fl) /\ fl.replica \in Replicas
      BY DEF MarginInv, CycleInv, Flight
    <2>2. TimerDue(fl)' <=> TimerDue(fl)
      BY <1>8 DEF TimerDue
    <2>3. ~(fl.feed = f /\ fl.version = v)
      BY <1>10, <1>12
    <2>4. CASE fl.replica = r
      <3>1. ~Awaits(fl.replica, fl) /\ ~Awaits(fl.replica, fl)'
        BY <1>6, <1>7, <1>8, <1>9, <2>3, <2>4 DEF Awaits
      <3> QED BY <1>6, <1>8, <1>11, <1>12, <2>1, <2>2, <3>1
              DEF InTime, PhaseBound, Room, Untouched, About, Alone
    <2>5. CASE fl.replica # r
      <3>1. /\ Awaits(fl.replica, fl)' <=> Awaits(fl.replica, fl)
            /\ cycle'[fl.replica] = cycle[fl.replica]
        BY <1>6, <2>1, <2>5 DEF Awaits, Feed
      <3> QED BY <1>6, <1>8, <1>11, <1>12, <2>1, <2>2, <3>1
              DEF InTime, PhaseBound, Room, Untouched, About, Alone
    <2> QED BY <2>4, <2>5
  <1>14. InTime(new)' /\ Untouched(new.feed, new.version)' /\ Alone(new)'
    <2>1. Awaits(new.replica, new)'
      BY <1>4, <1>6, <1>7, <1>9 DEF Awaits
    <2>2. /\ v \in DOMAIN leases[f] /\ leases[f][v].status \in {"leased", "expired"}
          /\ \A q \in Replicas : Holds(q, f, v) => q = r
      BY <1>9, <1>10 DEF HoldersOK, AttemptInv
    <2>3. leases[f][v].expires >= cycle[r].deadline
      BY <1>2, <1>8 DEF RenewedOK, AttemptInv
    <2>4. leases[f][v].expires \in Nat /\ now \in Nat
      <3>1. leases[f][v] \in Store!Row
        BY <1>9, <2>2 DEF Store!TypeOK
      <3> QED BY <3>1 DEF Store!TypeOK, Store!Row
    <2>5. cycle[r].deadline >= now + PublishMinRemaining
      BY <1>7, <1>8, <2>4, CycleAssumption DEF TooLateToPublish, Remaining
    <2>6. InTime(new)'
      BY <1>4, <1>6, <1>7, <1>8, <2>1, <2>2, <2>3, <2>4, <2>5, CycleAssumption
         DEF InTime, PhaseBound, Room
    <2>7. Untouched(f, v)'
      <3>1. \A s \in orphans : ~About(s, f, v)
        BY <1>10 DEF About, OrphansOK, AttemptInv
      <3>2. \A q \in Replicas \ {r} : call[q] # NoCall => ~About(call[q].stmt, f, v)
        BY <1>10 DEF About, CallsOK, CallOK, AttemptInv
      <3> QED BY <1>6, <1>8, <3>1, <3>2 DEF Untouched, About
    <2>8. Alone(new)'
      BY <1>4, <1>11, <2>1, <2>2 DEF Alone
    <2> QED BY <1>4, <2>6, <2>7, <2>8
  <1> QED BY <1>8, <1>13, <1>14 DEF MarginInv

(* The steps of a cycle and the crashes keep the margins.                  *)
LEMMA MarginCycleStep ==
    ASSUME MarginsFit, CycleInv, Store!TypeOK, AttemptInv, MarginInv, NEW r \in Replicas,
           CycleStep(r) \/ Crash(r)
    PROVE  MarginInv'
  <1>1. {"idle", "listing", "next"} \cap (Holding \cup Busy) = {}
    BY DEF Holding, Busy
  <1>2. CASE StartCycle(r) \/ ListReturns(r) \/ ListFails(r) \/ FinishCycle(r)
    <2>1. PICK c : /\ cycle' = [cycle EXCEPT ![r] = c] /\ c.step \in {"idle", "listing", "next"}
                   /\ call' = [call EXCEPT ![r] = NoCall] /\ cycle[r].step \notin Busy
                   /\ UNCHANGED <<leases, now, orphans, flights>>
      BY <1>2, BetweenAttempts
    <2>2. /\ cycle'[r] = c /\ call'[r] = NoCall
          /\ \A q \in Replicas \ {r} : cycle'[q] = cycle[q] /\ call'[q] = call[q]
      BY <2>1, OneMoves
    <2>3. \A f, v : ~Holds(r, f, v)'
      BY <1>1, <2>1, <2>2 DEF Holds, Answered
    <2>4. cycle[r].step # "publishing" /\ c.step # "publishing"
      BY <2>1 DEF Busy
    <2> QED BY <2>1, <2>2, <2>3, <2>4, MarginQuiet
  <1>3. CASE BeginAcquire(r)
    <2>1. PICK c : c = [cycle[r] EXCEPT !.step = "acquiring"]
      OBVIOUS
    <2>2. cycle' = [cycle EXCEPT ![r] = c] /\ Send(r, "acquire", 0)
      BY <1>3, <2>1 DEF BeginAcquire, CycleInv
    <2>3. c.step = "acquiring" /\ cycle'[r] = c /\ \A q \in Replicas \ {r} : cycle'[q] = cycle[q]
      BY <2>1, <2>2 DEF CycleInv, Cycle
    <2>4. /\ call'[r].stmt.op = "acquire" /\ call'[r].result = "pending"
          /\ \A q \in Replicas \ {r} : call'[q] = call[q]
      BY <2>2, SendFields
    <2>5. \A f, v : ~Holds(r, f, v)'
      BY <2>3, <2>4 DEF Holds, Answered, Holding
    <2> QED BY <1>3, <2>3, <2>4, <2>5, MarginQuiet DEF BeginAcquire
  <1>4. CASE Acquired(r)
    <2>1. PICK c : c = [cycle[r] EXCEPT !.step = "acquired", !.version = call[r].version,
                                !.attempted = @ + 1, !.scheduled = @ + 1]
      OBVIOUS
    <2>2. cycle' = [cycle EXCEPT ![r] = c] /\ call' = [call EXCEPT ![r] = NoCall]
      BY <1>4, <2>1 DEF Acquired, CallSucceeds, Forget, CycleInv
    <2>3. /\ cycle'[r] = c /\ call'[r] = NoCall
          /\ \A q \in Replicas \ {r} : cycle'[q] = cycle[q] /\ call'[q] = call[q]
      BY <2>2, OneMoves
    <2>4. c.step = "acquired" /\ c.due = cycle[r].due /\ c.version = call[r].version
      BY <2>1 DEF CycleInv, Cycle
    <2>5. /\ Answered(r, "acquired") /\ cycle[r].step # "publishing"
          /\ UNCHANGED <<leases, now, orphans, flights>>
      BY <1>4, Awaiting DEF Acquired, CallSucceeds, Answered
    <2>6. \A f, v : Holds(r, f, v)' => Holds(r, f, v)
      BY <2>3, <2>4, <2>5 DEF Holds, Feed, Answered, Holding
    <2> QED BY <2>3, <2>4, <2>5, <2>6, MarginQuiet
  <1>5. CASE CommandRejected(r) \/ RenewedTooLate(r)
    <2>1. PICK n \in Cycle : n = CountFailure(cycle[r])
      BY CountType DEF CycleInv
    <2>2. PICK c : c = [n EXCEPT !.step = "settling"]
      OBVIOUS
    <2>3. /\ cycle[r].step \in {"acquired", "renewing"}
          /\ cycle' = [cycle EXCEPT ![r] = c] /\ Send(r, "release", cycle[r].version)
          /\ UNCHANGED <<leases, now, orphans, flights>>
      BY <1>5, <2>1, <2>2, Awaiting DEF CommandRejected, RenewedTooLate, Answered
    <2>4. c.step = "settling" /\ cycle'[r] = c /\ \A q \in Replicas \ {r} : cycle'[q] = cycle[q]
      BY <2>1, <2>2, <2>3 DEF CycleInv, Cycle
    <2>5. /\ call'[r].stmt.feed = Feed(r) /\ call'[r].stmt.version = cycle[r].version
          /\ call'[r].result = "pending" /\ \A q \in Replicas \ {r} : call'[q] = call[q]
      BY <2>3, SendFields
    <2>6. \A f, v : ~Holds(r, f, v)'
      BY <2>4, <2>5 DEF Holds, Answered, Holding
    <2>7. Holds(r, call'[r].stmt.feed, call'[r].stmt.version)
      BY <2>3, <2>5 DEF Holds, Holding
    <2> QED BY <2>3, <2>4, <2>5, <2>6, <2>7, MarginQuiet
  <1>6. CASE BeginRenew(r)
    <2>1. PICK c : c = [cycle[r] EXCEPT !.step = "renewing", !.deadline = now + LeaseMs]
      OBVIOUS
    <2>2. /\ cycle[r].step = "acquired" /\ cycle' = [cycle EXCEPT ![r] = c]
          /\ Send(r, "renew", cycle[r].version) /\ UNCHANGED <<leases, now, orphans, flights>>
      BY <1>6, <2>1 DEF BeginRenew, CycleInv
    <2>3. /\ c.step = "renewing" /\ c.due = cycle[r].due /\ c.version = cycle[r].version
          /\ cycle'[r] = c /\ \A q \in Replicas \ {r} : cycle'[q] = cycle[q]
      BY <2>1, <2>2 DEF CycleInv, Cycle
    <2>4. /\ call'[r].stmt.feed = Feed(r) /\ call'[r].stmt.version = cycle[r].version
          /\ call'[r].result = "pending" /\ \A q \in Replicas \ {r} : call'[q] = call[q]
      BY <2>2, SendFields
    <2>5. \A f, v : Holds(r, f, v)' => Holds(r, f, v)
      BY <2>2, <2>3, <2>4 DEF Holds, Feed, Answered, Holding
    <2>6. Holds(r, call'[r].stmt.feed, call'[r].stmt.version)
      BY <2>2, <2>4 DEF Holds, Holding
    <2> QED BY <2>2, <2>3, <2>4, <2>5, <2>6, MarginQuiet
  <1>7. CASE StartPublication(r)
    BY <1>7, MarginStart
  <1>8. CASE DeadlineTimer(r)
    BY <1>8, MarginDeadlineTimer
  <1>9. CASE NotAcquired(r) \/ AcquireFails(r) \/ RenewFails(r) \/ SettlingEnds(r)
             \/ Confirmed(r) \/ ConfirmFails(r)
    <2>1. PICK c : /\ cycle' = [cycle EXCEPT ![r] = c] /\ c.step = "next"
                   /\ call' = [call EXCEPT ![r] = NoCall] /\ call[r] # NoCall
                   /\ (UNCHANGED orphans \/ Abandoned(r))
                   /\ UNCHANGED <<leases, now, flights>>
      BY <1>9, AttemptsEnd
    <2>2. /\ cycle'[r] = c /\ call'[r] = NoCall
          /\ \A q \in Replicas \ {r} : cycle'[q] = cycle[q] /\ call'[q] = call[q]
      BY <2>1, OneMoves
    <2>3. \A f, v : ~Holds(r, f, v)'
      BY <1>1, <2>1, <2>2 DEF Holds, Answered
    <2>4. cycle[r].step # "publishing"
      BY <2>1, Awaiting
    <2> QED BY <2>1, <2>2, <2>3, <2>4, MarginQuiet
  <1>10. CASE Crash(r)
    <2>1. /\ cycle' = [cycle EXCEPT ![r] = Idle] /\ call' = [call EXCEPT ![r] = NoCall]
          /\ flights' = {fl \in flights : fl.replica # r}
          /\ Abandoned(r) /\ UNCHANGED <<leases, now>>
      BY <1>10 DEF Crash, Forget
    <2>2. /\ cycle'[r] = Idle /\ call'[r] = NoCall
          /\ \A q \in Replicas \ {r} : cycle'[q] = cycle[q] /\ call'[q] = call[q]
      BY <2>1, OneMoves
    <2>3. cycle'[r].step = "idle"
      BY <2>2 DEF Idle
    <2>4. \A f, v : ~Holds(r, f, v)'
      BY <2>2, <2>3 DEF Holds, Answered, Holding
    <2>5. \A s \in orphans' : s \in orphans \/ (call[r] # NoCall /\ s = call[r].stmt)
      BY <2>1 DEF Abandoned, Answered
    <2> QED BY <2>1, <2>2, <2>3, <2>4, <2>5, MarginLetsGo
  <1> QED BY <1>2, <1>3, <1>4, <1>5, <1>6, <1>7, <1>8, <1>9, <1>10 DEF CycleStep

(* What a publication has left after the set-up is what that did not use.  *)
LEMMA MarginSetupEnds ==
    ASSUME CycleInv, Store!TypeOK, AttemptInv, MarginInv, NEW fl \in flights,
           HandOver(fl) \/ SetupFails(fl)
    PROVE  MarginInv'
  <1>1. PICK gone :
           /\ flights' = (flights \ {fl}) \cup {gone}
           /\ \/ gone = [fl EXCEPT !.phase = "closing", !.since = now]
              \/ gone = [fl EXCEPT !.phase = "sent", !.since = now]
    <2>1. PICK a, b : /\ a = [fl EXCEPT !.phase = "closing", !.since = now]
                      /\ b = [fl EXCEPT !.phase = "sent", !.since = now]
      OBVIOUS
    <2> QED BY <2>1 DEF HandOver, SetupFails
  <1>2. /\ fl \in Flight /\ fl.feed \in Feeds /\ fl.version \in Nat
        /\ fl.replica \in Replicas /\ fl.since \in Nat /\ now \in Nat
    BY CycleAssumption DEF CycleInv, Flight
  <1>3. /\ gone.replica = fl.replica /\ gone.feed = fl.feed /\ gone.version = fl.version
        /\ gone.phase \in {"closing", "sent"} /\ gone.since = now
    BY <1>1, <1>2 DEF Flight
  <1>4. /\ fl.phase = "connecting" /\ flights' = (flights \ {fl}) \cup {gone}
        /\ UNCHANGED <<leases, now, cycle, call, orphans>>
    BY <1>1 DEF HandOver, SetupFails
  <1>5. /\ \A x : TimerDue(x)' <=> TimerDue(x)
        /\ \A x : Awaits(x.replica, x)' <=> Awaits(x.replica, x)
        /\ \A q, f, v : Holds(q, f, v)' <=> Holds(q, f, v)
    BY <1>4 DEF TimerDue, Awaits, Feed, Holds, Answered
  <1>6. ASSUME NEW x \in flights
        PROVE  InTime(x)' /\ Untouched(x.feed, x.version)' /\ Alone(x)'
    <2>1. InTime(x) /\ Untouched(x.feed, x.version) /\ Alone(x)
      BY DEF MarginInv
    <2> QED BY <1>4, <1>5, <2>1 DEF InTime, PhaseBound, Room, Untouched, About, Alone
  <1>7. InTime(gone)' /\ Untouched(gone.feed, gone.version)' /\ Alone(gone)'
    <2>1. /\ fl.since <= now /\ now - fl.since <= ConnectBound
          /\ leases[fl.feed][fl.version].expires >= fl.since + PublishMinRemaining
          /\ leases[fl.feed][fl.version].status \in {"leased", "expired"}
          /\ Awaits(fl.replica, fl)
          /\ cycle[fl.replica].deadline >= fl.since + PublishMinRemaining
          /\ Untouched(fl.feed, fl.version) /\ Alone(fl)
      BY <1>4 DEF MarginInv, InTime, PhaseBound, Room
    <2>2. leases[fl.feed][fl.version].expires \in Nat /\ cycle[fl.replica].deadline \in Nat
      <3>1. leases[fl.feed][fl.version] \in Store!Row
        BY <1>2 DEF FlightsOK, AttemptInv, Store!TypeOK
      <3> QED BY <1>2, <3>1 DEF Store!Row, CycleInv, Cycle
    <2>3. Awaits(gone.replica, gone)
      BY <1>3, <2>1 DEF Awaits
    <2>4. InTime(gone)'
      BY <1>2, <1>3, <1>4, <1>5, <2>1, <2>2, <2>3, CycleAssumption DEF InTime, PhaseBound, Room
    <2>5. Untouched(gone.feed, gone.version)' /\ Alone(gone)'
      BY <1>3, <1>4, <1>5, <2>1, <2>3 DEF Untouched, About, Alone
    <2> QED BY <2>4, <2>5
  <1> QED BY <1>4, <1>6, <1>7 DEF MarginInv

(* The replica takes the outcome of the one publication it awaits.         *)
LEMMA MarginOutcome ==
    ASSUME CycleInv, AttemptInv, MarginInv, NEW fl \in flights, Settles(fl),
           NEW c, cycle' = [cycle EXCEPT ![fl.replica] = c], c.step \notin Holding,
           \/ UNCHANGED call
           \/ \E op \in {"release", "markFailed", "markConfirmed"} :
                 Send(fl.replica, op, fl.version)
    PROVE  MarginInv'
  <1>1. PICK r \in Replicas, f \in Feeds, v \in Nat :
           /\ fl.replica = r /\ fl.feed = f /\ fl.version = v
           /\ f = Feed(r) /\ v = cycle[r].version /\ cycle[r].step = "publishing"
           /\ call[r] = NoCall
           /\ UNCHANGED <<leases, now, orphans>> /\ flights' = flights \ {fl}
    BY Publishing
  <1>2. cycle'[r] = c /\ \A q \in Replicas \ {r} : cycle'[q] = cycle[q]
    BY <1>1 DEF CycleInv
  <1>3. \A x \in flights : x.feed = f /\ x.version = v => x = fl
    BY <1>1 DEF FlightsOK, AttemptInv, Token
  <1>4. \A x \in flights' : ~Awaits(r, x)
    BY <1>1, <1>3 DEF Awaits
  <1>5. /\ \A q \in Replicas \ {r} : call'[q] = call[q]
        /\ call'[r] = NoCall \/ /\ call'[r].stmt.feed = f /\ call'[r].stmt.version = v
                                /\ call'[r].result = "pending"
    BY <1>1, SendFields
  <1>6. \A f1, v1 : ~Holds(r, f1, v1)'
    BY <1>2, <1>5 DEF Holds, Answered
  <1>7. \A x \in flights' : call'[r] # NoCall => ~About(call'[r].stmt, x.feed, x.version)
    BY <1>1, <1>3, <1>5 DEF About
  <1>8. cycle'[r].step # "publishing"
    BY <1>2 DEF Holding
  <1> QED BY <1>1, <1>2, <1>4, <1>5, <1>6, <1>7, <1>8, MarginLetsGo

(* The steps of a publication keep the margins.                            *)
LEMMA MarginPublicationStep ==
    ASSUME CycleInv, Store!TypeOK, AttemptInv, MarginInv, NEW fl \in flights,
           PublicationStep(fl)
    PROVE  MarginInv'
  <1>1. CASE HandOver(fl) \/ SetupFails(fl)
    BY <1>1, MarginSetupEnds
  <1>2. CASE NotPublished(fl) \/ Rejected(fl)
    <2>1. Settles(fl) /\ fl.replica \in Replicas
      BY <1>2 DEF NotPublished, Rejected, CycleInv, Flight
    <2>2. PICK n \in Cycle : n = CountFailure(cycle[fl.replica])
      BY <2>1, CountType DEF CycleInv
    <2>3. PICK c : c = [n EXCEPT !.step = "settling"]
      OBVIOUS
    <2>4. c.step \notin Holding
      BY <2>2, <2>3 DEF Cycle, Holding
    <2>5. /\ cycle' = [cycle EXCEPT ![fl.replica] = c]
          /\ \E op \in {"release", "markFailed"} : Send(fl.replica, op, fl.version)
      BY <1>2, <2>2, <2>3 DEF NotPublished, Rejected
    <2> QED BY <2>1, <2>4, <2>5, MarginOutcome
  <1>3. CASE ConfirmedInTime(fl)
    <2>1. Settles(fl) /\ fl.replica \in Replicas
      BY <1>3 DEF ConfirmedInTime, CycleInv, Flight
    <2>2. PICK c : c = [cycle[fl.replica] EXCEPT !.step = "confirming"]
      OBVIOUS
    <2>3. c.step \notin Holding
      BY <2>1, <2>2 DEF CycleInv, Cycle, Holding
    <2>4. /\ cycle' = [cycle EXCEPT ![fl.replica] = c]
          /\ Send(fl.replica, "markConfirmed", fl.version)
      BY <1>3, <2>1, <2>2 DEF ConfirmedInTime, CycleInv
    <2> QED BY <2>1, <2>3, <2>4, MarginOutcome
  <1>4. CASE Ambiguous(fl) \/ ConfirmedTooLate(fl)
    <2>1. PICK c : c = CountFailure(NextDecision(cycle[fl.replica]))
      OBVIOUS
    <2>2. cycle' = [cycle EXCEPT ![fl.replica] = c] /\ UNCHANGED call /\ Settles(fl)
      BY <1>4, <2>1 DEF Ambiguous, ConfirmedTooLate
    <2>3. c.step \notin Holding
      BY <2>1, <2>2, Publishing, NextStep DEF Holding
    <2> QED BY <2>2, <2>3, MarginOutcome
  <1>5. CASE UnawaitedSettles(fl)
    BY <1>5, MarginStays DEF UnawaitedSettles
  <1> QED BY <1>1, <1>2, <1>3, <1>4, <1>5 DEF PublicationStep

(* The clock waits for the timers that are due.                            *)
LEMMA MarginTick ==
    ASSUME CycleInv, MarginInv, Tick
    PROVE  MarginInv'
  <1>1. /\ now' = now + 1 /\ now \in Nat
        /\ UNCHANGED <<leases, cycle, call, orphans, flights>>
    BY CycleAssumption DEF Tick, Store!Tick, CycleInv
  <1>2. \A fl \in flights : ~TimerDue(fl)
    BY DEF Tick
  <1> SUFFICES ASSUME NEW fl \in flights
               PROVE  InTime(fl)' /\ Untouched(fl.feed, fl.version)' /\ Alone(fl)'
    BY <1>1 DEF MarginInv
  <1>3. InTime(fl) /\ Untouched(fl.feed, fl.version) /\ Alone(fl)
    BY DEF MarginInv
  <1>4. /\ Awaits(fl.replica, fl)' <=> Awaits(fl.replica, fl)
        /\ \A q, f, v : Holds(q, f, v)' <=> Holds(q, f, v)
    BY <1>1 DEF Awaits, Feed, Holds, Answered
  <1>5. Awaits(fl.replica, fl)
    BY <1>2, <1>3 DEF InTime
  <1>6. InTime(fl)'
    <2>1. fl.since \in Nat
      BY DEF CycleInv, Flight
    <2>2. now + 1 - fl.since <= PhaseBound[fl.phase]
      <3>1. PhaseBound[fl.phase] \in Nat
        BY CycleAssumption DEF PhaseBound, CycleInv, Flight
      <3> QED BY <1>1, <1>2, <2>1, <3>1 DEF TimerDue
    <2> QED BY <1>1, <1>3, <1>4, <1>5, <2>1, <2>2 DEF InTime, PhaseBound, Room
  <1>7. Untouched(fl.feed, fl.version)' /\ Alone(fl)'
    BY <1>1, <1>3, <1>4 DEF Untouched, About, Alone
  <1> QED BY <1>6, <1>7

(* The row of a publication that no statement touches keeps its expiry.    *)
LEMMA MarginRow ==
    ASSUME CycleInv, Store!TypeOK, AttemptInv, MarginInv, NEW s \in Statement,
           NEW at \in Store!StatementTimes, NEW result, NEW version,
           TakesEffect(s, at, result, version), UNCHANGED <<now, cycle, flights>>,
           NEW fl \in flights, ~About(s, fl.feed, fl.version)
    PROVE  InTime(fl)'
  <1>1. PICK f \in Feeds, v \in Nat :
           f = fl.feed /\ v = fl.version /\ v \in DOMAIN leases[f]
    BY DEF CycleInv, Flight, FlightsOK, AttemptInv
  <1>2. PICK old, new : old = leases[f][v] /\ new = leases'[f][v]
    OBVIOUS
  <1>3. Changed(s, at, f, v, old, new) /\ ~Touches(s, f, v) /\ old \in Store!Row
    BY <1>1, <1>2, EffectOnRows DEF About, Touches, Store!TypeOK
  <1>4. /\ new.expires = old.expires
        /\ new.status = old.status \/ new.status = "expired"
    BY <1>3, ChangedFields
  <1>5. /\ TimerDue(fl)' <=> TimerDue(fl)
        /\ Awaits(fl.replica, fl)' <=> Awaits(fl.replica, fl)
        /\ InTime(fl)
    BY DEF TimerDue, Awaits, Feed, MarginInv
  <1> QED BY <1>1, <1>2, <1>4, <1>5 DEF InTime, PhaseBound, Room

(* Statements that take effect are about other leases than those that      *)
(* something is published under.                                           *)
LEMMA MarginStatement ==
    ASSUME CycleInv, Store!TypeOK, AttemptInv, MarginInv,
           OrphanRuns \/ \E r \in Replicas : StatementRuns(r)
    PROVE  MarginInv'
  <1>1. CASE OrphanRuns
    <2>1. PICK s \in orphans, at \in Store!StatementTimes, result \in Results :
             /\ \E version : TakesEffect(s, at, result, version)
             /\ orphans' = orphans \ {s}
             /\ UNCHANGED <<now, cycle, call, flights>>
      BY <1>1, Zenon DEF OrphanRuns
    <2>2. PICK version : TakesEffect(s, at, result, version)
      BY <2>1
    <2>3. s \in Statement
      BY DEF CycleInv
    <2> SUFFICES ASSUME NEW fl \in flights
                 PROVE  InTime(fl)' /\ Untouched(fl.feed, fl.version)' /\ Alone(fl)'
      BY <2>1 DEF MarginInv
    <2>4. Untouched(fl.feed, fl.version) /\ Alone(fl)
      BY DEF MarginInv
    <2>5. InTime(fl)'
      BY <2>1, <2>2, <2>3, <2>4, MarginRow DEF Untouched
    <2>6. /\ Awaits(fl.replica, fl)' <=> Awaits(fl.replica, fl)
          /\ \A q, f, v : Holds(q, f, v)' <=> Holds(q, f, v)
      BY <2>1 DEF Awaits, Feed, Holds, Answered
    <2> QED BY <2>1, <2>4, <2>5, <2>6 DEF Untouched, About, Alone
  <1>2. ASSUME NEW r \in Replicas, StatementRuns(r)
        PROVE  MarginInv'
    <2>1. PICK at \in Store!StatementTimes, result \in Results,
               version \in 0..(Len(leases[call[r].stmt.feed]) + 1) :
             /\ TakesEffect(call[r].stmt, at, result, version)
             /\ call' = [call EXCEPT ![r].result = result, ![r].version = version]
             /\ UNCHANGED <<now, cycle, orphans, flights>>
      BY <1>2, Zenon DEF StatementRuns
    <2>2. PICK s : s = call[r].stmt
      OBVIOUS
    <2>3. PICK k : k = [call[r] EXCEPT !.result = result, !.version = version]
      OBVIOUS
    <2>4. call[r] \in Call /\ call[r] # NoCall
      BY <1>2 DEF StatementRuns, Answered, CycleInv
    <2>5. k.stmt = s /\ k.result = result /\ k.version = version /\ s \in Statement
      BY <2>2, <2>3, <2>4 DEF Call
    <2>6. call'[r] = k /\ \A q \in Replicas \ {r} : call'[q] = call[q]
      BY <2>1, <2>3 DEF CycleInv
    <2>7. s.feed = Feed(r) /\ s.feed \in Feeds /\ cycle[r].step \notin {"publishing"}
      BY <2>2, <2>4, <2>5, Awaiting DEF CallOK, Statement
    <2>8. result = "acquired" => version \notin DOMAIN leases[s.feed]
      BY <2>1, <2>2, <2>5, EffectOnRows
    <2> SUFFICES ASSUME NEW fl \in flights
                 PROVE  InTime(fl)' /\ Untouched(fl.feed, fl.version)' /\ Alone(fl)'
      BY <2>1 DEF MarginInv
    <2>9. Untouched(fl.feed, fl.version) /\ Alone(fl)
      BY DEF MarginInv
    <2>10. fl.version \in DOMAIN leases[fl.feed]
      BY DEF FlightsOK, AttemptInv
    <2>11. InTime(fl)'
      BY <2>1, <2>2, <2>4, <2>5, <2>9, MarginRow DEF Untouched
    <2>12. Awaits(fl.replica, fl)' <=> Awaits(fl.replica, fl)
      BY <2>1 DEF Awaits, Feed
    <2>13. \A q \in Replicas : Holds(q, fl.feed, fl.version)' => Holds(q, fl.feed, fl.version)
      <3>1. ASSUME NEW q \in Replicas, q # r, Holds(q, fl.feed, fl.version)'
            PROVE  Holds(q, fl.feed, fl.version)
        BY <2>1, <2>6, <3>1 DEF Holds, Feed, Answered
      <3>2. ASSUME Holds(r, fl.feed, fl.version)'
            PROVE  Holds(r, fl.feed, fl.version)
        BY <2>1, <2>5, <2>6, <2>7, <2>8, <2>10, <3>2 DEF Holds, Feed, Answered
      <3> QED BY <3>1, <3>2
    <2>14. Untouched(fl.feed, fl.version)'
      <3>1. \A q \in Replicas : call'[q].stmt = call[q].stmt /\ (q = r => call[q] # NoCall)
        BY <2>2, <2>4, <2>5, <2>6
      <3>2. \A q \in Replicas : call'[q] # NoCall => call[q] # NoCall
        BY <2>6, <3>1
      <3> QED BY <2>1, <2>9, <3>1, <3>2 DEF Untouched, About
    <2> QED BY <2>9, <2>11, <2>12, <2>13, <2>14 DEF Alone
  <1> QED BY <1>1, <1>2

(* MarginInv is inductive where the margins fit.                           *)
LEMMA MarginNext ==
    ASSUME MarginsFit, CycleInv, Store!TypeOK, AttemptInv, MarginInv, [Next]_vars
    PROVE  MarginInv'
  <1>1. CASE UNCHANGED vars
    BY <1>1, MarginStays DEF vars
  <1>2. CASE \E r \in Replicas : CycleStep(r) \/ Crash(r)
    BY <1>2, MarginCycleStep
  <1>3. CASE \E fl \in flights : PublicationStep(fl)
    BY <1>3, MarginPublicationStep
  <1>4. CASE OrphanRuns \/ \E r \in Replicas : StatementRuns(r)
    BY <1>4, MarginStatement
  <1>5. CASE BrokerStep
    BY <1>5, MarginStays DEF BrokerStep, BrokerHandles
  <1>6. CASE Tick
    BY <1>6, MarginTick
  <1> QED BY <1>1, <1>2, <1>3, <1>4, <1>5, <1>6 DEF Next

(* Where the margins fit, every publication in progress is within its time *)
(* and under a lease that outlives it.                                     *)
THEOREM MarginInvariant ==
    ASSUME MarginsFit
    PROVE  Spec => []MarginInv
  <1>1. Init => MarginInv
    BY DEF Init, MarginInv
  <1>2. CycleInv /\ Store!TypeOK /\ AttemptInv /\ MarginInv /\ [Next]_vars => MarginInv'
    BY MarginNext
  <1> QED BY <1>1, <1>2, CycleInvariant, AttemptInvariant, TableInvariant, PTL DEF Spec

(* publishWithinLeaseDeadline never leaves a publication to itself that    *)
(* may still be handed over, and leaves any other only at the instant the  *)
(* transport's own timer ends it, whether the set-up succeeds or fails.    *)
THEOREM CycleTransportSettlesFirst ==
    ASSUME MarginsFit
    PROVE  Spec => []TransportSettlesFirst
  <1>1. MarginInv => TransportSettlesFirst
    BY DEF MarginInv, InTime, TransportSettlesFirst
  <1> QED BY <1>1, MarginInvariant, PTL

(* A publication in progress is under a lease that the row says is live.   *)
LEMMA LiveLease ==
    ASSUME MarginsFit, CycleInv, Store!TypeOK, AttemptInv, MarginInv, NEW fl \in flights
    PROVE  Store!Owned(fl.feed, fl.version, now)
  <1>1. PICK f \in Feeds, v \in Nat :
           f = fl.feed /\ v = fl.version /\ v \in DOMAIN leases[f]
    BY DEF CycleInv, Flight, FlightsOK, AttemptInv
  <1>2. PICK row \in Store!Row : row = leases[f][v]
    BY <1>1 DEF Store!TypeOK
  <1>3. /\ now - fl.since <= PhaseBound[fl.phase] /\ row.expires >= fl.since + Room(fl)
        /\ row.status \in {"leased", "expired"}
    BY <1>1, <1>2 DEF MarginInv, InTime
  <1>4. /\ row.expires \in Nat /\ fl.since \in Nat /\ now \in Nat
        /\ fl.phase \in {"connecting", "closing", "sent"}
    BY CycleAssumption DEF Store!Row, CycleInv, Flight
  <1>5. row.expires > now
    BY <1>3, <1>4, CycleAssumption DEF MarginsFit, PhaseBound, Room
  <1>6. row.status = "leased"
    BY <1>1, <1>2, <1>3, <1>4, <1>5 DEF RowsOK, AttemptInv
  <1> QED BY <1>1, <1>2, <1>5, <1>6 DEF Store!Owned, Store!Leased

(* No message is handed to a channel except under a lease that its replica *)
(* still owns by the database's clock.                                     *)
THEOREM CycleSentUnderLease ==
    ASSUME MarginsFit
    PROVE  Spec => SentUnderLease
  <1>1. ASSUME CycleInv, Store!TypeOK, AttemptInv, MarginInv
        PROVE  \A fl \in flights : HandOver(fl) => Store!Owned(fl.feed, fl.version, now)
    BY <1>1, LiveLease
  <1> QED BY <1>1, CycleInvariant, AttemptInvariant, TableInvariant, MarginInvariant, PTL
          DEF SentUnderLease

(* Two replicas never publish one feed at the same time, because both      *)
(* leases would be live.                                                   *)
THEOREM CycleOnePublicationPerFeed ==
    ASSUME MarginsFit
    PROVE  Spec => []OnePublicationPerFeed
  <1>1. ASSUME CycleInv, Store!TypeOK, Store!Safety, AttemptInv, MarginInv
        PROVE  OnePublicationPerFeed
    <2> SUFFICES ASSUME NEW x \in flights, NEW y \in flights, x.feed = y.feed
                 PROVE  x = y
      BY DEF OnePublicationPerFeed
    <2>1. /\ Store!Owned(x.feed, x.version, now) /\ Store!Owned(y.feed, y.version, now)
          /\ x.feed \in Feeds
      BY <1>1, LiveLease DEF CycleInv, Flight
    <2>2. x.version = y.version
      BY <1>1, <2>1 DEF Store!Safety, Store!OneLeasePerFeed, Store!Owned, Store!Leased,
                        Store!TypeOK
    <2> QED BY <1>1, <2>2 DEF FlightsOK, AttemptInv, Token
  <1> QED BY <1>1, CycleInvariant, AttemptInvariant, TableInvariant, MarginInvariant, PTL
=============================================================================
