--------------------------- MODULE SchedulerCycle ---------------------------
(***************************************************************************)
(* Replicas of the scheduler running SchedulerService.runOnce in           *)
(* production mode against the shared lease table and RabbitMQ.            *)
(*                                                                         *)
(* A replica awaits one thing at a time: the feed source, a statement of   *)
(* the lease store (call[r]) or a publication (a member of flights).  A    *)
(* statement is sent, takes effect at the database and is answered in      *)
(* three steps, and the client may give up before each of the last two; a  *)
(* statement given up before it took effect may still do so (orphans).  A  *)
(* publication first gets a channel (phase "connecting"), then hands the   *)
(* message to it and waits for the broker (phase "sent"), or waits until   *)
(* the connection of a failed set-up is closed (phase "closing"); it goes  *)
(* on without the replica when the lease deadline's timer fires first.     *)
(*                                                                         *)
(* Time is one clock: every replica's performance.now() and PostgreSQL's   *)
(* statement_timestamp() advance together, and only differences are used.  *)
(***************************************************************************)
EXTENDS Integers, Sequences, FiniteSets

CONSTANTS
    Replicas,              \* scheduler processes
    Feeds,                 \* active feeds
    Cadence,               \* config.cadenceMs: the length of a window
    LeaseMs,               \* config.leaseMs
    PublishMinRemaining,   \* SCHEDULER_PRODUCTION_PUBLISH_MIN_REMAINING_MS
    TerminalMinRemaining,  \* SCHEDULER_PRODUCTION_TERMINAL_MIN_REMAINING_MS
    Concurrency,           \* config.concurrency
    ConnectBound,          \* the transport's bounds on connection and channel set-up
    CloseBound,            \* its bound on closing what a failed set-up has opened
    ConfirmBound,          \* the transport's confirmTimeoutMs
    StatementBound,        \* statement_timeout
    MaxDue,                \* bound: due feeds of one cycle
    MaxOrphans,            \* bound: statements whose client has gone
    MaxRows,               \* bound: rows per feed
    Horizon                \* bound: the clock stops here

ASSUME CycleAssumption ==
    /\ Cadence \in Nat \ {0}
    /\ LeaseMs \in Nat \ {0}
    /\ LeaseMs >= Cadence           \* loadSchedulerConfig refuses less
    /\ PublishMinRemaining \in Nat
    /\ TerminalMinRemaining \in Nat
    /\ Concurrency \in Nat \ {0}
    /\ ConnectBound \in Nat
    /\ CloseBound \in Nat
    /\ ConfirmBound \in Nat
    /\ StatementBound \in Nat
    /\ MaxDue \in Nat
    /\ MaxOrphans \in Nat
    /\ MaxRows \in Nat
    /\ Horizon \in Nat

VARIABLES
    leases,       \* the lease table
    now,          \* the clock
    cycle,        \* replica -> the locals of its runOnce
    call,         \* replica -> the statement it awaits
    orphans,      \* statements no client waits for any more
    flights,      \* publications in progress
    sent          \* messages handed to a channel, and what became of them

vars == <<leases, now, cycle, call, orphans, flights, sent>>

Windows == 0..(Horizon \div Cadence)

Store == INSTANCE LeaseLedger

Steps == {"idle", "listing", "next", "acquiring", "acquired", "renewing",
          "publishing", "settling", "confirming"}
Ops == {"acquire", "renew", "release", "markFailed", "markConfirmed"}
Results == {"pending", "acquired", "lease_active", "already_confirmed", "ok", "refused"}

Statement == [op : Ops, feed : Feeds, window : Windows, version : Nat]
NoCall == [result |-> "none"]
Cycle == [step : Steps, window : Windows, due : Seq(Feeds), version : Nat, deadline : Nat,
          attempted : Nat, scheduled : Nat, confirmed : Nat, failed : Nat]
Flight == [replica : Replicas, feed : Feeds, version : Nat,
           phase : {"connecting", "closing", "sent"}, since : Nat]
Message == [feed : Feeds, window : Windows, version : Nat,
            fate : {"wire", "queued", "returned"}]

TypeOK ==
    /\ Store!TypeOK
    /\ cycle \in [Replicas -> Cycle]
    /\ \A r \in Replicas :
          call[r] = NoCall \/ call[r] \in [stmt : Statement, result : Results, version : Nat]
    /\ orphans \subseteq Statement
    /\ flights \subseteq Flight
    /\ sent \subseteq Message
    /\ Cardinality(orphans) <= MaxOrphans

-----------------------------------------------------------------------------
Idle == [step |-> "idle", window |-> 0, due |-> <<>>, version |-> 0, deadline |-> 0,
         attempted |-> 0, scheduled |-> 0, confirmed |-> 0, failed |-> 0]

Feed(r) == Head(cycle[r].due)

(* Fault for TypeOK: the time is not rounded down to a window's start.     *)
UnalignedWindowAt(time) == time

(* scheduleWindowFor.                                                      *)
WindowAt(time) == time \div Cadence

(* The loop's continue statements: the next decision, its locals unset.    *)
NextDecision(c) == [c EXCEPT !.step = "next", !.due = Tail(@), !.version = 0, !.deadline = 0]

CountAttempt(c) == [c EXCEPT !.attempted = @ + 1]
CountConfirmed(c) == [c EXCEPT !.confirmed = @ + 1]
CountFailure(c) == [c EXCEPT !.failed = @ + 1]

Remaining(c) == c.deadline - now

(* Replica r sends a statement about its current feed and lease.           *)
Send(r, op, version) ==
    call' = [call EXCEPT ![r] =
        [stmt |-> [op |-> op, feed |-> Feed(r), window |-> cycle[r].window,
                   version |-> version],
         result |-> "pending", version |-> 0]]

Answered(r, result) == call[r] # NoCall /\ call[r].result = result

Forget(r) == call' = [call EXCEPT ![r] = NoCall]

Token(x) == <<x.feed, x.version>>

Awaits(r, fl) ==
    /\ fl.replica = r
    /\ cycle[r].step = "publishing"
    /\ Feed(r) = fl.feed
    /\ cycle[r].version = fl.version

-----------------------------------------------------------------------------
(* The database                                                            *)

AcquireRuns(s, at, result, version) ==
    /\ s.op = "acquire"
    /\ \/ result = "lease_active" /\ Store!AcquireActive(s.feed, s.window)
       \/ result = "already_confirmed" /\ Store!AcquireConfirmed(s.feed, s.window)
       \/ result = "acquired" /\ Store!AcquireGranted(s.feed, s.window, at)
    /\ version = Len(leases[s.feed]) + 1

(* An UPDATE that finds no owned row is refused (oneOwnedLeaseRow throws). *)
UpdateRuns(s, at, result, version) ==
    /\ version = s.version
    /\ \/ /\ result = "ok"
          /\ \/ s.op = "renew" /\ Store!Renew(s.feed, s.version, at)
             \/ s.op = "release" /\ Store!Release(s.feed, s.version, at)
             \/ s.op = "markFailed" /\ Store!MarkFailed(s.feed, s.version, at)
             \/ s.op = "markConfirmed" /\ Store!MarkConfirmed(s.feed, s.version, at)
       \/ /\ result = "refused"
          /\ s.op # "acquire"
          /\ ~Store!Owned(s.feed, s.version, at)
          /\ UNCHANGED leases

(* Statement s takes effect with the given answer.                         *)
TakesEffect(s, at, result, version) ==
    AcquireRuns(s, at, result, version) \/ UpdateRuns(s, at, result, version)

StatementRuns(r) ==
    /\ Answered(r, "pending")
    /\ \E at \in Store!StatementTimes, result \in Results,
          version \in 0..(Len(leases[call[r].stmt.feed]) + 1) :
          /\ call[r].stmt.op = "renew" => at + LeaseMs >= cycle[r].deadline
          /\ TakesEffect(call[r].stmt, at, result, version)
          /\ call' = [call EXCEPT ![r].result = result, ![r].version = version]
    /\ UNCHANGED <<now, cycle, orphans, flights, sent>>

(* A statement whose client has timed out or died reaches the database.    *)
OrphanRuns ==
    /\ \E s \in orphans, at \in Store!StatementTimes, result \in Results :
          /\ \E version \in 0..(Len(leases[s.feed]) + 1) : TakesEffect(s, at, result, version)
          /\ orphans' = orphans \ {s}
    /\ UNCHANGED <<now, cycle, call, flights, sent>>

(* The client loses interest in a statement: it may or may not still run.  *)
Abandoned(r) ==
    \/ UNCHANGED orphans
    \/ /\ Answered(r, "pending")
       /\ Cardinality(orphans) < MaxOrphans
       /\ orphans' = orphans \cup {call[r].stmt}

(* A call of the store rejects: refused by the fence, or a connection      *)
(* error or time-out, whatever the statement did or may still do.          *)
CallFails(r, op) ==
    /\ call[r] # NoCall
    /\ call[r].stmt.op = op
    /\ Forget(r)
    /\ Abandoned(r)

CallSucceeds(r, op, result) ==
    /\ Answered(r, result)
    /\ call[r].stmt.op = op
    /\ Forget(r)
    /\ UNCHANGED orphans

-----------------------------------------------------------------------------
(* One cycle of a replica                                                  *)

StartCycle(r) ==
    /\ cycle[r].step = "idle"
    /\ cycle' = [cycle EXCEPT ![r].step = "listing", ![r].window = WindowAt(now)]
    /\ UNCHANGED <<leases, now, call, orphans, flights, sent>>

(* The feed source answers with the due feeds in order of priority.  Pages *)
(* are read one after the other, so that a feed may come twice.            *)
ListReturns(r) ==
    /\ cycle[r].step = "listing"
    /\ \E n \in 0..MaxDue : \E due \in [1..n -> Feeds] :
          cycle' = [cycle EXCEPT ![r].step = "next", ![r].due = due]
    /\ UNCHANGED <<leases, now, call, orphans, flights, sent>>

(* The feed source rejects and so does runOnce; the loop carries on.       *)
ListFails(r) ==
    /\ cycle[r].step = "listing"
    /\ cycle' = [cycle EXCEPT ![r] = Idle]
    /\ UNCHANGED <<leases, now, call, orphans, flights, sent>>

BeginAcquire(r) ==
    /\ cycle[r].step = "next"
    /\ cycle[r].due # <<>>
    /\ cycle[r].attempted < Concurrency
    /\ cycle' = [cycle EXCEPT ![r].step = "acquiring"]
    /\ Send(r, "acquire", 0)
    /\ UNCHANGED <<leases, now, orphans, flights, sent>>

(* Fault for CyclesEnd: the loop over the due feeds does not stop at the   *)
(* concurrency.                                                            *)
FinishOnlyAtTheEnd(r) ==
    /\ cycle[r].step = "next"
    /\ cycle[r].due = <<>>
    /\ cycle' = [cycle EXCEPT ![r] = Idle]
    /\ UNCHANGED <<leases, now, call, orphans, flights, sent>>

(* The end of the loop or its break; the loop of the process calls again.  *)
(* lastSuccessAt, which only readiness reads, is left out.                 *)
FinishCycle(r) ==
    /\ cycle[r].step = "next"
    /\ cycle[r].due = <<>> \/ cycle[r].attempted >= Concurrency
    /\ cycle' = [cycle EXCEPT ![r] = Idle]
    /\ UNCHANGED <<leases, now, call, orphans, flights, sent>>

Acquired(r) ==
    /\ CallSucceeds(r, "acquire", "acquired")
    /\ cycle' = [cycle EXCEPT ![r].step = "acquired", ![r].version = call[r].version,
                              ![r].attempted = @ + 1, ![r].scheduled = @ + 1]
    /\ UNCHANGED <<leases, now, flights, sent>>

(* lease_active and already_confirmed do not use the cycle's allowance.    *)
NotAcquired(r) ==
    /\ \/ CallSucceeds(r, "acquire", "lease_active")
       \/ CallSucceeds(r, "acquire", "already_confirmed")
    /\ cycle' = [cycle EXCEPT ![r] = NextDecision(@)]
    /\ UNCHANGED <<leases, now, flights, sent>>

(* Fault for AttemptsAccounted: a failed acquire is not an attempt.        *)
AcquireFailsForFree(r) ==
    /\ CallFails(r, "acquire")
    /\ cycle' = [cycle EXCEPT ![r] = CountFailure(NextDecision(@))]
    /\ UNCHANGED <<leases, now, flights, sent>>

AcquireFails(r) ==
    /\ CallFails(r, "acquire")
    /\ cycle' = [cycle EXCEPT ![r] = CountFailure(CountAttempt(NextDecision(@)))]
    /\ UNCHANGED <<leases, now, flights, sent>>

(* The payload or the envelope is invalid: the lease is given back.        *)
CommandRejected(r) ==
    /\ cycle[r].step = "acquired"
    /\ cycle' = [cycle EXCEPT ![r] = [CountFailure(@) EXCEPT !.step = "settling"]]
    /\ Send(r, "release", cycle[r].version)
    /\ UNCHANGED <<leases, now, orphans, flights, sent>>

(* The deadline counts from renewalStartedAt, when the renewal is sent; the *)
(* server samples its clock later, so that the deadline is conservative.   *)
BeginRenew(r) ==
    /\ cycle[r].step = "acquired"
    /\ cycle' = [cycle EXCEPT ![r].step = "renewing", ![r].deadline = now + LeaseMs]
    /\ Send(r, "renew", cycle[r].version)
    /\ UNCHANGED <<leases, now, orphans, flights, sent>>

(* Fault for SentUnderLease: a failed renewal does not stop the attempt.   *)
RenewFailurePublishes(r) ==
    /\ CallFails(r, "renew")
    /\ cycle' = [cycle EXCEPT ![r].step = "publishing"]
    /\ flights' = flights \cup {[replica |-> r, feed |-> Feed(r), version |-> cycle[r].version,
                                 phase |-> "connecting", since |-> now]}
    /\ UNCHANGED <<leases, now, sent>>

(* The renewal rejects, or its answer is none to reckon with (which        *)
(* renewedLeaseDurationMs checks): ownership is uncertain, and the lease   *)
(* is left to expire.                                                      *)
RenewFails(r) ==
    /\ CallFails(r, "renew")
    /\ cycle' = [cycle EXCEPT ![r] = CountFailure(NextDecision(@))]
    /\ UNCHANGED <<leases, now, flights, sent>>

(* Fault for OnePublicationPerFeed: the renewed lease is trusted blindly.  *)
NeverTooLate(c) == FALSE

(* Fault for TransportSettlesFirst: any publication budget will do.        *)
TooLateOnlyForTheBudget(c) == Remaining(c) - TerminalMinRemaining <= 0

TooLateToPublish(c) ==
    \/ Remaining(c) < PublishMinRemaining
    \/ Remaining(c) - TerminalMinRemaining <= 0

RenewedTooLate(r) ==
    /\ Answered(r, "ok") /\ call[r].stmt.op = "renew"
    /\ TooLateToPublish(cycle[r])
    /\ cycle' = [cycle EXCEPT ![r] = [CountFailure(@) EXCEPT !.step = "settling"]]
    /\ Send(r, "release", cycle[r].version)
    /\ UNCHANGED <<leases, now, orphans, flights, sent>>

(* Fault for OwnedUntilDeadline: the deadline counts from the answer.      *)
StartPublicationFromTheAnswer(r) ==
    /\ CallSucceeds(r, "renew", "ok")
    /\ ~TooLateToPublish(cycle[r])
    /\ cycle' = [cycle EXCEPT ![r].step = "publishing", ![r].deadline = now + LeaseMs]
    /\ flights' = flights \cup {[replica |-> r, feed |-> Feed(r), version |-> cycle[r].version,
                                 phase |-> "connecting", since |-> now]}
    /\ UNCHANGED <<leases, now, sent>>

StartPublication(r) ==
    /\ CallSucceeds(r, "renew", "ok")
    /\ ~TooLateToPublish(cycle[r])
    /\ cycle' = [cycle EXCEPT ![r].step = "publishing"]
    /\ flights' = flights \cup {[replica |-> r, feed |-> Feed(r), version |-> cycle[r].version,
                                 phase |-> "connecting", since |-> now]}
    /\ UNCHANGED <<leases, now, sent>>

-----------------------------------------------------------------------------
(* The publication                                                         *)

(* The channel is ready and takes the message.                             *)
HandOver(fl) ==
    /\ fl.phase = "connecting"
    /\ flights' = (flights \ {fl}) \cup {[fl EXCEPT !.phase = "sent", !.since = now]}
    /\ sent' = sent \cup {[feed |-> fl.feed, version |-> fl.version,
                           window |-> leases[fl.feed][fl.version].window, fate |-> "wire"]}
    /\ UNCHANGED <<leases, now, cycle, call, orphans>>

(* The set-up fails with a connection open, and publish() rejects only     *)
(* when that is closed or boundedClose has given it up.                    *)
SetupFails(fl) ==
    /\ fl.phase = "connecting"
    /\ flights' = (flights \ {fl}) \cup {[fl EXCEPT !.phase = "closing", !.since = now]}
    /\ UNCHANGED <<leases, now, cycle, call, orphans, sent>>

(* The broker routes a message or, as it is mandatory, returns it.         *)
BrokerHandles(m, fate) ==
    /\ m.fate = "wire"
    /\ sent' = (sent \ {m}) \cup {[m EXCEPT !.fate = fate]}
    /\ UNCHANGED <<leases, now, cycle, call, orphans, flights>>

Fate(fl) == {m.fate : m \in {x \in sent : Token(x) = Token(fl)}}

(* The publication settles and the replica that awaits it goes on.         *)
Settles(fl) ==
    /\ Awaits(fl.replica, fl)
    /\ flights' = flights \ {fl}
    /\ UNCHANGED <<leases, now, orphans, sent>>

(* No channel, or the channel refuses the message: known not published.    *)
NotPublished(fl) ==
    LET r == fl.replica IN
    /\ fl.phase \in {"connecting", "closing"}
    /\ Settles(fl)
    /\ cycle' = [cycle EXCEPT ![r] = [CountFailure(@) EXCEPT !.step = "settling"]]
    /\ Send(r, "release", fl.version)

(* The mandatory message came back before its confirm: definitive.         *)
Rejected(fl) ==
    LET r == fl.replica IN
    /\ fl.phase = "sent"
    /\ Fate(fl) = {"returned"}
    /\ Settles(fl)
    /\ cycle' = [cycle EXCEPT ![r] = [CountFailure(@) EXCEPT !.step = "settling"]]
    /\ Send(r, "markFailed", fl.version)

(* Fault for ConfirmedIsQueued: an unclear outcome counts as a success.    *)
AmbiguousConfirms(fl) ==
    LET r == fl.replica IN
    /\ Settles(fl)
    /\ cycle' = [cycle EXCEPT ![r].step = "confirming"]
    /\ Send(r, "markConfirmed", fl.version)

(* Fault for EarlyEndsAreDefinitive: an unclear outcome gives the lease    *)
(* back.                                                                   *)
AmbiguousReleases(fl) ==
    LET r == fl.replica IN
    /\ Settles(fl)
    /\ cycle' = [cycle EXCEPT ![r] = [CountFailure(@) EXCEPT !.step = "settling"]]
    /\ Send(r, "release", fl.version)

(* A negative confirm, a channel error or close, the confirm time-out, or  *)
(* any error without a disposition, before or after the hand-over.         *)
Ambiguous(fl) ==
    LET r == fl.replica IN
    /\ Settles(fl)
    /\ cycle' = [cycle EXCEPT ![r] = CountFailure(NextDecision(@))]
    /\ UNCHANGED call

(* The broker confirms with the reserve for the terminal fence left.       *)
ConfirmedInTime(fl) ==
    LET r == fl.replica IN
    /\ fl.phase = "sent"
    /\ Fate(fl) = {"queued"}
    /\ Remaining(cycle[r]) >= TerminalMinRemaining
    /\ Settles(fl)
    /\ cycle' = [cycle EXCEPT ![r].step = "confirming"]
    /\ Send(r, "markConfirmed", fl.version)

(* The broker confirms too late: the row is left to expire.                *)
ConfirmedTooLate(fl) ==
    LET r == fl.replica IN
    /\ fl.phase = "sent"
    /\ Fate(fl) = {"queued"}
    /\ Remaining(cycle[r]) < TerminalMinRemaining
    /\ Settles(fl)
    /\ cycle' = [cycle EXCEPT ![r] = CountFailure(NextDecision(@))]
    /\ UNCHANGED call

(* The timer of publishWithinLeaseDeadline wins the race; the publication  *)
(* itself is not cancelled.                                                *)
DeadlineTimer(r) ==
    /\ cycle[r].step = "publishing"
    /\ Remaining(cycle[r]) <= TerminalMinRemaining
    /\ cycle' = [cycle EXCEPT ![r] = CountFailure(NextDecision(@))]
    /\ UNCHANGED <<leases, now, call, orphans, flights, sent>>

(* A publication nobody awaits any more settles, in whatever way.          *)
UnawaitedSettles(fl) ==
    /\ ~Awaits(fl.replica, fl)
    /\ flights' = flights \ {fl}
    /\ UNCHANGED <<leases, now, cycle, call, orphans, sent>>

-----------------------------------------------------------------------------
(* The end of an attempt                                                   *)

(* release and markFailed are best effort: their errors are only reported. *)
SettlingEnds(r) ==
    /\ cycle[r].step = "settling"
    /\ \E op \in {"release", "markFailed"} :
          CallFails(r, op) \/ CallSucceeds(r, op, "ok")
    /\ cycle' = [cycle EXCEPT ![r] = NextDecision(@)]
    /\ UNCHANGED <<leases, now, flights, sent>>

Confirmed(r) ==
    /\ CallSucceeds(r, "markConfirmed", "ok")
    /\ cycle' = [cycle EXCEPT ![r] = CountConfirmed(NextDecision(@))]
    /\ UNCHANGED <<leases, now, flights, sent>>

(* Fault for RepublishedOnlyAfterExpiry: a confirmation that fails gives   *)
(* the lease back.                                                         *)
ConfirmFailureReleases(r) ==
    /\ call[r] # NoCall
    /\ call[r].stmt.op = "markConfirmed"
    /\ Abandoned(r)
    /\ cycle' = [cycle EXCEPT ![r] = [CountFailure(@) EXCEPT !.step = "settling"]]
    /\ Send(r, "release", cycle[r].version)
    /\ UNCHANGED <<leases, now, flights, sent>>

(* Never followed by markFailed: the row may be confirmed.                 *)
ConfirmFails(r) ==
    /\ CallFails(r, "markConfirmed")
    /\ cycle' = [cycle EXCEPT ![r] = CountFailure(NextDecision(@))]
    /\ UNCHANGED <<leases, now, flights, sent>>

(* The process dies and starts again with no memory of its cycle.          *)
Crash(r) ==
    /\ cycle[r].step # "idle"
    /\ cycle' = [cycle EXCEPT ![r] = Idle]
    /\ Forget(r)
    /\ Abandoned(r)
    /\ flights' = {fl \in flights : fl.replica # r}
    /\ UNCHANGED <<leases, now, sent>>

(* Time passes while no timer is due.  The deadline's timer may fire one    *)
(* unit late (a busy event loop), so that a confirm can come in too late.  *)
PhaseBound == [connecting |-> ConnectBound, closing |-> CloseBound, sent |-> ConfirmBound]

TimerDue(fl) == now - fl.since >= PhaseBound[fl.phase]

DeadlineDue(r) ==
    cycle[r].step = "publishing" /\ Remaining(cycle[r]) < TerminalMinRemaining

Tick ==
    /\ \A fl \in flights : ~TimerDue(fl)
    /\ \A r \in Replicas : ~DeadlineDue(r)
    /\ Store!Tick
    /\ UNCHANGED <<cycle, call, orphans, flights, sent>>

-----------------------------------------------------------------------------
CycleStep(r) ==
    \/ StartCycle(r) \/ ListReturns(r) \/ ListFails(r) \/ FinishCycle(r)
    \/ BeginAcquire(r) \/ Acquired(r) \/ NotAcquired(r) \/ AcquireFails(r)
    \/ CommandRejected(r)
    \/ BeginRenew(r) \/ RenewFails(r) \/ RenewedTooLate(r) \/ StartPublication(r)
    \/ DeadlineTimer(r) \/ SettlingEnds(r) \/ Confirmed(r) \/ ConfirmFails(r)

PublicationStep(fl) ==
    \/ HandOver(fl) \/ SetupFails(fl) \/ NotPublished(fl) \/ Rejected(fl)
    \/ Ambiguous(fl) \/ ConfirmedInTime(fl) \/ ConfirmedTooLate(fl) \/ UnawaitedSettles(fl)

BrokerStep == \E m \in sent : BrokerHandles(m, "queued") \/ BrokerHandles(m, "returned")

Init ==
    /\ Store!Init
    /\ cycle = [r \in Replicas |-> Idle]
    /\ call = [r \in Replicas |-> NoCall]
    /\ orphans = {}
    /\ flights = {}
    /\ sent = {}

Next ==
    \/ \E r \in Replicas : CycleStep(r) \/ StatementRuns(r) \/ Crash(r)
    \/ \E fl \in flights : PublicationStep(fl)
    \/ OrphanRuns
    \/ BrokerStep
    \/ Tick

Spec == Init /\ [][Next]_vars

(* Every await of runOnce ends: the store's statements and the transport's *)
(* steps are bounded by their timers, and the event loop runs what is due. *)
Fairness ==
    \A r \in Replicas :
        WF_vars(\/ CycleStep(r)
                \/ StatementRuns(r)
                \/ \E fl \in flights : fl.replica = r /\ PublicationStep(fl))

FairSpec == Spec /\ Fairness

-----------------------------------------------------------------------------
(* Properties                                                              *)

Row(x) == leases[x.feed][x.version]

(* Nothing is handed to a channel except under a lease the sender still    *)
(* owns by the database's clock.                                           *)
SentUnderLease ==
    [][\A fl \in flights :
          HandOver(fl) => Store!Owned(fl.feed, fl.version, now)]_vars

(* A row says confirmed only if its message reached the queue.             *)
ConfirmedIsQueued ==
    \A f \in Feeds : \A v \in DOMAIN leases[f] :
        leases[f][v].status = "confirmed"
            => \E m \in sent : Token(m) = <<f, v>> /\ m.fate = "queued"

(* A lease is given back early only for work that never was and never will *)
(* be published, and marked failed only when the broker returned it.       *)
EarlyEndsAreDefinitive ==
    \A f \in Feeds : \A v \in DOMAIN leases[f] :
        /\ leases[f][v].status = "released"
            => \A x \in sent \cup flights : Token(x) # <<f, v>>
        /\ leases[f][v].status = "failed"
            => \E m \in sent : Token(m) = <<f, v>> /\ m.fate = "returned"

(* A window is published again only after the earlier attempt was returned *)
(* or ran into its expiry: never beside or after a live, released or       *)
(* confirmed one.                                                          *)
RepublishedOnlyAfterExpiry ==
    \A m, n \in sent :
        m.feed = n.feed /\ m.window = n.window /\ m.version < n.version
            => Row(m).status \in {"failed", "expired"}

(* While a replica's own deadline has not passed it does own its lease.    *)
OwnedUntilDeadline ==
    \A r \in Replicas :
        cycle[r].step = "publishing" /\ now < cycle[r].deadline
            => Store!Owned(Feed(r), cycle[r].version, now)

(* Two publications for one feed never overlap.                            *)
OnePublicationPerFeed ==
    \A x, y \in flights : x.feed = y.feed => x = y

(* The margins fit the transport's bounds, with and without a connection   *)
(* to close: a replica never leaves a publication behind that may still be *)
(* handed over, and any other at most at the very instant the transport's  *)
(* own timer ends it.                                                      *)
TransportSettlesFirst ==
    \A fl \in flights :
        Awaits(fl.replica, fl) \/ (fl.phase # "connecting" /\ TimerDue(fl))

(* Between two decisions every attempt of the cycle has been counted once, *)
(* as confirmed or as failed, and the allowance is respected.              *)
AttemptsAccounted ==
    \A r \in Replicas :
        LET c == cycle[r] IN
        /\ c.scheduled <= c.attempted /\ c.attempted <= Concurrency
        /\ c.step = "next" => c.confirmed + c.failed = c.attempted

(* Every cycle ends, whatever the store and the broker do.                 *)
CyclesEnd == \A r \in Replicas : cycle[r].step # "idle" ~> cycle[r].step = "idle"

(* README: "the durable lease prevents repeated publication of the same    *)
(* feed/window across restarts or concurrent replicas".                    *)
NoRepeatedPublication ==
    \A m, n \in sent :
        m.feed = n.feed /\ m.window = n.window /\ {m.fate, n.fate} = {"queued"} => m = n
=============================================================================
