----------------------------- MODULE Publisher ------------------------------
(***************************************************************************)
(* SchedulerRabbitMqPublisherTransport: publications with confirms over    *)
(* one cached channel, its set-up, its quarantine, and close() and         *)
(* connect() around them.                                                  *)
(*                                                                         *)
(* The process runs one callback at a time, with the continuations it      *)
(* resolves: an action is one such turn of the event loop.  A connection   *)
(* carries at most one channel, and the two are cached and closed          *)
(* together: an index into conns stands for both.  Timers are not clocked: *)
(* a time-out may strike whenever its operation is pending.                *)
(***************************************************************************)
EXTENDS Integers, Sequences

CONSTANTS
    Publications,     \* calls of publish()
    MaxConnections,   \* bound: connections dialled
    MaxGeneration     \* bound: lifecycle transitions

ASSUME PublisherAssumption ==
    /\ MaxConnections \in Nat
    /\ MaxGeneration \in Nat

VARIABLES
    closing,      \* the transport is closing or closed
    generation,   \* lifecycleGeneration
    cached,       \* the cached channel, 0 when there is none
    setup,        \* the operation behind channelPromise
    conns,        \* every connection ever dialled
    pubs,         \* the publications
    closer        \* how far closeTransport has come

vars == <<closing, generation, cached, setup, conns, pubs, closer>>

NoSetup == [stage |-> "none"]
Setup == [stage : {"dialing", "opening", "aborting"}, conn : Nat, generation : Nat]

(* givenUp: nobody waits for the dialling any more; closeAsked: close() was *)
(* called on it; unclear: an outcome on its channel was ambiguous.         *)
Connection == [state : {"dialing", "open", "closed"}, givenUp : BOOLEAN,
               closeAsked : BOOLEAN, unclear : BOOLEAN]

Outcomes == {"confirmed", "rejected", "not-published", "ambiguous"}
Publication == [state : {"new", "waiting", "unconfirmed"} \cup Outcomes,
                channel : Nat,
                fate : {"none", "wire", "queued", "returned"}]

TypeOK ==
    /\ closing \in BOOLEAN
    /\ generation \in 0..MaxGeneration
    /\ conns \in Seq(Connection)
    /\ cached \in 0..Len(conns)
    /\ setup = NoSetup \/ (setup \in Setup /\ setup.conn \in DOMAIN conns)
    /\ pubs \in [Publications -> Publication]
    /\ \A p \in Publications : pubs[p].channel \in 0..Len(conns)
    /\ closer \in {"none", "draining", "awaitingSetup", "closing"}

-----------------------------------------------------------------------------
Dialled == [state |-> "dialing", givenUp |-> FALSE, closeAsked |-> FALSE, unclear |-> FALSE]

InFlight == {p \in Publications : pubs[p].state \in {"waiting", "unconfirmed"}}

Waiting == {p \in Publications : pubs[p].state = "waiting"}

IsCurrentGeneration == ~closing /\ setup.generation = generation

(* boundedClose of a connection and its channel.                           *)
AskClose(c) == [conns EXCEPT ![c].closeAsked = TRUE]

(* quarantineChannel, after an outcome that is unclear or not.             *)
Quarantine(c, unclear) ==
    /\ cached' = IF cached = c THEN 0 ELSE cached
    /\ conns' = [conns EXCEPT ![c].closeAsked = @ \/ cached = c,
                              ![c].unclear = @ \/ unclear]

(* Fault for UnclearChannelsRetired: an unclear outcome keeps the channel. *)
KeepChannel(c) ==
    /\ conns' = [conns EXCEPT ![c].unclear = TRUE]
    /\ UNCHANGED cached

QuarantineUnclear(c) == Quarantine(c, TRUE)

Settle(p, outcome) == pubs' = [pubs EXCEPT ![p].state = outcome]

(* createChannel starts to dial.                                           *)
StartSetup ==
    /\ Len(conns) < MaxConnections
    /\ conns' = Append(conns, Dialled)
    /\ setup' = [stage |-> "dialing", conn |-> Len(conns) + 1, generation |-> generation]

-----------------------------------------------------------------------------
(* publish                                                                 *)

(* Fault for TypeOK: the refusal is passed on without a disposition.       *)
RefusedWithoutDisposition(p) ==
    /\ pubs[p].state = "new"
    /\ closing
    /\ Settle(p, "closing")
    /\ UNCHANGED <<closing, generation, cached, setup, conns, closer>>

(* ensureChannel throws.                                                   *)
PublishRefused(p) ==
    /\ pubs[p].state = "new"
    /\ closing
    /\ Settle(p, "not-published")
    /\ UNCHANGED <<closing, generation, cached, setup, conns, closer>>

(* The publications that have the channel hand their messages to it; those *)
(* it refuses by an exception are not published, and it is retired.        *)
HandedOver(c, taken) ==
    [p \in Publications |->
        IF p \in taken
        THEN [state |-> "unconfirmed", channel |-> c, fate |-> "wire"] ELSE pubs[p]]

PublishOnCached(p) ==
    /\ pubs[p].state = "new"
    /\ ~closing
    /\ cached # 0
    /\ \/ pubs' = HandedOver(cached, {p}) /\ UNCHANGED <<cached, conns>>
       \/ Settle(p, "not-published") /\ Quarantine(cached, FALSE)
    /\ UNCHANGED <<closing, generation, setup, closer>>

PublishWaits(p) ==
    /\ pubs[p].state = "new"
    /\ ~closing
    /\ cached = 0
    /\ pubs' = [pubs EXCEPT ![p].state = "waiting"]
    /\ IF setup = NoSetup THEN StartSetup ELSE UNCHANGED <<conns, setup>>
    /\ UNCHANGED <<closing, generation, cached, closer>>

(* The broker routes the message or returns it as unroutable.              *)
BrokerHandles(p, fate) ==
    /\ pubs[p].fate = "wire"
    /\ pubs' = [pubs EXCEPT ![p].fate = fate]
    /\ UNCHANGED <<closing, generation, cached, setup, conns, closer>>

Hears(p) == pubs[p].state = "unconfirmed" /\ conns[pubs[p].channel].state = "open"

(* Fault for ImplementsContract: the return of a message is not listened   *)
(* to, and the acknowledgement that follows it is taken as its confirm.    *)
ConfirmedWhateverWasReturned(p) ==
    /\ Hears(p)
    /\ pubs[p].fate \in {"queued", "returned"}
    /\ Settle(p, "confirmed")
    /\ UNCHANGED <<closing, generation, cached, setup, conns, closer>>

Confirmed(p) ==
    /\ Hears(p)
    /\ pubs[p].fate = "queued"
    /\ Settle(p, "confirmed")
    /\ UNCHANGED <<closing, generation, cached, setup, conns, closer>>

Returned(p) ==
    /\ Hears(p)
    /\ pubs[p].fate = "returned"
    /\ Settle(p, "rejected")
    /\ UNCHANGED <<closing, generation, cached, setup, conns, closer>>

(* A negative confirm or the confirm timer.                                *)
Unclear(p) ==
    /\ pubs[p].state = "unconfirmed"
    /\ Settle(p, "ambiguous")
    /\ QuarantineUnclear(pubs[p].channel)
    /\ UNCHANGED <<closing, generation, setup, closer>>

(* A channel or its connection closes or fails, asked to or not: whoever   *)
(* waits for a confirm on it hears of it.                                  *)
ChannelCloses(c) ==
    /\ conns[c].state = "open"
    /\ ~(setup # NoSetup /\ setup.conn = c)
    /\ cached' = IF cached = c THEN 0 ELSE cached
    /\ LET left == {p \in Publications : pubs[p].state = "unconfirmed" /\ pubs[p].channel = c} IN
       /\ pubs' = [p \in Publications |->
                      IF p \in left THEN [pubs[p] EXCEPT !.state = "ambiguous"] ELSE pubs[p]]
       /\ conns' = [conns EXCEPT ![c].state = "closed",
                                 ![c].unclear = @ \/ left # {}]
    /\ UNCHANGED <<closing, generation, setup, closer>>

-----------------------------------------------------------------------------
(* createChannel                                                           *)

(* probe() and assertTopology() need the channel, too.                     *)
Probe ==
    /\ ~closing
    /\ cached = 0
    /\ setup = NoSetup
    /\ StartSetup
    /\ UNCHANGED <<closing, generation, cached, pubs, closer>>

(* Fault for PublicationsSettle: the publications that share the set-up do *)
(* not hear of its failure.                                                *)
SetupVanishes == setup' = NoSetup /\ UNCHANGED pubs

(* The promise is rejected: its publications were not published.           *)
SetupRejects ==
    /\ setup' = NoSetup
    /\ pubs' = [p \in Publications |->
                   IF p \in Waiting THEN [pubs[p] EXCEPT !.state = "not-published"] ELSE pubs[p]]

DialSucceeds ==
    LET c == setup.conn IN
    /\ setup.stage = "dialing"
    /\ setup' = [setup EXCEPT !.stage = IF IsCurrentGeneration THEN "opening" ELSE "aborting"]
    /\ conns' = [conns EXCEPT ![c].state = "open", ![c].closeAsked = ~IsCurrentGeneration]
    /\ UNCHANGED <<closing, generation, cached, pubs, closer>>

DialFails ==
    /\ setup.stage = "dialing"
    /\ conns' = [conns EXCEPT ![setup.conn].state = "closed"]
    /\ SetupRejects
    /\ UNCHANGED <<closing, generation, cached, closer>>

DialTimesOut ==
    /\ setup.stage = "dialing"
    /\ conns' = [conns EXCEPT ![setup.conn].givenUp = TRUE]
    /\ SetupRejects
    /\ UNCHANGED <<closing, generation, cached, closer>>

(* Fault for NoStrayConnection: a connection that comes late is not closed. *)
LateDialIsIgnored(c) ==
    /\ conns[c].state = "dialing" /\ conns[c].givenUp
    /\ conns' = [conns EXCEPT ![c].state = "open"]
    /\ UNCHANGED <<closing, generation, cached, setup, pubs, closer>>

(* A dialling given up ends after all; boundedValue closes what it brings. *)
LateDial(c) ==
    /\ conns[c].state = "dialing" /\ conns[c].givenUp
    /\ \E state \in {"open", "closed"} :
          conns' = [conns EXCEPT ![c].state = state, ![c].closeAsked = (state = "open")]
    /\ UNCHANGED <<closing, generation, cached, setup, pubs, closer>>

(* The confirm channel is there and no close has intervened: it is cached  *)
(* and the waiting publications use it, but for those it throws at.        *)
ChannelOpens ==
    LET c == setup.conn IN
    /\ setup.stage = "opening"
    /\ IsCurrentGeneration
    /\ setup' = NoSetup
    /\ \E taken \in SUBSET Waiting :
          /\ pubs' = [p \in Publications |->
                         IF p \in Waiting \ taken
                         THEN [pubs[p] EXCEPT !.state = "not-published"]
                         ELSE HandedOver(c, taken)[p]]
          /\ IF taken = Waiting
             THEN cached' = c /\ UNCHANGED conns
             ELSE cached' = 0 /\ conns' = AskClose(c)
    /\ UNCHANGED <<closing, generation, closer>>

(* It is refused, takes too long, the connection fails meanwhile, or the   *)
(* transport has been closed: the connection is closed first.              *)
ChannelFails ==
    /\ setup.stage = "opening"
    /\ setup' = [setup EXCEPT !.stage = "aborting"]
    /\ conns' = AskClose(setup.conn)
    /\ UNCHANGED <<closing, generation, cached, pubs, closer>>

(* Fault for CloseReturns: an aborted set-up waits for the close() that    *)
(* waits for it.                                                           *)
AbortAwaitsClose ==
    /\ setup.stage = "aborting"
    /\ closer = "none"
    /\ SetupRejects
    /\ UNCHANGED <<closing, generation, cached, conns, closer>>

AbortEnds ==
    /\ setup.stage = "aborting"
    /\ SetupRejects
    /\ UNCHANGED <<closing, generation, cached, conns, closer>>

-----------------------------------------------------------------------------
(* close and connect                                                       *)

Close ==
    /\ closer = "none"
    /\ generation < MaxGeneration
    /\ closing' = TRUE
    /\ generation' = generation + 1
    /\ closer' = "draining"
    /\ UNCHANGED <<cached, setup, conns, pubs>>

(* drain() ends when nothing is in flight, or at its time-out.             *)
DrainEnds ==
    /\ closer = "draining"
    /\ closer' = "awaitingSetup"
    /\ UNCHANGED <<closing, generation, cached, setup, conns, pubs>>

(* Fault for ClosedIsClosed: close() does not wait for a set-up.           *)
TakeResourcesNow ==
    /\ closer = "awaitingSetup"
    /\ closer' = "closing"
    /\ cached' = 0
    /\ conns' = IF cached = 0 THEN conns ELSE AskClose(cached)
    /\ UNCHANGED <<closing, generation, setup, pubs>>

TakeResources ==
    /\ closer = "awaitingSetup"
    /\ setup = NoSetup
    /\ closer' = "closing"
    /\ cached' = 0
    /\ conns' = IF cached = 0 THEN conns ELSE AskClose(cached)
    /\ UNCHANGED <<closing, generation, setup, pubs>>

CloseEnds ==
    /\ closer = "closing"
    /\ closer' = "none"
    /\ UNCHANGED <<closing, generation, cached, setup, conns, pubs>>

(* connect() waits for a close in progress, then opens the transport again. *)
Connect ==
    /\ closer = "none"
    /\ closing
    /\ generation < MaxGeneration
    /\ closing' = FALSE
    /\ generation' = generation + 1
    /\ StartSetup
    /\ UNCHANGED <<cached, pubs, closer>>

-----------------------------------------------------------------------------
SetupStep == DialSucceeds \/ DialFails \/ DialTimesOut \/ ChannelOpens \/ ChannelFails \/ AbortEnds

CloseStep == DrainEnds \/ TakeResources \/ CloseEnds

Publish(p) == PublishRefused(p) \/ PublishOnCached(p) \/ PublishWaits(p)

PublicationStep(p) ==
    \/ Publish(p) \/ Confirmed(p) \/ Returned(p) \/ Unclear(p)
    \/ \E fate \in {"queued", "returned"} : BrokerHandles(p, fate)

Init ==
    /\ closing = FALSE
    /\ generation = 0
    /\ cached = 0
    /\ setup = NoSetup
    /\ conns = <<>>
    /\ pubs = [p \in Publications |-> [state |-> "new", channel |-> 0, fate |-> "none"]]
    /\ closer = "none"

Next ==
    \/ \E p \in Publications : PublicationStep(p)
    \/ \E c \in DOMAIN conns : ChannelCloses(c) \/ LateDial(c)
    \/ Probe \/ SetupStep
    \/ Close \/ CloseStep \/ Connect

Spec == Init /\ [][Next]_vars

(* Every pending operation has a timer: of the dialling and the channel's  *)
(* opening, of boundedClose, of the confirm and of the drain.              *)
Fairness ==
    /\ WF_vars(SetupStep)
    /\ WF_vars(CloseStep)
    /\ \A p \in Publications : WF_vars(Unclear(p))

FairSpec == Spec /\ Fairness

-----------------------------------------------------------------------------
(* How the promise of a call looks to its caller.                          *)
Phase(state) ==
    CASE state \in {"new", "waiting"} -> "unsent"
      [] state = "unconfirmed" -> "sent"
      [] state \in Outcomes -> state

PromiseOf(x) == [phase |-> Phase(x.state), fate |-> x.fate]

Promises == [p \in Publications |-> PromiseOf(pubs[p])]

Contract == INSTANCE PublishContract WITH promise <- Promises

(* Through all sharing of set-ups and channels, quarantines, closes and    *)
(* late answers, each call of publish() resolves or rejects once, and with *)
(* what is true of its message.                                            *)
ImplementsContract == Contract!Spec

(* README: unclear outcomes "quarantine the cached channel before          *)
(* reconnect": such a channel never takes another message.                 *)
UnclearChannelsRetired ==
    [][\A p \in Publications :
          pubs[p].state # "unconfirmed" /\ pubs'[p].state = "unconfirmed"
              => ~conns[pubs'[p].channel].unclear]_vars

(* No connection is lost sight of: an open one is the cached one, the      *)
(* set-up's own, or has been asked to close, however late it came.         *)
NoStrayConnection ==
    \A c \in DOMAIN conns :
        conns[c].state = "open" /\ ~conns[c].closeAsked
            => c = cached \/ (setup # NoSetup /\ setup.conn = c)

(* When close() has returned, nothing is left that could publish: neither  *)
(* a channel nor a set-up that would still bring one.                      *)
ClosedIsClosed == closing /\ closer = "none" => cached = 0 /\ setup = NoSetup

(* Every publication that was started settles, whatever becomes of the     *)
(* connection, the channel and the broker's answers.                       *)
PublicationsSettle ==
    \A p \in Publications : p \in InFlight ~> p \notin InFlight

(* close() returns, although it waits for publications and for a set-up    *)
(* that may itself have to close what it has opened.                       *)
CloseReturns == closer # "none" ~> closer = "none"
=============================================================================
