--------------------------- MODULE Publisher_Proofs ---------------------------
(***************************************************************************)
(* What the transport promises for any number of publications and          *)
(* connections, and through any number of quarantines, closes and          *)
(* connects: what callers are told is true, no unclear channel is used     *)
(* again, no connection is lost sight of, and closed is closed.            *)
(***************************************************************************)
EXTENDS Publisher, TLAPS

(* A message exists once a channel has taken it and not before, and a      *)
(* definite outcome is the message's fate.  Who awaits a confirm has a     *)
(* channel.                                                                *)
OutcomesOK ==
    \A p \in Publications :
        /\ pubs[p].fate = "none" <=> pubs[p].state \in {"new", "waiting", "not-published"}
        /\ pubs[p].state = "confirmed" => pubs[p].fate = "queued"
        /\ pubs[p].state = "rejected" => pubs[p].fate = "returned"
        /\ pubs[p].state = "unconfirmed" => pubs[p].channel # 0

(* The cached channel can be used, and while there is one nobody sets up   *)
(* another.                                                                *)
CachedOK ==
    cached # 0 => /\ setup = NoSetup
                  /\ conns[cached].state = "open"
                  /\ ~conns[cached].unclear

(* A set-up's connection is new: no publication has used it.  It is still  *)
(* dialled when the set-up waits for that and open later, and when the     *)
(* set-up is aborted it has been asked to close.                           *)
SetupOK ==
    setup # NoSetup =>
        LET c == setup.conn
        IN  /\ ~conns[c].unclear
            /\ \A p \in Publications : pubs[p].channel # c
            /\ setup.stage = "dialing" => conns[c].state = "dialing" /\ ~conns[c].givenUp
            /\ setup.stage # "dialing" => conns[c].state = "open"
            /\ setup.stage = "aborting" => conns[c].closeAsked

(* The transport is closing as long as close() has not returned, and once  *)
(* the resources are taken there are none any more.                        *)
CloserOK ==
    /\ closer # "none" => closing
    /\ closer = "closing" \/ (closing /\ closer = "none") => cached = 0 /\ setup = NoSetup

PublisherInv == TypeOK /\ OutcomesOK /\ CachedOK /\ SetupOK /\ CloserOK /\ NoStrayConnection

USE DEF NoSetup

-----------------------------------------------------------------------------
(* Ways to change the connections                                          *)

(* One connection changes, the others stay as they are.                    *)
Changed(c) ==
    /\ conns' \in Seq(Connection)
    /\ DOMAIN conns = 1..Len(conns)
    /\ DOMAIN conns' = 1..Len(conns)
    /\ Len(conns') = Len(conns)
    /\ \A x \in 1..Len(conns) : x # c => conns'[x] = conns[x]

LEMMA ChangedConnection ==
    ASSUME conns \in Seq(Connection), NEW c \in 1..Len(conns), NEW r \in Connection,
           conns' = [conns EXCEPT ![c] = r]
    PROVE  Changed(c) /\ conns'[c] = r
  BY DEF Changed

LEMMA AskedToClose ==
    ASSUME conns \in Seq(Connection), NEW c \in 1..Len(conns), conns' = AskClose(c)
    PROVE  /\ Changed(c)
           /\ conns'[c].state = conns[c].state
           /\ conns'[c].closeAsked
           /\ conns'[c].unclear = conns[c].unclear
  <1> DEFINE r == [conns[c] EXCEPT !.closeAsked = TRUE]
  <1>1. r \in Connection
    <2>1. conns[c] \in Connection
      OBVIOUS
    <2> QED BY <2>1 DEF Connection
  <1>2. conns' = [conns EXCEPT ![c] = r]
    BY Zenon DEF AskClose
  <1>3. r.state = conns[c].state /\ r.closeAsked /\ r.unclear = conns[c].unclear
    <2>1. conns[c] \in Connection
      OBVIOUS
    <2> QED BY <2>1 DEF Connection
  <1> HIDE DEF r
  <1>4. Changed(c) /\ conns'[c] = r
    BY <1>1, <1>2, ChangedConnection
  <1> QED BY <1>3, <1>4

LEMMA SetupStarted ==
    ASSUME conns \in Seq(Connection), StartSetup
    PROVE  /\ conns' \in Seq(Connection)
           /\ Len(conns') = Len(conns) + 1
           /\ \A x \in 1..Len(conns) : conns'[x] = conns[x]
           /\ conns'[Len(conns) + 1] = Dialled
           /\ setup' = [stage |-> "dialing", conn |-> Len(conns) + 1,
                        generation |-> generation]
  BY DEF StartSetup, Dialled, Connection

LEMMA Quarantined ==
    ASSUME conns \in Seq(Connection), NEW c \in 1..Len(conns), NEW unclear \in BOOLEAN,
           Quarantine(c, unclear)
    PROVE  /\ Changed(c)
           /\ conns'[c].state = conns[c].state
           /\ conns'[c].givenUp = conns[c].givenUp
           /\ conns'[c].closeAsked = (conns[c].closeAsked \/ cached = c)
           /\ conns'[c].unclear = (conns[c].unclear \/ unclear)
           /\ cached' = IF cached = c THEN 0 ELSE cached
  <1> DEFINE r == [conns[c] EXCEPT !.closeAsked = @ \/ cached = c, !.unclear = @ \/ unclear]
  <1>1. conns[c] \in Connection
    OBVIOUS
  <1>2. r \in Connection
    <2>1. (conns[c].closeAsked \/ cached = c) \in BOOLEAN
      OBVIOUS
    <2>2. (conns[c].unclear \/ unclear) \in BOOLEAN
      OBVIOUS
    <2> QED BY <1>1, <2>1, <2>2 DEF Connection
  <1>3. conns' = [conns EXCEPT ![c] = r]
    BY Zenon DEF Quarantine
  <1>4. /\ r.state = conns[c].state
        /\ r.givenUp = conns[c].givenUp
        /\ r.closeAsked = (conns[c].closeAsked \/ cached = c)
        /\ r.unclear = (conns[c].unclear \/ unclear)
    BY <1>1 DEF Connection
  <1> HIDE DEF r
  <1>5. Changed(c) /\ conns'[c] = r
    BY <1>2, <1>3, ChangedConnection
  <1> QED BY <1>4, <1>5 DEF Quarantine

LEMMA TypeKept ==
    ASSUME TypeOK, NEW c, Changed(c),
           UNCHANGED <<closing, generation, closer>>,
           cached' \in {0, cached},
           setup' = NoSetup \/ setup' = setup,
           pubs' \in [Publications -> Publication],
           \A p \in Publications : pubs'[p].channel \in {pubs[p].channel} \cup 0..Len(conns)
    PROVE  TypeOK'
  BY DEF TypeOK, Changed

-----------------------------------------------------------------------------
(* The steps of publish()                                                  *)

LEMMA PublishRefusedInv ==
    ASSUME PublisherInv, NEW p \in Publications, PublishRefused(p)
    PROVE  PublisherInv'
  BY DEF PublisherInv, TypeOK, Publication, Outcomes, OutcomesOK, CachedOK, SetupOK, CloserOK,
         NoStrayConnection, PublishRefused, Settle

LEMMA PublishOnCachedInv ==
    ASSUME PublisherInv, NEW p \in Publications, PublishOnCached(p)
    PROVE  PublisherInv'
  <1> USE DEF PublisherInv
  <1>1. /\ cached \in 1..Len(conns) /\ setup = NoSetup /\ ~conns[cached].unclear
        /\ pubs[p].state = "new" /\ ~closing
        /\ UNCHANGED <<closing, generation, setup, closer>>
    BY DEF PublishOnCached, TypeOK, CachedOK
  <1>2. CASE pubs' = HandedOver(cached, {p}) /\ UNCHANGED <<cached, conns>>
    <2>1. \A q \in Publications :
             pubs'[q] = IF q = p THEN [state |-> "unconfirmed", channel |-> cached, fate |-> "wire"]
                                 ELSE pubs[q]
      BY <1>2 DEF HandedOver
    <2>2. TypeOK'
      BY <1>1, <1>2, <2>1 DEF TypeOK, HandedOver, Publication, Outcomes
    <2>3. OutcomesOK'
      BY <1>1, <2>1 DEF OutcomesOK, TypeOK
    <2>4. (CachedOK /\ SetupOK /\ CloserOK /\ NoStrayConnection)'
      BY <1>1, <1>2 DEF CachedOK, SetupOK, CloserOK, NoStrayConnection
    <2> QED BY <2>2, <2>3, <2>4
  <1>3. CASE Settle(p, "not-published") /\ Quarantine(cached, FALSE)
    <2>1. Changed(cached) /\ conns'[cached].closeAsked /\ cached' = 0
      BY <1>1, <1>3, Quarantined DEF TypeOK
    <2>2. TypeOK'
      <3>1. /\ pubs' \in [Publications -> Publication]
            /\ \A q \in Publications : pubs'[q].channel = pubs[q].channel
        BY <1>1, <1>3 DEF TypeOK, Settle, Publication, Outcomes
      <3> QED BY <1>1, <2>1, <3>1, TypeKept
    <2>3. OutcomesOK'
      BY <1>1, <1>3 DEF OutcomesOK, TypeOK, Settle
    <2>4. (CachedOK /\ SetupOK /\ CloserOK)'
      BY <1>1, <2>1 DEF CachedOK, SetupOK, CloserOK
    <2>5. NoStrayConnection'
      BY <1>1, <2>1 DEF NoStrayConnection, Changed, TypeOK, Connection
    <2> QED BY <2>2, <2>3, <2>4, <2>5
  <1> QED BY <1>2, <1>3 DEF PublishOnCached

(* A set-up begins only when there is no channel.                          *)
LEMMA StartSetupInv ==
    ASSUME PublisherInv, StartSetup, cached = 0, setup = NoSetup,
           cached' = cached, closing' = FALSE, closer = "none", closer' = "none",
           \A p \in Publications : pubs'[p].channel = pubs[p].channel
    PROVE  (CachedOK /\ SetupOK /\ CloserOK /\ NoStrayConnection)'
  <1> USE DEF PublisherInv
  <1> DEFINE n == Len(conns) + 1
  <1>1. /\ conns' \in Seq(Connection)
        /\ Len(conns') = n
        /\ \A x \in 1..Len(conns) : conns'[x] = conns[x]
        /\ conns'[n] = Dialled
        /\ setup' = [stage |-> "dialing", conn |-> n, generation |-> generation]
    BY SetupStarted DEF TypeOK
  <1>2. (CachedOK /\ CloserOK)'
    BY DEF CachedOK, CloserOK
  <1>3. SetupOK'
    <2>1. \A p \in Publications : pubs'[p].channel # n
      BY DEF TypeOK, Publication
    <2> QED BY <1>1, <2>1 DEF SetupOK, Dialled
  <1>4. NoStrayConnection'
    <2>1. setup' # NoSetup /\ setup'.conn = n
      BY <1>1 DEF NoSetup
    <2>2. ASSUME NEW c \in DOMAIN conns', c # n
          PROVE  c \in DOMAIN conns /\ conns'[c] = conns[c]
      BY <1>1, <2>2
    <2> QED BY <1>1, <2>1, <2>2 DEF NoStrayConnection
  <1> QED BY <1>2, <1>3, <1>4

LEMMA StartSetupType ==
    ASSUME TypeOK, StartSetup, cached' = cached, closing' \in BOOLEAN,
           generation' \in 0..MaxGeneration, UNCHANGED closer,
           pubs' \in [Publications -> Publication],
           \A p \in Publications : pubs'[p].channel = pubs[p].channel
    PROVE  TypeOK'
  <1> DEFINE n == Len(conns) + 1
  <1>1. /\ conns' \in Seq(Connection)
        /\ Len(conns') = n
        /\ setup' = [stage |-> "dialing", conn |-> n, generation |-> generation]
    BY SetupStarted DEF TypeOK
  <1>2. n \in Nat /\ n \in DOMAIN conns' /\ 0..Len(conns) \subseteq 0..Len(conns')
    BY <1>1 DEF TypeOK
  <1> HIDE DEF n
  <1>3. setup' \in Setup /\ setup'.conn \in DOMAIN conns'
    BY <1>1, <1>2 DEF TypeOK, Setup
  <1> QED BY <1>1, <1>2, <1>3 DEF TypeOK

LEMMA PublishWaitsInv ==
    ASSUME PublisherInv, NEW p \in Publications, PublishWaits(p)
    PROVE  PublisherInv'
  <1> USE DEF PublisherInv
  <1>1. /\ pubs[p].state = "new" /\ ~closing /\ cached = 0 /\ closer = "none"
        /\ pubs' = [pubs EXCEPT ![p].state = "waiting"]
        /\ UNCHANGED <<closing, generation, cached, closer>>
    BY DEF PublishWaits, CloserOK, TypeOK
  <1>2. /\ pubs' \in [Publications -> Publication]
        /\ \A q \in Publications : pubs'[q].channel = pubs[q].channel
    BY <1>1 DEF TypeOK, Publication, Outcomes
  <1>3. OutcomesOK'
    BY <1>1 DEF OutcomesOK, TypeOK, Publication
  <1>4. CASE setup = NoSetup /\ StartSetup
    <2>1. TypeOK'
      BY <1>1, <1>2, <1>4, StartSetupType DEF TypeOK
    <2>2. (CachedOK /\ SetupOK /\ CloserOK /\ NoStrayConnection)'
      BY <1>1, <1>2, <1>4, StartSetupInv DEF TypeOK
    <2> QED BY <1>3, <2>1, <2>2
  <1>5. CASE UNCHANGED <<conns, setup>>
    <2>1. TypeOK'
      BY <1>1, <1>2, <1>5 DEF TypeOK
    <2>2. (CachedOK /\ SetupOK /\ CloserOK /\ NoStrayConnection)'
      BY <1>1, <1>2, <1>5 DEF CachedOK, SetupOK, CloserOK, NoStrayConnection
    <2> QED BY <1>3, <2>1, <2>2
  <1> QED BY <1>4, <1>5 DEF PublishWaits

LEMMA BrokerHandlesInv ==
    ASSUME PublisherInv, NEW p \in Publications, NEW fate \in {"queued", "returned"},
           BrokerHandles(p, fate)
    PROVE  PublisherInv'
  BY DEF PublisherInv, TypeOK, Publication, Outcomes, OutcomesOK, CachedOK, SetupOK, CloserOK,
         NoStrayConnection, BrokerHandles

LEMMA ConfirmedInv ==
    ASSUME PublisherInv, NEW p \in Publications, Confirmed(p)
    PROVE  PublisherInv'
  BY DEF PublisherInv, TypeOK, Publication, Outcomes, OutcomesOK, CachedOK, SetupOK, CloserOK,
         NoStrayConnection, Confirmed, Hears, Settle

LEMMA ReturnedInv ==
    ASSUME PublisherInv, NEW p \in Publications, Returned(p)
    PROVE  PublisherInv'
  BY DEF PublisherInv, TypeOK, Publication, Outcomes, OutcomesOK, CachedOK, SetupOK, CloserOK,
         NoStrayConnection, Returned, Hears, Settle

LEMMA UnclearInv ==
    ASSUME PublisherInv, NEW p \in Publications, Unclear(p)
    PROVE  PublisherInv'
  <1> USE DEF PublisherInv
  <1> DEFINE c == pubs[p].channel
  <1>1. /\ c \in 1..Len(conns)
        /\ pubs[p].state = "unconfirmed"
        /\ Settle(p, "ambiguous")
        /\ UNCHANGED <<closing, generation, setup, closer>>
    BY DEF Unclear, OutcomesOK, TypeOK
  <1>2. /\ Changed(c)
        /\ conns'[c].state = conns[c].state
        /\ conns'[c].closeAsked = (conns[c].closeAsked \/ cached = c)
        /\ cached' = IF cached = c THEN 0 ELSE cached
    BY <1>1, Quarantined DEF TypeOK, Unclear, QuarantineUnclear
  <1>3. TypeOK'
    <2>1. /\ pubs' \in [Publications -> Publication]
          /\ \A q \in Publications : pubs'[q].channel = pubs[q].channel
      BY <1>1 DEF TypeOK, Settle, Publication, Outcomes
    <2> QED BY <1>1, <1>2, <2>1, TypeKept
  <1>4. OutcomesOK'
    BY <1>1 DEF OutcomesOK, TypeOK, Settle
  <1>5. (CachedOK /\ CloserOK)'
    BY <1>1, <1>2 DEF CachedOK, CloserOK, Changed, TypeOK
  <1>6. SetupOK'
    <2>1. /\ setup' = setup
          /\ \A q \in Publications : pubs'[q].channel = pubs[q].channel
      BY <1>1 DEF TypeOK, Settle
    <2>2. setup # NoSetup => setup.conn # c /\ setup.conn \in 1..Len(conns)
      BY <1>2 DEF SetupOK, TypeOK, Changed
    <2>3. setup # NoSetup => conns'[setup.conn] = conns[setup.conn]
      BY <1>2, <2>2 DEF Changed
    <2> QED BY <2>1, <2>3 DEF SetupOK
  <1>7. NoStrayConnection'
    <2> SUFFICES ASSUME NEW x \in 1..Len(conns),
                        conns'[x].state = "open", ~conns'[x].closeAsked
                 PROVE  x = cached' \/ (setup # NoSetup /\ setup.conn = x)
      BY <1>1, <1>2 DEF NoStrayConnection, Changed
    <2>1. conns[x].state = "open" /\ ~conns[x].closeAsked /\ (x = c => cached # c)
      BY <1>2 DEF Changed
    <2>2. x = cached \/ (setup # NoSetup /\ setup.conn = x)
      BY <1>2, <2>1 DEF NoStrayConnection, Changed
    <2> QED BY <1>2, <2>1, <2>2
  <1> QED BY <1>3, <1>4, <1>5, <1>6, <1>7

LEMMA ChannelClosesInv ==
    ASSUME PublisherInv, NEW c \in DOMAIN conns, ChannelCloses(c)
    PROVE  PublisherInv'
  <1> USE DEF PublisherInv
  <1> DEFINE left == {p \in Publications : pubs[p].state = "unconfirmed" /\ pubs[p].channel = c}
             r == [conns[c] EXCEPT !.state = "closed", !.unclear = @ \/ left # {}]
  <1> c \in 1..Len(conns)
    BY DEF TypeOK
  <1>1. /\ cached' = IF cached = c THEN 0 ELSE cached
        /\ ~(setup # NoSetup /\ setup.conn = c)
        /\ pubs' = [p \in Publications |->
                      IF p \in left THEN [pubs[p] EXCEPT !.state = "ambiguous"] ELSE pubs[p]]
        /\ UNCHANGED <<closing, generation, setup, closer>>
    BY Zenon DEF ChannelCloses
  <1>2. Changed(c) /\ conns'[c].state = "closed"
    <2>1. r \in Connection /\ r.state = "closed"
      <3>1. conns[c] \in Connection
        BY DEF TypeOK
      <3>2. (conns[c].unclear \/ left # {}) \in BOOLEAN
        OBVIOUS
      <3> QED BY <3>1, <3>2 DEF Connection
    <2>2. conns' = [conns EXCEPT ![c] = r]
      BY Zenon DEF ChannelCloses
    <2> HIDE DEF r
    <2> QED BY <2>1, <2>2, ChangedConnection DEF TypeOK
  <1>3. TypeOK'
    <2>1. /\ pubs' \in [Publications -> Publication]
          /\ \A q \in Publications : pubs'[q].channel = pubs[q].channel
      BY <1>1 DEF TypeOK, Publication, Outcomes
    <2> QED BY <1>1, <1>2, <2>1, TypeKept
  <1>4. OutcomesOK'
    BY <1>1 DEF OutcomesOK, TypeOK, Publication
  <1>5. (CachedOK /\ CloserOK)'
    BY <1>1, <1>2 DEF CachedOK, CloserOK, Changed, TypeOK
  <1>6. SetupOK'
    BY <1>1, <1>2 DEF SetupOK, Changed, TypeOK, Publication
  <1>7. NoStrayConnection'
    BY <1>1, <1>2 DEF NoStrayConnection, Changed, TypeOK, Connection
  <1> QED BY <1>3, <1>4, <1>5, <1>6, <1>7

-----------------------------------------------------------------------------
(* The steps of createChannel()                                            *)

LEMMA LateDialInv ==
    ASSUME PublisherInv, NEW c \in DOMAIN conns, LateDial(c)
    PROVE  PublisherInv'
  <1> USE DEF PublisherInv
  <1> c \in 1..Len(conns)
    BY DEF TypeOK
  <1>1. /\ conns[c].state = "dialing" /\ conns[c].givenUp
        /\ UNCHANGED <<closing, generation, cached, setup, pubs, closer>>
    BY DEF LateDial
  <1>2. PICK state \in {"open", "closed"} :
           conns' = [conns EXCEPT ![c].state = state, ![c].closeAsked = (state = "open")]
    BY DEF LateDial
  <1> DEFINE r == [conns[c] EXCEPT !.state = state, !.closeAsked = (state = "open")]
  <1>3. /\ Changed(c)
        /\ conns'[c].state = "open" => conns'[c].closeAsked
        /\ conns'[c].unclear = conns[c].unclear
    <2>1. conns[c] \in Connection
      BY DEF TypeOK
    <2>2. r \in Connection
      BY <2>1 DEF Connection
    <2>3. (r.state = "open" => r.closeAsked) /\ r.unclear = conns[c].unclear
      BY <2>1 DEF Connection
    <2>4. conns' = [conns EXCEPT ![c] = r]
      BY <1>2, Zenon
    <2> HIDE DEF r
    <2> QED BY <2>2, <2>3, <2>4, ChangedConnection DEF TypeOK
  <1>4. TypeOK'
    BY <1>1, <1>3, TypeKept DEF TypeOK
  <1>5. OutcomesOK'
    BY <1>1 DEF OutcomesOK
  <1>6. (CachedOK /\ CloserOK)'
    <2>1. cached # c
      BY <1>1 DEF CachedOK
    <2>2. cached # 0 => conns'[cached] = conns[cached]
      BY <1>3, <2>1 DEF Changed, TypeOK
    <2> QED BY <1>1, <2>2 DEF CachedOK, CloserOK
  <1>7. SetupOK'
    BY <1>1, <1>3 DEF SetupOK, Changed, TypeOK, Setup
  <1>8. NoStrayConnection'
    BY <1>1, <1>3 DEF NoStrayConnection, Changed
  <1> QED BY <1>4, <1>5, <1>6, <1>7, <1>8

LEMMA ProbeInv ==
    ASSUME PublisherInv, Probe
    PROVE  PublisherInv'
  <1> USE DEF PublisherInv
  <1>1. /\ ~closing /\ cached = 0 /\ setup = NoSetup /\ StartSetup /\ closer = "none"
        /\ UNCHANGED <<closing, generation, cached, pubs, closer>>
    BY DEF Probe, CloserOK, TypeOK
  <1>2. TypeOK'
    BY <1>1, StartSetupType DEF TypeOK
  <1>3. OutcomesOK'
    BY <1>1 DEF OutcomesOK
  <1>4. (CachedOK /\ SetupOK /\ CloserOK /\ NoStrayConnection)'
    BY <1>1, StartSetupInv DEF TypeOK
  <1> QED BY <1>2, <1>3, <1>4

(* While there is a set-up there is no cached channel.                     *)
LEMMA SetupIsAlone ==
    ASSUME PublisherInv, setup.stage # "none"
    PROVE  /\ setup \in Setup
           /\ setup # NoSetup
           /\ setup.conn \in 1..Len(conns)
           /\ conns[setup.conn] \in Connection
           /\ cached = 0
           /\ closer \in {"none", "draining", "awaitingSetup"}
           /\ closing => closer # "none"
  BY DEF PublisherInv, TypeOK, CachedOK, CloserOK, Setup

(* The publications that waited for the set-up hear of its end.            *)
LEMMA RejectedPublications ==
    ASSUME PublisherInv, SetupRejects
    PROVE  /\ setup' = NoSetup
           /\ pubs' \in [Publications -> Publication]
           /\ \A p \in Publications : pubs'[p].channel = pubs[p].channel
           /\ OutcomesOK'
  <1>1. /\ setup' = NoSetup
        /\ pubs' = [p \in Publications |->
              IF p \in Waiting THEN [pubs[p] EXCEPT !.state = "not-published"] ELSE pubs[p]]
    BY DEF SetupRejects
  <1>2. /\ pubs' \in [Publications -> Publication]
        /\ \A p \in Publications : pubs'[p].channel = pubs[p].channel
    BY <1>1 DEF PublisherInv, TypeOK, Publication, Outcomes
  <1>3. OutcomesOK'
    BY <1>1 DEF PublisherInv, TypeOK, Publication, Outcomes, OutcomesOK, Waiting
  <1> QED BY <1>1, <1>2, <1>3

LEMMA DialSucceedsInv ==
    ASSUME PublisherInv, DialSucceeds
    PROVE  PublisherInv'
  <1> USE DEF PublisherInv
  <1> DEFINE c == setup.conn
             current == IsCurrentGeneration
             r == [conns[c] EXCEPT !.state = "open", !.closeAsked = ~current]
  <1>1. /\ setup.stage = "dialing"
        /\ setup' = [setup EXCEPT !.stage = IF current THEN "opening" ELSE "aborting"]
        /\ UNCHANGED <<closing, generation, cached, pubs, closer>>
    BY DEF DialSucceeds
  <1>2. /\ setup \in Setup /\ setup # NoSetup /\ c \in 1..Len(conns)
        /\ conns[c] \in Connection /\ cached = 0
    BY <1>1, SetupIsAlone
  <1>3. /\ setup' \in Setup /\ setup' # NoSetup /\ setup'.conn = c
        /\ setup'.stage = IF current THEN "opening" ELSE "aborting"
    BY <1>1, <1>2 DEF Setup
  <1>4. /\ Changed(c)
        /\ conns'[c].state = "open"
        /\ ~current => conns'[c].closeAsked
        /\ conns'[c].unclear = conns[c].unclear
    <2>1. current \in BOOLEAN
      BY <1>2 DEF IsCurrentGeneration, TypeOK
    <2>2. conns' = [conns EXCEPT ![c] = r]
      BY Zenon DEF DialSucceeds
    <2> HIDE DEF current
    <2>3. r \in Connection
      BY <1>2, <2>1 DEF Connection
    <2>4. r.state = "open" /\ (~current => r.closeAsked) /\ r.unclear = conns[c].unclear
      BY <1>2, <2>1 DEF Connection
    <2> HIDE DEF r
    <2> QED BY <1>2, <2>2, <2>3, <2>4, ChangedConnection DEF TypeOK
  <1> HIDE DEF current
  <1>5. TypeOK'
    BY <1>1, <1>2, <1>3, <1>4 DEF TypeOK, Changed
  <1>6. (OutcomesOK /\ CachedOK)'
    BY <1>1, <1>2 DEF OutcomesOK, CachedOK
  <1>7. SetupOK'
    BY <1>1, <1>2, <1>3, <1>4 DEF SetupOK
  <1>8. CloserOK'
    BY <1>1, <1>2, SetupIsAlone DEF CloserOK
  <1>9. NoStrayConnection'
    BY <1>1, <1>2, <1>3, <1>4 DEF NoStrayConnection, Changed
  <1> QED BY <1>5, <1>6, <1>7, <1>8, <1>9

(* The set-up ends without a channel; its connection is open no longer,    *)
(* not yet, or has been asked to close.                                    *)
LEMMA SetupEndsInv ==
    ASSUME PublisherInv, setup.stage # "none", SetupRejects,
           UNCHANGED <<closing, generation, cached, closer>>,
           Changed(setup.conn),
           conns'[setup.conn].state = "open" => conns'[setup.conn].closeAsked
    PROVE  PublisherInv'
  <1> USE DEF PublisherInv
  <1>1. /\ setup # NoSetup /\ setup.conn \in 1..Len(conns) /\ cached = 0
        /\ closer \in {"none", "draining", "awaitingSetup"}
        /\ closing => closer # "none"
    BY SetupIsAlone
  <1>2. /\ setup' = NoSetup
        /\ pubs' \in [Publications -> Publication]
        /\ \A p \in Publications : pubs'[p].channel = pubs[p].channel
        /\ OutcomesOK'
    BY RejectedPublications
  <1>3. TypeOK'
    BY <1>1, <1>2, TypeKept
  <1>4. (CachedOK /\ SetupOK /\ CloserOK)'
    BY <1>1, <1>2 DEF CachedOK, SetupOK, CloserOK
  <1>5. NoStrayConnection'
    BY <1>1, <1>2 DEF NoStrayConnection, Changed
  <1> QED BY <1>2, <1>3, <1>4, <1>5

LEMMA DialFailsInv ==
    ASSUME PublisherInv, DialFails
    PROVE  PublisherInv'
  <1> DEFINE c == setup.conn
             r == [conns[c] EXCEPT !.state = "closed"]
  <1>1. /\ setup.stage = "dialing" /\ SetupRejects
        /\ UNCHANGED <<closing, generation, cached, closer>>
    BY DEF DialFails
  <1>2. c \in 1..Len(conns) /\ conns[c] \in Connection
    BY <1>1, SetupIsAlone
  <1>3. r \in Connection /\ r.state = "closed"
    BY <1>2 DEF Connection
  <1>4. conns' = [conns EXCEPT ![c] = r]
    BY Zenon DEF DialFails
  <1>5. Changed(c) /\ conns'[c].state = "closed"
    <2> HIDE DEF r
    <2> QED BY <1>2, <1>3, <1>4, ChangedConnection DEF PublisherInv, TypeOK
  <1> QED BY <1>1, <1>5, SetupEndsInv

LEMMA DialTimesOutInv ==
    ASSUME PublisherInv, DialTimesOut
    PROVE  PublisherInv'
  <1> DEFINE c == setup.conn
             r == [conns[c] EXCEPT !.givenUp = TRUE]
  <1>1. /\ setup.stage = "dialing" /\ SetupRejects
        /\ UNCHANGED <<closing, generation, cached, closer>>
    BY DEF DialTimesOut
  <1>2. c \in 1..Len(conns) /\ conns[c] \in Connection
    BY <1>1, SetupIsAlone
  <1>3. conns[c].state = "dialing"
    BY <1>1, SetupIsAlone DEF PublisherInv, SetupOK
  <1>4. r \in Connection /\ r.state = "dialing"
    BY <1>2, <1>3 DEF Connection
  <1>5. conns' = [conns EXCEPT ![c] = r]
    BY Zenon DEF DialTimesOut
  <1>6. Changed(c) /\ conns'[c].state = "dialing"
    <2> HIDE DEF r
    <2> QED BY <1>2, <1>4, <1>5, ChangedConnection DEF PublisherInv, TypeOK
  <1> QED BY <1>1, <1>6, SetupEndsInv

LEMMA AbortEndsInv ==
    ASSUME PublisherInv, AbortEnds
    PROVE  PublisherInv'
  <1>1. /\ setup.stage = "aborting" /\ SetupRejects
        /\ UNCHANGED <<closing, generation, cached, conns, closer>>
    BY DEF AbortEnds
  <1>2. Changed(setup.conn)
    BY <1>1 DEF Changed, PublisherInv, TypeOK
  <1>3. conns'[setup.conn].closeAsked
    BY <1>1, SetupIsAlone DEF PublisherInv, SetupOK
  <1> QED BY <1>1, <1>2, <1>3, SetupEndsInv

LEMMA ChannelFailsInv ==
    ASSUME PublisherInv, ChannelFails
    PROVE  PublisherInv'
  <1> USE DEF PublisherInv
  <1> DEFINE c == setup.conn
  <1>1. /\ setup.stage = "opening"
        /\ setup' = [setup EXCEPT !.stage = "aborting"]
        /\ conns' = AskClose(c)
        /\ UNCHANGED <<closing, generation, cached, pubs, closer>>
    BY DEF ChannelFails
  <1>2. /\ setup \in Setup /\ setup # NoSetup /\ c \in 1..Len(conns) /\ cached = 0
    BY <1>1, SetupIsAlone
  <1>3. /\ setup' \in Setup /\ setup' # NoSetup /\ setup'.conn = c
        /\ setup'.stage = "aborting"
    BY <1>1, <1>2 DEF Setup
  <1>4. /\ Changed(c)
        /\ conns'[c].state = conns[c].state
        /\ conns'[c].closeAsked
        /\ conns'[c].unclear = conns[c].unclear
    BY <1>1, <1>2, AskedToClose DEF TypeOK
  <1>5. TypeOK'
    BY <1>1, <1>2, <1>3, <1>4 DEF TypeOK, Changed
  <1>6. (OutcomesOK /\ CachedOK)'
    BY <1>1, <1>2 DEF OutcomesOK, CachedOK
  <1>7. SetupOK'
    BY <1>1, <1>2, <1>3, <1>4 DEF SetupOK
  <1>8. CloserOK'
    BY <1>1, <1>2, SetupIsAlone DEF CloserOK
  <1>9. NoStrayConnection'
    BY <1>1, <1>2, <1>3, <1>4 DEF NoStrayConnection, Changed
  <1> QED BY <1>5, <1>6, <1>7, <1>8, <1>9

(* The new channel is handed to those that waited for it.                  *)
LEMMA ChannelOpensInv ==
    ASSUME PublisherInv, ChannelOpens
    PROVE  PublisherInv'
  <1> USE DEF PublisherInv
  <1> DEFINE c == setup.conn
  <1>1. /\ setup.stage = "opening" /\ ~closing /\ setup' = NoSetup
        /\ UNCHANGED <<closing, generation, closer>>
    BY DEF ChannelOpens, IsCurrentGeneration
  <1>2. PICK taken \in SUBSET Waiting :
           /\ pubs' = [p \in Publications |->
                         IF p \in Waiting \ taken
                         THEN [pubs[p] EXCEPT !.state = "not-published"]
                         ELSE HandedOver(c, taken)[p]]
           /\ IF taken = Waiting
              THEN cached' = c /\ UNCHANGED conns
              ELSE cached' = 0 /\ conns' = AskClose(c)
    BY Zenon DEF ChannelOpens
  <1>3. /\ setup # NoSetup /\ c \in 1..Len(conns) /\ cached = 0 /\ closer = "none"
        /\ conns[c].state = "open" /\ ~conns[c].unclear
    BY <1>1, SetupIsAlone DEF SetupOK, CloserOK
  <1>4. \A p \in Publications :
           pubs'[p] = IF p \in taken
                      THEN [state |-> "unconfirmed", channel |-> c, fate |-> "wire"]
                      ELSE IF p \in Waiting THEN [pubs[p] EXCEPT !.state = "not-published"]
                      ELSE pubs[p]
    BY <1>2 DEF HandedOver
  <1>5. /\ pubs' \in [Publications -> Publication]
        /\ \A p \in Publications : pubs'[p].channel \in {pubs[p].channel, c}
    <2>1. \A p \in Publications :
             pubs'[p] \in Publication /\ pubs'[p].channel \in {pubs[p].channel, c}
      <3> SUFFICES ASSUME NEW p \in Publications
                   PROVE  pubs'[p] \in Publication /\ pubs'[p].channel \in {pubs[p].channel, c}
        OBVIOUS
      <3>1. pubs[p] \in Publication
        BY DEF TypeOK
      <3>2. CASE p \in taken
        <4>1. pubs'[p] = [state |-> "unconfirmed", channel |-> c, fate |-> "wire"]
          BY <1>4, <3>2
        <4>2. c \in Nat
          BY <1>3 DEF TypeOK
        <4> QED BY <4>1, <4>2 DEF Publication
      <3>3. CASE p \in Waiting \ taken
        BY <1>4, <3>1, <3>3 DEF Publication, Outcomes
      <3>4. CASE p \notin Waiting
        BY <1>2, <1>4, <3>1, <3>4
      <3> QED BY <3>2, <3>3, <3>4
    <2> QED BY <1>2, <2>1
  <1>6. OutcomesOK'
    <2> SUFFICES ASSUME NEW p \in Publications
                 PROVE  /\ pubs'[p].fate = "none"
                              <=> pubs'[p].state \in {"new", "waiting", "not-published"}
                        /\ pubs'[p].state = "confirmed" => pubs'[p].fate = "queued"
                        /\ pubs'[p].state = "rejected" => pubs'[p].fate = "returned"
                        /\ pubs'[p].state = "unconfirmed" => pubs'[p].channel # 0
      BY DEF OutcomesOK
    <2>1. pubs[p] \in Publication
      BY DEF TypeOK
    <2>2. CASE p \in taken
      <3>1. pubs'[p] = [state |-> "unconfirmed", channel |-> c, fate |-> "wire"]
        BY <1>4, <2>2
      <3> QED BY <1>3, <3>1
    <2>3. CASE p \in Waiting \ taken
      BY <1>4, <2>1, <2>3 DEF OutcomesOK, Waiting, Publication
    <2>4. CASE p \notin Waiting
      BY <1>2, <1>4, <2>4 DEF OutcomesOK
    <2> QED BY <2>2, <2>3, <2>4
  <1>7. (SetupOK /\ CloserOK)'
    BY <1>1, <1>3 DEF SetupOK, CloserOK
  <1>8. CASE taken = Waiting
    <2>1. cached' = c /\ conns' = conns
      BY <1>2, <1>8
    <2>2. TypeOK'
      BY <1>1, <1>3, <1>5, <2>1 DEF TypeOK
    <2>3. (CachedOK /\ NoStrayConnection)'
      BY <1>1, <1>3, <2>1 DEF CachedOK, NoStrayConnection
    <2> QED BY <1>6, <1>7, <2>2, <2>3
  <1>9. CASE taken # Waiting
    <2>1. cached' = 0 /\ Changed(c) /\ conns'[c].closeAsked
      BY <1>2, <1>3, <1>9, AskedToClose DEF TypeOK
    <2>2. TypeOK'
      BY <1>1, <1>3, <1>5, <2>1, TypeKept
    <2>3. (CachedOK /\ NoStrayConnection)'
      BY <1>1, <1>3, <2>1 DEF CachedOK, NoStrayConnection, Changed
    <2> QED BY <1>6, <1>7, <2>2, <2>3
  <1> QED BY <1>8, <1>9

-----------------------------------------------------------------------------
(* The steps of close() and connect()                                      *)

LEMMA CloseInv ==
    ASSUME PublisherInv, Close
    PROVE  PublisherInv'
  BY PublisherAssumption
  DEF PublisherInv, TypeOK, OutcomesOK, CachedOK, SetupOK, CloserOK, NoStrayConnection, Close

LEMMA DrainEndsInv ==
    ASSUME PublisherInv, DrainEnds
    PROVE  PublisherInv'
  BY DEF PublisherInv, TypeOK, OutcomesOK, CachedOK, SetupOK, CloserOK, NoStrayConnection,
         DrainEnds

LEMMA TakeResourcesInv ==
    ASSUME PublisherInv, TakeResources
    PROVE  PublisherInv'
  <1> USE DEF PublisherInv
  <1>1. /\ closer = "awaitingSetup" /\ setup = NoSetup
        /\ closer' = "closing" /\ cached' = 0
        /\ UNCHANGED <<closing, generation, setup, pubs>>
    BY DEF TakeResources
  <1>2. (OutcomesOK /\ CachedOK /\ SetupOK /\ CloserOK)'
    BY <1>1 DEF OutcomesOK, CachedOK, SetupOK, CloserOK
  <1>3. CASE cached = 0
    <2>1. conns' = conns
      BY <1>3 DEF TakeResources
    <2> QED BY <1>1, <1>2, <1>3, <2>1 DEF TypeOK, NoStrayConnection
  <1>4. CASE cached # 0
    <2>1. cached \in 1..Len(conns) /\ conns' = AskClose(cached)
      BY <1>4 DEF TakeResources, TypeOK
    <2>2. Changed(cached) /\ conns'[cached].closeAsked
      BY <2>1, AskedToClose DEF TypeOK
    <2>3. TypeOK'
      BY <1>1, <2>2 DEF TypeOK, Changed
    <2>4. NoStrayConnection'
      BY <1>1, <2>1, <2>2 DEF NoStrayConnection, Changed
    <2> QED BY <1>2, <2>3, <2>4
  <1> QED BY <1>3, <1>4

LEMMA CloseEndsInv ==
    ASSUME PublisherInv, CloseEnds
    PROVE  PublisherInv'
  BY DEF PublisherInv, TypeOK, OutcomesOK, CachedOK, SetupOK, CloserOK, NoStrayConnection,
         CloseEnds

(* Closed is closed: only therefore connect() may set up a channel at once. *)
LEMMA ConnectInv ==
    ASSUME PublisherInv, Connect
    PROVE  PublisherInv'
  <1> USE DEF PublisherInv
  <1>1. /\ closer = "none" /\ closing /\ closing' = FALSE /\ generation' = generation + 1
        /\ generation < MaxGeneration
        /\ StartSetup
        /\ UNCHANGED <<cached, pubs, closer>>
    BY DEF Connect
  <1>2. cached = 0 /\ setup = NoSetup
    BY <1>1 DEF CloserOK
  <1>3. TypeOK'
    <2>1. generation \in 0..MaxGeneration
      BY DEF TypeOK
    <2>2. generation' \in 0..MaxGeneration
      BY <1>1, <2>1, PublisherAssumption
    <2>3. /\ pubs' \in [Publications -> Publication]
          /\ \A p \in Publications : pubs'[p].channel = pubs[p].channel
      BY <1>1 DEF TypeOK
    <2> QED BY <1>1, <2>2, <2>3, StartSetupType
  <1>4. OutcomesOK'
    BY <1>1 DEF OutcomesOK
  <1>5. (CachedOK /\ SetupOK /\ CloserOK /\ NoStrayConnection)'
    BY <1>1, <1>2, StartSetupInv DEF TypeOK
  <1> QED BY <1>3, <1>4, <1>5

-----------------------------------------------------------------------------
LEMMA PublisherInit == Init => PublisherInv
  <1> SUFFICES ASSUME Init PROVE PublisherInv
    OBVIOUS
  <1>1. conns \in Seq(Connection) /\ Len(conns) = 0 /\ DOMAIN conns = {}
    BY DEF Init
  <1>2. /\ pubs \in [Publications -> Publication]
        /\ \A p \in Publications : pubs[p].channel = 0
    BY DEF Init, Publication
  <1>3. TypeOK
    <2>1. generation \in 0..MaxGeneration
      BY PublisherAssumption DEF Init
    <2>2. closing \in BOOLEAN /\ setup = NoSetup /\ closer = "none"
      BY Zenon DEF Init
    <2>3. cached \in 0..Len(conns)
      BY <1>1 DEF Init
    <2> QED BY <1>1, <1>2, <2>1, <2>2, <2>3 DEF TypeOK
  <1>4. OutcomesOK /\ CachedOK /\ SetupOK /\ CloserOK /\ NoStrayConnection
    BY <1>1 DEF Init, OutcomesOK, CachedOK, SetupOK, CloserOK, NoStrayConnection
  <1> QED BY <1>3, <1>4 DEF PublisherInv

LEMMA PublisherStep ==
    ASSUME PublisherInv, [Next]_vars
    PROVE  PublisherInv'
  <1>1. CASE UNCHANGED vars
    BY <1>1 DEF vars, PublisherInv, TypeOK, OutcomesOK, CachedOK, SetupOK, CloserOK,
                NoStrayConnection
  <1>2. ASSUME NEW p \in Publications, PublicationStep(p)
        PROVE  PublisherInv'
    BY <1>2, PublishRefusedInv, PublishOnCachedInv, PublishWaitsInv, ConfirmedInv, ReturnedInv,
       UnclearInv, BrokerHandlesInv
    DEF PublicationStep, Publish
  <1>3. ASSUME NEW c \in DOMAIN conns, ChannelCloses(c) \/ LateDial(c)
        PROVE  PublisherInv'
    BY <1>3, ChannelClosesInv, LateDialInv
  <1>4. CASE Probe \/ SetupStep
    BY <1>4, ProbeInv, DialSucceedsInv, DialFailsInv, DialTimesOutInv, ChannelOpensInv,
       ChannelFailsInv, AbortEndsInv
    DEF SetupStep
  <1>5. CASE Close \/ CloseStep \/ Connect
    BY <1>5, CloseInv, DrainEndsInv, TakeResourcesInv, CloseEndsInv, ConnectInv DEF CloseStep
  <1> QED BY <1>1, <1>2, <1>3, <1>4, <1>5 DEF Next

(* The invariant itself, for any number of publications and connections.   *)
THEOREM PublisherInvariant == Spec => []PublisherInv
  BY PublisherInit, PublisherStep, PTL DEF Spec

(* The types, and that every index of a connection is one.                 *)
THEOREM PublisherTypeOK == Spec => []TypeOK
  <1>1. PublisherInv => TypeOK
    BY DEF PublisherInv
  <1> QED BY <1>1, PublisherInvariant, PTL

(* No connection, however late it comes, stays open unnoticed.             *)
THEOREM PublisherNoStrayConnection == Spec => []NoStrayConnection
  <1>1. PublisherInv => NoStrayConnection
    BY DEF PublisherInv
  <1> QED BY <1>1, PublisherInvariant, PTL

(* A close() that has returned has left neither a channel nor a set-up.    *)
THEOREM PublisherClosedIsClosed == Spec => []ClosedIsClosed
  <1>1. PublisherInv => ClosedIsClosed
    BY DEF PublisherInv, CloserOK, ClosedIsClosed
  <1> QED BY <1>1, PublisherInvariant, PTL

(* A publication begins to await its confirm on a channel that no unclear  *)
(* outcome has touched: the cached one, or the one just set up.            *)
LEMMA HandOverIsClear ==
    ASSUME PublisherInv, [Next]_vars, NEW p \in Publications,
           pubs[p].state # "unconfirmed", pubs'[p].state = "unconfirmed"
    PROVE  ~conns[pubs'[p].channel].unclear
  <1> USE DEF PublisherInv
  <1>1. ~UNCHANGED pubs
    OBVIOUS
  <1>2. ASSUME NEW q \in Publications, PublicationStep(q)
        PROVE  PublishOnCached(q) /\ q = p /\ pubs' = HandedOver(cached, {q})
    <2>1. pubs \in [Publications -> Publication]
      BY DEF TypeOK
    <2>2. ~PublishRefused(q) /\ ~PublishWaits(q)
      BY <2>1 DEF PublishRefused, PublishWaits, Settle, Publication
    <2>3. ~Confirmed(q) /\ ~Returned(q) /\ ~Unclear(q)
      BY <2>1 DEF Confirmed, Returned, Unclear, Settle, Publication
    <2>4. ~(\E fate \in {"queued", "returned"} : BrokerHandles(q, fate))
      BY <2>1 DEF BrokerHandles, Publication
    <2>5. ~(PublishOnCached(q) /\ Settle(q, "not-published"))
      BY <2>1 DEF Settle, Publication
    <2>6. PublishOnCached(q) /\ pubs' = HandedOver(cached, {q})
      BY <1>2, <2>2, <2>3, <2>4, <2>5 DEF PublicationStep, Publish, PublishOnCached
    <2> QED BY <2>6 DEF HandedOver
  <1>3. ASSUME NEW q \in Publications, PublicationStep(q)
        PROVE  ~conns[pubs'[p].channel].unclear
    <2>1. q = p /\ cached # 0 /\ pubs' = HandedOver(cached, {q})
      BY <1>2, <1>3 DEF PublishOnCached
    <2>2. pubs'[p].channel = cached
      BY <2>1 DEF HandedOver
    <2> QED BY <2>1, <2>2 DEF CachedOK
  <1>4. ASSUME NEW c \in DOMAIN conns, ChannelCloses(c)
        PROVE  FALSE
    BY <1>4 DEF ChannelCloses, TypeOK, Publication
  <1>5. ASSUME SetupRejects
        PROVE  FALSE
    BY <1>5 DEF SetupRejects, TypeOK, Publication
  <1>6. CASE ChannelOpens
    <2>1. setup.stage = "opening"
      BY <1>6 DEF ChannelOpens
    <2>2. PICK taken \in SUBSET Waiting :
             pubs' = [q \in Publications |->
                         IF q \in Waiting \ taken
                         THEN [pubs[q] EXCEPT !.state = "not-published"]
                         ELSE HandedOver(setup.conn, taken)[q]]
      BY <1>6, Zenon DEF ChannelOpens
    <2>3. pubs'[p].channel = setup.conn
      BY <2>2 DEF HandedOver, TypeOK, Publication
    <2> QED BY <2>1, <2>3, SetupIsAlone DEF SetupOK
  <1> QED BY <1>1, <1>3, <1>4, <1>5, <1>6
          DEF Next, vars, LateDial, Probe, SetupStep, DialSucceeds, DialFails, DialTimesOut,
              ChannelFails, AbortEnds, Close, CloseStep, DrainEnds, TakeResources, CloseEnds,
              Connect

(* A channel with an unclear outcome never takes another message.          *)
THEOREM PublisherUnclearChannelsRetired == Spec => UnclearChannelsRetired
  <1>1. PublisherInv /\ [Next]_vars
           => [\A p \in Publications :
                  pubs[p].state # "unconfirmed" /\ pubs'[p].state = "unconfirmed"
                      => ~conns[pubs'[p].channel].unclear]_vars
    BY HandOverIsClear
  <1> QED BY <1>1, PublisherInvariant, PTL DEF Spec, UnclearChannelsRetired

-----------------------------------------------------------------------------
(* The contract with the callers of publish()                              *)

LEMMA PromiseType ==
    ASSUME NEW x \in Publication
    PROVE  /\ PromiseOf(x) \in Contract!Promise
           /\ x.state \in {"new", "waiting"} => PromiseOf(x).phase = "unsent"
           /\ x.state = "unconfirmed" => PromiseOf(x).phase = "sent"
           /\ x.state \in Outcomes => PromiseOf(x).phase = x.state
           /\ PromiseOf(x).fate = x.fate
  BY DEF PromiseOf, Phase, Publication, Outcomes, Contract!Promise, Contract!Outcomes,
         Contract!Dispositions

(* The three ways in which a publication x becomes y.                      *)
LEMMA SettlesOnce ==
    ASSUME NEW x \in Publication, NEW y \in Publication, NEW outcome \in Outcomes,
           y.state = outcome, y.fate = x.fate,
           Contract!Tells(outcome, PromiseOf(x))
    PROVE  Contract!Settles(PromiseOf(x), PromiseOf(y))
  <1>1. PromiseOf(y) = [PromiseOf(x) EXCEPT !.phase = outcome]
    BY PromiseType DEF PromiseOf, Phase, Outcomes
  <1>2. outcome \in Contract!Outcomes
    BY DEF Outcomes, Contract!Outcomes, Contract!Dispositions
  <1> QED BY <1>1, <1>2 DEF Contract!Settles

LEMMA HandsOver ==
    ASSUME NEW x \in Publication, NEW y \in Publication,
           x.state \in {"new", "waiting"}, y.state = "unconfirmed", y.fate = "wire"
    PROVE  Contract!HandedOver(PromiseOf(x), PromiseOf(y))
  BY DEF PromiseOf, Phase, Outcomes, Contract!HandedOver

LEMMA IsHandled ==
    ASSUME NEW x \in Publication, NEW y \in Publication, NEW fate \in {"queued", "returned"},
           x.fate = "wire", y.state = x.state, y.fate = fate
    PROVE  Contract!BrokerHandles(PromiseOf(x), PromiseOf(y))
  <1>1. PromiseOf(x).fate = "wire"
    BY DEF PromiseOf
  <1>2. PromiseOf(y) = [PromiseOf(x) EXCEPT !.fate = fate]
    BY DEF PromiseOf
  <1> QED BY <1>1, <1>2 DEF Contract!BrokerHandles

(* What a step does to the promise of p.                                   *)
Moves(p) ==
    LET x == Promises[p]
        y == Promises'[p]
    IN  \/ y = x \/ Contract!HandedOver(x, y) \/ Contract!BrokerHandles(x, y)
        \/ Contract!Settles(x, y)

LEMMA MovesByRecords ==
    ASSUME NEW p \in Publications,
           \/ PromiseOf(pubs'[p]) = PromiseOf(pubs[p])
           \/ Contract!HandedOver(PromiseOf(pubs[p]), PromiseOf(pubs'[p]))
           \/ Contract!BrokerHandles(PromiseOf(pubs[p]), PromiseOf(pubs'[p]))
           \/ Contract!Settles(PromiseOf(pubs[p]), PromiseOf(pubs'[p]))
    PROVE  Moves(p)
  <1>1. Promises[p] = PromiseOf(pubs[p]) /\ Promises'[p] = PromiseOf(pubs'[p])
    BY DEF Promises, PromiseOf
  <1> QED BY <1>1 DEF Moves

LEMMA PublicationMoves ==
    ASSUME PublisherInv, PublisherInv', NEW q \in Publications, PublicationStep(q),
           NEW p \in Publications
    PROVE  Moves(p)
  <1> USE DEF PublisherInv
  <1> DEFINE x == pubs[p]
             y == pubs'[p]
             Becomes(from, to) == x.state = from /\ y.state = to /\ y.fate = x.fate
  <1>1. x \in Publication /\ y \in Publication /\ pubs \in [Publications -> Publication]
    BY DEF TypeOK
  <1>2. ASSUME NEW state, pubs' = [pubs EXCEPT ![q].state = state]
        PROVE  IF p = q THEN y.state = state /\ y.fate = x.fate ELSE y = x
    BY <1>1, <1>2 DEF Publication
  <1>3. CASE y = x
    BY <1>3, MovesByRecords
  <1>4. CASE PublishRefused(q)
    <2>1. y = x \/ Becomes("new", "not-published")
      BY <1>2, <1>4 DEF PublishRefused, Settle
    <2>2. CASE Becomes("new", "not-published")
      BY <1>1, <2>2, PromiseType, SettlesOnce, MovesByRecords DEF Outcomes, Contract!Tells
    <2> QED BY <1>3, <2>1, <2>2
  <1>5. CASE PublishOnCached(q)
    <2>1. CASE pubs' = HandedOver(cached, {q})
      <3>1. y = x \/ (x.state = "new" /\ y.state = "unconfirmed" /\ y.fate = "wire")
        BY <1>5, <2>1 DEF PublishOnCached, HandedOver
      <3> QED BY <1>1, <1>3, <3>1, HandsOver, MovesByRecords
    <2>2. CASE Settle(q, "not-published")
      <3>1. y = x \/ Becomes("new", "not-published")
        BY <1>2, <1>5, <2>2 DEF PublishOnCached, Settle
      <3>2. CASE Becomes("new", "not-published")
        BY <1>1, <3>2, PromiseType, SettlesOnce, MovesByRecords DEF Outcomes, Contract!Tells
      <3> QED BY <1>3, <3>1, <3>2
    <2> QED BY <1>5, <2>1, <2>2 DEF PublishOnCached
  <1>6. CASE PublishWaits(q)
    <2>1. y = x \/ Becomes("new", "waiting")
      BY <1>2, <1>6 DEF PublishWaits
    <2>2. CASE Becomes("new", "waiting")
      <3>1. PromiseOf(y) = PromiseOf(x)
        BY <2>2 DEF PromiseOf, Phase, Outcomes
      <3> QED BY <3>1, MovesByRecords
    <2> QED BY <1>3, <2>1, <2>2
  <1>7. CASE \E fate \in {"queued", "returned"} : BrokerHandles(q, fate)
    <2>1. PICK fate \in {"queued", "returned"} : BrokerHandles(q, fate)
      BY <1>7
    <2>2. y = x \/ (x.fate = "wire" /\ y.state = x.state /\ y.fate = fate)
      BY <1>1, <2>1 DEF BrokerHandles, Publication
    <2> QED BY <1>1, <1>3, <2>2, IsHandled, MovesByRecords
  <1>8. CASE Confirmed(q)
    <2>1. y = x \/ (x.fate = "queued" /\ Becomes("unconfirmed", "confirmed"))
      BY <1>2, <1>8 DEF Confirmed, Hears, Settle
    <2>2. CASE x.fate = "queued" /\ Becomes("unconfirmed", "confirmed")
      BY <1>1, <2>2, PromiseType, SettlesOnce, MovesByRecords DEF Outcomes, Contract!Tells
    <2> QED BY <1>3, <2>1, <2>2
  <1>9. CASE Returned(q)
    <2>1. y = x \/ (x.fate = "returned" /\ Becomes("unconfirmed", "rejected"))
      BY <1>2, <1>9 DEF Returned, Hears, Settle
    <2>2. CASE x.fate = "returned" /\ Becomes("unconfirmed", "rejected")
      BY <1>1, <2>2, PromiseType, SettlesOnce, MovesByRecords DEF Outcomes, Contract!Tells
    <2> QED BY <1>3, <2>1, <2>2
  <1>10. CASE Unclear(q)
    <2>1. y = x \/ Becomes("unconfirmed", "ambiguous")
      BY <1>2, <1>10 DEF Unclear, Settle
    <2>2. CASE Becomes("unconfirmed", "ambiguous")
      BY <1>1, <2>2, PromiseType, SettlesOnce, MovesByRecords DEF Outcomes, Contract!Tells
    <2> QED BY <1>3, <2>1, <2>2
  <1> QED BY <1>4, <1>5, <1>6, <1>7, <1>8, <1>9, <1>10 DEF PublicationStep, Publish

(* The other steps settle, or hand over, all publications that share a     *)
(* set-up or a channel at once.                                            *)
LEMMA SharedStepMoves ==
    ASSUME PublisherInv, PublisherInv', [Next]_vars, NEW p \in Publications,
           ~\E q \in Publications : PublicationStep(q)
    PROVE  Moves(p)
  <1> USE DEF PublisherInv
  <1> DEFINE x == pubs[p]
             y == pubs'[p]
             Becomes(from, to) == x.state = from /\ y.state = to /\ y.fate = x.fate
  <1>1. x \in Publication /\ y \in Publication
    BY DEF TypeOK
  <1>2. CASE y = x
    BY <1>2, MovesByRecords
  <1>3. CASE Becomes("waiting", "not-published")
    BY <1>1, <1>3, PromiseType, SettlesOnce, MovesByRecords DEF Outcomes, Contract!Tells
  <1>4. CASE Becomes("unconfirmed", "ambiguous")
    BY <1>1, <1>4, PromiseType, SettlesOnce, MovesByRecords DEF Outcomes, Contract!Tells
  <1>5. CASE x.state = "waiting" /\ y.state = "unconfirmed" /\ y.fate = "wire"
    BY <1>1, <1>5, HandsOver, MovesByRecords
  <1>6. ASSUME NEW c \in DOMAIN conns, ChannelCloses(c)
        PROVE  Moves(p)
    <2>1. y = x \/ (x.state = "unconfirmed" /\ y = [x EXCEPT !.state = "ambiguous"])
      BY <1>6 DEF ChannelCloses
    <2> QED BY <1>1, <1>2, <1>4, <2>1 DEF Publication
  <1>7. CASE SetupRejects
    <2>1. y = x \/ (x.state = "waiting" /\ y = [x EXCEPT !.state = "not-published"])
      BY <1>7 DEF SetupRejects, Waiting
    <2> QED BY <1>1, <1>2, <1>3, <2>1 DEF Publication
  <1>8. CASE ChannelOpens
    <2>1. PICK taken \in SUBSET Waiting :
             pubs' = [q \in Publications |->
                         IF q \in Waiting \ taken
                         THEN [pubs[q] EXCEPT !.state = "not-published"]
                         ELSE HandedOver(setup.conn, taken)[q]]
      BY <1>8, Zenon DEF ChannelOpens
    <2>2. CASE p \in taken
      BY <1>5, <2>1, <2>2 DEF HandedOver, Waiting
    <2>3. CASE p \in Waiting \ taken
      <3>1. x.state = "waiting" /\ y = [x EXCEPT !.state = "not-published"]
        BY <2>1, <2>3 DEF Waiting
      <3> QED BY <1>1, <1>3, <3>1 DEF Publication
    <2>4. CASE p \notin Waiting
      <3>1. y = x
        BY <2>1, <2>4 DEF HandedOver
      <3> QED BY <1>2, <3>1
    <2> QED BY <2>2, <2>3, <2>4
  <1>9. CASE UNCHANGED pubs
    BY <1>2, <1>9
  <1> QED BY <1>6, <1>7, <1>8, <1>9
          DEF Next, vars, LateDial, Probe, SetupStep, DialSucceeds, DialFails, DialTimesOut,
              ChannelFails, AbortEnds, Close, CloseStep, DrainEnds, TakeResources, CloseEnds,
              Connect

LEMMA StepImplementsContract ==
    ASSUME PublisherInv, PublisherInv', [Next]_vars
    PROVE  [Contract!Next]_Promises
  <1>1. \A p \in Publications : Moves(p)
    BY PublicationMoves, SharedStepMoves
  <1>2. Promises' \in [Publications -> Contract!Promise]
    <2>1. pubs' \in [Publications -> Publication]
      BY DEF PublisherInv, TypeOK
    <2>2. \A p \in Publications : PromiseOf(pubs'[p]) \in Contract!Promise
      BY <2>1, PromiseType
    <2>3. Promises' = [p \in Publications |-> PromiseOf(pubs'[p])]
      BY DEF Promises, PromiseOf
    <2> QED BY <2>2, <2>3
  <1> QED BY <1>1, <1>2 DEF Contract!Next, Moves

LEMMA InitImplementsContract == Init => Contract!Init
  BY DEF Init, Contract!Init, Promises, PromiseOf, Phase, Outcomes

(* The transport keeps the contract: each call of publish() settles once,  *)
(* with what is true of its message.                                       *)
THEOREM PublisherImplementsContract == Spec => ImplementsContract
  <1>1. PublisherInv /\ PublisherInv' /\ [Next]_vars => [Contract!Next]_Promises
    BY StepImplementsContract
  <1> QED BY <1>1, InitImplementsContract, PublisherInvariant, PTL
          DEF Spec, ImplementsContract, Contract!Spec

-----------------------------------------------------------------------------
(* What follows from the contract, for this transport as for any other     *)

ContractInv ==
    \A p \in Publications :
        /\ Promises[p] \in Contract!Promise
        /\ Promises[p].phase \in {"unsent", "not-published"} => Promises[p].fate = "none"
        /\ Promises[p].phase = "confirmed" => Promises[p].fate = "queued"
        /\ Promises[p].phase = "rejected" => Promises[p].fate = "returned"

LEMMA ContractStep ==
    ASSUME ContractInv, [Contract!Next]_Promises
    PROVE  /\ ContractInv'
           /\ \A p \in Publications :
                 Promises[p].phase \in Contract!Outcomes
                    => /\ Promises'[p].phase = Promises[p].phase
                       /\ Promises[p].phase # "ambiguous" => Promises'[p] = Promises[p]
  <1> SUFFICES ASSUME NEW p \in Publications
               PROVE  LET x == Promises[p]
                          y == Promises'[p]
                      IN  /\ y \in Contract!Promise
                          /\ y.phase \in {"unsent", "not-published"} => y.fate = "none"
                          /\ y.phase = "confirmed" => y.fate = "queued"
                          /\ y.phase = "rejected" => y.fate = "returned"
                          /\ x.phase \in Contract!Outcomes
                                => y.phase = x.phase /\ (x.phase # "ambiguous" => y = x)
    BY DEF ContractInv
  <1> DEFINE x == Promises[p]
             y == Promises'[p]
  <1> HIDE DEF x, y
  <1>1. /\ x \in Contract!Promise
        /\ x.phase \in {"unsent", "not-published"} => x.fate = "none"
        /\ x.phase = "confirmed" => x.fate = "queued"
        /\ x.phase = "rejected" => x.fate = "returned"
    BY DEF ContractInv, x
  <1>2. \/ y = x \/ Contract!HandedOver(x, y) \/ Contract!BrokerHandles(x, y)
        \/ Contract!Settles(x, y)
    BY DEF Contract!Next, x, y
  <1> USE DEF Contract!Promise, Contract!Outcomes, Contract!Dispositions
  <1>3. CASE Contract!HandedOver(x, y)
    BY <1>1, <1>3 DEF Contract!HandedOver, x, y
  <1>4. CASE Contract!BrokerHandles(x, y)
    BY <1>1, <1>4 DEF Contract!BrokerHandles, x, y
  <1>5. CASE Contract!Settles(x, y)
    BY <1>1, <1>5 DEF Contract!Settles, Contract!Tells, x, y
  <1>6. CASE y = x
    BY <1>1, <1>6 DEF x, y
  <1> QED BY <1>2, <1>3, <1>4, <1>5, <1>6

LEMMA ContractInvariant == ImplementsContract => []ContractInv
  <1>1. Contract!Init => ContractInv
    <2> SUFFICES ASSUME Contract!Init, NEW p \in Publications
                 PROVE  Promises[p] \in Contract!Promise /\ Promises[p].phase = "unsent"
                           /\ Promises[p].fate = "none"
      BY DEF ContractInv
    <2>1. Promises[p] = [phase |-> "unsent", fate |-> "none"]
      BY DEF Contract!Init
    <2>2. [phase |-> "unsent", fate |-> "none"] \in Contract!Promise
      BY DEF Contract!Promise
    <2> QED BY <2>1, <2>2
  <1>2. ContractInv /\ [Contract!Next]_Promises => ContractInv'
    BY ContractStep
  <1> QED BY <1>1, <1>2, PTL DEF ImplementsContract, Contract!Spec

(* What publish() resolves or rejects with is what became of the message.  *)
THEOREM PublisherOutcomesAreTrue == Spec => []Contract!OutcomesAreTrue
  <1>1. ContractInv => Contract!OutcomesAreTrue
    BY DEF ContractInv, Contract!OutcomesAreTrue
  <1> QED BY <1>1, ContractInvariant, PublisherImplementsContract, PTL

(* No promise settles twice, and a definite outcome is the last word.      *)
THEOREM PublisherSettledOnce == Spec => Contract!SettledOnce
  <1>1. ContractInv /\ [Contract!Next]_Promises
           => [\A p \in Publications :
                 Promises[p].phase \in Contract!Outcomes
                    => /\ Promises'[p].phase = Promises[p].phase
                       /\ Promises[p].phase # "ambiguous"
                             => Promises'[p] = Promises[p]]_Promises
    BY ContractStep
  <1> QED BY <1>1, ContractInvariant, PublisherImplementsContract, PTL
          DEF ImplementsContract, Contract!Spec, Contract!SettledOnce
=============================================================================
