--------------------------- MODULE FeedSelection ---------------------------
(***************************************************************************)
(* What a cycle considers, and in which order: the backend's inventory of  *)
(* active feeds, read page by page (BackendApiFeedSource), the order in    *)
(* which runOnce takes the due feeds (selectDueFeeds), and the cycle's     *)
(* allowance of attempts, which ends it.  Cycles follow one another, in    *)
(* the same schedule window or in a later one.                             *)
(*                                                                         *)
(* The inventory is a list that the backend changes between two pages as   *)
(* it likes; a page is the slice of it that the offset names when the      *)
(* backend answers.  The production source gives every feed as enabled,    *)
(* without a backoff and without a last schedule, so that all are due.     *)
(* What becomes of an attempt is SchedulerCycle's; here it may fail or     *)
(* leave the feed to be attempted again in the same window.                *)
(* A feed is a number that stands for its ID.                              *)
(***************************************************************************)
EXTENDS Scheduling, FiniteSets, Sequences, SequencesExt

CONSTANTS
    Feeds,        \* feeds the backend may hold
    Positive,     \* those with is_positive_source
    PageSize,     \* BACKEND_FEED_PAGE_SIZE
    MaxRows,      \* BACKEND_FEED_MAX_ROWS
    Concurrency,  \* config.concurrency
    MaxChanges,   \* bound: changes of the inventory during one listing
    MaxRounds     \* bound: cycles in one window

ASSUME SelectionAssumption ==
    /\ Feeds \subseteq Nat /\ IsFiniteSet(Feeds)
    /\ Positive \subseteq Feeds
    /\ PageSize \in Nat \ {0}
    /\ MaxRows \in Nat \ {0}
    /\ Concurrency \in Nat \ {0}
    /\ MaxChanges \in Nat
    /\ MaxRounds \in Nat \ {0}

VARIABLES
    inventory,    \* the backend's list of active feeds
    status,       \* of the listing
    offset,       \* the offset of the next page
    rows,         \* what has been read
    due,          \* the cycle's decisions, in order
    position,     \* how many of them it has been through
    attempted,    \* attemptedCount
    size,         \* the inventory's length when the listing began
    stayed,       \* the feeds that were in it ever since
    added,        \* how many feeds were added since
    removed,      \* how many feeds were removed since
    rounds,       \* cycles that went through their decisions in this window
    overlooked,   \* feeds that each of them had listed and none considered
    attempts      \* the attempts they made

listing == <<size, stayed, added, removed>>
turns == <<rounds, overlooked, attempts>>
vars == <<inventory, status, offset, rows, due, position, attempted, listing, turns>>

(* An attempt of a cycle: the cycle, its number in the cycle, its feed.     *)
Attempt == [round : 0..MaxRounds, number : Nat, feed : Feeds]

TypeOK ==
    /\ inventory \in Seq(Feeds)
    /\ status \in {"idle", "reading", "listed", "failed", "refused", "done"}
    /\ offset \in 0..MaxRows - 1
    /\ rows \in Seq(Feeds)
    /\ due \in Seq(Feeds)
    /\ Len(rows) < MaxRows + PageSize
    /\ stayed \subseteq ToSet(inventory)
    /\ size \in Nat /\ added \in Nat /\ removed \in Nat
    /\ position \in 0..Len(due) /\ attempted \in 0..Concurrency
    /\ rounds \in 0..MaxRounds
    /\ overlooked \subseteq Feeds
    /\ attempts \subseteq Attempt /\ IsFiniteSet(attempts)

-----------------------------------------------------------------------------
Priority(f) == IF f \in Positive THEN 2 ELSE 1

(* Fault for OrderIsTheFeedsOwn: equal priorities are left as they came.   *)
HigherPriority(f, g) == Priority(f) > Priority(g)

(* compareDueFeeds: by priority, then by feed ID.                          *)
Precedes(f, g) ==
    \/ Priority(f) > Priority(g)
    \/ Priority(f) = Priority(g) /\ f < g

(* mapBackendFeed.                                                         *)
Definition(f) ==
    [enabled |-> TRUE, cadence |-> 1, priority |-> Priority(f),
     lastScheduled |-> Undefined, backoffUntil |-> Undefined]

(* selectDueFeeds at some instant; its limit is the number of feeds.  The  *)
(* sort is stable: rows that compare as equal stay in the order they have. *)
DueRows(feeds) == {i \in DOMAIN feeds : Due(Definition(feeds[i]), 0)}

Before(feeds, i, j) ==
    \/ Precedes(feeds[i], feeds[j])
    \/ ~Precedes(feeds[j], feeds[i]) /\ i < j

Rank(feeds, i) == Cardinality({j \in DueRows(feeds) : Before(feeds, j, i)}) + 1

Selected(feeds) ==
    [k \in 1..Cardinality(DueRows(feeds)) |->
        feeds[CHOOSE i \in DueRows(feeds) : Rank(feeds, i) = k]]

(* loadPage.                                                               *)
Page == SubSeq(inventory, offset + 1,
               IF offset + PageSize < Len(inventory) THEN offset + PageSize ELSE Len(inventory))

IsLastPage == Len(Page) < PageSize

(* Fault for ListingMatchesInventory: the last row of a page comes again.  *)
OverlappingOffset == offset + PageSize - 1

NextOffset == offset + PageSize

(* Fault for TypeOK: the limit is looked at one page too late.             *)
WithinLimitBefore(o) == o <= MaxRows

WithinLimit(o) == o < MaxRows

-----------------------------------------------------------------------------
(* A cycle in a later window: no feed has had its turn.                    *)
LaterWindow ==
    /\ rounds' = 0
    /\ overlooked' = Feeds
    /\ attempts' = {}

SameWindow == rounds < MaxRounds /\ UNCHANGED turns

(* runOnce calls listActiveFeeds(now).                                     *)
StartListing ==
    /\ status \notin {"reading", "listed"}
    /\ SameWindow \/ LaterWindow
    /\ position' = 0 /\ attempted' = 0
    /\ status' = "reading"
    /\ offset' = 0
    /\ rows' = <<>>
    /\ due' = <<>>
    /\ size' = Len(inventory)
    /\ stayed' = ToSet(inventory)
    /\ added' = 0 /\ removed' = 0
    /\ UNCHANGED inventory

(* A page that is not full ends the listing, and runOnce selects from it.  *)
LastPage ==
    /\ status = "reading"
    /\ IsLastPage
    /\ rows' = rows \o Page
    /\ due' = Selected(rows')
    /\ status' = "listed"
    /\ UNCHANGED <<inventory, offset, position, attempted, listing, turns>>

(* Fault for ListingEnds: at the limit the listing begins again.           *)
BeginsAgainAtTheLimit ==
    /\ status = "reading"
    /\ ~IsLastPage
    /\ IF WithinLimit(NextOffset)
       THEN rows' = rows \o Page /\ offset' = NextOffset
       ELSE rows' = <<>> /\ offset' = 0
    /\ UNCHANGED <<inventory, status, due, position, attempted, listing, turns>>

(* Another page follows, up to the limit on rows.                          *)
FullPage ==
    /\ status = "reading"
    /\ ~IsLastPage
    /\ rows' = rows \o Page
    /\ IF WithinLimit(NextOffset)
       THEN offset' = NextOffset /\ UNCHANGED status
       ELSE status' = "refused" /\ UNCHANGED offset
    /\ UNCHANGED <<inventory, due, position, attempted, listing, turns>>

(* A time-out, an error status or a body that breaks the contract.         *)
PageFails ==
    /\ status = "reading"
    /\ status' = "failed"
    /\ UNCHANGED <<inventory, offset, rows, due, position, attempted, listing, turns>>

(* The backend activates or deactivates a feed.  A change between two      *)
(* listings is as good as another inventory to begin with.                 *)
MayChange == status = "reading" /\ added + removed < MaxChanges

FeedAdded ==
    /\ MayChange
    /\ \E f \in Feeds \ ToSet(inventory), i \in 1..Len(inventory) + 1 :
          inventory' = InsertAt(inventory, i, f)
    /\ added' = added + 1
    /\ UNCHANGED <<status, offset, rows, due, position, attempted, size, stayed, removed>>
    /\ UNCHANGED turns

FeedRemoved ==
    /\ MayChange
    /\ \E i \in DOMAIN inventory :
          /\ inventory' = RemoveAt(inventory, i)
          /\ stayed' = stayed \ {inventory[i]}
    /\ removed' = removed + 1
    /\ UNCHANGED <<status, offset, rows, due, position, attempted, size, added>>
    /\ UNCHANGED turns

BackendStep == FeedAdded \/ FeedRemoved

-----------------------------------------------------------------------------
(* runOnce's loop over the due feeds                                       *)

Considering == status = "listed" /\ position < Len(due) /\ attempted < Concurrency

Considered == due[position + 1]

(* Fault for PassedOverOnlyForAttempts: an occupied window is an attempt.  *)
OccupiedIsCounted ==
    /\ Considering
    /\ position' = position + 1
    /\ attempted' = attempted + 1
    /\ overlooked' = overlooked \ {Considered}
    /\ UNCHANGED <<inventory, status, offset, rows, due, listing, rounds, attempts>>

(* Its window is leased or confirmed: no attempt.                          *)
Occupied ==
    /\ Considering
    /\ position' = position + 1
    /\ overlooked' = overlooked \ {Considered}
    /\ UNCHANGED <<inventory, status, offset, rows, due, attempted, listing>>
    /\ UNCHANGED <<rounds, attempts>>

(* acquire gives a lease or fails.                                         *)
Attempted ==
    /\ Considering
    /\ position' = position + 1
    /\ attempted' = attempted + 1
    /\ overlooked' = overlooked \ {Considered}
    /\ attempts' = attempts \cup
          {[round |-> rounds, number |-> attempted, feed |-> Considered]}
    /\ UNCHANGED <<inventory, status, offset, rows, due, listing, rounds>>

(* No decision or no allowance is left.                                    *)
CycleEnds ==
    /\ status = "listed"
    /\ ~Considering
    /\ status' = "done"
    /\ rounds' = rounds + 1
    /\ overlooked' = overlooked \cap ToSet(due)
    /\ UNCHANGED <<inventory, offset, rows, due, position, attempted, listing>>
    /\ UNCHANGED attempts

DecisionStep == Occupied \/ Attempted \/ CycleEnds

ListingStep == LastPage \/ FullPage \/ PageFails

(* Listing treats feeds alike, so that one order to begin with is as good  *)
(* as another.                                                             *)
Init ==
    /\ inventory \in {SetToSeq(fs) : fs \in SUBSET Feeds}
    /\ status = "idle"
    /\ offset = 0
    /\ rows = <<>>
    /\ due = <<>>
    /\ size = 0
    /\ stayed = {}
    /\ added = 0 /\ removed = 0
    /\ position = 0 /\ attempted = 0
    /\ rounds = 0
    /\ overlooked = Feeds
    /\ attempts = {}

Next == StartListing \/ ListingStep \/ BackendStep \/ DecisionStep

Spec == Init /\ [][Next]_vars

(* Every page request is bounded by its AbortSignal.                       *)
FairSpec == Spec /\ WF_vars(ListingStep)

-----------------------------------------------------------------------------
(* README: "due feeds are ordered by priority, then feed ID".  The order   *)
(* in which feeds spend the cycle's allowance is their own: it depends     *)
(* neither on the pages they came in nor on the backend's order, and a     *)
(* feed that was read twice is considered twice in a row.                  *)
OrderIsTheFeedsOwn ==
    status = "listed" /\ position = 0 =>
        \A p \in Bijection(DOMAIN rows, DOMAIN rows) :
            Selected([i \in DOMAIN rows |-> rows[p[i]]]) = due

(* A listing is never partial by itself: a feed that stayed in the         *)
(* inventory is missing only if another was removed meanwhile, and comes   *)
(* twice only if one was added.                                            *)
ListingMatchesInventory ==
    status = "listed" =>
        /\ removed = 0 => stayed \subseteq ToSet(rows)
        /\ added = 0 => IsInjective(rows)
        /\ added + removed = 0 => rows = inventory

(* Nobody is passed over but for others' attempts.  A feed that every cycle *)
(* of a window has listed and none has asked a lease for has stood back    *)
(* behind the full allowance of each of them, and all of it went to feeds  *)
(* that precede it.  Feeds whose windows are leased or confirmed cost      *)
(* nothing, so that cycles of one window reach later feeds; but a feed     *)
(* whose attempts keep failing may take every turn.                        *)
PassedOverOnlyForAttempts ==
    status # "listed" =>
        \A f \in overlooked :
            Cardinality({a \in attempts : Precedes(a.feed, f)}) >= rounds * Concurrency

(* A listing ends, however the inventory grows while it is read.           *)
ListingEnds == status = "reading" ~> status # "reading"

(* production-dependencies.ts refuses an inventory with the words "Backend *)
(* feed inventory exceeded its bounded row limit".                         *)
RefusedOnlyBeyondLimit ==
    status = "refused" /\ added = 0 => size > MaxRows
=============================================================================
