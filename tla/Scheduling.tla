----------------------------- MODULE Scheduling -----------------------------
(***************************************************************************)
(* scheduling.ts: whether a feed is due at an instant, for which window,   *)
(* and when it is eligible next.  An instant is a number of milliseconds,  *)
(* and a window is known by its start, from which its key is formatted.    *)
(***************************************************************************)
EXTENDS Integers

(* For a date of the feed that is undefined or does not parse.             *)
Undefined == -1

SomeInstant == Nat \cup {Undefined}

Feed == [enabled : BOOLEAN, cadence : Nat \ {0}, priority : Int,
         lastScheduled : SomeInstant, backoffUntil : SomeInstant]

(* scheduleWindowFor.                                                      *)
WindowStart(feed, now) == (now \div feed.cadence) * feed.cadence
WindowEnd(feed, now) == WindowStart(feed, now) + feed.cadence

(* nextEligibleAtFor.                                                      *)
NextEligibleAt(feed, now) ==
    IF feed.lastScheduled = Undefined THEN now ELSE feed.lastScheduled + feed.cadence

BacksOff(feed, now) == feed.backoffUntil # Undefined /\ feed.backoffUntil > now

(* evaluateFeedSchedule: the status, or the reason for a skip.             *)
Evaluate(feed, now) ==
    CASE ~feed.enabled -> "disabled"
      [] feed.enabled /\ BacksOff(feed, now) -> "backoff"
      [] feed.enabled /\ ~BacksOff(feed, now) /\ NextEligibleAt(feed, now) > now -> "not_due"
      [] OTHER -> "due"

Due(feed, now) == Evaluate(feed, now) = "due"
=============================================================================
