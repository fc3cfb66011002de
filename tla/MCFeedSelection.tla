--------------------------- MODULE MCFeedSelection ---------------------------
(* Five feeds, two of them positive, in pages of two up to a limit of four; *)
(* two cycles per window with an allowance of one.                         *)
EXTENDS FeedSelection

MCFeeds == 1..5
MCPositive == {2, 4}
=============================================================================
