-------------------------- MODULE MCSchedulerCycle --------------------------
(* Instances of SchedulerCycle: two replicas contend for one feed, or one  *)
(* replica works through a queue of two feeds.                             *)
EXTENDS SchedulerCycle, TLC

CONSTANTS r1, r2, f1, f2

MCTwoReplicas == {r1, r2}
MCOneReplica == {r1}
MCOneFeed == {f1}
MCTwoFeeds == {f1, f2}
Symmetry == Permutations(MCTwoReplicas)
=============================================================================
