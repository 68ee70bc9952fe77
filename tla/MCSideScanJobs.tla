--------------------------- MODULE MCSideScanJobs ---------------------------
(* Model values for SideScanJobs: webhook events about one container, a    *)
(* Lambda function, a failed job of another kind, and two worker processes.  *)
EXTENDS SideScanJobs, TLC

CONSTANTS pod, again, function, stray, w1, w2

MCSubject == [h \in Hooks |-> "container"]
MCWorkers == {w1, w2}
MCSymmetry == Permutations(MCWorkers)
=============================================================================
