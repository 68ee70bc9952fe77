----------------------------- MODULE MCSideScan -----------------------------
(* Model values for SideScan: instances, two worker processes of one       *)
(* scanner host, and names for the snapshots and volumes they hold.        *)
EXTENDS SideScan, TLC

CONSTANTS j1, j2, w1, w2

MCJobs == {j1, j2}
MCWorkers == {w1, w2}
MCIds == 1..2
WorkerSymmetry == Permutations(MCWorkers)
=============================================================================
