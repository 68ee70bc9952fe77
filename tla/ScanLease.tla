----------------------------- MODULE ScanLease -----------------------------
(***************************************************************************)
(* What a lock with a term promises to those who scan under it: "prevent   *)
(* concurrent runs" (workers/tasks/scheduling.py:9).  It is a lease, so    *)
(* the promise is kept only as long as every run fits its term: once one   *)
(* did not, the lease is forfeited.  Discovery implements it.              *)
(***************************************************************************)
CONSTANTS Providers, Workers

VARIABLES
  scanning,   \* the workers scanning each provider
  forfeited   \* the providers whose lease once ran out under a scan

Init ==
  /\ scanning = [p \in Providers |-> {}]
  /\ forfeited = {}

(* A worker starts to scan a provider nobody is scanning.                  *)
Begin(p, w) ==
  /\ p \notin forfeited
  /\ scanning[p] = {}
  /\ scanning' = [scanning EXCEPT ![p] = {w}]
  /\ UNCHANGED forfeited

(* The scan ends, or its worker dies.                                      *)
End(p, w) ==
  /\ w \in scanning[p]
  /\ scanning' = [scanning EXCEPT ![p] = @ \ {w}]
  /\ UNCHANGED forfeited

(* The leases of the providers P run out while they are being scanned.     *)
Forfeit(P) ==
  /\ \A p \in P : scanning[p] # {}
  /\ forfeited' = forfeited \cup P
  /\ scanning' = [p \in Providers |-> IF p \in P THEN {} ELSE scanning[p]]

Next ==
  \/ \E p \in Providers, w \in Workers : Begin(p, w) \/ End(p, w)
  \/ \E P \in SUBSET Providers : Forfeit(P)

Spec == Init /\ [][Next]_<<scanning, forfeited>>

=============================================================================
