---------------------------- MODULE MCCspmScan ----------------------------
(* Model values for CspmScan: two dispatches that compete for the lock of  *)
(* one provider, and two workers to run them at the same time.             *)
EXTENDS CspmScan

CONSTANTS t1, t2, p1, w1, w2

MCTasks == {t1, t2}
MCProviders == {p1}
MCProviderOf == [t \in MCTasks |-> p1]
MCWorkers == {w1, w2}

=============================================================================
