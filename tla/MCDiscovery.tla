---------------------------- MODULE MCDiscovery ----------------------------
(* Model values for Discovery: two clusters of one tenant, the first with  *)
(* resources of two types and one of the worker's own cluster.             *)
EXTENDS Discovery, TLC

CONSTANTS prod, test, a1, own, b1, w1, w2

MCAssets == IF test \in Providers THEN {a1, own, b1} ELSE {a1, own}
MCOwner == [a \in MCAssets |-> IF a = b1 THEN test ELSE prod]
MCTypeOf == [a \in MCAssets |-> IF a = own THEN 2 ELSE 1]
MCWorkers == {w1, w2}
MCSymmetry == Permutations(MCWorkers)
=============================================================================
