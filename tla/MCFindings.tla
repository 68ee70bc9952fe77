----------------------------- MODULE MCFindings -----------------------------
(* Model values for Findings: two accounts, two checks and three findings; *)
(* a catalogued version with a control no check covers, a version without  *)
(* a catalog, and one whose mappings name no control.                      *)
EXTENDS Findings, TLC

CONSTANTS cis, nist, iac, c11, c12, c21, bare, mfa, port, vm, db, acc1, acc2, none

MCFamilyTable == cis :> "cis-aws" @@ nist :> "nist"
MCHeadOf == c11 :> "1" @@ c12 :> "1" @@ c21 :> "2" @@ bare :> "general"
MCCatalog ==
  cis :> (c11 :> <<"iam", none>> @@ c12 :> <<"iam", "keys">> @@ c21 :> <<"net", none>>)
MCWeight == [HIGH |-> 5, LOW |-> 1]
MCKeys == {<<mfa, vm>>, <<port, vm>>, <<port, db>>}
MCRank == <<mfa, vm>> :> 2 @@ <<port, vm>> :> 1 @@ <<port, db>> :> 3
MCMapping ==
  mfa :> {<<cis, c11>>, <<nist, c11>>} @@
  port :> {<<cis, c11>>, <<cis, c21>>, <<nist, c12>>, <<iac, bare>>}
MCSeverityOf == mfa :> "HIGH" @@ port :> "LOW"
MCAccountOf == vm :> acc1 @@ db :> acc2
=============================================================================
