-------------------------- MODULE MCCspmInventory --------------------------
(* Model values for CspmInventory: an instance i1, another resource r1 and *)
(* a bucket d1 of one account, and a resource r2 of a second account.      *)
EXTENDS CspmInventory

CONSTANTS a1, a2, i1, r1, d1, r2, n1

(* One account.  The instance is named n1, and the findings of the others  *)
(* carry their uid.                                                        *)
OneAccount == {a1}
OneResources == {i1, r1, d1}
OneAccountOf == [r \in OneResources |-> a1]
OneCollection == [r \in OneResources |-> IF r = d1 THEN "data_assets" ELSE "resources"]
OneNames == OneResources \cup {n1}
OneNameOf == [r \in OneResources |-> IF r = i1 THEN n1 ELSE r]
OneInstances == {i1}
OneScopes == {OneResources, {r1}}

(* The same without the bucket: everything is of one collection.           *)
FewResources == {i1, r1}
FewAccountOf == [r \in FewResources |-> a1]
FewCollection == [r \in FewResources |-> "resources"]
FewNames == FewResources \cup {n1}
FewNameOf == [r \in FewResources |-> IF r = i1 THEN n1 ELSE r]
FewScopes == {FewResources, {r1}}

(* Two accounts of one cloud.                                              *)
TwoAccounts == {a1, a2}
TwoResources == {r1, r2}
TwoAccountOf == [r \in TwoResources |-> IF r = r1 THEN a1 ELSE a2]
TwoCollection == [r \in TwoResources |-> "resources"]
TwoNameOf == [r \in TwoResources |-> r]
TwoScopes == {TwoResources}
=============================================================================
