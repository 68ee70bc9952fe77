--------------------------- MODULE MCAttackPaths ---------------------------
(* Model values for AttackPaths: a public machine in a network and behind  *)
(* a security group, the role it runs under, a user who may assume it, and *)
(* a bucket.  The cloud is as planned, or the machine is gone and the role *)
(* has lost its policies.                                                  *)
EXTENDS AttackPaths

CONSTANTS planned, shrunk, vm, group, vpc, app, user, bucket, none, w1, w2

MCFails == vm :> [NoFails EXCEPT !.CRITICAL = 3] @@ [v \in Vertices |-> NoFails]
MCCloud(seen, policies) ==
  [seen |-> seen, public |-> {vm} \cap seen, fails |-> MCFails,
   policies |-> policies, trusts |-> (app :> {user} @@ user :> {}),
   role |-> (vm :> app @@ group :> none @@ vpc :> none),
   groups |-> (vm :> {group} @@ group :> {} @@ vpc :> {}),
   network |-> (vm :> vpc @@ group :> none @@ vpc :> none)]
MCClouds ==
  LET admin == app :> "admin" @@ user :> "some"
      plain == app :> "none" @@ user :> "some"
  IN planned :> MCCloud(Vertices, admin) @@ shrunk :> MCCloud(Vertices \ {vm}, plain)
=============================================================================
