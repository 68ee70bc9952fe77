------------------------- MODULE CspmInventoryProofs -------------------------
(***************************************************************************)
(* Theorems about CspmInventory, for any finite cloud, scopes, number of   *)
(* attempts and faults.  TypeCorrect, the theorem on what findings keep    *)
(* and TimelinesAddUp hold for any number of accounts that share the       *)
(* collections, the others where OneAccount says so.                       *)
(***************************************************************************)
EXTENDS CspmInventory, FiniteSetTheorems, TLAPS

LEMMA NamesAreNames ==
  ASSUME NEW R \in SUBSET Resources
  PROVE  NamesOf(R) \subseteq Names
  BY InventoryAssumption DEF NamesOf

LEMMA CardinalityIsNat ==
  ASSUME NEW S, NEW T \in SUBSET S, IsFiniteSet(S)
  PROVE  Cardinality(T) \in Nat
  BY FS_Subset, FS_CardinalityType

LEMMA UpsertType ==
  ASSUME NEW f \in Finding, NEW job \in 0..MaxScans
  PROVE  Upsert(f, job) \in Finding /\ Upsert(f, job).count > 0
<1>1. CASE f.count = 0
  BY <1>1 DEF Upsert, Finding
<1>2. CASE f.count # 0
  <2>1. f.count \in Nat /\ f.count + 1 \in Nat /\ f.count + 1 > 0
    BY <1>2 DEF Finding
  <2>2. Upsert(f, job) = [f EXCEPT !.last = job, !.count = f.count + 1]
    BY <1>2 DEF Upsert
  <2> QED
    BY <2>1, <2>2 DEF Finding
<1> QED
  BY <1>1, <1>2

LEMMA ReportedType ==
  ASSUME TypeOK, NEW a \in Accounts
  PROVE  /\ scan[a] \in Attempt
         /\ Reported(a) \subseteq Resources
  BY DEF TypeOK, Attempt, Reported

(* The attempt of a moves on, to another record.                           *)
LEMMA AttemptStep ==
  ASSUME TypeOK, NEW a \in Accounts, NEW new \in Attempt, scan' = [scan EXCEPT ![a] = new]
  PROVE  scan' \in [Accounts -> Attempt]
  BY DEF TypeOK

(* What the upsert of one finding does to the attempt.                     *)
LEMMA UpsertFindingEffect ==
  ASSUME TypeOK, NEW a \in Accounts, NEW r \in Resources, UpsertFinding(a, r)
  PROVE  /\ scan' \in [Accounts -> Attempt]
         /\ \A b \in Accounts \ {a} : scan'[b] = scan[b]
         /\ scan[a].pc = "findings" /\ scan'[a].pc = "edge" /\ r \in scan[a].todo
         /\ scan'[a].todo = scan[a].todo \ {r} /\ scan'[a].names = {NameOf[r]}
         /\ scan'[a].job = scan[a].job
         /\ scan'[a].live = scan[a].live /\ scan'[a].dead = scan[a].dead
<1> DEFINE next == [scan[a] EXCEPT !.pc = "edge", !.todo = scan[a].todo \ {r},
                                    !.names = {NameOf[r]}]
<1>0. scan[a].pc = "findings" /\ r \in scan[a].todo
  BY DEF UpsertFinding, At
<1>1. scan' = [scan EXCEPT ![a] = next]
  BY DEF UpsertFinding, TypeOK
<1>2. /\ next \in Attempt
      /\ next.pc = "edge" /\ next.todo = scan[a].todo \ {r} /\ next.names = {NameOf[r]}
      /\ next.job = scan[a].job /\ next.live = scan[a].live /\ next.dead = scan[a].dead
  <2>1. PICK q \in Attempt : q = scan[a]
    BY ReportedType
  <2>2. NameOf[r] \in Names
    BY InventoryAssumption
  <2> DEFINE moved == [q EXCEPT !.pc = "edge", !.todo = q.todo \ {r}, !.names = {NameOf[r]}]
  <2>3. /\ moved \in Attempt
        /\ moved.pc = "edge" /\ moved.todo = q.todo \ {r} /\ moved.names = {NameOf[r]}
        /\ moved.job = q.job /\ moved.live = q.live /\ moved.dead = q.dead
    BY <2>2 DEF Attempt, Steps
  <2>4. next = moved
    BY <2>1
  <2> QED
    BY <2>1, <2>3, <2>4
<1> HIDE DEF next
<1>3. scan' \in [Accounts -> Attempt]
  BY <1>1, <1>2, AttemptStep
<1>4. scan'[a] = next /\ \A b \in Accounts \ {a} : scan'[b] = scan[b]
  BY <1>1 DEF TypeOK
<1> QED
  BY <1>0, <1>2, <1>3, <1>4

LEMMA TypeInit == Init => TypeOK
<1> SUFFICES ASSUME Init PROVE TypeOK
  OBVIOUS
<1>1. NoFinding \in Finding
  BY InventoryAssumption DEF NoFinding, Finding
<1>2. NoAttempt \in Attempt
  BY InventoryAssumption DEF NoAttempt, Attempt, Steps
<1>3. jobs \in Seq(Job) /\ Len(jobs) = 0
  BY DEF Init
<1> QED
  BY <1>1, <1>2, <1>3, InventoryAssumption DEF Init, TypeOK

LEMMA TypeStep ==
  ASSUME TypeOK, [Next]_vars
  PROVE  TypeOK'
<1>1. ASSUME NEW r \in Resources, Create(r) \/ Terminate(r) \/ Vanish(r)
      PROVE  TypeOK'
  BY <1>1 DEF TypeOK, Create, Terminate, Vanish
<1>2. ASSUME NEW a \in Accounts, NEW scope \in Scopes, Start(a, scope)
      PROVE  TypeOK'
  <2> DEFINE seen == {r \in scope : AccountOf[r] = a /\ cloud[r] # "absent"}
             gone == {r \in seen : cloud[r] = "terminated"}
             begun == [pc |-> "findings", job |-> Len(jobs) + 1, live |-> seen \ gone,
                       dead |-> gone, todo |-> seen, names |-> {}]
             job == [account |-> a, status |-> "running",
                     found |-> 0, new |-> 0, updated |-> 0, removed |-> 0]
  <2>1. seen \subseteq Resources /\ gone \subseteq Resources
    BY InventoryAssumption
  <2>2. Len(jobs) \in Nat /\ Len(jobs) + 1 \in 0..MaxScans
    BY <1>2, InventoryAssumption DEF TypeOK, Start
  <2>3. begun \in Attempt
    BY <2>1, <2>2 DEF Attempt, Steps
  <2>4. scan' = [scan EXCEPT ![a] = begun]
    BY <1>2 DEF Start
  <2>5. scan' \in [Accounts -> Attempt]
    BY <2>3, <2>4 DEF TypeOK
  <2>6. job \in Job
    BY DEF Job
  <2>7. jobs' = Append(jobs, job)
    BY <1>2 DEF Start
  <2>8. jobs' \in Seq(Job) /\ Len(jobs') <= MaxScans
    BY <2>2, <2>6, <2>7, InventoryAssumption DEF TypeOK
  <2> QED
    BY <1>2, <2>5, <2>8 DEF Start, TypeOK
<1>3. ASSUME NEW a \in Accounts, NEW r \in Resources, UpsertFinding(a, r)
      PROVE  TypeOK'
  <2>1. NameOf[r] \in Names
    BY InventoryAssumption
  <2>2. scan[a] \in Attempt /\ scan[a].job \in 0..MaxScans
    BY DEF TypeOK, Attempt
  <2>3. findings[NameOf[r]] \in Finding
    BY <2>1 DEF TypeOK
  <2>4. findings' \in [Names -> Finding]
    BY <1>3, <2>2, <2>3, UpsertType DEF UpsertFinding, TypeOK
  <2>5. scan' \in [Accounts -> Attempt]
    BY <1>3, UpsertFindingEffect
  <2> QED
    BY <1>3, <2>4, <2>5 DEF UpsertFinding, TypeOK
<1>4. ASSUME NEW a \in Accounts, NEW r \in Resources, UpsertAsset(a, r)
      PROVE  TypeOK'
  <2>1. scan' \in [Accounts -> Attempt]
    <3> DEFINE next == [scan[a] EXCEPT !.todo = @ \ {r}]
    <3>1. next \in Attempt
      BY ReportedType DEF Attempt, Steps
    <3>2. scan' = [scan EXCEPT ![a] = next]
      BY <1>4 DEF UpsertAsset, TypeOK
    <3> QED
      BY <3>1, <3>2, AttemptStep
  <2> QED
    BY <1>4, <2>1 DEF UpsertAsset, TypeOK
<1>5. ASSUME NEW a \in Accounts, InsertEdge(a)
      PROVE  TypeOK'
  <2>1. scan[a].names \subseteq Names
    BY DEF TypeOK, Attempt
  <2>2. scan' \in [Accounts -> Attempt]
    <3> DEFINE next == [scan[a] EXCEPT !.pc = "findings", !.names = {}]
    <3>1. next \in Attempt
      BY ReportedType DEF Attempt, Steps
    <3>2. scan' = [scan EXCEPT ![a] = next]
      BY <1>5 DEF InsertEdge, TypeOK
    <3> QED
      BY <3>1, <3>2, AttemptStep
  <2>3. faults' \in 0..MaxFaults
    BY <1>5, InventoryAssumption DEF InsertEdge, TypeOK
  <2>4. edges' \subseteq Names
    BY <1>5, <2>1 DEF InsertEdge, TypeOK
  <2> QED
    BY <1>5, <2>2, <2>3, <2>4 DEF InsertEdge, TypeOK
<1>6. ASSUME NEW a \in Accounts, Extract(a)
      PROVE  TypeOK'
  <2>1. scan' \in [Accounts -> Attempt]
    <3> DEFINE next == [scan[a] EXCEPT !.pc = "inventory", !.todo = scan[a].live]
    <3>1. next \in Attempt
      BY ReportedType DEF Attempt, Steps
    <3>2. scan' = [scan EXCEPT ![a] = next]
      BY <1>6 DEF Extract, TypeOK
    <3> QED
      BY <3>1, <3>2, AttemptStep
  <2> QED
    BY <1>6, <2>1 DEF Extract, TypeOK
<1>7. ASSUME NEW a \in Accounts, SoftDelete(a)
      PROVE  TypeOK'
  <2> DEFINE stale == {r \in Resources : inventory[r] = "active"} \ scan[a].live
  <2>1. stale \subseteq Names
    BY InventoryAssumption
  <2> DEFINE next == [scan[a] EXCEPT !.pc = "cascade", !.names = stale]
  <2>2. scan' = [scan EXCEPT ![a] = next]
    BY <1>7 DEF SoftDelete, TypeOK
  <2>3. scan' \in [Accounts -> Attempt]
    <3>1. next \in Attempt
      BY <2>1, ReportedType DEF Attempt, Steps
    <3> QED
      BY <3>1, <2>2, AttemptStep
  <2>4. inventory' \in [Resources -> {"none", "active", "deleted"}]
    BY <1>7 DEF SoftDelete, TypeOK
  <2> QED
    BY <1>7, <2>3, <2>4 DEF SoftDelete, TypeOK
<1>8. ASSUME NEW a \in Accounts, Cascade(a)
      PROVE  TypeOK'
  <2> DEFINE gone == {n \in scan[a].names \cap Cascading : Exists(n)}
  <2>1. gone \subseteq Names
    BY DEF TypeOK, Attempt
  <2> DEFINE next == [scan[a] EXCEPT !.pc = "sweep", !.names = gone]
  <2>2. scan' = [scan EXCEPT ![a] = next]
    BY <1>8 DEF Cascade, TypeOK
  <2>3. scan' \in [Accounts -> Attempt]
    <3>1. next \in Attempt
      BY <2>1, ReportedType DEF Attempt, Steps
    <3> QED
      BY <3>1, <2>2, AttemptStep
  <2>4. NoFinding \in Finding
    BY InventoryAssumption DEF NoFinding, Finding
  <2>5. findings' \in [Names -> Finding]
    BY <1>8, <2>4 DEF Cascade, TypeOK
  <2> QED
    BY <1>8, <2>3, <2>5 DEF Cascade, TypeOK
<1>9. ASSUME NEW a \in Accounts, Sweep(a)
      PROVE  TypeOK'
  <2>1. scan' \in [Accounts -> Attempt]
    <3> DEFINE next == [scan[a] EXCEPT !.pc = "count"]
    <3>1. next \in Attempt
      BY ReportedType DEF Attempt, Steps
    <3>2. scan' = [scan EXCEPT ![a] = next]
      BY <1>9 DEF Sweep, TypeOK
    <3> QED
      BY <3>1, <3>2, AttemptStep
  <2> QED
    BY <1>9, <2>1 DEF Sweep, TypeOK
<1>10. ASSUME NEW a \in Accounts, Complete(a)
       PROVE  TypeOK'
  <2> DEFINE job == scan[a].job
             seen == {n \in Names : Exists(n) /\ findings[n].last = job}
             new == {n \in seen : findings[n].first = job}
  <2>1. /\ Cardinality(Reported(a)) \in Nat
        /\ Cardinality(scan[a].names) \in Nat
        /\ Cardinality(new) \in Nat
        /\ Cardinality(seen \ new) \in Nat
    <3>1. Reported(a) \in SUBSET Resources /\ scan[a].names \in SUBSET Names
      BY ReportedType DEF Attempt
    <3>2. new \in SUBSET Names /\ seen \ new \in SUBSET Names
      OBVIOUS
    <3> QED
      BY <3>1, <3>2, CardinalityIsNat, InventoryAssumption
  <2> DEFINE closed(d) == [d EXCEPT !.status = "completed",
                                    !.found = Cardinality(Reported(a)),
                                    !.new = Cardinality(new),
                                    !.updated = Cardinality(seen \ new),
                                    !.removed = Cardinality(scan[a].names)]
  <2>2. \A d \in Job : closed(d) \in Job
    BY <2>1 DEF Job
  <2> HIDE DEF closed
  <2>3. jobs' = [jobs EXCEPT ![job] = closed(@)]
    BY <1>10 DEF Complete, closed
  <2>4. jobs \in [1..Len(jobs) -> Job] /\ Len(jobs) \in Nat
    BY DEF TypeOK
  <2>5. jobs' \in [1..Len(jobs) -> Job]
    BY <2>2, <2>3, <2>4
  <2>6. jobs' \in Seq(Job) /\ Len(jobs') <= MaxScans
    BY <2>4, <2>5 DEF TypeOK
  <2>7. NoAttempt \in Attempt
    BY InventoryAssumption DEF NoAttempt, Attempt, Steps
  <2>8. scan' \in [Accounts -> Attempt]
    BY <1>10, <2>7 DEF Complete, TypeOK
  <2> QED
    BY <1>10, <2>6, <2>8 DEF Complete, TypeOK
<1>11. ASSUME NEW a \in Accounts, Fail(a)
       PROVE  TypeOK'
  <2>1. HalfDone(a) \subseteq Names
    <3>1. {r \in Reported(a) : inventory[r] # "active"} \in SUBSET Resources
      BY ReportedType
    <3>2. scan[a].names \subseteq Names
      BY DEF TypeOK, Attempt
    <3> QED
      BY <3>1, <3>2, NamesAreNames DEF HalfDone
  <2>2. NoAttempt \in Attempt
    BY InventoryAssumption DEF NoAttempt, Attempt, Steps
  <2>3. scan' \in [Accounts -> Attempt]
    BY <1>11, <2>2 DEF Fail, TypeOK
  <2>4. jobs \in [1..Len(jobs) -> Job] /\ Len(jobs) \in Nat
    BY DEF TypeOK
  <2>5. \A d \in Job : [d EXCEPT !.status = "failed"] \in Job
    BY DEF Job
  <2>6. jobs' \in [1..Len(jobs) -> Job]
    BY <1>11, <2>4, <2>5 DEF Fail
  <2>7. jobs' \in Seq(Job) /\ Len(jobs') <= MaxScans
    BY <2>4, <2>6 DEF TypeOK
  <2>8. faults' \in 0..MaxFaults
    BY <1>11, InventoryAssumption DEF Fail, TypeOK
  <2> QED
    BY <1>11, <2>1, <2>3, <2>7, <2>8 DEF Fail, TypeOK
<1>12. CASE UNCHANGED vars
  BY <1>12 DEF vars, TypeOK
<1> QED
  BY <1>1, <1>2, <1>3, <1>4, <1>5, <1>6, <1>7, <1>8, <1>9, <1>10, <1>11, <1>12 DEF Next

(* The state of every attempt and document is what it should be.           *)
THEOREM TypeCorrect == Spec => []TypeOK
  BY TypeInit, TypeStep, PTL DEF Spec

-----------------------------------------------------------------------------
(* Findings keep their assets.  A finding whose resource is not active is  *)
(* about to get it (Underway), about to be removed (Condemned), or torn.   *)

Underway(r) ==
  \E a \in Accounts :
    scan[a].pc \in {"findings", "edge", "inventory"} /\ r \in Reported(a)

Condemned(r) == \E a \in Accounts : At(a, "cascade") /\ r \in scan[a].names

Settled(r) == inventory[r] = "active" \/ Condemned(r) \/ r \in torn

Kept == \A r \in Addressed : Exists(r) => Settled(r) \/ Underway(r)

(* What is upserted by the inventory step stays active until some scan has *)
(* condemned it: of those that report it, only this one is under way.      *)
UpsertsLast ==
  \A a \in Accounts, r \in Addressed :
    At(a, "inventory") /\ r \in scan[a].live \ scan[a].todo /\ Exists(r) => Settled(r)

OnlyInstancesTerminate ==
  \A r \in Resources : cloud[r] = "terminated" => r \in Instances

ReportsAreOwn ==
  \A a \in Accounts :
    /\ scan[a].dead \subseteq Instances
    /\ \A r \in Reported(a) : AccountOf[r] = a
    /\ scan[a].pc \in {"findings", "edge"} => scan[a].todo \subseteq Reported(a)
    /\ At(a, "inventory") => scan[a].todo \subseteq scan[a].live

KeptInv == TypeOK /\ OnlyInstancesTerminate /\ ReportsAreOwn /\ UpsertsLast /\ Kept

LEMMA AddressedType ==
  ASSUME NEW r \in Addressed
  PROVE  r \in Resources /\ r \in Names /\ r \notin Instances /\ NameOf[r] = r
  BY InventoryAssumption DEF Addressed, Cascading

LEMMA NamesOfAddressed ==
  ASSUME NEW r \in Addressed, NEW R \in SUBSET Resources
  PROVE  r \in NamesOf(R) <=> r \in R
  BY DEF Addressed, NamesOf

LEMMA KeptSuffices == KeptInv => FindingsHaveAssets
<1> SUFFICES ASSUME KeptInv, NEW r \in Addressed, Exists(r)
             PROVE  r \in ActiveNames \/ InProgress(r) \/ r \in torn
  BY DEF FindingsHaveAssets
<1>1. CASE inventory[r] = "active"
  <2>1. {q \in Resources : inventory[q] = "active"} \in SUBSET Resources
    OBVIOUS
  <2>2. r \in {q \in Resources : inventory[q] = "active"}
    BY <1>1, AddressedType
  <2> QED
    BY <2>1, <2>2, NamesOfAddressed DEF ActiveNames
<1>2. CASE Condemned(r)
  BY <1>2 DEF Condemned, InProgress
<1>3. CASE Underway(r)
  <2>1. PICK a \in Accounts :
          scan[a].pc \in {"findings", "edge", "inventory"} /\ r \in Reported(a)
    BY <1>3 DEF Underway
  <2>2. Reported(a) \in SUBSET Resources
    BY ReportedType DEF KeptInv
  <2> QED
    BY <2>1, <2>2, NamesOfAddressed DEF InProgress
<1> QED
  BY <1>1, <1>2, <1>3 DEF KeptInv, Kept, Settled

LEMMA KeptInit == Init => KeptInv
<1> SUFFICES ASSUME Init PROVE KeptInv
  OBVIOUS
<1>1. TypeOK
  BY TypeInit
<1>2. \A r \in Addressed : ~Exists(r)
  BY AddressedType DEF Init, Exists, NoFinding
<1>3. ReportsAreOwn
  BY DEF Init, NoAttempt, ReportsAreOwn, Reported, At
<1>4. OnlyInstancesTerminate
  BY DEF Init, OnlyInstancesTerminate
<1> QED
  BY <1>1, <1>2, <1>3, <1>4 DEF KeptInv, Kept, UpsertsLast

(* A step of an attempt leaves the others alone.                           *)
Others(a) == \A b \in Accounts \ {a} : scan'[b] = scan[b]

LEMMA ReportsStep ==
  ASSUME TypeOK, OnlyInstancesTerminate, ReportsAreOwn, [Next]_vars
  PROVE  OnlyInstancesTerminate' /\ ReportsAreOwn'
<1> USE DEF TypeOK, OnlyInstancesTerminate
<1>1. ASSUME NEW r \in Resources, Create(r) \/ Terminate(r) \/ Vanish(r)
      PROVE  OnlyInstancesTerminate' /\ ReportsAreOwn'
  BY <1>1 DEF Create, Terminate, Vanish, ReportsAreOwn, Reported, At
<1>2. ASSUME NEW a \in Accounts, NEW scope \in Scopes, Start(a, scope)
      PROVE  OnlyInstancesTerminate' /\ ReportsAreOwn'
  <2> DEFINE seen == {r \in scope : AccountOf[r] = a /\ cloud[r] # "absent"}
             gone == {r \in seen : cloud[r] = "terminated"}
  <2>1. seen \subseteq Resources
    BY InventoryAssumption
  <2>2. /\ scan'[a].pc = "findings" /\ scan'[a].live = seen \ gone
        /\ scan'[a].dead = gone /\ scan'[a].todo = seen
    BY <1>2 DEF Start
  <2>3. Others(a)
    BY <1>2 DEF Start, Others
  <2>4. gone \subseteq Instances
    BY <2>1
  <2>5. Reported(a)' = seen
    BY <2>2 DEF Reported
  <2>6. OnlyInstancesTerminate'
    BY <1>2 DEF Start
  <2>7. ReportsAreOwn'
    BY <2>2, <2>3, <2>4, <2>5 DEF ReportsAreOwn, Others, Reported, At
  <2> QED
    BY <2>6, <2>7
<1>3. ASSUME NEW a \in Accounts, NEW r \in Resources, UpsertFinding(a, r) \/ UpsertAsset(a, r)
      PROVE  OnlyInstancesTerminate' /\ ReportsAreOwn'
  <2>1. /\ Others(a) /\ scan'[a].live = scan[a].live /\ scan'[a].dead = scan[a].dead
        /\ scan'[a].todo \subseteq scan[a].todo
        /\ \/ At(a, "findings") /\ scan'[a].pc = "edge"
           \/ At(a, "inventory") /\ scan'[a].pc = "inventory"
    <3>1. CASE UpsertFinding(a, r)
      BY <3>1, UpsertFindingEffect DEF Others, At
    <3>2. CASE UpsertAsset(a, r)
      BY <3>2, ReportedType DEF UpsertAsset, Others, At, Attempt, TypeOK
    <3> QED
      BY <1>3, <3>1, <3>2
  <2>2. ReportsAreOwn'
    BY <2>1 DEF ReportsAreOwn, Others, Reported, At
  <2> QED
    BY <1>3, <2>2 DEF UpsertFinding, UpsertAsset
<1>4. ASSUME NEW a \in Accounts, InsertEdge(a) \/ Extract(a) \/ SoftDelete(a) \/ Cascade(a) \/ Sweep(a)
      PROVE  OnlyInstancesTerminate' /\ ReportsAreOwn'
  <2>1. /\ Others(a) /\ scan'[a].live = scan[a].live /\ scan'[a].dead = scan[a].dead
        /\ \/ At(a, "edge") /\ scan'[a].pc = "findings" /\ scan'[a].todo = scan[a].todo
           \/ scan'[a].pc = "inventory" /\ scan'[a].todo = scan[a].live
           \/ scan'[a].pc \in {"cascade", "sweep", "count"}
    <3>1. CASE InsertEdge(a)
      BY <3>1, ReportedType DEF InsertEdge, Others, At, Attempt, TypeOK
    <3>2. CASE Extract(a)
      BY <3>2, ReportedType DEF Extract, Others, At, Attempt, TypeOK
    <3>3. CASE SoftDelete(a)
      BY <3>3, ReportedType DEF SoftDelete, Others, At, Attempt, TypeOK
    <3>4. CASE Cascade(a)
      BY <3>4, ReportedType DEF Cascade, Others, At, Attempt, TypeOK
    <3>5. CASE Sweep(a)
      BY <3>5, ReportedType DEF Sweep, Others, At, Attempt, TypeOK
    <3> QED
      BY <1>4, <3>1, <3>2, <3>3, <3>4, <3>5
  <2>2. ReportsAreOwn'
    BY <2>1 DEF ReportsAreOwn, Others, Reported, At
  <2> QED
    BY <1>4, <2>2 DEF InsertEdge, Extract, SoftDelete, Cascade, Sweep
<1>5. ASSUME NEW a \in Accounts, Complete(a) \/ Fail(a)
      PROVE  OnlyInstancesTerminate' /\ ReportsAreOwn'
  <2>1. Others(a) /\ scan'[a] = NoAttempt
    BY <1>5 DEF Complete, Fail, Others
  <2>2. ReportsAreOwn'
    BY <2>1 DEF ReportsAreOwn, Others, Reported, At, NoAttempt
  <2> QED
    BY <1>5, <2>2 DEF Complete, Fail
<1>6. CASE UNCHANGED vars
  BY <1>6 DEF vars, ReportsAreOwn, Reported, At
<1> QED
  BY <1>1, <1>2, <1>3, <1>4, <1>5, <1>6 DEF Next

(* What a step must do to a resource for the two invariants to survive.    *)
LEMMA KeptByResource ==
  ASSUME KeptInv,
         \A r \in Addressed : Exists(r)' => Exists(r),
         \A r \in Addressed : Exists(r)' /\ Settled(r) => Settled(r)',
         \A r \in Addressed : Exists(r)' /\ Underway(r) => Settled(r)' \/ Underway(r)'
  PROVE  Kept'
  BY DEF KeptInv, Kept

LEMMA UpsertsLastByResource ==
  ASSUME KeptInv,
         \A r \in Addressed : Exists(r)' => Exists(r),
         \A r \in Addressed : Exists(r)' /\ Settled(r) => Settled(r)',
         \A b \in Accounts : At(b, "inventory")' =>
           scan'[b] = scan[b] \/ scan'[b].todo = scan'[b].live
  PROVE  UpsertsLast'
  BY DEF KeptInv, UpsertsLast, At

(* An upsert makes a finding exist: that of a resource under way, which no *)
(* other scan reports.                                                     *)
LEMMA UpsertFindingKeeps ==
  ASSUME KeptInv, NEW a \in Accounts, NEW q \in Resources, UpsertFinding(a, q)
  PROVE  Kept' /\ UpsertsLast'
<1>1. /\ Others(a) /\ At(a, "findings") /\ scan'[a].pc = "edge"
      /\ scan'[a].live = scan[a].live /\ scan'[a].dead = scan[a].dead
      /\ q \in scan[a].todo
      /\ UNCHANGED <<inventory, torn>>
  BY DEF UpsertFinding, KeptInv, TypeOK, Others, At, Attempt
<1>2. q \in Reported(a) /\ Reported(a)' = Reported(a)
  BY <1>1 DEF KeptInv, ReportsAreOwn, At, Reported
<1>3. \A r \in Addressed : Settled(r)' <=> Settled(r)
  BY <1>1 DEF Settled, Condemned, Others, At
<1>4. \A r \in Addressed : Underway(r) => Underway(r)'
  BY <1>1, <1>2 DEF Underway, Others, At, Reported
<1>5. \A r \in Addressed : NameOf[q] = r => q = r
  BY DEF Addressed
<1>6. \A r \in Addressed : r # q => (Exists(r)' <=> Exists(r))
  BY <1>5, AddressedType DEF UpsertFinding, Exists, KeptInv, TypeOK
<1>7. Kept'
  <2> SUFFICES ASSUME NEW r \in Addressed, Exists(r)' PROVE Settled(r)' \/ Underway(r)'
    BY DEF Kept
  <2>1. CASE r = q
    BY <2>1, <1>1, <1>2 DEF Underway
  <2>2. CASE r # q
    BY <2>2, <1>3, <1>4, <1>6 DEF KeptInv, Kept
  <2> QED
    BY <2>1, <2>2
<1>8. UpsertsLast'
  <2> SUFFICES ASSUME NEW b \in Accounts, NEW r \in Addressed, At(b, "inventory")',
                      r \in scan'[b].live \ scan'[b].todo, Exists(r)'
               PROVE  Settled(r)'
    BY DEF UpsertsLast
  <2>1. b # a /\ scan'[b] = scan[b]
    BY <1>1 DEF At, Others
  <2>2. r # q
    BY <1>2, <2>1 DEF KeptInv, ReportsAreOwn, Reported
  <2> QED
    BY <2>1, <2>2, <1>3, <1>6 DEF KeptInv, UpsertsLast, At
<1> QED
  BY <1>7, <1>8

(* The asset of an addressed finding is upserted: it is torn no more.      *)
LEMMA UpsertAssetKeeps ==
  ASSUME KeptInv, NEW a \in Accounts, NEW q \in Resources, UpsertAsset(a, q)
  PROVE  Kept' /\ UpsertsLast'
<1>1. /\ Others(a) /\ At(a, "inventory") /\ scan'[a].pc = "inventory"
      /\ scan'[a].live = scan[a].live /\ scan'[a].dead = scan[a].dead
      /\ scan'[a].todo = scan[a].todo \ {q}
      /\ inventory' = [inventory EXCEPT ![q] = "active"]
      /\ torn' = torn \ {NameOf[q]}
      /\ UNCHANGED findings
  BY DEF UpsertAsset, KeptInv, TypeOK, Others, At, Attempt
<1>2. inventory'[q] = "active" /\ \A r \in Resources \ {q} : inventory'[r] = inventory[r]
  BY <1>1 DEF KeptInv, TypeOK
<1>3. \A r \in Addressed : NameOf[q] = r => q = r
  BY DEF Addressed
<1>4. \A r \in Addressed : Condemned(r) => Condemned(r)'
  BY <1>1 DEF Condemned, Others, At
<1>5. \A r \in Addressed : Settled(r) \/ r = q => Settled(r)'
  BY <1>1, <1>2, <1>3, <1>4, AddressedType DEF Settled
<1>6. \A r \in Addressed : Underway(r) => Underway(r)'
  BY <1>1 DEF Underway, Others, At, Reported
<1>7. \A r \in Addressed : Exists(r)' <=> Exists(r)
  BY <1>1 DEF Exists
<1>8. Kept'
  BY <1>5, <1>6, <1>7, KeptByResource
<1>9. UpsertsLast'
  <2> SUFFICES ASSUME NEW b \in Accounts, NEW r \in Addressed, At(b, "inventory")',
                      r \in scan'[b].live \ scan'[b].todo, Exists(r)'
               PROVE  Settled(r)'
    BY DEF UpsertsLast
  <2>1. At(b, "inventory") /\ (r = q \/ r \in scan[b].live \ scan[b].todo)
    BY <1>1 DEF At, Others
  <2> QED
    BY <2>1, <1>5, <1>7 DEF KeptInv, UpsertsLast
<1> QED
  BY <1>8, <1>9

(* What is marked deleted is condemned by the same step; what the attempt  *)
(* reported has been upserted.                                             *)
LEMMA SoftDeleteKeeps ==
  ASSUME KeptInv, NEW a \in Accounts, SoftDelete(a)
  PROVE  Kept' /\ UpsertsLast'
<1> DEFINE stale == {r \in Resources : inventory[r] = "active"} \ scan[a].live
<1>1. /\ Others(a) /\ At(a, "inventory") /\ scan[a].todo = {}
      /\ scan'[a].pc = "cascade" /\ scan'[a].names = stale
      /\ inventory' = [r \in Resources |-> IF r \in stale THEN "deleted" ELSE inventory[r]]
      /\ UNCHANGED <<torn, findings>>
  BY DEF SoftDelete, KeptInv, TypeOK, Others, At, Attempt
<1>2. \A r \in Addressed : inventory[r] = "active" => Settled(r)'
  BY <1>1, AddressedType DEF Settled, Condemned, At
<1>3. \A r \in Addressed : Condemned(r) => Condemned(r)'
  BY <1>1 DEF Condemned, Others, At
<1>4. \A r \in Addressed : Settled(r) => Settled(r)'
  BY <1>1, <1>2, <1>3 DEF Settled
<1>5. \A r \in Addressed : Exists(r)' <=> Exists(r)
  BY <1>1 DEF Exists
<1>6. ASSUME NEW r \in Addressed, Exists(r)', Underway(r)
      PROVE  Settled(r)' \/ Underway(r)'
  <2>1. PICK b \in Accounts :
          scan[b].pc \in {"findings", "edge", "inventory"} /\ r \in Reported(b)
    BY <1>6 DEF Underway
  <2>2. CASE b = a
    <3>1. r \in scan[a].live \ scan[a].todo
      BY <1>1, <2>1, <2>2, AddressedType DEF KeptInv, ReportsAreOwn, Reported
    <3>2. Settled(r)
      BY <1>1, <1>5, <1>6, <3>1 DEF KeptInv, UpsertsLast
    <3> QED
      BY <1>4, <3>2
  <2>3. CASE b # a
    BY <1>1, <2>1, <2>3 DEF Underway, Others, Reported
  <2> QED
    BY <2>2, <2>3
<1>7. \A b \in Accounts : At(b, "inventory")' => scan'[b] = scan[b]
  BY <1>1 DEF At, Others
<1>8. Kept'
  BY <1>4, <1>5, <1>6, KeptByResource
<1>9. UpsertsLast'
  BY <1>4, <1>5, <1>7, UpsertsLastByResource
<1> QED
  BY <1>8, <1>9

(* The condemned findings are removed, all of them.                        *)
LEMMA CascadeKeeps ==
  ASSUME KeptInv, NEW a \in Accounts, Cascade(a)
  PROVE  Kept' /\ UpsertsLast'
<1>1. /\ Others(a) /\ At(a, "cascade") /\ scan'[a].pc = "sweep"
      /\ UNCHANGED <<torn, inventory>>
  BY DEF Cascade, KeptInv, TypeOK, Others, At, Attempt
<1>2. \A r \in Addressed : Exists(r)' => Exists(r) /\ r \notin scan[a].names
  BY AddressedType DEF Cascade, Addressed, Exists, NoFinding
<1>3. \A r \in Addressed : Exists(r)' /\ Settled(r) => Settled(r)'
  BY <1>1, <1>2 DEF Settled, Condemned, Others, At
<1>4. \A r \in Addressed : Underway(r) => Underway(r)'
  BY <1>1 DEF Underway, Others, At, Reported
<1>5. \A b \in Accounts : At(b, "inventory")' => scan'[b] = scan[b]
  BY <1>1 DEF At, Others
<1>6. Kept'
  BY <1>2, <1>3, <1>4, KeptByResource
<1>7. UpsertsLast'
  BY <1>2, <1>3, <1>5, UpsertsLastByResource
<1> QED
  BY <1>6, <1>7

(* What an interrupted attempt had under way or condemned is torn.         *)
LEMMA FailKeeps ==
  ASSUME KeptInv, NEW a \in Accounts, Fail(a)
  PROVE  Kept' /\ UpsertsLast'
<1>1. /\ Others(a) /\ scan'[a] = NoAttempt
      /\ torn' = torn \cup HalfDone(a)
      /\ UNCHANGED <<findings, inventory>>
  BY DEF Fail, KeptInv, TypeOK, Others
<1>2. \A r \in Addressed : Exists(r)' <=> Exists(r)
  BY <1>1 DEF Exists
<1>3. ASSUME NEW r \in Addressed, Condemned(r)
      PROVE  Condemned(r)' \/ r \in torn'
  <2>1. At(a, "cascade") => HalfDone(a) = scan[a].names
    BY DEF At, HalfDone
  <2> QED
    BY <1>1, <1>3, <2>1 DEF Condemned, Others, At
<1>4. \A r \in Addressed : Settled(r) => Settled(r)'
  BY <1>1, <1>3 DEF Settled
<1>5. ASSUME NEW r \in Addressed, Underway(r)
      PROVE  Settled(r)' \/ Underway(r)'
  <2>1. PICK b \in Accounts :
          scan[b].pc \in {"findings", "edge", "inventory"} /\ r \in Reported(b)
    BY <1>5 DEF Underway
  <2>2. CASE b = a
    <3> DEFINE bare == {q \in Reported(a) : inventory[q] # "active"}
    <3>1. HalfDone(a) = NamesOf(bare)
      BY <2>1, <2>2 DEF HalfDone
    <3>2. bare \in SUBSET Resources
      BY ReportedType DEF KeptInv
    <3>3. inventory[r] # "active" => r \in bare
      BY <2>1, <2>2
    <3>4. inventory[r] # "active" => r \in torn'
      BY <1>1, <3>1, <3>2, <3>3, NamesOfAddressed
    <3> QED
      BY <1>1, <3>4 DEF Settled
  <2>3. CASE b # a
    BY <1>1, <2>1, <2>3 DEF Underway, Others, Reported
  <2> QED
    BY <2>2, <2>3
<1>6. \A b \in Accounts : At(b, "inventory")' => scan'[b] = scan[b]
  BY <1>1 DEF At, Others, NoAttempt
<1>7. Kept'
  BY <1>2, <1>4, <1>5, KeptByResource
<1>8. UpsertsLast'
  BY <1>2, <1>4, <1>6, UpsertsLastByResource
<1> QED
  BY <1>7, <1>8

LEMMA KeptStep == KeptInv /\ [Next]_vars => KeptInv'
<1> SUFFICES ASSUME KeptInv, [Next]_vars PROVE Kept' /\ UpsertsLast'
  BY TypeStep, ReportsStep DEF KeptInv
<1>1. ASSUME UNCHANGED <<findings, inventory, scan, torn>>
      PROVE  Kept' /\ UpsertsLast'
  BY <1>1 DEF KeptInv, Kept, UpsertsLast, Settled, Condemned, Underway, Exists, At, Reported
<1>2. ASSUME NEW r \in Resources, Create(r) \/ Terminate(r) \/ Vanish(r)
      PROVE  Kept' /\ UpsertsLast'
  BY <1>1, <1>2 DEF Create, Terminate, Vanish
<1>3. ASSUME NEW a \in Accounts, Others(a), UNCHANGED <<findings, inventory, torn>>,
             scan'[a].pc # "inventory" \/ scan'[a].todo = scan'[a].live,
             ~At(a, "cascade"),
             scan[a].pc \in {"findings", "edge", "inventory"} =>
               scan'[a].pc \in {"findings", "edge", "inventory"} /\ Reported(a)' = Reported(a)
      PROVE  Kept' /\ UpsertsLast'
  <2>1. \A r \in Addressed : Exists(r)' <=> Exists(r)
    BY <1>3 DEF Exists
  <2>2. \A r \in Addressed : Settled(r) => Settled(r)'
    BY <1>3 DEF Settled, Condemned, Others, At
  <2>3. \A r \in Addressed : Underway(r) => Underway(r)'
    BY <1>3 DEF Underway, Others, Reported
  <2>4. \A b \in Accounts : At(b, "inventory")' =>
          scan'[b] = scan[b] \/ scan'[b].todo = scan'[b].live
    BY <1>3 DEF At, Others
  <2>5. Kept'
    BY <2>1, <2>2, <2>3, KeptByResource
  <2>6. UpsertsLast'
    BY <2>1, <2>2, <2>4, UpsertsLastByResource
  <2> QED
    BY <2>5, <2>6
<1>4. ASSUME NEW a \in Accounts, NEW scope \in Scopes, Start(a, scope)
      PROVE  Kept' /\ UpsertsLast'
  <2>1. Others(a) /\ UNCHANGED <<findings, inventory, torn>> /\ At(a, "idle")
        /\ scan'[a].pc = "findings"
    BY <1>4 DEF Start, KeptInv, TypeOK, Others
  <2> QED
    BY <1>3, <2>1 DEF At
<1>5. ASSUME NEW a \in Accounts, InsertEdge(a) \/ Extract(a) \/ Sweep(a) \/ Complete(a)
      PROVE  Kept' /\ UpsertsLast'
  <2>1. Others(a) /\ UNCHANGED <<findings, inventory, torn>>
    BY <1>5 DEF InsertEdge, Extract, Sweep, Complete, KeptInv, TypeOK, Others
  <2>2. \/ At(a, "edge") /\ scan'[a].pc = "findings" /\ Reported(a)' = Reported(a)
        \/ /\ At(a, "findings") /\ scan'[a].pc = "inventory" /\ Reported(a)' = Reported(a)
           /\ scan'[a].todo = scan'[a].live
        \/ At(a, "sweep") /\ scan'[a].pc = "count"
        \/ At(a, "count") /\ scan'[a].pc = "idle"
    <3>1. CASE InsertEdge(a)
      BY <3>1 DEF InsertEdge, KeptInv, TypeOK, At, Attempt, Reported
    <3>2. CASE Extract(a)
      BY <3>2 DEF Extract, KeptInv, TypeOK, At, Attempt, Reported
    <3>3. CASE Sweep(a) \/ Complete(a)
      BY <3>3 DEF Sweep, Complete, KeptInv, TypeOK, At, Attempt, NoAttempt
    <3> QED
      BY <1>5, <3>1, <3>2, <3>3
  <2> QED
    BY <1>3, <2>1, <2>2 DEF At
<1>6. CASE UNCHANGED vars
  BY <1>1, <1>6 DEF vars
<1> QED
  BY <1>2, <1>4, <1>5, <1>6, UpsertFindingKeeps, UpsertAssetKeeps, SoftDeleteKeeps,
     CascadeKeeps, FailKeeps DEF Next

(* A finding outlives its asset only in an interrupted attempt, whatever   *)
(* the scans of other accounts do to the same collections meanwhile.       *)
THEOREM FindingsKeepAssets == Spec => []FindingsHaveAssets
<1>1. Spec => []KeptInv
  BY KeptInit, KeptStep, PTL DEF Spec
<1> QED
  BY <1>1, KeptSuffices, PTL

-----------------------------------------------------------------------------
(* With one account, nothing comes between the steps of an attempt.        *)

OneAccount == \A a, b \in Accounts : a = b

(* What the attempt has upserted so far is there.                          *)
FindingsUpserted ==
  \A a \in Accounts :
    /\ scan[a].pc \in {"findings", "edge"} =>
         \A r \in Reported(a) \ scan[a].todo : Exists(NameOf[r])
    /\ At(a, "edge") => \A n \in scan[a].names : Exists(n)
    /\ At(a, "inventory") => \A r \in Reported(a) : Exists(NameOf[r])

AssetsUpserted ==
  \A a \in Accounts :
    /\ At(a, "inventory") =>
         \A r \in scan[a].live \ scan[a].todo : inventory[r] = "active"
    /\ scan[a].pc \in {"cascade", "sweep", "count"} =>
         {r \in Resources : inventory[r] = "active"} = scan[a].live

AloneInv ==
  TypeOK /\ OnlyInstancesTerminate /\ ReportsAreOwn
    /\ FindingsUpserted /\ AssetsUpserted /\ NoDanglingEdges

LEMMA AloneInit == Init => AloneInv
<1> SUFFICES ASSUME Init PROVE AloneInv
  OBVIOUS
<1>1. TypeOK /\ OnlyInstancesTerminate /\ ReportsAreOwn
  BY KeptInit DEF KeptInv
<1>2. FindingsUpserted /\ AssetsUpserted
  BY DEF Init, NoAttempt, FindingsUpserted, AssetsUpserted, At
<1>3. NoDanglingEdges
  BY DEF Init, NoDanglingEdges
<1> QED
  BY <1>1, <1>2, <1>3 DEF AloneInv

(* An attempt that goes idle, or starts anew.                              *)
LEMMA AloneRestarts ==
  ASSUME OneAccount, NEW a \in Accounts,
         \/ scan'[a].pc = "idle"
         \/ scan'[a].pc = "findings" /\ Reported(a)' \subseteq scan'[a].todo
  PROVE  FindingsUpserted' /\ AssetsUpserted'
<1>1. \A b \in Accounts : b = a
  BY DEF OneAccount
<1> QED
  BY <1>1 DEF FindingsUpserted, AssetsUpserted, At

LEMMA AloneStep ==
  ASSUME OneAccount, AloneInv, [Next]_vars
  PROVE  FindingsUpserted' /\ AssetsUpserted' /\ NoDanglingEdges'
<1> DEFINE Goal == FindingsUpserted /\ AssetsUpserted /\ NoDanglingEdges
<1> USE DEF AloneInv
<1>1. ASSUME UNCHANGED <<findings, edges, inventory, scan, torn>>
      PROVE  Goal'
  BY <1>1 DEF FindingsUpserted, AssetsUpserted, NoDanglingEdges, Exists, At, Reported
<1>2. ASSUME NEW r \in Resources, Create(r) \/ Terminate(r) \/ Vanish(r)
      PROVE  Goal'
  BY <1>1, <1>2 DEF Create, Terminate, Vanish
<1>3. ASSUME NEW a \in Accounts, NEW scope \in Scopes, Start(a, scope)
      PROVE  Goal'
  <2>1. /\ At(a, "idle") /\ scan'[a].pc = "findings" /\ Reported(a)' = scan'[a].todo
        /\ UNCHANGED <<findings, edges, torn>>
    BY <1>3 DEF Start, TypeOK, At, Reported
  <2>2. NoDanglingEdges'
    BY <2>1 DEF NoDanglingEdges, OneAccount, At, Exists
  <2> QED
    BY <2>1, <2>2, AloneRestarts
<1>4. ASSUME NEW a \in Accounts, NEW r \in Resources, UpsertFinding(a, r)
      PROVE  Goal'
  <2>1. /\ At(a, "findings") /\ scan'[a].pc = "edge" /\ Reported(a)' = Reported(a)
        /\ scan'[a].todo = scan[a].todo \ {r} /\ scan'[a].names = {NameOf[r]}
        /\ UNCHANGED <<edges, torn>>
    BY <1>4, UpsertFindingEffect DEF UpsertFinding, At, Reported
  <2>2. NameOf[r] \in Names /\ scan[a].job \in 0..MaxScans
    BY InventoryAssumption DEF TypeOK, Attempt
  <2>3. Exists(NameOf[r])'
    BY <1>4, <2>2, UpsertType DEF UpsertFinding, Exists, TypeOK
  <2>4. \A n \in Names : Exists(n) => Exists(n)'
    BY <1>4, <2>2, <2>3 DEF UpsertFinding, Exists, TypeOK
  <2>5. Reported(a) \subseteq Resources /\ \A q \in Resources : NameOf[q] \in Names
    BY ReportedType, InventoryAssumption
  <2>6. \A q \in Reported(a) \ (scan[a].todo \ {r}) : Exists(NameOf[q])'
    BY <2>1, <2>3, <2>4, <2>5 DEF FindingsUpserted, At
  <2>7. FindingsUpserted' /\ AssetsUpserted'
    BY <2>1, <2>3, <2>6 DEF FindingsUpserted, AssetsUpserted, OneAccount, At
  <2>8. NoDanglingEdges'
    BY <2>1, <2>4 DEF NoDanglingEdges, OneAccount, At, TypeOK
  <2> QED
    BY <2>7, <2>8
<1>5. ASSUME NEW a \in Accounts, NEW r \in Resources, UpsertAsset(a, r)
      PROVE  Goal'
  <2>1. /\ At(a, "inventory") /\ scan'[a].pc = "inventory" /\ Reported(a)' = Reported(a)
        /\ scan'[a].live = scan[a].live
        /\ scan'[a].todo = scan[a].todo \ {r} /\ r \in scan[a].todo
        /\ inventory' = [inventory EXCEPT ![r] = "active"]
        /\ torn' = torn \ {NameOf[r]}
        /\ UNCHANGED <<findings, edges>>
    BY <1>5 DEF UpsertAsset, TypeOK, At, Reported, Attempt
  <2>2. r \in Reported(a)
    BY <2>1 DEF ReportsAreOwn, Reported
  <2>3. Exists(NameOf[r])
    BY <2>1, <2>2 DEF FindingsUpserted
  <2>4. FindingsUpserted'
    BY <2>1 DEF FindingsUpserted, OneAccount, At, Exists
  <2>5. inventory'[r] = "active" /\ \A q \in Resources \ {r} : inventory'[q] = inventory[q]
    BY <2>1 DEF TypeOK
  <2>6. \A q \in scan[a].live \ (scan[a].todo \ {r}) : inventory'[q] = "active"
    BY <2>1, <2>5 DEF AssetsUpserted, TypeOK, Attempt
  <2>7. AssetsUpserted'
    BY <2>1, <2>6 DEF AssetsUpserted, OneAccount, At
  <2>8. NoDanglingEdges'
    BY <2>1, <2>3 DEF NoDanglingEdges, OneAccount, At, Exists
  <2> QED
    BY <2>4, <2>7, <2>8
<1>6. ASSUME NEW a \in Accounts, InsertEdge(a) \/ Extract(a)
      PROVE  Goal'
  <2>1. /\ Reported(a)' = Reported(a)
        /\ UNCHANGED <<findings, torn>>
        /\ \/ /\ At(a, "edge") /\ scan'[a].pc = "findings" /\ scan'[a].todo = scan[a].todo
              /\ edges' \subseteq edges \cup scan[a].names
           \/ /\ At(a, "findings") /\ scan[a].todo = {} /\ scan'[a].pc = "inventory"
              /\ scan'[a].todo = scan'[a].live /\ edges' = edges
    <3>1. CASE InsertEdge(a)
      BY <3>1 DEF InsertEdge, TypeOK, At, Reported, Attempt
    <3>2. CASE Extract(a)
      BY <3>2 DEF Extract, TypeOK, At, Reported, Attempt
    <3> QED
      BY <1>6, <3>1, <3>2
  <2>2. FindingsUpserted'
    BY <2>1 DEF FindingsUpserted, OneAccount, At, Exists
  <2>3. AssetsUpserted'
    BY <2>1 DEF AssetsUpserted, OneAccount, At
  <2>4. NoDanglingEdges'
    BY <2>1 DEF NoDanglingEdges, FindingsUpserted, OneAccount, At, Exists
  <2> QED
    BY <2>2, <2>3, <2>4
<1>7. ASSUME NEW a \in Accounts, SoftDelete(a)
      PROVE  Goal'
  <2> DEFINE stale == {r \in Resources : inventory[r] = "active"} \ scan[a].live
  <2>1. /\ At(a, "inventory") /\ scan[a].todo = {} /\ scan'[a].pc = "cascade"
        /\ scan'[a].live = scan[a].live
        /\ inventory' = [r \in Resources |-> IF r \in stale THEN "deleted" ELSE inventory[r]]
        /\ UNCHANGED <<findings, edges, torn>>
    BY <1>7 DEF SoftDelete, TypeOK, At, Attempt
  <2>2. \A r \in scan[a].live : r \in Resources /\ inventory[r] = "active"
    BY <2>1 DEF AssetsUpserted, TypeOK, Attempt
  <2>3. {r \in Resources : inventory'[r] = "active"} = scan[a].live
    BY <2>1, <2>2
  <2>4. FindingsUpserted' /\ AssetsUpserted'
    BY <2>1, <2>3 DEF FindingsUpserted, AssetsUpserted, OneAccount, At
  <2>5. NoDanglingEdges'
    BY <2>1 DEF NoDanglingEdges, OneAccount, At, Exists
  <2> QED
    BY <2>4, <2>5
<1>8. ASSUME NEW a \in Accounts, Cascade(a)
      PROVE  Goal'
  <2> DEFINE gone == {n \in scan[a].names \cap Cascading : Exists(n)}
  <2>1. /\ At(a, "cascade") /\ scan'[a].pc = "sweep" /\ scan'[a].names = gone
        /\ scan'[a].live = scan[a].live
        /\ findings' = [n \in Names |-> IF n \in gone THEN NoFinding ELSE findings[n]]
        /\ UNCHANGED <<inventory, edges, torn>>
    BY <1>8 DEF Cascade, TypeOK, At, Attempt
  <2>2. \A n \in Names : Exists(n) => Exists(n)' \/ n \in gone
    BY <2>1 DEF Exists
  <2>3. FindingsUpserted' /\ AssetsUpserted'
    BY <2>1 DEF FindingsUpserted, AssetsUpserted, OneAccount, At
  <2>4. NoDanglingEdges'
    BY <2>1, <2>2 DEF NoDanglingEdges, OneAccount, At, TypeOK
  <2> QED
    BY <2>3, <2>4
<1>9. ASSUME NEW a \in Accounts, Sweep(a)
      PROVE  Goal'
  <2>1. /\ At(a, "sweep") /\ scan'[a].pc = "count" /\ scan'[a].live = scan[a].live
        /\ edges' = edges \ scan[a].names
        /\ UNCHANGED <<findings, inventory, torn>>
    BY <1>9 DEF Sweep, TypeOK, At, Attempt
  <2>2. FindingsUpserted' /\ AssetsUpserted'
    BY <2>1 DEF FindingsUpserted, AssetsUpserted, OneAccount, At
  <2>3. NoDanglingEdges'
    BY <2>1 DEF NoDanglingEdges, OneAccount, At, Exists
  <2> QED
    BY <2>2, <2>3
<1>10. ASSUME NEW a \in Accounts, Complete(a) \/ Fail(a)
       PROVE  Goal'
  <2>1. /\ scan'[a].pc = "idle" /\ UNCHANGED <<findings, edges>>
        /\ torn \subseteq torn' /\ (At(a, "sweep") => scan[a].names \subseteq torn')
    <3>1. CASE Complete(a)
      BY <3>1 DEF Complete, TypeOK, At, NoAttempt
    <3>2. CASE Fail(a)
      <4>1. At(a, "sweep") => HalfDone(a) = scan[a].names
        BY DEF At, HalfDone
      <4> QED
        BY <3>2, <4>1 DEF Fail, TypeOK, NoAttempt
    <3> QED
      BY <1>10, <3>1, <3>2
  <2>2. NoDanglingEdges'
    BY <2>1 DEF NoDanglingEdges, OneAccount, At, Exists
  <2> QED
    BY <2>1, <2>2, AloneRestarts
<1>11. CASE UNCHANGED vars
  BY <1>1, <1>11 DEF vars
<1> QED
  BY <1>2, <1>3, <1>4, <1>5, <1>6, <1>7, <1>8, <1>9, <1>10, <1>11 DEF Next

LEMMA AloneInvariant == ASSUME OneAccount PROVE Spec => []AloneInv
<1>1. AloneInv /\ [Next]_vars => AloneInv'
  BY OneAccount, TypeStep, ReportsStep, AloneStep DEF AloneInv
<1> QED
  BY <1>1, AloneInit, PTL DEF Spec

(* An edge outlives its finding only in an interrupted attempt.  A second  *)
(* account's cascade could remove a finding between its upsert and that of *)
(* its edge.                                                               *)
THEOREM EdgesKeepFindings == ASSUME OneAccount PROVE Spec => []NoDanglingEdges
<1>1. AloneInv => NoDanglingEdges
  BY DEF AloneInv
<1> QED
  BY <1>1, AloneInvariant, PTL

(* A scan that completes leaves active what it saw alive, and nothing else.*)
THEOREM CompletedScansMirror == ASSUME OneAccount PROVE Spec => CompletedScanMirrorsCloud
<1>1. ASSUME AloneInv, NEW a \in Accounts, Complete(a)
      PROVE  {r \in Resources : inventory[r] = "active"} = scan[a].live
  BY <1>1 DEF AloneInv, AssetsUpserted, Complete, At
<1>2. AloneInv => [\A a \in Accounts :
         Complete(a) => {r \in Resources : inventory[r] = "active"} = scan[a].live]_vars
  BY <1>1
<1> QED
  BY <1>2, AloneInvariant, PTL DEF CompletedScanMirrorsCloud

-----------------------------------------------------------------------------
(* Timelines.  What first_seen, last_seen and the count of a finding say   *)
(* of the reports of it: the reports an attempt has still to upsert are    *)
(* not counted yet, so each upsert finds one that is not.  A name must     *)
(* belong to one account: the attempts of two accounts are not ordered.    *)

NamesOwned ==
  \A q, r \in Resources : NameOf[q] = NameOf[r] => AccountOf[q] = AccountOf[r]

(* A report that an attempt under way has still to upsert.                 *)
Pending(x) ==
  \E a \in Accounts :
    scan[a].pc \in {"findings", "edge"} /\ x[1] = scan[a].job /\ x[2] \in scan[a].todo

Reports(n) ==
  {x \in (findings[n].first .. findings[n].last) \X Resources :
     NameOf[x[2]] = n /\ AccountOf[x[2]] = jobs[x[1]].account}

Counted(n) == {x \in Reports(n) : ~Pending(x)}

Timeline(n) ==
  Exists(n) =>
    /\ 1 <= findings[n].first /\ findings[n].first <= findings[n].last
    /\ findings[n].last <= Len(jobs)
    /\ findings[n].count <= Cardinality(Counted(n))

JobsAreOwn ==
  \A a \in Accounts : ~At(a, "idle") =>
    scan[a].job \in DOMAIN jobs /\ jobs[scan[a].job].account = a

NotSeenLater ==
  \A a \in Accounts, r \in Resources :
    ~At(a, "idle") /\ AccountOf[r] = a /\ Exists(NameOf[r]) =>
      findings[NameOf[r]].last <= scan[a].job

TimelineInv ==
  /\ TypeOK /\ OnlyInstancesTerminate /\ ReportsAreOwn
  /\ JobsAreOwn /\ NotSeenLater
  /\ \A n \in Names : Timeline(n)

(* No step loses a job document or moves it to another account.            *)
JobsKept ==
  /\ Len(jobs) \in Nat /\ Len(jobs') \in Nat /\ Len(jobs) <= Len(jobs')
  /\ \A j \in DOMAIN jobs : j \in DOMAIN jobs' /\ jobs'[j].account = jobs[j].account

LEMMA JobsStep ==
  ASSUME TypeOK, [Next]_vars
  PROVE  JobsKept
<1>1. jobs \in Seq(Job) /\ Len(jobs) \in Nat /\ DOMAIN jobs = 1..Len(jobs)
  BY DEF TypeOK
<1>2. CASE UNCHANGED jobs
  BY <1>1, <1>2 DEF JobsKept
<1>3. ASSUME NEW a \in Accounts, NEW scope \in Scopes, Start(a, scope)
      PROVE  JobsKept
  <2>1. PICK d : jobs' = Append(jobs, d)
    BY <1>3 DEF Start
  <2> QED
    BY <1>1, <2>1 DEF JobsKept
<1>4. ASSUME NEW j, NEW d, jobs' = [jobs EXCEPT ![j] = d],
             j \in DOMAIN jobs => d.account = jobs[j].account
      PROVE  JobsKept
  BY <1>1, <1>4 DEF JobsKept
<1>5. ASSUME NEW a \in Accounts, Complete(a)
      PROVE  JobsKept
  <2>1. PICK found, new, updated, removed :
          jobs' = [jobs EXCEPT ![scan[a].job] =
                    [@ EXCEPT !.status = "completed", !.found = found, !.new = new,
                              !.updated = updated, !.removed = removed]]
    BY <1>5 DEF Complete
  <2>2. PICK d : d = [jobs[scan[a].job] EXCEPT !.status = "completed", !.found = found,
                        !.new = new, !.updated = updated, !.removed = removed]
    OBVIOUS
  <2>3. jobs' = [jobs EXCEPT ![scan[a].job] = d]
    BY <2>1, <2>2
  <2>4. scan[a].job \in DOMAIN jobs => d.account = jobs[scan[a].job].account
    BY <1>1, <2>2 DEF Job
  <2> QED
    BY <1>4, <2>3, <2>4
<1>6. ASSUME NEW a \in Accounts, Fail(a)
      PROVE  JobsKept
  <2>1. CASE UNCHANGED jobs
    BY <1>2, <2>1
  <2>2. CASE jobs' = [jobs EXCEPT ![scan[a].job].status = "failed"]
    <3>1. PICK d : d = [jobs[scan[a].job] EXCEPT !.status = "failed"]
      OBVIOUS
    <3>2. jobs' = [jobs EXCEPT ![scan[a].job] = d]
      BY <2>2, <3>1
    <3>3. scan[a].job \in DOMAIN jobs => d.account = jobs[scan[a].job].account
      BY <1>1, <3>1 DEF Job
    <3> QED
      BY <1>4, <3>2, <3>3
  <2> QED
    BY <1>6, <2>1, <2>2 DEF Fail
<1> QED
  BY <1>2, <1>3, <1>5, <1>6 DEF Next, vars, Create, Terminate, Vanish, UpsertFinding,
     UpsertAsset, InsertEdge, Extract, SoftDelete, Cascade, Sweep

LEMMA ReportsAreFinite ==
  ASSUME TypeOK, NEW n \in Names
  PROVE  IsFiniteSet(Reports(n))
<1>1. findings[n].first \in Int /\ findings[n].last \in Int
  BY InventoryAssumption DEF TypeOK, Finding
<1>2. IsFiniteSet(findings[n].first .. findings[n].last)
  BY <1>1, FS_Interval
<1>3. IsFiniteSet((findings[n].first .. findings[n].last) \X Resources)
  BY <1>2, FS_Product, InventoryAssumption
<1>4. Reports(n) \in SUBSET ((findings[n].first .. findings[n].last) \X Resources)
  BY DEF Reports
<1> QED
  BY <1>3, <1>4, FS_Subset

(* A step that leaves a finding alone keeps its timeline, unless it makes  *)
(* a report pending that was counted.                                      *)
LEMMA TimelineUntouched ==
  ASSUME TypeOK, TypeOK', JobsKept, NEW n \in Names, Timeline(n),
         findings'[n] = findings[n],
         \A x \in Reports(n) : Pending(x)' => Pending(x)
  PROVE  Timeline(n)'
<1> SUFFICES ASSUME Exists(n)' PROVE
      /\ 1 <= findings'[n].first /\ findings'[n].first <= findings'[n].last
      /\ findings'[n].last <= Len(jobs')
      /\ findings'[n].count <= Cardinality(Counted(n)')
  BY DEF Timeline
<1>1. Exists(n)
  BY DEF Exists
<1>2. findings[n] \in Finding
  BY DEF TypeOK
<1>3. PICK first \in Nat, last \in Nat, count \in Nat :
        first = findings[n].first /\ last = findings[n].last /\ count = findings[n].count
  BY <1>2, InventoryAssumption DEF Finding
<1>4. /\ 1 <= first /\ first <= last /\ last <= Len(jobs)
      /\ count <= Cardinality(Counted(n))
  BY <1>1, <1>3 DEF Timeline
<1>5. \A j \in first .. last : j \in DOMAIN jobs
  <2>1. DOMAIN jobs = 1..Len(jobs)
    BY DEF TypeOK
  <2> QED
    BY <1>4, <2>1 DEF JobsKept
<1>6. Reports(n)' = Reports(n)
  BY <1>3, <1>5 DEF Reports, JobsKept
<1>7. Counted(n) \subseteq Counted(n)'
  BY <1>6 DEF Counted
<1>8. IsFiniteSet(Counted(n)') /\ Cardinality(Counted(n)) <= Cardinality(Counted(n)')
  <2>1. IsFiniteSet(Reports(n))
    BY ReportsAreFinite
  <2>2. Counted(n)' \in SUBSET Reports(n)
    BY <1>6 DEF Counted
  <2>3. IsFiniteSet(Counted(n)')
    BY <2>1, <2>2, FS_Subset
  <2> QED
    BY <1>7, <2>3, FS_Subset
<1>9. Cardinality(Counted(n)) \in Nat /\ Cardinality(Counted(n)') \in Nat
  BY <1>7, <1>8, FS_Subset, FS_CardinalityType
<1>10. count <= Cardinality(Counted(n)')
  BY <1>4, <1>8, <1>9
<1>11. last <= Len(jobs')
  BY <1>4 DEF JobsKept
<1> QED
  BY <1>3, <1>4, <1>10, <1>11

(* Other than by Start, an attempt keeps its job and its todo only shrinks *)
(* while it upserts findings.                                              *)
MovesOn ==
  \A b \in Accounts :
    /\ scan'[b].pc # "idle" => scan[b].pc # "idle" /\ scan'[b].job = scan[b].job
    /\ scan'[b].pc \in {"findings", "edge"} =>
         scan[b].pc \in {"findings", "edge"} /\ scan'[b].todo \subseteq scan[b].todo

LEMMA AttemptsMoveOn ==
  ASSUME TypeOK, [Next]_vars
  PROVE  MovesOn \/ \E a \in Accounts, scope \in Scopes : Start(a, scope)
<1>1. CASE UNCHANGED scan
  BY <1>1 DEF MovesOn
<1>2. ASSUME NEW a \in Accounts, NEW r \in Resources, UpsertFinding(a, r) \/ UpsertAsset(a, r)
      PROVE  MovesOn
  <2>1. CASE UpsertFinding(a, r)
    BY <2>1, UpsertFindingEffect DEF MovesOn
  <2>2. CASE UpsertAsset(a, r)
    BY <2>2 DEF MovesOn, TypeOK, Attempt, At, UpsertAsset
  <2> QED
    BY <1>2, <2>1, <2>2
<1>3. ASSUME NEW a \in Accounts, InsertEdge(a) \/ Extract(a) \/ Cascade(a) \/ Sweep(a)
      PROVE  MovesOn
  <2>1. CASE InsertEdge(a)
    BY <2>1 DEF MovesOn, TypeOK, Attempt, At, InsertEdge
  <2>2. CASE Extract(a)
    BY <2>2 DEF MovesOn, TypeOK, Attempt, At, Extract
  <2>3. CASE Cascade(a)
    BY <2>3 DEF MovesOn, TypeOK, Attempt, At, Cascade
  <2>4. CASE Sweep(a)
    BY <2>4 DEF MovesOn, TypeOK, Attempt, At, Sweep
  <2> QED
    BY <1>3, <2>1, <2>2, <2>3, <2>4
<1>4. ASSUME NEW a \in Accounts, SoftDelete(a)
      PROVE  MovesOn
  BY <1>4 DEF MovesOn, TypeOK, Attempt, At, SoftDelete
<1>5. ASSUME NEW a \in Accounts, Complete(a) \/ Fail(a)
      PROVE  MovesOn
  <2>1. scan' = [scan EXCEPT ![a] = NoAttempt]
    BY <1>5 DEF Complete, Fail
  <2> QED
    BY <2>1 DEF MovesOn, TypeOK, Attempt, NoAttempt
<1> QED
  BY <1>1, <1>2, <1>3, <1>4, <1>5 DEF Next, vars, Create, Terminate, Vanish

(* Other than by UpsertFinding, a step leaves each finding alone or        *)
(* removes it.                                                             *)
FindingsKept == \A n \in Names : findings'[n] = findings[n] \/ ~Exists(n)'

LEMMA FindingsStep ==
  ASSUME TypeOK, [Next]_vars
  PROVE  FindingsKept \/ \E a \in Accounts, r \in Resources : UpsertFinding(a, r)
<1>1. CASE UNCHANGED findings
  BY <1>1 DEF FindingsKept
<1>2. ASSUME NEW a \in Accounts, Cascade(a)
      PROVE  FindingsKept
  BY <1>2 DEF Cascade, FindingsKept, Exists, NoFinding
<1> QED
  BY <1>1, <1>2 DEF Next, vars, Create, Terminate, Vanish, Start, UpsertAsset,
     InsertEdge, Extract, SoftDelete, Sweep, Complete, Fail

LEMMA PendingShrinks ==
  ASSUME MovesOn
  PROVE  \A x : Pending(x)' => Pending(x)
  BY DEF MovesOn, Pending

LEMMA TimelineInit == Init => TimelineInv
<1>1. Init => /\ OnlyInstancesTerminate /\ ReportsAreOwn /\ JobsAreOwn
              /\ NotSeenLater /\ \A n \in Names : Timeline(n)
  BY InventoryAssumption DEF Init, OnlyInstancesTerminate, ReportsAreOwn, JobsAreOwn,
     NotSeenLater, Timeline, At, Exists, Reported, NoAttempt, NoFinding
<1> QED
  BY <1>1, TypeInit DEF TimelineInv

LEMMA UpsertExtendsTimeline ==
  ASSUME TimelineInv, TypeOK', JobsKept, MovesOn,
         NEW a \in Accounts, NEW r \in Resources, UpsertFinding(a, r)
  PROVE  Timeline(NameOf[r])'
<1> DEFINE n == NameOf[r]
<1>0. PICK job : job = scan[a].job
  OBVIOUS
<1> DEFINE x == <<job, r>>
<1>1. n \in Names /\ TypeOK /\ ~At(a, "idle") /\ ~At(a, "inventory")
  BY InventoryAssumption DEF TimelineInv, UpsertFinding, At
<1>2. /\ job \in DOMAIN jobs /\ jobs[job].account = a
      /\ AccountOf[r] = a
  BY <1>0, <1>1 DEF TimelineInv, JobsAreOwn, ReportsAreOwn, UpsertFinding, At
<1>3. /\ Len(jobs) \in Nat /\ DOMAIN jobs = 1..Len(jobs)
      /\ job \in Nat /\ 1 <= job /\ job <= Len(jobs)
  BY <1>1, <1>2 DEF TypeOK
<1>4. findings[n] \in Finding /\ findings'[n] = Upsert(findings[n], job)
  BY <1>0, <1>1 DEF TypeOK, UpsertFinding
<1>5. PICK first \in Nat, last \in Nat, count \in Nat :
        first = findings[n].first /\ last = findings[n].last /\ count = findings[n].count
  BY <1>4, InventoryAssumption DEF Finding
<1>6. PICK begin \in Nat : begin = findings'[n].first
  BY <1>1, InventoryAssumption DEF TypeOK, Finding
<1>7. /\ findings'[n].last = job
      /\ count = 0 => findings'[n].count = 1 /\ begin = job
      /\ count > 0 => findings'[n].count = count + 1 /\ begin = first
  BY <1>4, <1>5, <1>6 DEF Upsert, Finding
<1>8. count > 0 => /\ 1 <= first /\ first <= last /\ last <= job
                   /\ count <= Cardinality(Counted(n))
  BY <1>0, <1>1, <1>2, <1>5 DEF TimelineInv, NotSeenLater, Timeline, Exists
<1>9. 1 <= begin /\ begin <= job
  BY <1>3, <1>5, <1>7, <1>8
<1>10. x \in Counted(n)'
  <2>1. ~Pending(x)'
    <3> SUFFICES ASSUME NEW b \in Accounts, scan'[b].pc \in {"findings", "edge"},
                        job = scan'[b].job, r \in scan'[b].todo
                 PROVE  FALSE
      BY DEF Pending
    <3>1. scan[b].job = job /\ ~At(b, "idle")
      BY <1>1 DEF MovesOn, At
    <3>2. a = b
      BY <1>2, <3>1 DEF TimelineInv, JobsAreOwn
    <3>3. r \notin scan'[a].todo
      BY <1>1 DEF UpsertFinding, TypeOK, Attempt
    <3> QED
      BY <3>2, <3>3
  <2>2. jobs'[job].account = a
    BY <1>2 DEF JobsKept
  <2>3. x \in (findings'[n].first .. findings'[n].last) \X Resources
    BY <1>3, <1>6, <1>7, <1>9
  <2>4. x \in Reports(n)'
    BY <1>2, <2>2, <2>3 DEF Reports
  <2> QED
    BY <2>1, <2>4 DEF Counted
<1>11. IsFiniteSet(Counted(n)')
  <2>1. IsFiniteSet((begin .. job) \X Resources)
    <3>1. begin \in Int /\ job \in Int
      BY <1>3
    <3>2. IsFiniteSet(begin .. job)
      BY <3>1, FS_Interval
    <3> QED
      BY <3>2, FS_Product, InventoryAssumption
  <2>2. Counted(n)' \in SUBSET ((begin .. job) \X Resources)
    BY <1>6, <1>7 DEF Counted, Reports
  <2> QED
    BY <2>1, <2>2, FS_Subset
<1>12. PICK c \in Nat : c = Cardinality(Counted(n)')
  BY <1>11, FS_CardinalityType
<1>13. findings'[n].count <= c
  <2>1. CASE count = 0
    <3>1. {x} \in SUBSET Counted(n)'
      BY <1>10
    <3>2. Cardinality({x}) = 1
      BY FS_Singleton
    <3> QED
      BY <1>7, <1>11, <1>12, <2>1, <3>1, <3>2, FS_Subset
  <2>2. CASE count > 0
    <3>1. Counted(n) \subseteq Counted(n)'
      <4>1. \A j \in first .. last : j \in DOMAIN jobs /\ j \in begin .. job
        BY <1>3, <1>7, <1>8, <2>2
      <4>2. Reports(n) \subseteq Reports(n)'
        BY <1>5, <1>6, <1>7, <4>1 DEF Reports, JobsKept
      <4> QED
        BY <4>2, PendingShrinks DEF Counted
    <3>2. x \notin Counted(n)
      <4>1. Pending(x)
        BY <1>0 DEF Pending, UpsertFinding, At
      <4> QED
        BY <4>1 DEF Counted
    <3>3. IsFiniteSet(Counted(n))
      BY <1>11, <3>1, FS_Subset
    <3>4. Cardinality(Counted(n) \cup {x}) = Cardinality(Counted(n)) + 1
      BY <3>2, <3>3, FS_AddElement
    <3>5. Cardinality(Counted(n) \cup {x}) <= c
      <4>1. Counted(n) \cup {x} \in SUBSET Counted(n)'
        BY <1>10, <3>1
      <4> QED
        BY <1>11, <1>12, <4>1, FS_Subset
    <3>6. Cardinality(Counted(n)) \in Nat
      BY <3>3, FS_CardinalityType
    <3> QED
      BY <1>7, <1>8, <2>2, <3>4, <3>5, <3>6
  <2> QED
    BY <2>1, <2>2
<1>14. job <= Len(jobs')
  BY <1>3 DEF JobsKept
<1> QED
  BY <1>6, <1>7, <1>9, <1>12, <1>13, <1>14 DEF Timeline

LEMMA TimelineStep ==
  ASSUME NamesOwned, TimelineInv, [Next]_vars
  PROVE  TimelineInv'
<1>1. TypeOK /\ TypeOK' /\ JobsKept
  BY TypeStep, JobsStep DEF TimelineInv
<1>2. OnlyInstancesTerminate' /\ ReportsAreOwn'
  BY ReportsStep DEF TimelineInv
<1>3. ASSUME NEW a \in Accounts, NEW scope \in Scopes, Start(a, scope)
      PROVE  JobsAreOwn' /\ NotSeenLater' /\ \A n \in Names : Timeline(n)'
  <2>1. /\ scan'[a].job = Len(jobs) + 1 /\ jobs'[Len(jobs) + 1].account = a
        /\ Len(jobs) + 1 \in DOMAIN jobs'
        /\ \A b \in Accounts \ {a} : scan'[b] = scan[b]
        /\ findings' = findings
    BY <1>1, <1>3 DEF Start, TypeOK
  <2>2. JobsAreOwn'
    BY <2>1, <1>1 DEF TimelineInv, JobsAreOwn, JobsKept, At
  <2>3. \A n \in Names : Exists(n) =>
          findings[n].last \in Nat /\ findings[n].last <= Len(jobs) /\ Len(jobs) \in Nat
    BY <1>1, InventoryAssumption DEF TimelineInv, Timeline, TypeOK, Finding
  <2>4. NotSeenLater'
    <3> SUFFICES ASSUME NEW b \in Accounts, NEW r \in Resources, ~At(b, "idle")',
                        AccountOf[r] = b, Exists(NameOf[r])'
                 PROVE  findings'[NameOf[r]].last <= scan'[b].job
      BY DEF NotSeenLater
    <3>1. Exists(NameOf[r]) /\ NameOf[r] \in Names
      BY <2>1, InventoryAssumption DEF Exists
    <3>2. CASE b = a
      BY <2>1, <2>3, <3>1, <3>2
    <3>3. CASE b # a
      BY <2>1, <3>1, <3>3 DEF TimelineInv, NotSeenLater, At
    <3> QED
      BY <3>2, <3>3
  <2>5. ASSUME NEW n \in Names
        PROVE  Timeline(n)'
    <3>1. CASE Exists(n)
      <4>1. \A x \in Reports(n) : Pending(x)' => Pending(x)
        <5> SUFFICES ASSUME NEW x \in Reports(n), NEW b \in Accounts,
                            scan'[b].pc \in {"findings", "edge"}, x[1] = scan'[b].job,
                            x[2] \in scan'[b].todo
                     PROVE  Pending(x)
          BY DEF Pending
        <5>1. x[1] \in Nat /\ x[1] <= findings[n].last
          <6>1. findings[n].first \in Nat /\ findings[n].last \in Nat
            BY <1>1, InventoryAssumption DEF TypeOK, Finding
          <6> QED
            BY <6>1 DEF Reports
        <5>2. b # a
          BY <2>1, <2>3, <3>1, <5>1
        <5> QED
          BY <2>1, <5>2 DEF Pending
      <4> QED
        BY <1>1, <2>1, <4>1, TimelineUntouched DEF TimelineInv
    <3>2. CASE ~Exists(n)
      BY <2>1, <3>2 DEF Timeline, Exists
    <3> QED
      BY <3>1, <3>2
  <2> QED
    BY <2>2, <2>4, <2>5
<1>4. ASSUME MovesOn
      PROVE  JobsAreOwn' /\ NotSeenLater' /\ \A n \in Names : Timeline(n)'
  <2>1. JobsAreOwn'
    BY <1>1, <1>4 DEF TimelineInv, JobsAreOwn, JobsKept, MovesOn, At
  <2>2. \A x : Pending(x)' => Pending(x)
    BY <1>4, PendingShrinks
  <2>3. ASSUME NEW n \in Names, findings'[n] = findings[n]
        PROVE  Timeline(n)'
    BY <1>1, <2>2, <2>3, TimelineUntouched DEF TimelineInv
  <2>4. CASE FindingsKept
    <3>1. NotSeenLater'
      <4> SUFFICES ASSUME NEW b \in Accounts, NEW r \in Resources, ~At(b, "idle")',
                          AccountOf[r] = b, Exists(NameOf[r])'
                   PROVE  findings'[NameOf[r]].last <= scan'[b].job
        BY DEF NotSeenLater
      <4>1. NameOf[r] \in Names /\ findings'[NameOf[r]] = findings[NameOf[r]]
        BY <2>4, InventoryAssumption DEF FindingsKept
      <4>2. Exists(NameOf[r]) /\ ~At(b, "idle") /\ scan'[b].job = scan[b].job
        BY <1>4, <4>1 DEF MovesOn, At, Exists
      <4> QED
        BY <4>1, <4>2 DEF TimelineInv, NotSeenLater
    <3>2. \A n \in Names : Timeline(n)'
      BY <2>3, <2>4 DEF FindingsKept, Timeline
    <3> QED
      BY <2>1, <3>1, <3>2
  <2>5. ASSUME NEW a \in Accounts, NEW r \in Resources, UpsertFinding(a, r)
        PROVE  NotSeenLater' /\ \A n \in Names : Timeline(n)'
    <3>1. NameOf[r] \in Names /\ ~At(a, "idle") /\ AccountOf[r] = a
      BY <2>5, InventoryAssumption DEF TimelineInv, ReportsAreOwn, UpsertFinding, At
    <3>2. \A n \in Names \ {NameOf[r]} : findings'[n] = findings[n]
      BY <1>1, <2>5 DEF UpsertFinding, TypeOK
    <3>3. findings'[NameOf[r]].last = scan[a].job
      <4>1. findings[NameOf[r]] \in Finding
              /\ findings'[NameOf[r]] = Upsert(findings[NameOf[r]], scan[a].job)
        BY <1>1, <2>5, <3>1 DEF UpsertFinding, TypeOK
      <4> QED
        BY <4>1 DEF Upsert, Finding
    <3>4. NotSeenLater'
      <4> SUFFICES ASSUME NEW b \in Accounts, NEW q \in Resources, ~At(b, "idle")',
                          AccountOf[q] = b, Exists(NameOf[q])'
                   PROVE  findings'[NameOf[q]].last <= scan'[b].job
        BY DEF NotSeenLater
      <4>1. ~At(b, "idle") /\ scan'[b].job = scan[b].job /\ NameOf[q] \in Names
        BY <1>4, InventoryAssumption DEF MovesOn, At
      <4>2. CASE NameOf[q] = NameOf[r]
        <5>1. a = b
          BY <3>1, <4>2, NamesOwned DEF NamesOwned
        <5>2. scan[a].job \in Nat
          BY <1>1, InventoryAssumption DEF TypeOK, Attempt
        <5> QED
          BY <3>3, <4>1, <4>2, <5>1, <5>2
      <4>3. CASE NameOf[q] # NameOf[r]
        <5>1. findings'[NameOf[q]] = findings[NameOf[q]] /\ Exists(NameOf[q])
          BY <3>2, <4>1, <4>3 DEF Exists
        <5> QED
          BY <4>1, <5>1 DEF TimelineInv, NotSeenLater
      <4> QED
        BY <4>2, <4>3
    <3>5. Timeline(NameOf[r])'
      BY <1>1, <1>4, <2>5, UpsertExtendsTimeline
    <3> QED
      BY <2>3, <3>2, <3>4, <3>5
  <2> QED
    BY <1>1, <2>1, <2>4, <2>5, FindingsStep
<1>5. JobsAreOwn' /\ NotSeenLater' /\ \A n \in Names : Timeline(n)'
  BY <1>1, <1>3, <1>4, AttemptsMoveOn
<1> QED
  BY <1>1, <1>2, <1>5 DEF TimelineInv

LEMMA TimelineInvariant == ASSUME NamesOwned PROVE Spec => []TimelineInv
<1>1. TimelineInv /\ [Next]_vars => TimelineInv'
  BY NamesOwned, TimelineStep
<1> QED
  BY <1>1, TimelineInit, PTL DEF Spec

LEMMA TimelineSuffices ==
  ASSUME TimelineInv
  PROVE  TimelinesAgree
<1> SUFFICES ASSUME NEW n \in Names, Exists(n)
             PROVE  /\ 1 <= findings[n].first /\ findings[n].first <= findings[n].last
                    /\ findings[n].last <= Len(jobs)
                    /\ findings[n].count <= Cardinality(Reports(n))
  BY DEF TimelinesAgree, Reports
<1>1. /\ 1 <= findings[n].first /\ findings[n].first <= findings[n].last
      /\ findings[n].last <= Len(jobs)
      /\ findings[n].count <= Cardinality(Counted(n))
  BY DEF TimelineInv, Timeline
<1>2. IsFiniteSet(Reports(n))
  BY ReportsAreFinite DEF TimelineInv
<1>3. Counted(n) \in SUBSET Reports(n)
  BY DEF Counted
<1>4. /\ Cardinality(Counted(n)) <= Cardinality(Reports(n))
      /\ Cardinality(Counted(n)) \in Nat /\ Cardinality(Reports(n)) \in Nat
  BY <1>2, <1>3, FS_Subset, FS_CardinalityType
<1>5. findings[n].count \in Nat
  BY DEF TimelineInv, TypeOK, Finding
<1> QED
  BY <1>1, <1>4, <1>5

(* A finding is counted at most once for each report of it by the attempts *)
(* from the first to the last that saw it: for any number of accounts that *)
(* share the collections, as long as no two of them share a name.          *)
THEOREM TimelinesAddUp == ASSUME NamesOwned PROVE Spec => []TimelinesAgree
  BY TimelineInvariant, TimelineSuffices, PTL

-----------------------------------------------------------------------------
(* Results.  What a completed job reports is read off the timelines: the   *)
(* findings this attempt saw are those of what was reported to it, but for *)
(* the ones it has removed again.  Where two resources share a name they   *)
(* share a finding, and fewer are seen than were reported.                 *)

NamesDiffer == \A q, r \in Resources : NameOf[q] = NameOf[r] => q = r

SeenNow(a, n) == Exists(n) /\ findings[n].last = scan[a].job

SeenAreReported ==
  \A a \in Accounts, n \in Names :
    ~At(a, "idle") /\ SeenNow(a, n) => n \in NamesOf(Reported(a))

ReportedAreSeen ==
  \A a \in Accounts :
    /\ scan[a].pc \in {"findings", "edge"} =>
         \A r \in Reported(a) \ scan[a].todo : SeenNow(a, NameOf[r])
    /\ scan[a].pc \in {"inventory", "cascade"} =>
         \A r \in Reported(a) : SeenNow(a, NameOf[r])
    /\ scan[a].pc \in {"sweep", "count"} =>
         \A r \in Reported(a) : SeenNow(a, NameOf[r]) \/ NameOf[r] \in scan[a].names

ResultsInv == TimelineInv /\ SeenAreReported /\ ReportedAreSeen /\ ResultsAgree

LEMMA NamesAreAsMany ==
  ASSUME NamesDiffer, NEW R \in SUBSET Resources
  PROVE  IsFiniteSet(NamesOf(R)) /\ Cardinality(NamesOf(R)) = Cardinality(R)
<1>1. IsFiniteSet(R)
  BY InventoryAssumption, FS_Subset
<1> DEFINE f == [r \in R |-> NameOf[r]]
<1>2. f \in Surjection(R, NamesOf(R)) /\ f \in Injection(R, NamesOf(R))
  BY DEF Surjection, Injection, IsInjective, NamesOf, NamesDiffer
<1> QED
  BY <1>1, <1>2, FS_Surjection

(* The counts of a completed attempt.                                      *)
LEMMA CountsAgree ==
  ASSUME NamesDiffer, NEW R \in SUBSET Resources, NEW seen \in SUBSET NamesOf(R),
         NEW new \in SUBSET seen, NEW removed \in SUBSET Names,
         NamesOf(R) \subseteq seen \cup removed
  PROVE  /\ Cardinality(new) + Cardinality(seen \ new) <= Cardinality(R)
         /\ Cardinality(R) <= Cardinality(new) + Cardinality(seen \ new) + Cardinality(removed)
<1>1. IsFiniteSet(NamesOf(R)) /\ Cardinality(NamesOf(R)) = Cardinality(R)
  BY NamesAreAsMany
<1>2. /\ IsFiniteSet(removed)
      /\ IsFiniteSet(seen) /\ Cardinality(seen) <= Cardinality(R)
      /\ IsFiniteSet(new)
  BY <1>1, FS_Subset, InventoryAssumption
<1>3. IsFiniteSet(seen \ new)
  BY <1>2, FS_Subset
<1>4. Cardinality(seen \ new) = Cardinality(seen) - Cardinality(new)
  <2>1. seen \cap new = new
    OBVIOUS
  <2>2. Cardinality(seen \ new) = Cardinality(seen) - Cardinality(seen \cap new)
    BY <1>2, FS_Difference, Zenon
  <2> QED
    BY <2>1, <2>2
<1>5. /\ IsFiniteSet(seen \cup removed) /\ IsFiniteSet(seen \cap removed)
      /\ Cardinality(seen \cup removed)
           = Cardinality(seen) + Cardinality(removed) - Cardinality(seen \cap removed)
  BY <1>2, FS_Union, FS_Subset
<1>6. Cardinality(R) <= Cardinality(seen \cup removed)
  BY <1>1, <1>5, FS_Subset
<1>7. /\ Cardinality(new) \in Nat /\ Cardinality(seen) \in Nat
      /\ Cardinality(removed) \in Nat /\ Cardinality(seen \cap removed) \in Nat
      /\ Cardinality(seen \cup removed) \in Nat /\ Cardinality(R) \in Nat
  BY <1>1, <1>2, <1>5, FS_CardinalityType
<1> QED
  BY <1>2, <1>4, <1>5, <1>6, <1>7

LEMMA ResultsInit == Init => ResultsInv
<1>1. Init => SeenAreReported /\ ReportedAreSeen /\ ResultsAgree
  <2>1. Init => \A a \in Accounts : scan[a].pc = "idle"
    BY DEF Init, NoAttempt
  <2>2. Init => DOMAIN jobs = {}
    BY DEF Init
  <2> QED
    BY <2>1, <2>2 DEF SeenAreReported, ReportedAreSeen, ResultsAgree, At
<1> QED
  BY <1>1, TimelineInit DEF ResultsInv

(* What an attempt has seen changes by its own upserts and by removal.     *)
LEMMA SeenStep ==
  ASSUME ResultsInv, [Next]_vars
  PROVE  SeenAreReported'
<1>1. /\ TypeOK /\ TypeOK' /\ TimelineInv
      /\ Len(jobs) \in Nat /\ DOMAIN jobs = 1..Len(jobs)
  BY TypeStep DEF ResultsInv, TimelineInv, TypeOK
<1>2. ASSUME NEW a \in Accounts, NEW scope \in Scopes, Start(a, scope)
      PROVE  SeenAreReported'
  <2>1. /\ scan'[a].job = Len(jobs) + 1 /\ findings' = findings
        /\ \A b \in Accounts \ {a} : scan'[b] = scan[b]
    BY <1>1, <1>2 DEF Start, TypeOK
  <2>2. \A n \in Names : Exists(n) =>
          findings[n].last \in Nat /\ findings[n].last <= Len(jobs)
    BY <1>1, InventoryAssumption DEF TimelineInv, Timeline, TypeOK, Finding
  <2>3. \A n \in Names : ~SeenNow(a, n)'
    BY <1>1, <2>1, <2>2 DEF SeenNow, Exists
  <2> QED
    BY <2>1, <2>3 DEF ResultsInv, SeenAreReported, SeenNow, Exists, At, Reported
<1>3. ASSUME MovesOn, \A a \in Accounts : ~At(a, "idle")' => Reported(a)' = Reported(a)
      PROVE  SeenAreReported'
  <2> SUFFICES ASSUME NEW a \in Accounts, NEW n \in Names, ~At(a, "idle")', SeenNow(a, n)'
               PROVE  n \in NamesOf(Reported(a))
    BY <1>3 DEF SeenAreReported
  <2>1. ~At(a, "idle") /\ scan'[a].job = scan[a].job
    BY <1>3 DEF MovesOn, At
  <2>2. CASE findings'[n] = findings[n]
    BY <2>1, <2>2 DEF ResultsInv, SeenAreReported, SeenNow, Exists
  <2>3. ASSUME NEW b \in Accounts, NEW r \in Resources, UpsertFinding(b, r),
               findings'[n] # findings[n]
        PROVE  n \in NamesOf(Reported(a))
    <3>1. n = NameOf[r] /\ ~At(b, "idle") /\ r \in Reported(b)
      BY <1>1, <2>3 DEF UpsertFinding, TypeOK, At, TimelineInv, ReportsAreOwn
    <3>2. findings'[n].last = scan[b].job
      <4>1. findings[n] \in Finding /\ findings'[n] = Upsert(findings[n], scan[b].job)
        BY <1>1, <2>3, <3>1 DEF UpsertFinding, TypeOK
      <4> QED
        BY <4>1 DEF Upsert, Finding
    <3>3. a = b
      BY <1>1, <2>1, <3>1, <3>2 DEF SeenNow, TimelineInv, JobsAreOwn
    <3> QED
      BY <3>1, <3>3 DEF NamesOf
  <2> QED
    BY <1>1, <2>2, <2>3, FindingsStep DEF FindingsKept, SeenNow
<1>4. ASSUME MovesOn
      PROVE  \A a \in Accounts : ~At(a, "idle")' => Reported(a)' = Reported(a)
  <2> SUFFICES ASSUME NEW a \in Accounts, ~At(a, "idle")'
               PROVE  scan'[a].live = scan[a].live /\ scan'[a].dead = scan[a].dead
    BY DEF Reported
  <2>1. ASSUME NEW b \in Accounts, NEW scope \in Scopes, Start(b, scope)
        PROVE  scan'[a] = scan[a]
    <3>1. a # b
      BY <1>1, <1>4, <2>1 DEF MovesOn, At, Start, TypeOK
    <3> QED
      BY <1>1, <2>1, <3>1 DEF Start, TypeOK
  <2>2. ASSUME NEW b \in Accounts, NEW r \in Resources, UpsertFinding(b, r) \/ UpsertAsset(b, r)
        PROVE  scan'[a].live = scan[a].live /\ scan'[a].dead = scan[a].dead
    <3>1. CASE UpsertFinding(b, r)
      BY <1>1, <3>1 DEF UpsertFinding, TypeOK, Attempt
    <3>2. CASE UpsertAsset(b, r)
      BY <1>1, <3>2 DEF UpsertAsset, TypeOK, Attempt
    <3> QED
      BY <2>2, <3>1, <3>2
  <2>3. ASSUME NEW b \in Accounts, InsertEdge(b) \/ Extract(b)
        PROVE  scan'[a].live = scan[a].live /\ scan'[a].dead = scan[a].dead
    <3>1. CASE InsertEdge(b)
      BY <1>1, <3>1 DEF InsertEdge, TypeOK, Attempt
    <3>2. CASE Extract(b)
      BY <1>1, <3>2 DEF Extract, TypeOK, Attempt
    <3> QED
      BY <2>3, <3>1, <3>2
  <2>4. ASSUME NEW b \in Accounts, NEW pc, NEW names,
               scan' = [scan EXCEPT ![b] = [@ EXCEPT !.pc = pc, !.names = names]]
        PROVE  scan'[a].live = scan[a].live /\ scan'[a].dead = scan[a].dead
    <3>1. CASE a = b
      <4>1. scan[a] \in Attempt
        BY <1>1 DEF TypeOK
      <4>2. scan'[a] = [scan[a] EXCEPT !.pc = pc, !.names = names]
        BY <1>1, <2>4, <3>1 DEF TypeOK
      <4> QED
        BY <4>1, <4>2 DEF Attempt
    <3>2. CASE a # b
      BY <1>1, <2>4, <3>2 DEF TypeOK
    <3> QED
      BY <3>1, <3>2
  <2>6. ASSUME NEW b \in Accounts, Cascade(b) \/ Sweep(b) \/ SoftDelete(b)
        PROVE  scan'[a].live = scan[a].live /\ scan'[a].dead = scan[a].dead
    <3>1. CASE Cascade(b)
      BY <2>4, <3>1 DEF Cascade
    <3>2. CASE Sweep(b)
      BY <1>1, <3>2 DEF Sweep, TypeOK, Attempt
    <3>3. CASE SoftDelete(b)
      BY <2>4, <3>3 DEF SoftDelete
    <3> QED
      BY <2>6, <3>1, <3>2, <3>3
  <2>5. ASSUME NEW b \in Accounts, Complete(b) \/ Fail(b)
        PROVE  scan'[a] = scan[a]
    <3>1. scan' = [scan EXCEPT ![b] = NoAttempt]
      BY <2>5 DEF Complete, Fail
    <3> QED
      BY <1>1, <3>1 DEF At, NoAttempt, TypeOK
  <2> QED
    BY <2>1, <2>2, <2>3, <2>5, <2>6 DEF Next, vars, Create, Terminate, Vanish
<1> QED
  BY <1>1, <1>2, <1>3, <1>4, AttemptsMoveOn

LEMMA ReportedStep ==
  ASSUME OneAccount, ResultsInv, [Next]_vars
  PROVE  ReportedAreSeen'
<1> DEFINE Goal(a) ==
      /\ scan[a].pc \in {"findings", "edge"} =>
           \A r \in Reported(a) \ scan[a].todo : SeenNow(a, NameOf[r])
      /\ scan[a].pc \in {"inventory", "cascade"} =>
           \A r \in Reported(a) : SeenNow(a, NameOf[r])
      /\ scan[a].pc \in {"sweep", "count"} =>
           \A r \in Reported(a) : SeenNow(a, NameOf[r]) \/ NameOf[r] \in scan[a].names
<1> SUFFICES ASSUME NEW a \in Accounts PROVE Goal(a)'
  BY DEF ReportedAreSeen
<1>1. /\ TypeOK /\ ReportsAreOwn /\ Goal(a) /\ scan[a] \in Attempt
      /\ Reported(a) \subseteq Resources
  BY ReportedType DEF ResultsInv, TimelineInv, ReportedAreSeen, TypeOK
<1>2. \A b \in Accounts : b = a
  BY OneAccount DEF OneAccount
<1>3. ASSUME UNCHANGED <<findings, scan>>
      PROVE  Goal(a)'
  BY <1>1, <1>3 DEF Reported, SeenNow, Exists
<1>4. ASSUME NEW scope \in Scopes, Start(a, scope)
      PROVE  Goal(a)'
  <2>1. scan'[a].pc = "findings" /\ scan'[a].todo = scan'[a].live \cup scan'[a].dead
    BY <1>1, <1>4 DEF Start, TypeOK
  <2> QED
    BY <2>1 DEF Reported
<1>5. ASSUME NEW r \in Resources, UpsertFinding(a, r)
      PROVE  Goal(a)'
  <2>1. /\ At(a, "findings") /\ scan'[a].pc = "edge"
        /\ scan'[a].todo = scan[a].todo \ {r} /\ scan'[a].job = scan[a].job
        /\ scan'[a].live = scan[a].live /\ scan'[a].dead = scan[a].dead
    BY <1>1, <1>5, UpsertFindingEffect DEF At
  <2>2. NameOf[r] \in Names /\ findings[NameOf[r]] \in Finding
        /\ findings'[NameOf[r]] = Upsert(findings[NameOf[r]], scan[a].job)
    BY <1>1, <1>5, InventoryAssumption DEF UpsertFinding, TypeOK
  <2>3. SeenNow(a, NameOf[r])'
    <3>1. scan[a].job \in 0..MaxScans
      BY <1>1 DEF Attempt
    <3>2. findings'[NameOf[r]].last = scan[a].job
      BY <2>2 DEF Upsert, Finding
    <3>3. findings'[NameOf[r]].count > 0
      BY <2>2, <3>1, UpsertType
    <3> QED
      BY <2>1, <3>2, <3>3 DEF SeenNow, Exists
  <2>4. ASSUME NEW q \in Reported(a) \ scan[a].todo
        PROVE  SeenNow(a, NameOf[q])'
    <3>1. SeenNow(a, NameOf[q]) /\ NameOf[q] \in Names
      BY <1>1, <2>1, InventoryAssumption DEF At
    <3>2. CASE NameOf[q] = NameOf[r]
      BY <2>3, <3>2 DEF SeenNow, Exists
    <3>3. CASE NameOf[q] # NameOf[r]
      <4>1. findings'[NameOf[q]] = findings[NameOf[q]]
        BY <1>1, <1>5, <3>1, <3>3 DEF UpsertFinding, TypeOK
      <4> QED
        BY <2>1, <3>1, <4>1 DEF SeenNow, Exists
    <3> QED
      BY <3>2, <3>3
  <2> QED
    BY <2>1, <2>3, <2>4 DEF Reported
<1>6. ASSUME UNCHANGED findings, scan'[a].job = scan[a].job,
             scan'[a].live = scan[a].live, scan'[a].dead = scan[a].dead
      PROVE  /\ Reported(a)' = Reported(a)
             /\ \A r \in Resources : SeenNow(a, NameOf[r])' <=> SeenNow(a, NameOf[r])
  BY <1>6 DEF Reported, SeenNow, Exists
<1>7. ASSUME InsertEdge(a)
      PROVE  Goal(a)'
  <2>1. /\ At(a, "edge") /\ scan'[a].pc = "findings" /\ scan'[a].todo = scan[a].todo
        /\ scan'[a].job = scan[a].job /\ UNCHANGED findings
        /\ scan'[a].live = scan[a].live /\ scan'[a].dead = scan[a].dead
    BY <1>1, <1>7 DEF InsertEdge, TypeOK, Attempt
  <2> QED
    BY <1>1, <1>6, <2>1 DEF At
<1>8. ASSUME Extract(a)
      PROVE  Goal(a)'
  <2>1. /\ At(a, "findings") /\ scan'[a].pc = "inventory" /\ scan[a].todo = {}
        /\ scan'[a].job = scan[a].job /\ UNCHANGED findings
        /\ scan'[a].live = scan[a].live /\ scan'[a].dead = scan[a].dead
    BY <1>1, <1>8 DEF Extract, TypeOK, Attempt
  <2> QED
    BY <1>1, <1>6, <2>1 DEF At
<1>9. ASSUME NEW r \in Resources, UpsertAsset(a, r)
      PROVE  Goal(a)'
  <2>1. /\ At(a, "inventory") /\ scan'[a].pc = "inventory"
        /\ scan'[a].job = scan[a].job /\ UNCHANGED findings
        /\ scan'[a].live = scan[a].live /\ scan'[a].dead = scan[a].dead
    BY <1>1, <1>9 DEF UpsertAsset, TypeOK, Attempt, At
  <2> QED
    BY <1>1, <1>6, <2>1 DEF At
<1>10. ASSUME NEW pc, NEW names, scan' = [scan EXCEPT ![a] =
                                           [@ EXCEPT !.pc = pc, !.names = names]]
       PROVE  /\ scan'[a].pc = pc /\ scan'[a].names = names
              /\ scan'[a].job = scan[a].job
              /\ scan'[a].live = scan[a].live /\ scan'[a].dead = scan[a].dead
  <2>1. scan'[a] = [scan[a] EXCEPT !.pc = pc, !.names = names]
    BY <1>1, <1>10 DEF TypeOK
  <2> QED
    BY <1>1, <2>1 DEF Attempt
<1>11. ASSUME SoftDelete(a)
       PROVE  Goal(a)'
  <2>1. /\ At(a, "inventory") /\ scan'[a].pc = "cascade"
        /\ scan'[a].job = scan[a].job /\ UNCHANGED findings
        /\ scan'[a].live = scan[a].live /\ scan'[a].dead = scan[a].dead
    BY <1>10, <1>11 DEF SoftDelete
  <2> QED
    BY <1>1, <1>6, <2>1 DEF At
<1>12. ASSUME Cascade(a)
       PROVE  Goal(a)'
  <2> DEFINE gone == {n \in scan[a].names \cap Cascading : Exists(n)}
  <2>1. /\ At(a, "cascade") /\ scan'[a].pc = "sweep" /\ scan'[a].names = gone
        /\ scan'[a].job = scan[a].job
        /\ scan'[a].live = scan[a].live /\ scan'[a].dead = scan[a].dead
    BY <1>10, <1>12 DEF Cascade
  <2>2. \A n \in Names \ gone : findings'[n] = findings[n]
    BY <1>12 DEF Cascade
  <2>3. ASSUME NEW r \in Reported(a)
        PROVE  SeenNow(a, NameOf[r])' \/ NameOf[r] \in gone
    <3>1. SeenNow(a, NameOf[r]) /\ NameOf[r] \in Names
      BY <1>1, <2>1, InventoryAssumption DEF At
    <3> QED
      BY <2>1, <2>2, <3>1 DEF SeenNow, Exists
  <2>4. Reported(a)' = Reported(a)
    BY <2>1 DEF Reported
  <2> QED
    BY <2>1, <2>3, <2>4
<1>13. ASSUME Sweep(a)
       PROVE  Goal(a)'
  <2>1. /\ At(a, "sweep") /\ scan'[a].pc = "count" /\ scan'[a].names = scan[a].names
        /\ scan'[a].job = scan[a].job /\ UNCHANGED findings
        /\ scan'[a].live = scan[a].live /\ scan'[a].dead = scan[a].dead
    BY <1>1, <1>13 DEF Sweep, TypeOK, Attempt
  <2> QED
    BY <1>1, <1>6, <2>1 DEF At
<1>14. ASSUME Complete(a) \/ Fail(a)
       PROVE  Goal(a)'
  <2>1. scan'[a].pc = "idle"
    BY <1>1, <1>14 DEF Complete, Fail, NoAttempt, TypeOK
  <2> QED
    BY <2>1
<1> HIDE DEF Goal
<1> QED
  BY <1>2, <1>3, <1>4, <1>5, <1>7, <1>8, <1>9, <1>11, <1>12, <1>13, <1>14
     DEF Next, vars, Create, Terminate, Vanish

LEMMA ResultsStep ==
  ASSUME NamesDiffer, ResultsInv, [Next]_vars
  PROVE  ResultsAgree'
<1>1. /\ TypeOK /\ jobs \in Seq(Job)
      /\ Len(jobs) \in Nat /\ DOMAIN jobs = 1..Len(jobs) /\ ResultsAgree
  BY DEF ResultsInv, TimelineInv, TypeOK
<1>2. CASE UNCHANGED jobs
  BY <1>1, <1>2 DEF ResultsAgree
<1>3. ASSUME NEW a \in Accounts, NEW scope \in Scopes, Start(a, scope)
      PROVE  ResultsAgree'
  <2>1. PICK d : d = [account |-> a, status |-> "running",
                      found |-> 0, new |-> 0, updated |-> 0, removed |-> 0]
    OBVIOUS
  <2>2. jobs' = Append(jobs, d)
    BY <1>3, <2>1 DEF Start
  <2>3. ASSUME NEW j \in DOMAIN jobs'
        PROVE  (j \in DOMAIN jobs /\ jobs'[j] = jobs[j]) \/ jobs'[j] = d
    BY <1>1, <2>2
  <2>4. d.status # "completed"
    BY <2>1
  <2> QED
    BY <1>1, <2>3, <2>4 DEF ResultsAgree
<1>4. ASSUME NEW j, NEW d, jobs' = [jobs EXCEPT ![j] = d],
             j \in DOMAIN jobs /\ d.status = "completed" =>
               /\ d.new + d.updated <= d.found
               /\ d.found <= d.new + d.updated + d.removed
      PROVE  ResultsAgree'
  <2>1. ASSUME NEW i \in DOMAIN jobs'
        PROVE  i \in DOMAIN jobs /\ (jobs'[i] = jobs[i] \/ (i = j /\ jobs'[i] = d))
    <3>1. PICK n : n = Len(jobs)
      OBVIOUS
    <3>2. jobs \in [1..n -> Job]
      BY <1>1, <3>1
    <3>3. DOMAIN jobs' = DOMAIN jobs
      BY <1>4, <3>2
    <3> QED
      BY <1>4, <3>2, <3>3
  <2> QED
    BY <1>1, <1>4, <2>1 DEF ResultsAgree
<1>5. ASSUME NEW a \in Accounts, Complete(a)
      PROVE  ResultsAgree'
  <2> DEFINE seen == {n \in Names : Exists(n) /\ findings[n].last = scan[a].job}
             new == {n \in seen : findings[n].first = scan[a].job}
  <2>1. /\ At(a, "count") /\ scan[a].job \in DOMAIN jobs
        /\ Reported(a) \in SUBSET Resources /\ scan[a].names \in SUBSET Names
    BY <1>1, <1>5, ReportedType DEF Complete, ResultsInv, TimelineInv, JobsAreOwn, At, Attempt
  <2>2. seen \in SUBSET NamesOf(Reported(a))
    BY <2>1 DEF ResultsInv, SeenAreReported, SeenNow, At
  <2>3. NamesOf(Reported(a)) \subseteq seen \cup scan[a].names
    <3>1. \A r \in Reported(a) : SeenNow(a, NameOf[r]) \/ NameOf[r] \in scan[a].names
      BY <2>1 DEF ResultsInv, ReportedAreSeen, At
    <3>2. NamesOf(Reported(a)) \subseteq Names
      BY <2>1, NamesAreNames
    <3> QED
      BY <3>1, <3>2 DEF NamesOf, SeenNow
  <2>4. PICK f, w, u, x : /\ f = Cardinality(Reported(a)) /\ w = Cardinality(new)
                          /\ u = Cardinality(seen \ new) /\ x = Cardinality(scan[a].names)
    OBVIOUS
  <2>5. w + u <= f /\ f <= w + u + x
    <3>1. new \in SUBSET seen
      OBVIOUS
    <3> HIDE DEF seen, new
    <3> QED
      BY <2>1, <2>2, <2>3, <2>4, <3>1, CountsAgree
  <2>6. PICK d : d = [jobs[scan[a].job] EXCEPT !.status = "completed", !.found = f,
                        !.new = w, !.updated = u, !.removed = x]
    OBVIOUS
  <2>7. jobs' = [jobs EXCEPT ![scan[a].job] = d]
    BY <1>5, <2>4, <2>6 DEF Complete
  <2>8. d.new = w /\ d.updated = u /\ d.found = f /\ d.removed = x
    <3>1. jobs[scan[a].job] \in Job
      BY <1>1, <2>1
    <3> QED
      BY <2>6, <3>1 DEF Job
  <2> QED
    BY <1>4, <2>5, <2>7, <2>8
<1>6. ASSUME NEW a \in Accounts, Fail(a)
      PROVE  ResultsAgree'
  <2>1. CASE jobs' = [jobs EXCEPT ![scan[a].job].status = "failed"]
    <3>1. PICK d : d = [jobs[scan[a].job] EXCEPT !.status = "failed"]
      OBVIOUS
    <3>2. jobs' = [jobs EXCEPT ![scan[a].job] = d]
      BY <2>1, <3>1
    <3>3. scan[a].job \in DOMAIN jobs => d.status = "failed"
      BY <1>1, <3>1 DEF Job
    <3> QED
      BY <1>4, <3>2, <3>3
  <2> QED
    BY <1>2, <1>6, <2>1 DEF Fail
<1> QED
  BY <1>2, <1>3, <1>5, <1>6 DEF Next, vars, Create, Terminate, Vanish, UpsertFinding,
     UpsertAsset, InsertEdge, Extract, SoftDelete, Cascade, Sweep

(* The history of a tenant of one account: timelines and results.  Without *)
(* NamesDiffer the results disagree: the reports of two resources of one   *)
(* name are one finding, new or updated once.                              *)
THEOREM HistoriesAddUp ==
  ASSUME OneAccount, NamesDiffer
  PROVE  Spec => []HistoryAddsUp
<1>1. NamesOwned
  BY NamesDiffer DEF NamesDiffer, NamesOwned
<1>2. ResultsInv /\ [Next]_vars => ResultsInv'
  <2> SUFFICES ASSUME ResultsInv, [Next]_vars PROVE ResultsInv'
    OBVIOUS
  <2>1. TimelineInv'
    BY <1>1, TimelineStep DEF ResultsInv
  <2> QED
    BY <2>1, OneAccount, NamesDiffer, SeenStep, ReportedStep, ResultsStep DEF ResultsInv
<1>3. ResultsInv => HistoryAddsUp
  BY TimelineSuffices DEF ResultsInv, HistoryAddsUp
<1> QED
  BY <1>2, <1>3, ResultsInit, PTL DEF Spec
=============================================================================
