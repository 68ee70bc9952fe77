---------------------------- MODULE CspmInventory ----------------------------
(***************************************************************************)
(* What the body of a CSPM scan does to the tenant's database, step by     *)
(* step: findings and their HAS_FINDING edges are upserted one by one, the *)
(* inventory is rebuilt, what the scan did not see is soft-deleted, the    *)
(* findings of what was deleted are removed, and the job is closed with    *)
(* its counts.  Nothing makes these steps one transaction, and the scans   *)
(* of two accounts of one cloud share the collections: the lock (CspmScan) *)
(* is per provider_id, the soft delete per provider.                       *)
(*                                                                         *)
(* Source: workers/tasks/cspm_scan.py (_run_cspm_scan_locked and helpers), *)
(* workers/tasks/cloud_utils.py, services/prowler_inventory.py.  One check *)
(* applies to every resource.  A document is in one of three collections,  *)
(* which differ in one step: the cascade looks at one of them only.        *)
(***************************************************************************)
EXTENDS Naturals, Sequences, FiniteSets

CONSTANTS
  Accounts,    \* the accounts of one cloud, each a provider of its own
  Resources,   \* uids of whatever is scanned: resource_id of a document
  AccountOf,   \* the account each resource lives in
  Collection,  \* the collection of its document, as _collection_for routes it
  Names,       \* values of Finding.resource_id
  NameOf,      \* resource_name or resource_uid, as _normalize picks it
  Instances,   \* EC2 instances: reported for a while after termination
  Scopes,      \* what a scan may be asked to cover (frameworks, regions)
  MaxScans,    \* bound on the attempts of a behaviour
  MaxFaults    \* bound on failed and killed attempts

ASSUME InventoryAssumption ==
  /\ IsFiniteSet(Resources) /\ IsFiniteSet(Names)
  /\ AccountOf \in [Resources -> Accounts]
  /\ NameOf \in [Resources -> Names]
  /\ Resources \subseteq Names
  /\ Collection \in [Resources -> {"resources", "identities", "data_assets"}]
  /\ Instances \subseteq {r \in Resources : Collection[r] = "resources"}
  /\ Scopes \subseteq SUBSET Resources
  /\ MaxScans \in Nat
  /\ MaxFaults \in Nat

VARIABLES
  cloud,      \* external: what the cloud would answer about a resource
  findings,   \* the finding about each name, if any
  edges,      \* the findings a HAS_FINDING edge points to
  inventory,  \* status of the inventory document of each resource
  scan,       \* the attempt under way for each account
  jobs,       \* the job documents, in the order they were inserted
  torn,       \* history: names an interrupted attempt left half updated
  faults      \* failed and killed attempts so far

vars == <<cloud, findings, edges, inventory, scan, jobs, torn, faults>>

(* A finding keeps the jobs that first and last saw it, and how often it   *)
(* was upserted; count 0 stands for no document.                           *)
Finding == [first : 0..MaxScans, last : 0..MaxScans, count : Nat]
NoFinding == [first |-> 0, last |-> 0, count |-> 0]

Steps == {"idle", "findings", "edge", "inventory", "stale", "cascade", "sweep", "count"}

Attempt ==
  [pc : Steps,
   job : 0..MaxScans,
   live : SUBSET Resources,   \* reported, and kept by the extraction
   dead : SUBSET Resources,   \* reported, but terminated
   todo : SUBSET Resources,   \* still to be upserted by this step
   names : SUBSET Names]      \* what the next query of the attempt is about

NoAttempt ==
  [pc |-> "idle", job |-> 0, live |-> {}, dead |-> {}, todo |-> {}, names |-> {}]

Job ==
  [account : Accounts, status : {"running", "completed", "failed"},
   found : Nat, new : Nat, updated : Nat, removed : Nat]

TypeOK ==
  /\ cloud \in [Resources -> {"absent", "live", "terminated"}]
  /\ findings \in [Names -> Finding]
  /\ edges \subseteq Names
  /\ inventory \in [Resources -> {"none", "active", "deleted"}]
  /\ scan \in [Accounts -> Attempt]
  /\ jobs \in Seq(Job) /\ Len(jobs) <= MaxScans
  /\ torn \subseteq Names
  /\ faults \in 0..MaxFaults

Init ==
  /\ cloud \in [Resources -> {"absent", "live"}]
  /\ findings = [n \in Names |-> NoFinding]
  /\ edges = {}
  /\ inventory = [r \in Resources |-> "none"]
  /\ scan = [a \in Accounts |-> NoAttempt]
  /\ jobs = << >>
  /\ torn = {}
  /\ faults = 0

-----------------------------------------------------------------------------
(* The cloud (external)                                                    *)

Create(r) ==
  /\ cloud[r] = "absent"
  /\ cloud' = [cloud EXCEPT ![r] = "live"]
  /\ UNCHANGED <<findings, edges, inventory, scan, jobs, torn, faults>>

Terminate(r) ==
  /\ r \in Instances
  /\ cloud[r] = "live"
  /\ cloud' = [cloud EXCEPT ![r] = "terminated"]
  /\ UNCHANGED <<findings, edges, inventory, scan, jobs, torn, faults>>

Vanish(r) ==
  /\ cloud[r] = (IF r \in Instances THEN "terminated" ELSE "live")
  /\ cloud' = [cloud EXCEPT ![r] = "absent"]
  /\ UNCHANGED <<findings, edges, inventory, scan, jobs, torn, faults>>

-----------------------------------------------------------------------------
(* The attempt                                                             *)

At(a, pc) == scan[a].pc = pc
Reported(a) == scan[a].live \cup scan[a].dead
Exists(n) == findings[n].count > 0
NamesOf(R) == {NameOf[r] : r \in R}
Cascading == {r \in Resources : Collection[r] = "resources"}

(* Variant: the document keeps ScanJob's default status.                   *)
StartQueued(a, scope) ==
  /\ At(a, "idle")
  /\ Len(jobs) < MaxScans
  /\ scan' = [scan EXCEPT ![a] = [@ EXCEPT !.pc = "findings", !.job = Len(jobs) + 1]]
  /\ jobs' = Append(jobs, [account |-> a, status |-> "queued",
                           found |-> 0, new |-> 0, updated |-> 0, removed |-> 0])
  /\ UNCHANGED <<cloud, findings, edges, inventory, torn, faults>>

(* Under the account's lock, the job document is inserted and Prowler      *)
(* runs: it reports every resource of the account in scope that the cloud  *)
(* still shows.  The extraction later drops the instances seen terminated. *)
Start(a, scope) ==
  /\ At(a, "idle")
  /\ Len(jobs) < MaxScans
  /\ LET seen == {r \in scope : AccountOf[r] = a /\ cloud[r] # "absent"}
         gone == {r \in seen : cloud[r] = "terminated"}
     IN  scan' = [scan EXCEPT ![a] =
                   [pc |-> "findings", job |-> Len(jobs) + 1, live |-> seen \ gone,
                    dead |-> gone, todo |-> seen, names |-> {}]]
  /\ jobs' = Append(jobs, [account |-> a, status |-> "running",
                           found |-> 0, new |-> 0, updated |-> 0, removed |-> 0])
  /\ UNCHANGED <<cloud, findings, edges, inventory, torn, faults>>

(* Variants: an UPDATE branch that restamps first_seen, and one that       *)
(* leaves last_seen alone.                                                 *)
UpsertRestamping(f, job) == [first |-> job, last |-> job, count |-> f.count + 1]
UpsertNotSeen(f, job) ==
  IF f.count = 0 THEN [first |-> job, last |-> job, count |-> 1]
                 ELSE [f EXCEPT !.count = @ + 1]

(* upsert_finding: the INSERT and the UPDATE branch of the query.          *)
Upsert(f, job) ==
  IF f.count = 0 THEN [first |-> job, last |-> job, count |-> 1]
                 ELSE [f EXCEPT !.last = job, !.count = @ + 1]

UpsertFinding(a, r) ==
  /\ At(a, "findings")
  /\ r \in scan[a].todo
  /\ findings' = [findings EXCEPT ![NameOf[r]] = Upsert(@, scan[a].job)]
  /\ scan' = [scan EXCEPT ![a] =
               [@ EXCEPT !.pc = "edge", !.todo = scan[a].todo \ {r},
                         !.names = {NameOf[r]}]]
  /\ UNCHANGED <<cloud, edges, inventory, jobs, torn, faults>>

(* The edge is inserted unless it is there; a failure is swallowed.        *)
InsertEdge(a) ==
  /\ At(a, "edge")
  /\ \/ edges' = edges \cup scan[a].names /\ UNCHANGED faults
     \/ faults < MaxFaults /\ faults' = faults + 1 /\ UNCHANGED edges
  /\ scan' = [scan EXCEPT ![a] = [@ EXCEPT !.pc = "findings", !.names = {}]]
  /\ UNCHANGED <<cloud, findings, inventory, jobs, torn>>

(* The extraction keeps the reported resources that are not terminated.    *)
Extract(a) ==
  /\ At(a, "findings")
  /\ scan[a].todo = {}
  /\ scan' = [scan EXCEPT ![a] = [@ EXCEPT !.pc = "inventory", !.todo = scan[a].live]]
  /\ UNCHANGED <<cloud, findings, edges, inventory, jobs, torn, faults>>

UpsertAsset(a, r) ==
  /\ At(a, "inventory")
  /\ r \in scan[a].todo
  /\ inventory' = [inventory EXCEPT ![r] = "active"]
  /\ torn' = torn \ {NameOf[r]}
  /\ scan' = [scan EXCEPT ![a].todo = @ \ {r}]
  /\ UNCHANGED <<cloud, findings, edges, jobs, faults>>

(* Variant: only documents the scan did not report at all are stale.       *)
SoftDeleteUnreported(a) ==
  /\ At(a, "inventory")
  /\ scan[a].todo = {}
  /\ LET stale == {r \in Resources : inventory[r] = "active"} \ Reported(a)
     IN  /\ inventory' = [r \in Resources |-> IF r \in stale THEN "deleted" ELSE inventory[r]]
         /\ scan' = [scan EXCEPT ![a] = [@ EXCEPT !.pc = "cascade", !.names = stale]]
  /\ UNCHANGED <<cloud, findings, edges, jobs, torn, faults>>

(* Every live document of the cloud that this scan did not extract is      *)
(* marked deleted, whatever its account and the scan's scope; the query    *)
(* returns the resource_id of those it marked, not of earlier ones.        *)
SoftDelete(a) ==
  /\ At(a, "inventory")
  /\ scan[a].todo = {}
  /\ LET stale == {r \in Resources : inventory[r] = "active"} \ scan[a].live
     IN  /\ inventory' = [r \in Resources |-> IF r \in stale THEN "deleted" ELSE inventory[r]]
         /\ scan' = [scan EXCEPT ![a] = [@ EXCEPT !.pc = "cascade", !.names = stale]]
  /\ UNCHANGED <<cloud, findings, edges, jobs, torn, faults>>

(* Variant: no cascade.                                                    *)
CascadeNothing(a) ==
  /\ At(a, "cascade")
  /\ scan' = [scan EXCEPT ![a] = [@ EXCEPT !.pc = "sweep", !.names = {}]]
  /\ UNCHANGED <<cloud, findings, edges, inventory, jobs, torn, faults>>

(* Of what was just marked, the cascade is given the documents of the      *)
(* collection `resources`; it removes the findings with their resource_id. *)
Cascade(a) ==
  /\ At(a, "cascade")
  /\ LET gone == {n \in scan[a].names \cap Cascading : Exists(n)}
     IN  /\ findings' = [n \in Names |-> IF n \in gone THEN NoFinding ELSE findings[n]]
         /\ scan' = [scan EXCEPT ![a] = [@ EXCEPT !.pc = "sweep", !.names = gone]]
  /\ UNCHANGED <<cloud, edges, inventory, jobs, torn, faults>>

(* Variant: the edges of removed findings stay.                            *)
SweepNothing(a) ==
  /\ At(a, "sweep")
  /\ scan' = [scan EXCEPT ![a].pc = "count"]
  /\ UNCHANGED <<cloud, findings, edges, inventory, jobs, torn, faults>>

(* A second query removes the edges of the findings just removed.          *)
Sweep(a) ==
  /\ At(a, "sweep")
  /\ edges' = edges \ scan[a].names
  /\ scan' = [scan EXCEPT ![a].pc = "count"]
  /\ UNCHANGED <<cloud, findings, inventory, jobs, torn, faults>>

(* The new and updated findings are counted by their first and last-seen   *)
(* stamps, and the job is COMPLETED.                                       *)
Complete(a) ==
  /\ At(a, "count")
  /\ LET job == scan[a].job
         seen == {n \in Names : Exists(n) /\ findings[n].last = job}
         new == {n \in seen : findings[n].first = job}
     IN  jobs' = [jobs EXCEPT ![job] =
                   [@ EXCEPT !.status = "completed",
                             !.found = Cardinality(Reported(a)),
                             !.new = Cardinality(new),
                             !.updated = Cardinality(seen \ new),
                             !.removed = Cardinality(scan[a].names)]]
  /\ scan' = [scan EXCEPT ![a] = NoAttempt]
  /\ UNCHANGED <<cloud, findings, edges, inventory, torn, faults>>

(* What an attempt that ends now leaves half done: findings upserted of    *)
(* assets that are not, or assets marked deleted whose findings or edges   *)
(* are not removed; no later scan looks at a document marked deleted.      *)
HalfDone(a) ==
  CASE scan[a].pc \in {"findings", "edge", "inventory"} ->
         NamesOf({r \in Reported(a) : inventory[r] # "active"})
    [] scan[a].pc \in {"cascade", "sweep"} -> scan[a].names
    [] OTHER -> {}

(* An exception marks the job FAILED and the attempt is retried from the   *)
(* start; a killed worker, or a status write that is lost, leaves it       *)
(* running.                                                                *)
Fail(a) ==
  /\ ~At(a, "idle")
  /\ faults < MaxFaults
  /\ faults' = faults + 1
  /\ torn' = torn \cup HalfDone(a)
  /\ \/ jobs' = [jobs EXCEPT ![scan[a].job].status = "failed"]
     \/ UNCHANGED jobs
  /\ scan' = [scan EXCEPT ![a] = NoAttempt]
  /\ UNCHANGED <<cloud, findings, edges, inventory>>

Next ==
  \/ \E r \in Resources : Create(r) \/ Terminate(r) \/ Vanish(r)
  \/ \E a \in Accounts :
       \/ \E scope \in Scopes : Start(a, scope)
       \/ \E r \in Resources : UpsertFinding(a, r) \/ UpsertAsset(a, r)
       \/ InsertEdge(a) \/ Extract(a) \/ SoftDelete(a)
       \/ Cascade(a) \/ Sweep(a) \/ Complete(a) \/ Fail(a)

Spec == Init /\ [][Next]_vars

-----------------------------------------------------------------------------
(* Properties                                                              *)

(* A finding about a document of the collection `resources` exists only    *)
(* while that document is active, or while a scan is on its way to settle  *)
(* the two: once the resource has vanished, the next scan that completes   *)
(* removes the finding.  Nothing is claimed of identities and data assets, *)
(* whose findings no cascade reaches; of what an interrupted attempt tore; *)
(* of instances (the findings of a terminated one come back after each     *)
(* cascade, for its document is not deleted again); and of resources whose *)
(* findings are not under their uid, or not alone there (see               *)
(* CascadeReachesFindings).                                                *)
Addressed ==
  {r \in Cascading \ Instances : \A q \in Resources : NameOf[q] = r <=> q = r}
InProgress(n) ==
  \E a \in Accounts :
    \/ At(a, "cascade") /\ n \in scan[a].names
    \/ /\ scan[a].pc \in {"findings", "edge", "inventory"}
       /\ n \in NamesOf(Reported(a))
ActiveNames == NamesOf({r \in Resources : inventory[r] = "active"})

FindingsHaveAssets ==
  \A r \in Addressed : Exists(r) => r \in ActiveNames \/ InProgress(r) \/ r \in torn

(* "Hard-delete findings whose resource was just soft-deleted this run"    *)
(* (cspm_scan.py:106): after the cascade, no finding is left about any     *)
(* resource that the soft delete of the same scan marked.                  *)
CascadeReachesFindings ==
  [][\A a \in Accounts : Cascade(a) =>
       \A r \in scan[a].names : findings'[NameOf[r]] = NoFinding]_vars

(* "Also sweeps the now-dangling HAS_FINDING edges" (cspm_scan.py:112): an *)
(* edge whose finding is gone is about to be swept, or the attempt that    *)
(* removed the finding was interrupted before its second query.            *)
NoDanglingEdges ==
  \A n \in edges :
    Exists(n) \/ n \in torn \/ \E a \in Accounts : At(a, "sweep") /\ n \in scan[a].names

TimelinesAgree ==
  \A n \in Names : Exists(n) =>
    LET f == findings[n]
    IN  /\ 1 <= f.first /\ f.first <= f.last /\ f.last <= Len(jobs)
        /\ f.count <= Cardinality({x \in (f.first .. f.last) \X Resources :
                                     NameOf[x[2]] = n /\ AccountOf[x[2]] = jobs[x[1]].account})

ResultsAgree ==
  \A j \in DOMAIN jobs : jobs[j].status = "completed" =>
    /\ jobs[j].new + jobs[j].updated <= jobs[j].found
    /\ jobs[j].found <= jobs[j].new + jobs[j].updated + jobs[j].removed

(* The timeline of a finding (upsert_finding's docstring): it was first    *)
(* seen no later than last, and counted at most once for each report of it *)
(* by the attempts from the first to the last that saw it, retries and     *)
(* re-insertions after a cascade included.  The results of a completed job *)
(* are read off these timelines, and agree: every finding it reported is   *)
(* new, updated, or was removed with its resource at the end of the scan.  *)
HistoryAddsUp == TimelinesAgree /\ ResultsAgree

(* When a scan completes, the active documents are the resources it saw    *)
(* alive: nothing that vanished, or is only reported after its             *)
(* termination, stays active, and nothing alive is missing.                *)
CompletedScanMirrorsCloud ==
  [][\A a \in Accounts :
       Complete(a) => {r \in Resources : inventory[r] = "active"} = scan[a].live]_vars

(* "a single Prowler run covers every resource type for the provider in    *)
(* one pass, so no ... scoping is needed" (cspm_scan.py:65): a scan marks  *)
(* deleted only resources of the account it covered.                       *)
DeletesOwnAccountOnly ==
  [][\A a \in Accounts, r \in Resources :
       SoftDelete(a) /\ inventory'[r] # inventory[r] => AccountOf[r] = a]_vars

=============================================================================
