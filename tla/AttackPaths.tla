---------------------------- MODULE AttackPaths ----------------------------
(***************************************************************************)
(* Risk scores and attack paths: a scan refreshes the vertices, builds the *)
(* edges, and sends two tasks that know nothing of each other.  One writes *)
(* the scores, which have a floor for what lies on a path; the other finds *)
(* the paths, rates them by the scores it reads, stores them and flags     *)
(* their vertices.  Scans recur; nothing else orders the tasks.            *)
(*                                                                         *)
(* Source: workers/tasks/attack_paths.py, services/attack_path_service.py, *)
(* the end of workers/tasks/cspm_scan.py, services/graph/exposure.py.      *)
(* The inventory of a scan, whose steps CspmInventory has, is one action.  *)
(***************************************************************************)
EXTENDS AssetGraph

CONSTANTS
  Clouds,      \* name -> what the cloud then looks like
  Workers,
  MaxPaths,    \* rows of a query of the detection
  MaxQueue,    \* bound: tasks in the queue
  MaxEvents    \* bound: changes of the cloud and faults

VARIABLES
  cloud,    \* what the cloud looks like
  docs,     \* vertex -> its document
  fails,    \* vertex -> severity -> failed findings
  edges,    \* all the edges
  paths,    \* <<entry, target, rule>> -> its document
  scan,     \* what the scan does next
  queue,    \* the tasks sent
  run,      \* what each worker is doing
  changes, faults

vars == <<scan, queue, run, changes, faults, cloud, fails, edges, paths, docs>>

NoFails == [s \in DOMAIN Weight |-> 0]
NoDoc == [status |-> "absent", public |-> FALSE, exposed |-> FALSE, admin |-> FALSE,
          flagged |-> FALSE, score |-> 0, trusts |-> {}, role |-> None, groups |-> {},
          network |-> None]

ASSUME AttackPathsAssumption ==
  /\ \A n \in DOMAIN Clouds : LET c == Clouds[n] IN
       /\ c.seen \subseteq Vertices /\ c.public \subseteq c.seen \cap (Resources \cup DataAssets)
       /\ c.fails \in [Vertices -> [DOMAIN Weight -> Nat]]
       /\ c.policies \in [Identities -> {"none", "some", "admin"}]
       /\ c.trusts \in [Identities -> SUBSET Identities]
       /\ c.role \in [Resources -> Identities \cup {None}]
       /\ c.groups \in [Resources -> SUBSET Resources]
       /\ c.network \in [Resources -> Resources \cup {None}]
  /\ MaxPaths \in Nat \ {0} /\ MaxQueue \in Nat /\ MaxEvents \in Nat

Idle == [pc |-> "idle"]
(* Scores and risks.                                                       *)
Tenths == 0..1000

Tasks == {"recalculate", "detect"}
Collections == <<Resources, Identities, DataAssets>>

TypeOK ==
  /\ cloud \in DOMAIN Clouds
  /\ \A v \in Vertices :
       /\ docs[v].status \in {"absent", "active", "deleted"}
       /\ docs[v].score \in Tenths
       /\ fails[v] \in [DOMAIN Weight -> Nat]
  /\ \A e \in edges : e.from \in Stored(docs) /\ e.to \in Stored(docs)
  /\ \A k \in DOMAIN paths :
       /\ k[1] = Head(paths[k].walk) /\ k[2] = Last(paths[k].walk)
       /\ Hops(paths[k].walk) \in 1..MaxDepth
       /\ paths[k].risk \in Tenths
  /\ scan \in {"inventory", "edges", "exposure", "send"}
  /\ queue \in BoundedSeq(Tasks, MaxQueue)
  /\ \A w \in Workers :
       run[w].pc \in {"idle", "rescore", "collect", "persist", "mark"}

Init ==
  /\ cloud \in DOMAIN Clouds
  /\ docs = [v \in Vertices |-> NoDoc]
  /\ fails = [v \in Vertices |-> NoFails]
  /\ edges = {} /\ paths = <<>> /\ queue = <<>>
  /\ scan = "inventory"
  /\ run = [w \in Workers |-> Idle]
  /\ changes = 0 /\ faults = 0

Fault == changes + faults < MaxEvents /\ faults' = faults + 1

-----------------------------------------------------------------------------
(* A scan: what it sees of the cloud, which may have changed since the     *)
(* last one.  The document of a vertex that is reported takes the reported *)
(* fields and keeps the others; two are not reported when they are empty:  *)
(* has_admin_policy without policies, and the role without a profile.      *)
Reported(v, seen) ==
  LET doc == [docs[v] EXCEPT !.status = "active", !.public = v \in seen.public]
  IN IF v \in Identities
     THEN [doc EXCEPT !.trusts = seen.trusts[v],
                      !.admin = IF seen.policies[v] = "none" THEN @
                                ELSE seen.policies[v] = "admin"]
     ELSE IF v \in Resources
     THEN [doc EXCEPT !.groups = seen.groups[v], !.network = seen.network[v],
                      !.role = IF seen.role[v] = None THEN @ ELSE seen.role[v]]
     ELSE doc

Unreported(v) ==
  [docs[v] EXCEPT !.status = IF @ = "active" THEN "deleted" ELSE @]

(* Findings and inventory; the cascade is for resources alone.             *)
RefreshInventory ==
  /\ scan = "inventory"
  /\ scan' = "edges"
  /\ cloud' \in DOMAIN Clouds
  /\ changes' = IF cloud' = cloud THEN changes ELSE changes + 1
  /\ changes' + faults <= MaxEvents
  /\ docs' = [v \in Vertices |->
                IF v \in Clouds[cloud'].seen THEN Reported(v, Clouds[cloud']) ELSE Unreported(v)]
  /\ fails' = [v \in Vertices |->
                 IF v \in Clouds[cloud'].seen THEN Clouds[cloud'].fails[v]
                 ELSE IF v \in Resources \cap Active(docs) THEN NoFails ELSE fails[v]]
  /\ UNCHANGED <<edges, paths, queue, run, faults>>

(* The three builders: they insert, and nothing removes.                   *)
BuildEdges ==
  /\ scan = "edges"
  /\ scan' = "exposure"
  /\ edges' = edges \cup IamEdges(docs) \cup ResourceEdges(docs) \cup DataAccessEdges(docs)
  /\ UNCHANGED <<cloud, docs, fails, paths, queue, run, changes, faults>>

ComputeExposedInternet ==
  /\ scan = "exposure"
  /\ scan' = "send"
  /\ docs' = [v \in Vertices |-> [docs[v] EXCEPT !.exposed = @ \/ docs[v].public]]
  /\ UNCHANGED <<cloud, fails, edges, paths, queue, run, changes, faults>>

Send(tasks) ==
  /\ scan = "send"
  /\ scan' = "inventory"
  /\ Len(queue \o tasks) <= MaxQueue
  /\ queue' = queue \o tasks
  /\ UNCHANGED <<cloud, docs, fails, edges, paths, run, changes>>

SendTasks == Send(<<"recalculate", "detect">>) /\ UNCHANGED faults

(* The first call that fails ends the sending; the job is complete anyway. *)
SendFails == (Send(<<>>) \/ Send(<<"recalculate">>)) /\ Fault

(* The scan dies on its way; the next one starts over.                     *)
ScanFails ==
  /\ scan # "inventory"
  /\ Fault
  /\ scan' = "inventory"
  /\ UNCHANGED <<cloud, docs, fails, edges, paths, queue, run, changes>>

-----------------------------------------------------------------------------
Take(w) ==
  /\ run[w] = Idle
  /\ queue # <<>>
  /\ queue' = Tail(queue)
  /\ run' = [run EXCEPT ![w] = IF Head(queue) = "detect" THEN [pc |-> "collect"]
                               ELSE [pc |-> "rescore", done |-> 0]]
  /\ UNCHANGED <<cloud, docs, fails, edges, paths, scan, changes, faults>>

(* recalculate_risk_scores: one query for each collection.                 *)
Rescored(v) == [docs[v] EXCEPT !.score = Score(docs[v], fails[v], BlastRadius(edges, v))]

NextCollection(w) ==
  run' = [run EXCEPT ![w] = IF run[w].done + 1 = Len(Collections) THEN Idle
                            ELSE [run[w] EXCEPT !.done = @ + 1]]

Rescore(w) ==
  /\ run[w].pc = "rescore"
  /\ NextCollection(w)
  /\ UNCHANGED <<cloud, fails, edges, paths, scan, queue, changes, faults>>
  /\ LET rows == Stored(docs) \cap Collections[run[w].done + 1]
     IN docs' = [v \in Vertices |-> IF v \in rows THEN Rescored(v) ELSE docs[v]]

(* A query that fails is logged and its collection skipped.                *)
RescoreSkips(w) ==
  /\ run[w].pc = "rescore"
  /\ Fault
  /\ NextCollection(w)
  /\ UNCHANGED <<cloud, docs, fails, edges, paths, scan, queue, changes>>

-----------------------------------------------------------------------------
(* detect_attack_paths.  build_attack_path_docs reads the scores as they   *)
(* are; walks with the same ends make one document.                        *)
RuleOf(walk) == IF Last(walk) \in DataAssets THEN "internet_to_data" ELSE "privilege_escalation"
KeyOf(walk) == <<Head(walk), Last(walk), RuleOf(walk)>>

PathDoc(walk) ==
  LET risk == PathRisk(docs, walk)
  IN [walk |-> walk, risk |-> risk, severity |-> SeverityOfPath(risk),
      exposure |-> Exposure(docs[Head(walk)], RuleOf(walk))]

VerticesOf(ws) == UNION {ToSet(x) : x \in ws}
Limited(ws) == kSubset(Min({MaxPaths, Cardinality(ws)}), ws)

Collected(w, ws) ==
  /\ run' = [run EXCEPT ![w] = IF ws = {} THEN Idle
                               ELSE [pc |-> "persist", rows |-> {PathDoc(x) : x \in ws}]]
  /\ UNCHANGED <<cloud, docs, fails, edges, paths, scan, queue, changes>>

Collect(w) ==
  /\ run[w].pc = "collect"
  /\ \E internet \in Limited(InternetWalks(docs, edges)),
        escalation \in Limited(EscalationWalks(docs, edges)) :
       Collected(w, internet \cup escalation)
  /\ UNCHANGED faults

(* A query that fails has found nothing.                                   *)
CollectFails(w) ==
  /\ run[w].pc = "collect"
  /\ Fault
  /\ \/ \E internet \in Limited(InternetWalks(docs, edges)) : Collected(w, internet)
     \/ \E escalation \in Limited(EscalationWalks(docs, edges)) : Collected(w, escalation)

(* persist_attack_paths: of several walks with the same ends the last wins.*)
(* Each of the two loops is one action, but for a crash in its midst.      *)
KeysOf(rows) == {KeyOf(d.walk) : d \in rows}

(* Variant: a path that is stored is left as it is.                        *)
StoresNew(rows) ==
  \E last \in [KeysOf(rows) -> rows] :
    /\ \A k \in KeysOf(rows) : KeyOf(last[k].walk) = k
    /\ paths' = [k \in DOMAIN paths \cup KeysOf(rows) |->
                   IF k \in DOMAIN paths THEN paths[k] ELSE last[k]]

Stores(rows) ==
  \E last \in [KeysOf(rows) -> rows] :
    /\ \A k \in KeysOf(rows) : KeyOf(last[k].walk) = k
    /\ paths' = [k \in DOMAIN paths \cup KeysOf(rows) |->
                   IF k \in KeysOf(rows) THEN last[k] ELSE paths[k]]

Persist(w) ==
  /\ run[w].pc = "persist"
  /\ run' = [run EXCEPT ![w].pc = "mark"]
  /\ Stores(run[w].rows)
  /\ UNCHANGED <<cloud, docs, fails, edges, scan, queue, changes, faults>>

(* Variant: the flag of resources alone.                                   *)
ToMarkResources(w) == VerticesOf({d.walk : d \in run[w].rows}) \cap Resources

(* mark_resources_in_attack_path: the flag is only ever set.               *)
ToMark(w) == VerticesOf({d.walk : d \in run[w].rows})

Flags(part) == docs' = [v \in Vertices |-> [docs[v] EXCEPT !.flagged = @ \/ v \in part]]

Mark(w) ==
  /\ run[w].pc = "mark"
  /\ run' = [run EXCEPT ![w] = Idle]
  /\ Flags(ToMark(w))
  /\ UNCHANGED <<cloud, fails, edges, paths, scan, queue, changes, faults>>

(* A document that cannot be written is skipped.                           *)
PersistSkips(w) ==
  /\ run[w].pc = "persist"
  /\ Fault
  /\ \E d \in run[w].rows : Stores(run[w].rows \ {d})
  /\ run' = [run EXCEPT ![w].pc = "mark"]
  /\ UNCHANGED <<cloud, docs, fails, edges, scan, queue, changes>>

MarkSkips(w) ==
  /\ run[w].pc = "mark"
  /\ Fault
  /\ \E v \in ToMark(w) : Flags(ToMark(w) \ {v})
  /\ run' = [run EXCEPT ![w] = Idle]
  /\ UNCHANGED <<cloud, fails, edges, paths, scan, queue, changes>>

(* A worker dies, with part of its writes done; its message is delivered   *)
(* again.                                                                  *)
Crash(w) ==
  /\ run[w] # Idle
  /\ Len(queue) < MaxQueue
  /\ Fault
  /\ \/ run[w].pc \in {"rescore", "collect"} /\ UNCHANGED <<docs, paths>>
     \/ run[w].pc = "persist" /\ (\E part \in SUBSET run[w].rows : Stores(part)) /\ UNCHANGED docs
     \/ run[w].pc = "mark" /\ (\E part \in SUBSET ToMark(w) : Flags(part)) /\ UNCHANGED paths
  /\ queue' = Append(queue, IF run[w].pc = "rescore" THEN "recalculate" ELSE "detect")
  /\ run' = [run EXCEPT ![w] = Idle]
  /\ UNCHANGED <<cloud, fails, edges, scan, changes>>

-----------------------------------------------------------------------------
(* get_attack_path_stats: its total counts every path, also one whose      *)
(* severity has no tile.                                                   *)
Tiles == {"CRITICAL", "HIGH", "MEDIUM", "LOW"}
Stats == [total |-> Cardinality(DOMAIN paths),
          tile  |-> [s \in Tiles |-> Cardinality({k \in DOMAIN paths : paths[k].severity = s})]]

-----------------------------------------------------------------------------
Scan == RefreshInventory \/ BuildEdges \/ ComputeExposedInternet \/ SendTasks
Work(w) == Take(w) \/ Rescore(w) \/ Collect(w) \/ Persist(w) \/ Mark(w)

Next ==
  \/ Scan
  \/ SendFails
  \/ ScanFails
  \/ \E w \in Workers :
       \/ Work(w)
       \/ RescoreSkips(w) \/ CollectFails(w) \/ PersistSkips(w) \/ MarkSkips(w) \/ Crash(w)

(* Scans recur by the beat's schedule, and workers serve the queue.        *)
Spec == Init /\ [][Next]_vars /\ WF_vars(Scan) /\ WF_vars(\E w \in Workers : Work(w))

-----------------------------------------------------------------------------
(* "Set in_attack_path=true on all resources that participate in any       *)
(* attack path" (attack_path_service.py:422): but for lost writes, the     *)
(* vertices of every stored path are flagged, or about to be.              *)
Unflagged(k) == {v \in Vertices : v \in ToSet(paths[k].walk) /\ ~docs[v].flagged}

FlagsCoverPaths ==
  \A k \in DOMAIN paths : Unflagged(k) # {} =>
    \/ faults > 0
    \/ \E w \in Workers : run[w].pc = "mark" /\ Unflagged(k) \subseteq ToMark(w)

(* The statistics count by four severities beside a total: whatever scores *)
(* the paths were rated by, old ones, none yet, or those of vertices that  *)
(* are gone, the four add up to it.  And "Formula fiel a                   *)
(* app/services/risk_score.py" (attack_paths.py:25): the batch computes    *)
(* the score of the reference, but for a vertex on a path that has no      *)
(* findings, which the reference gives none and the batch its minimum.     *)
RatingsAgree ==
  /\ Stats.total = Stats.tile["CRITICAL"] + Stats.tile["HIGH"]
                     + Stats.tile["MEDIUM"] + Stats.tile["LOW"]
  /\ \A v \in Stored(docs) :
       LET blast == BlastRadius(edges, v)
       IN Score(docs[v], fails[v], blast) =
            IF docs[v].flagged /\ fails[v] = NoFails THEN InPathMinScore
            ELSE ReferenceScore(docs[v], fails[v], blast)

(* "Resources in a confirmed attack path have a minimum score of 40"       *)
(* (risk_score.py:15): scores and paths that were computed from each       *)
(* other's old values in any order agree in the end, whatever failed: each *)
(* score is that of its findings, flag and reach, each path that is still  *)
(* there is stored with the risk of its vertices, all of which are flagged.*)
Settled ==
  LET found == InternetWalks(docs, edges) \cup EscalationWalks(docs, edges)
  IN /\ \A v \in Stored(docs) : docs[v] = Rescored(v)
     /\ \A x \in found : KeyOf(x) \in DOMAIN paths
     /\ \A v \in VerticesOf(found) : docs[v].flagged
     /\ \A k \in DOMAIN paths : paths[k].walk \in found => paths[k] = PathDoc(paths[k].walk)

GraphSettles == <>[]Settled
=============================================================================
