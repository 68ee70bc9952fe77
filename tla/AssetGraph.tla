----------------------------- MODULE AssetGraph -----------------------------
(***************************************************************************)
(* The asset graph of a tenant as pure operators: the edges each builder   *)
(* derives from the vertex documents, the walks of an AQL traversal, and   *)
(* the two risk formulas.                                                  *)
(*                                                                         *)
(* Source: services/graph/*, services/risk_score.py, the queries of        *)
(* services/attack_path_service.py.  Scores are in tenths.  Of the edges,  *)
(* EXPOSED_TO, ROUTES_TRAFFIC and ASSUMES have no writer, and the          *)
(* collection network_endpoints has none: they are left out.               *)
(***************************************************************************)
EXTENDS Integers, Sequences, SequencesExt, FiniteSets, FiniteSetsExt

CONSTANTS
  Resources, Identities, DataAssets,
  None,      \* no role, no network
  MaxDepth,  \* hops of an attack path
  Reach      \* hops of the blast radius

Vertices == Resources \cup Identities \cup DataAssets

ASSUME AssetGraphAssumption ==
  /\ IsFiniteSet(Vertices)
  /\ MaxDepth \in Nat \ {0} /\ Reach \in Nat \ {0}
  /\ None \notin Vertices

Edge(kind, from, to) == [kind |-> kind, from |-> from, to |-> to]
Active(docs) == {v \in Vertices : docs[v].status = "active"}
Stored(docs) == {v \in Vertices : docs[v].status # "absent"}

(* build_iam_edges: principal -> role, from the trust policies of all      *)
(* identities there are, deleted ones too.                                 *)
IamEdges(docs) ==
  {Edge("STS_ASSUMEROLE_ALLOW", x[1], x[2]) :
     x \in {y \in (Identities \cap Stored(docs)) \X (Identities \cap Stored(docs)) :
              y[1] # y[2] /\ y[1] \in docs[y[2]].trusts}}

(* build_resource_edges: between active documents only.                    *)
ResourceEdges(docs) ==
  LET active == Active(docs)
      hosts == Resources \cap active
  IN {Edge("BELONGS_TO", r, docs[r].network) : r \in {h \in hosts : docs[h].network \in active}}
     \cup {Edge("ATTACHED_TO", x[1], x[2]) :
             x \in {y \in hosts \X hosts : y[1] \in docs[y[2]].groups}}
     \cup {Edge("ASSUMES_ROLE", r, docs[r].role) : r \in {h \in hosts : docs[h].role \in active}}

(* build_data_access_edges: every admin reaches every data asset.          *)
DataAccessEdges(docs) ==
  {Edge("STORES_SENSITIVE_DATA", x[1], x[2]) :
     x \in {i \in Identities \cap Active(docs) : docs[i].admin} \X (DataAssets \cap Active(docs))}

-----------------------------------------------------------------------------
(* OUTBOUND 1..n from v over a set of kinds: walks of vertices that use no *)
(* edge twice.                                                             *)
Over(edges, kinds) == {<<e.from, e.to>> : e \in {f \in edges : f.kind \in kinds}}
Uses(walk, e) == \E k \in 1..(Len(walk) - 1) : <<walk[k], walk[k + 1]>> = e

Longer(G, walks) ==
  UNION {{Append(w, e[2]) : e \in {f \in G : f[1] = Last(w) /\ ~Uses(w, f)}} : w \in walks}

Walks(G, v, n) ==
  LET walks[k \in 0..n] == IF k = 0 THEN {<<v>>} ELSE Longer(G, walks[k - 1])
  IN UNION {walks[k] : k \in 1..n}

(* The vertices that these walks end in.                                   *)
Reached(G, v, n) ==
  LET ends[k \in 0..n] ==
        IF k = 0 THEN {v} ELSE UNION {{e[2] : e \in {f \in G : f[1] = u}} : u \in ends[k - 1]}
  IN UNION {ends[k] : k \in 1..n}

Traversed == {"ASSUMES_ROLE", "BELONGS_TO", "ATTACHED_TO", "STORES_SENSITIVE_DATA"}
RoleChains == {"STS_ASSUMEROLE_ALLOW"}

(* The two queries of the detection: neither looks at the status of a      *)
(* document, so that a deleted one still has its paths.                    *)
InternetWalks(docs, edges) ==
  LET G == Over(edges, Traversed)
      entries == {r \in Resources \cap Stored(docs) : docs[r].public}
  IN {w \in UNION {Walks(G, r, MaxDepth) : r \in entries} : Last(w) \in DataAssets}

EscalationWalks(docs, edges) ==
  LET G == Over(edges, RoleChains)
  IN {w \in UNION {Walks(G, i, MaxDepth) : i \in Identities \cap Stored(docs)} :
        docs[Last(w)].admin}

-----------------------------------------------------------------------------
(* The score of a document, by its failed findings: _RISK_BATCH_AQL, which *)
(* computes calculate_resource_risk_score in the database.                 *)
BlastRadius(edges, v) == Min({Cardinality(Reached(Over(edges, Traversed), v, Reach) \cap DataAssets), 5})

Weight ==
  [CRITICAL |-> 100, HIGH |-> 70, MEDIUM |-> 40, LOW |-> 10, INFORMATIONAL |-> 5, INFO |-> 5]

Weighted(fails, s) == Weight[s] * fails[s]

Base(fails) ==
  Min({Weighted(fails, "CRITICAL") + Weighted(fails, "HIGH") + Weighted(fails, "MEDIUM")
         + Weighted(fails, "LOW") + Weighted(fails, "INFORMATIONAL") + Weighted(fails, "INFO"),
       500})

InPathMinScore == 400

Score(doc, fails, blast) ==
  LET exposure == IF doc.public THEN 2 ELSE 1
      score == Min({(Base(fails) * exposure * (5 + blast)) \div 5, 1000})
  IN IF doc.flagged THEN Max({score, InPathMinScore}) ELSE score

(* calculate_resource_risk_score itself, which has no callers but tests: a *)
(* resource without findings has no score, on a path or not.               *)
ReferenceScore(doc, fails, blast) ==
  LET exposure == IF doc.public THEN 2 ELSE 1
      score == Min({(Base(fails) * exposure * (5 + blast)) \div 5, 1000})
      onPath == IF doc.flagged THEN Max({score, InPathMinScore}) ELSE score
  IN IF \A s \in DOMAIN fails : fails[s] = 0 THEN 0 ELSE onPath

(* calculate_path_risk_score: the worst vertex, the more the shorter.      *)
Hops(walk) == Len(walk) - 1

(* Variant: no upper bound.                                                *)
PathRiskUncapped(docs, walk) ==
  LET worst == Max({docs[walk[k]].score : k \in DOMAIN walk})
  IN (worst * (Hops(walk) + 1)) \div Hops(walk)

PathRisk(docs, walk) ==
  LET worst == Max({docs[walk[k]].score : k \in DOMAIN walk})
  IN Min({(worst * (Hops(walk) + 1)) \div Hops(walk), 1000})

Severity(risk) ==
  IF risk >= 750 THEN "CRITICAL" ELSE IF risk >= 500 THEN "HIGH"
  ELSE IF risk >= 250 THEN "MEDIUM" ELSE IF risk > 0 THEN "LOW" ELSE "INFORMATIONAL"

(* Variant: the rating, whatever the risk.                                 *)
SeverityRated(risk) == Severity(risk)

(* A path without a risk is not rated, it gets the default of its kind.    *)
SeverityOfPath(risk) == IF risk > 0 THEN Severity(risk) ELSE "HIGH"

(* classify_path_exposure, by the entry point.                             *)
Exposure(entry, rule) ==
  IF entry.exposed THEN "internet_facing"
  ELSE IF entry.public THEN "public_facing"
  ELSE IF rule = "privilege_escalation" THEN "trusted_access" ELSE "none"
=============================================================================
