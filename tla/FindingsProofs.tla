--------------------------- MODULE FindingsProofs ---------------------------
(***************************************************************************)
(* Theorems about Findings, for every set of findings, accounts, versions, *)
(* scans, page size and order of the keys.                                 *)
(***************************************************************************)
EXTENDS Findings, Induction

-----------------------------------------------------------------------------
(* Types                                                                   *)

Documents == [status : Statuses, at : Nat]
Points == Versions \X Tenths
OnePerVersion(P) == \A p, q \in P : p[1] = q[1] => p = q

FindingsOK ==
  /\ clock \in Nat
  /\ DOMAIN findings \subseteq Keys
  /\ findings \in [DOMAIN findings -> Documents]
  /\ \A k \in DOMAIN findings : findings[k].at \in 1..clock
  /\ live \subseteq Assets

ReportMaps(s) == UNION {[K -> {"FAIL", "PASS"}] : K \in SUBSET Own(s)}

Running(s) ==
  [pc : {"upsert", "record", "inventory"}, report : ReportMaps(s), todo : SUBSET Keys,
   at : Nat, scores : SUBSET Points, fresh : BOOLEAN, today : BOOLEAN]

ScanShape(f) ==
  /\ f = [s \in Scanners |-> f[s]]
  /\ \A s \in Scanners : f[s] # Idle =>
       /\ f[s] \in Running(s)
       /\ f[s].todo \subseteq DOMAIN f[s].report
       /\ OnePerVersion(f[s].scores)

ScanOK == ScanShape(scan)

(* The time of a scan has come: it will be that of what it inserts.        *)
TimesOK == \A s \in Scanners : scan[s] # Idle => scan[s].at \in 1..clock

PointsOK == points \subseteq Points /\ OnePerVersion(points) /\ current \in BOOLEAN

Cursors == [at : Nat, rank : Nat]
RowMaps == UNION {[K -> Nat] : K \in SUBSET Keys}
Exports ==
  [pc : {"page", "done"}, filter : SUBSET Statuses, cursor : Cursors \cup {None},
   must : SUBSET Keys, rows : RowMaps]

(* What must be listed is there and matches: Changed takes away the rest.  *)
ExportOK ==
  export # NoExport =>
    /\ export \in Exports
    /\ \A k \in export.must : k \in DOMAIN findings /\ findings[k].status \in export.filter

TypeInv == FindingsOK /\ ScanOK /\ TimesOK /\ PointsOK /\ ExportOK

-----------------------------------------------------------------------------
(* The order of the rows                                                   *)

LEMMA OrderIsStrict ==
  ASSUME FindingsOK, NEW k \in DOMAIN findings, NEW l \in DOMAIN findings
  PROVE  /\ ~Precedes(k, k)
         /\ ~(Precedes(k, l) /\ Precedes(l, k))
         /\ k = l \/ Precedes(k, l) \/ Precedes(l, k)
         /\ Precedes(k, l) <=> Past(CursorAt(k), l)
<1>1. findings[k].at \in Nat /\ findings[l].at \in Nat
  BY DEF FindingsOK, Documents
<1>2. Rank[k] \in Nat /\ Rank[l] \in Nat /\ (Rank[k] = Rank[l] => k = l)
  BY FindingsAssumption DEF FindingsOK
<1>3. CursorAt(k) # None
  BY <1>1, <1>2, FindingsAssumption DEF CursorAt
<1> QED
  BY <1>1, <1>2, <1>3 DEF Precedes, Past, CursorAt

LEMMA OrderIsTransitive ==
  ASSUME FindingsOK, NEW k \in DOMAIN findings, NEW l \in DOMAIN findings,
         NEW m \in DOMAIN findings, Precedes(k, l), Precedes(l, m)
  PROVE  Precedes(k, m)
<1>1. findings[k].at \in Nat /\ findings[l].at \in Nat /\ findings[m].at \in Nat
  BY DEF FindingsOK, Documents
<1>2. Rank[k] \in Nat /\ Rank[l] \in Nat /\ Rank[m] \in Nat
  BY FindingsAssumption DEF FindingsOK
<1> QED
  BY <1>1, <1>2 DEF Precedes

LEMMA RowsAreFinite ==
  ASSUME FindingsOK, NEW S \in SUBSET DOMAIN findings
  PROVE  /\ IsFiniteSet(S) /\ Cardinality(S) \in Nat
         /\ \A k \in S : /\ IsFiniteSet(Before(S, k))
                         /\ Cardinality(Before(S, k)) \in Nat
                         /\ Cardinality(Before(S, k)) < Cardinality(S)
<1>1. IsFiniteSet(S)
  BY FindingsAssumption, FS_Subset DEF FindingsOK
<1>2. Cardinality(S) \in Nat
  BY <1>1, FS_CardinalityType
<1>3. ASSUME NEW k \in S
      PROVE  /\ IsFiniteSet(Before(S, k))
             /\ Cardinality(Before(S, k)) \in Nat
             /\ Cardinality(Before(S, k)) < Cardinality(S)
  <2>1. Before(S, k) \subseteq S /\ k \notin Before(S, k)
    BY OrderIsStrict DEF Before
  <2>2. IsFiniteSet(Before(S, k)) /\ Cardinality(Before(S, k)) <= Cardinality(S)
    BY <1>1, <2>1, FS_Subset
  <2>3. Cardinality(Before(S, k)) # Cardinality(S)
    BY <1>1, <2>1, FS_Subset
  <2>4. Cardinality(Before(S, k)) \in Nat
    BY <2>2, FS_CardinalityType
  <2> QED
    BY <1>2, <2>2, <2>3, <2>4
<1> QED
  BY <1>1, <1>2, <1>3

(* The place of a row in the order, from 0.                                *)
LEMMA PlacesFollowOrder ==
  ASSUME FindingsOK, NEW S \in SUBSET DOMAIN findings, NEW k \in S, NEW l \in S,
         Precedes(k, l)
  PROVE  Cardinality(Before(S, k)) < Cardinality(Before(S, l))
<1>1. Before(S, k) \cup {k} \subseteq Before(S, l)
  BY OrderIsTransitive DEF Before
<1>2. k \notin Before(S, k)
  BY OrderIsStrict DEF Before
<1>3. /\ IsFiniteSet(Before(S, k)) /\ IsFiniteSet(Before(S, l))
      /\ Cardinality(Before(S, k)) \in Nat /\ Cardinality(Before(S, l)) \in Nat
  BY RowsAreFinite
<1>4. Cardinality(Before(S, k) \cup {k}) = Cardinality(Before(S, k)) + 1
  BY <1>2, <1>3, FS_AddElement
<1>5. Cardinality(Before(S, k) \cup {k}) <= Cardinality(Before(S, l))
  BY <1>1, <1>3, FS_Subset
<1> QED
  BY <1>3, <1>4, <1>5

(* Every place is taken: the places of n rows are n numbers below n.       *)
LEMMA PlacesAreTaken ==
  ASSUME FindingsOK, NEW S \in SUBSET DOMAIN findings,
         NEW i \in Nat, i < Cardinality(S)
  PROVE  \E k \in S : Cardinality(Before(S, k)) = i
<1> DEFINE n == Cardinality(S)
           place == [k \in S |-> Cardinality(Before(S, k))]
<1>1. IsFiniteSet(S) /\ n \in Nat /\ n >= 1
  BY RowsAreFinite
<1>2. place \in [S -> 0..(n - 1)]
  BY <1>1, RowsAreFinite
<1>3. ASSUME NEW k \in S, NEW l \in S, place[k] = place[l] PROVE k = l
  <2>1. place[k] \in Nat
    BY <1>1, <1>2
  <2>2. ~Precedes(k, l) /\ ~Precedes(l, k)
    BY <1>3, <2>1, PlacesFollowOrder
  <2> QED
    BY <2>2, OrderIsStrict
<1>4. place \in Injection(S, 0..(n - 1))
  BY <1>2, <1>3 DEF Injection, IsInjective
<1>5. IsFiniteSet(0..(n - 1)) /\ Cardinality(0..(n - 1)) = n
  <2> HIDE DEF n
  <2>1. n - 1 \in Int /\ ~(0 > n - 1) /\ (n - 1) - 0 + 1 = n
    BY <1>1
  <2> QED
    BY <2>1, FS_Interval
<1>6. place \in Surjection(S, 0..(n - 1))
  BY <1>4, <1>5, FS_Injection
<1>7. \E k \in S : place[k] = i
  <2>1. i \in 0..(n - 1)
    BY <1>1
  <2> HIDE DEF n, place
  <2> QED
    BY <1>6, <2>1 DEF Surjection
<1> QED
  BY <1>7

(* A page holds all rows, or ends with a row that all others of the page   *)
(* precede and that precedes all rows the page leaves out.                 *)
LEMMA WholePage ==
  ASSUME FindingsOK, NEW S \in SUBSET DOMAIN findings, ~(Cardinality(S) > PageSize)
  PROVE  FirstOf(S) = S
BY RowsAreFinite, FindingsAssumption DEF FirstOf

LEMMA LastOfPage ==
  ASSUME FindingsOK, NEW S \in SUBSET DOMAIN findings, Cardinality(S) > PageSize
  PROVE  /\ LastOf(FirstOf(S)) \in FirstOf(S)
         /\ \A l \in FirstOf(S) : l = LastOf(FirstOf(S)) \/ Precedes(l, LastOf(FirstOf(S)))
         /\ \A l \in S \ FirstOf(S) : Precedes(LastOf(FirstOf(S)), l)
<1>1. PageSize \in Nat /\ PageSize >= 1 /\ Cardinality(S) \in Nat
  BY FindingsAssumption, RowsAreFinite
<1>2. PICK k \in S : Cardinality(Before(S, k)) = PageSize - 1
  BY <1>1, PlacesAreTaken
<1>3. k \in FirstOf(S)
  BY <1>1, <1>2 DEF FirstOf
<1>4. ASSUME NEW l \in FirstOf(S) PROVE l = k \/ Precedes(l, k)
  <2>1. l \in S /\ Cardinality(Before(S, l)) < PageSize
    BY DEF FirstOf
  <2>2. Cardinality(Before(S, l)) \in Nat
    BY <2>1, RowsAreFinite
  <2>3. ~Precedes(k, l)
    BY <1>1, <1>2, <2>1, <2>2, PlacesFollowOrder
  <2> QED
    BY <2>1, <2>3, OrderIsStrict
<1> DEFINE last == LastOf(FirstOf(S))
<1>5. last \in FirstOf(S) /\ \A l \in FirstOf(S) : l = last \/ Precedes(l, last)
  BY <1>3, <1>4 DEF LastOf
<1>6. ASSUME NEW l \in S \ FirstOf(S) PROVE Precedes(last, l)
  <2>1. last \in S /\ Cardinality(Before(S, last)) < PageSize
    BY <1>5 DEF FirstOf
  <2>2. ~(Cardinality(Before(S, l)) < PageSize)
    BY DEF FirstOf
  <2>3. Cardinality(Before(S, last)) \in Nat /\ Cardinality(Before(S, l)) \in Nat
    BY <2>1, RowsAreFinite
  <2>4. ~Precedes(l, last)
    BY <1>1, <2>1, <2>2, <2>3, PlacesFollowOrder
  <2> QED
    BY <2>1, <2>4, <1>5, OrderIsStrict
<1> QED
  BY <1>5, <1>6

-----------------------------------------------------------------------------
(* The scores                                                              *)

LEMMA RatioIsInTenths ==
  ASSUME NEW part \in Nat, NEW total \in Nat, part <= total
  PROVE  Ratio(part, total) \in Tenths
<1>1. CASE total = 0
  BY <1>1 DEF Ratio, Tenths
<1>2. CASE total # 0
  <2> DEFINE x == 2000 * part + total
             d == 2 * total
             q == x \div d
  <2>1. x \in Nat /\ d \in Nat /\ d > 0 /\ x < 1001 * d
    BY <1>2
  <2>2. q \in Int /\ d * q <= x /\ x < d * (q + 1)
    <3> HIDE DEF x, d
    <3> QED
      BY <2>1
  <2> HIDE DEF x, d, q
  <2>3. q >= 0
    BY <2>1, <2>2
  <2>4. q < 1001
    BY <2>1, <2>2
  <2>5. Ratio(part, total) = q
    BY <1>2 DEF Ratio, x, d, q
  <2> QED
    BY <2>2, <2>3, <2>4, <2>5 DEF Tenths
<1> QED
  BY <1>1, <1>2

LEMMA ControlScoreInTenths ==
  ASSUME NEW rows, NEW v \in Versions
  PROVE  ScoreByControl(rows, v).score \in Tenths
<1> DEFINE all == Found(rows, v) \cup Catalogued(v)
           fails == {c \in all : rows[<<v, c, "FAIL">>] > 0}
<1>1. all \subseteq Controls
  BY ComplianceAssumption DEF Found, Catalogued
<1>2. IsFiniteSet(all)
  BY <1>1, ComplianceAssumption, FS_Subset
<1>3. /\ IsFiniteSet(all \ fails)
      /\ Cardinality(all \ fails) <= Cardinality(all)
  BY <1>2, FS_Subset
<1>4. Cardinality(all) \in Nat /\ Cardinality(all \ fails) \in Nat
  BY <1>2, <1>3, FS_CardinalityType
<1>5. Ratio(Cardinality(all \ fails), Cardinality(all)) \in Tenths
  BY <1>3, <1>4, RatioIsInTenths
<1>6. ScoreByControl(rows, v).score = Ratio(Cardinality(all \ fails), Cardinality(all))
  BY DEF ScoreByControl
<1> QED
  BY <1>5, <1>6

(* The statuses of documents have scores, and each version has one.        *)
LEMMA ScoresOfStatuses ==
  ASSUME NEW st \in StatusMaps
  PROVE  Scores(st) \in SUBSET Points /\ OnePerVersion(Scores(st))
<1> DEFINE scores == ControlScores(Rows(Docs(st)))
<1>1. Scores(st) = ScoresOf(Docs(st))
  <2>1. <<st, ScoresOf(Docs(st))>> \in ScoreTable
    BY DEF ScoreTable
  <2>2. ScoresOf(Docs(st)) \in AllScores
    BY <2>1 DEF AllScores
  <2>3. ASSUME NEW W, <<st, W>> \in ScoreTable PROVE W = ScoresOf(Docs(st))
    BY <2>3 DEF ScoreTable
  <2> QED
    BY <2>1, <2>2, <2>3 DEF Scores
<1>2. ScoresOf(Docs(st)) = {<<v, scores[v].score>> : v \in DOMAIN scores}
  BY DEF ScoresOf
<1>3. /\ DOMAIN scores \subseteq Versions
      /\ \A v \in DOMAIN scores : scores[v] = ScoreByControl(Rows(Docs(st)), v)
  BY DEF ControlScores
<1>4. \A v \in DOMAIN scores : scores[v].score \in Tenths
  BY <1>3, ControlScoreInTenths
<1> HIDE DEF scores
<1>5. Scores(st) \subseteq Points
  BY <1>1, <1>2, <1>3, <1>4 DEF Points
<1>6. OnePerVersion(Scores(st))
  BY <1>1, <1>2 DEF OnePerVersion
<1> QED
  BY <1>5, <1>6

LEMMA NowHasScores ==
  ASSUME FindingsOK
  PROVE  Scores(Now) \in SUBSET Points /\ OnePerVersion(Scores(Now))
<1>1. Now \in [DOMAIN findings -> Statuses]
  BY DEF FindingsOK, Now, StatusOf, Documents
<1>2. Now \in StatusMaps
  BY <1>1 DEF FindingsOK, StatusMaps
<1> QED
  BY <1>2, ScoresOfStatuses

(* What is recorded replaces the points of its versions.                   *)
LEMMA RecordedPoints ==
  ASSUME PointsOK, NEW W, W \subseteq Points, OnePerVersion(W)
  PROVE  Recorded(W) \subseteq Points /\ OnePerVersion(Recorded(W))
BY DEF PointsOK, Recorded, OnePerVersion

-----------------------------------------------------------------------------
(* The types are kept                                                      *)

LEMMA TypeInit == Init => TypeInv
<1> SUFFICES ASSUME Init PROVE TypeInv
  OBVIOUS
<1>1. FindingsOK
  BY DEF Init, FindingsOK
<1>2. ScanOK /\ TimesOK
  BY DEF Init, ScanOK, ScanShape, TimesOK
<1>3. PointsOK /\ ExportOK
  BY DEF Init, PointsOK, OnePerVersion, ExportOK
<1> QED
  BY <1>1, <1>2, <1>3 DEF TypeInv

LEMMA ExportFollows ==
  ASSUME ExportOK, NEW new, Changed(new)
  PROVE  ExportOK'
<1>1. CASE export = NoExport
  BY <1>1 DEF Changed, ExportOK
<1>2. CASE export # NoExport
  <2> DEFINE must == {k \in export.must : k \in DOMAIN new /\ new[k].status \in export.filter}
  <2>1. export' = [export EXCEPT !.must = must] /\ findings' = new
    BY <1>2 DEF Changed
  <2>2. export \in Exports
    BY <1>2 DEF ExportOK
  <2>3. must \in SUBSET Keys
    BY <2>2 DEF Exports
  <2>4. export' \in Exports /\ export'.must = must /\ export'.filter = export.filter
    BY <2>1, <2>2, <2>3 DEF Exports
  <2> QED
    BY <2>1, <2>4 DEF ExportOK
<1> QED
  BY <1>1, <1>2

(* A scan that is written, for one account or for all.                     *)
LEMMA ScanWritten ==
  ASSUME NEW f, ScanShape(f), NEW s \in Scanners, NEW x,
         x = Idle \/ /\ x \in Running(s)
                     /\ x.todo \subseteq DOMAIN x.report
                     /\ OnePerVersion(x.scores)
  PROVE  ScanShape([f EXCEPT ![s] = x])
BY DEF ScanShape

LEMMA ScansOutdated ==
  ASSUME ScanOK
  PROVE  /\ ScanShape(Outdated)
         /\ \A s \in Scanners :
              /\ scan[s] = Idle => Outdated[s] = Idle
              /\ scan[s] # Idle =>
                   /\ Outdated[s] = [scan[s] EXCEPT !.fresh = FALSE]
                   /\ Outdated[s] # Idle /\ ~Outdated[s].fresh
                   /\ Outdated[s].todo = scan[s].todo /\ Outdated[s].at = scan[s].at
<1> SUFFICES ASSUME NEW s \in Scanners, scan[s] # Idle
             PROVE  LET x == [scan[s] EXCEPT !.fresh = FALSE]
                    IN /\ x \in Running(s) /\ x # Idle /\ ~x.fresh
                       /\ x.todo = scan[s].todo /\ x.at = scan[s].at
                       /\ x.report = scan[s].report /\ x.scores = scan[s].scores
  BY DEF ScanOK, ScanShape, Outdated
<1>1. scan[s] \in Running(s)
  BY DEF ScanOK, ScanShape
<1> QED
  BY <1>1 DEF Running, Idle

LEMMA TypeStart == ASSUME TypeInv, NEW s \in Scanners, Start(s) PROVE TypeInv'
<1> USE DEF TypeInv
<1>1. PICK r \in Reports(s) :
        scan' = [scan EXCEPT ![s] =
                   [pc |-> "upsert", report |-> r, todo |-> DOMAIN r, at |-> clock + 1,
                    scores |-> {}, fresh |-> FALSE, today |-> FALSE]]
  BY DEF Start
<1>2. r \in ReportMaps(s) /\ DOMAIN r \in SUBSET Keys
  BY DEF Reports, ReportMaps, Own
<1>3. clock' = clock + 1 /\ clock \in Nat
  BY DEF Start, FindingsOK
<1>4. FindingsOK'
  BY <1>3 DEF Start, FindingsOK
<1>5. ScanOK'
  <2> DEFINE x == [pc |-> "upsert", report |-> r, todo |-> DOMAIN r, at |-> clock + 1,
                   scores |-> {}, fresh |-> FALSE, today |-> FALSE]
  <2>1. x \in Running(s) /\ x.todo \subseteq DOMAIN x.report /\ OnePerVersion(x.scores)
    BY <1>2, <1>3 DEF Running, OnePerVersion
  <2> HIDE DEF x
  <2>2. ScanShape([scan EXCEPT ![s] = x])
    BY <2>1, ScanWritten DEF ScanOK
  <2> QED
    BY <1>1, <2>2 DEF ScanOK, x
<1>6. PointsOK' /\ ExportOK'
  BY DEF Start, PointsOK, ExportOK
<1>7. TimesOK'
  BY <1>1, <1>3 DEF TimesOK, ScanOK, ScanShape
<1> QED
  BY <1>4, <1>5, <1>6, <1>7

LEMMA TypeUpsert ==
  ASSUME TypeInv, NEW s \in Scanners, NEW k \in Own(s), Upsert(s, k)
  PROVE  TypeInv'
<1> USE DEF TypeInv
<1>1. scan[s] # Idle /\ scan[s] \in Running(s) /\ k \in DOMAIN scan[s].report /\ k \in Keys
  BY DEF Upsert, Idle, ScanOK, ScanShape, Own
<1>2. Upserted(s, k) \in Documents /\ Upserted(s, k).at \in 1..clock
  <2>1. scan[s].report[k] \in Statuses
    BY <1>1 DEF Running, ReportMaps, Statuses
  <2> QED
    BY <1>1, <2>1 DEF Upserted, Documents, FindingsOK, TimesOK
<1> DEFINE new == [l \in DOMAIN findings \cup {k} |->
                     IF l = k THEN Upserted(s, k) ELSE findings[l]]
<1>3. Changed(new) /\ findings' = new /\ current' = FALSE
  BY DEF Upsert, Changed
<1>4. FindingsOK'
  <2>1. live' = live /\ clock' = clock
    BY DEF Upsert
  <2> QED
    BY <1>1, <1>2, <1>3, <2>1 DEF FindingsOK
<1>5. scan' = [Outdated EXCEPT ![s] = [Outdated[s] EXCEPT !.todo = @ \ {k}]]
  <2>1. Outdated = [i \in Scanners |-> Outdated[i]]
    BY DEF Outdated
  <2> QED
    BY <2>1 DEF Upsert
<1> DEFINE x == [Outdated[s] EXCEPT !.todo = @ \ {k}]
<1>6. /\ x \in Running(s) /\ x # Idle /\ x.at = scan[s].at
      /\ x.todo \subseteq DOMAIN x.report /\ OnePerVersion(x.scores)
  <2>1. /\ Outdated[s] \in Running(s) /\ Outdated[s].at = scan[s].at
        /\ Outdated[s].todo \subseteq DOMAIN Outdated[s].report
        /\ OnePerVersion(Outdated[s].scores)
    BY <1>1, ScansOutdated DEF ScanShape
  <2> HIDE DEF Outdated
  <2>2. x \in Running(s) /\ x.at = scan[s].at
    BY <2>1 DEF Running
  <2>3. x.report = Outdated[s].report /\ x.scores = Outdated[s].scores
        /\ x.todo \subseteq Outdated[s].todo /\ x # Idle
    BY <2>1 DEF Running, Idle
  <2> QED
    BY <2>1, <2>2, <2>3
<1> HIDE DEF x
<1>7. ScanOK'
  BY <1>5, <1>6, ScanWritten, ScansOutdated DEF ScanOK, x
<1>8. TimesOK'
  <2> SUFFICES ASSUME NEW i \in Scanners, scan'[i] # Idle PROVE scan'[i].at \in 1..clock'
    BY DEF TimesOK
  <2>1. scan'[i] = IF i = s THEN x ELSE Outdated[i]
    BY <1>5, ScansOutdated DEF x, ScanShape
  <2> QED
    BY <1>1, <1>6, <2>1, ScansOutdated DEF Upsert, TimesOK
<1>9. PointsOK' /\ ExportOK'
  BY <1>3, ExportFollows DEF Upsert, PointsOK
<1> QED
  BY <1>4, <1>7, <1>8, <1>9

(* A step of one scan that changes neither findings nor the clock.         *)
LEMMA ScanSteps ==
  ASSUME TypeInv, NEW s \in Scanners, NEW x,
         x = Idle \/ /\ scan[s] # Idle /\ x \in Running(s) /\ x.at = scan[s].at
                     /\ x.todo \subseteq DOMAIN x.report
                     /\ OnePerVersion(x.scores),
         scan' = [scan EXCEPT ![s] = x], clock' = clock
  PROVE  ScanOK' /\ TimesOK'
<1>1. ScanOK'
  BY ScanWritten DEF TypeInv, ScanOK
<1>2. TimesOK'
  <2> SUFFICES ASSUME NEW i \in Scanners, scan'[i] # Idle PROVE scan'[i].at \in 1..clock'
    BY DEF TimesOK
  <2>1. scan'[i] = IF i = s THEN x ELSE scan[i]
    BY DEF TypeInv, ScanOK, ScanShape
  <2> QED
    BY <2>1 DEF TypeInv, TimesOK
<1> QED
  BY <1>1, <1>2

LEMMA TypeReadScores ==
  ASSUME TypeInv, NEW s \in Scanners, ReadScores(s)
  PROVE  TypeInv'
<1> DEFINE x == [scan[s] EXCEPT !.pc = "record", !.fresh = TRUE, !.today = TRUE,
                                !.scores = Scores(Now)]
<1>1. scan[s] # Idle /\ scan[s] \in Running(s) /\ scan[s].todo \subseteq DOMAIN scan[s].report
  BY DEF TypeInv, ReadScores, Idle, ScanOK, ScanShape
<1>2. Scores(Now) \in SUBSET Points /\ OnePerVersion(Scores(Now))
  BY NowHasScores DEF TypeInv
<1>3. /\ x \in Running(s) /\ x.at = scan[s].at
      /\ x.todo = scan[s].todo /\ x.report = scan[s].report /\ x.scores = Scores(Now)
  BY <1>1, <1>2 DEF Running
<1>4. scan' = [scan EXCEPT ![s] = x]
  BY DEF ReadScores
<1> HIDE DEF x
<1>5. ScanOK' /\ TimesOK'
  <2>1. x.todo \subseteq DOMAIN x.report /\ OnePerVersion(x.scores)
    BY <1>1, <1>2, <1>3
  <2>2. clock' = clock
    BY DEF ReadScores
  <2> QED
    BY <1>1, <1>3, <1>4, <2>1, <2>2, ScanSteps
<1>6. FindingsOK' /\ PointsOK' /\ ExportOK'
  BY DEF TypeInv, ReadScores, FindingsOK, PointsOK, ExportOK
<1> QED
  BY <1>5, <1>6 DEF TypeInv

LEMMA TypeRecord ==
  ASSUME TypeInv, NEW s \in Scanners, Record(s)
  PROVE  TypeInv'
<1> DEFINE x == [scan[s] EXCEPT !.pc = "inventory"]
<1>1. /\ scan[s] # Idle /\ scan[s] \in Running(s)
      /\ scan[s].todo \subseteq DOMAIN scan[s].report /\ OnePerVersion(scan[s].scores)
  BY DEF TypeInv, Record, Idle, ScanOK, ScanShape
<1>2. /\ x \in Running(s) /\ x.at = scan[s].at /\ x.todo = scan[s].todo
      /\ x.report = scan[s].report /\ x.scores = scan[s].scores
  BY <1>1 DEF Running
<1>3. scan' = [scan EXCEPT ![s] = x]
  BY DEF Record
<1> HIDE DEF x
<1>4. ScanOK' /\ TimesOK'
  <2>1. x.todo \subseteq DOMAIN x.report /\ OnePerVersion(x.scores)
    BY <1>1, <1>2
  <2>2. clock' = clock
    BY DEF Record
  <2> QED
    BY <1>1, <1>2, <1>3, <2>1, <2>2, ScanSteps
<1>5. PointsOK'
  <2>1. PICK W \in SUBSET scan[s].scores :
          /\ points' = IF scan[s].today THEN Recorded(W) ELSE points
          /\ current' = IF scan[s].today /\ W # {}
                        THEN scan[s].fresh /\ (current \/ W = scan[s].scores)
                        ELSE current
    BY DEF Record
  <2>2. scan[s].scores \subseteq Points /\ scan[s].fresh \in BOOLEAN
    BY <1>1 DEF Running
  <2>3. W \subseteq Points /\ OnePerVersion(W)
    BY <1>1, <2>2 DEF OnePerVersion
  <2>4. points' \subseteq Points /\ OnePerVersion(points')
    BY <2>1, <2>3, RecordedPoints DEF TypeInv, PointsOK
  <2>5. current' \in BOOLEAN
    BY <2>1, <2>2, Zenon DEF TypeInv, PointsOK
  <2> QED
    BY <2>4, <2>5 DEF PointsOK
<1>6. FindingsOK' /\ ExportOK'
  BY DEF TypeInv, Record, FindingsOK, ExportOK
<1> QED
  BY <1>4, <1>5, <1>6 DEF TypeInv

LEMMA TypeInventory ==
  ASSUME TypeInv, NEW s \in Scanners, Inventory(s)
  PROVE  TypeInv'
<1> DEFINE seen == {k[2] : k \in DOMAIN scan[s].report}
           gone == {a \in live \ seen : AccountOf[a] = s}
           kept == {k \in DOMAIN findings : k[2] \notin gone}
           new == [k \in kept |-> findings[k]]
<1>1. scan[s] # Idle /\ scan[s] \in Running(s)
  BY DEF TypeInv, Inventory, Idle, ScanOK, ScanShape
<1>2. live' = (live \ gone) \cup seen /\ clock' = clock /\ points' = points
  BY DEF Inventory
<1>3. live' \subseteq Assets
  <2>1. DOMAIN scan[s].report \subseteq Keys
    BY <1>1 DEF Running, ReportMaps, Own
  <2> QED
    BY <1>2, <2>1 DEF TypeInv, FindingsOK, Assets
<1>4. CASE kept = DOMAIN findings
  <2>1. scan' = [scan EXCEPT ![s] = Idle] /\ UNCHANGED <<findings, export, current>>
    BY <1>4 DEF Inventory
  <2>2. ScanOK' /\ TimesOK'
    BY <1>2, <2>1, ScanSteps
  <2>3. FindingsOK' /\ PointsOK' /\ ExportOK'
    BY <1>2, <1>3, <2>1 DEF TypeInv, FindingsOK, PointsOK, ExportOK
  <2> QED
    BY <2>2, <2>3 DEF TypeInv
<1>5. CASE kept # DOMAIN findings
  <2>1. Changed(new) /\ scan' = [Outdated EXCEPT ![s] = Idle]
    BY <1>5 DEF Inventory
  <2>2. findings' = new /\ current' = FALSE
    BY <2>1 DEF Changed
  <2>3. FindingsOK'
    BY <1>2, <1>3, <2>2 DEF TypeInv, FindingsOK
  <2>4. ScanOK'
    BY <2>1, ScanWritten, ScansOutdated DEF TypeInv, ScanOK
  <2>5. TimesOK'
    <3> SUFFICES ASSUME NEW i \in Scanners, scan'[i] # Idle PROVE scan'[i].at \in 1..clock'
      BY DEF TimesOK
    <3>1. scan'[i] = IF i = s THEN Idle ELSE Outdated[i]
      BY <2>1, ScansOutdated DEF TypeInv, ScanShape
    <3>2. i # s /\ Outdated[i] # Idle
      BY <3>1, Zenon
    <3>3. scan[i] # Idle /\ Outdated[i].at = scan[i].at
      BY <3>2, ScansOutdated DEF TypeInv
    <3>4. scan[i].at \in 1..clock
      BY <3>3 DEF TypeInv, TimesOK
    <3>5. scan'[i].at = scan[i].at /\ clock' = clock
      BY <1>2, <3>1, <3>2, <3>3, Zenon
    <3> QED
      BY <3>4, <3>5
  <2>6. PointsOK' /\ ExportOK'
    BY <1>2, <2>1, <2>2, ExportFollows DEF TypeInv, PointsOK
  <2> QED
    BY <2>3, <2>4, <2>5, <2>6 DEF TypeInv
<1> QED
  BY <1>4, <1>5

LEMMA TypeAbort == ASSUME TypeInv, NEW s \in Scanners, Abort(s) PROVE TypeInv'
<1>1. ScanOK' /\ TimesOK'
  BY ScanSteps DEF Abort
<1>2. FindingsOK' /\ PointsOK' /\ ExportOK'
  BY DEF TypeInv, Abort, FindingsOK, PointsOK, ExportOK
<1> QED
  BY <1>1, <1>2 DEF TypeInv

LEMMA TypeTriage ==
  ASSUME TypeInv, NEW k \in Keys, NEW status \in Statuses, Triage(k, status)
  PROVE  TypeInv'
<1> DEFINE new == [findings EXCEPT ![k].status = status]
<1>1. /\ Changed(new) /\ findings' = new /\ current' = FALSE /\ scan' = Outdated
      /\ k \in DOMAIN findings /\ clock' = clock /\ live' = live /\ points' = points
  BY DEF Triage, Changed
<1>2. FindingsOK'
  <2>1. [findings[k] EXCEPT !.status = status] \in Documents
    BY <1>1 DEF TypeInv, FindingsOK, Documents
  <2>2. /\ new \in [DOMAIN findings -> Documents]
        /\ \A l \in DOMAIN findings : new[l].at = findings[l].at
    BY <1>1, <2>1 DEF TypeInv, FindingsOK, Documents
  <2> QED
    BY <1>1, <2>2 DEF TypeInv, FindingsOK
<1>3. ScanOK' /\ TimesOK'
  BY <1>1, ScansOutdated DEF TypeInv, ScanOK, TimesOK
<1>4. PointsOK' /\ ExportOK'
  BY <1>1, ExportFollows DEF TypeInv, PointsOK
<1> QED
  BY <1>2, <1>3, <1>4 DEF TypeInv

LEMMA RowsMatch ==
  ASSUME FindingsOK, NEW filter, NEW cursor
  PROVE  /\ Matching(filter, cursor) \in SUBSET DOMAIN findings
         /\ Matching(filter, cursor) \in SUBSET Keys
         /\ FirstOf(Matching(filter, cursor)) \subseteq Matching(filter, cursor)
BY DEF Matching, FirstOf, FindingsOK

LEMMA TypeStartExport ==
  ASSUME TypeInv, NEW filter \in Filters, StartExport(filter)
  PROVE  TypeInv'
<1>1. export' = [pc |-> "page", filter |-> filter, cursor |-> None,
                 must |-> Matching(filter, None), rows |-> <<>>]
  BY DEF StartExport
<1>2. <<>> \in RowMaps
  <2>1. <<>> \in [{} -> Nat]
    OBVIOUS
  <2> QED
    BY <2>1 DEF RowMaps
<1>3. filter \in SUBSET Statuses /\ Matching(filter, None) \in SUBSET Keys
  BY FindingsAssumption, RowsMatch DEF TypeInv
<1>4. export' \in Exports
  BY <1>1, <1>2, <1>3 DEF Exports
<1>5. ExportOK'
  BY <1>1, <1>4 DEF ExportOK, Matching, StartExport
<1>6. FindingsOK' /\ ScanOK' /\ TimesOK' /\ PointsOK'
  BY DEF TypeInv, StartExport, FindingsOK, ScanOK, TimesOK, PointsOK
<1> QED
  BY <1>5, <1>6 DEF TypeInv

(* What a page does to the export, by its rows.                            *)
Listed(rows, page) ==
  [k \in DOMAIN rows \cup page |->
     (IF k \in DOMAIN rows THEN rows[k] ELSE 0) + (IF k \in page THEN 1 ELSE 0)]

LEMMA PageWritten ==
  ASSUME TypeInv, ExportPage
  PROVE  LET rows == Matching(export.filter, export.cursor)
         IN /\ export # NoExport /\ export \in Exports
            /\ export' \in Exports
            /\ export'.must = export.must /\ export'.filter = export.filter
            /\ export'.rows = Listed(export.rows, FirstOf(rows))
            /\ Cardinality(rows) > PageSize =>
                 export'.pc = "page" /\ export'.cursor = CursorAt(LastOf(FirstOf(rows)))
            /\ ~(Cardinality(rows) > PageSize) => export'.pc = "done"
<1> DEFINE rows == Matching(export.filter, export.cursor)
           page == FirstOf(rows)
           more == Cardinality(rows) > PageSize
<1>1. export # NoExport /\ export \in Exports
  BY DEF ExportPage, NoExport, TypeInv, ExportOK
<1>2. rows \in SUBSET DOMAIN findings /\ page \subseteq rows /\ page \subseteq Keys
  BY RowsMatch DEF TypeInv, FindingsOK
<1>3. more => CursorAt(LastOf(page)) \in Cursors
  <2> SUFFICES ASSUME more PROVE CursorAt(LastOf(page)) \in Cursors
    OBVIOUS
  <2>1. LastOf(page) \in DOMAIN findings
    BY <1>2, LastOfPage DEF TypeInv
  <2> HIDE DEF page
  <2>2. findings[LastOf(page)].at \in Nat /\ LastOf(page) \in Keys
    BY <2>1 DEF TypeInv, FindingsOK, Documents
  <2>3. Rank[LastOf(page)] \in Nat
    BY <2>2, FindingsAssumption
  <2> QED
    BY <2>2, <2>3 DEF CursorAt, Cursors
<1>4. Listed(export.rows, page) \in RowMaps
  <2>1. PICK K \in SUBSET Keys : export.rows \in [K -> Nat]
    BY <1>1 DEF Exports, RowMaps
  <2>2. Listed(export.rows, page) \in [K \cup page -> Nat]
    BY <2>1 DEF Listed
  <2> QED
    BY <1>2, <2>2 DEF RowMaps
<1>5. export' = [export EXCEPT
          !.rows = Listed(export.rows, page),
          !.cursor = IF more THEN CursorAt(LastOf(page)) ELSE @,
          !.pc = IF more THEN "page" ELSE "done"]
  BY DEF ExportPage, Listed
<1> HIDE DEF rows, page, more
<1>6. /\ export' \in Exports
      /\ export'.must = export.must /\ export'.filter = export.filter
      /\ export'.rows = Listed(export.rows, page)
      /\ more => export'.pc = "page" /\ export'.cursor = CursorAt(LastOf(page))
      /\ ~more => export'.pc = "done"
  BY <1>1, <1>3, <1>4, <1>5 DEF Exports
<1> QED
  BY <1>1, <1>6 DEF rows, page, more

LEMMA TypeExportPage == ASSUME TypeInv, ExportPage PROVE TypeInv'
<1>1. ExportOK'
  BY PageWritten DEF TypeInv, ExportOK, ExportPage
<1>2. FindingsOK' /\ ScanOK' /\ TimesOK' /\ PointsOK'
  BY DEF TypeInv, ExportPage, FindingsOK, ScanOK, TimesOK, PointsOK
<1> QED
  BY <1>1, <1>2 DEF TypeInv

LEMMA TypeNextDay == ASSUME TypeInv, NextDay PROVE TypeInv'
<1>1. ASSUME NEW s \in Scanners, scan[s] # Idle
      PROVE  LET x == [scan[s] EXCEPT !.today = FALSE]
             IN /\ x \in Running(s) /\ x.at = scan[s].at /\ x.todo = scan[s].todo
                /\ x.report = scan[s].report /\ x.scores = scan[s].scores
  <2>1. scan[s] \in Running(s)
    BY <1>1 DEF TypeInv, ScanOK, ScanShape
  <2> QED
    BY <2>1 DEF Running
<1>2. scan' = [s \in Scanners |-> IF scan[s] = Idle THEN Idle ELSE [scan[s] EXCEPT !.today = FALSE]]
  BY DEF NextDay
<1>3. ScanOK'
  BY <1>1, <1>2 DEF TypeInv, ScanOK, ScanShape
<1>4. TimesOK'
  BY <1>1, <1>2 DEF TypeInv, TimesOK, NextDay
<1>5. FindingsOK' /\ PointsOK' /\ ExportOK'
  BY DEF TypeInv, NextDay, FindingsOK, PointsOK, OnePerVersion, ExportOK
<1> QED
  BY <1>3, <1>4, <1>5 DEF TypeInv

LEMMA TypeStep == TypeInv /\ [Next]_vars => TypeInv'
<1> SUFFICES ASSUME TypeInv, [Next]_vars PROVE TypeInv'
  OBVIOUS
<1>1. CASE \E s \in Scanners : Start(s) \/ ReadScores(s) \/ Record(s) \/ Inventory(s) \/ Abort(s)
  BY <1>1, TypeStart, TypeReadScores, TypeRecord, TypeInventory, TypeAbort
<1>2. CASE \E s \in Scanners : \E k \in Own(s) : Upsert(s, k)
  BY <1>2, TypeUpsert
<1>3. CASE \E k \in Keys, status \in Statuses : Triage(k, status)
  BY <1>3, TypeTriage
<1>4. CASE \E filter \in Filters : StartExport(filter)
  BY <1>4, TypeStartExport
<1>5. CASE ExportPage
  BY <1>5, TypeExportPage
<1>6. CASE NextDay
  BY <1>6, TypeNextDay
<1>7. CASE UNCHANGED vars
  BY <1>7 DEF vars, TypeInv, FindingsOK, ScanOK, TimesOK, PointsOK, ExportOK
<1> QED
  BY <1>1, <1>2, <1>3, <1>4, <1>5, <1>6, <1>7, Zenon DEF Next

LEMMA TypeInvImplies == TypeInv => TypeOK
<1> SUFFICES ASSUME TypeInv PROVE TypeOK
  OBVIOUS
<1>1. /\ DOMAIN findings \subseteq Keys /\ live \subseteq Assets
      /\ \A k \in DOMAIN findings : findings[k].status \in Statuses /\ findings[k].at \in 1..clock
  BY DEF TypeInv, FindingsOK, Documents
<1>2. ASSUME NEW s \in Scanners, scan[s] # Idle
      PROVE  /\ scan[s].pc \in {"upsert", "record", "inventory"}
             /\ scan[s].todo \subseteq DOMAIN scan[s].report
             /\ DOMAIN scan[s].report \subseteq Own(s)
  BY <1>2 DEF TypeInv, ScanOK, ScanShape, Running, ReportMaps
<1>3. points \subseteq Versions \X Tenths /\ \A p, q \in points : p[1] = q[1] => p = q
  BY DEF TypeInv, PointsOK, Points, OnePerVersion
<1>4. ASSUME export # NoExport
      PROVE  /\ export.pc \in {"page", "done"}
             /\ export.must \subseteq DOMAIN findings
             /\ DOMAIN export.rows \subseteq Keys
  BY <1>4 DEF TypeInv, ExportOK, Exports, RowMaps
<1> QED
  BY <1>1, <1>2, <1>3, <1>4 DEF TypeOK

(* Type correctness: with it, that a version has one point a day, and that *)
(* an export owes only findings that are there.                            *)
THEOREM TypeCorrect == Spec => []TypeOK
BY TypeInit, TypeStep, TypeInvImplies, PTL DEF Spec

-----------------------------------------------------------------------------
(* The export                                                              *)

(* What a page has passed it has listed, or it was not there before; and   *)
(* what comes back under a key that was listed is newer than the cursor.   *)
Behind(k) ==
  /\ export.cursor # None
  /\ k \in DOMAIN findings => ~Past(export.cursor, k)
  /\ \A s \in Scanners : scan[s] # Idle /\ k \in scan[s].todo \ DOMAIN findings =>
                            scan[s].at > export.cursor.at

ExportInv ==
  export # NoExport =>
    /\ \A k \in DOMAIN export.rows : export.rows[k] = 1
    /\ export.pc = "page" =>
         /\ export.cursor # None => export.cursor.at <= clock
         /\ \A k \in export.must \ DOMAIN export.rows : Past(export.cursor, k)
         /\ \A k \in DOMAIN export.rows : Behind(k)
    /\ export.pc = "done" => export.must \subseteq DOMAIN export.rows

LEMMA ExportInit == Init => ExportInv
BY DEF Init, ExportInv

(* A step that goes on with the same pages: what is owed keeps its place,  *)
(* and nothing comes to lie past the cursor that was listed.               *)
LEMMA ExportGoesOn ==
  ASSUME TypeInv, ExportInv, export = NoExport => export' = NoExport,
         clock' \in Nat, clock' >= clock,
         export # NoExport =>
           /\ export'.pc = export.pc /\ export'.cursor = export.cursor
           /\ export'.rows = export.rows
           /\ export'.must \subseteq export.must
           /\ \A k \in export'.must : findings'[k].at = findings[k].at
           /\ export.pc = "page" => \A k \in DOMAIN export.rows : Behind(k) => Behind(k)'
  PROVE  ExportInv'
<1> SUFFICES ASSUME export' # NoExport
             PROVE  /\ \A k \in DOMAIN export'.rows : export'.rows[k] = 1
                    /\ export'.pc = "page" =>
                         /\ export'.cursor # None => export'.cursor.at <= clock'
                         /\ \A k \in export'.must \ DOMAIN export'.rows : Past(export.cursor, k)'
                         /\ \A k \in DOMAIN export'.rows : Behind(k)'
                    /\ export'.pc = "done" => export'.must \subseteq DOMAIN export'.rows
  BY DEF ExportInv
<1>1. export # NoExport
  OBVIOUS
<1>2. \A k \in DOMAIN export'.rows : export'.rows[k] = 1
  BY <1>1 DEF ExportInv
<1>3. export'.pc = "done" => export'.must \subseteq DOMAIN export'.rows
  BY <1>1 DEF ExportInv
<1>4. ASSUME export'.pc = "page"
      PROVE  /\ export'.cursor # None => export'.cursor.at <= clock'
             /\ \A k \in export'.must \ DOMAIN export'.rows : Past(export.cursor, k)'
             /\ \A k \in DOMAIN export'.rows : Behind(k)'
  <2>1. export.pc = "page"
    BY <1>1, <1>4
  <2>2. export.cursor # None => export.cursor.at \in Nat
    BY <1>1 DEF TypeInv, ExportOK, Exports, Cursors
  <2>3. export'.cursor # None => export'.cursor.at <= clock'
    BY <1>1, <2>1, <2>2 DEF ExportInv, TypeInv, FindingsOK
  <2>4. ASSUME NEW k \in export'.must \ DOMAIN export'.rows PROVE Past(export.cursor, k)'
    <3>1. Past(export.cursor, k)
      BY <1>1, <2>1 DEF ExportInv
    <3> QED
      BY <1>1, <3>1 DEF Past
  <2>5. \A k \in DOMAIN export'.rows : Behind(k)'
    BY <1>1, <2>1 DEF ExportInv
  <2> QED
    BY <2>3, <2>4, <2>5
<1> QED
  BY <1>2, <1>3, <1>4

(* The fields that Changed leaves alone.                                   *)
LEMMA PagesStay ==
  ASSUME TypeInv, NEW new, Changed(new)
  PROVE  /\ export = NoExport => export' = NoExport
         /\ export # NoExport =>
              /\ export'.pc = export.pc /\ export'.cursor = export.cursor
              /\ export'.rows = export.rows
              /\ export'.must \subseteq export.must \cap DOMAIN new
<1>1. CASE export = NoExport
  BY <1>1 DEF Changed
<1>2. CASE export # NoExport
  <2> DEFINE must == {k \in export.must : k \in DOMAIN new /\ new[k].status \in export.filter}
  <2>1. export' = [export EXCEPT !.must = must]
    BY <1>2 DEF Changed
  <2>2. export \in Exports
    BY <1>2 DEF TypeInv, ExportOK
  <2>3. must \subseteq export.must \cap DOMAIN new
    OBVIOUS
  <2> HIDE DEF must
  <2> QED
    BY <1>2, <2>1, <2>2, <2>3 DEF Exports
<1> QED
  BY <1>1, <1>2

LEMMA ExportStart ==
  ASSUME TypeInv, ExportInv, NEW s \in Scanners, Start(s)
  PROVE  ExportInv'
<1>1. clock \in Nat /\ clock' = clock + 1 /\ UNCHANGED <<export, findings>>
  BY DEF TypeInv, FindingsOK, Start
<1>2. \A i \in Scanners : i # s => scan'[i] = scan[i]
  BY DEF Start, TypeInv, ScanOK, ScanShape
<1>3. scan'[s].at = clock + 1
  BY DEF Start, TypeInv, ScanOK, ScanShape
<1>4. ASSUME export # NoExport, export.pc = "page", NEW k \in DOMAIN export.rows, Behind(k)
      PROVE  Behind(k)'
  <2>1. export.cursor # None /\ export.cursor.at <= clock
    BY <1>4 DEF ExportInv, Behind
  <2>2. export.cursor.at \in Nat
    BY <1>4, <2>1 DEF TypeInv, ExportOK, Exports, Cursors
  <2>3. k \in DOMAIN findings' => ~Past(export.cursor, k)'
    BY <1>1, <1>4 DEF Behind, Past
  <2>4. ASSUME NEW i \in Scanners, scan'[i] # Idle, k \in scan'[i].todo \ DOMAIN findings'
        PROVE  scan'[i].at > export'.cursor.at
    <3>1. CASE i = s
      BY <1>1, <1>3, <2>1, <2>2, <3>1
    <3>2. CASE i # s
      BY <1>1, <1>2, <1>4, <2>4, <3>2 DEF Behind
    <3> QED
      BY <3>1, <3>2
  <2> QED
    BY <1>1, <2>1, <2>3, <2>4 DEF Behind
<1> QED
  BY <1>1, <1>4, ExportGoesOn

(* Scans that go on without a write: their lists do not grow, their time   *)
(* is the same.                                                            *)
ScansGoOn ==
  \A s \in Scanners : scan'[s] # Idle =>
    /\ scan[s] # Idle /\ scan'[s].at = scan[s].at
    /\ scan'[s].todo \subseteq scan[s].todo

LEMMA ExportUntouched ==
  ASSUME TypeInv, ExportInv, ScansGoOn, UNCHANGED <<export, findings, clock>>
  PROVE  ExportInv'
<1>1. ASSUME NEW k, Behind(k) PROVE Behind(k)'
  BY <1>1 DEF Behind, Past, ScansGoOn
<1> QED
  BY <1>1, ExportGoesOn DEF TypeInv, FindingsOK

LEMMA ExportUpsert ==
  ASSUME TypeInv, ExportInv, NEW s \in Scanners, NEW k \in Own(s), Upsert(s, k)
  PROVE  ExportInv'
<1> DEFINE new == [l \in DOMAIN findings \cup {k} |->
                     IF l = k THEN Upserted(s, k) ELSE findings[l]]
<1>1. Changed(new) /\ findings' = new /\ clock' = clock
  BY DEF Upsert, Changed
<1>2. scan[s] # Idle /\ k \in scan[s].todo
  BY DEF Upsert, Idle
<1>3. \A l \in DOMAIN findings : findings'[l].at = findings[l].at
  BY <1>1 DEF Upserted
<1>4. k \notin DOMAIN findings => findings'[k].at = scan[s].at
  BY <1>1 DEF Upserted
<1>5. ScansGoOn
  <2>1. Outdated = [i \in Scanners |-> Outdated[i]]
    BY DEF Outdated
  <2>2. scan' = [Outdated EXCEPT ![s] = [Outdated[s] EXCEPT !.todo = @ \ {k}]]
    BY <2>1 DEF Upsert
  <2>3. Outdated[s] \in Running(s)
    BY <1>2, ScansOutdated DEF TypeInv, ScanShape
  <2> HIDE DEF Outdated
  <2>4. [Outdated[s] EXCEPT !.todo = @ \ {k}].at = Outdated[s].at
        /\ [Outdated[s] EXCEPT !.todo = @ \ {k}].todo \subseteq Outdated[s].todo
    BY <2>3 DEF Running
  <2>5. ASSUME NEW i \in Scanners, i # s, scan'[i] # Idle
        PROVE  /\ scan[i] # Idle /\ scan'[i].at = scan[i].at
               /\ scan'[i].todo \subseteq scan[i].todo
    <3>1. scan'[i] = Outdated[i]
      BY <2>1, <2>2, <2>5
    <3> QED
      BY <2>5, <3>1, ScansOutdated DEF TypeInv
  <2>6. scan'[s].at = scan[s].at /\ scan'[s].todo \subseteq scan[s].todo
    <3>1. scan'[s] = [Outdated[s] EXCEPT !.todo = @ \ {k}]
      BY <2>1, <2>2
    <3>2. Outdated[s].at = scan[s].at /\ Outdated[s].todo = scan[s].todo
      BY <1>2, ScansOutdated DEF TypeInv
    <3> QED
      BY <2>4, <3>1, <3>2
  <2> QED
    BY <1>2, <2>5, <2>6 DEF ScansGoOn
<1>6. DOMAIN findings' = DOMAIN findings \cup {k}
  BY <1>1
<1> HIDE DEF new
<1>7. ASSUME export # NoExport, NEW j, Behind(j) PROVE Behind(j)'
  <2>1. export'.cursor = export.cursor /\ export.cursor # None /\ export.cursor.at \in Nat
    BY <1>1, <1>7, PagesStay DEF Behind, TypeInv, ExportOK, Exports, Cursors
  <2>2. ASSUME j \in DOMAIN findings' PROVE ~Past(export.cursor, j)'
    <3>1. CASE j \in DOMAIN findings
      BY <1>3, <1>7, <2>1, <3>1 DEF Behind, Past
    <3>2. CASE j \notin DOMAIN findings
      <4>1. j = k /\ findings'[j].at = scan[s].at
        BY <1>4, <1>6, <2>2, <3>2
      <4>2. scan[s].at > export.cursor.at /\ scan[s].at \in Nat
        BY <1>2, <1>7, <3>2, <4>1 DEF Behind, TypeInv, ScanOK, ScanShape, Running
      <4> QED
        BY <2>1, <4>1, <4>2 DEF Past
    <3> QED
      BY <3>1, <3>2
  <2>3. \A i \in Scanners : scan'[i] # Idle /\ j \in scan'[i].todo \ DOMAIN findings' =>
                              scan'[i].at > export'.cursor.at
    BY <1>5, <1>6, <1>7, <2>1 DEF Behind, ScansGoOn
  <2> QED
    BY <2>1, <2>2, <2>3 DEF Behind
<1> QED
  BY <1>1, <1>3, <1>7, PagesStay, ExportGoesOn DEF TypeInv, FindingsOK, ExportOK

LEMMA ExportInventory ==
  ASSUME TypeInv, ExportInv, NEW s \in Scanners, Inventory(s)
  PROVE  ExportInv'
<1> DEFINE seen == {k[2] : k \in DOMAIN scan[s].report}
           gone == {a \in live \ seen : AccountOf[a] = s}
           kept == {k \in DOMAIN findings : k[2] \notin gone}
           new == [k \in kept |-> findings[k]]
<1>1. CASE kept = DOMAIN findings
  <2>1. scan' = [scan EXCEPT ![s] = Idle] /\ UNCHANGED <<findings, export, clock>>
    BY <1>1 DEF Inventory
  <2>2. ScansGoOn
    BY <2>1 DEF ScansGoOn, TypeInv, ScanOK, ScanShape
  <2> QED
    BY <2>1, <2>2, ExportUntouched
<1>2. CASE kept # DOMAIN findings
  <2>1. Changed(new) /\ findings' = new /\ clock' = clock /\ scan' = [Outdated EXCEPT ![s] = Idle]
    BY <1>2 DEF Inventory, Changed
  <2>2. /\ DOMAIN findings' \subseteq DOMAIN findings
        /\ \A k \in DOMAIN findings' : findings'[k] = findings[k]
        /\ \A k \in DOMAIN findings \ DOMAIN findings' : AccountOf[k[2]] = s
    BY <2>1
  <2> HIDE DEF new, kept, gone
  <2>3. ASSUME NEW i \in Scanners, scan'[i] # Idle
        PROVE  i # s /\ scan[i] # Idle /\ scan'[i].at = scan[i].at /\ scan'[i].todo = scan[i].todo
    <3>1. scan'[i] = IF i = s THEN Idle ELSE Outdated[i]
      BY <2>1, ScansOutdated DEF TypeInv, ScanShape
    <3>2. i # s /\ scan'[i] = Outdated[i] /\ Outdated[i] # Idle
      BY <2>3, <3>1, Zenon
    <3> QED
      BY <3>2, ScansOutdated DEF TypeInv
  <2>4. ASSUME export # NoExport, NEW j, Behind(j) PROVE Behind(j)'
    <3>1. export'.cursor = export.cursor
      BY <2>1, <2>4, PagesStay
    <3>2. j \in DOMAIN findings' => ~Past(export.cursor, j)'
      BY <2>2, <2>4, <3>1 DEF Behind, Past
    <3>3. ASSUME NEW i \in Scanners, scan'[i] # Idle, j \in scan'[i].todo \ DOMAIN findings'
          PROVE  scan'[i].at > export'.cursor.at
      <4>1. i # s /\ scan[i] # Idle /\ scan'[i].at = scan[i].at /\ j \in scan[i].todo
        BY <2>3, <3>3
      <4>2. j \in Own(i)
        BY <4>1 DEF TypeInv, ScanOK, ScanShape, Running, ReportMaps
      <4>3. j \notin DOMAIN findings
        BY <2>2, <3>3, <4>1, <4>2 DEF Own
      <4> QED
        BY <2>4, <3>1, <4>1, <4>3 DEF Behind
    <3> QED
      BY <2>4, <3>1, <3>2, <3>3 DEF Behind
  <2>5. export # NoExport => \A k \in export'.must : findings'[k].at = findings[k].at
    BY <2>1, <2>2, PagesStay
  <2> QED
    BY <2>1, <2>4, <2>5, PagesStay, ExportGoesOn DEF TypeInv, FindingsOK
<1> QED
  BY <1>1, <1>2

LEMMA ExportTriage ==
  ASSUME TypeInv, ExportInv, NEW k \in Keys, NEW status \in Statuses, Triage(k, status)
  PROVE  ExportInv'
<1> DEFINE new == [findings EXCEPT ![k].status = status]
<1>1. Changed(new) /\ findings' = new /\ clock' = clock /\ scan' = Outdated /\ k \in DOMAIN findings
  BY DEF Triage, Changed
<1>2. /\ DOMAIN findings' = DOMAIN findings
      /\ \A l \in DOMAIN findings : findings'[l].at = findings[l].at
  BY <1>1 DEF TypeInv, FindingsOK, Documents
<1> HIDE DEF new
<1>3. ScansGoOn
  BY <1>1, ScansOutdated DEF ScansGoOn, TypeInv
<1>4. ASSUME export # NoExport, NEW j, Behind(j) PROVE Behind(j)'
  <2>1. export'.cursor = export.cursor
    BY <1>1, <1>4, PagesStay
  <2> QED
    BY <1>2, <1>3, <1>4, <2>1 DEF Behind, Past, ScansGoOn
<1> QED
  BY <1>1, <1>2, <1>4, PagesStay, ExportGoesOn DEF TypeInv, FindingsOK, ExportOK

LEMMA ExportBegins ==
  ASSUME TypeInv, NEW filter \in Filters, StartExport(filter)
  PROVE  ExportInv'
<1>1. export' = [pc |-> "page", filter |-> filter, cursor |-> None,
                 must |-> Matching(filter, None), rows |-> <<>>]
  BY DEF StartExport
<1>2. DOMAIN export'.rows = {}
  BY <1>1
<1>3. \A k : Past(None, k)'
  BY DEF Past
<1> QED
  BY <1>1, <1>2, <1>3 DEF ExportInv

(* Past a cursor is also what follows a row past it.                       *)
LEMMA PastFollows ==
  ASSUME FindingsOK, NEW k \in DOMAIN findings, NEW l \in DOMAIN findings, Precedes(k, l),
         NEW c \in Cursors \cup {None}, Past(c, k)
  PROVE  Past(c, l)
<1>1. findings[k].at \in Nat /\ findings[l].at \in Nat
  BY DEF FindingsOK, Documents
<1>2. Rank[k] \in Nat /\ Rank[l] \in Nat
  BY FindingsAssumption DEF FindingsOK
<1>3. CASE c = None
  BY <1>3 DEF Past
<1>4. CASE c # None
  BY <1>1, <1>2, <1>4 DEF Precedes, Past, Cursors
<1> QED
  BY <1>3, <1>4

LEMMA ExportPages == ASSUME TypeInv, ExportInv, ExportPage PROVE ExportInv'
<1> DEFINE rows == Matching(export.filter, export.cursor)
           page == FirstOf(rows)
           last == LastOf(page)
           more == Cardinality(rows) > PageSize
<1>1. /\ export # NoExport /\ export \in Exports /\ export.pc = "page"
      /\ export.cursor \in Cursors \cup {None}
      /\ UNCHANGED <<findings, scan, clock>>
  BY PageWritten DEF ExportPage, Exports
<1>2. /\ export'.must = export.must
      /\ export'.rows = Listed(export.rows, page)
      /\ more => export'.pc = "page" /\ export'.cursor = CursorAt(last)
      /\ ~more => export'.pc = "done"
  BY PageWritten
<1>3. FindingsOK /\ rows \in SUBSET DOMAIN findings /\ page \subseteq rows
  BY RowsMatch DEF TypeInv
<1>4. \A k \in rows : k \in DOMAIN findings /\ Past(export.cursor, k)
  BY DEF Matching
<1>5. \A k \in DOMAIN export.rows : Behind(k) /\ export.rows[k] = 1
  BY <1>1 DEF ExportInv
<1>6. \A k \in export.must \ DOMAIN export.rows : k \in rows
  BY <1>1 DEF ExportInv, TypeInv, ExportOK, Matching
<1>7. more => /\ last \in page
              /\ \A l \in page : l = last \/ Precedes(l, last)
              /\ \A l \in rows \ page : Precedes(last, l)
  BY <1>3, LastOfPage
<1>8. ~more => page = rows
  BY <1>3, WholePage
<1> HIDE DEF rows, page, last, more
<1>9. /\ DOMAIN export'.rows = DOMAIN export.rows \cup page
      /\ \A k \in DOMAIN export'.rows : export'.rows[k] = 1
  <2>1. \A k \in page : k \notin DOMAIN export.rows
    BY <1>3, <1>4, <1>5 DEF Behind
  <2> QED
    BY <1>2, <1>5, <2>1 DEF Listed
<1>10. CASE ~more
  <2>1. export'.must \subseteq DOMAIN export'.rows
    BY <1>2, <1>6, <1>8, <1>9, <1>10
  <2> QED
    BY <1>2, <1>9, <1>10, <2>1 DEF ExportInv
<1>11. CASE more
  <2>1. last \in DOMAIN findings /\ Past(export.cursor, last) /\ last \in page
    BY <1>3, <1>4, <1>7, <1>11
  <2>2. findings[last].at \in Nat /\ findings[last].at <= clock
    BY <1>3, <2>1 DEF FindingsOK, Documents
  <2>3. CursorAt(last).at = findings[last].at /\ CursorAt(last) # None
    <3>1. Rank[last] \in Nat
      BY <1>3, <2>1, FindingsAssumption DEF FindingsOK
    <3> QED
      BY <2>2, <3>1, FindingsAssumption DEF CursorAt
  <2>4. ASSUME NEW k \in DOMAIN findings PROVE Precedes(last, k) <=> Past(CursorAt(last), k)
    BY <1>3, <2>1, OrderIsStrict
  <2>5. ASSUME NEW k \in export'.must \ DOMAIN export'.rows PROVE Past(CursorAt(last), k)
    <3>1. k \in rows \ page
      BY <1>2, <1>6, <1>9
    <3> QED
      BY <1>4, <1>7, <1>11, <2>4, <3>1
  <2>6. ASSUME NEW k \in page
        PROVE  k \in DOMAIN findings /\ ~Past(CursorAt(last), k)
    <3>1. k \in DOMAIN findings
      BY <1>3
    <3>2. ~Precedes(last, k)
      BY <1>3, <1>7, <1>11, <2>1, <3>1, OrderIsStrict
    <3> QED
      BY <2>4, <3>1, <3>2
  <2>7. ASSUME NEW k \in DOMAIN export.rows, k \in DOMAIN findings
        PROVE  ~Past(CursorAt(last), k)
    <3>1. ~Past(export.cursor, k)
      BY <1>5, <2>7 DEF Behind
    <3>2. ~Precedes(last, k)
      BY <1>1, <1>3, <2>1, <2>7, <3>1, PastFollows
    <3> QED
      BY <2>4, <2>7, <3>2
  <2>8. ASSUME NEW k \in DOMAIN export.rows, NEW s \in Scanners,
               scan[s] # Idle, k \in scan[s].todo \ DOMAIN findings
        PROVE  scan[s].at > CursorAt(last).at
    <3>1. export.cursor # None /\ scan[s].at > export.cursor.at
      BY <1>5, <2>8 DEF Behind
    <3>2. export.cursor.at \in Nat /\ scan[s].at \in Nat
      BY <1>1, <2>8, <3>1 DEF Cursors, TypeInv, ScanOK, ScanShape, Running
    <3>3. findings[last].at <= export.cursor.at
      BY <2>1, <2>2, <3>1, <3>2 DEF Past
    <3> QED
      BY <2>2, <2>3, <3>1, <3>2, <3>3
  <2>9. ASSUME NEW k \in DOMAIN export'.rows PROVE Behind(k)'
    <3>1. PICK c : c = CursorAt(last) /\ export'.cursor = c
      BY <1>2, <1>11
    <3>2. k \in DOMAIN findings' => ~Past(c, k)'
      <4>1. k \in DOMAIN findings => ~Past(c, k)
        BY <1>9, <2>6, <2>7, <3>1
      <4> QED
        BY <1>1, <4>1 DEF Past
    <3>3. \A s \in Scanners : scan'[s] # Idle /\ k \in scan'[s].todo \ DOMAIN findings' =>
                                scan'[s].at > export'.cursor.at
      BY <1>1, <1>9, <2>6, <2>8, <3>1
    <3> QED
      BY <2>3, <3>1, <3>2, <3>3 DEF Behind
  <2>10. export'.cursor.at <= clock'
    BY <1>1, <1>2, <1>11, <2>2, <2>3
  <2>11. \A k \in export'.must \ DOMAIN export'.rows : Past(export.cursor, k)'
    BY <1>1, <1>2, <1>11, <2>5 DEF Past, CursorAt
  <2> QED
    BY <1>2, <1>9, <1>11, <2>9, <2>10, <2>11 DEF ExportInv
<1> QED
  BY <1>10, <1>11

LEMMA ScansAlone ==
  ASSUME TypeInv, NEW s \in Scanners, ReadScores(s) \/ Record(s) \/ Abort(s)
  PROVE  ScansGoOn /\ UNCHANGED <<export, findings, clock>>
<1>1. CASE Abort(s)
  BY <1>1 DEF Abort, ScansGoOn, TypeInv, ScanOK, ScanShape
<1>2. ASSUME ReadScores(s) \/ Record(s)
      PROVE  scan[s] # Idle /\ scan[s] \in Running(s)
  BY <1>2 DEF ReadScores, Record, Idle, TypeInv, ScanOK, ScanShape
<1>3. CASE ReadScores(s)
  BY <1>2, <1>3 DEF ReadScores, ScansGoOn, TypeInv, ScanOK, ScanShape, Running
<1>4. CASE Record(s)
  BY <1>2, <1>4 DEF Record, ScansGoOn, TypeInv, ScanOK, ScanShape, Running
<1> QED
  BY <1>1, <1>3, <1>4

LEMMA ExportStep == TypeInv /\ ExportInv /\ [Next]_vars => ExportInv'
<1> SUFFICES ASSUME TypeInv, ExportInv, [Next]_vars PROVE ExportInv'
  OBVIOUS
<1>1. CASE \E s \in Scanners : Start(s) \/ Inventory(s)
  BY <1>1, ExportStart, ExportInventory
<1>2. CASE \E s \in Scanners : ReadScores(s) \/ Record(s) \/ Abort(s)
  BY <1>2, ScansAlone, ExportUntouched
<1>3. CASE \E s \in Scanners : \E k \in Own(s) : Upsert(s, k)
  BY <1>3, ExportUpsert
<1>4. CASE \E k \in Keys, status \in Statuses : Triage(k, status)
  BY <1>4, ExportTriage
<1>5. CASE \E filter \in Filters : StartExport(filter)
  BY <1>5, ExportBegins
<1>6. CASE ExportPage
  BY <1>6, ExportPages
<1>7. CASE NextDay
  <2>1. UNCHANGED <<export, findings, clock>>
    BY <1>7 DEF NextDay
  <2>2. ASSUME NEW s \in Scanners, scan'[s] # Idle
        PROVE  scan[s] # Idle /\ scan'[s].at = scan[s].at /\ scan'[s].todo \subseteq scan[s].todo
    <3>1. scan[s] # Idle /\ scan'[s] = [scan[s] EXCEPT !.today = FALSE]
      BY <1>7, <2>2 DEF NextDay
    <3>2. scan[s] \in Running(s)
      BY <3>1 DEF TypeInv, ScanOK, ScanShape
    <3> QED
      BY <3>1, <3>2 DEF Running
  <2> QED
    BY <2>1, <2>2, ExportUntouched DEF ScansGoOn
<1>8. CASE UNCHANGED vars
  BY <1>8, ExportUntouched DEF vars, ScansGoOn
<1> QED
  BY <1>1, <1>2, <1>3, <1>4, <1>5, <1>6, <1>7, <1>8, Zenon DEF Next

(* Whatever is inserted, removed and triaged between its pages, an export  *)
(* lists nothing twice, and at its end all that was there and matched.     *)
THEOREM ExportsAreComplete == Spec => []ExportComplete
<1>1. TypeInv /\ ExportInv => ExportComplete
  BY DEF ExportInv, ExportComplete
<1> QED
  BY <1>1, TypeInit, TypeStep, ExportInit, ExportStep, PTL DEF Spec

-----------------------------------------------------------------------------
(* The trend                                                               *)

(* Scores that were read and are still fresh are those of the findings.    *)
TrendInv ==
  /\ TrendIsCurrent
  /\ \A s \in Scanners : scan[s] # Idle /\ scan[s].fresh => scan[s].scores = Scores(Now)

LEMMA TrendInit == Init => TrendInv
BY DEF Init, TrendInv, TrendIsCurrent

(* With the findings all that was read goes stale.                         *)
LEMMA TrendOutdated ==
  ASSUME current' = FALSE, \A s \in Scanners : scan'[s] # Idle => ~scan'[s].fresh
  PROVE  TrendInv'
BY DEF TrendInv, TrendIsCurrent

LEMMA ScoresStay == ASSUME UNCHANGED findings PROVE Scores(Now)' = Scores(Now)
BY DEF Now, StatusOf, Scores, AllScores, ScoreTable

LEMMA TrendRecord ==
  ASSUME TypeInv, TrendInv, NEW s \in Scanners, Record(s)
  PROVE  TrendInv'
<1>1. scan[s] # Idle /\ scan[s] \in Running(s)
  BY DEF Record, Idle, TypeInv, ScanOK, ScanShape
<1>2. findings' = findings /\ Scores(Now)' = Scores(Now)
  BY ScoresStay DEF Record
<1>3. ASSUME NEW i \in Scanners, scan'[i] # Idle, scan'[i].fresh
      PROVE  scan'[i].scores = Scores(Now)
  <2>1. scan[i] # Idle /\ scan'[i].fresh = scan[i].fresh /\ scan'[i].scores = scan[i].scores
    BY <1>1, <1>3 DEF Record, TypeInv, ScanOK, ScanShape, Running
  <2> QED
    BY <1>3, <2>1 DEF TrendInv
<1>4. PICK W \in SUBSET scan[s].scores :
        /\ points' = IF scan[s].today THEN Recorded(W) ELSE points
        /\ current' = IF scan[s].today /\ W # {}
                      THEN scan[s].fresh /\ (current \/ W = scan[s].scores)
                      ELSE current
  BY DEF Record
<1>5. ASSUME current' PROVE Scores(Now) \subseteq points'
  <2>1. CASE ~(scan[s].today /\ W # {})
    <3>1. current /\ points \subseteq points'
      BY <1>4, <1>5, <2>1 DEF Recorded
    <3> QED
      BY <3>1 DEF TrendInv, TrendIsCurrent
  <2>2. CASE scan[s].today /\ W # {}
    <3>1. scan[s].fresh /\ (current \/ W = scan[s].scores) /\ points' = Recorded(W)
      BY <1>4, <1>5, <2>2
    <3>2. scan[s].scores = Scores(Now)
      BY <1>1, <3>1 DEF TrendInv
    <3>3. CASE W = scan[s].scores
      BY <3>1, <3>2, <3>3 DEF Recorded
    <3>4. CASE current
      <4>1. Scores(Now) \subseteq points /\ W \subseteq Scores(Now)
        BY <3>2, <3>4 DEF TrendInv, TrendIsCurrent
      <4>2. OnePerVersion(Scores(Now))
        BY NowHasScores DEF TypeInv
      <4>3. ASSUME NEW p \in Scores(Now) PROVE p \in Recorded(W)
        <5>1. CASE \E w \in W : w[1] = p[1]
          BY <4>1, <4>2, <5>1 DEF Recorded, OnePerVersion
        <5>2. CASE \A w \in W : w[1] # p[1]
          BY <4>1, <5>2 DEF Recorded
        <5> QED
          BY <5>1, <5>2
      <4> QED
        BY <3>1, <4>3
    <3> QED
      BY <3>1, <3>3, <3>4, Zenon
  <2> QED
    BY <2>1, <2>2
<1> QED
  BY <1>2, <1>3, <1>5 DEF TrendInv, TrendIsCurrent

(* Steps that neither change findings nor record scores.                   *)
LEMMA TrendStays ==
  ASSUME TrendInv, UNCHANGED findings,
         current' => current /\ points \subseteq points',
         \A s \in Scanners : scan'[s] # Idle /\ scan'[s].fresh =>
           \/ scan'[s].scores = Scores(Now)
           \/ scan[s] # Idle /\ scan[s].fresh /\ scan'[s].scores = scan[s].scores
  PROVE  TrendInv'
BY ScoresStay DEF TrendInv, TrendIsCurrent

LEMMA TrendStep == TypeInv /\ TrendInv /\ [Next]_vars => TrendInv'
<1> SUFFICES ASSUME TypeInv, TrendInv, [Next]_vars PROVE TrendInv'
  OBVIOUS
<1>1. ASSUME NEW s \in Scanners, Start(s) PROVE TrendInv'
  <2>1. PICK r \in Reports(s) :
          scan' = [scan EXCEPT ![s] =
                     [pc |-> "upsert", report |-> r, todo |-> DOMAIN r, at |-> clock + 1,
                      scores |-> {}, fresh |-> FALSE, today |-> FALSE]]
    BY <1>1 DEF Start
  <2>2. /\ ~scan'[s].fresh
        /\ \A i \in Scanners : i # s => scan'[i] = scan[i]
    BY <2>1 DEF TypeInv, ScanOK, ScanShape
  <2> QED
    BY <1>1, <2>2, TrendStays DEF Start
<1>2. ASSUME NEW s \in Scanners, ReadScores(s) PROVE TrendInv'
  <2>1. scan[s] # Idle /\ scan[s] \in Running(s)
    BY <1>2 DEF ReadScores, Idle, TypeInv, ScanOK, ScanShape
  <2>2. /\ scan'[s].scores = Scores(Now)
        /\ \A i \in Scanners : i # s => scan'[i] = scan[i]
    BY <1>2, <2>1 DEF ReadScores, TypeInv, ScanOK, ScanShape, Running
  <2> QED
    BY <1>2, <2>2, TrendStays DEF ReadScores
<1>3. ASSUME NEW s \in Scanners, NEW k \in Own(s), Upsert(s, k) PROVE TrendInv'
  <2>1. current' = FALSE /\ scan[s] # Idle /\ scan' = [Outdated EXCEPT ![s].todo = @ \ {k}]
    BY <1>3 DEF Upsert, Changed, Idle
  <2>2. ASSUME NEW i \in Scanners, scan'[i] # Idle PROVE ~scan'[i].fresh
    <3>1. Outdated = [j \in Scanners |-> Outdated[j]]
      BY DEF Outdated
    <3>2. CASE i = s
      <4>1. Outdated[s] \in Running(s) /\ ~Outdated[s].fresh
        BY <2>1, ScansOutdated DEF TypeInv, ScanShape
      <4> HIDE DEF Outdated
      <4>2. scan'[s] = [Outdated[s] EXCEPT !.todo = @ \ {k}]
        BY <2>1, <3>1
      <4> QED
        BY <3>2, <4>1, <4>2 DEF Running
    <3>3. CASE i # s
      <4>1. scan'[i] = Outdated[i]
        BY <2>1, <3>1, <3>3
      <4> QED
        BY <2>2, <4>1, ScansOutdated DEF TypeInv
    <3> QED
      BY <3>2, <3>3
  <2> QED
    BY <2>1, <2>2, TrendOutdated
<1>4. ASSUME NEW s \in Scanners, Inventory(s) PROVE TrendInv'
  <2>1. CASE scan' = [scan EXCEPT ![s] = Idle] /\ UNCHANGED <<findings, export, current>>
    <3>1. \A i \in Scanners : scan'[i] # Idle => scan'[i] = scan[i]
      BY <2>1 DEF TypeInv, ScanOK, ScanShape
    <3> QED
      BY <1>4, <2>1, <3>1, TrendStays DEF Inventory
  <2>2. CASE current' = FALSE /\ scan' = [Outdated EXCEPT ![s] = Idle]
    <3>1. \A i \in Scanners : scan'[i] = IF i = s THEN Idle ELSE Outdated[i]
      BY <2>2, ScansOutdated DEF TypeInv, ScanShape
    <3>2. ASSUME NEW i \in Scanners, scan'[i] # Idle PROVE ~scan'[i].fresh
      <4>1. scan'[i] = Outdated[i] /\ Outdated[i] # Idle
        BY <3>1, <3>2, Zenon
      <4> QED
        BY <4>1, ScansOutdated DEF TypeInv
    <3> QED
      BY <2>2, <3>2, TrendOutdated
  <2> QED
    BY <1>4, <2>1, <2>2 DEF Inventory, Changed
<1>5. ASSUME NEW s \in Scanners, Abort(s) PROVE TrendInv'
  <2>1. \A i \in Scanners : scan'[i] # Idle => scan'[i] = scan[i]
    BY <1>5 DEF Abort, TypeInv, ScanOK, ScanShape
  <2> QED
    BY <1>5, <2>1, TrendStays DEF Abort
<1>6. CASE \E k \in Keys, status \in Statuses : Triage(k, status)
  <2>1. current' = FALSE /\ scan' = Outdated
    BY <1>6 DEF Triage, Changed
  <2>2. \A s \in Scanners : scan'[s] # Idle => ~scan'[s].fresh
    BY <2>1, ScansOutdated DEF TypeInv
  <2> QED
    BY <2>1, <2>2, TrendOutdated
<1>7. CASE (\E filter \in Filters : StartExport(filter)) \/ ExportPage \/ UNCHANGED vars
  BY <1>7, TrendStays DEF StartExport, ExportPage, vars
<1>8. CASE NextDay
  <2>1. ASSUME NEW s \in Scanners, scan'[s] # Idle
        PROVE  /\ scan[s] # Idle /\ scan'[s].fresh = scan[s].fresh
               /\ scan'[s].scores = scan[s].scores
    <3>1. scan[s] # Idle /\ scan'[s] = [scan[s] EXCEPT !.today = FALSE]
      BY <1>8, <2>1 DEF NextDay
    <3>2. scan[s] \in Running(s)
      BY <3>1 DEF TypeInv, ScanOK, ScanShape
    <3> QED
      BY <3>1, <3>2 DEF Running
  <2> QED
    BY <1>8, <2>1, TrendStays DEF NextDay
<1> QED
  BY <1>1, <1>2, <1>3, <1>4, <1>5, <1>6, <1>7, <1>8, TrendRecord, Zenon DEF Next

(* The trend ends at the scores of the pages as long as no finding changes *)
(* after they were read, whatever order scans read and record them in and  *)
(* whichever versions a failed write leaves out.                           *)
THEOREM TrendKeepsUp == Spec => []TrendIsCurrent
<1>1. TrendInv => TrendIsCurrent
  BY DEF TrendInv
<1> QED
  BY <1>1, TypeInit, TypeStep, TrendInit, TrendStep, PTL DEF Spec

-----------------------------------------------------------------------------
(* Triage                                                                  *)

(* What the pages may be computed from.                                    *)
WellFormed(F) ==
  /\ IsFiniteSet(F)
  /\ \A f \in F : /\ f.status \in Statuses /\ f.mapping \in SUBSET Entries
                  /\ f.severity \in DOMAIN Weight

(* The table of the scores is a table.                                     *)
LEMMA ScoresAre ==
  ASSUME NEW st \in StatusMaps
  PROVE  Scores(st) = ScoresOf(Docs(st))
<1>1. <<st, ScoresOf(Docs(st))>> \in ScoreTable
  BY DEF ScoreTable
<1>2. ScoresOf(Docs(st)) \in AllScores
  BY <1>1 DEF AllScores
<1>3. ASSUME NEW W, <<st, W>> \in ScoreTable PROVE W = ScoresOf(Docs(st))
  BY <1>3 DEF ScoreTable
<1> QED
  BY <1>1, <1>2, <1>3 DEF Scores

(* The documents of any statuses are well formed.                          *)
LEMMA DocsWellFormed ==
  ASSUME NEW st \in StatusMaps
  PROVE  WellFormed(Docs(st)) /\ DOMAIN st \in SUBSET Keys
<1>1. DOMAIN st \in SUBSET Keys /\ \A k \in DOMAIN st : st[k] \in Statuses
  BY DEF StatusMaps
<1> DEFINE doc == [k \in DOMAIN st |-> [check |-> k[1], asset |-> k[2],
                     severity |-> SeverityOf[k[1]], status |-> st[k], mapping |-> Mapping[k[1]]]]
<1>2. IsFiniteSet(DOMAIN st)
  BY <1>1, FindingsAssumption, FS_Subset
<1>3. Docs(st) = {doc[k] : k \in DOMAIN st}
  BY DEF Docs
<1>4. doc \in Surjection(DOMAIN st, Docs(st))
  <2> HIDE DEF doc
  <2>1. doc = [k \in DOMAIN st |-> doc[k]]
    BY DEF doc
  <2> QED
    BY <1>3, <2>1 DEF Surjection
<1>5. IsFiniteSet(Docs(st))
  <2> HIDE DEF doc
  <2> QED
    BY <1>2, <1>4, FS_Surjection
<1>6. ASSUME NEW f \in Docs(st)
      PROVE  f.status \in Statuses /\ f.mapping \in SUBSET Entries /\ f.severity \in DOMAIN Weight
  <2>1. PICK k \in DOMAIN st : f = [check |-> k[1], asset |-> k[2],
           severity |-> SeverityOf[k[1]], status |-> st[k], mapping |-> Mapping[k[1]]]
    BY DEF Docs
  <2>2. k[1] \in Checks
    BY <1>1 DEF Checks
  <2>3. Mapping[k[1]] \in SUBSET Entries /\ SeverityOf[k[1]] \in DOMAIN Weight
    BY <2>2, FindingsAssumption
  <2> QED
    BY <1>1, <2>1, <2>3
<1> QED
  BY <1>1, <1>5, <1>6 DEF WellFormed

(* A row counts the findings of its status that map to its control.        *)
LEMMA RowsCount ==
  ASSUME NEW F, WellFormed(F), NEW v \in Versions, NEW c \in Controls \cup {Bare},
         NEW s \in Statuses
  PROVE  /\ Rows(F)[<<v, c, s>>] = Cardinality(Mapped(F, v, c, s))
         /\ Rows(F)[<<v, c, s>>] \in Nat
         /\ IsFiniteSet(Mapped(F, v, c, s))
         /\ Rows(F)[<<v, c, s>>] > 0 <=> Mapped(F, v, c, s) # {}
<1>1. IsFiniteSet(Mapped(F, v, c, s))
  BY FS_Subset DEF Mapped, WellFormed
<1>2. Rows(F)[<<v, c, s>>] = Cardinality(Mapped(F, v, c, s))
  BY DEF Rows, Mapped
<1>3. Cardinality(Mapped(F, v, c, s)) \in Nat
  BY <1>1, FS_CardinalityType
<1>4. Cardinality(Mapped(F, v, c, s)) = 0 <=> Mapped(F, v, c, s) = {}
  BY <1>1, FS_EmptySet
<1> QED
  BY <1>1, <1>2, <1>3, <1>4

(* Rounding keeps the order.                                               *)
LEMMA RatioGrows ==
  ASSUME NEW total \in Nat, NEW p \in Nat, NEW q \in Nat, p <= q
  PROVE  Ratio(p, total) <= Ratio(q, total)
<1>1. CASE total = 0
  BY <1>1 DEF Ratio
<1>2. CASE total # 0
  <2>1. PICK d \in Nat, x \in Nat, y \in Nat :
          /\ d = 2 * total /\ x = 2000 * p + total /\ y = 2000 * q + total
          /\ d > 0 /\ x <= y
    BY <1>2
  <2>2. PICK a \in Int : a = x \div d /\ d * a <= x
    BY <2>1
  <2>3. PICK b \in Int : b = y \div d /\ y < d * (b + 1)
    BY <2>1
  <2>4. d * a < d * (b + 1)
    BY <2>1, <2>2, <2>3
  <2>5. a < b + 1
    BY <2>1, <2>4
  <2>6. Ratio(p, total) = a /\ Ratio(q, total) = b
    BY <1>2, <2>1, <2>2, <2>3 DEF Ratio
  <2> QED
    BY <2>5, <2>6
<1> QED
  BY <1>1, <1>2

-----------------------------------------------------------------------------
(* The summary                                                             *)

(* The tally of a version whose mappings name no control.                  *)
BareScore(rows, v) ==
  LET pass == rows[<<v, Bare, "PASS">>] + rows[<<v, Bare, "ACCEPTED">>]
  IN Ratio(pass, pass + rows[<<v, Bare, "FAIL">>])

LEMMA SumOfOne ==
  ASSUME NEW b, NEW f, DOMAIN f = {b}, f[b] \in Nat
  PROVE  SumFunction(f) = f[b]
<1>1. IsFiniteSet({b}) /\ {b} \ {b} = {}
  BY FS_Singleton
<1>2. SumFunctionOnSet(f, {b}) = f[b] + SumFunctionOnSet(f, {b} \ {b})
  BY <1>1, SumStep
<1>3. SumFunctionOnSet(f, {}) = 0
  BY SumOfNone
<1> QED
  BY <1>1, <1>2, <1>3 DEF SumFunction

LEMMA TallyOfBare ==
  ASSUME NEW rows, NEW v \in DOMAIN BuildFamilies(rows), Found(rows, v) = {},
         \A s \in Statuses : rows[<<v, Bare, s>>] \in Nat
  PROVE  BuildFamilies(rows)[v].all.score = BareScore(rows, v)
<1> DEFINE scored == {c \in Controls \cup {Bare} :
                        \E s \in Statuses \ {"MUTED"} : rows[<<v, c, s>>] > 0}
           pass == [c \in {Bare} |-> rows[<<v, c, "PASS">>] + rows[<<v, c, "ACCEPTED">>]]
           fail == [c \in {Bare} |-> rows[<<v, c, "FAIL">>]]
<1>1. BuildFamilies(rows)[v].all = Tally(rows, v, scored) /\ scored # {}
  BY DEF BuildFamilies
<1>2. scored = {Bare}
  BY <1>1 DEF Found
<1>3. /\ DOMAIN pass = {Bare} /\ DOMAIN fail = {Bare}
      /\ pass[Bare] = rows[<<v, Bare, "PASS">>] + rows[<<v, Bare, "ACCEPTED">>]
      /\ fail[Bare] = rows[<<v, Bare, "FAIL">>]
      /\ pass[Bare] \in Nat /\ fail[Bare] \in Nat
  BY DEF Statuses
<1>4. Tally(rows, v, {Bare}).score
        = Ratio(SumFunction(pass), SumFunction(pass) + SumFunction(fail))
  BY DEF Tally
<1> HIDE DEF scored, pass, fail
<1>5. SumFunction(pass) = pass[Bare] /\ SumFunction(fail) = fail[Bare]
  BY <1>3, SumOfOne
<1> QED
  BY <1>1, <1>2, <1>3, <1>4, <1>5 DEF BareScore

Shown(F, v) ==
  \E c \in Controls \cup {Bare}, s \in Statuses \ {"MUTED"} : Mapped(F, v, c, s) # {}

(* What the summary shows of a version: the version is listed unless it is *)
(* hidden, which takes all its rows away; one that is listed keeps them    *)
(* all.                                                                    *)
LEMMA SummaryShows ==
  ASSUME NEW F, WellFormed(F), NEW disabled
  PROVE  LET all == Rows(F)
             shown == Summary(F, disabled, None).versions
         IN /\ DOMAIN shown = {v \in Versions : Shown(F, v) /\ Family(v) \notin disabled}
            /\ SettingsList(F) = {Family(v) : v \in {w \in Versions : Shown(F, w)}}
            /\ \A v \in DOMAIN shown :
                 /\ Has(all, v)
                 /\ Found(all, v) # {} => shown[v] = ScoreByControl(all, v)
                 /\ Found(all, v) = {} => shown[v].score = BareScore(all, v)
<1> DEFINE all == Rows(F)
           hidden == Hidden(all, disabled)
           rows == [r \in DOMAIN all |-> IF r[1] \in hidden THEN 0 ELSE all[r]]
           tree == BuildFamilies(rows)
           byControl == ControlScores(rows)
           shown == Summary(F, disabled, None).versions
<1>1. DOMAIN all = Versions \X (Controls \cup {Bare}) \X Statuses
  BY DEF Rows
<1>2. ASSUME NEW v \in Versions, NEW c \in Controls \cup {Bare}, NEW s \in Statuses
      PROVE  /\ all[<<v, c, s>>] \in Nat /\ (all[<<v, c, s>>] > 0 <=> Mapped(F, v, c, s) # {})
             /\ rows[<<v, c, s>>] = IF v \in hidden THEN 0 ELSE all[<<v, c, s>>]
  <2>1. all[<<v, c, s>>] \in Nat /\ (all[<<v, c, s>>] > 0 <=> Mapped(F, v, c, s) # {})
    BY RowsCount
  <2>2. <<v, c, s>> \in DOMAIN all
    BY <1>1
  <2> HIDE DEF all, hidden
  <2> QED
    BY <2>1, <2>2
<1>3. \A v \in Versions : v \in hidden <=> Family(v) \in disabled /\ Has(all, v)
  BY DEF Hidden
<1>4. ASSUME NEW v \in Versions
      PROVE  /\ Shown(F, v) => Has(all, v)
             /\ (\E c \in Controls \cup {Bare}, s \in Statuses \ {"MUTED"} : all[<<v, c, s>>] > 0)
                  <=> Shown(F, v)
             /\ (\E c \in Controls \cup {Bare}, s \in Statuses \ {"MUTED"} : rows[<<v, c, s>>] > 0)
                  <=> Shown(F, v) /\ v \notin hidden
  <2> HIDE DEF all, rows, hidden
  <2>1. \A c \in Controls \cup {Bare}, s \in Statuses :
           all[<<v, c, s>>] > 0 <=> Mapped(F, v, c, s) # {}
    BY <1>2
  <2>2. (\E c \in Controls \cup {Bare}, s \in Statuses \ {"MUTED"} : all[<<v, c, s>>] > 0)
           <=> Shown(F, v)
    BY <2>1 DEF Shown
  <2>3. Shown(F, v) => Has(all, v)
    BY <2>2 DEF Has
  <2>4. CASE v \in hidden
    <3>1. \A c \in Controls \cup {Bare}, s \in Statuses : ~(rows[<<v, c, s>>] > 0)
      BY <1>2, <2>4
    <3> QED
      BY <2>2, <2>3, <2>4, <3>1
  <2>5. CASE v \notin hidden
    <3>1. \A c \in Controls \cup {Bare}, s \in Statuses : rows[<<v, c, s>>] = all[<<v, c, s>>]
      BY <1>2, <2>5
    <3> QED
      BY <2>2, <2>3, <2>5, <3>1
  <2> QED
    BY <2>4, <2>5
<1>5. /\ DOMAIN tree = {v \in Versions : \E c \in Controls \cup {Bare},
                                            s \in Statuses \ {"MUTED"} : rows[<<v, c, s>>] > 0}
      /\ SettingsList(F) = {Family(v) : v \in {w \in Versions :
                              \E c \in Controls \cup {Bare}, s \in Statuses \ {"MUTED"} :
                                all[<<w, c, s>>] > 0}}
  <2>1. ASSUME NEW r
        PROVE  DOMAIN BuildFamilies(r) =
                 {v \in Versions : \E c \in Controls \cup {Bare}, s \in Statuses \ {"MUTED"} :
                                     r[<<v, c, s>>] > 0}
    BY DEF BuildFamilies
  <2> HIDE DEF all, rows
  <2> QED
    BY <2>1 DEF SettingsList, all
<1>6. /\ DOMAIN tree = {v \in Versions : Shown(F, v) /\ Family(v) \notin disabled}
      /\ SettingsList(F) = {Family(v) : v \in {w \in Versions : Shown(F, w)}}
  <2> HIDE DEF all, rows, hidden, tree
  <2> QED
    BY <1>3, <1>4, <1>5
<1>7. shown = [v \in DOMAIN tree |-> IF v \in DOMAIN byControl THEN byControl[v] ELSE tree[v].all]
  BY DEF Summary
<1>8. ASSUME NEW v \in Versions, v \notin hidden
      PROVE  /\ Found(rows, v) = Found(all, v)
             /\ ScoreByControl(rows, v) = ScoreByControl(all, v)
  <2>1. \A c \in Controls, s \in Statuses : rows[<<v, c, s>>] = all[<<v, c, s>>]
    <3> HIDE DEF all, rows, hidden
    <3> QED
      BY <1>2, <1>8
  <2> HIDE DEF all, rows, hidden
  <2>2. Found(rows, v) = Found(all, v)
    BY <2>1 DEF Found
  <2> DEFINE everything == Found(all, v) \cup Catalogued(v)
             fails(r) == {c \in everything : r[<<v, c, "FAIL">>] > 0}
             passes(r) == {c \in everything \ fails(r) :
                             r[<<v, c, "PASS">>] + r[<<v, c, "ACCEPTED">>] > 0}
  <2>3. "FAIL" \in Statuses /\ "PASS" \in Statuses /\ "ACCEPTED" \in Statuses
    BY DEF Statuses
  <2>4. everything \subseteq Controls
    BY ComplianceAssumption DEF Found, Catalogued
  <2>5. fails(rows) = fails(all)
    <3> HIDE DEF everything
    <3> QED
      BY <2>1, <2>3, <2>4
  <2>6. passes(rows) = passes(all)
    <3>1. \A c \in everything : /\ rows[<<v, c, "PASS">>] = all[<<v, c, "PASS">>]
                                /\ rows[<<v, c, "ACCEPTED">>] = all[<<v, c, "ACCEPTED">>]
      <4> HIDE DEF everything
      <4> QED
        BY <2>1, <2>3, <2>4
    <3> HIDE DEF everything, fails
    <3> QED
      BY <2>5, <3>1
  <2>7. ASSUME NEW r, Found(r, v) = Found(all, v)
        PROVE  ScoreByControl(r, v) =
                 [score |-> Ratio(Cardinality(everything \ fails(r)), Cardinality(everything)),
                  pass |-> Cardinality(passes(r)), fail |-> Cardinality(fails(r)),
                  total |-> Cardinality(everything)]
    BY <2>7 DEF ScoreByControl
  <2> HIDE DEF everything, fails, passes
  <2> QED
    BY <2>2, <2>5, <2>6, <2>7
<1>9. ASSUME NEW v \in DOMAIN tree
      PROVE  /\ v \in Versions /\ v \notin hidden /\ Has(all, v)
             /\ Found(all, v) # {} => shown[v] = ScoreByControl(all, v)
             /\ Found(all, v) = {} => shown[v].score = BareScore(all, v)
  <2>1. v \in Versions /\ v \notin hidden /\ Has(all, v)
    <3> HIDE DEF all, rows, tree, hidden
    <3> QED
      BY <1>3, <1>4, <1>6, <1>9
  <2>2. v \in DOMAIN byControl <=> Found(all, v) # {}
    <3>1. Found(rows, v) = Found(all, v)
      BY <1>8, <2>1
    <3> HIDE DEF rows
    <3> QED
      BY <2>1, <3>1 DEF ControlScores
  <2>3. v \in DOMAIN byControl => byControl[v] = ScoreByControl(rows, v)
    <3> HIDE DEF rows
    <3> QED
      BY DEF ControlScores
  <2>4. shown[v] = IF v \in DOMAIN byControl THEN byControl[v] ELSE tree[v].all
    <3> HIDE DEF tree, byControl, shown
    <3> QED
      BY <1>7, <1>9
  <2>5. Found(all, v) = {} => tree[v].all.score = BareScore(all, v)
    <3> SUFFICES ASSUME Found(all, v) = {} PROVE tree[v].all.score = BareScore(all, v)
      OBVIOUS
    <3>1. \A s \in Statuses : rows[<<v, Bare, s>>] = all[<<v, Bare, s>>] /\ all[<<v, Bare, s>>] \in Nat
      <4> HIDE DEF all, rows, hidden
      <4> QED
        BY <1>2, <2>1
    <3>2. Found(rows, v) = {}
      BY <1>8, <2>1
    <3>3. tree[v].all.score = BareScore(rows, v)
      <4> HIDE DEF all, rows
      <4> QED
        BY <1>9, <2>1, <3>1, <3>2, TallyOfBare
    <3>4. BareScore(rows, v) = BareScore(all, v)
      <4> HIDE DEF all, rows
      <4> QED
        BY <3>1 DEF BareScore, Statuses
    <3> QED
      BY <3>3, <3>4
  <2> HIDE DEF all, rows, hidden, tree, byControl, shown
  <2> QED
    BY <1>8, <2>1, <2>2, <2>3, <2>4, <2>5
<1>10. DOMAIN shown = DOMAIN tree
  <2> HIDE DEF tree, byControl, shown
  <2> QED
    BY <1>7
<1> HIDE DEF shown, tree, all
<1> QED
  BY <1>6, <1>9, <1>10 DEF shown, all

-----------------------------------------------------------------------------
(* nt is st but for findings that were muted or accepted.                  *)
Triaged(st, nt) ==
  /\ st \in StatusMaps /\ nt \in StatusMaps /\ DOMAIN nt = DOMAIN st
  /\ \A k \in DOMAIN st : nt[k] = st[k] \/ nt[k] \in {"MUTED", "ACCEPTED"}

(* A triaged finding stays in the rows, and none comes to fail.            *)
LEMMA StillFound ==
  ASSUME NEW st, NEW nt, Triaged(st, nt), NEW v, NEW c
  PROVE  /\ (\E s \in Statuses : Mapped(Docs(nt), v, c, s) # {})
               <=> (\E s \in Statuses : Mapped(Docs(st), v, c, s) # {})
         /\ Mapped(Docs(nt), v, c, "FAIL") # {} => Mapped(Docs(st), v, c, "FAIL") # {}
<1> DEFINE doc(k, s) == [check |-> k[1], asset |-> k[2], severity |-> SeverityOf[k[1]],
                         status |-> s, mapping |-> Mapping[k[1]]]
<1>1. \A k \in DOMAIN st : st[k] \in Statuses /\ nt[k] \in Statuses
  BY DEF Triaged, StatusMaps
<1>2. ASSUME NEW m \in StatusMaps, NEW s
      PROVE  Mapped(Docs(m), v, c, s) # {}
               <=> \E k \in DOMAIN m : m[k] = s /\ <<v, c>> \in Mapping[k[1]]
  <2>1. ASSUME NEW f \in Mapped(Docs(m), v, c, s)
        PROVE  \E k \in DOMAIN m : m[k] = s /\ <<v, c>> \in Mapping[k[1]]
    BY DEF Mapped, Docs
  <2>2. ASSUME NEW k \in DOMAIN m, m[k] = s, <<v, c>> \in Mapping[k[1]]
        PROVE  Mapped(Docs(m), v, c, s) # {}
    <3>1. PICK f : f = doc(k, m[k])
      OBVIOUS
    <3>2. f \in Docs(m)
      BY <3>1 DEF Docs
    <3>3. f.status = s /\ f.mapping = Mapping[k[1]]
      BY <2>2, <3>1
    <3> QED
      BY <2>2, <3>2, <3>3 DEF Mapped
  <2> QED
    BY <2>1, <2>2
<1>3. ASSUME NEW m \in StatusMaps, \A k \in DOMAIN m : m[k] \in Statuses
      PROVE  (\E s \in Statuses : Mapped(Docs(m), v, c, s) # {})
               <=> \E k \in DOMAIN m : <<v, c>> \in Mapping[k[1]]
  BY <1>2, <1>3
<1>4. st \in StatusMaps /\ nt \in StatusMaps /\ DOMAIN nt = DOMAIN st
  BY DEF Triaged
<1>5. \A k \in DOMAIN st : nt[k] = "FAIL" => st[k] = "FAIL"
  BY DEF Triaged
<1> QED
  BY <1>1, <1>2, <1>3, <1>4, <1>5

(* The controls stay the same and fewer fail.                              *)
LEMMA ScoresDoNotFall ==
  ASSUME NEW st, NEW nt, Triaged(st, nt), NEW old \in Scores(st)
  PROVE  \E new \in Scores(nt) : new[1] = old[1] /\ new[2] >= old[2]
<1> DEFINE R == Rows(Docs(st))
           Q == Rows(Docs(nt))
<1>1. st \in StatusMaps /\ nt \in StatusMaps
  BY DEF Triaged
<1>2. WellFormed(Docs(st)) /\ WellFormed(Docs(nt))
  BY <1>1, DocsWellFormed
<1>3. ASSUME NEW v \in Versions, NEW c \in Controls
      PROVE  /\ (\E s \in Statuses : Q[<<v, c, s>>] > 0)
                  <=> (\E s \in Statuses : R[<<v, c, s>>] > 0)
             /\ Q[<<v, c, "FAIL">>] > 0 => R[<<v, c, "FAIL">>] > 0
  <2>1. \A s \in Statuses : /\ Q[<<v, c, s>>] > 0 <=> Mapped(Docs(nt), v, c, s) # {}
                            /\ R[<<v, c, s>>] > 0 <=> Mapped(Docs(st), v, c, s) # {}
    BY <1>2, RowsCount
  <2>2. "FAIL" \in Statuses
    BY DEF Statuses
  <2> QED
    BY <2>1, <2>2, StillFound
<1>4. PICK v \in Versions : /\ Found(R, v) # {}
                            /\ old = <<v, ScoreByControl(R, v).score>>
  <2>1. Scores(st) = {<<w, ControlScores(R)[w].score>> : w \in DOMAIN ControlScores(R)}
    BY <1>1, ScoresAre DEF ScoresOf
  <2>2. PICK v \in DOMAIN ControlScores(R) : old = <<v, ControlScores(R)[v].score>>
    BY <2>1
  <2> HIDE DEF R
  <2>3. v \in Versions /\ Found(R, v) # {} /\ ControlScores(R)[v] = ScoreByControl(R, v)
    BY DEF ControlScores
  <2> QED
    BY <2>2, <2>3
<1>5. Found(Q, v) = Found(R, v)
  BY <1>3 DEF Found
<1>6. <<v, ScoreByControl(Q, v).score>> \in Scores(nt)
  <2>1. v \in DOMAIN ControlScores(Q) /\ ControlScores(Q)[v] = ScoreByControl(Q, v)
    BY <1>4, <1>5 DEF ControlScores
  <2>2. Scores(nt) = {<<w, ControlScores(Q)[w].score>> : w \in DOMAIN ControlScores(Q)}
    BY <1>1, ScoresAre DEF ScoresOf
  <2> QED
    BY <2>1, <2>2
<1> DEFINE all == Found(R, v) \cup Catalogued(v)
           failsR == {c \in all : R[<<v, c, "FAIL">>] > 0}
           failsQ == {c \in all : Q[<<v, c, "FAIL">>] > 0}
<1>7. /\ ScoreByControl(R, v).score = Ratio(Cardinality(all \ failsR), Cardinality(all))
      /\ ScoreByControl(Q, v).score = Ratio(Cardinality(all \ failsQ), Cardinality(all))
  BY <1>5 DEF ScoreByControl
<1>8. all \subseteq Controls /\ IsFiniteSet(all)
  <2>1. all \subseteq Controls
    BY ComplianceAssumption DEF Found, Catalogued
  <2> QED
    BY <2>1, ComplianceAssumption, FS_Subset
<1>9. failsQ \subseteq failsR
  BY <1>3, <1>8
<1>10. /\ Cardinality(all \ failsR) \in Nat /\ Cardinality(all \ failsQ) \in Nat
       /\ Cardinality(all) \in Nat
       /\ Cardinality(all \ failsR) <= Cardinality(all \ failsQ)
  <2> HIDE DEF failsR, failsQ, all
  <2>1. IsFiniteSet(all \ failsR) /\ IsFiniteSet(all \ failsQ)
    BY <1>8, FS_Subset
  <2>2. all \ failsR \in SUBSET (all \ failsQ)
    BY <1>9
  <2> QED
    BY <1>8, <2>1, <2>2, FS_Subset, FS_CardinalityType
<1>11. ScoreByControl(R, v).score <= ScoreByControl(Q, v).score
  <2> HIDE DEF failsR, failsQ, all
  <2> QED
    BY <1>7, <1>10, RatioGrows
<1>12. /\ ScoreByControl(R, v).score \in Tenths
       /\ ScoreByControl(Q, v).score \in Tenths
  BY ControlScoreInTenths
<1> HIDE DEF R, Q
<1>13. PICK a \in Tenths, b \in Tenths :
         a = ScoreByControl(R, v).score /\ b = ScoreByControl(Q, v).score
  BY <1>12
<1> QED
  BY <1>4, <1>6, <1>11, <1>13

(* What still fails failed before, so the sum of the weights does not grow. *)
LEMMA ThreatDoesNotGrow ==
  ASSUME NEW st, NEW nt, Triaged(st, nt), NEW hidden
  PROVE  ThreatScore(Aggregated(Docs(st), hidden)) <= ThreatScore(Aggregated(Docs(nt), hidden))
<1> DEFINE K == Aggregated(Docs(st), hidden)
           L == Aggregated(Docs(nt), hidden)
           weight == [f \in K |-> Weight[f.severity]]
           less == [f \in L |-> Weight[f.severity]]
<1>1. WellFormed(Docs(st)) /\ WellFormed(Docs(nt))
  BY DocsWellFormed DEF Triaged
<1>2. L \subseteq K
  <2> SUFFICES ASSUME NEW f \in L PROVE f \in K
    OBVIOUS
  <2>1. f \in Docs(nt) /\ f.status = "FAIL"
    BY DEF Aggregated
  <2>2. PICK k \in DOMAIN nt : f = [check |-> k[1], asset |-> k[2], severity |-> SeverityOf[k[1]],
                                    status |-> nt[k], mapping |-> Mapping[k[1]]]
    BY <2>1 DEF Docs
  <2>3. nt[k] = "FAIL"
    BY <2>1, <2>2
  <2>4. k \in DOMAIN st /\ st[k] = nt[k]
    BY <2>3 DEF Triaged
  <2>5. f \in Docs(st)
    BY <2>2, <2>4 DEF Docs
  <2> QED
    BY <2>1, <2>5 DEF Aggregated
<1>3. IsFiniteSet(K) /\ \A f \in K : Weight[f.severity] \in Nat
  <2>1. K \in SUBSET Docs(st)
    BY DEF Aggregated
  <2> HIDE DEF K
  <2>2. IsFiniteSet(K)
    BY <1>1, <2>1, FS_Subset DEF WellFormed
  <2> QED
    BY <1>1, <2>1, <2>2, ComplianceAssumption DEF WellFormed
<1>4. IsFiniteSet(L)
  <2> HIDE DEF K, L
  <2> QED
    BY <1>2, <1>3, FS_Subset
<1>5. /\ SumFunction(weight) = SumFunctionOnSet(weight, K)
      /\ SumFunction(less) = SumFunctionOnSet(less, L)
  <2>1. DOMAIN weight = K /\ DOMAIN less = L
    OBVIOUS
  <2> HIDE DEF weight, less, K, L
  <2> QED
    BY <2>1 DEF SumFunction
<1>6. /\ \A f \in K : weight[f] \in Nat
      /\ \A f \in L : weight[f] = less[f]
  <2> HIDE DEF K, L
  <2> QED
    BY <1>2, <1>3
<1>7. ThreatScore(K) = Max({0, 100 - Min({SumFunction(weight), 200}) \div 2})
  <2> HIDE DEF K
  <2> QED
    BY DEF ThreatScore
<1>8. ThreatScore(L) = Max({0, 100 - Min({SumFunction(less), 200}) \div 2})
  <2> HIDE DEF L
  <2> QED
    BY DEF ThreatScore
<1> HIDE DEF K, L, weight, less
<1>9. SumFunctionOnSet(less, L) = SumFunctionOnSet(weight, L)
  BY <1>4, <1>6, SumOfEqual
<1>10. SumFunctionOnSet(weight, L) <= SumFunctionOnSet(weight, K)
  BY <1>2, <1>3, <1>6, SumIsMonotone
<1>11. SumFunctionOnSet(weight, K) \in Nat /\ SumFunctionOnSet(weight, L) \in Nat
  BY <1>2, <1>3, <1>4, <1>6, SumStep
<1>12. PICK a \in Nat, b \in Nat : a = SumFunction(weight) /\ b = SumFunction(less) /\ b <= a
  BY <1>5, <1>9, <1>10, <1>11
<1>13. PICK p \in Nat, q \in Nat : p = Min({a, 200}) /\ q = Min({b, 200}) /\ q <= p /\ p <= 200
  BY <1>12, MinOfTwo
<1>14. PICK x \in Int, y \in Int : x = 100 - (p \div 2) /\ y = 100 - (q \div 2) /\ x <= y
  BY <1>13
<1>15. Max({0, x}) <= Max({0, y})
  BY <1>14, MaxOfTwo
<1> QED
  BY <1>7, <1>8, <1>12, <1>13, <1>14, <1>15 DEF K, L

(* A row counts the keys of its findings.                                  *)
KeysOf(st, v, c, S) == {k \in DOMAIN st : st[k] \in S /\ <<v, c>> \in Mapping[k[1]]}

LEMMA RowCountsKeys ==
  ASSUME NEW st \in StatusMaps, NEW v \in Versions, NEW c \in Controls \cup {Bare},
         NEW s \in Statuses
  PROVE  /\ Rows(Docs(st))[<<v, c, s>>] = Cardinality(KeysOf(st, v, c, {s}))
         /\ IsFiniteSet(KeysOf(st, v, c, {s}))
<1> DEFINE doc == [k \in KeysOf(st, v, c, {s}) |->
                     [check |-> k[1], asset |-> k[2], severity |-> SeverityOf[k[1]],
                      status |-> s, mapping |-> Mapping[k[1]]]]
           K == KeysOf(st, v, c, {s})
           M == Mapped(Docs(st), v, c, s)
<1>1. DOMAIN st \in SUBSET Keys
  BY DocsWellFormed
<1>2. IsFiniteSet(K)
  <2>1. IsFiniteSet(DOMAIN st)
    BY <1>1, FindingsAssumption, FS_Subset
  <2>2. K \in SUBSET DOMAIN st
    BY DEF KeysOf
  <2> QED
    BY <2>1, <2>2, FS_Subset
<1>3. ASSUME NEW k \in K PROVE doc[k] \in M
  <2>1. k \in DOMAIN st /\ st[k] = s /\ <<v, c>> \in Mapping[k[1]]
    BY DEF KeysOf
  <2>2. doc[k] = [check |-> k[1], asset |-> k[2], severity |-> SeverityOf[k[1]],
                  status |-> st[k], mapping |-> Mapping[k[1]]]
    BY <2>1
  <2>3. doc[k] \in Docs(st)
    BY <2>1, <2>2 DEF Docs
  <2>4. doc[k].status = s /\ doc[k].mapping = Mapping[k[1]]
    OBVIOUS
  <2> QED
    BY <2>1, <2>3, <2>4 DEF Mapped
<1>4. ASSUME NEW f \in M PROVE \E k \in K : doc[k] = f
  <2>1. f \in Docs(st) /\ f.status = s /\ <<v, c>> \in f.mapping
    BY DEF Mapped
  <2>2. PICK k \in DOMAIN st : f = [check |-> k[1], asset |-> k[2], severity |-> SeverityOf[k[1]],
                                    status |-> st[k], mapping |-> Mapping[k[1]]]
    BY <2>1 DEF Docs
  <2>3. st[k] = s /\ <<v, c>> \in Mapping[k[1]]
    BY <2>1, <2>2
  <2>4. k \in K
    BY <2>3 DEF KeysOf
  <2> QED
    BY <2>2, <2>3, <2>4
<1>5. ASSUME NEW k \in K, NEW l \in K, doc[k] = doc[l] PROVE k = l
  <2>1. doc[k].check = k[1] /\ doc[k].asset = k[2] /\ doc[l].check = l[1] /\ doc[l].asset = l[2]
    OBVIOUS
  <2>2. k \in Keys /\ l \in Keys
    BY <1>1 DEF KeysOf
  <2>3. k = <<k[1], k[2]>> /\ l = <<l[1], l[2]>>
    BY <2>2, FindingsAssumption
  <2> HIDE DEF doc
  <2> QED
    BY <1>5, <2>1, <2>3
<1>6. doc = [k \in K |-> doc[k]]
  OBVIOUS
<1> HIDE DEF doc, K, M
<1>7. doc \in Bijection(K, M)
  BY <1>3, <1>4, <1>5, <1>6 DEF Bijection, Injection, Surjection, IsInjective
<1>8. Cardinality(M) = Cardinality(K)
  BY <1>2, <1>7, FS_Bijection DEF ExistsBijection
<1>9. Rows(Docs(st))[<<v, c, s>>] = Cardinality(M)
  BY DocsWellFormed, RowsCount DEF M
<1> QED
  BY <1>2, <1>8, <1>9 DEF K

(* More that pass and fewer that fail make no smaller share.               *)
LEMMA ShareGrows ==
  ASSUME NEW p \in Nat, NEW q \in Nat, NEW f \in Nat, NEW g \in Nat, p <= q, g <= f
  PROVE  Ratio(p, p + f) <= Ratio(q, q + g)
<1>1. CASE p = 0
  <2>1. Ratio(p, p + f) = 0
    <3>1. CASE f = 0
      BY <1>1, <3>1 DEF Ratio
    <3>2. CASE f # 0
      <4>1. (2000 * p + (p + f)) \div (2 * (p + f)) = f \div (2 * f)
        BY <1>1
      <4>2. f \div (2 * f) = 0
        BY <3>2
      <4> QED
        BY <1>1, <3>2, <4>1, <4>2 DEF Ratio
    <3> QED
      BY <3>1, <3>2
  <2>2. Ratio(q, q + g) \in Tenths
    BY RatioIsInTenths
  <2> QED
    BY <2>1, <2>2 DEF Tenths
<1>2. CASE p # 0
  <2>1. PICK d \in Nat, x \in Nat : d = 2 * (p + f) /\ x = 2000 * p + (p + f) /\ d > 0
    BY <1>2
  <2>2. PICK e \in Nat, y \in Nat : e = 2 * (q + g) /\ y = 2000 * q + (q + g) /\ e > 0
    BY <1>2
  <2>3. PICK a \in Int : a = x \div d /\ d * a <= x
    BY <2>1
  <2>4. PICK b \in Int : b = y \div e /\ y < e * (b + 1)
    BY <2>2
  <2>5. p * g <= q * f
    <3>1. p * g <= q * g
      OBVIOUS
    <3>2. q * g <= q * f
      OBVIOUS
    <3>3. p * g \in Nat /\ q * g \in Nat /\ q * f \in Nat
      OBVIOUS
    <3> QED
      BY <3>1, <3>2, <3>3
  <2>6. x * e <= y * d
    <3>1. PICK pq \in Nat, pg \in Nat, qf \in Nat, fg \in Nat :
            pq = p * q /\ pg = p * g /\ qf = q * f /\ fg = f * g
      OBVIOUS
    <3>2. x * e = 4002 * pq + 4002 * pg + 2 * qf + 2 * fg
      BY <2>1, <2>2, <3>1
    <3>3. y * d = 4002 * pq + 4002 * qf + 2 * pg + 2 * fg
      BY <2>1, <2>2, <3>1
    <3> QED
      BY <2>5, <3>1, <3>2, <3>3
  <2>7. a < b + 1
    <3>1. SUFFICES ASSUME a >= b + 1 PROVE FALSE
      OBVIOUS
    <3>2. d * (b + 1) <= x
      <4>1. d * (b + 1) <= d * a
        BY <2>1, <3>1
      <4> QED
        BY <2>3, <4>1
    <3>3. (d * (b + 1)) * e <= x * e
      BY <2>1, <2>2, <3>2
    <3>4. y * d < (e * (b + 1)) * d
      BY <2>1, <2>2, <2>4
    <3>5. (d * (b + 1)) * e = (e * (b + 1)) * d
      BY <2>1, <2>2
    <3>6. x * e \in Int /\ y * d \in Int /\ (d * (b + 1)) * e \in Int
      OBVIOUS
    <3> QED
      BY <2>6, <3>3, <3>4, <3>5, <3>6
  <2>8. Ratio(p, p + f) = a /\ Ratio(q, q + g) = b
    BY <1>2, <2>1, <2>2, <2>3, <2>4 DEF Ratio
  <2> QED
    BY <2>7, <2>8
<1> QED
  BY <1>1, <1>2

(* The tally of a version without controls loses no passing finding.       *)
LEMMA BareDoesNotFall ==
  ASSUME NEW st, NEW nt, Triaged(st, nt), NEW v \in Versions, PassesStay(st, nt, v)
  PROVE  BareScore(Rows(Docs(st)), v) <= BareScore(Rows(Docs(nt)), v)
<1> DEFINE n(m, S) == Cardinality(KeysOf(m, v, Bare, S))
<1>1. st \in StatusMaps /\ nt \in StatusMaps /\ DOMAIN nt = DOMAIN st
  BY DEF Triaged
<1>2. ASSUME NEW m \in StatusMaps
      PROVE  /\ BareScore(Rows(Docs(m)), v) = Ratio(n(m, Passing), n(m, Passing) + n(m, {"FAIL"}))
             /\ IsFiniteSet(KeysOf(m, v, Bare, Passing))
             /\ IsFiniteSet(KeysOf(m, v, Bare, {"FAIL"}))
  <2>1. \A s \in Statuses : /\ Rows(Docs(m))[<<v, Bare, s>>] = n(m, {s})
                            /\ IsFiniteSet(KeysOf(m, v, Bare, {s}))
    BY RowCountsKeys
  <2>2. /\ KeysOf(m, v, Bare, Passing)
             = KeysOf(m, v, Bare, {"PASS"}) \cup KeysOf(m, v, Bare, {"ACCEPTED"})
        /\ KeysOf(m, v, Bare, {"PASS"}) \cap KeysOf(m, v, Bare, {"ACCEPTED"}) = {}
    BY DEF KeysOf, Passing
  <2>3. /\ IsFiniteSet(KeysOf(m, v, Bare, {"PASS"}))
        /\ IsFiniteSet(KeysOf(m, v, Bare, {"ACCEPTED"}))
        /\ IsFiniteSet(KeysOf(m, v, Bare, {"FAIL"}))
    BY <2>1 DEF Statuses
  <2>4. /\ n(m, {"PASS"}) \in Nat /\ n(m, {"ACCEPTED"}) \in Nat
        /\ n(m, Passing) = n(m, {"PASS"}) + n(m, {"ACCEPTED"})
        /\ IsFiniteSet(KeysOf(m, v, Bare, Passing))
    <3>1. /\ n(m, Passing) = n(m, {"PASS"}) + n(m, {"ACCEPTED"}) - Cardinality({})
          /\ IsFiniteSet(KeysOf(m, v, Bare, Passing))
      BY <2>2, <2>3, FS_Union
    <3> QED
      BY <2>3, <3>1, FS_EmptySet, FS_CardinalityType
  <2>5. /\ Rows(Docs(m))[<<v, Bare, "PASS">>] = n(m, {"PASS"})
        /\ Rows(Docs(m))[<<v, Bare, "ACCEPTED">>] = n(m, {"ACCEPTED"})
        /\ Rows(Docs(m))[<<v, Bare, "FAIL">>] = n(m, {"FAIL"})
    BY <2>1 DEF Statuses
  <2> HIDE DEF n
  <2> QED
    BY <2>3, <2>4, <2>5 DEF BareScore
<1>3. KeysOf(st, v, Bare, Passing) \in SUBSET KeysOf(nt, v, Bare, Passing)
  BY <1>1 DEF KeysOf, PassesStay
<1>4. KeysOf(nt, v, Bare, {"FAIL"}) \in SUBSET KeysOf(st, v, Bare, {"FAIL"})
  BY <1>1 DEF KeysOf, Triaged
<1>5. /\ n(st, Passing) \in Nat /\ n(nt, Passing) \in Nat
      /\ n(st, {"FAIL"}) \in Nat /\ n(nt, {"FAIL"}) \in Nat
      /\ n(st, Passing) <= n(nt, Passing)
      /\ n(nt, {"FAIL"}) <= n(st, {"FAIL"})
  BY <1>1, <1>2, <1>3, <1>4, FS_Subset, FS_CardinalityType
<1> HIDE DEF n
<1> QED
  BY <1>1, <1>2, <1>5, ShareGrows

(* Hidden versions stay hidden, so every page keeps what it is made of.    *)
LEMMA SummaryDoesNotFall ==
  ASSUME NEW st, NEW nt, Triaged(st, nt), NEW disabled
  PROVE  SummaryKeeps(st, nt, disabled)
<1> DEFINE R == Rows(Docs(st))
           Q == Rows(Docs(nt))
           old == Summary(Docs(st), disabled, None)
           new == Summary(Docs(nt), disabled, None)
<1>1. st \in StatusMaps /\ nt \in StatusMaps
  BY DEF Triaged
<1>2. WellFormed(Docs(st)) /\ WellFormed(Docs(nt))
  BY <1>1, DocsWellFormed
<1>3. ASSUME NEW v \in Versions, NEW c \in Controls \cup {Bare}
      PROVE  (\E s \in Statuses : Q[<<v, c, s>>] > 0) <=> (\E s \in Statuses : R[<<v, c, s>>] > 0)
  <2>1. \A s \in Statuses : /\ Q[<<v, c, s>>] > 0 <=> Mapped(Docs(nt), v, c, s) # {}
                            /\ R[<<v, c, s>>] > 0 <=> Mapped(Docs(st), v, c, s) # {}
    BY <1>2, RowsCount
  <2> HIDE DEF R, Q
  <2>2. (\E s \in Statuses : Mapped(Docs(nt), v, c, s) # {})
           <=> (\E s \in Statuses : Mapped(Docs(st), v, c, s) # {})
    BY StillFound
  <2> QED
    BY <2>1, <2>2
<1>4. /\ old.threat = ThreatScore(Aggregated(Docs(st), Hidden(R, disabled)))
      /\ new.threat = ThreatScore(Aggregated(Docs(nt), Hidden(Q, disabled)))
  BY DEF Summary
<1>5. /\ DOMAIN old.versions \subseteq Versions
      /\ \A v \in DOMAIN old.versions :
           /\ Found(R, v) # {} => old.versions[v] = ScoreByControl(R, v)
           /\ Found(R, v) = {} => old.versions[v].score = BareScore(R, v)
      /\ \A v \in DOMAIN new.versions :
           /\ Found(Q, v) # {} => new.versions[v] = ScoreByControl(Q, v)
           /\ Found(Q, v) = {} => new.versions[v].score = BareScore(Q, v)
  BY <1>2, SummaryShows
<1>6. /\ \A v \in Versions : Found(R, v) # {} => <<v, ScoreByControl(R, v).score>> \in Scores(st)
      /\ \A pair \in Scores(nt) : pair = <<pair[1], ScoreByControl(Q, pair[1]).score>>
  <2>1. ASSUME NEW m \in StatusMaps, NEW rows, rows = Rows(Docs(m))
        PROVE  /\ \A v \in Versions :
                    Found(rows, v) # {} => <<v, ScoreByControl(rows, v).score>> \in Scores(m)
               /\ \A pair \in Scores(m) : pair = <<pair[1], ScoreByControl(rows, pair[1]).score>>
    <3>1. Scores(m) = {<<w, ControlScores(rows)[w].score>> : w \in DOMAIN ControlScores(rows)}
      BY <2>1, ScoresAre DEF ScoresOf
    <3>2. /\ DOMAIN ControlScores(rows) = {w \in Versions : Found(rows, w) # {}}
          /\ \A w \in DOMAIN ControlScores(rows) :
               ControlScores(rows)[w] = ScoreByControl(rows, w)
      BY DEF ControlScores
    <3> QED
      BY <3>1, <3>2
  <2> QED
    BY <1>1, <2>1
<1> HIDE DEF R, Q, old, new
<1>7. Hidden(Q, disabled) = Hidden(R, disabled)
  BY <1>3 DEF Hidden, Has
<1>8. old.threat <= new.threat
  BY <1>4, <1>7, ThreatDoesNotGrow
<1>9. ASSUME NEW v \in DOMAIN old.versions \cap DOMAIN new.versions,
             Found(R, v) # {} \/ PassesStay(st, nt, v)
      PROVE  old.versions[v].score <= new.versions[v].score
  <2>1. v \in Versions
    BY <1>5
  <2>2. Found(Q, v) = Found(R, v)
    BY <1>3, <2>1 DEF Found
  <2>3. CASE Found(R, v) # {}
    <3>1. PICK pair \in Scores(nt) :
            pair[1] = v /\ pair[2] >= ScoreByControl(R, v).score
      <4>1. PICK was \in Scores(st) : was = <<v, ScoreByControl(R, v).score>>
        BY <1>6, <2>1, <2>3
      <4>2. PICK now \in Scores(nt) : now[1] = was[1] /\ now[2] >= was[2]
        BY ScoresDoNotFall
      <4> QED
        BY <4>1, <4>2
    <3>2. pair[2] = ScoreByControl(Q, v).score
      BY <1>6, <3>1
    <3>3. ScoreByControl(Q, v).score \in Tenths /\ ScoreByControl(R, v).score \in Tenths
      BY <2>1, ControlScoreInTenths
    <3>4. PICK x \in Tenths, y \in Tenths :
            x = ScoreByControl(R, v).score /\ y = ScoreByControl(Q, v).score
      BY <3>3
    <3>5. x <= y
      BY <3>1, <3>2, <3>4 DEF Tenths
    <3> QED
      BY <1>5, <1>9, <2>2, <2>3, <3>4, <3>5
  <2>4. CASE Found(R, v) = {}
    <3>1. BareScore(R, v) <= BareScore(Q, v)
      BY <1>9, <2>1, <2>4, BareDoesNotFall DEF R, Q
    <3> QED
      BY <1>5, <1>9, <2>2, <2>4, <3>1
  <2> QED
    BY <2>3, <2>4
<1> QED
  BY <1>8, <1>9 DEF SummaryKeeps, R, Q, old, new

LEMMA HarmlessTriage ==
  ASSUME NEW st, NEW nt, Triaged(st, nt), <<st, nt>> \in Triages
  PROVE  <<st, nt, TRUE>> \in Harmless
<1> DEFINE ok(t) == \A disabled \in SUBSET {Family(v) : v \in Versions} :
                      SummaryKeeps(t[1], t[2], disabled)
<1>1. PICK t \in Triages : t = <<st, nt>>
  OBVIOUS
<1>2. t[1] = st /\ t[2] = nt
  BY <1>1
<1>3. ok(t) = TRUE
  BY <1>2, SummaryDoesNotFall
<1>4. Harmless = {<<u[1], u[2], ok(u)>> : u \in Triages}
  BY DEF Harmless
<1> HIDE DEF ok
<1>5. <<t[1], t[2], ok(t)>> \in Harmless
  BY <1>4
<1> QED
  BY <1>2, <1>3, <1>5

LEMMA TriageStep ==
  ASSUME TypeInv, NEW k \in Keys, NEW status \in Statuses, Triage(k, status)
  PROVE  Triaged(Now, Now') /\ <<Now, Now'>> \in Triages
<1>1. /\ findings' = [findings EXCEPT ![k].status = status] /\ k \in DOMAIN findings
      /\ status \in {"MUTED", "ACCEPTED"}
  BY DEF Triage, Changed
<1>2. /\ DOMAIN findings \subseteq Keys
      /\ findings \in [DOMAIN findings -> Documents]
  BY DEF TypeInv, FindingsOK
<1>3. /\ DOMAIN findings' = DOMAIN findings
      /\ \A l \in DOMAIN findings :
           findings'[l].status = IF l = k THEN status ELSE findings[l].status
  BY <1>1, <1>2 DEF Documents
<1>4. /\ Now = [l \in DOMAIN findings |-> findings[l].status]
      /\ Now' = [l \in DOMAIN findings' |-> findings'[l].status]
  BY DEF Now, StatusOf
<1>5. \A l \in DOMAIN findings : findings[l].status \in Statuses
  BY <1>2 DEF Documents
<1>6. Now \in [DOMAIN findings -> Statuses] /\ Now' \in [DOMAIN findings -> Statuses]
  BY <1>3, <1>4, <1>5
<1>7. Now \in StatusMaps /\ Now' \in StatusMaps
  BY <1>2, <1>6 DEF StatusMaps
<1>8. /\ DOMAIN Now' = DOMAIN Now
      /\ \A l \in DOMAIN Now : Now'[l] = Now[l] \/ Now'[l] \in {"MUTED", "ACCEPTED"}
  BY <1>1, <1>3, <1>4
<1>9. Now' = [Now EXCEPT ![k] = status]
  BY <1>3, <1>4, <1>6
<1>10. <<Now, Now'>> \in Triages
  <2>1. PICK st \in StatusMaps, nt \in StatusMaps : st = Now /\ nt = Now'
    BY <1>7
  <2>2. k \in DOMAIN st /\ nt = [st EXCEPT ![k] = status] /\ nt \in StatusMaps
    BY <1>1, <1>4, <1>7, <1>9, <2>1
  <2>3. PICK t : t = <<st, nt>>
    OBVIOUS
  <2>4. t[1] = st /\ t[2] = nt /\ t \in StatusMaps \X StatusMaps
    BY <2>2, <2>3
  <2>5. t[2] = [t[1] EXCEPT ![k] = status]
    BY <2>2, <2>4
  <2>6. t \in Triages
    BY <1>1, <2>2, <2>4, <2>5 DEF Triages
  <2> QED
    BY <2>1, <2>3, <2>6
<1> QED
  BY <1>7, <1>8, <1>10 DEF Triaged

(* Muting a finding or accepting its risk takes no version's score by      *)
(* control away and lowers none; whatever families are disabled, the       *)
(* threat score does not fall, and no version that is still listed shows   *)
(* less, unless it is a bare tally and a passing finding of it was muted:  *)
(* for every mapping, catalog and table of weights.                        *)
THEOREM TriageIsFree == Spec => TriageNeverLowersAScore
<1>1. ASSUME TypeInv, [Next]_vars, edits' # edits
      PROVE  /\ \A old \in Scores(Now) :
                  \E new \in Scores(Now') : new[1] = old[1] /\ new[2] >= old[2]
             /\ <<Now, Now', TRUE>> \in Harmless
  <2>1. PICK k \in Keys, status \in Statuses : Triage(k, status)
    BY <1>1 DEF Next, vars, Start, Upsert, ReadScores, Record, Inventory, Abort, StartExport,
       ExportPage, NextDay
  <2>2. PICK st, nt : st = Now /\ nt = Now' /\ Triaged(st, nt) /\ <<st, nt>> \in Triages
    BY <1>1, <2>1, TriageStep
  <2>3. /\ \A old \in Scores(st) : \E new \in Scores(nt) : new[1] = old[1] /\ new[2] >= old[2]
        /\ <<st, nt, TRUE>> \in Harmless
    BY <2>2, ScoresDoNotFall, HarmlessTriage
  <2> QED
    BY <2>2, <2>3
<1> QED
  BY <1>1, TypeInit, TypeStep, PTL DEF Spec, TriageNeverLowersAScore

-----------------------------------------------------------------------------
(* The pages                                                               *)

(* The controls of the page of a version, and those of a status.           *)
All(F, v) == Found(Rows(F), v) \cup Catalogued(v)
Having(F, v, C, status) == {c \in C : Requirement(F, v, c).status = status}

LEMMA AllAreControls ==
  ASSUME NEW F, NEW v \in Versions
  PROVE  All(F, v) \in SUBSET Controls /\ IsFiniteSet(All(F, v))
<1>1. All(F, v) \in SUBSET Controls
  BY ComplianceAssumption DEF All, Found, Catalogued
<1> QED
  BY <1>1, ComplianceAssumption, FS_Subset

(* The cases of the status exclude each other.                             *)
LEMMA StatusOfRequirement ==
  ASSUME NEW F, NEW v, NEW c
  PROVE  Requirement(F, v, c).status =
           IF Mapped(F, v, c, "FAIL") # {} THEN "FAIL"
           ELSE IF Mapped(F, v, c, "PASS") \cup Mapped(F, v, c, "ACCEPTED") # {} THEN "PASS"
           ELSE "UNSCORED"
<1> DEFINE on(s) == Mapped(F, v, c, s)
           status == CASE on("FAIL") # {} -> "FAIL"
                       [] on("FAIL") = {} /\ on("PASS") \cup on("ACCEPTED") # {} -> "PASS"
                       [] OTHER -> "UNSCORED"
<1>1. Requirement(F, v, c).status = status
  BY DEF Requirement
<1>2. CASE on("FAIL") # {}
  BY <1>1, <1>2
<1>3. CASE on("FAIL") = {} /\ on("PASS") \cup on("ACCEPTED") # {}
  BY <1>1, <1>3
<1>4. CASE on("FAIL") = {} /\ on("PASS") \cup on("ACCEPTED") = {}
  BY <1>1, <1>4
<1> QED
  BY <1>2, <1>3, <1>4

(* The score by control, from rows, is the roll-up of the requirements.    *)
LEMMA HeadlineIsRollup ==
  ASSUME NEW F, WellFormed(F), NEW v \in Versions
  PROVE  /\ Rollup(F, v, All(F, v)) = ScoreByControl(Rows(F), v)
         /\ ScoreByControl(Rows(F), v).pass = Cardinality(Having(F, v, All(F, v), "PASS"))
         /\ ScoreByControl(Rows(F), v).fail = Cardinality(Having(F, v, All(F, v), "FAIL"))
         /\ ScoreByControl(Rows(F), v).total = Cardinality(All(F, v))
<1> DEFINE rows == Rows(F)
           all == All(F, v)
           fails == {c \in all : rows[<<v, c, "FAIL">>] > 0}
           passes == {c \in all \ fails : rows[<<v, c, "PASS">>] + rows[<<v, c, "ACCEPTED">>] > 0}
<1>1. ASSUME NEW c \in all
      PROVE  /\ rows[<<v, c, "FAIL">>] > 0 <=> Mapped(F, v, c, "FAIL") # {}
             /\ rows[<<v, c, "PASS">>] + rows[<<v, c, "ACCEPTED">>] > 0
                  <=> Mapped(F, v, c, "PASS") \cup Mapped(F, v, c, "ACCEPTED") # {}
  <2>1. c \in Controls \cup {Bare}
    BY AllAreControls
  <2>2. "FAIL" \in Statuses /\ "PASS" \in Statuses /\ "ACCEPTED" \in Statuses
    BY DEF Statuses
  <2>3. /\ rows[<<v, c, "FAIL">>] > 0 <=> Mapped(F, v, c, "FAIL") # {}
        /\ rows[<<v, c, "PASS">>] > 0 <=> Mapped(F, v, c, "PASS") # {}
        /\ rows[<<v, c, "ACCEPTED">>] > 0 <=> Mapped(F, v, c, "ACCEPTED") # {}
        /\ rows[<<v, c, "PASS">>] \in Nat /\ rows[<<v, c, "ACCEPTED">>] \in Nat
    BY <2>1, <2>2, RowsCount
  <2> HIDE DEF rows
  <2> QED
    BY <2>3
<1>2. fails = Having(F, v, all, "FAIL")
  <2> HIDE DEF rows, all
  <2> QED
    BY <1>1, StatusOfRequirement DEF Having
<1>3. passes = Having(F, v, all, "PASS")
  <2> HIDE DEF rows, all
  <2> QED
    BY <1>1, StatusOfRequirement DEF Having
<1>4. all \ fails = Having(F, v, all, "PASS") \cup Having(F, v, all, "UNSCORED")
  <2> HIDE DEF rows, all
  <2> QED
    BY <1>1, StatusOfRequirement DEF Having
<1>5. ScoreByControl(rows, v) =
        [score |-> Ratio(Cardinality(all \ fails), Cardinality(all)),
         pass |-> Cardinality(passes), fail |-> Cardinality(fails), total |-> Cardinality(all)]
  BY DEF ScoreByControl, All
<1>6. Rollup(F, v, all) =
        [score |-> Ratio(Cardinality(Having(F, v, all, "PASS") \cup Having(F, v, all, "UNSCORED")),
                         Cardinality(all)),
         pass |-> Cardinality(Having(F, v, all, "PASS")),
         fail |-> Cardinality(Having(F, v, all, "FAIL")),
         total |-> Cardinality(all)]
  BY DEF Rollup, Having
<1> HIDE DEF rows, all, fails, passes
<1> QED
  BY <1>2, <1>3, <1>4, <1>5, <1>6 DEF rows, all

(* Whatever set of controls is counted by section, it is counted once.     *)
Sections(F, v) == {SectionOf(v, c)[1] : c \in All(F, v)}

LEMMA SectionsAddUp ==
  ASSUME NEW F, NEW v \in Versions, NEW C \in SUBSET All(F, v), NEW size,
         DOMAIN size = Sections(F, v),
         \A s \in Sections(F, v) : size[s] = Cardinality({c \in C : SectionOf(v, c)[1] = s})
  PROVE  SumFunction(size) = Cardinality(C)
<1> DEFINE head == [c \in All(F, v) |-> SectionOf(v, c)[1]]
           part == [c \in C |-> SectionOf(v, c)[1]]
<1>1. IsFiniteSet(All(F, v)) /\ IsFiniteSet(C)
  BY AllAreControls, FS_Subset
<1>2. head \in Surjection(All(F, v), Sections(F, v))
  BY DEF Surjection, Sections
<1>3. IsFiniteSet(Sections(F, v))
  <2> HIDE DEF head
  <2> QED
    BY <1>1, <1>2, FS_Surjection
<1>4. part \in [C -> Sections(F, v)] /\ \A c \in C : part[c] = SectionOf(v, c)[1]
  BY DEF Sections
<1>5. \A s \in Sections(F, v) : size[s] = Cardinality({c \in C : part[c] = s})
  <2> SUFFICES ASSUME NEW s \in Sections(F, v)
               PROVE  size[s] = Cardinality({c \in C : part[c] = s})
    OBVIOUS
  <2>1. {c \in C : part[c] = s} = {c \in C : SectionOf(v, c)[1] = s}
    OBVIOUS
  <2> QED
    BY <2>1
<1> HIDE DEF part
<1>6. SumFunctionOnSet(size, Sections(F, v)) = Cardinality(C)
  BY <1>1, <1>3, <1>4, <1>5, SumOfSizes
<1> QED
  BY <1>6 DEF SumFunction

(* The assets under a control share out the findings that map to it.       *)
LEMMA AssetsAddUp ==
  ASSUME NEW F, WellFormed(F), NEW v, NEW c, NEW K,
         K \in SUBSET {f \in F : <<v, c>> \in f.mapping}, NEW size,
         DOMAIN size = {f.asset : f \in {g \in F : <<v, c>> \in g.mapping}},
         \A a \in DOMAIN size : size[a] = Cardinality({f \in K : f.asset = a})
  PROVE  SumFunction(size) = Cardinality(K)
<1> DEFINE on == {f \in F : <<v, c>> \in f.mapping}
           asset == [f \in on |-> f.asset]
           part == [f \in K |-> f.asset]
<1>1. IsFiniteSet(on) /\ IsFiniteSet(K)
  BY FS_Subset DEF WellFormed
<1>2. asset \in Surjection(on, DOMAIN size)
  BY DEF Surjection
<1>3. IsFiniteSet(DOMAIN size)
  <2> HIDE DEF asset, on
  <2> QED
    BY <1>1, <1>2, FS_Surjection
<1>4. part \in [K -> DOMAIN size] /\ \A f \in K : part[f] = f.asset
  OBVIOUS
<1>5. \A a \in DOMAIN size : size[a] = Cardinality({f \in K : part[f] = a})
  <2> SUFFICES ASSUME NEW a \in DOMAIN size
               PROVE  size[a] = Cardinality({f \in K : part[f] = a})
    OBVIOUS
  <2>1. {f \in K : part[f] = a} = {f \in K : f.asset = a}
    OBVIOUS
  <2> QED
    BY <2>1
<1> HIDE DEF part, on
<1>6. SumFunctionOnSet(size, DOMAIN size) = Cardinality(K)
  BY <1>1, <1>3, <1>4, <1>5, SumOfSizes
<1> QED
  BY <1>6 DEF SumFunction

(* Of some failed findings one weighs most.                                *)
LEMMA OneIsWorst ==
  ASSUME NEW F, WellFormed(F), NEW S \in SUBSET F, S # {}
  PROVE  \E f \in S : \A g \in S : Weight[g.severity] <= Weight[f.severity]
<1> DEFINE P == {s \in SUBSET S :
                   s # {} => \E f \in s : \A g \in s : Weight[g.severity] <= Weight[f.severity]}
<1>1. IsFiniteSet(S) /\ \A f \in S : Weight[f.severity] \in Nat
  BY FS_Subset, ComplianceAssumption DEF WellFormed
<1>2. ASSUME NEW s \in SUBSET S, \A t \in SUBSET s : t # s => t \in P
      PROVE  s \in P
  <2> SUFFICES ASSUME s # {}
               PROVE  \E f \in s : \A g \in s : Weight[g.severity] <= Weight[f.severity]
    OBVIOUS
  <2>1. PICK x : x \in s
    OBVIOUS
  <2>2. s \ {x} \in P
    BY <1>2, <2>1
  <2>3. CASE s \ {x} = {}
    <3>1. \A g \in s : g = x
      BY <2>3
    <3>2. Weight[x.severity] <= Weight[x.severity]
      BY <1>1, <2>1
    <3> QED
      BY <2>1, <3>1, <3>2
  <2>4. CASE s \ {x} # {}
    <3>1. PICK f \in s \ {x} : \A g \in s \ {x} : Weight[g.severity] <= Weight[f.severity]
      BY <2>2, <2>4
    <3>2. Weight[x.severity] \in Nat /\ \A g \in s : Weight[g.severity] \in Nat
      BY <1>1, <2>1
    <3>3. CASE Weight[x.severity] <= Weight[f.severity]
      <4>1. \A g \in s : Weight[g.severity] <= Weight[f.severity]
        BY <3>1, <3>3
      <4> QED
        BY <4>1
    <3>4. CASE ~(Weight[x.severity] <= Weight[f.severity])
      <4>1. \A g \in s : Weight[g.severity] <= Weight[x.severity]
        BY <3>1, <3>2, <3>4
      <4> QED
        BY <2>1, <4>1
    <3> QED
      BY <3>3, <3>4
  <2> QED
    BY <2>3, <2>4
<1>3. S \in P
  <2> HIDE DEF P
  <2>1. SUBSET S \subseteq P
    BY <1>1, <1>2, SubsetInduction
  <2> QED
    BY <2>1
<1> QED
  BY <1>3

(* The three sums over sections.                                           *)
LEMMA PageHeadAddsUp ==
  ASSUME NEW F, WellFormed(F), NEW v \in Versions, NEW field \in {"pass", "fail", "total"}
  PROVE  LET page == FrameworkDetail(F, v)
         IN SumFunction([s \in DOMAIN page.sections |-> page.sections[s].rollup[field]])
              = page.headline[field]
<1> DEFINE page == FrameworkDetail(F, v)
           within(s) == {c \in All(F, v) : SectionOf(v, c)[1] = s}
           size == [s \in DOMAIN page.sections |-> page.sections[s].rollup[field]]
           C == IF field = "total" THEN All(F, v)
                ELSE Having(F, v, All(F, v), IF field = "pass" THEN "PASS" ELSE "FAIL")
<1>1. page.headline = ScoreByControl(Rows(F), v)
  BY DEF FrameworkDetail
<1>2. /\ DOMAIN page.sections = Sections(F, v)
      /\ \A s \in Sections(F, v) : page.sections[s].rollup = Rollup(F, v, within(s))
  BY DEF FrameworkDetail, Sections, All
<1>3. page.headline[field] = Cardinality(C)
  <2> HIDE DEF page
  <2> QED
    BY <1>1, HeadlineIsRollup
<1>4. ASSUME NEW s \in Sections(F, v)
      PROVE  size[s] = Cardinality({c \in C : SectionOf(v, c)[1] = s})
  <2>1. size[s] = Rollup(F, v, within(s))[field]
    <3> HIDE DEF page
    <3> QED
      BY <1>2
  <2>2. /\ Rollup(F, v, within(s)).pass = Cardinality(Having(F, v, within(s), "PASS"))
        /\ Rollup(F, v, within(s)).fail = Cardinality(Having(F, v, within(s), "FAIL"))
        /\ Rollup(F, v, within(s)).total = Cardinality(within(s))
    BY DEF Rollup, Having
  <2>3. ASSUME NEW status
        PROVE  Having(F, v, within(s), status)
                 = {c \in Having(F, v, All(F, v), status) : SectionOf(v, c)[1] = s}
    BY DEF Having
  <2>4. CASE field = "pass"
    BY <2>1, <2>2, <2>3, <2>4
  <2>5. CASE field = "fail"
    BY <2>1, <2>2, <2>3, <2>5
  <2>6. CASE field = "total"
    BY <2>1, <2>2, <2>6
  <2> QED
    BY <2>4, <2>5, <2>6
<1>5. C \in SUBSET All(F, v)
  BY DEF Having
<1>6. DOMAIN size = Sections(F, v)
  <2> HIDE DEF page
  <2> QED
    BY <1>2
<1>7. SumFunction(size) = Cardinality(C)
  <2> HIDE DEF size, C
  <2> QED
    BY <1>4, <1>5, <1>6, SectionsAddUp
<1> QED
  BY <1>3, <1>7

(* The two sums over assets, and the link of a requirement.                *)
LEMMA RequirementAddsUp ==
  ASSUME NEW F, WellFormed(F), NEW v \in Versions, NEW c \in Controls
  PROVE  LET need == Requirement(F, v, c)
             assets == ControlAssets(F, v, c)
         IN /\ need.count["FAIL"] = SumFunction([a \in DOMAIN assets |-> assets[a].fail])
            /\ need.count["PASS"] + need.count["ACCEPTED"]
                 = SumFunction([a \in DOMAIN assets |-> assets[a].pass])
            /\ need.status # "UNSCORED" => need.links # {}
<1> DEFINE need == Requirement(F, v, c)
           assets == ControlAssets(F, v, c)
           on(s) == Mapped(F, v, c, s)
           pass == [a \in DOMAIN assets |-> assets[a].pass]
           fail == [a \in DOMAIN assets |-> assets[a].fail]
<1>1. \A s \in Statuses : need.count[s] = Cardinality(on(s))
  BY DEF Requirement
<1>2. "FAIL" \in Statuses /\ "PASS" \in Statuses /\ "ACCEPTED" \in Statuses
  BY DEF Statuses
<1>3. /\ DOMAIN assets = {f.asset : f \in {g \in F : <<v, c>> \in g.mapping}}
      /\ \A a \in DOMAIN assets :
           /\ assets[a].pass = Cardinality({f \in F : /\ f.asset = a
                                                      /\ f.status \in {"PASS", "ACCEPTED"}
                                                      /\ <<v, c>> \in f.mapping})
           /\ assets[a].fail = Cardinality({f \in F : f.asset = a /\ f.status \in {"FAIL"}
                                                      /\ <<v, c>> \in f.mapping})
  BY DEF ControlAssets
<1>4. SumFunction(fail) = Cardinality(on("FAIL"))
  <2>1. ASSUME NEW a
        PROVE  {f \in F : f.asset = a /\ f.status \in {"FAIL"} /\ <<v, c>> \in f.mapping}
                 = {f \in on("FAIL") : f.asset = a}
    BY DEF Mapped
  <2>2. /\ DOMAIN fail = {f.asset : f \in {g \in F : <<v, c>> \in g.mapping}}
        /\ \A a \in DOMAIN fail : fail[a] = Cardinality({f \in on("FAIL") : f.asset = a})
    <3> HIDE DEF assets, on
    <3> QED
      BY <1>3, <2>1
  <2>3. on("FAIL") \in SUBSET {f \in F : <<v, c>> \in f.mapping}
    BY DEF Mapped
  <2> HIDE DEF fail, on
  <2> QED
    BY <2>2, <2>3, AssetsAddUp
<1>5. SumFunction(pass) = Cardinality(on("PASS") \cup on("ACCEPTED"))
  <2>1. ASSUME NEW a
        PROVE  {f \in F : /\ f.asset = a /\ f.status \in {"PASS", "ACCEPTED"}
                          /\ <<v, c>> \in f.mapping}
                 = {f \in on("PASS") \cup on("ACCEPTED") : f.asset = a}
    BY DEF Mapped
  <2>2. /\ DOMAIN pass = {f.asset : f \in {g \in F : <<v, c>> \in g.mapping}}
        /\ \A a \in DOMAIN pass :
             pass[a] = Cardinality({f \in on("PASS") \cup on("ACCEPTED") : f.asset = a})
    <3> HIDE DEF assets, on
    <3> QED
      BY <1>3, <2>1
  <2>3. on("PASS") \cup on("ACCEPTED") \in SUBSET {f \in F : <<v, c>> \in f.mapping}
    BY DEF Mapped
  <2> HIDE DEF pass, on
  <2> QED
    BY <2>2, <2>3, AssetsAddUp
<1>6. Cardinality(on("PASS") \cup on("ACCEPTED"))
        = Cardinality(on("PASS")) + Cardinality(on("ACCEPTED"))
  <2>1. on("PASS") \cap on("ACCEPTED") = {}
    BY DEF Mapped
  <2>2. IsFiniteSet(on("PASS")) /\ IsFiniteSet(on("ACCEPTED"))
    BY <1>2, RowsCount
  <2>3. Cardinality(on("PASS")) \in Nat /\ Cardinality(on("ACCEPTED")) \in Nat
    BY <2>2, FS_CardinalityType
  <2>4. Cardinality(on("PASS") \cap on("ACCEPTED")) = 0
    BY <2>1, FS_EmptySet
  <2>5. Cardinality(on("PASS") \cup on("ACCEPTED"))
          = Cardinality(on("PASS")) + Cardinality(on("ACCEPTED"))
              - Cardinality(on("PASS") \cap on("ACCEPTED"))
    BY <2>2, FS_Union
  <2> QED
    BY <2>3, <2>4, <2>5
<1>7. need.status # "UNSCORED" => need.links # {}
  <2> DEFINE worst == {f \in on("FAIL") :
                         \A g \in on("FAIL") : Weight[g.severity] <= Weight[f.severity]}
             status == need.status
  <2>1. need.links = CASE status = "FAIL" -> worst
                       [] status = "PASS" -> IF on("PASS") # {} THEN on("PASS") ELSE on("ACCEPTED")
                       [] OTHER -> on("MUTED")
    BY DEF Requirement
  <2>2. status = IF on("FAIL") # {} THEN "FAIL"
                 ELSE IF on("PASS") \cup on("ACCEPTED") # {} THEN "PASS" ELSE "UNSCORED"
    BY StatusOfRequirement
  <2>3. on("FAIL") # {} => worst # {}
    <3>1. on("FAIL") \in SUBSET F
      BY DEF Mapped
    <3> HIDE DEF on
    <3> QED
      BY <3>1, OneIsWorst
  <2> HIDE DEF status, worst, on, need
  <2>4. CASE status = "FAIL"
    BY <2>1, <2>2, <2>3, <2>4
  <2>5. CASE status = "PASS"
    <3>1. need.links = IF on("PASS") # {} THEN on("PASS") ELSE on("ACCEPTED")
      BY <2>1, <2>5
    <3>2. on("PASS") \cup on("ACCEPTED") # {}
      BY <2>2, <2>5
    <3> QED
      BY <3>1, <3>2
  <2> QED
    BY <2>2, <2>4, <2>5 DEF status
<1> HIDE DEF need, on, fail, pass
<1>8. need.count["FAIL"] = SumFunction(fail)
  BY <1>1, <1>2, <1>4
<1>9. need.count["PASS"] + need.count["ACCEPTED"] = SumFunction(pass)
  BY <1>1, <1>2, <1>5, <1>6
<1> QED
  BY <1>7, <1>8, <1>9 DEF need, fail, pass

LEMMA PageIsConsistent ==
  ASSUME NEW F, WellFormed(F), NEW v \in Versions
  PROVE  PageAddsUp(F, v)
<1> DEFINE page == FrameworkDetail(F, v)
<1>1. page.headline = ScoreByControl(Rows(F), v) /\ DOMAIN page.requirements = All(F, v)
  BY DEF FrameworkDetail, All
<1>2. \A c \in All(F, v) : page.requirements[c] = Requirement(F, v, c) /\ c \in Controls
  BY AllAreControls DEF FrameworkDetail, All
<1>3. \A field \in {"pass", "fail", "total"} :
        SumFunction([s \in DOMAIN page.sections |-> page.sections[s].rollup[field]])
          = page.headline[field]
  BY PageHeadAddsUp
<1>4. Rollup(F, v, DOMAIN page.requirements) = page.headline
  <2> HIDE DEF page
  <2> QED
    BY <1>1, HeadlineIsRollup
<1>5. ASSUME NEW c \in DOMAIN page.requirements
      PROVE  LET need == page.requirements[c]
                 assets == ControlAssets(F, v, c)
             IN /\ need.count["FAIL"] = SumFunction([a \in DOMAIN assets |-> assets[a].fail])
                /\ need.count["PASS"] + need.count["ACCEPTED"]
                     = SumFunction([a \in DOMAIN assets |-> assets[a].pass])
                /\ need.status # "UNSCORED" => need.links # {}
  <2> HIDE DEF page
  <2>1. page.requirements[c] = Requirement(F, v, c) /\ c \in Controls
    BY <1>1, <1>2
  <2> QED
    BY <2>1, RequirementAddsUp
<1> QED
  BY <1>3, <1>4, <1>5 DEF PageAddsUp

LEMMA SummaryAgrees ==
  ASSUME NEW F, WellFormed(F)
  PROVE  SummaryIsPages(F)
<1> SUFFICES ASSUME NEW disabled \in SUBSET {Family(v) : v \in Versions}
             PROVE  LET shown == Summary(F, disabled, None).versions
                    IN /\ {Family(v) : v \in DOMAIN shown} = SettingsList(F) \ disabled
                       /\ \A v \in DOMAIN shown :
                            /\ HasDetail(F, v)
                            /\ v \in DOMAIN ControlScores(Rows(F)) =>
                                 shown[v] = FrameworkDetail(F, v).headline
  BY DEF SummaryIsPages
<1> DEFINE all == Rows(F)
           shown == Summary(F, disabled, None).versions
<1>1. /\ DOMAIN shown = {v \in Versions : Shown(F, v) /\ Family(v) \notin disabled}
      /\ SettingsList(F) = {Family(v) : v \in {w \in Versions : Shown(F, w)}}
      /\ \A v \in DOMAIN shown : Has(all, v) /\ (Found(all, v) # {} => shown[v] = ScoreByControl(all, v))
  BY SummaryShows
<1>2. \A v \in DOMAIN ControlScores(all) : Found(all, v) # {}
  BY DEF ControlScores
<1>3. \A v : FrameworkDetail(F, v).headline = ScoreByControl(all, v)
  BY DEF FrameworkDetail
<1>4. \A v : Has(all, v) => HasDetail(F, v)
  BY DEF HasDetail
<1> HIDE DEF all, shown
<1>5. {Family(v) : v \in DOMAIN shown} = SettingsList(F) \ disabled
  BY <1>1
<1>6. \A v \in DOMAIN shown : /\ HasDetail(F, v)
                              /\ v \in DOMAIN ControlScores(all) =>
                                   shown[v] = FrameworkDetail(F, v).headline
  BY <1>1, <1>2, <1>3, <1>4
<1> QED
  BY <1>5, <1>6 DEF shown, all

LEMMA PagesAreConsistent ==
  ASSUME FindingsOK
  PROVE  PagesAgree
<1>1. Now \in [DOMAIN findings -> Statuses]
  BY DEF FindingsOK, Now, StatusOf, Documents
<1>2. Now \in StatusMaps
  BY <1>1 DEF FindingsOK, StatusMaps
<1>3. WellFormed(Docs(Now))
  BY <1>2, DocsWellFormed
<1> DEFINE agree(st) == SummaryIsPages(Docs(st)) /\ \A v \in Versions : PageAddsUp(Docs(st), v)
<1>4. agree(Now)
  BY <1>3, SummaryAgrees, PageIsConsistent
<1>5. Agreeing = {<<st, agree(st)>> : st \in StatusMaps}
  BY DEF Agreeing
<1> HIDE DEF agree
<1> QED
  BY <1>2, <1>4, <1>5 DEF PagesAgree

(* "get_compliance_summary overwrites every other version's score with the *)
(* real By Control score" (compliance_service.py:40): for every set of     *)
(* findings, whatever checks map to, catalogs list and users disable, the  *)
(* summary shows the heads of the pages it links to, sections and assets   *)
(* add up to what is over them, and a scored requirement has a link.       *)
THEOREM PagesAlwaysAgree == Spec => []PagesAgree
<1>1. TypeInv => PagesAgree
  BY PagesAreConsistent DEF TypeInv
<1> QED
  BY <1>1, TypeInit, TypeStep, PTL DEF Spec
=============================================================================
