------------------------------ MODULE Findings ------------------------------
(***************************************************************************)
(* The findings of a tenant between its writers and its readers: scans of  *)
(* several accounts that upsert findings, record the day's compliance      *)
(* scores and remove what belongs to assets that are gone; users who mute  *)
(* or accept a finding; and an export that reads page after page while all *)
(* this goes on.                                                           *)
(*                                                                         *)
(* Source: services/findings_service.py, api/v1/findings.py, the calls of  *)
(* workers/tasks/cspm_scan.py, and Compliance for the scores.  The steps   *)
(* of a scan's inventory are those of CspmInventory, here one action.      *)
(***************************************************************************)
EXTENDS Compliance

CONSTANTS
  Keys,       \* finding keys: pairs <<check, asset>>
  Rank,       \* the order of the keys, which are hashes
  Mapping,    \* check -> the entries it maps to
  SeverityOf, \* check -> severity
  Scanners,   \* the accounts that are scanned
  AccountOf,  \* asset -> the account it belongs to
  PageSize,   \* rows of a page of the export
  Filters,    \* the sets of statuses an export may be limited to
  MaxScans,   \* bound: scans
  MaxEvents   \* bound: findings triaged, exports and midnights

Checks == {k[1] : k \in Keys}
Assets == {k[2] : k \in Keys}

ASSUME FindingsAssumption ==
  /\ IsFiniteSet(Keys) /\ \A k \in Keys : k = <<k[1], k[2]>>
  /\ None \notin [at : Nat, rank : Nat]
  /\ Rank \in [Keys -> Nat]
  /\ \A k, l \in Keys : Rank[k] = Rank[l] => k = l
  /\ Mapping \in [Checks -> SUBSET Entries]
  /\ SeverityOf \in [Checks -> DOMAIN Weight]
  /\ AccountOf \in [Assets -> Scanners]
  /\ PageSize \in Nat \ {0}
  /\ Filters \subseteq SUBSET Statuses
  /\ MaxScans \in Nat /\ MaxEvents \in Nat

VARIABLES
  findings,  \* key -> status and detected_at, for the documents there are
  live,      \* the assets with an active document
  scan,      \* what the scan of each account is doing
  points,    \* today's points of the score trend: <<version, score>>
  export,    \* the export under way
  clock,     \* scans begun: the time of their findings
  edits,     \* findings muted or accepted
  day,       \* days passed
  exports,   \* exports begun
  current    \* history: no finding changed since today's scores were read

vars == <<findings, live, scan, points, export, clock, edits, day, exports, current>>

(* The documents with the statuses st as Compliance reads them, and their  *)
(* scores, pairs <<version, score>>: functions of the statuses alone, so   *)
(* TLC computes them once, in a table.                                     *)
StatusMaps == UNION {[K -> Statuses] : K \in SUBSET Keys}
Docs(st) == {[check |-> k[1], asset |-> k[2], severity |-> SeverityOf[k[1]],
              status |-> st[k], mapping |-> Mapping[k[1]]] : k \in DOMAIN st}
ScoresOf(F) ==
  LET scores == ControlScores(Rows(F)) IN {<<v, scores[v].score>> : v \in DOMAIN scores}
ScoreTable == {<<st, ScoresOf(Docs(st))>> : st \in StatusMaps}
AllScores == {row[2] : row \in ScoreTable}
Scores(st) == CHOOSE W \in AllScores : <<st, W>> \in ScoreTable

StatusOf(docs) == [k \in DOMAIN docs |-> docs[k].status]
Now == StatusOf(findings)

Own(s) == {k \in Keys : AccountOf[k[2]] = s}
Idle == [pc |-> "idle"]
NoExport == [pc |-> "none"]

(* Scores.                                                                 *)
Tenths == 0..1000

TypeOK ==
  /\ DOMAIN findings \subseteq Keys
  /\ \A k \in DOMAIN findings :
       findings[k].status \in Statuses /\ findings[k].at \in 1..clock
  /\ live \subseteq Assets
  /\ \A s \in Scanners : scan[s] = Idle \/
       /\ scan[s].pc \in {"upsert", "record", "inventory"}
       /\ scan[s].todo \subseteq DOMAIN scan[s].report
       /\ DOMAIN scan[s].report \subseteq Own(s)
  /\ points \subseteq Versions \X Tenths
  /\ \A p, q \in points : p[1] = q[1] => p = q
  /\ export = NoExport \/
       /\ export.pc \in {"page", "done"}
       /\ export.must \subseteq DOMAIN findings
       /\ DOMAIN export.rows \subseteq Keys

Init ==
  /\ findings = <<>>
  /\ live = {}
  /\ scan = [s \in Scanners |-> Idle]
  /\ points = {}
  /\ export = NoExport
  /\ clock = 0 /\ edits = 0 /\ day = 0 /\ exports = 0
  /\ current = FALSE

-----------------------------------------------------------------------------
(* What changes with the findings: the scores that were read go stale, and *)
(* an export need not list what was removed or left its filter.            *)
Changed(new) ==
  /\ findings' = new
  /\ current' = FALSE
  /\ export' = IF export = NoExport THEN export
               ELSE [export EXCEPT !.must =
                       {k \in @ : k \in DOMAIN new /\ new[k].status \in export.filter}]

(* ... and so do those a scan has read and not recorded yet.               *)
Outdated ==
  [s \in Scanners |-> IF scan[s] = Idle THEN Idle ELSE [scan[s] EXCEPT !.fresh = FALSE]]

(* A report of an account: what its checks say of the assets they saw.     *)
Reports(s) == UNION {[K -> {"FAIL", "PASS"}] : K \in SUBSET Own(s)}

(* The scanner has run; its findings all carry the time of this moment.    *)
Start(s) ==
  /\ scan[s] = Idle
  /\ clock < MaxScans
  /\ clock' = clock + 1
  /\ \E r \in Reports(s) :
       scan' = [scan EXCEPT ![s] =
                  [pc |-> "upsert", report |-> r, todo |-> DOMAIN r, at |-> clock + 1,
                   scores |-> {}, fresh |-> FALSE, today |-> FALSE]]
  /\ UNCHANGED <<findings, live, points, export, edits, day, exports, current>>

(* upsert_finding: the time is written by the insert alone, the status by  *)
(* both, over a mute or an acceptance too.                                 *)
Upserted(s, k) ==
  [status |-> scan[s].report[k],
   at |-> IF k \in DOMAIN findings THEN findings[k].at ELSE scan[s].at]

Upsert(s, k) ==
  /\ scan[s].pc = "upsert"
  /\ k \in scan[s].todo
  /\ Changed([l \in DOMAIN findings \cup {k} |->
                IF l = k THEN Upserted(s, k) ELSE findings[l]])
  /\ scan' = [Outdated EXCEPT ![s].todo = @ \ {k}]
  /\ UNCHANGED <<live, points, clock, edits, day, exports>>

(* snapshot_compliance_scores: the scores are read in one query ...        *)
ReadScores(s) ==
  /\ scan[s].pc = "upsert"
  /\ scan[s].todo = {}
  /\ scan' = [scan EXCEPT ![s] =
               [@ EXCEPT !.pc = "record", !.fresh = TRUE, !.today = TRUE,
                         !.scores = Scores(Now)]]
  /\ UNCHANGED <<findings, live, points, export, clock, edits, day, exports, current>>

(* Variants: a point that is there is kept, or joined by a second one.     *)
RecordedOnce(W) == points \cup {w \in W : \A p \in points : w[1] # p[1]}
RecordedTwice(W) == points \cup W

Recorded(W) == W \cup {p \in points : \A w \in W : w[1] # p[1]}

(* ... and written one version after the other, over the points of the     *)
(* same day.  Whatever fails, the scan goes on.                            *)
Record(s) ==
  /\ scan[s].pc = "record"
  /\ \E W \in SUBSET scan[s].scores :
       /\ points' = IF scan[s].today THEN Recorded(W) ELSE points
       /\ current' = IF scan[s].today /\ W # {}
                     THEN scan[s].fresh /\ (current \/ W = scan[s].scores)
                     ELSE current
  /\ scan' = [scan EXCEPT ![s].pc = "inventory"]
  /\ UNCHANGED <<findings, live, export, clock, edits, day, exports>>

(* The assets that were seen are upserted, the others of the account are   *)
(* marked deleted, and what was found on those just marked is removed.     *)
Inventory(s) ==
  /\ scan[s].pc = "inventory"
  /\ LET seen == {k[2] : k \in DOMAIN scan[s].report}
         gone == {a \in live \ seen : AccountOf[a] = s}
         kept == {k \in DOMAIN findings : k[2] \notin gone}
     IN /\ live' = (live \ gone) \cup seen
        /\ IF kept = DOMAIN findings
           THEN /\ scan' = [scan EXCEPT ![s] = Idle]
                /\ UNCHANGED <<findings, export, current>>
           ELSE /\ Changed([k \in kept |-> findings[k]])
                /\ scan' = [Outdated EXCEPT ![s] = Idle]
  /\ UNCHANGED <<points, clock, edits, day, exports>>

(* The scan fails, or its worker dies, between two of its steps.           *)
Abort(s) ==
  /\ scan[s] # Idle
  /\ scan' = [scan EXCEPT ![s] = Idle]
  /\ UNCHANGED <<findings, live, points, export, clock, edits, day, exports, current>>

-----------------------------------------------------------------------------
(* Users                                                                   *)

(* update_finding_status, of a finding that is there.                      *)
Triage(k, status) ==
  /\ edits + exports + day < MaxEvents
  /\ k \in DOMAIN findings
  /\ status \in {"MUTED", "ACCEPTED"}
  /\ Changed([findings EXCEPT ![k].status = status])
  /\ scan' = Outdated
  /\ edits' = edits + 1
  /\ UNCHANGED <<live, points, clock, day, exports>>

(* A row precedes another one in the order of list_findings, newest first. *)
Precedes(k, l) ==
  \/ findings[k].at > findings[l].at
  \/ findings[k].at = findings[l].at /\ Rank[k] > Rank[l]

(* Variant: a cursor that holds the time alone.                            *)
PastByTime(cursor, k) == cursor = None \/ findings[k].at < cursor.at

(* The rows that match, past the cursor: the last row of the page before.  *)
Past(cursor, k) ==
  \/ cursor = None
  \/ findings[k].at < cursor.at
  \/ findings[k].at = cursor.at /\ Rank[k] < cursor.rank

Matching(filter, cursor) ==
  {k \in DOMAIN findings : findings[k].status \in filter /\ Past(cursor, k)}

CursorAt(k) == [at |-> findings[k].at, rank |-> Rank[k]]

(* export_findings_endpoint, with its filter on the status.                *)
StartExport(filter) ==
  /\ export.pc # "page"
  /\ edits + exports + day < MaxEvents
  /\ exports' = exports + 1
  /\ export' = [pc |-> "page", filter |-> filter, cursor |-> None,
                must |-> Matching(filter, None), rows |-> <<>>]
  /\ UNCHANGED <<findings, live, scan, points, clock, edits, day, current>>

(* One page, the first rows in that order; one row more than fits tells    *)
(* that there is a next page, which begins after the last row of this one. *)
Before(rows, k) == {l \in rows : Precedes(l, k)}
FirstOf(rows) == {k \in rows : Cardinality(Before(rows, k)) < PageSize}
LastOf(page) == CHOOSE k \in page : \A l \in page : l = k \/ Precedes(l, k)

ExportPage ==
  /\ export.pc = "page"
  /\ LET rows == Matching(export.filter, export.cursor)
         page == FirstOf(rows)
         more == Cardinality(rows) > PageSize
     IN export' = [export EXCEPT
          !.rows = [k \in DOMAIN @ \cup page |->
                      (IF k \in DOMAIN @ THEN @[k] ELSE 0) + (IF k \in page THEN 1 ELSE 0)],
          !.cursor = IF more THEN CursorAt(LastOf(page)) ELSE @,
          !.pc = IF more THEN "page" ELSE "done"]
  /\ UNCHANGED <<findings, live, scan, points, clock, edits, day, exports, current>>

(* A new day: yesterday's points are history, and a snapshot that was read *)
(* yesterday is recorded there.                                            *)
NextDay ==
  /\ edits + exports + day < MaxEvents
  /\ day' = day + 1
  /\ points' = {}
  /\ current' = FALSE
  /\ scan' = [s \in Scanners |-> IF scan[s] = Idle THEN Idle ELSE [scan[s] EXCEPT !.today = FALSE]]
  /\ UNCHANGED <<findings, live, export, clock, edits, exports>>

Next ==
  \/ \E s \in Scanners :
       \/ Start(s) \/ ReadScores(s) \/ Record(s) \/ Inventory(s) \/ Abort(s)
       \/ \E k \in Own(s) : Upsert(s, k)
  \/ \E k \in Keys, status \in Statuses : Triage(k, status)
  \/ \E filter \in Filters : StartExport(filter)
  \/ ExportPage
  \/ NextDay

Spec == Init /\ [][Next]_vars

-----------------------------------------------------------------------------
(* Properties                                                              *)

(* An export that reaches its end has listed every finding that was there  *)
(* and matched its filter from beginning to end, and no export lists one   *)
(* twice: the pages join although scans insert, update and remove rows     *)
(* between them.                                                           *)
ExportComplete ==
  export # NoExport =>
    /\ \A k \in DOMAIN export.rows : export.rows[k] = 1
    /\ export.pc = "done" => export.must \subseteq DOMAIN export.rows

(* What a triage may do to the summary, whatever families are disabled:    *)
(* the threat score does not fall, and no version that is still listed     *)
(* shows less.  A version whose mappings name no control is a tally that   *)
(* ignores what is muted, and loses what a muted PASS gave it.             *)
Passing == {"PASS", "ACCEPTED"}
PassesStay(st, nt, v) ==
  \A k \in DOMAIN st :
    (st[k] \in Passing /\ <<v, Bare>> \in Mapping[k[1]]) => nt[k] \in Passing

SummaryKeeps(st, nt, disabled) ==
  LET old == Summary(Docs(st), disabled, None)
      new == Summary(Docs(nt), disabled, None)
  IN /\ old.threat <= new.threat
     /\ \A v \in DOMAIN old.versions \cap DOMAIN new.versions :
          (Found(Rows(Docs(st)), v) # {} \/ PassesStay(st, nt, v))
            => old.versions[v].score <= new.versions[v].score

Triages ==
  {t \in StatusMaps \X StatusMaps :
     \E k \in DOMAIN t[1], status \in {"MUTED", "ACCEPTED"} : t[2] = [t[1] EXCEPT ![k] = status]}
Harmless ==
  {<<t[1], t[2], \A disabled \in SUBSET {Family(v) : v \in Versions} :
                    SummaryKeeps(t[1], t[2], disabled)>> : t \in Triages}

(* Muting a finding or accepting its risk costs no points by control: no   *)
(* version loses the score that is recorded for it, or part of it; and it  *)
(* is harmless to the summary, within the limits above.                    *)
TriageNeverLowersAScore ==
  [][edits' # edits =>
       /\ \A old \in Scores(Now) :
            \E new \in Scores(Now') : new[1] = old[1] /\ new[2] >= old[2]
       /\ <<Now, Now', TRUE>> \in Harmless]_vars

(* Three queries fold the same findings in three places.  Whatever is      *)
(* disabled, the summary shows exactly the other families that can be      *)
(* configured, each version with the numbers at the head of its own page;  *)
(* the sections of that page add up to its head, and the assets under a    *)
(* control to the counts of its requirement, which links to a finding that *)
(* explains its status.                                                    *)
SummaryIsPages(F) ==
  \A disabled \in SUBSET {Family(v) : v \in Versions} :
    LET shown == Summary(F, disabled, None).versions
    IN /\ {Family(v) : v \in DOMAIN shown} = SettingsList(F) \ disabled
       /\ \A v \in DOMAIN shown :
            /\ HasDetail(F, v)
            /\ v \in DOMAIN ControlScores(Rows(F)) =>
                 shown[v] = FrameworkDetail(F, v).headline

PageAddsUp(F, v) ==
  LET page == FrameworkDetail(F, v)
  IN /\ \A field \in {"pass", "fail", "total"} :
          SumFunction([s \in DOMAIN page.sections |-> page.sections[s].rollup[field]])
            = page.headline[field]
     /\ Rollup(F, v, DOMAIN page.requirements) = page.headline
     /\ \A c \in DOMAIN page.requirements :
          LET need == page.requirements[c]
              assets == ControlAssets(F, v, c)
          IN /\ need.count["FAIL"] = SumFunction([a \in DOMAIN assets |-> assets[a].fail])
             /\ need.count["PASS"] + need.count["ACCEPTED"]
                  = SumFunction([a \in DOMAIN assets |-> assets[a].pass])
             /\ need.status # "UNSCORED" => need.links # {}

Agreeing ==
  {<<st, SummaryIsPages(Docs(st)) /\ \A v \in Versions : PageAddsUp(Docs(st), v)>>
     : st \in StatusMaps}

PagesAgree == <<Now, TRUE>> \in Agreeing

(* While no finding has changed since the scores behind today's points     *)
(* were read, the trend ends at the scores the pages show.  Its limits are *)
(* in the code: a scan records the scores before it removes findings, and  *)
(* of two scans that end together the one that read first may write last.  *)
TrendIsCurrent == current => Scores(Now) \subseteq points
=============================================================================
