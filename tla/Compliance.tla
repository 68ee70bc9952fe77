----------------------------- MODULE Compliance -----------------------------
(***************************************************************************)
(* The compliance pages: pure functions of the findings of a tenant.  A    *)
(* check maps to entries <<framework version, control>>, where a mapping   *)
(* without a control has the control Bare.                                 *)
(*                                                                         *)
(* Source: services/compliance_service.py, services/compliance_catalog.py, *)
(* services/compliance_frameworks.py.  Labels, the order of lists and the  *)
(* cut after ten rows are left out.                                        *)
(***************************************************************************)
EXTENDS Integers, FiniteSetsExt

CONSTANTS
  Versions,    \* raw slugs of framework versions
  Controls,    \* control ids
  Bare,        \* the control of an entry that has none
  FamilyTable, \* FRAMEWORK_FAMILIES: the family of the versions it lists
  Labelled,    \* versions with a curated label only
  HeadOf,      \* derive_section: the section an id falls in
  Catalog,     \* external: version -> control -> <<section, subsection>>
  None,        \* no subsection, no finding to link to, every framework
  Weight       \* _SEVERITY_WEIGHT: severity -> weight

ASSUME ComplianceAssumption ==
  /\ IsFiniteSet(Controls) /\ Bare \notin Controls
  /\ DOMAIN HeadOf = Controls \cup {Bare}
  /\ DOMAIN Catalog \subseteq Versions
  /\ \A v \in DOMAIN Catalog : DOMAIN Catalog[v] \subseteq Controls
  /\ \A s \in DOMAIN Weight : Weight[s] \in Nat

Statuses == {"FAIL", "PASS", "MUTED", "ACCEPTED"}
Entries == Versions \X (Controls \cup {Bare})

(* resolve_family and is_known_framework_slug.                             *)
Family(v) == IF v \in DOMAIN FamilyTable THEN FamilyTable[v] ELSE v
Known(v) == v \in DOMAIN FamilyTable \/ v \in Labelled

(* The (prefix, control, status) -> count rows of one pass over findings.  *)
(* A count of zero is a row that is not there.                             *)
Rows(F) ==
  [r \in Versions \X (Controls \cup {Bare}) \X Statuses |->
     Cardinality({f \in F : f.status = r[3] /\ <<r[1], r[2]>> \in f.mapping})]

Has(rows, v) == \E c \in Controls \cup {Bare}, s \in Statuses : rows[<<v, c, s>>] > 0

(* A percentage in tenths, rounded; halves cannot come up below 16 items.  *)
Ratio(part, total) == IF total = 0 THEN 0 ELSE (2000 * part + total) \div (2 * total)

-----------------------------------------------------------------------------
(* Scores by control                                                       *)

Catalogued(v) == IF v \in DOMAIN Catalog THEN DOMAIN Catalog[v] ELSE {}

(* Variant: muted findings are left out of the rows.                       *)
FoundUnmuted(rows, v) ==
  {c \in Controls : \E s \in Statuses \ {"MUTED"} : rows[<<v, c, s>>] > 0}

Found(rows, v) == {c \in Controls : \E s \in Statuses : rows[<<v, c, s>>] > 0}

(* Variant: a control counts once it was found, whatever the catalog lists. *)
ScoreOfFound(rows, v) ==
  LET all == Found(rows, v)
      fails == {c \in all : rows[<<v, c, "FAIL">>] > 0}
      passes == {c \in all \ fails : rows[<<v, c, "PASS">>] + rows[<<v, c, "ACCEPTED">>] > 0}
  IN [score |-> Ratio(Cardinality(all \ fails), Cardinality(all)),
      pass |-> Cardinality(passes),
      fail |-> Cardinality(fails),
      total |-> Cardinality(all)]

(* _score_by_control: what has neither failed nor passed, muted or never   *)
(* found, counts as compliant.                                             *)
ScoreByControl(rows, v) ==
  LET all == Found(rows, v) \cup Catalogued(v)
      fails == {c \in all : rows[<<v, c, "FAIL">>] > 0}
      passes == {c \in all \ fails : rows[<<v, c, "PASS">>] + rows[<<v, c, "ACCEPTED">>] > 0}
  IN [score |-> Ratio(Cardinality(all \ fails), Cardinality(all)),
      pass |-> Cardinality(passes),
      fail |-> Cardinality(fails),
      total |-> Cardinality(all)]

(* _control_scores_by_prefix: versions with a row that names a control.    *)
ControlScores(rows) ==
  [v \in {w \in Versions : Found(rows, w) # {}} |-> ScoreByControl(rows, v)]

-----------------------------------------------------------------------------
(* The summary                                                             *)

(* Variant: an accepted risk is ignored like a muted finding.              *)
TallyOpen(rows, v, C) ==
  LET pass == SumFunction([c \in C |-> rows[<<v, c, "PASS">>]])
      fail == SumFunction([c \in C |-> rows[<<v, c, "FAIL">>]])
  IN [score |-> Ratio(pass, pass + fail), pass |-> pass, fail |-> fail, total |-> pass + fail]

Tally(rows, v, C) ==
  LET pass == SumFunction([c \in C |-> rows[<<v, c, "PASS">>] + rows[<<v, c, "ACCEPTED">>]])
      fail == SumFunction([c \in C |-> rows[<<v, c, "FAIL">>]])
  IN [score |-> Ratio(pass, pass + fail), pass |-> pass, fail |-> fail, total |-> pass + fail]

(* _build_families: muted findings are ignored, so a version with no other *)
(* is not listed.                                                          *)
BuildFamilies(rows) ==
  LET scored(v) == {c \in Controls \cup {Bare} :
                      \E s \in Statuses \ {"MUTED"} : rows[<<v, c, s>>] > 0}
  IN [v \in {w \in Versions : scored(w) # {}} |->
        [all |-> Tally(rows, v, scored(v)),
         sections |-> [h \in {HeadOf[c] : c \in scored(v)} |->
                         Tally(rows, v, {c \in scored(v) : HeadOf[c] = h})]]]

(* The versions of the disabled families that have findings.               *)
Hidden(rows, disabled) == {v \in Versions : Family(v) \in disabled /\ Has(rows, v)}

(* What the two aggregate queries count.  Without a hidden version there   *)
(* is no condition; with one, a finding that maps to nothing is dropped.   *)
Aggregated(F, hidden) ==
  {f \in F : f.status = "FAIL" /\
               (hidden = {} \/ \E e \in f.mapping : e[1] \notin hidden)}

ThreatScore(K) ==
  LET weight == SumFunction([f \in K |-> Weight[f.severity]])
  IN Max({0, 100 - Min({weight, 200}) \div 2})

(* get_compliance_summary, for the lists of one version or of all.         *)
Summary(F, disabled, framework) ==
  LET all == Rows(F)
      hidden == Hidden(all, disabled)
      rows == [r \in DOMAIN all |-> IF r[1] \in hidden THEN 0 ELSE all[r]]
      tree == BuildFamilies(rows)
      byControl == ControlScores(rows)
      kept == Aggregated(F, hidden)
      shown == {f \in kept : framework = None \/ \E e \in f.mapping : e[1] = framework}
  IN [versions |-> [v \in DOMAIN tree |->
                      IF v \in DOMAIN byControl THEN byControl[v] ELSE tree[v].all],
      threat |-> ThreatScore(kept),
      topFailing |-> [c \in {f.check : f \in shown} |->
                        Cardinality({f \in shown : f.check = c})],
      topAssets |-> [a \in {f.asset : f \in shown} |->
                       Cardinality({f \in shown : f.asset = a})]]

(* list_compliance_family_settings: the families that can be configured.   *)
SettingsList(F) == {Family(v) : v \in DOMAIN BuildFamilies(Rows(F))}

-----------------------------------------------------------------------------
(* The page of one framework version                                       *)

(* The section of a control: the catalog's, or what its id says.           *)
SectionOf(v, c) ==
  IF c \in Catalogued(v) THEN Catalog[v][c] ELSE <<HeadOf[c], None>>

Mapped(F, v, c, s) == {f \in F : f.status = s /\ <<v, c>> \in f.mapping}

(* A requirement: its status, its counts and the findings it may link to.  *)
Requirement(F, v, c) ==
  LET on(s) == Mapped(F, v, c, s)
      worst == {f \in on("FAIL") : \A g \in on("FAIL") : Weight[g.severity] <= Weight[f.severity]}
      status == CASE on("FAIL") # {} -> "FAIL"
                  [] on("FAIL") = {} /\ on("PASS") \cup on("ACCEPTED") # {} -> "PASS"
                  [] OTHER -> "UNSCORED"
  IN [status |-> status,
      count |-> [s \in Statuses |-> Cardinality(on(s))],
      links |-> CASE status = "FAIL" -> worst
                  [] status = "PASS" -> IF on("PASS") # {} THEN on("PASS") ELSE on("ACCEPTED")
                  [] OTHER -> on("MUTED")]

(* _rollup over the controls C: unscored ones count as passed.             *)
Rollup(F, v, C) ==
  LET is(s) == {c \in C : Requirement(F, v, c).status = s}
  IN [score |-> Ratio(Cardinality(is("PASS") \cup is("UNSCORED")), Cardinality(C)),
      pass |-> Cardinality(is("PASS")),
      fail |-> Cardinality(is("FAIL")),
      total |-> Cardinality(C)]

(* get_framework_detail: the headline and the tree under it.  Every        *)
(* section rolls up its own requirements and those of its subsections.     *)
FrameworkDetail(F, v) ==
  LET rows == Rows(F)
      all == Found(rows, v) \cup Catalogued(v)
      within(s) == {c \in all : SectionOf(v, c)[1] = s}
  IN [headline |-> ScoreByControl(rows, v),
      requirements |-> [c \in all |-> Requirement(F, v, c)],
      sections |->
        [s \in {SectionOf(v, c)[1] : c \in all} |->
           [own |-> {c \in within(s) : SectionOf(v, c)[2] = None},
            rollup |-> Rollup(F, v, within(s)),
            subsections |->
              [b \in {SectionOf(v, c)[2] : c \in within(s)} \ {None} |->
                 Rollup(F, v, {c \in within(s) : SectionOf(v, c)[2] = b})]]]]

(* A version that is neither found, catalogued nor labelled is a 404.      *)
HasDetail(F, v) == Has(Rows(F), v) \/ v \in DOMAIN Catalog \/ Known(v)

(* get_control_assets.                                                     *)
ControlAssets(F, v, c) ==
  LET on(a, S) == {f \in F : f.asset = a /\ f.status \in S /\ <<v, c>> \in f.mapping}
  IN [a \in {f.asset : f \in {g \in F : <<v, c>> \in g.mapping}} |->
        [pass |-> Cardinality(on(a, {"PASS", "ACCEPTED"})),
         fail |-> Cardinality(on(a, {"FAIL"}))]]
=============================================================================
