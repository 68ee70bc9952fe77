-------------------------- MODULE AttackPathsProofs --------------------------
(***************************************************************************)
(* For every graph, any number of workers, scans, changes and faults: that *)
(* the flags of the vertices cover the stored paths, that documents, paths *)
(* and scores keep their types, and that the ratings add up and the batch  *)
(* agrees with the reference.  The first assumes nothing of the walks the  *)
(* queries find, nor of the scores; the others rest on what Walks and the  *)
(* two formulas compute, by induction over the hops.                       *)
(***************************************************************************)
EXTENDS AttackPaths, Induction

(* A document has its fields, and a worker between the two loops of a      *)
(* detection holds the paths it found.                                     *)
DocsOK ==
  /\ DOMAIN docs = Vertices
  /\ \A v \in Vertices :
       /\ DOMAIN docs[v] = DOMAIN NoDoc
       /\ docs[v] = [x \in DOMAIN docs[v] |-> docs[v][x]]

RunOK ==
  /\ DOMAIN run = Workers
  /\ run = [w \in Workers |-> run[w]]
  /\ \A w \in Workers :
       run[w].pc \in {"persist", "mark"} => run[w] = [pc |-> run[w].pc, rows |-> run[w].rows]

FaultsOK == changes \in Nat /\ faults \in Nat

(* A stored path came out of a detection, so it is one of its rows.        *)
IInv == DocsOK /\ RunOK /\ FaultsOK /\ FlagsCoverPaths

-----------------------------------------------------------------------------
(* The flag of a document survives every write to it.                      *)
FlagsGrow == \A v \in Vertices : docs[v].flagged => docs'[v].flagged

(* Nobody loses the rows it is about to mark.                              *)
MarkersStay ==
  \A w \in Workers : run[w].pc = "mark" => run'[w] = run[w]

LEMMA FieldsOfDoc == DOMAIN NoDoc = {"status", "public", "exposed", "admin", "flagged",
                                     "score", "trusts", "role", "groups", "network"}
  BY DEF NoDoc

(* A step that keeps the stored paths and the flags, and interrupts no     *)
(* worker between its loops, keeps the paths covered.                      *)
LEMMA CoverKept ==
  ASSUME IInv, FaultsOK', faults' >= faults, paths' = paths, FlagsGrow, MarkersStay
  PROVE  FlagsCoverPaths'
  <1> SUFFICES ASSUME NEW k \in DOMAIN paths, Unflagged(k)' # {}, ~(faults' > 0)
               PROVE  \E w \in Workers : run'[w].pc = "mark" /\ Unflagged(k)' \subseteq ToMark(w)'
    BY DEF FlagsCoverPaths
  <1>1. Unflagged(k)' \subseteq Unflagged(k)
    BY DEF Unflagged, FlagsGrow
  <1>2. ~(faults > 0)
    BY DEF IInv, FaultsOK
  <1>3. PICK w \in Workers : run[w].pc = "mark" /\ Unflagged(k) \subseteq ToMark(w)
    BY <1>1, <1>2 DEF IInv, FlagsCoverPaths
  <1>4. run'[w] = run[w]
    BY <1>3 DEF MarkersStay
  <1>5. ToMark(w)' = ToMark(w)
    BY <1>4 DEF ToMark
  <1> QED BY <1>1, <1>3, <1>4, <1>5

(* A walk that is stored is one of the rows, so its unflagged vertices are *)
(* about to be marked.                                                     *)
LEMMA CoverStored ==
  ASSUME IInv, NEW w \in Workers, run[w].pc = "persist",
         Stores(run[w].rows), run' = [run EXCEPT ![w].pc = "mark"],
         UNCHANGED <<docs, changes, faults>>
  PROVE  FlagsCoverPaths' /\ RunOK'
  <1>1. run[w] = [pc |-> "persist", rows |-> run[w].rows]
    BY DEF IInv, RunOK
  <1>2. run'[w] = [pc |-> "mark", rows |-> run[w].rows]
    BY <1>1 DEF IInv, RunOK
  <1>3. \A u \in Workers \ {w} : run'[u] = run[u]
    BY DEF IInv, RunOK
  <1>4. RunOK'
    <2>1. DOMAIN run' = Workers /\ run' = [u \in Workers |-> run'[u]]
      BY DEF IInv, RunOK
    <2> QED BY <1>2, <1>3, <2>1 DEF IInv, RunOK
  <1>5. ToMark(w)' = VerticesOf({d.walk : d \in run[w].rows})
    BY <1>2 DEF ToMark
  <1>6. PICK last \in [KeysOf(run[w].rows) -> run[w].rows] : 
             paths' = [k \in DOMAIN paths \cup KeysOf(run[w].rows) |->
                         IF k \in KeysOf(run[w].rows) THEN last[k] ELSE paths[k]]
    BY DEF Stores
  <1>7. ASSUME NEW k \in DOMAIN paths', Unflagged(k)' # {}, ~(faults' > 0)
        PROVE  \E u \in Workers : run'[u].pc = "mark" /\ Unflagged(k)' \subseteq ToMark(u)'
    <2>1. CASE k \in KeysOf(run[w].rows)
      <3>1. paths'[k] = last[k] /\ last[k] \in run[w].rows
        BY <1>6, <2>1
      <3>2. ToSet(paths'[k].walk) \subseteq ToMark(w)'
        BY <1>5, <3>1 DEF VerticesOf
      <3> QED BY <1>2, <3>2 DEF Unflagged
    <2>2. CASE k \notin KeysOf(run[w].rows)
      <3>1. k \in DOMAIN paths /\ paths'[k] = paths[k]
        BY <1>6, <1>7, <2>2
      <3>2. Unflagged(k)' = Unflagged(k)
        BY <3>1 DEF Unflagged
      <3>3. PICK u \in Workers : run[u].pc = "mark" /\ Unflagged(k) \subseteq ToMark(u)
        BY <1>7, <3>1, <3>2 DEF IInv, FlagsCoverPaths
      <3>4. run'[u] = run[u]
        BY <1>3, <3>3
      <3>5. ToMark(u)' = ToMark(u)
        BY <3>4 DEF ToMark
      <3> QED BY <3>2, <3>3, <3>4, <3>5
    <2> QED BY <2>1, <2>2
  <1> QED BY <1>4, <1>7 DEF FlagsCoverPaths

(* After the marking, nothing of the rows is left to mark.                 *)
LEMMA CoverMarked ==
  ASSUME IInv, NEW w \in Workers, run[w].pc = "mark", Flags(ToMark(w)),
         \A u \in Workers \ {w} : run'[u] = run[u],
         UNCHANGED <<paths, changes, faults>>
  PROVE  FlagsCoverPaths'
  <1>1. ASSUME NEW k \in DOMAIN paths, Unflagged(k)' # {}, ~(faults' > 0)
        PROVE  \E u \in Workers : run'[u].pc = "mark" /\ Unflagged(k)' \subseteq ToMark(u)'
    <2>1. \A v \in Vertices : docs'[v].flagged = (docs[v].flagged \/ v \in ToMark(w))
      BY FieldsOfDoc DEF Flags, IInv, DocsOK
    <2>2. Unflagged(k)' \subseteq Unflagged(k) /\ Unflagged(k)' \cap ToMark(w) = {}
      BY <2>1 DEF Unflagged
    <2>3. PICK u \in Workers : run[u].pc = "mark" /\ Unflagged(k) \subseteq ToMark(u)
      BY <1>1, <2>2 DEF IInv, FlagsCoverPaths
    <2>4. u # w
      BY <1>1, <2>2, <2>3
    <2>5. run'[u] = run[u]
      BY <2>3, <2>4
    <2>6. ToMark(u)' = ToMark(u)
      BY <2>5 DEF ToMark
    <2> QED BY <2>2, <2>3, <2>5, <2>6
  <1> QED BY <1>1 DEF FlagsCoverPaths
-----------------------------------------------------------------------------
(* One lemma per action, or per kind of action: what it leaves alone.      *)

LEMMA InitIInv == Init => IInv
  <1> SUFFICES ASSUME Init PROVE IInv OBVIOUS
  <1>1. DocsOK
    BY DEF Init, DocsOK, NoDoc
  <1>2. RunOK
    BY DEF Init, RunOK, Idle
  <1>3. FaultsOK
    BY DEF Init, FaultsOK
  <1>4. FlagsCoverPaths
    BY DEF Init, FlagsCoverPaths
  <1> QED BY <1>1, <1>2, <1>3, <1>4 DEF IInv

(* The three steps of a scan that write documents keep their flags.        *)
LEMMA DocsRefreshed ==
  ASSUME IInv, RefreshInventory \/ ComputeExposedInternet
  PROVE  DocsOK' /\ FlagsGrow
  <1>1. CASE RefreshInventory
    <2>1. PICK seen : docs' = [v \in Vertices |->
                         IF v \in seen.seen THEN Reported(v, seen) ELSE Unreported(v)]
      BY <1>1 DEF RefreshInventory
    <2>2. ASSUME NEW v \in Vertices
          PROVE  /\ DOMAIN Reported(v, seen) = DOMAIN docs[v]
                 /\ Reported(v, seen) = [x \in DOMAIN docs[v] |-> Reported(v, seen)[x]]
                 /\ Reported(v, seen).flagged = docs[v].flagged
      BY FieldsOfDoc DEF Reported, IInv, DocsOK
    <2>3. ASSUME NEW v \in Vertices
          PROVE  /\ DOMAIN Unreported(v) = DOMAIN docs[v]
                 /\ Unreported(v) = [x \in DOMAIN docs[v] |-> Unreported(v)[x]]
                 /\ Unreported(v).flagged = docs[v].flagged
      BY FieldsOfDoc DEF Unreported, IInv, DocsOK
    <2> QED BY <2>1, <2>2, <2>3 DEF IInv, DocsOK, FlagsGrow
  <1>2. CASE ComputeExposedInternet
    BY <1>2, FieldsOfDoc DEF ComputeExposedInternet, IInv, DocsOK, FlagsGrow
  <1> QED BY <1>1, <1>2

(* So does the batch that writes scores.                                   *)
LEMMA DocsRescored ==
  ASSUME IInv, NEW w \in Workers, Rescore(w)
  PROVE  DocsOK' /\ FlagsGrow
  <1>1. PICK rows : docs' = [v \in Vertices |-> IF v \in rows THEN Rescored(v) ELSE docs[v]]
    BY DEF Rescore
  <1>2. ASSUME NEW v \in Vertices
        PROVE  /\ DOMAIN Rescored(v) = DOMAIN docs[v]
               /\ Rescored(v) = [x \in DOMAIN docs[v] |-> Rescored(v)[x]]
               /\ Rescored(v).flagged = docs[v].flagged
    BY FieldsOfDoc DEF Rescored, IInv, DocsOK
  <1> QED BY <1>1, <1>2 DEF IInv, DocsOK, FlagsGrow

LEMMA DocsFlagged ==
  ASSUME IInv, NEW part, Flags(part)
  PROVE  DocsOK' /\ FlagsGrow
  BY FieldsOfDoc DEF Flags, IInv, DocsOK, FlagsGrow
(* A worker that goes idle, or to its next collection, disturbs nobody.    *)
LEMMA RunSteps ==
  ASSUME IInv, NEW w \in Workers, NEW r, run' = [run EXCEPT ![w] = r],
         r.pc \in {"persist", "mark"} => r = [pc |-> r.pc, rows |-> r.rows]
  PROVE  RunOK' /\ \A u \in Workers \ {w} : run'[u] = run[u]
  <1>1. run'[w] = r /\ \A u \in Workers \ {w} : run'[u] = run[u]
    BY DEF IInv, RunOK
  <1>2. DOMAIN run' = Workers /\ run' = [u \in Workers |-> run'[u]]
    BY DEF IInv, RunOK
  <1> QED BY <1>1, <1>2 DEF IInv, RunOK

LEMMA ScanStep ==
  ASSUME IInv, \/ RefreshInventory \/ BuildEdges \/ ComputeExposedInternet
               \/ SendTasks \/ SendFails \/ ScanFails
  PROVE  IInv'
  <1>1. DocsOK' /\ FlagsGrow
    <2>1. CASE UNCHANGED docs
      BY <2>1 DEF IInv, DocsOK, FlagsGrow
    <2>2. RefreshInventory \/ ComputeExposedInternet \/ UNCHANGED docs
      BY DEF BuildEdges, SendTasks, SendFails, ScanFails, Send
    <2> QED BY <2>1, <2>2, DocsRefreshed
  <1>2. UNCHANGED <<run, paths>>
    BY DEF RefreshInventory, BuildEdges, ComputeExposedInternet, SendTasks, SendFails,
           ScanFails, Send
  <1>3. FaultsOK' /\ faults' >= faults
    BY DEF RefreshInventory, BuildEdges, ComputeExposedInternet, SendTasks, SendFails,
           ScanFails, Send, Fault, IInv, FaultsOK
  <1>4. RunOK' /\ MarkersStay
    BY <1>2 DEF IInv, RunOK, MarkersStay
  <1> QED BY <1>1, <1>2, <1>3, <1>4, CoverKept DEF IInv

(* A step of a worker that is not between its loops.                       *)
LEMMA EarlyStep ==
  ASSUME IInv, NEW w \in Workers,
         Take(w) \/ Rescore(w) \/ RescoreSkips(w) \/ Collect(w) \/ CollectFails(w)
  PROVE  IInv'
  <1>1. DocsOK' /\ FlagsGrow
    <2>1. CASE UNCHANGED docs
      BY <2>1 DEF IInv, DocsOK, FlagsGrow
    <2>2. Rescore(w) \/ UNCHANGED docs
      BY DEF Take, RescoreSkips, Collect, CollectFails, Collected
    <2> QED BY <2>1, <2>2, DocsRescored
  <1>2. UNCHANGED paths
    BY DEF Take, Rescore, RescoreSkips, Collect, CollectFails, Collected
  <1>3. FaultsOK' /\ faults' >= faults
    BY DEF Take, Rescore, RescoreSkips, Collect, CollectFails, Collected, Fault, IInv, FaultsOK
  <1>4. RunOK' /\ \A u \in Workers \ {w} : run'[u] = run[u]
    <2>1. CASE Take(w)
      BY <2>1, RunSteps DEF Take
    <2>2. CASE Rescore(w) \/ RescoreSkips(w)
      <3>1. run[w].pc = "rescore" /\ NextCollection(w)
        BY <2>2 DEF Rescore, RescoreSkips
      <3> DEFINE r == IF run[w].done + 1 = Len(Collections) THEN Idle
                      ELSE [run[w] EXCEPT !.done = @ + 1]
      <3>2. r.pc \notin {"persist", "mark"}
        BY <3>1 DEF Idle
      <3>3. run' = [run EXCEPT ![w] = r]
        BY <3>1 DEF NextCollection
      <3> QED BY <3>2, <3>3, RunSteps
    <2>3. CASE Collect(w) \/ CollectFails(w)
      <3>1. PICK ws : Collected(w, ws)
        BY <2>3 DEF Collect, CollectFails
      <3> DEFINE r == IF ws = {} THEN Idle
                      ELSE [pc |-> "persist", rows |-> {PathDoc(x) : x \in ws}]
      <3>2. run' = [run EXCEPT ![w] = r]
        BY <3>1 DEF Collected
      <3>3. r.pc \in {"persist", "mark"} => r = [pc |-> r.pc, rows |-> r.rows]
        BY DEF Idle
      <3> QED BY <3>2, <3>3, RunSteps
    <2> QED BY <2>1, <2>2, <2>3
  <1>5. run[w].pc # "mark"
    BY DEF Take, Rescore, RescoreSkips, Collect, CollectFails, Idle
  <1>6. MarkersStay
    BY <1>4, <1>5 DEF MarkersStay
  <1> QED BY <1>1, <1>2, <1>3, <1>4, <1>6, CoverKept DEF IInv

LEMMA PersistStep ==
  ASSUME IInv, NEW w \in Workers, Persist(w)
  PROVE  IInv'
  <1>1. FlagsCoverPaths' /\ RunOK'
    BY CoverStored DEF Persist
  <1>2. DocsOK' /\ FaultsOK'
    BY DEF Persist, IInv, DocsOK, FaultsOK
  <1> QED BY <1>1, <1>2 DEF IInv

LEMMA MarkStep ==
  ASSUME IInv, NEW w \in Workers, Mark(w)
  PROVE  IInv'
  <1>1. RunOK' /\ \A u \in Workers \ {w} : run'[u] = run[u]
    BY RunSteps DEF Mark, Idle
  <1>2. FlagsCoverPaths'
    BY <1>1, CoverMarked DEF Mark
  <1>3. DocsOK'
    BY DocsFlagged DEF Mark
  <1>4. FaultsOK'
    BY DEF Mark, IInv, FaultsOK
  <1> QED BY <1>1, <1>2, <1>3, <1>4 DEF IInv

(* After a fault nothing is promised of the paths.                         *)
LEMMA FaultyStep ==
  ASSUME IInv, NEW w \in Workers, PersistSkips(w) \/ MarkSkips(w) \/ Crash(w)
  PROVE  IInv'
  <1>1. FaultsOK' /\ faults' > 0
    BY DEF PersistSkips, MarkSkips, Crash, Fault, IInv, FaultsOK
  <1>2. DocsOK'
    <2>1. CASE UNCHANGED docs
      BY <2>1 DEF IInv, DocsOK
    <2>2. (\E part : Flags(part)) \/ UNCHANGED docs
      BY DEF PersistSkips, MarkSkips, Crash
    <2> QED BY <2>1, <2>2, DocsFlagged
  <1>3. RunOK'
    <2>1. CASE PersistSkips(w)
      <3>1. run[w] = [pc |-> "persist", rows |-> run[w].rows]
        BY <2>1 DEF PersistSkips, IInv, RunOK
      <3> DEFINE r == [run[w] EXCEPT !.pc = "mark"]
      <3>2. r = [pc |-> "mark", rows |-> run[w].rows]
        BY <3>1
      <3>3. run' = [run EXCEPT ![w] = r]
        BY <2>1 DEF PersistSkips
      <3> QED BY <3>2, <3>3, RunSteps
    <2>2. CASE MarkSkips(w) \/ Crash(w)
      BY <2>2, RunSteps DEF MarkSkips, Crash, Idle
    <2> QED BY <2>1, <2>2
  <1> QED BY <1>1, <1>2, <1>3 DEF IInv, FlagsCoverPaths

LEMMA NextIInv == IInv /\ [Next]_vars => IInv'
  <1> SUFFICES ASSUME IInv, [Next]_vars PROVE IInv' OBVIOUS
  <1>1. CASE Scan \/ SendFails \/ ScanFails
    BY <1>1, ScanStep DEF Scan
  <1>2. ASSUME NEW w \in Workers, Work(w) \/ RescoreSkips(w) \/ CollectFails(w)
                                  \/ PersistSkips(w) \/ MarkSkips(w) \/ Crash(w)
        PROVE  IInv'
    BY <1>2, EarlyStep, PersistStep, MarkStep, FaultyStep DEF Work
  <1>3. CASE UNCHANGED vars
    BY <1>3 DEF vars, IInv, DocsOK, RunOK, FaultsOK, FlagsCoverPaths, Unflagged, ToMark
  <1> QED BY <1>1, <1>2, <1>3 DEF Next

(* "Set in_attack_path=true on all resources that participate in any       *)
(* attack path" (attack_path_service.py:422): for every graph and any      *)
(* number of workers whose detections overlap, the vertices of every path  *)
(* that is stored are flagged or about to be, unless a write was lost.     *)
THEOREM PathsAreFlagged == Spec => []FlagsCoverPaths
  <1>1. IInv => FlagsCoverPaths
    BY DEF IInv
  <1> QED BY <1>1, InitIInv, NextIInv, PTL DEF Spec

-----------------------------------------------------------------------------


(* The recursion of Walks is well defined.                                 *)
Unfolds(f, G, v, n) ==
  f = [k \in 0..n |-> IF k = 0 THEN {<<v>>} ELSE Longer(G, f[k - 1])]

LEMMA UnfoldsAt ==
  ASSUME NEW f, NEW G, NEW v, NEW n, Unfolds(f, G, v, n), NEW k \in 0..n
  PROVE  f[k] = IF k = 0 THEN {<<v>>} ELSE Longer(G, f[k - 1])
<1> DEFINE h == [i \in 0..n |-> IF i = 0 THEN {<<v>>} ELSE Longer(G, f[i - 1])]
<1>1. f = h
  BY DEF Unfolds
<1>2. h[k] = IF k = 0 THEN {<<v>>} ELSE Longer(G, f[k - 1])
  OBVIOUS
<1> HIDE DEF h
<1> QED
  BY <1>1, <1>2

LEMMA WalksDefined ==
  ASSUME NEW G, NEW v, NEW n \in Nat
  PROVE  \E f : Unfolds(f, G, v, n)
<1> DEFINE S == {m \in Nat : \E f : Unfolds(f, G, v, m)}
<1>1. 0 \in S
  <2> DEFINE f == [k \in 0..0 |-> {<<v>>}]
  <2>1. f = [k \in 0..0 |-> IF k = 0 THEN {<<v>>} ELSE Longer(G, f[k - 1])]
    OBVIOUS
  <2> HIDE DEF f
  <2>2. Unfolds(f, G, v, 0)
    BY <2>1 DEF Unfolds
  <2> QED
    BY <2>2
<1>2. ASSUME NEW m \in S
      PROVE  m + 1 \in S
  <2>1. PICK f : Unfolds(f, G, v, m)
    OBVIOUS
  <2>0. \A k \in 0..m : f[k] = IF k = 0 THEN {<<v>>} ELSE Longer(G, f[k - 1])
    BY <2>1, UnfoldsAt, Zenon
  <2> DEFINE g == [k \in 0..(m + 1) |-> IF k = m + 1 THEN Longer(G, f[m]) ELSE f[k]]
  <2>2. ASSUME NEW k \in 0..m
        PROVE  g[k] = f[k] /\ f[k] = IF k = 0 THEN {<<v>>} ELSE Longer(G, f[k - 1])
    <3>1. g[k] = f[k]
      OBVIOUS
    <3> HIDE DEF g
    <3>2. f[k] = IF k = 0 THEN {<<v>>} ELSE Longer(G, f[k - 1])
      BY <2>0, Zenon
    <3> QED
      BY <3>1, <3>2
  <2>3. ASSUME NEW k \in 0..(m + 1)
        PROVE  g[k] = IF k = 0 THEN {<<v>>} ELSE Longer(G, g[k - 1])
    <3>1. CASE k = m + 1
      <4>1. g[k] = Longer(G, f[m]) /\ k # 0 /\ k - 1 = m
        BY <3>1
      <4>2. g[m] = f[m]
        BY <2>2
      <4> QED
        BY <4>1, <4>2
    <3>2. CASE k # m + 1
      <4>1. k \in 0..m /\ (k # 0 => k - 1 \in 0..m)
        BY <3>2
      <4>2. k # 0 => g[k - 1] = f[k - 1]
        BY <2>2, <4>1
      <4> HIDE DEF g
      <4> QED
        BY <2>2, <4>1, <4>2
    <3> QED
      BY <3>1, <3>2
  <2>4. g = [k \in 0..(m + 1) |-> g[k]]
    OBVIOUS
  <2> HIDE DEF g
  <2>5. Unfolds(g, G, v, m + 1)
    BY <2>3, <2>4 DEF Unfolds
  <2> QED
    BY <2>5
<1>3. 0..n \subseteq S
  <2> HIDE DEF S
  <2> QED
    BY <1>1, <1>2, InductionUpTo
<1> QED
  BY <1>3

LEMMA WalksUnfold ==
  ASSUME NEW G, NEW v, NEW n \in Nat
  PROVE  \E f : Unfolds(f, G, v, n) /\ Walks(G, v, n) = UNION {f[k] : k \in 1..n}
<1>1. \E f : Unfolds(f, G, v, n)
  BY WalksDefined
<1> DEFINE walks == CHOOSE f : Unfolds(f, G, v, n)
<1>2. Unfolds(walks, G, v, n)
  BY <1>1
<1>3. Walks(G, v, n) = UNION {walks[k] : k \in 1..n}
  BY DEF Walks, Unfolds
<1> QED
  BY <1>2, <1>3

(* A walk is a sequence of two vertices or more.                           *)
LEMMA WalksAreWalks ==
  ASSUME NEW V, NEW G \in SUBSET (V \X V), NEW v \in V, NEW n \in Nat,
         NEW walk \in Walks(G, v, n)
  PROVE  walk \in Seq(V) /\ Len(walk) \in 2..(n + 1)
<1>1. PICK f : Unfolds(f, G, v, n) /\ Walks(G, v, n) = UNION {f[k] : k \in 1..n}
  BY WalksUnfold
<1>2. f[0] = {<<v>>} /\ \A k \in 0..(n - 1) : f[k + 1] = Longer(G, f[k])
  <2>0. \A j \in 0..n : f[j] = IF j = 0 THEN {<<v>>} ELSE Longer(G, f[j - 1])
    <3>1. Unfolds(f, G, v, n)
      BY <1>1
    <3> QED
      BY <3>1, UnfoldsAt, Zenon
  <2>1. f[0] = {<<v>>}
    <3>1. 0 \in 0..n
      OBVIOUS
    <3>2. f[0] = IF 0 = 0 THEN {<<v>>} ELSE Longer(G, f[0 - 1])
      BY <2>0, <3>1
    <3> QED
      BY <3>2
  <2>2. ASSUME NEW k \in 0..(n - 1)
        PROVE  f[k + 1] = Longer(G, f[k])
    <3>1. PICK j \in 0..n : j = k + 1 /\ j # 0 /\ j - 1 = k
      OBVIOUS
    <3>2. f[j] = IF j = 0 THEN {<<v>>} ELSE Longer(G, f[j - 1])
      BY <2>0
    <3> QED
      BY <3>1, <3>2
  <2> QED
    BY <2>1, <2>2
<1> DEFINE S == {k \in 0..n : \A x \in f[k] : x \in Seq(V) /\ Len(x) = k + 1}
<1>3. 0 \in S
  BY <1>2
<1>4. ASSUME NEW k \in 0..(n - 1), k \in S
      PROVE  k + 1 \in S
  <2>1. ASSUME NEW x \in f[k + 1]
        PROVE  x \in Seq(V) /\ Len(x) = (k + 1) + 1
    <3>1. PICK y \in f[k], e \in G : x = Append(y, e[2])
      <4>1. x \in Longer(G, f[k])
        BY <1>2
      <4> QED
        BY <4>1 DEF Longer
    <3>2. y \in Seq(V) /\ Len(y) = k + 1 /\ e[2] \in V
      BY <1>4
    <3> QED
      BY <3>1, <3>2
  <2>2. k + 1 \in 0..n
    OBVIOUS
  <2> QED
    BY <2>1, <2>2
<1>5. 0..n \subseteq S
  <2> HIDE DEF S
  <2> QED
    BY <1>3, <1>4, InductionUpTo
<1>6. PICK k \in 1..n : walk \in f[k]
  BY <1>1
<1> QED
  BY <1>5, <1>6

Fails == [DOMAIN Weight -> Nat]

(* The weighted sum is capped, and is 0 without findings.                  *)
LEMMA BaseType ==
  ASSUME NEW f \in Fails
  PROVE  Base(f) \in 0..500 /\ (f = NoFails => Base(f) = 0)
<1>1. /\ \A s \in DOMAIN Weight : Weight[s] \in Nat /\ f[s] \in Nat
      /\ DOMAIN Weight = {"CRITICAL", "HIGH", "MEDIUM", "LOW", "INFORMATIONAL", "INFO"}
  BY DEF Fails, Weight
<1>2. ASSUME NEW s \in DOMAIN Weight
      PROVE  Weighted(f, s) \in Nat /\ (f = NoFails => Weighted(f, s) = 0)
  <2>1. PICK w \in Nat, c \in Nat : w = Weight[s] /\ c = f[s]
    BY <1>1
  <2>2. w * c \in Nat /\ (c = 0 => w * c = 0)
    OBVIOUS
  <2> QED
    BY <2>1, <2>2 DEF Weighted, NoFails
<1>3. PICK a \in Nat, b \in Nat, c \in Nat, d \in Nat, e \in Nat, g \in Nat :
        /\ a = Weighted(f, "CRITICAL") /\ b = Weighted(f, "HIGH") /\ c = Weighted(f, "MEDIUM")
        /\ d = Weighted(f, "LOW") /\ e = Weighted(f, "INFORMATIONAL") /\ g = Weighted(f, "INFO")
  BY <1>1, <1>2
<1>4. PICK n \in Nat : n = a + b + c + d + e + g
  OBVIOUS
<1>5. Base(f) = Min({n, 500})
  BY <1>3, <1>4 DEF Base
<1>6. Base(f) = IF n <= 500 THEN n ELSE 500
  BY <1>5, MinOfTwo
<1>7. f = NoFails => n = 0
  BY <1>1, <1>2, <1>3, <1>4
<1> QED
  BY <1>6, <1>7

(* The score before the minimum for what lies on a path.                   *)
OffPath(doc, fails_, blast) ==
  Min({(Base(fails_) * (IF doc.public THEN 2 ELSE 1) * (5 + blast)) \div 5, 1000})

LEMMA OffPathType ==
  ASSUME NEW doc, NEW f \in Fails, NEW blast \in 0..5
  PROVE  OffPath(doc, f, blast) \in Tenths /\ (f = NoFails => OffPath(doc, f, blast) = 0)
<1>1. PICK base \in 0..500 : base = Base(f) /\ (f = NoFails => base = 0)
  BY BaseType
<1>2. PICK exposure \in {1, 2} : exposure = IF doc.public THEN 2 ELSE 1
  OBVIOUS
<1>3. PICK p \in Nat : p = base * exposure /\ (base = 0 => p = 0)
  BY <1>2
<1>4. PICK q \in Nat : q = p * (5 + blast) /\ (p = 0 => q = 0)
  OBVIOUS
<1>5. PICK d \in Nat : d = q \div 5 /\ (q = 0 => d = 0)
  OBVIOUS
<1>6. OffPath(doc, f, blast) = Min({d, 1000})
  BY <1>1, <1>2, <1>3, <1>4, <1>5 DEF OffPath
<1>7. OffPath(doc, f, blast) = IF d <= 1000 THEN d ELSE 1000
  BY <1>6, MinOfTwo
<1>8. OffPath(doc, f, blast) \in Tenths /\ (base = 0 => OffPath(doc, f, blast) = 0)
  BY <1>3, <1>4, <1>5, <1>7 DEF Tenths
<1> QED
  BY <1>1, <1>8

LEMMA ScoreType ==
  ASSUME NEW doc, NEW f \in Fails, NEW blast \in 0..5
  PROVE  Score(doc, f, blast) \in Tenths
<1>1. Score(doc, f, blast) = IF doc.flagged THEN Max({OffPath(doc, f, blast), 400})
                             ELSE OffPath(doc, f, blast)
  BY DEF Score, OffPath, InPathMinScore
<1>2. PICK s \in Tenths : s = OffPath(doc, f, blast)
  BY OffPathType
<1>3. Max({s, 400}) = IF s >= 400 THEN s ELSE 400
  BY MaxOfTwo DEF Tenths
<1> QED
  BY <1>1, <1>2, <1>3 DEF Tenths

(* The batch and the reference differ in one case.                         *)
LEMMA BatchAndReference ==
  ASSUME NEW doc, NEW f \in Fails, NEW blast \in 0..5
  PROVE  Score(doc, f, blast) = IF doc.flagged /\ f = NoFails THEN InPathMinScore
                                ELSE ReferenceScore(doc, f, blast)
<1>1. Score(doc, f, blast) = IF doc.flagged THEN Max({OffPath(doc, f, blast), InPathMinScore})
                             ELSE OffPath(doc, f, blast)
  BY DEF Score, OffPath
<1>2. f = NoFails <=> \A s \in DOMAIN f : f[s] = 0
  BY DEF Fails, NoFails
<1>3. ReferenceScore(doc, f, blast) = IF f = NoFails THEN 0 ELSE Score(doc, f, blast)
  BY <1>2 DEF ReferenceScore, Score
<1>4. f = NoFails => OffPath(doc, f, blast) = 0
  BY OffPathType
<1>5. Max({0, InPathMinScore}) = InPathMinScore
  BY MaxOfTwo DEF InPathMinScore
<1> QED
  BY <1>1, <1>3, <1>4, <1>5

(* However large the graph, five data assets count.                        *)
LEMMA BlastType ==
  ASSUME NEW E, NEW v
  PROVE  BlastRadius(E, v) \in 0..5
<1> DEFINE reached == Reached(Over(E, Traversed), v, Reach) \cap DataAssets
<1>1. reached \in SUBSET Vertices
  BY DEF Vertices
<1>2. PICK n \in Nat : n = Cardinality(reached)
  <2> HIDE DEF reached
  <2> QED
    BY <1>1, AssetGraphAssumption, FS_Subset, FS_CardinalityType
<1>3. BlastRadius(E, v) = Min({n, 5})
  BY <1>2 DEF BlastRadius
<1> QED
  BY <1>3, MinOfTwo

(* A walk of the graph over vertices with scores in range.                 *)
Rated(walk, scored) ==
  /\ walk \in Seq(Vertices) /\ Len(walk) \in 2..(MaxDepth + 1)
  /\ \A v \in Vertices : scored[v].score \in Tenths

LEMMA QuotientIsNatural ==
  ASSUME NEW p \in Nat, NEW h \in Nat, h > 0
  PROVE  p \div h \in Nat
<1>1. PICK q \in Int : q = p \div h
  OBVIOUS
<1>2. p < h * (q + 1)
  BY <1>1
<1>3. q >= 0
  BY <1>2
<1> QED
  BY <1>1, <1>3

(* The division by the hops is defined, and the result capped.             *)
LEMMA PathRiskType ==
  ASSUME NEW scored, NEW walk, Rated(walk, scored)
  PROVE  PathRisk(scored, walk) \in Tenths
<1> DEFINE S == {scored[walk[k]].score : k \in DOMAIN walk}
<1>1. S \in SUBSET Tenths /\ S # {}
  <2>1. \A k \in DOMAIN walk : walk[k] \in Vertices
    BY DEF Rated
  <2>2. 1 \in DOMAIN walk
    BY AssetGraphAssumption DEF Rated
  <2>3. \A k \in DOMAIN walk : scored[walk[k]].score \in Tenths
    BY <2>1 DEF Rated
  <2>4. scored[walk[1]].score \in S
    BY <2>2
  <2> QED
    BY <2>3, <2>4
<1>2. PICK worst \in Tenths : worst = Max(S)
  <2> HIDE DEF S
  <2>1. PICK n \in Nat : n = 1000
    OBVIOUS
  <2>2. S \in SUBSET (0..n) /\ S # {}
    BY <1>1, <2>1 DEF Tenths
  <2>3. Max(S) \in 0..n
    BY <2>2, MaxIsBounded
  <2> QED
    BY <2>1, <2>3 DEF Tenths
<1>3. PICK h \in Nat : h = Hops(walk) /\ h > 0
  BY AssetGraphAssumption DEF Rated, Hops
<1>4. PICK p \in Nat : p = worst * (h + 1)
  BY DEF Tenths
<1>5. PICK q \in Nat : q = p \div h
  BY <1>3, QuotientIsNatural
<1>6. PathRisk(scored, walk) = Min({q, 1000})
  <2>1. PathRisk(scored, walk) = Min({(Max(S) * (Hops(walk) + 1)) \div Hops(walk), 1000})
    BY DEF PathRisk
  <2> HIDE DEF S
  <2> QED
    BY <1>2, <1>3, <1>4, <1>5, <2>1
<1>7. PathRisk(scored, walk) = IF q <= 1000 THEN q ELSE 1000
  BY <1>5, <1>6, MinOfTwo
<1> QED
  BY <1>5, <1>7 DEF Tenths

(* Whatever the risk, a rated path has one of the severities with a tile.  *)
LEMMA RatedInTiles ==
  ASSUME NEW risk
  PROVE  SeverityOfPath(risk) \in Tiles
  BY DEF SeverityOfPath, Severity, Tiles

-----------------------------------------------------------------------------
(* What a detection has found, and what is stored of it.                   *)
RowOK(d) ==
  /\ d.walk \in Seq(Vertices) /\ Len(d.walk) \in 2..(MaxDepth + 1)
  /\ d.risk \in Tenths
  /\ d.severity \in Tiles

RowsOK == \A w \in Workers : run[w].pc \in {"persist", "mark"} =>
            \A d \in run[w].rows : RowOK(d)
PathsOK == \A k \in DOMAIN paths : k = KeyOf(paths[k].walk) /\ RowOK(paths[k])

RescoreOK == \A w \in Workers : run[w].pc = "rescore" =>
               run[w] = [pc |-> "rescore", done |-> run[w].done]

GraphInv == IInv /\ TypeOK /\ RowsOK /\ RescoreOK /\ PathsOK

(* Every row of a detection has a tile and a risk in range.               *)
LEMMA FoundAreRated ==
  ASSUME TypeOK, NEW x \in InternetWalks(docs, edges) \cup EscalationWalks(docs, edges)
  PROVE  RowOK(PathDoc(x))
<1>1. ASSUME NEW kinds
      PROVE  Over(edges, kinds) \in SUBSET (Vertices \X Vertices)
  BY DEF Over, TypeOK, Stored
<1>2. PICK G \in SUBSET (Vertices \X Vertices), v \in Vertices : x \in Walks(G, v, MaxDepth)
  <2>1. CASE x \in InternetWalks(docs, edges)
    BY <1>1, <2>1 DEF InternetWalks, Stored
  <2>2. CASE x \in EscalationWalks(docs, edges)
    BY <1>1, <2>2 DEF EscalationWalks, Stored
  <2> QED
    BY <2>1, <2>2
<1>3. x \in Seq(Vertices) /\ Len(x) \in 2..(MaxDepth + 1)
  BY <1>2, WalksAreWalks, AssetGraphAssumption
<1>4. PathRisk(docs, x) \in Tenths
  <2>1. Rated(x, docs)
    BY <1>3 DEF Rated, TypeOK
  <2> QED
    BY <2>1, PathRiskType
<1> QED
  BY <1>3, <1>4, RatedInTiles DEF RowOK, PathDoc

(* Storing rows keeps each path under the key of its walk.                 *)
LEMMA StoredRows ==
  ASSUME PathsOK, NEW rows, \A d \in rows : RowOK(d), Stores(rows)
  PROVE  PathsOK'
<1>1. PICK last \in [KeysOf(rows) -> rows] :
        /\ \A k \in KeysOf(rows) : KeyOf(last[k].walk) = k
        /\ paths' = [k \in DOMAIN paths \cup KeysOf(rows) |->
                       IF k \in KeysOf(rows) THEN last[k] ELSE paths[k]]
  BY DEF Stores
<1>2. ASSUME NEW k \in DOMAIN paths'
      PROVE  k = KeyOf(paths'[k].walk) /\ RowOK(paths'[k])
  <2>1. CASE k \in KeysOf(rows)
    <3>1. paths'[k] = last[k] /\ last[k] \in rows
      BY <1>1, <2>1
    <3> QED
      BY <1>1, <2>1, <3>1
  <2>2. CASE k \notin KeysOf(rows)
    <3>1. k \in DOMAIN paths /\ paths'[k] = paths[k]
      BY <1>1, <1>2, <2>2
    <3> QED
      BY <3>1 DEF PathsOK
  <2> QED
    BY <2>1, <2>2
<1> QED
  BY <1>2 DEF PathsOK

LEMMA PathsTyped ==
  ASSUME NEW d, RowOK(d), NEW k, k = KeyOf(d.walk)
  PROVE  /\ k[1] = Head(d.walk) /\ k[2] = Last(d.walk)
         /\ Hops(d.walk) \in 1..MaxDepth
         /\ d.risk \in Tenths
<1>1. k[1] = Head(d.walk) /\ k[2] = Last(d.walk)
  BY DEF KeyOf
<1>2. Hops(d.walk) \in 1..MaxDepth
  BY AssetGraphAssumption DEF RowOK, Hops
<1> QED
  BY <1>1, <1>2 DEF RowOK

(* A document keeps its status typed, never leaves the collection, and has *)
(* a score in range.                                                       *)
DocsStep ==
  \A v \in Vertices :
    /\ docs'[v].status \in {"absent", "active", "deleted"}
    /\ docs[v].status # "absent" => docs'[v].status # "absent"
    /\ docs'[v].score \in Tenths

(* The three kinds of writes to the documents.                             *)
LEMMA RefreshStep ==
  ASSUME GraphInv, RefreshInventory
  PROVE  DocsStep /\ \A v \in Vertices : fails'[v] \in [DOMAIN Weight -> Nat]
<1>1. PICK seen \in DOMAIN Clouds :
        /\ docs' = [v \in Vertices |-> IF v \in Clouds[seen].seen THEN Reported(v, Clouds[seen])
                                       ELSE Unreported(v)]
        /\ fails' = [v \in Vertices |->
                       IF v \in Clouds[seen].seen THEN Clouds[seen].fails[v]
                       ELSE IF v \in Resources \cap Active(docs) THEN NoFails ELSE fails[v]]
  BY DEF RefreshInventory
<1>2. ASSUME NEW v \in Vertices
      PROVE  /\ Reported(v, Clouds[seen]).status = "active"
             /\ Reported(v, Clouds[seen]).score = docs[v].score
             /\ Unreported(v).status = IF docs[v].status = "active" THEN "deleted"
                                       ELSE docs[v].status
             /\ Unreported(v).score = docs[v].score
  <2>1. /\ DOMAIN docs[v] = DOMAIN NoDoc
        /\ docs[v] = [x \in DOMAIN docs[v] |-> docs[v][x]]
    BY DEF GraphInv, IInv, DocsOK
  <2>2. /\ Reported(v, Clouds[seen]).status = "active"
        /\ Reported(v, Clouds[seen]).score = docs[v].score
    BY <2>1, FieldsOfDoc DEF Reported
  <2>3. /\ Unreported(v).status = IF docs[v].status = "active" THEN "deleted"
                                  ELSE docs[v].status
        /\ Unreported(v).score = docs[v].score
    BY <2>1, FieldsOfDoc DEF Unreported
  <2> QED
    BY <2>2, <2>3
<1>3. ASSUME NEW v \in Vertices
      PROVE  fails'[v] \in [DOMAIN Weight -> Nat]
  <2>1. fails[v] \in [DOMAIN Weight -> Nat] /\ NoFails \in [DOMAIN Weight -> Nat]
    BY DEF GraphInv, TypeOK, NoFails
  <2>2. Clouds[seen].fails[v] \in [DOMAIN Weight -> Nat]
    BY AttackPathsAssumption
  <2> QED
    BY <1>1, <2>1, <2>2
<1>4. ASSUME NEW v \in Vertices
      PROVE  /\ docs'[v].status \in {"absent", "active", "deleted"}
             /\ docs[v].status # "absent" => docs'[v].status # "absent"
             /\ docs'[v].score \in Tenths
  <2>1. docs[v].status \in {"absent", "active", "deleted"} /\ docs[v].score \in Tenths
    BY DEF GraphInv, TypeOK
  <2>2. docs'[v] = IF v \in Clouds[seen].seen THEN Reported(v, Clouds[seen]) ELSE Unreported(v)
    BY <1>1
  <2> QED
    BY <1>2, <2>1, <2>2
<1> QED
  BY <1>3, <1>4 DEF DocsStep

LEMMA RescoreStep ==
  ASSUME GraphInv, NEW w \in Workers, Rescore(w)
  PROVE  DocsStep
<1>1. PICK rows : docs' = [v \in Vertices |-> IF v \in rows THEN Rescored(v) ELSE docs[v]]
  BY DEF Rescore
<1>2. ASSUME NEW v \in Vertices
      PROVE  Rescored(v).status = docs[v].status /\ Rescored(v).score \in Tenths
  <2>1. /\ DOMAIN docs[v] = DOMAIN NoDoc
        /\ docs[v] = [x \in DOMAIN docs[v] |-> docs[v][x]]
    BY DEF GraphInv, IInv, DocsOK
  <2>2. Score(docs[v], fails[v], BlastRadius(edges, v)) \in Tenths
    BY ScoreType, BlastType DEF GraphInv, TypeOK, Fails
  <2>3. PICK s \in Tenths : s = Score(docs[v], fails[v], BlastRadius(edges, v))
    BY <2>2
  <2>4. Rescored(v) = [docs[v] EXCEPT !.score = s]
    BY <2>3 DEF Rescored
  <2> QED
    BY <2>1, <2>3, <2>4, FieldsOfDoc
<1> QED
  BY <1>1, <1>2 DEF DocsStep, GraphInv, TypeOK

LEMMA SameScoreStep ==
  ASSUME GraphInv, ComputeExposedInternet \/ (\E part : Flags(part)) \/ UNCHANGED docs
  PROVE  DocsStep
<1> USE DEF GraphInv, IInv, TypeOK
<1>1. CASE UNCHANGED docs
  BY <1>1 DEF DocsStep
<1>3. CASE ComputeExposedInternet
  <2>1. docs' = [v \in Vertices |-> [docs[v] EXCEPT !.exposed = @ \/ docs[v].public]]
    BY <1>3 DEF ComputeExposedInternet
  <2>2. ASSUME NEW v \in Vertices
        PROVE  docs'[v].status = docs[v].status /\ docs'[v].score = docs[v].score
    BY <2>1, FieldsOfDoc DEF DocsOK
  <2> QED
    BY <2>2 DEF DocsStep
<1>4. ASSUME NEW part, Flags(part)
      PROVE  DocsStep
  <2>1. docs' = [v \in Vertices |-> [docs[v] EXCEPT !.flagged = @ \/ v \in part]]
    BY <1>4 DEF Flags
  <2>2. ASSUME NEW v \in Vertices
        PROVE  docs'[v].status = docs[v].status /\ docs'[v].score = docs[v].score
    BY <2>1, FieldsOfDoc DEF DocsOK
  <2> QED
    BY <2>2 DEF DocsStep
<1> QED
  BY <1>1, <1>3, <1>4

(* Edges join stored documents: no document is ever removed.               *)
LEMMA EdgesStep ==
  ASSUME GraphInv, DocsStep, edges' = edges \/ BuildEdges
  PROVE  \A e \in edges' : e.from \in Stored(docs)' /\ e.to \in Stored(docs)'
<1>1. Stored(docs) \subseteq Stored(docs)'
  BY DEF Stored, DocsStep
<1>2. ASSUME NEW e \in edges
      PROVE  e.from \in Stored(docs) /\ e.to \in Stored(docs)
  BY DEF GraphInv, TypeOK
<1>3. Active(docs) \subseteq Stored(docs)
  BY DEF Active, Stored
<1>4. ASSUME NEW e \in IamEdges(docs)
      PROVE  e.from \in Stored(docs) /\ e.to \in Stored(docs)
  BY DEF IamEdges, Edge
<1>5. ASSUME NEW e \in ResourceEdges(docs)
      PROVE  e.from \in Stored(docs) /\ e.to \in Stored(docs)
  BY <1>3 DEF ResourceEdges, Edge
<1>6. ASSUME NEW e \in DataAccessEdges(docs)
      PROVE  e.from \in Stored(docs) /\ e.to \in Stored(docs)
  BY <1>3 DEF DataAccessEdges, Edge
<1> QED
  BY <1>1, <1>2, <1>4, <1>5, <1>6 DEF BuildEdges

(* BoundedSeq, without the functions it is made of.                        *)
LEMMA QueueIsBounded ==
  ASSUME NEW q
  PROVE  q \in BoundedSeq(Tasks, MaxQueue) <=> q \in Seq(Tasks) /\ Len(q) <= MaxQueue
<1>1. MaxQueue \in Nat
  BY AttackPathsAssumption
<1>2. BoundedSeq(Tasks, MaxQueue) = UNION {[1..m -> Tasks] : m \in 0..MaxQueue}
  BY DEF BoundedSeq, SeqOf
<1>3. ASSUME q \in BoundedSeq(Tasks, MaxQueue)
      PROVE  q \in Seq(Tasks) /\ Len(q) <= MaxQueue
  <2>1. PICK m \in 0..MaxQueue : q \in [1..m -> Tasks]
    BY <1>2, <1>3
  <2> QED
    BY <1>1, <2>1
<1>4. ASSUME q \in Seq(Tasks), Len(q) <= MaxQueue
      PROVE  q \in BoundedSeq(Tasks, MaxQueue)
  <2>1. Len(q) \in 0..MaxQueue /\ q \in [1..Len(q) -> Tasks]
    BY <1>1, <1>4
  <2> QED
    BY <1>2, <2>1
<1> QED
  BY <1>3, <1>4

LEMMA QueueStep ==
  ASSUME GraphInv, [Next]_vars
  PROVE  queue' \in BoundedSeq(Tasks, MaxQueue)
<1>1. queue \in Seq(Tasks) /\ Len(queue) <= MaxQueue /\ MaxQueue \in Nat
  BY QueueIsBounded, AttackPathsAssumption DEF GraphInv, TypeOK
<1>2. ASSUME NEW tasks \in Seq(Tasks), Send(tasks)
      PROVE  queue' \in Seq(Tasks) /\ Len(queue') <= MaxQueue
  BY <1>1, <1>2 DEF Send
<1>3. SendTasks \/ SendFails => queue' \in Seq(Tasks) /\ Len(queue') <= MaxQueue
  <2>1. /\ <<"recalculate", "detect">> \in Seq(Tasks)
        /\ <<"recalculate">> \in Seq(Tasks) /\ << >> \in Seq(Tasks)
    BY DEF Tasks
  <2> QED
    BY <1>2, <2>1 DEF SendTasks, SendFails
<1>4. ASSUME NEW w \in Workers, Take(w)
      PROVE  queue' \in Seq(Tasks) /\ Len(queue') <= MaxQueue
  BY <1>1, <1>4 DEF Take
<1>5. ASSUME NEW w \in Workers, Crash(w)
      PROVE  queue' \in Seq(Tasks) /\ Len(queue') <= MaxQueue
  <2>1. PICK t \in Tasks : queue' = Append(queue, t)
    BY <1>5 DEF Crash, Tasks
  <2>2. Len(queue) < MaxQueue
    BY <1>5 DEF Crash
  <2> QED
    BY <1>1, <2>1, <2>2
<1>6. ASSUME UNCHANGED queue
      PROVE  queue' \in Seq(Tasks) /\ Len(queue') <= MaxQueue
  BY <1>1, <1>6
<1>7. queue' \in Seq(Tasks) /\ Len(queue') <= MaxQueue
  BY <1>3, <1>4, <1>5, <1>6 DEF Next, vars, Scan, Work, RefreshInventory, BuildEdges,
     ComputeExposedInternet, ScanFails, Rescore, RescoreSkips, Collect, CollectFails,
     Collected, Persist, PersistSkips, Mark, MarkSkips
<1> QED
  BY <1>7, QueueIsBounded

(* What a worker holds, between any two steps.                             *)
RunsOK ==
  /\ \A w \in Workers : run[w].pc \in {"idle", "rescore", "collect", "persist", "mark"}
  /\ RowsOK /\ RescoreOK

LEMMA RunsStep ==
  ASSUME GraphInv, [Next]_vars
  PROVE  RunsOK'
<1>1. /\ RunOK /\ RunsOK
  BY DEF GraphInv, IInv, TypeOK, RunsOK
<1>2. ASSUME NEW w \in Workers, NEW r, run' = [run EXCEPT ![w] = r],
             r.pc \in {"idle", "rescore", "collect", "persist", "mark"},
             r.pc \in {"persist", "mark"} => \A d \in r.rows : RowOK(d),
             r.pc = "rescore" => r = [pc |-> "rescore", done |-> r.done]
      PROVE  RunsOK'
  <2>1. run'[w] = r /\ \A u \in Workers \ {w} : run'[u] = run[u]
    BY <1>1, <1>2 DEF RunOK
  <2> QED
    BY <1>1, <1>2, <2>1 DEF RunsOK, RowsOK, RescoreOK
<1>3. ASSUME NEW w \in Workers, run' = [run EXCEPT ![w] = Idle]
      PROVE  RunsOK'
  BY <1>2, <1>3 DEF Idle
<1>4. ASSUME NEW w \in Workers, Take(w)
      PROVE  RunsOK'
  <2>1. PICK r : /\ r = IF Head(queue) = "detect" THEN [pc |-> "collect"]
                        ELSE [pc |-> "rescore", done |-> 0]
                 /\ run' = [run EXCEPT ![w] = r]
    BY <1>4 DEF Take
  <2>2. /\ r.pc \in {"rescore", "collect"}
        /\ r.pc = "rescore" => r = [pc |-> "rescore", done |-> r.done]
    BY <2>1
  <2> QED
    BY <1>2, <2>1, <2>2
<1>5. ASSUME NEW w \in Workers, Rescore(w) \/ RescoreSkips(w)
      PROVE  RunsOK'
  <2>1. run[w].pc = "rescore" /\ NextCollection(w)
    BY <1>5 DEF Rescore, RescoreSkips
  <2>2. PICK done : run[w] = [pc |-> "rescore", done |-> done]
    BY <1>1, <2>1 DEF RunsOK, RescoreOK
  <2>3. CASE run' = [run EXCEPT ![w] = Idle]
    BY <1>3, <2>3
  <2>4. CASE run' = [run EXCEPT ![w] = [run[w] EXCEPT !.done = @ + 1]]
    <3>1. PICK r : r = [run[w] EXCEPT !.done = @ + 1]
      OBVIOUS
    <3>2. r = [pc |-> "rescore", done |-> done + 1]
      BY <2>2, <3>1
    <3>3. r.pc = "rescore" /\ r = [pc |-> "rescore", done |-> r.done]
      BY <3>2
    <3> QED
      BY <1>2, <2>4, <3>1, <3>3
  <2> QED
    BY <2>1, <2>3, <2>4 DEF NextCollection
<1>6. ASSUME NEW w \in Workers, Collect(w) \/ CollectFails(w)
      PROVE  RunsOK'
  <2>1. PICK ws \in SUBSET (InternetWalks(docs, edges) \cup EscalationWalks(docs, edges)) :
          Collected(w, ws)
    BY <1>6 DEF Collect, CollectFails, Limited, kSubset
  <2>2. CASE ws = {}
    BY <1>3, <2>1, <2>2 DEF Collected
  <2>3. CASE ws # {}
    <3>1. PICK r : r = [pc |-> "persist", rows |-> {PathDoc(x) : x \in ws}]
      OBVIOUS
    <3>2. run' = [run EXCEPT ![w] = r]
      BY <2>1, <2>3, <3>1 DEF Collected
    <3>3. \A d \in {PathDoc(x) : x \in ws} : RowOK(d)
      BY FoundAreRated DEF GraphInv
    <3>4. r.pc = "persist" /\ r.rows = {PathDoc(x) : x \in ws}
      BY <3>1
    <3> QED
      BY <1>2, <3>2, <3>3, <3>4
  <2> QED
    BY <2>2, <2>3
<1>7. ASSUME NEW w \in Workers, Persist(w) \/ PersistSkips(w)
      PROVE  RunsOK'
  <2>1. run[w].pc = "persist" /\ run' = [run EXCEPT ![w].pc = "mark"]
    BY <1>7 DEF Persist, PersistSkips
  <2>2. PICK rows : run[w] = [pc |-> "persist", rows |-> rows] /\ \A d \in rows : RowOK(d)
    BY <1>1, <2>1 DEF RunOK, RunsOK, RowsOK
  <2>3. PICK r : r = [run[w] EXCEPT !.pc = "mark"]
    OBVIOUS
  <2>4. r.pc = "mark" /\ r.rows = rows
    BY <2>2, <2>3
  <2>5. run' = [run EXCEPT ![w] = r]
    BY <2>1, <2>3
  <2> QED
    BY <1>2, <2>2, <2>4, <2>5
<1>8. ASSUME NEW w \in Workers, Mark(w) \/ MarkSkips(w) \/ Crash(w)
      PROVE  RunsOK'
  BY <1>3, <1>8 DEF Mark, MarkSkips, Crash
<1>9. CASE UNCHANGED run
  BY <1>1, <1>9 DEF RunsOK, RowsOK, RescoreOK
<1> QED
  BY <1>4, <1>5, <1>6, <1>7, <1>8, <1>9 DEF Next, vars, Scan, Work, RefreshInventory,
     BuildEdges, ComputeExposedInternet, Send, SendTasks, SendFails, ScanFails

(* Only rows that a detection found are stored.                            *)
LEMMA PathsStep ==
  ASSUME GraphInv, [Next]_vars
  PROVE  PathsOK'
<1>1. CASE UNCHANGED paths
  BY <1>1 DEF GraphInv, PathsOK
<1>2. ASSUME NEW w \in Workers, run[w].pc = "persist", NEW part \in SUBSET run[w].rows,
             Stores(part)
      PROVE  PathsOK'
  <2>1. \A d \in part : RowOK(d)
    BY <1>2 DEF GraphInv, RowsOK
  <2> QED
    BY <1>2, <2>1, StoredRows DEF GraphInv
<1>3. ASSUME NEW w \in Workers, Persist(w) \/ PersistSkips(w) \/ Crash(w)
      PROVE  PathsOK'
  <2>1. CASE Persist(w)
    BY <1>2, <2>1 DEF Persist
  <2>2. CASE PersistSkips(w)
    BY <1>2, <2>2 DEF PersistSkips
  <2>3. CASE Crash(w)
    BY <1>1, <1>2, <2>3 DEF Crash
  <2> QED
    BY <1>3, <2>1, <2>2, <2>3
<1> QED
  BY <1>1, <1>3 DEF Next, vars, Scan, Work, RefreshInventory, BuildEdges,
     ComputeExposedInternet, Send, SendTasks, SendFails, ScanFails, Take, Rescore,
     RescoreSkips, Collect, CollectFails, Collected, Mark, MarkSkips

(* No step breaks a document or its counts.                               *)
LEMMA VerticesStep ==
  ASSUME GraphInv, [Next]_vars
  PROVE  DocsStep /\ \A v \in Vertices : fails'[v] \in [DOMAIN Weight -> Nat]
<1>1. CASE RefreshInventory
  BY <1>1, RefreshStep
<1>2. CASE UNCHANGED fails /\ (ComputeExposedInternet \/ (\E part : Flags(part)) \/ UNCHANGED docs)
  BY <1>2, SameScoreStep DEF GraphInv, TypeOK
<1>3. ASSUME NEW w \in Workers, Rescore(w)
      PROVE  DocsStep /\ UNCHANGED fails
  BY <1>3, RescoreStep DEF Rescore
<1>4. UNCHANGED fails => \A v \in Vertices : fails'[v] \in [DOMAIN Weight -> Nat]
  BY DEF GraphInv, TypeOK
<1>5. ASSUME NEW w \in Workers, Mark(w) \/ MarkSkips(w) \/ Crash(w)
      PROVE  UNCHANGED fails /\ ((\E part : Flags(part)) \/ UNCHANGED docs)
  BY <1>5 DEF Mark, MarkSkips, Crash
<1>6. \/ RefreshInventory
      \/ UNCHANGED fails /\ (ComputeExposedInternet \/ UNCHANGED docs)
      \/ \E w \in Workers : Rescore(w) \/ Mark(w) \/ MarkSkips(w) \/ Crash(w)
  BY DEF Next, vars, Scan, Work, BuildEdges, ComputeExposedInternet, Send, SendTasks,
     SendFails, ScanFails, Take, RescoreSkips, Collect, CollectFails, Collected, Persist,
     PersistSkips
<1> QED
  BY <1>1, <1>2, <1>3, <1>4, <1>5, <1>6

LEMMA GraphInit == Init => GraphInv
<1> SUFFICES ASSUME Init PROVE GraphInv
  OBVIOUS
<1>1. IInv
  BY InitIInv
<1>2. RowsOK /\ RescoreOK /\ PathsOK
  BY DEF Init, RowsOK, RescoreOK, PathsOK, Idle
<1>3. TypeOK
  <2>1. \A v \in Vertices : /\ docs[v].status = "absent" /\ docs[v].score = 0
                            /\ fails[v] \in [DOMAIN Weight -> Nat]
    BY DEF Init, NoDoc, NoFails
  <2>2. queue \in BoundedSeq(Tasks, MaxQueue)
    <3>1. queue \in Seq(Tasks) /\ Len(queue) <= MaxQueue
      BY AttackPathsAssumption DEF Init
    <3> QED
      BY <3>1, QueueIsBounded
  <2>3. \A w \in Workers : run[w].pc = "idle"
    BY DEF Init, Idle
  <2>4. cloud \in DOMAIN Clouds /\ edges = {} /\ DOMAIN paths = {} /\ scan = "inventory"
    BY DEF Init
  <2>5. 0 \in Tenths
    BY DEF Tenths
  <2> QED
    BY <2>1, <2>2, <2>3, <2>4, <2>5 DEF TypeOK
<1> QED
  BY <1>1, <1>2, <1>3 DEF GraphInv

LEMMA GraphStep == GraphInv /\ [Next]_vars => GraphInv'
<1> SUFFICES ASSUME GraphInv, [Next]_vars PROVE GraphInv'
  OBVIOUS
<1>1. IInv' /\ PathsOK' /\ RunsOK'
  BY NextIInv, PathsStep, RunsStep DEF GraphInv
<1>2. DocsStep /\ \A v \in Vertices : fails'[v] \in [DOMAIN Weight -> Nat]
  BY VerticesStep
<1>3. \A e \in edges' : e.from \in Stored(docs)' /\ e.to \in Stored(docs)'
  <2>1. edges' = edges \/ BuildEdges
    BY DEF Next, vars, Scan, Work, RefreshInventory, ComputeExposedInternet, Send,
       SendTasks, SendFails, ScanFails, Take, Rescore, RescoreSkips, Collect, CollectFails,
       Collected, Persist, PersistSkips, Mark, MarkSkips, Crash
  <2> QED
    BY <1>2, <2>1, EdgesStep
<1>4. \A k \in DOMAIN paths' :
        /\ k[1] = Head(paths'[k].walk) /\ k[2] = Last(paths'[k].walk)
        /\ Hops(paths'[k].walk) \in 1..MaxDepth
        /\ paths'[k].risk \in Tenths
  BY <1>1, PathsTyped DEF PathsOK
<1>5. cloud' \in DOMAIN Clouds
  BY DEF GraphInv, TypeOK, Next, vars, Scan, Work, RefreshInventory, BuildEdges,
     ComputeExposedInternet, Send, SendTasks, SendFails, ScanFails, Take, Rescore,
     RescoreSkips, Collect, CollectFails, Collected, Persist, PersistSkips, Mark,
     MarkSkips, Crash
<1>6. scan' \in {"inventory", "edges", "exposure", "send"}
  BY DEF GraphInv, TypeOK, Next, vars, Scan, Work, RefreshInventory, BuildEdges,
     ComputeExposedInternet, Send, SendTasks, SendFails, ScanFails, Take, Rescore,
     RescoreSkips, Collect, CollectFails, Collected, Persist, PersistSkips, Mark,
     MarkSkips, Crash
<1>7. queue' \in BoundedSeq(Tasks, MaxQueue)
  BY QueueStep
<1> QED
  BY <1>1, <1>2, <1>3, <1>4, <1>5, <1>6, <1>7 DEF GraphInv, TypeOK, DocsStep, RunsOK

(* Every document, path and task keeps its type: a score stays between 0   *)
(* and 100 whatever a resource fails and reaches, a stored path joins the  *)
(* two ends of its key in MaxDepth hops at most with a risk in range, and  *)
(* no edge dangles.                                                        *)
THEOREM TypeCorrect == Spec => []TypeOK
<1>1. GraphInv => TypeOK
  BY DEF GraphInv
<1> QED
  BY <1>1, GraphInit, GraphStep, PTL DEF Spec

-----------------------------------------------------------------------------
(* The keys of the stored paths are few: two vertices and a rule.          *)
LEMMA FinitePaths ==
  ASSUME PathsOK
  PROVE  IsFiniteSet(DOMAIN paths)
<1> DEFINE rules == {"internet_to_data", "privilege_escalation"}
           pairs == (Vertices \X Vertices) \X rules
<1>1. IsFiniteSet(pairs)
  <2>1. IsFiniteSet(Vertices \X Vertices)
    BY AssetGraphAssumption, FS_Product
  <2>2. IsFiniteSet(rules)
    <3>1. IsFiniteSet({"internet_to_data"})
      BY FS_Singleton
    <3>2. rules = {"internet_to_data"} \cup {"privilege_escalation"}
      OBVIOUS
    <3> QED
      BY <3>1, <3>2, FS_AddElement
  <2> HIDE DEF rules
  <2> QED
    BY <2>1, <2>2, FS_Product
<1>2. ASSUME NEW k \in DOMAIN paths
      PROVE  \E x \in pairs : k = <<x[1][1], x[1][2], x[2]>>
  <2>1. k = KeyOf(paths[k].walk) /\ RowOK(paths[k])
    BY DEF PathsOK
  <2>2. PICK walk \in Seq(Vertices) : k = KeyOf(walk) /\ Len(walk) > 1
    BY <2>1, AssetGraphAssumption DEF RowOK
  <2>3. Head(walk) \in Vertices /\ Last(walk) \in Vertices
    BY <2>2 DEF Last
  <2>4. RuleOf(walk) \in rules
    BY DEF RuleOf
  <2>5. <<<<Head(walk), Last(walk)>>, RuleOf(walk)>> \in pairs
    BY <2>3, <2>4
  <2> QED
    BY <2>2, <2>5 DEF KeyOf
<1> DEFINE f == [k \in DOMAIN paths |-> <<<<k[1], k[2]>>, k[3]>>]
<1>3. f \in Injection(DOMAIN paths, pairs)
  <2>1. ASSUME NEW k \in DOMAIN paths
        PROVE  f[k] \in pairs /\ k = <<f[k][1][1], f[k][1][2], f[k][2]>>
    <3>1. PICK x \in pairs : k = <<x[1][1], x[1][2], x[2]>>
      BY <1>2
    <3> QED
      BY <3>1
  <2> QED
    BY <2>1 DEF Injection, IsInjective
<1> HIDE DEF f, pairs
<1> QED
  BY <1>1, <1>3, FS_Injection

(* The four tiles are disjoint and cover the paths.                        *)
LEMMA TilesAddUp ==
  ASSUME PathsOK
  PROVE  Stats.total = Stats.tile["CRITICAL"] + Stats.tile["HIGH"]
                         + Stats.tile["MEDIUM"] + Stats.tile["LOW"]
<1> DEFINE Rating(s) == {k \in DOMAIN paths : paths[k].severity = s}
<1>1. ASSUME NEW s
      PROVE  IsFiniteSet(Rating(s))
  BY FinitePaths, FS_Subset
<1>2. DOMAIN paths = ((Rating("CRITICAL") \cup Rating("HIGH")) \cup Rating("MEDIUM"))
                       \cup Rating("LOW")
  BY DEF PathsOK, RowOK, Tiles
<1>3. /\ Rating("CRITICAL") \cap Rating("HIGH") = {}
      /\ (Rating("CRITICAL") \cup Rating("HIGH")) \cap Rating("MEDIUM") = {}
      /\ ((Rating("CRITICAL") \cup Rating("HIGH")) \cup Rating("MEDIUM")) \cap Rating("LOW") = {}
  OBVIOUS
<1>4. ASSUME NEW A, NEW B, IsFiniteSet(A), IsFiniteSet(B), A \cap B = {}
      PROVE  /\ IsFiniteSet(A \cup B) /\ Cardinality(A \cup B) = Cardinality(A) + Cardinality(B)
             /\ Cardinality(A) \in Nat /\ Cardinality(B) \in Nat
  <2>1. Cardinality(A \cap B) = 0
    BY <1>4, FS_EmptySet
  <2>2. Cardinality(A \cup B) = Cardinality(A) + Cardinality(B) - Cardinality(A \cap B)
    BY <1>4, FS_Union
  <2>3. IsFiniteSet(A \cup B) /\ Cardinality(A) \in Nat /\ Cardinality(B) \in Nat
    BY <1>4, FS_Union, FS_CardinalityType
  <2> QED
    BY <2>1, <2>2, <2>3
<1>5. \A s \in Tiles : Stats.tile[s] = Cardinality(Rating(s))
  BY DEF Stats
<1>6. Stats.total = Cardinality(DOMAIN paths)
  BY DEF Stats
<1> HIDE DEF Rating
<1>7. /\ IsFiniteSet(Rating("CRITICAL") \cup Rating("HIGH"))
      /\ Cardinality(Rating("CRITICAL") \cup Rating("HIGH"))
           = Cardinality(Rating("CRITICAL")) + Cardinality(Rating("HIGH"))
  BY <1>1, <1>3, <1>4
<1>8. /\ IsFiniteSet((Rating("CRITICAL") \cup Rating("HIGH")) \cup Rating("MEDIUM"))
      /\ Cardinality((Rating("CRITICAL") \cup Rating("HIGH")) \cup Rating("MEDIUM"))
           = Cardinality(Rating("CRITICAL") \cup Rating("HIGH")) + Cardinality(Rating("MEDIUM"))
  BY <1>1, <1>3, <1>4, <1>7
<1>9. Cardinality(DOMAIN paths)
        = Cardinality((Rating("CRITICAL") \cup Rating("HIGH")) \cup Rating("MEDIUM"))
            + Cardinality(Rating("LOW"))
  BY <1>1, <1>2, <1>3, <1>4, <1>8
<1>10. /\ Stats.tile["CRITICAL"] = Cardinality(Rating("CRITICAL"))
       /\ Stats.tile["HIGH"] = Cardinality(Rating("HIGH"))
       /\ Stats.tile["MEDIUM"] = Cardinality(Rating("MEDIUM"))
       /\ Stats.tile["LOW"] = Cardinality(Rating("LOW"))
  BY <1>5 DEF Tiles
<1> QED
  BY <1>6, <1>7, <1>8, <1>9, <1>10

LEMMA GraphRatings == GraphInv => RatingsAgree
<1> SUFFICES ASSUME GraphInv PROVE RatingsAgree
  OBVIOUS
<1>1. ASSUME NEW v \in Stored(docs)
      PROVE  LET blast == BlastRadius(edges, v)
             IN Score(docs[v], fails[v], blast) =
                  IF docs[v].flagged /\ fails[v] = NoFails THEN InPathMinScore
                  ELSE ReferenceScore(docs[v], fails[v], blast)
  <2>1. fails[v] \in Fails
    BY DEF GraphInv, TypeOK, Fails, Stored
  <2> QED
    BY <2>1, BlastType, BatchAndReference
<1> QED
  BY <1>1, TilesAddUp DEF RatingsAgree, GraphInv

(* The four tiles of the statistics add up to their total, whatever old,   *)
(* missing or capped scores the paths were rated by; and the batch of      *)
(* attack_paths.py computes the score of risk_score.py for every document, *)
(* but the minimum for one on a path that has no findings.                 *)
THEOREM RatingsHold == Spec => []RatingsAgree
BY GraphInit, GraphStep, GraphRatings, PTL DEF Spec
=============================================================================
