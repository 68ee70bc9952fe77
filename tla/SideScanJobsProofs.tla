------------------------- MODULE SideScanJobsProofs -------------------------
(***************************************************************************)
(* Theorems about SideScanJobs, for every number of events, assets,        *)
(* workers, retries and faults.                                            *)
(***************************************************************************)
EXTENDS SideScanJobs, SequenceTheorems, FiniteSetTheorems, TLAPS

-----------------------------------------------------------------------------
(* Job ids                                                                 *)

LEMMA Bounds ==
  /\ MaxFresh \in Nat /\ MaxSeconds \in Nat /\ MaxVersion \in Nat
  /\ MaxRetries \in Nat /\ MaxFaults \in Nat
  /\ MaxDepth \in Nat /\ MaxDepth >= 1
BY SideScanJobsAssumption

LEMMA IdLength == ASSUME NEW j \in JobIds PROVE j \in Seq(Parts) /\ Len(j) \in 1..MaxDepth
<1>1. PICK n \in 1..MaxDepth : j \in [1..n -> Parts]
  BY DEF JobIds, Parts
<1>2. n \in Nat
  BY SideScanJobsAssumption
<1>3. j \in Seq(Parts)
  BY <1>1, <1>2, SeqDef
<1>4. Len(j) = n
  BY <1>1, <1>2, <1>3, LenProperties
<1> QED
  BY <1>3, <1>4

LEMMA IdOfLength ==
  ASSUME NEW j \in Seq(Parts), Len(j) \in 1..MaxDepth
  PROVE  j \in JobIds
<1>1. j \in [1..Len(j) -> Parts]
  BY LenProperties
<1> QED
  BY <1>1 DEF JobIds, Parts

LEMMA OriginalIds == ASSUME NEW x \in Parts PROVE <<x>> \in JobIds
<1>1. <<x>> \in Seq(Parts) /\ Len(<<x>>) = 1
  OBVIOUS
<1>2. 1 \in 1..MaxDepth
  BY Bounds
<1>3. Len(<<x>>) \in 1..MaxDepth
  BY <1>1, <1>2, Zenon
<1> QED
  BY <1>1, <1>3, IdOfLength, Zenon

LEMMA RetryIds ==
  ASSUME NEW j \in JobIds, NEW s \in 1..MaxSeconds
  PROVE  /\ Len(Append(j, s)) <= MaxDepth => Append(j, s) \in JobIds
         /\ Len(Append(j, s)) > 1
<1>1. j \in Seq(Parts) /\ Len(j) \in 1..MaxDepth
  BY IdLength
<1>2. s \in Parts
  BY Bounds DEF Parts
<1>3. Append(j, s) \in Seq(Parts) /\ Len(Append(j, s)) = Len(j) + 1
  BY <1>1, <1>2, AppendProperties
<1>4. Len(Append(j, s)) <= MaxDepth => Append(j, s) \in JobIds
  <2> SUFFICES ASSUME Len(Append(j, s)) <= MaxDepth PROVE Append(j, s) \in JobIds
    OBVIOUS
  <2>1. Len(Append(j, s)) \in 1..MaxDepth
    BY <1>1, <1>3, Bounds
  <2> QED
    BY <1>3, <2>1, IdOfLength
<1>5. Len(j) + 1 > 1
  BY <1>1, Bounds
<1> QED
  BY <1>3, <1>4, <1>5

-----------------------------------------------------------------------------
(* Bags, kinds, faults                                                     *)

LEMMA Added == ASSUME NEW q, NEW m PROVE BagToSet(Bag!BagAdd(q, m)) = BagToSet(q) \cup {m}
BY DEF Bag!BagAdd, BagToSet

LEMMA Removed ==
  ASSUME NEW q, NEW m
  PROVE  /\ BagToSet(Bag!BagRemove(q, m)) \subseteq BagToSet(q)
         /\ BagToSet(q) \ {m} \subseteq BagToSet(Bag!BagRemove(q, m))
BY DEF Bag!BagRemove, BagToSet

Kinds == {"ec2", "lambda", "ecr", "k8s_container", "other"}

LEMMA Kindness ==
  ASSUME NEW x \in Targets
  PROVE  /\ Kind(x) \in Kinds
         /\ Kind(x) = "lambda" <=> x \in Functions
         /\ Kind(x) # "other" => x \in Hooks \cup Assets
<1>1. CASE x \in Images
  BY <1>1, SideScanJobsAssumption DEF Kind, Kinds
<1>2. CASE x \in Hooks \ Images
  BY <1>2, SideScanJobsAssumption DEF Kind, Kinds
<1>3. CASE x \in Functions
  BY <1>3, SideScanJobsAssumption DEF Kind, Kinds
<1>4. CASE x \in Assets \ Functions
  BY <1>4, SideScanJobsAssumption DEF Kind, Kinds
<1>5. CASE x \in Strays
  BY <1>5, SideScanJobsAssumption DEF Kind, Kinds
<1> QED
  BY <1>1, <1>2, <1>3, <1>4, <1>5 DEF Targets

LEMMA BrokenCounts ==
  ASSUME NEW broken \in SUBSET {"check", "insert", "send"}
  PROVE  Cardinality(broken) \in Nat /\ (broken # {} => Cardinality(broken) >= 1)
<1>1. IsFiniteSet({"check", "insert", "send"})
  <2>1. IsFiniteSet({"check"})
    BY FS_Singleton
  <2>2. IsFiniteSet({"check"} \cup {"insert"})
    BY <2>1, FS_AddElement
  <2>3. IsFiniteSet({"check"} \cup {"insert"} \cup {"send"})
    BY <2>2, FS_AddElement
  <2>4. {"check"} \cup {"insert"} \cup {"send"} = {"check", "insert", "send"}
    OBVIOUS
  <2> QED
    BY <2>3, <2>4
<1>2. IsFiniteSet(broken)
  BY <1>1, FS_Subset
<1>3. Cardinality(broken) \in Nat
  BY <1>2, FS_CardinalityType
<1>4. broken # {} => Cardinality(broken) # 0
  BY <1>2, FS_EmptySet
<1> QED
  BY <1>3, <1>4

-----------------------------------------------------------------------------
(* Types                                                                   *)

Jobs == [kind : Kinds, target : Targets, status : Tracked]
Pcs == {"prepare", "code", "scan", "wipe", "wipe_ok", "persist", "ack"}
Messages == [job : JobIds, target : Hooks \cup Assets, exact : BOOLEAN, try : 0..MaxRetries]
Runs == [pc : Pcs, msg : Messages, seen : 0..MaxVersion]

DocsOK ==
  /\ DOMAIN docs \subseteq JobIds
  /\ docs \in [DOMAIN docs -> Jobs]
  /\ \A j \in DOMAIN docs : docs[j].kind = Kind(docs[j].target)

(* Only a Lambda scan has files to remove.                                 *)
RunOK ==
  /\ run \in [Workers -> Runs \cup {Idle}]
  /\ \A w \in Workers : run[w].pc \in {"code", "wipe", "wipe_ok"} => KindOf(w) = "lambda"

QueueOK == BagToSet(queue) \subseteq Messages

FaultsOK == outages \in Nat /\ errors \in Nat /\ outages + errors <= MaxFaults

RestOK ==
  /\ fresh \in 0..MaxFresh
  /\ sent \in [Hooks \cup Assets -> Nat]
  /\ dirs \subseteq JobIds
  /\ checked \subseteq Assets
  /\ reports \in [Subjects -> [content : 0..MaxVersion, stamp : 0..MaxVersion, some : BOOLEAN]]

TypeInv == DocsOK /\ RunOK /\ QueueOK /\ FaultsOK /\ RestOK

LEMMA TypeInvImplies == TypeInv => TypeOK
<1> SUFFICES ASSUME TypeInv PROVE TypeOK
  OBVIOUS
<1> USE DEF TypeInv
<1>1. \A j \in DOMAIN docs : docs[j] \in Jobs
  BY DEF DocsOK
<1>2. \A m \in BagToSet(queue) : m.job \in JobIds /\ m.try <= MaxRetries
  BY Bounds DEF QueueOK, Messages
<1>3. ASSUME NEW w \in Workers, run[w] # Idle
      PROVE  run[w].pc \in Pcs /\ run[w].msg.job \in JobIds
  BY <1>3 DEF RunOK, Runs, Messages
<1>4. DOMAIN docs \subseteq JobIds
  BY DEF DocsOK
<1> QED
  BY <1>1, <1>2, <1>3, <1>4 DEF TypeOK, FaultsOK, RestOK, Jobs, Kinds, Pcs

LEMMA TypeInit == Init => TypeInv
<1> SUFFICES ASSUME Init PROVE TypeInv
  OBVIOUS
<1>1. DocsOK
  <2>1. \A s \in Strays : <<s>> \in JobIds
    BY OriginalIds DEF Parts
  <2>2. \A s \in Strays : Job(s, "failed") \in Jobs
    BY Kindness DEF Job, Jobs, Targets, Tracked
  <2>3. DOMAIN docs = {<<s>> : s \in Strays}
    BY DEF Init
  <2>4. \A j \in DOMAIN docs : docs[j] \in Jobs /\ docs[j].kind = Kind(docs[j].target)
    BY <2>2, <2>3 DEF Init, Job
  <2>5. docs \in [DOMAIN docs -> Jobs]
    BY <2>4 DEF Init
  <2> QED
    BY <2>1, <2>3, <2>4, <2>5 DEF DocsOK
<1>2. QueueOK
  BY DEF Init, QueueOK, BagToSet, EmptyBag, SetToBag
<1>3. RunOK
  BY DEF Init, RunOK, Idle
<1>4. FaultsOK
  BY Bounds DEF Init, FaultsOK
<1>5. RestOK
  BY Bounds DEF Init, RestOK
<1> QED
  BY <1>1, <1>2, <1>3, <1>4, <1>5 DEF TypeInv

-----------------------------------------------------------------------------
(* What the parts of an action do                                          *)

(* No document goes or changes its target, and faults are not forgotten.   *)
DocsKept ==
  /\ DOMAIN docs \subseteq DOMAIN docs'
  /\ \A j \in DOMAIN docs : docs'[j].target = docs[j].target

FaultsKept == errors' >= errors /\ outages' >= outages

LEMMA CountErrorsStep ==
  ASSUME FaultsOK, NEW n \in Nat, CountErrors(n)
  PROVE  FaultsOK' /\ FaultsKept /\ errors' = errors + n /\ outages' = outages
BY Bounds DEF FaultsOK, CountErrors, FaultsKept

LEMMA CountOutageStep ==
  ASSUME FaultsOK, CountOutage
  PROVE  FaultsOK' /\ FaultsKept /\ errors' = errors /\ outages' = outages + 1
BY Bounds DEF FaultsOK, CountOutage, FaultsKept

LEMMA NoFaultStep ==
  ASSUME FaultsOK, UNCHANGED faults
  PROVE  FaultsOK' /\ FaultsKept /\ errors' = errors /\ outages' = outages
BY DEF FaultsOK, FaultsKept, faults

LEMMA NoDocStep ==
  ASSUME DocsOK, UNCHANGED docs
  PROVE  DocsOK' /\ DocsKept
BY DEF DocsOK, DocsKept

LEMMA InsertStep ==
  ASSUME DocsOK, NEW j \in JobIds, NEW d \in Jobs, j \notin DOMAIN docs,
         d.kind = Kind(d.target), docs' = Insert(j, d)
  PROVE  /\ DocsOK' /\ DocsKept
         /\ DOMAIN docs' = DOMAIN docs \cup {j} /\ docs'[j] = d
         /\ \A i \in DOMAIN docs : docs'[i] = docs[i]
<1>1. DOMAIN docs' = DOMAIN docs \cup {j} /\ docs'[j] = d
  BY DEF Insert
<1>2. \A i \in DOMAIN docs : docs'[i] = docs[i]
  BY DEF Insert
<1>3. \A i \in DOMAIN docs' : docs'[i] \in Jobs
  BY <1>1, <1>2 DEF DocsOK
<1>4. docs' \in [DOMAIN docs' -> Jobs]
  BY <1>1, <1>3 DEF Insert
<1>5. \A i \in DOMAIN docs' : docs'[i].kind = Kind(docs'[i].target)
  BY <1>1, <1>2 DEF DocsOK
<1>6. DOMAIN docs' \subseteq JobIds
  BY <1>1 DEF DocsOK
<1>7. DocsOK'
  BY <1>4, <1>5, <1>6 DEF DocsOK
<1>8. DocsKept
  BY <1>1, <1>2 DEF DocsKept
<1> QED
  BY <1>1, <1>2, <1>7, <1>8

(* SetStatus either sets the status or counts an error.                    *)
LEMMA SetStatusStep ==
  ASSUME DocsOK, FaultsOK, NEW j, NEW s \in Tracked, SetStatus(j, s)
  PROVE  /\ DocsOK' /\ DocsKept /\ FaultsOK' /\ FaultsKept /\ outages' = outages
         /\ DOMAIN docs' = DOMAIN docs
         /\ \A i \in DOMAIN docs : docs'[i].kind = docs[i].kind
         /\ \A i \in DOMAIN docs : i # j => docs'[i] = docs[i]
         /\ j \in DOMAIN docs => docs'[j].status = s \/ errors' > errors
<1>1. CASE UNCHANGED docs /\ CountErrors(1)
  <2>1. FaultsOK' /\ FaultsKept /\ errors' = errors + 1 /\ outages' = outages
    BY <1>1, CountErrorsStep
  <2>2. errors' > errors
    BY <2>1 DEF FaultsOK
  <2> QED
    BY <1>1, <2>1, <2>2, NoDocStep, Zenon
<1>2. CASE UNCHANGED docs /\ UNCHANGED faults /\ j \notin DOMAIN docs
  BY <1>2, NoFaultStep, NoDocStep, Zenon
<1>3. CASE docs' = [docs EXCEPT ![j].status = s] /\ UNCHANGED faults /\ j \in DOMAIN docs
  <2>1. docs[j] \in Jobs
    BY <1>3 DEF DocsOK
  <2>2. docs'[j] = [docs[j] EXCEPT !.status = s]
    BY <1>3
  <2>3. docs'[j] \in Jobs /\ docs'[j].status = s
    BY <2>1, <2>2 DEF Jobs
  <2>4. docs'[j].target = docs[j].target /\ docs'[j].kind = docs[j].kind
    BY <2>1, <2>2 DEF Jobs
  <2>5. DOMAIN docs' = DOMAIN docs
    BY <1>3
  <2>6. \A i \in DOMAIN docs : i # j => docs'[i] = docs[i]
    BY <1>3
  <2>7. \A i \in DOMAIN docs' : docs'[i] \in Jobs
    BY <2>3, <2>5, <2>6 DEF DocsOK
  <2>8. docs' \in [DOMAIN docs' -> Jobs]
    BY <1>3, <2>5, <2>7
  <2>9. \A i \in DOMAIN docs' : docs'[i].kind = Kind(docs'[i].target)
    BY <2>4, <2>5, <2>6 DEF DocsOK
  <2>10. DocsOK'
    BY <2>5, <2>8, <2>9 DEF DocsOK
  <2>11. DocsKept
    BY <2>4, <2>5, <2>6 DEF DocsKept
  <2>12. \A i \in DOMAIN docs : docs'[i].kind = docs[i].kind
    BY <2>4, <2>6
  <2> QED
    BY <1>3, <2>3, <2>5, <2>6, <2>10, <2>11, <2>12, NoFaultStep, Zenon
<1> QED
  BY <1>1, <1>2, <1>3 DEF SetStatus

LEMMA NotIdle ==
  ASSUME RunOK, NEW w \in Workers
  PROVE  /\ run[w] # Idle => run[w] \in Runs
         /\ run[w] # Idle <=> run[w].pc # "idle"
         /\ run[w] # Idle => /\ run[w].msg \in Messages /\ JobOf(w) \in JobIds
                             /\ KindOf(w) = Kind(run[w].msg.target)
<1>1. run[w] \in Runs \/ run[w] = Idle
  BY DEF RunOK
<1>2. Idle.pc = "idle"
  BY DEF Idle
<1>3. run[w] \in Runs => run[w].pc # "idle" /\ run[w].msg \in Messages
  BY DEF Runs, Pcs
<1> QED
  BY <1>1, <1>2, <1>3 DEF JobOf, KindOf, Messages

(* A worker goes on with the message it has.                               *)
LEMMA GoToStep ==
  ASSUME RunOK, NEW w \in Workers, run[w] # Idle, NEW pc \in Pcs,
         pc \in {"code", "wipe", "wipe_ok"} => KindOf(w) = "lambda", GoTo(w, pc)
  PROVE  /\ RunOK' /\ run'[w] # Idle /\ run'[w].pc = pc /\ run'[w].msg = run[w].msg
         /\ \A v \in Workers : v # w => run'[v] = run[v]
<1>1. run[w] \in Runs
  BY NotIdle
<1>2. run' = [run EXCEPT ![w] = [run[w] EXCEPT !.pc = pc]]
  BY DEF GoTo, RunOK
<1>3. run'[w] = [run[w] EXCEPT !.pc = pc]
  BY <1>2 DEF RunOK
<1>4. run'[w] \in Runs /\ run'[w].pc = pc /\ run'[w].msg = run[w].msg
  BY <1>1, <1>3 DEF Runs
<1>5. \A v \in Workers : v # w => run'[v] = run[v]
  BY <1>2 DEF RunOK
<1>6. run' \in [Workers -> Runs \cup {Idle}]
  BY <1>2, <1>4 DEF RunOK
<1>7. \A v \in Workers : run'[v].pc \in {"code", "wipe", "wipe_ok"} => KindOf(v)' = "lambda"
  BY <1>4, <1>5 DEF RunOK, KindOf
<1>8. run'[w] # Idle
  BY <1>4 DEF Idle, Pcs
<1> QED
  BY <1>4, <1>5, <1>6, <1>7, <1>8 DEF RunOK

(* A worker is free again.                                                 *)
LEMMA FreeStep ==
  ASSUME RunOK, NEW w \in Workers, run' = [run EXCEPT ![w] = Idle]
  PROVE  RunOK' /\ run'[w] = Idle /\ \A v \in Workers : v # w => run'[v] = run[v]
<1>1. run'[w] = Idle /\ \A v \in Workers : v # w => run'[v] = run[v]
  BY DEF RunOK
<1>2. run' \in [Workers -> Runs \cup {Idle}]
  BY DEF RunOK
<1>3. Idle.pc \notin {"code", "wipe", "wipe_ok"}
  BY DEF Idle
<1>4. \A v \in Workers : run'[v].pc \in {"code", "wipe", "wipe_ok"} => KindOf(v)' = "lambda"
  BY <1>1, <1>3 DEF RunOK, KindOf
<1> QED
  BY <1>1, <1>2, <1>4 DEF RunOK

LEMMA NoRunStep == ASSUME RunOK, UNCHANGED run PROVE RunOK'
BY DEF RunOK, KindOf

LEMMA NoQueueStep == ASSUME QueueOK, UNCHANGED queue PROVE QueueOK'
BY DEF QueueOK

LEMMA QueueAddStep ==
  ASSUME QueueOK, NEW m \in Messages, queue' = Bag!BagAdd(queue, m)
  PROVE  QueueOK' /\ BagToSet(queue') = BagToSet(queue) \cup {m}
BY Added DEF QueueOK

-----------------------------------------------------------------------------
(* What each action does to the types, the documents and the faults        *)

Kept == TypeInv' /\ DocsKept /\ FaultsKept

(* A document and its task, each of which may fail.                        *)
Created(j, x, broken) ==
  /\ DOMAIN docs' \subseteq DOMAIN docs \cup {j}
  /\ \A i \in DOMAIN docs : docs'[i] = docs[i]
  /\ BagToSet(queue) \subseteq BagToSet(queue')
  /\ BagToSet(queue') \subseteq BagToSet(queue) \cup {Message(j, x, TRUE)}
  /\ UNCHANGED queue \/ queue' = Bag!BagAdd(queue, Message(j, x, TRUE))
  /\ "insert" \notin broken => j \in DOMAIN docs'
  /\ j \in DOMAIN docs' /\ j \notin DOMAIN docs => docs'[j] = Job(x, "queued")
  /\ "send" \notin broken => Message(j, x, TRUE) \in BagToSet(queue')
  /\ broken # {} => errors' > errors
  /\ errors' >= errors /\ outages' = outages

LEMMA CreateStep ==
  ASSUME TypeInv, NEW j \in JobIds, NEW x \in Hooks \cup Assets,
         NEW broken \in SUBSET {"check", "insert", "send"},
         CountErrors(Cardinality(broken)),
         docs' = IF j \in DOMAIN docs \/ "insert" \in broken
                 THEN docs ELSE Insert(j, Job(x, "queued")),
         queue' = IF "send" \in broken THEN queue ELSE Bag!BagAdd(queue, Message(j, x, TRUE))
  PROVE  /\ Created(j, x, broken)
         /\ DocsOK' /\ DocsKept /\ FaultsOK' /\ FaultsKept /\ QueueOK'
<1> USE DEF TypeInv
<1>1. Cardinality(broken) \in Nat /\ (broken # {} => Cardinality(broken) >= 1)
  BY BrokenCounts
<1>2. FaultsOK' /\ FaultsKept /\ errors' = errors + Cardinality(broken) /\ outages' = outages
  BY <1>1, CountErrorsStep
<1>3. errors' >= errors /\ (broken # {} => errors' > errors)
  BY <1>1, <1>2 DEF FaultsOK
<1>4. Message(j, x, TRUE) \in Messages
  BY Bounds DEF Message, Messages
<1>5. /\ QueueOK'
      /\ BagToSet(queue) \subseteq BagToSet(queue')
      /\ BagToSet(queue') \subseteq BagToSet(queue) \cup {Message(j, x, TRUE)}
      /\ "send" \notin broken => Message(j, x, TRUE) \in BagToSet(queue')
  <2>1. CASE "send" \in broken
    BY <2>1 DEF QueueOK
  <2>2. CASE "send" \notin broken
    BY <1>4, <2>2, QueueAddStep
  <2> QED
    BY <2>1, <2>2
<1>6. x \in Targets
  BY DEF Targets
<1>7. Job(x, "queued") \in Jobs /\ Job(x, "queued").kind = Kind(Job(x, "queued").target)
  BY <1>6, Kindness DEF Job, Jobs, Tracked
<1>8. /\ DocsOK' /\ DocsKept
      /\ DOMAIN docs' \subseteq DOMAIN docs \cup {j}
      /\ \A i \in DOMAIN docs : docs'[i] = docs[i]
      /\ "insert" \notin broken => j \in DOMAIN docs'
      /\ j \in DOMAIN docs' /\ j \notin DOMAIN docs => docs'[j] = Job(x, "queued")
  <2>1. CASE j \in DOMAIN docs \/ "insert" \in broken
    <3>1. docs' = docs
      BY <2>1
    <3> QED
      BY <2>1, <3>1, NoDocStep
  <2>2. CASE ~(j \in DOMAIN docs \/ "insert" \in broken)
    <3>1. docs' = Insert(j, Job(x, "queued")) /\ j \notin DOMAIN docs
      BY <2>2
    <3> HIDE DEF TypeInv
    <3>2. DocsOK
      BY DEF TypeInv
    <3>3. /\ DocsOK' /\ DocsKept
          /\ DOMAIN docs' = DOMAIN docs \cup {j} /\ docs'[j] = Job(x, "queued")
          /\ \A i \in DOMAIN docs : docs'[i] = docs[i]
      BY <1>7, <3>1, <3>2, InsertStep
    <3> QED
      BY <3>3
  <2> QED
    BY <2>1, <2>2
<1> QED
  BY <1>2, <1>3, <1>5, <1>8 DEF Created

LEMMA WebhookKeeps ==
  ASSUME TypeInv, NEW h \in Hooks, Webhook(h)
  PROVE  /\ Kept
         /\ \E broken \in SUBSET {"check", "insert", "send"} :
              /\ AlreadyTracked(<<h>>) <=> "check" \in broken
              /\ Created(<<h>>, h, broken)
              /\ sent' = IF "send" \in broken THEN sent ELSE [sent EXCEPT ![h] = @ + 1]
         /\ UNCHANGED <<run, dirs, fresh, checked, reports>>
<1>1. PICK broken \in SUBSET {"check", "insert", "send"} :
        /\ AlreadyTracked(<<h>>) <=> "check" \in broken
        /\ CountErrors(Cardinality(broken))
        /\ docs' = IF <<h>> \in DOMAIN docs \/ "insert" \in broken
                   THEN docs ELSE Insert(<<h>>, Job(h, "queued"))
        /\ queue' = IF "send" \in broken THEN queue
                    ELSE Bag!BagAdd(queue, Message(<<h>>, h, TRUE))
        /\ sent' = IF "send" \in broken THEN sent ELSE [sent EXCEPT ![h] = @ + 1]
        /\ UNCHANGED <<run, dirs, fresh, checked, reports>>
  BY Zenon DEF Webhook
<1>2. <<h>> \in JobIds
  BY OriginalIds DEF Parts
<1>3. h \in Hooks \cup Assets
  OBVIOUS
<1>4. /\ Created(<<h>>, h, broken)
      /\ DocsOK' /\ DocsKept /\ FaultsOK' /\ FaultsKept /\ QueueOK'
  BY <1>1, <1>2, <1>3, CreateStep, Zenon
<1>5. RunOK'
  BY <1>1, NoRunStep DEF TypeInv
<1>6. RestOK'
  BY <1>1 DEF TypeInv, RestOK
<1> QED
  BY <1>1, <1>4, <1>5, <1>6 DEF Kept, TypeInv

LEMMA EnqueueKeeps ==
  ASSUME TypeInv, NEW a \in Assets, EnqueueSideScan(a)
  PROVE  /\ DocsOK' /\ DocsKept /\ FaultsOK' /\ FaultsKept /\ QueueOK' /\ RunOK'
         /\ UNCHANGED <<run, dirs, reports>> /\ fresh' = fresh + 1 /\ fresh' \in 0..MaxFresh
         /\ NewId \in JobIds
         /\ NewId = <<fresh + 1>> /\ fresh + 1 \in 1..MaxFresh
         /\ \E broken \in SUBSET {"insert", "send"} : Created(NewId, a, broken)
<1>1. PICK broken \in SUBSET {"insert", "send"} :
        /\ fresh < MaxFresh
        /\ fresh' = fresh + 1
        /\ CountErrors(Cardinality(broken))
        /\ docs' = IF NewId \in DOMAIN docs \/ "insert" \in broken
                   THEN docs ELSE Insert(NewId, Job(a, "queued"))
        /\ queue' = IF "send" \in broken THEN queue
                    ELSE Bag!BagAdd(queue, Message(NewId, a, TRUE))
        /\ UNCHANGED <<run, dirs, reports>>
  BY Zenon DEF EnqueueSideScan
<1>2. /\ fresh \in Nat /\ fresh + 1 \in 1..(MaxFresh + MaxSeconds)
      /\ fresh + 1 \in 0..MaxFresh /\ fresh + 1 \in 1..MaxFresh
  BY <1>1, Bounds DEF TypeInv, RestOK
<1>3. NewId \in JobIds
  BY <1>2, OriginalIds DEF Parts, NewId
<1>4. a \in Hooks \cup Assets /\ broken \in SUBSET {"check", "insert", "send"}
  OBVIOUS
<1>5. /\ Created(NewId, a, broken)
      /\ DocsOK' /\ DocsKept /\ FaultsOK' /\ FaultsKept /\ QueueOK'
  BY <1>1, <1>3, <1>4, CreateStep, Zenon
<1>6. RunOK'
  BY <1>1, NoRunStep DEF TypeInv
<1> QED
  BY <1>1, <1>2, <1>3, <1>5, <1>6 DEF NewId

LEMMA AssetStepsKeep ==
  ASSUME TypeInv, NEW a \in Assets,
         TriggerScan(a) \/ CheckFirstSeen(a) \/ AutoTrigger(a) \/ NotScannable(a)
  PROVE  Kept
<1>1. CASE TriggerScan(a)
  <2>1. EnqueueSideScan(a) /\ UNCHANGED <<checked, sent>>
    BY <1>1 DEF TriggerScan
  <2>2. /\ DocsOK' /\ DocsKept /\ FaultsOK' /\ FaultsKept /\ QueueOK' /\ RunOK'
        /\ UNCHANGED <<run, dirs, reports>> /\ fresh' \in 0..MaxFresh
    BY <2>1, EnqueueKeeps
  <2>3. RestOK'
    BY <2>1, <2>2 DEF TypeInv, RestOK
  <2> QED
    BY <2>2, <2>3 DEF Kept, TypeInv
<1>2. CASE AutoTrigger(a)
  <2>1. /\ EnqueueSideScan(a) /\ checked' = checked \ {a}
        /\ sent' = [sent EXCEPT ![a] = @ + 1]
    BY <1>2 DEF AutoTrigger
  <2>2. /\ DocsOK' /\ DocsKept /\ FaultsOK' /\ FaultsKept /\ QueueOK' /\ RunOK'
        /\ UNCHANGED <<run, dirs, reports>> /\ fresh' \in 0..MaxFresh
    BY <2>1, EnqueueKeeps
  <2>3. RestOK'
    BY <2>1, <2>2 DEF TypeInv, RestOK
  <2> QED
    BY <2>2, <2>3 DEF Kept, TypeInv
<1>3. CASE CheckFirstSeen(a) \/ NotScannable(a)
  <2>1. /\ UNCHANGED <<docs, queue, run, dirs, fresh, sent, reports, faults>>
        /\ checked' \subseteq checked \cup {a}
    BY <1>3 DEF CheckFirstSeen, NotScannable
  <2>2. DocsOK' /\ DocsKept /\ FaultsOK' /\ FaultsKept /\ QueueOK' /\ RunOK'
    BY <2>1, NoDocStep, NoFaultStep, NoQueueStep, NoRunStep DEF TypeInv
  <2>3. RestOK'
    BY <2>1 DEF TypeInv, RestOK
  <2> QED
    BY <2>2, <2>3 DEF Kept, TypeInv
<1> QED
  BY <1>1, <1>2, <1>3

LEMMA RetryAssetKeeps ==
  ASSUME TypeInv, NEW j \in DOMAIN docs, RetryAsset(j)
  PROVE  Kept
<1>1. docs[j].target \in Assets /\ EnqueueSideScan(docs[j].target) /\ UNCHANGED <<checked, sent>>
  BY DEF RetryAsset
<1>2. /\ DocsOK' /\ DocsKept /\ FaultsOK' /\ FaultsKept /\ QueueOK' /\ RunOK'
      /\ UNCHANGED <<run, dirs, reports>> /\ fresh' \in 0..MaxFresh
  BY <1>1, EnqueueKeeps
<1>3. RestOK'
  BY <1>1, <1>2 DEF TypeInv, RestOK
<1> QED
  BY <1>2, <1>3 DEF Kept, TypeInv

(* A copy of a failed job, with a task of its own unless the send fails or *)
(* the job is of another kind.                                             *)
Copied(j, n) ==
  LET m == Message(n, docs[j].target, docs[j].kind = "ecr")
  IN  /\ Len(n) > 1 /\ n \in JobIds /\ n \notin DOMAIN docs /\ docs[j].target \notin Assets
      /\ DOMAIN docs' = DOMAIN docs \cup {n}
      /\ \A i \in DOMAIN docs : docs'[i] = docs[i]
      /\ docs'[n].kind = docs[j].kind
      /\ UNCHANGED <<run, dirs, fresh, checked, sent, reports>> /\ outages' = outages
      /\ \/ docs[j].kind = "other" /\ UNCHANGED queue
         \/ errors' > errors /\ UNCHANGED queue
         \/ /\ docs[j].target \in Hooks /\ m \in Messages
            /\ queue' = Bag!BagAdd(queue, m)
            /\ BagToSet(queue') = BagToSet(queue) \cup {m}

LEMMA RetryCopyKeeps ==
  ASSUME TypeInv, NEW j \in DOMAIN docs, RetryCopy(j)
  PROVE  Kept /\ \E n : Copied(j, n)
<1> DEFINE m(n) == Message(n, docs[j].target, docs[j].kind = "ecr")
           known == docs[j].kind # "other"
<1>1. PICK s \in 1..MaxSeconds :
        /\ docs[j].target \notin Assets
        /\ Len(Append(j, s)) <= MaxDepth
        /\ Append(j, s) \notin DOMAIN docs
        /\ docs' = Insert(Append(j, s), [docs[j] EXCEPT !.status = "queued"])
        /\ \/ /\ queue' = IF known THEN Bag!BagAdd(queue, m(Append(j, s))) ELSE queue
              /\ UNCHANGED faults
           \/ /\ known
              /\ CountErrors(1)
              /\ UNCHANGED queue
        /\ UNCHANGED <<run, dirs, fresh, checked, sent, reports>>
  BY Zenon DEF RetryCopy
<1> DEFINE n == Append(j, s)
           d == [docs[j] EXCEPT !.status = "queued"]
<1>2. j \in JobIds /\ docs[j] \in Jobs /\ docs[j].kind = Kind(docs[j].target)
  BY DEF TypeInv, DocsOK
<1>3. n \in JobIds /\ Len(n) > 1
  BY <1>1, <1>2, RetryIds
<1>4. d \in Jobs /\ d.kind = docs[j].kind /\ d.target = docs[j].target
  BY <1>2 DEF Jobs, Tracked
<1>5. /\ DocsOK' /\ DocsKept
      /\ DOMAIN docs' = DOMAIN docs \cup {n} /\ docs'[n] = d
      /\ \A i \in DOMAIN docs : docs'[i] = docs[i]
  <2>1. DocsOK /\ d.kind = Kind(d.target) /\ docs' = Insert(n, d) /\ n \notin DOMAIN docs
    BY <1>1, <1>2, <1>4 DEF TypeInv
  <2> HIDE DEF n, d
  <2> QED
    BY <1>3, <1>4, <2>1, InsertStep
<1>6. known => docs[j].target \in Hooks
  BY <1>1, <1>2, Kindness DEF Jobs
<1>7. known => m(n) \in Messages
  BY <1>3, <1>6, Bounds DEF Message, Messages
<1>8. QueueOK' /\ FaultsOK' /\ FaultsKept /\ outages' = outages
      /\ \/ docs[j].kind = "other" /\ UNCHANGED queue
         \/ errors' > errors /\ UNCHANGED queue
         \/ /\ docs[j].target \in Hooks /\ m(n) \in Messages
            /\ queue' = Bag!BagAdd(queue, m(n))
            /\ BagToSet(queue') = BagToSet(queue) \cup {m(n)}
  <2>1. CASE known /\ UNCHANGED faults /\ queue' = Bag!BagAdd(queue, m(n))
    <3>1. QueueOK /\ FaultsOK
      BY DEF TypeInv
    <3>2. FaultsOK' /\ FaultsKept /\ outages' = outages
      BY <2>1, <3>1, NoFaultStep
    <3>3. m(n) \in Messages
      BY <1>7, <2>1
    <3>4. BagToSet(queue') = BagToSet(queue) \cup {m(n)}
      BY <2>1, Added
    <3>5. QueueOK'
      BY <3>1, <3>3, <3>4 DEF QueueOK
    <3>6. docs[j].target \in Hooks
      BY <1>6, <2>1
    <3> HIDE DEF m, n
    <3> QED
      BY <2>1, <3>2, <3>3, <3>4, <3>5, <3>6
  <2>2. CASE ~known /\ UNCHANGED faults /\ UNCHANGED queue
    BY <2>2, NoFaultStep, NoQueueStep DEF TypeInv
  <2>3. CASE CountErrors(1) /\ UNCHANGED queue
    <3>1. FaultsOK
      BY DEF TypeInv
    <3>2. FaultsOK' /\ FaultsKept /\ errors' = errors + 1 /\ outages' = outages
      BY <2>3, <3>1, CountErrorsStep
    <3>3. errors' > errors
      BY <3>1, <3>2 DEF FaultsOK
    <3>4. QueueOK'
      BY <2>3, NoQueueStep DEF TypeInv
    <3> QED
      BY <2>3, <3>2, <3>3, <3>4
  <2> HIDE DEF m
  <2> QED
    BY <1>1, <2>1, <2>2, <2>3
<1>9. RunOK' /\ RestOK'
  BY <1>1, NoRunStep DEF TypeInv, RestOK
<1>10. Kept
  BY <1>5, <1>8, <1>9 DEF Kept, TypeInv
<1>11. Copied(j, n)
  <2>1. docs'[n].kind = docs[j].kind
    BY <1>4, <1>5
  <2> HIDE DEF n
  <2> QED
    BY <1>1, <1>3, <1>5, <1>8, <2>1 DEF Copied, n
<1> HIDE DEF n
<1> QED
  BY <1>10, <1>11, Zenon

-----------------------------------------------------------------------------
(* The same for the task                                                   *)

LEMMA FinallyPcs ==
  ASSUME NEW w
  PROVE  /\ Finally(w, "ack") \in {"ack", "wipe"} /\ Finally(w, "persist") \in {"persist", "wipe_ok"}
         /\ KindOf(w) = "lambda" <=> Finally(w, "ack") = "wipe"
         /\ KindOf(w) = "lambda" <=> Finally(w, "persist") = "wipe_ok"
BY DEF Finally

(* A worker begins a task with the message it took from the queue.         *)
LEMMA BusyStep ==
  ASSUME RunOK, NEW w \in Workers, NEW m \in Messages, NEW pc \in {"prepare", "scan", "ack"},
         run' = [run EXCEPT ![w] = Busy(pc, m)]
  PROVE  /\ RunOK' /\ run'[w] # Idle /\ run'[w].pc = pc /\ run'[w].msg = m
         /\ \A v \in Workers : v # w => run'[v] = run[v]
<1>1. run'[w] = Busy(pc, m) /\ \A v \in Workers : v # w => run'[v] = run[v]
  BY DEF RunOK
<1>2. Busy(pc, m) \in Runs /\ Busy(pc, m).pc = pc /\ Busy(pc, m).msg = m
  BY Bounds DEF Busy, Runs, Pcs
<1>3. run' \in [Workers -> Runs \cup {Idle}]
  BY <1>2 DEF RunOK
<1>4. \A v \in Workers : run'[v].pc \in {"code", "wipe", "wipe_ok"} => KindOf(v)' = "lambda"
  BY <1>1, <1>2 DEF RunOK, KindOf
<1>5. pc # "idle"
  OBVIOUS
<1>6. run'[w] # Idle
  BY <1>1, <1>2, <1>5 DEF Idle
<1> QED
  BY <1>1, <1>2, <1>3, <1>4, <1>6 DEF RunOK

(* The message is taken, and the job is running unless a call failed.      *)
Taken(w, m) ==
  /\ run[w] = Idle /\ m \in Messages /\ m \in BagToSet(queue)
  /\ queue' = Bag!BagRemove(queue, m)
  /\ run'[w] # Idle /\ run'[w].msg = m
  /\ \A v \in Workers : v # w => run'[v] = run[v]
  /\ \/ run'[w].pc = FirstStep(m) /\ FirstStep(m) \in {"prepare", "scan"}
     \/ run'[w].pc = "ack" /\ errors' > errors
  /\ DOMAIN docs' = DOMAIN docs
  /\ \A i \in DOMAIN docs : docs'[i].kind = docs[i].kind
  /\ \A i \in DOMAIN docs : i # m.job => docs'[i] = docs[i]
  /\ UNCHANGED <<dirs, api, reports>> /\ outages' = outages
  /\ m.try > 0 => \A v \in Workers : At(v, "wipe") => JobOf(v) # m.job

LEMMA DeliverKeeps ==
  ASSUME TypeInv, NEW w \in Workers, NEW m \in BagToSet(queue), Deliver(w, m)
  PROVE  Kept /\ Taken(w, m)
<1>1. m \in Messages
  BY DEF TypeInv, QueueOK
<1>2. /\ run[w] = Idle
      /\ queue' = Bag!BagRemove(queue, m)
      /\ UNCHANGED <<dirs, api, reports>>
      /\ m.try > 0 => \A v \in Workers : At(v, "wipe") => JobOf(v) # m.job
  BY Zenon DEF Deliver
<1>3. QueueOK'
  BY <1>2, Removed DEF QueueOK, TypeInv
<1>4. RestOK'
  BY <1>2 DEF TypeInv, RestOK, api
<1>5. DocsOK /\ FaultsOK /\ RunOK
  BY DEF TypeInv
<1>6. FirstStep(m) \in {"prepare", "scan"}
  BY DEF FirstStep
<1>7. CASE run' = [run EXCEPT ![w] = Busy(FirstStep(m), m)] /\ SetStatus(m.job, "running")
  <2>1. FirstStep(m) \in {"prepare", "scan", "ack"}
    BY <1>6
  <2>2. /\ RunOK' /\ run'[w] # Idle /\ run'[w].pc = FirstStep(m) /\ run'[w].msg = m
        /\ \A v \in Workers : v # w => run'[v] = run[v]
    BY <1>1, <1>5, <1>7, <2>1, BusyStep
  <2>3. "running" \in Tracked
    BY DEF Tracked
  <2>4. /\ DocsOK' /\ DocsKept /\ FaultsOK' /\ FaultsKept /\ outages' = outages
        /\ DOMAIN docs' = DOMAIN docs
        /\ \A i \in DOMAIN docs : docs'[i].kind = docs[i].kind
        /\ \A i \in DOMAIN docs : i # m.job => docs'[i] = docs[i]
    BY <1>5, <1>7, <2>3, SetStatusStep
  <2> QED
    BY <1>1, <1>2, <1>3, <1>4, <1>6, <2>2, <2>4, Zenon DEF Kept, Taken, TypeInv
<1>8. CASE run' = [run EXCEPT ![w] = Busy("ack", m)] /\ CountErrors(1) /\ UNCHANGED docs
  <2>1. /\ RunOK' /\ run'[w] # Idle /\ run'[w].pc = "ack" /\ run'[w].msg = m
        /\ \A v \in Workers : v # w => run'[v] = run[v]
    BY <1>1, <1>5, <1>8, BusyStep
  <2>2. FaultsOK' /\ FaultsKept /\ errors' = errors + 1 /\ outages' = outages
    BY <1>5, <1>8, CountErrorsStep
  <2>3. errors' > errors
    BY <1>5, <2>2 DEF FaultsOK
  <2>4. DocsOK' /\ DocsKept
    BY <1>5, <1>8, NoDocStep
  <2> QED
    BY <1>1, <1>2, <1>3, <1>4, <1>8, <2>1, <2>2, <2>3, <2>4 DEF Kept, Taken, TypeInv
<1> QED
  BY <1>7, <1>8, Zenon DEF Deliver

(* What a step of the task that w runs may do: go on to pc, set the status *)
(* of its own job, and count an error.                                     *)
Moved(w, pc) ==
  /\ run[w] # Idle /\ run'[w] # Idle /\ run'[w].pc = pc /\ run'[w].msg = run[w].msg
  /\ \A v \in Workers : v # w => run'[v] = run[v]
  /\ DOMAIN docs' = DOMAIN docs
  /\ \A i \in DOMAIN docs : docs'[i].kind = docs[i].kind
  /\ \A i \in DOMAIN docs : i # JobOf(w) => docs'[i] = docs[i]
  /\ UNCHANGED api /\ outages' = outages

LEMMA MovedStep ==
  ASSUME TypeInv, NEW w \in Workers, run[w] # Idle, NEW pc \in Pcs,
         pc \in {"code", "wipe", "wipe_ok"} => KindOf(w) = "lambda", GoTo(w, pc),
         \/ UNCHANGED docs /\ UNCHANGED faults
         \/ UNCHANGED docs /\ CountErrors(1)
         \/ \E s \in Tracked : SetStatus(JobOf(w), s),
         UNCHANGED api
  PROVE  Moved(w, pc) /\ DocsOK' /\ DocsKept /\ FaultsOK' /\ FaultsKept /\ RunOK'
<1>1. DocsOK /\ FaultsOK /\ RunOK
  BY DEF TypeInv
<1>2. /\ RunOK' /\ run'[w] # Idle /\ run'[w].pc = pc /\ run'[w].msg = run[w].msg
      /\ \A v \in Workers : v # w => run'[v] = run[v]
  BY <1>1, GoToStep
<1>3. /\ DocsOK' /\ DocsKept /\ FaultsOK' /\ FaultsKept /\ outages' = outages
      /\ DOMAIN docs' = DOMAIN docs
      /\ \A i \in DOMAIN docs : docs'[i].kind = docs[i].kind
      /\ \A i \in DOMAIN docs : i # JobOf(w) => docs'[i] = docs[i]
  <2>1. CASE UNCHANGED docs /\ UNCHANGED faults
    BY <1>1, <2>1, NoDocStep, NoFaultStep
  <2>2. CASE UNCHANGED docs /\ CountErrors(1)
    BY <1>1, <2>2, NoDocStep, CountErrorsStep
  <2>3. CASE \E s \in Tracked : SetStatus(JobOf(w), s)
    BY <1>1, <2>3, SetStatusStep
  <2> QED
    BY <2>1, <2>2, <2>3
<1> QED
  BY <1>2, <1>3 DEF Moved

LEMMA PrepareKeeps ==
  ASSUME TypeInv, NEW w \in Workers, Prepare(w)
  PROVE  /\ Kept /\ UNCHANGED <<docs, queue, dirs, api, reports>>
         /\ \/ Moved(w, "code")
            \/ Moved(w, "scan") /\ KindOf(w) # "lambda"
            \/ Moved(w, "ack") /\ errors' > errors
<1>1. run[w] # Idle /\ UNCHANGED <<docs, queue, dirs, api, reports>>
  BY NotIdle DEF Prepare, At, TypeInv
<1>2. QueueOK' /\ RestOK'
  BY <1>1, NoQueueStep DEF TypeInv, RestOK, api
<1>3. CASE GoTo(w, IF KindOf(w) = "lambda" THEN "code" ELSE "scan") /\ UNCHANGED faults
  <2>1. CASE KindOf(w) = "lambda"
    <3>1. GoTo(w, "code") /\ "code" \in Pcs
      BY <1>3, <2>1 DEF Pcs
    <3>2. Moved(w, "code") /\ DocsOK' /\ DocsKept /\ FaultsOK' /\ FaultsKept /\ RunOK'
      BY <1>1, <1>3, <2>1, <3>1, MovedStep
    <3> QED
      BY <1>1, <1>2, <3>2 DEF Kept, TypeInv
  <2>2. CASE KindOf(w) # "lambda"
    <3>1. GoTo(w, "scan") /\ "scan" \in Pcs
      BY <1>3, <2>2 DEF Pcs
    <3>2. Moved(w, "scan") /\ DocsOK' /\ DocsKept /\ FaultsOK' /\ FaultsKept /\ RunOK'
      BY <1>1, <1>3, <3>1, MovedStep
    <3> QED
      BY <1>1, <1>2, <2>2, <3>2 DEF Kept, TypeInv
  <2> QED
    BY <2>1, <2>2
<1>4. CASE GoTo(w, "ack") /\ CountErrors(1)
  <2>1. "ack" \in Pcs
    BY DEF Pcs
  <2>2. Moved(w, "ack") /\ DocsOK' /\ DocsKept /\ FaultsOK' /\ FaultsKept /\ RunOK'
    BY <1>1, <1>4, <2>1, MovedStep
  <2>3. errors' > errors
    BY <1>4 DEF CountErrors, TypeInv, FaultsOK
  <2> QED
    BY <1>1, <1>2, <2>2, <2>3 DEF Kept, TypeInv
<1> QED
  BY <1>3, <1>4 DEF Prepare

LEMMA DownloadKeeps ==
  ASSUME TypeInv, NEW w \in Workers, Download(w)
  PROVE  /\ Kept /\ Moved(w, "scan") /\ At(w, "code") /\ KindOf(w) = "lambda"
         /\ dirs' = dirs \cup {JobOf(w)} /\ UNCHANGED <<docs, queue, api, reports, faults>>
<1>1. /\ run[w] # Idle /\ At(w, "code") /\ KindOf(w) = "lambda" /\ JobOf(w) \in JobIds
      /\ dirs' = dirs \cup {JobOf(w)} /\ GoTo(w, "scan")
      /\ UNCHANGED <<docs, queue, api, reports, faults>>
  BY NotIdle DEF Download, At, TypeInv, RunOK
<1>2. QueueOK' /\ RestOK'
  BY <1>1, NoQueueStep DEF TypeInv, RestOK, api
<1>3. "scan" \in Pcs
  BY DEF Pcs
<1>4. Moved(w, "scan") /\ DocsOK' /\ DocsKept /\ FaultsOK' /\ FaultsKept /\ RunOK'
  BY <1>1, <1>3, MovedStep
<1> QED
  BY <1>1, <1>2, <1>4 DEF Kept, TypeInv

LEMMA AnalyseKeeps ==
  ASSUME TypeInv, NEW w \in Workers, Analyse(w)
  PROVE  /\ Kept /\ Moved(w, Finally(w, "persist")) /\ At(w, "scan")
         /\ UNCHANGED <<docs, queue, dirs, api, reports, faults>>
<1> DEFINE pc == Finally(w, "persist")
<1>1. /\ run[w] \in Runs /\ At(w, "scan")
      /\ UNCHANGED <<docs, queue, dirs, api, reports, faults>>
  BY NotIdle DEF Analyse, At, TypeInv
<1>2. PICK v \in 0..MaxVersion : run' = [run EXCEPT ![w] =
                                          [@ EXCEPT !.pc = pc, !.seen = v]]
  <2>1. 0 \in 0..MaxVersion
    BY Bounds
  <2> QED
    BY <2>1 DEF Analyse
<1>3. run \in [Workers -> Runs \cup {Idle}]
  BY DEF TypeInv, RunOK
<1>4. run' = [run EXCEPT ![w] = [run[w] EXCEPT !.pc = pc, !.seen = v]]
  <2> HIDE DEF pc
  <2> QED
    BY <1>1, <1>2, <1>3 DEF Runs
<1>5. pc \in Pcs /\ pc \in {"persist", "wipe_ok"}
  BY FinallyPcs DEF Pcs
<1>6. run'[w] \in Runs /\ run'[w].pc = pc /\ run'[w].msg = run[w].msg
  <2>1. run'[w] = [run[w] EXCEPT !.pc = pc, !.seen = v]
    BY <1>3, <1>4
  <2> HIDE DEF pc
  <2> QED
    BY <1>1, <1>5, <2>1 DEF Runs
<1>7. \A u \in Workers : u # w => run'[u] = run[u]
  BY <1>3, <1>4
<1>8. run' \in [Workers -> Runs \cup {Idle}]
  BY <1>3, <1>4, <1>6
<1>9. \A u \in Workers : run'[u].pc \in {"code", "wipe", "wipe_ok"} => KindOf(u)' = "lambda"
  <2>1. pc = "wipe_ok" => KindOf(w) = "lambda"
    BY FinallyPcs
  <2>2. pc \notin {"code", "wipe"}
    BY <1>5
  <2> HIDE DEF pc
  <2> QED
    BY <1>6, <1>7, <2>1, <2>2 DEF TypeInv, RunOK, KindOf
<1>10. RunOK'
  BY <1>8, <1>9 DEF RunOK
<1>11. run[w] # Idle /\ run'[w] # Idle
  BY <1>1, <1>6 DEF Runs, Pcs, Idle
<1>12. DocsOK' /\ DocsKept /\ FaultsOK' /\ FaultsKept /\ QueueOK' /\ RestOK' /\ outages' = outages
  BY <1>1, NoDocStep, NoFaultStep, NoQueueStep DEF TypeInv, RestOK, api
<1>13. Moved(w, pc)
  <2> HIDE DEF pc
  <2> QED
    BY <1>1, <1>6, <1>7, <1>11, <1>12 DEF Moved
<1> QED
  BY <1>1, <1>10, <1>12, <1>13 DEF Kept, TypeInv

(* The job of w is settled, or the database did not answer.                *)
Settled(w) ==
  JobOf(w) \in DOMAIN docs =>
    docs'[JobOf(w)].status \in {"completed", "failed"} \/ errors' > errors

Again(w) == [run[w].msg EXCEPT !.try = @ + 1]

Resent(w) ==
  /\ Again(w) \in Messages /\ Again(w).try > 0
  /\ Again(w).job = JobOf(w) /\ Again(w).target = run[w].msg.target
  /\ queue' = Bag!BagAdd(queue, Again(w))
  /\ BagToSet(queue') = BagToSet(queue) \cup {Again(w)}

LEMMA SettledStep ==
  ASSUME TypeInv, NEW w \in Workers, NEW s \in {"completed", "failed"}, SetStatus(JobOf(w), s)
  PROVE  Settled(w)
<1>1. s \in Tracked
  BY DEF Tracked
<1> QED
  BY <1>1, SetStatusStep DEF Settled, TypeInv

LEMMA FailingStepKeeps ==
  ASSUME TypeInv, NEW w \in Workers, StepFails(w)
  PROVE  /\ Kept /\ Moved(w, Finally(w, "ack")) /\ run[w].pc \in {"code", "scan"}
         /\ UNCHANGED <<dirs, api, reports>>
         /\ \/ Resent(w) /\ UNCHANGED <<docs, faults>>
            \/ Settled(w) /\ UNCHANGED queue
<1> DEFINE pc == Finally(w, "ack")
<1>1. /\ run[w] # Idle /\ run[w].msg \in Messages /\ JobOf(w) = run[w].msg.job
      /\ run[w].pc \in {"code", "scan"} /\ GoTo(w, pc)
      /\ UNCHANGED <<dirs, api, reports>>
  BY NotIdle DEF StepFails, At, TypeInv, JobOf
<1>2. RestOK'
  BY <1>1 DEF TypeInv, RestOK, api
<1>3. pc \in Pcs /\ pc \in {"ack", "wipe"} /\ (pc = "wipe" => KindOf(w) = "lambda")
  BY FinallyPcs DEF Pcs
<1>4. CASE CanRetry(w)
  <2>1. queue' = Bag!BagAdd(queue, Again(w)) /\ UNCHANGED <<docs, faults>>
    BY <1>4 DEF StepFails, Again
  <2>2. run[w].msg.try \in 0..MaxRetries /\ run[w].msg.try < MaxRetries
    BY <1>1, <1>4 DEF CanRetry, Messages
  <2>3. run[w].msg.try + 1 \in 0..MaxRetries /\ run[w].msg.try + 1 > 0
    BY <2>2, Bounds
  <2>4. /\ Again(w) \in Messages /\ Again(w).try > 0
        /\ Again(w).job = JobOf(w) /\ Again(w).target = run[w].msg.target
    BY <1>1, <2>3 DEF Again, Messages
  <2>5. QueueOK' /\ BagToSet(queue') = BagToSet(queue) \cup {Again(w)}
    BY <2>1, <2>4, QueueAddStep DEF TypeInv
  <2>6. Moved(w, pc) /\ DocsOK' /\ DocsKept /\ FaultsOK' /\ FaultsKept /\ RunOK'
    <3>1. UNCHANGED docs /\ UNCHANGED faults /\ UNCHANGED api
      BY <1>1, <2>1
    <3> HIDE DEF pc
    <3> QED
      BY <1>1, <1>3, <3>1, MovedStep
  <2> QED
    BY <1>1, <1>2, <2>1, <2>4, <2>5, <2>6 DEF Kept, TypeInv, Resent
<1>5. CASE ~CanRetry(w)
  <2>1. SetStatus(JobOf(w), "failed") /\ UNCHANGED queue
    BY <1>5, Zenon DEF StepFails
  <2>2. "failed" \in Tracked
    BY DEF Tracked
  <2>3. Moved(w, pc) /\ DocsOK' /\ DocsKept /\ FaultsOK' /\ FaultsKept /\ RunOK'
    <3> HIDE DEF pc
    <3> QED
      BY <1>1, <1>3, <2>1, <2>2, MovedStep
  <2>4. Settled(w)
    BY <2>1, SettledStep
  <2>5. QueueOK'
    BY <2>1, NoQueueStep DEF TypeInv
  <2> QED
    BY <1>1, <1>2, <2>1, <2>3, <2>4, <2>5 DEF Kept, TypeInv
<1> QED
  BY <1>4, <1>5

LEMMA SoftLimitKeeps ==
  ASSUME TypeInv, NEW w \in Workers, SoftLimit(w)
  PROVE  /\ Kept /\ Moved(w, Finally(w, "ack")) /\ run[w].pc \in {"code", "scan"}
         /\ UNCHANGED <<queue, dirs, api, reports>> /\ Settled(w)
<1> DEFINE pc == Finally(w, "ack")
<1>1. /\ run[w] # Idle
      /\ run[w].pc \in {"code", "scan"} /\ GoTo(w, pc) /\ SetStatus(JobOf(w), "failed")
      /\ UNCHANGED <<queue, dirs, api, reports>>
  BY NotIdle DEF SoftLimit, TypeInv
<1>2. RestOK' /\ QueueOK'
  BY <1>1, NoQueueStep DEF TypeInv, RestOK, api
<1>3. pc \in Pcs /\ pc \in {"ack", "wipe"} /\ (pc = "wipe" => KindOf(w) = "lambda")
  BY FinallyPcs DEF Pcs
<1>4. "failed" \in Tracked
  BY DEF Tracked
<1>5. Moved(w, pc) /\ DocsOK' /\ DocsKept /\ FaultsOK' /\ FaultsKept /\ RunOK'
  <2> HIDE DEF pc
  <2> QED
    BY <1>1, <1>3, <1>4, MovedStep
<1>6. Settled(w)
  BY <1>1, SettledStep
<1> QED
  BY <1>1, <1>2, <1>5, <1>6 DEF Kept, TypeInv

LEMMA WipeKeeps ==
  ASSUME TypeInv, NEW w \in Workers, Wipe(w)
  PROVE  /\ Kept /\ dirs' = dirs \ {JobOf(w)} /\ UNCHANGED <<docs, queue, api, reports, faults>>
         /\ \/ At(w, "wipe") /\ Moved(w, "ack")
            \/ At(w, "wipe_ok") /\ Moved(w, "persist")
<1>1. /\ run[w] # Idle /\ run[w].pc \in {"wipe", "wipe_ok"}
      /\ dirs' = dirs \ {JobOf(w)} /\ UNCHANGED <<docs, queue, api, reports, faults>>
  BY NotIdle DEF Wipe, TypeInv
<1>2. QueueOK' /\ RestOK'
  BY <1>1, NoQueueStep DEF TypeInv, RestOK, api
<1>3. CASE At(w, "wipe_ok")
  <2>1. GoTo(w, "persist") /\ "persist" \in Pcs
    BY <1>3 DEF Wipe, Pcs
  <2>2. Moved(w, "persist") /\ DocsOK' /\ DocsKept /\ FaultsOK' /\ FaultsKept /\ RunOK'
    BY <1>1, <2>1, MovedStep
  <2> QED
    BY <1>1, <1>2, <1>3, <2>2 DEF Kept, TypeInv
<1>4. CASE ~At(w, "wipe_ok")
  <2>1. GoTo(w, "ack") /\ "ack" \in Pcs /\ At(w, "wipe")
    BY <1>1, <1>4 DEF Wipe, Pcs, At
  <2>2. Moved(w, "ack") /\ DocsOK' /\ DocsKept /\ FaultsOK' /\ FaultsKept /\ RunOK'
    BY <1>1, <2>1, MovedStep
  <2> QED
    BY <1>1, <1>2, <2>1, <2>2 DEF Kept, TypeInv
<1> QED
  BY <1>3, <1>4

LEMMA PersistKeeps ==
  ASSUME TypeInv, NEW w \in Workers, Persist(w)
  PROVE  /\ Kept /\ Moved(w, "ack") /\ At(w, "persist") /\ UNCHANGED <<queue, dirs, api>>
         /\ Settled(w)
<1>1. /\ run[w] # Idle /\ At(w, "persist") /\ run[w] \in Runs
      /\ GoTo(w, "ack") /\ UNCHANGED <<queue, dirs, api>>
  BY NotIdle DEF Persist, At, TypeInv
<1>2. "ack" \in Pcs /\ "completed" \in Tracked
  BY DEF Pcs, Tracked
<1>3. RestOK'
  <2>1. reports' \in [Subjects -> [content : 0..MaxVersion, stamp : 0..MaxVersion, some : BOOLEAN]]
    <3>1. CASE UNCHANGED reports
      BY <3>1 DEF TypeInv, RestOK
    <3>2. CASE /\ run[w].msg.target \in Hooks
               /\ reports' = [reports EXCEPT ![Subject[run[w].msg.target]]
                                = Report(@, run[w].seen)]
      <4> DEFINE x == Subject[run[w].msg.target]
      <4>1. x \in Subjects /\ run[w].seen \in 0..MaxVersion
        BY <1>1, <3>2 DEF Subjects, Runs
      <4>2. reports \in [Subjects -> [content : 0..MaxVersion, stamp : 0..MaxVersion, some : BOOLEAN]]
        BY DEF TypeInv, RestOK
      <4>3. reports[x] \in [content : 0..MaxVersion, stamp : 0..MaxVersion, some : BOOLEAN]
        BY <4>1, <4>2, Zenon
      <4>4. Report(reports[x], run[w].seen) \in
              [content : 0..MaxVersion, stamp : 0..MaxVersion, some : BOOLEAN]
        BY <4>1, <4>3 DEF Report, FirstReport
      <4> HIDE DEF x
      <4>5. reports' = [reports EXCEPT ![x] = Report(reports[x], run[w].seen)]
        BY <3>2 DEF x
      <4> QED
        BY <4>2, <4>4, <4>5
    <3> QED
      BY <3>1, <3>2, Zenon DEF Persist
  <2> QED
    BY <1>1, <2>1 DEF TypeInv, RestOK, api
<1>4. SetStatus(JobOf(w), "completed") \/ (CountErrors(1) /\ UNCHANGED docs)
  BY Zenon DEF Persist
<1>5. Moved(w, "ack") /\ DocsOK' /\ DocsKept /\ FaultsOK' /\ FaultsKept /\ RunOK'
  BY <1>1, <1>2, <1>4, MovedStep
<1>6. Settled(w)
  <2>1. CASE SetStatus(JobOf(w), "completed")
    BY <2>1, SettledStep
  <2>2. CASE CountErrors(1)
    BY <2>2 DEF CountErrors, Settled, TypeInv, FaultsOK
  <2> QED
    BY <1>4, <2>1, <2>2
<1>7. QueueOK'
  BY <1>1, NoQueueStep DEF TypeInv
<1> QED
  BY <1>1, <1>3, <1>5, <1>6, <1>7 DEF Kept, TypeInv

(* A worker ends its task or is killed.                                    *)
Freed(w) ==
  /\ run[w] # Idle /\ run'[w] = Idle
  /\ \A v \in Workers : v # w => run'[v] = run[v]
  /\ UNCHANGED <<docs, dirs, api, reports>>

LEMMA AckKeeps ==
  ASSUME TypeInv, NEW w \in Workers, Ack(w)
  PROVE  Kept /\ Freed(w) /\ At(w, "ack") /\ UNCHANGED <<queue, faults>>
<1>1. /\ run[w] # Idle /\ At(w, "ack") /\ run' = [run EXCEPT ![w] = Idle]
      /\ UNCHANGED <<docs, queue, dirs, api, reports, faults>>
  BY NotIdle DEF Ack, At, TypeInv
<1>2. RunOK' /\ run'[w] = Idle /\ \A v \in Workers : v # w => run'[v] = run[v]
  BY <1>1, FreeStep DEF TypeInv
<1>3. DocsOK' /\ DocsKept /\ FaultsOK' /\ FaultsKept /\ QueueOK' /\ RestOK'
  BY <1>1, NoDocStep, NoFaultStep, NoQueueStep DEF TypeInv, RestOK, api
<1> QED
  BY <1>1, <1>2, <1>3 DEF Kept, TypeInv, Freed

LEMMA CrashKeeps ==
  ASSUME TypeInv, NEW w \in Workers, Crash(w)
  PROVE  /\ Kept /\ Freed(w) /\ errors' = errors /\ outages' = outages + 1
         /\ BagToSet(queue') = BagToSet(queue) \cup {run[w].msg}
<1>1. /\ run[w] # Idle /\ CountOutage /\ run' = [run EXCEPT ![w] = Idle]
      /\ queue' = Bag!BagAdd(queue, run[w].msg)
      /\ UNCHANGED <<docs, dirs, api, reports>>
  BY DEF Crash
<1>2. RunOK' /\ run'[w] = Idle /\ \A v \in Workers : v # w => run'[v] = run[v]
  BY <1>1, FreeStep DEF TypeInv
<1>3. run[w].msg \in Messages
  BY <1>1, NotIdle DEF TypeInv
<1>4. QueueOK' /\ BagToSet(queue') = BagToSet(queue) \cup {run[w].msg}
  BY <1>1, <1>3, QueueAddStep DEF TypeInv
<1>5. FaultsOK' /\ FaultsKept /\ errors' = errors /\ outages' = outages + 1
  BY <1>1, CountOutageStep DEF TypeInv
<1>6. DocsOK' /\ DocsKept /\ RestOK'
  BY <1>1, NoDocStep DEF TypeInv, RestOK, api
<1> QED
  BY <1>1, <1>2, <1>4, <1>5, <1>6 DEF Kept, TypeInv, Freed

LEMMA HardLimitKeeps ==
  ASSUME TypeInv, NEW w \in Workers, HardLimit(w)
  PROVE  /\ Kept /\ Freed(w) /\ UNCHANGED queue
         /\ errors' = errors + 1 /\ outages' = outages
<1>1. /\ run[w] # Idle /\ CountErrors(1) /\ run' = [run EXCEPT ![w] = Idle]
      /\ UNCHANGED <<docs, queue, dirs, api, reports>>
  BY DEF HardLimit
<1>2. RunOK' /\ run'[w] = Idle /\ \A v \in Workers : v # w => run'[v] = run[v]
  BY <1>1, FreeStep DEF TypeInv
<1>3. FaultsOK' /\ FaultsKept /\ errors' = errors + 1 /\ outages' = outages
  BY <1>1, CountErrorsStep DEF TypeInv
<1>4. DocsOK' /\ DocsKept /\ QueueOK' /\ RestOK'
  BY <1>1, NoDocStep, NoQueueStep DEF TypeInv, RestOK, api
<1> QED
  BY <1>1, <1>2, <1>3, <1>4 DEF Kept, TypeInv, Freed

LEMMA RedeliverKeeps ==
  ASSUME TypeInv, NEW m \in BagToSet(queue), Redeliver(m)
  PROVE  /\ Kept /\ UNCHANGED <<docs, run, dirs, api, reports>>
         /\ BagToSet(queue') = BagToSet(queue)
         /\ errors' = errors /\ outages' = outages + 1
<1>1. /\ CountOutage /\ queue' = Bag!BagAdd(queue, m)
      /\ UNCHANGED <<docs, run, dirs, api, reports>>
  BY DEF Redeliver
<1>2. m \in Messages
  BY DEF TypeInv, QueueOK
<1>3. QueueOK' /\ BagToSet(queue') = BagToSet(queue)
  BY <1>1, <1>2, QueueAddStep DEF TypeInv
<1>4. FaultsOK' /\ FaultsKept /\ errors' = errors /\ outages' = outages + 1
  BY <1>1, CountOutageStep DEF TypeInv
<1>5. DocsOK' /\ DocsKept /\ RunOK' /\ RestOK'
  BY <1>1, NoDocStep, NoRunStep DEF TypeInv, RestOK, api
<1> QED
  BY <1>1, <1>3, <1>4, <1>5 DEF Kept, TypeInv

LEMMA StutterKeeps ==
  ASSUME TypeInv, UNCHANGED vars
  PROVE  Kept
<1>1. UNCHANGED <<docs, queue, run, dirs, fresh, checked, sent, reports, faults>>
  BY DEF vars, faults
<1>2. DocsOK' /\ DocsKept /\ FaultsOK' /\ FaultsKept /\ QueueOK' /\ RunOK' /\ RestOK'
  BY <1>1, NoDocStep, NoFaultStep, NoQueueStep, NoRunStep DEF TypeInv, RestOK
<1> QED
  BY <1>2 DEF Kept, TypeInv

LEMMA TaskKeeps ==
  ASSUME TypeInv, NEW w \in Workers, Task(w)
  PROVE  Kept
BY PrepareKeeps, DownloadKeeps, AnalyseKeeps, FailingStepKeeps, SoftLimitKeeps, WipeKeeps,
   PersistKeeps, AckKeeps, Zenon DEF Task

LEMMA StepKeeps ==
  ASSUME TypeInv, [Next]_vars
  PROVE  Kept
<1>1. CASE \E h \in Hooks : Webhook(h)
  BY <1>1, WebhookKeeps
<1>2. CASE \E a \in Assets : TriggerScan(a) \/ CheckFirstSeen(a) \/ AutoTrigger(a)
                              \/ NotScannable(a)
  BY <1>2, AssetStepsKeep
<1>3. CASE \E j \in DOMAIN docs : RetryAsset(j) \/ RetryCopy(j)
  BY <1>3, RetryAssetKeeps, RetryCopyKeeps
<1>4. CASE \E w \in Workers : Task(w) \/ Crash(w) \/ HardLimit(w)
  BY <1>4, TaskKeeps, CrashKeeps, HardLimitKeeps
<1>5. CASE \E w \in Workers, m \in BagToSet(queue) : Deliver(w, m)
  BY <1>5, DeliverKeeps
<1>6. CASE \E m \in BagToSet(queue) : Redeliver(m)
  BY <1>6, RedeliverKeeps
<1>7. CASE UNCHANGED vars
  BY <1>7, StutterKeeps
<1> QED
  BY <1>1, <1>2, <1>3, <1>4, <1>5, <1>6, <1>7, Zenon DEF Next

(* Type correctness.                                                       *)
THEOREM TypeCorrect == Spec => []TypeOK
<1>1. TypeInv /\ [Next]_vars => TypeInv'
  BY StepKeeps DEF Kept
<1> QED
  BY <1>1, TypeInit, TypeInvImplies, PTL DEF Spec

-----------------------------------------------------------------------------
(* What is sent once                                                       *)

(* More than the calls that failed is only sent for an event that has its  *)
(* document, and for a resource that has one and that no scan is about to  *)
(* enqueue; the UUIDs in use are those that were handed out.               *)
SentForEvents ==
  \A h \in Hooks : sent[h] <= errors \/ (<<h>> \in DOMAIN docs /\ sent[h] <= errors + 1)

SentForAssets ==
  \A a \in Assets : \/ sent[a] <= errors
                    \/ HasPrior(a) /\ a \notin checked /\ sent[a] <= errors + 1

UuidsAreOld == \A n \in 1..MaxFresh : <<n>> \in DOMAIN docs => n <= fresh

SentInv == SentForEvents /\ SentForAssets /\ UuidsAreOld

LEMMA PriorsStay == ASSUME DocsKept PROVE \A a : HasPrior(a) => HasPrior(a)'
BY DEF DocsKept, HasPrior

(* Where nothing is sent, no resource is found and no UUID is handed out.  *)
Quiet == UNCHANGED api /\ \A i \in DOMAIN docs' \ DOMAIN docs : Len(i) > 1

LEMMA QuietSteps ==
  ASSUME TypeInv,
         \/ \E j \in DOMAIN docs : RetryCopy(j)
         \/ \E w \in Workers : \/ Task(w) \/ Crash(w) \/ HardLimit(w)
                               \/ \E m \in BagToSet(queue) : Deliver(w, m)
         \/ \E m \in BagToSet(queue) : Redeliver(m)
         \/ UNCHANGED vars
  PROVE  Quiet
<1>1. ASSUME NEW j \in DOMAIN docs, RetryCopy(j) PROVE Quiet
  BY <1>1, RetryCopyKeeps DEF Copied, Quiet, api
<1>2. ASSUME NEW w \in Workers, Task(w) PROVE UNCHANGED api /\ DOMAIN docs' = DOMAIN docs
  <2>1. CASE \E pc : Moved(w, pc)
    BY <2>1 DEF Moved
  <2>2. CASE Ack(w)
    BY <2>2, AckKeeps DEF Freed
  <2> QED
    BY <1>2, <2>1, <2>2, PrepareKeeps, DownloadKeeps, AnalyseKeeps, FailingStepKeeps,
       SoftLimitKeeps, WipeKeeps, PersistKeeps, Zenon DEF Task
<1>3. ASSUME NEW w \in Workers, Crash(w) \/ HardLimit(w)
      PROVE  UNCHANGED api /\ DOMAIN docs' = DOMAIN docs
  BY <1>3, CrashKeeps, HardLimitKeeps DEF Freed
<1>4. ASSUME NEW w \in Workers, NEW m \in BagToSet(queue), Deliver(w, m)
      PROVE  UNCHANGED api /\ DOMAIN docs' = DOMAIN docs
  BY <1>4, DeliverKeeps DEF Taken
<1>5. ASSUME NEW m \in BagToSet(queue), Redeliver(m)
      PROVE  UNCHANGED api /\ DOMAIN docs' = DOMAIN docs
  BY <1>5, RedeliverKeeps
<1>6. CASE UNCHANGED vars
  BY <1>6 DEF vars, api, Quiet
<1> QED
  BY <1>1, <1>2, <1>3, <1>4, <1>5, <1>6 DEF Quiet

LEMMA SentQuiet ==
  ASSUME TypeInv, SentInv, Kept, Quiet
  PROVE  SentInv'
<1>1. errors \in Nat /\ errors' \in Nat /\ errors' >= errors
  BY DEF Kept, TypeInv, FaultsOK, FaultsKept
<1>2. UNCHANGED <<fresh, checked, sent>> /\ DocsKept
  BY DEF Quiet, api, Kept
<1>3. sent \in [Hooks \cup Assets -> Nat]
  BY DEF TypeInv, RestOK
<1>4. SentForEvents'
  <2> SUFFICES ASSUME NEW h \in Hooks
               PROVE  \/ sent[h] <= errors'
                      \/ <<h>> \in DOMAIN docs' /\ sent[h] <= errors' + 1
    BY <1>2 DEF SentForEvents
  <2>1. sent[h] \in Nat
    BY <1>3
  <2>2. sent[h] <= errors \/ (<<h>> \in DOMAIN docs /\ sent[h] <= errors + 1)
    BY DEF SentInv, SentForEvents
  <2>3. <<h>> \in DOMAIN docs => <<h>> \in DOMAIN docs'
    BY <1>2 DEF DocsKept
  <2> QED
    BY <1>1, <2>1, <2>2, <2>3
<1>5. SentForAssets'
  <2> SUFFICES ASSUME NEW a \in Assets
               PROVE  \/ sent[a] <= errors'
                      \/ HasPrior(a)' /\ a \notin checked /\ sent[a] <= errors' + 1
    BY <1>2 DEF SentForAssets
  <2>1. sent[a] \in Nat
    BY <1>3
  <2>2. \/ sent[a] <= errors
        \/ HasPrior(a) /\ a \notin checked /\ sent[a] <= errors + 1
    BY DEF SentInv, SentForAssets
  <2>3. HasPrior(a) => HasPrior(a)'
    BY <1>2, PriorsStay
  <2>4. sent[a] <= errors => sent[a] <= errors'
    BY <1>1, <2>1
  <2>5. sent[a] <= errors + 1 => sent[a] <= errors' + 1
    BY <1>1, <2>1
  <2> QED
    BY <2>2, <2>3, <2>4, <2>5, Zenon
<1>6. UuidsAreOld'
  <2> SUFFICES ASSUME NEW n \in 1..MaxFresh, <<n>> \in DOMAIN docs'
               PROVE  n <= fresh
    BY <1>2 DEF UuidsAreOld
  <2>1. Len(<<n>>) = 1
    OBVIOUS
  <2>2. <<n>> \in DOMAIN docs
    <3>1. <<n>> \notin DOMAIN docs => Len(<<n>>) > 1
      BY Zenon DEF Quiet
    <3>2. ~(1 > 1)
      OBVIOUS
    <3> QED
      BY <2>1, <3>1, <3>2, Zenon
  <2>3. UuidsAreOld
    BY DEF SentInv
  <2> QED
    BY <2>2, <2>3, Zenon DEF UuidsAreOld
<1> QED
  BY <1>4, <1>5, <1>6 DEF SentInv

LEMMA SentWebhook ==
  ASSUME TypeInv, SentInv, NEW h \in Hooks, Webhook(h)
  PROVE  SentInv'
<1>1. PICK broken \in SUBSET {"check", "insert", "send"} :
        /\ AlreadyTracked(<<h>>) <=> "check" \in broken
        /\ Created(<<h>>, h, broken)
        /\ sent' = IF "send" \in broken THEN sent ELSE [sent EXCEPT ![h] = @ + 1]
  BY WebhookKeeps, Zenon
<1>2. /\ Kept /\ DocsKept /\ UNCHANGED <<fresh, checked>>
      /\ errors \in Nat /\ errors' \in Nat /\ errors' >= errors
  BY WebhookKeeps DEF Kept, TypeInv, FaultsOK, FaultsKept
<1>3. sent \in [Hooks \cup Assets -> Nat]
  BY DEF TypeInv, RestOK
<1>4. /\ sent'[h] = sent[h] \/ sent'[h] = sent[h] + 1
      /\ \A x \in Hooks \cup Assets : x # h => sent'[x] = sent[x]
  BY <1>1, <1>3
<1>5. SentForEvents'
  <2>1. ASSUME NEW k \in Hooks, k # h
        PROVE  \/ sent'[k] <= errors'
               \/ <<k>> \in DOMAIN docs' /\ sent'[k] <= errors' + 1
    <3>1. sent'[k] = sent[k] /\ sent[k] \in Nat
      BY <1>3, <1>4, <2>1
    <3>2. sent[k] <= errors \/ (<<k>> \in DOMAIN docs /\ sent[k] <= errors + 1)
      BY DEF SentInv, SentForEvents
    <3>3. <<k>> \in DOMAIN docs => <<k>> \in DOMAIN docs'
      BY <1>2 DEF DocsKept
    <3> QED
      BY <1>2, <3>1, <3>2, <3>3
  <2>2. \/ sent'[h] <= errors'
        \/ <<h>> \in DOMAIN docs' /\ sent'[h] <= errors' + 1
    <3>1. sent[h] \in Nat /\ sent'[h] <= sent[h] + 1 /\ sent'[h] \in Nat
      BY <1>3, <1>4
    <3>2. broken # {} => errors' > errors
      BY <1>1 DEF Created
    <3>3. CASE <<h>> \in DOMAIN docs
      <4>1. AlreadyTracked(<<h>>)
        <5>1. docs[<<h>>] \in Jobs
          BY <3>3 DEF TypeInv, DocsOK
        <5> QED
          BY <3>3, <5>1 DEF AlreadyTracked, Jobs
      <4>2. errors' > errors
        BY <1>1, <3>2, <4>1
      <4>3. sent[h] <= errors + 1
        <5>1. sent[h] <= errors \/ sent[h] <= errors + 1
          BY DEF SentInv, SentForEvents
        <5> QED
          BY <1>2, <3>1, <5>1
      <4>4. <<h>> \in DOMAIN docs'
        BY <1>2, <3>3 DEF DocsKept
      <4> QED
        BY <1>2, <3>1, <4>2, <4>3, <4>4
    <3>4. CASE <<h>> \notin DOMAIN docs
      <4>1. sent[h] <= errors
        BY <3>4 DEF SentInv, SentForEvents
      <4>2. <<h>> \in DOMAIN docs' \/ errors' > errors
        BY <1>1, <3>2 DEF Created
      <4> QED
        BY <1>2, <3>1, <4>1, <4>2
    <3> QED
      BY <3>3, <3>4
  <2> QED
    BY <2>1, <2>2 DEF SentForEvents
<1>6. SentForAssets'
  <2> SUFFICES ASSUME NEW a \in Assets
               PROVE  \/ sent'[a] <= errors'
                      \/ HasPrior(a)' /\ a \notin checked /\ sent'[a] <= errors' + 1
    BY <1>2 DEF SentForAssets
  <2>1. sent'[a] = sent[a] /\ sent[a] \in Nat
    BY <1>3, <1>4, SideScanJobsAssumption
  <2>2. \/ sent[a] <= errors
        \/ HasPrior(a) /\ a \notin checked /\ sent[a] <= errors + 1
    BY DEF SentInv, SentForAssets
  <2>3. HasPrior(a) => HasPrior(a)'
    BY <1>2, PriorsStay
  <2>4. sent[a] <= errors => sent'[a] <= errors'
    BY <1>2, <2>1
  <2>5. sent[a] <= errors + 1 => sent'[a] <= errors' + 1
    BY <1>2, <2>1
  <2> QED
    BY <2>2, <2>3, <2>4, <2>5, Zenon
<1>7. UuidsAreOld'
  <2> SUFFICES ASSUME NEW n \in 1..MaxFresh, <<n>> \in DOMAIN docs'
               PROVE  n <= fresh
    BY <1>2 DEF UuidsAreOld
  <2>1. n # h
    BY SideScanJobsAssumption
  <2>2. <<n>> # <<h>>
    BY <2>1
  <2>3. <<n>> \in DOMAIN docs
    BY <1>1, <2>2 DEF Created
  <2>4. UuidsAreOld
    BY DEF SentInv
  <2> QED
    BY <2>3, <2>4 DEF UuidsAreOld
<1> QED
  BY <1>5, <1>6, <1>7 DEF SentInv

(* A side scan is enqueued for a: at the push of a button, for the retry   *)
(* of a failed job, or because a was found without one.                    *)
LEMMA SentEnqueue ==
  ASSUME TypeInv, SentInv, NEW a \in Assets, EnqueueSideScan(a),
         \/ UNCHANGED <<checked, sent>>
         \/ a \in checked /\ checked' = checked \ {a} /\ sent' = [sent EXCEPT ![a] = @ + 1]
  PROVE  SentInv'
<1>1. PICK broken \in SUBSET {"insert", "send"} : Created(NewId, a, broken)
  BY EnqueueKeeps, Zenon
<1>2. /\ DocsKept /\ fresh' = fresh + 1
      /\ NewId = <<fresh + 1>> /\ fresh + 1 \in 1..MaxFresh
      /\ errors \in Nat /\ errors' \in Nat /\ errors' >= errors
  BY EnqueueKeeps DEF TypeInv, FaultsOK, FaultsKept
<1>3. sent \in [Hooks \cup Assets -> Nat] /\ fresh \in Nat
  BY DEF TypeInv, RestOK
<1>4. UuidsAreOld
  BY DEF SentInv
<1>5. NewId \notin DOMAIN docs
  BY <1>2, <1>3, <1>4 DEF UuidsAreOld
<1>6. HasPrior(a)' \/ errors' > errors
  <2>1. CASE "insert" \in broken
    BY <1>1, <2>1 DEF Created
  <2>2. CASE "insert" \notin broken
    <3>1. NewId \in DOMAIN docs' /\ docs'[NewId] = Job(a, "queued")
      BY <1>1, <1>5, <2>2 DEF Created
    <3>2. docs'[NewId].target = a
      BY <3>1 DEF Job
    <3> QED
      BY <3>1, <3>2 DEF HasPrior
  <2> QED
    BY <2>1, <2>2
<1>7. SentForEvents'
  <2> SUFFICES ASSUME NEW h \in Hooks
               PROVE  \/ sent'[h] <= errors'
                      \/ <<h>> \in DOMAIN docs' /\ sent'[h] <= errors' + 1
    BY DEF SentForEvents
  <2>1. sent'[h] = sent[h] /\ sent[h] \in Nat
    BY <1>3, SideScanJobsAssumption
  <2>2. sent[h] <= errors \/ (<<h>> \in DOMAIN docs /\ sent[h] <= errors + 1)
    BY DEF SentInv, SentForEvents
  <2>3. <<h>> \in DOMAIN docs => <<h>> \in DOMAIN docs'
    BY <1>2 DEF DocsKept
  <2> QED
    BY <1>2, <2>1, <2>2, <2>3
<1>8. SentForAssets'
  <2>1. ASSUME NEW b \in Assets, sent'[b] = sent[b], b \notin checked => b \notin checked'
        PROVE  \/ sent'[b] <= errors'
               \/ HasPrior(b)' /\ b \notin checked' /\ sent'[b] <= errors' + 1
    <3>1. sent[b] \in Nat
      BY <1>3
    <3>2. \/ sent[b] <= errors
          \/ HasPrior(b) /\ b \notin checked /\ sent[b] <= errors + 1
      BY DEF SentInv, SentForAssets
    <3>3. HasPrior(b) => HasPrior(b)'
      BY <1>2, PriorsStay
    <3>4. sent[b] <= errors => sent'[b] <= errors'
      BY <1>2, <2>1, <3>1
    <3>5. sent[b] <= errors + 1 => sent'[b] <= errors' + 1
      BY <1>2, <2>1, <3>1
    <3> QED
      BY <2>1, <3>2, <3>3, <3>4, <3>5, Zenon
  <2>2. CASE UNCHANGED <<checked, sent>>
    BY <2>1, <2>2 DEF SentForAssets
  <2>3. CASE a \in checked /\ checked' = checked \ {a} /\ sent' = [sent EXCEPT ![a] = @ + 1]
    <3>1. \A b \in Assets : b # a => sent'[b] = sent[b] /\ (b \notin checked => b \notin checked')
      BY <1>3, <2>3
    <3>2. sent'[a] = sent[a] + 1 /\ sent[a] \in Nat /\ a \notin checked'
      BY <1>3, <2>3
    <3>3. sent[a] <= errors
      BY <2>3 DEF SentInv, SentForAssets
    <3>4. sent'[a] <= errors' + 1 /\ (errors' > errors => sent'[a] <= errors')
      BY <1>2, <3>2, <3>3
    <3>5. \/ sent'[a] <= errors'
          \/ HasPrior(a)' /\ a \notin checked' /\ sent'[a] <= errors' + 1
      BY <1>6, <3>2, <3>4, Zenon
    <3> QED
      BY <2>1, <3>1, <3>5 DEF SentForAssets
  <2> QED
    BY <2>2, <2>3
<1>9. UuidsAreOld'
  <2> SUFFICES ASSUME NEW n \in 1..MaxFresh, <<n>> \in DOMAIN docs'
               PROVE  n <= fresh + 1
    BY <1>2 DEF UuidsAreOld
  <2>1. CASE <<n>> = NewId
    BY <1>2, <1>3, <2>1
  <2>2. CASE <<n>> # NewId
    <3>1. <<n>> \in DOMAIN docs
      BY <1>1, <2>2 DEF Created
    <3> QED
      BY <1>3, <1>4, <3>1 DEF UuidsAreOld
  <2> QED
    BY <2>1, <2>2
<1> QED
  BY <1>7, <1>8, <1>9 DEF SentInv

(* Without a prior side scan, a was not sent for more than errors allow.   *)
LEMMA SentCheck ==
  ASSUME TypeInv, SentInv, NEW a \in Assets, CheckFirstSeen(a) \/ NotScannable(a)
  PROVE  SentInv'
<1>1. /\ UNCHANGED <<docs, fresh, sent, errors>>
      /\ \A b \in checked' : b \in checked \/ ~HasPrior(b)
  BY DEF CheckFirstSeen, NotScannable, faults
<1>2. \A b : HasPrior(b)' <=> HasPrior(b)
  BY <1>1 DEF HasPrior
<1>3. SentForEvents' /\ UuidsAreOld'
  BY <1>1 DEF SentInv, SentForEvents, UuidsAreOld
<1>4. SentForAssets'
  <2> SUFFICES ASSUME NEW b \in Assets
               PROVE  \/ sent[b] <= errors
                      \/ HasPrior(b) /\ b \notin checked' /\ sent[b] <= errors + 1
    BY <1>1, <1>2 DEF SentForAssets
  <2>1. \/ sent[b] <= errors
        \/ HasPrior(b) /\ b \notin checked /\ sent[b] <= errors + 1
    BY DEF SentInv, SentForAssets
  <2> QED
    BY <1>1, <2>1, Zenon
<1> QED
  BY <1>3, <1>4 DEF SentInv

LEMMA SentStep ==
  ASSUME TypeInv, SentInv, [Next]_vars
  PROVE  SentInv'
<1>1. ASSUME NEW h \in Hooks, Webhook(h) PROVE SentInv'
  BY <1>1, SentWebhook
<1>2. ASSUME NEW a \in Assets, TriggerScan(a) \/ AutoTrigger(a) PROVE SentInv'
  BY <1>2, SentEnqueue DEF TriggerScan, AutoTrigger
<1>3. ASSUME NEW a \in Assets, CheckFirstSeen(a) \/ NotScannable(a) PROVE SentInv'
  BY <1>3, SentCheck
<1>4. ASSUME NEW j \in DOMAIN docs, RetryAsset(j) PROVE SentInv'
  BY <1>4, SentEnqueue DEF RetryAsset
<1>5. CASE \/ \E j \in DOMAIN docs : RetryCopy(j)
           \/ \E w \in Workers : \/ Task(w) \/ Crash(w) \/ HardLimit(w)
                                 \/ \E m \in BagToSet(queue) : Deliver(w, m)
           \/ \E m \in BagToSet(queue) : Redeliver(m)
           \/ UNCHANGED vars
  BY <1>5, QuietSteps, StepKeeps, SentQuiet
<1> QED
  BY <1>1, <1>2, <1>3, <1>4, <1>5, Zenon DEF Next

LEMMA SentInit == Init => SentInv
<1> SUFFICES ASSUME Init PROVE SentInv
  OBVIOUS
<1>1. \A x \in Hooks \cup Assets : sent[x] <= errors
  BY DEF Init
<1>2. ASSUME NEW n \in 1..MaxFresh PROVE <<n>> \notin DOMAIN docs
  <2>1. DOMAIN docs = {<<s>> : s \in Strays}
    BY DEF Init
  <2>2. \A s \in Strays : n # s
    BY SideScanJobsAssumption
  <2>3. \A s \in Strays : <<n>> # <<s>>
    BY <2>2
  <2> QED
    BY <2>1, <2>3
<1> QED
  BY <1>1, <1>2 DEF SentInv, SentForEvents, SentForAssets, UuidsAreOld

(* A webhook event is sent once, and once more for each call that failed:  *)
(* a document that the first delivery wrote answers all later ones.        *)
THEOREM EventsAreSentOnce == Spec => []WebhookSentOnce
<1>1. TypeInv /\ SentInv /\ [Next]_vars => SentInv'
  BY SentStep
<1>2. TypeInv /\ [Next]_vars => TypeInv'
  BY StepKeeps DEF Kept
<1>3. TypeInv /\ SentInv => WebhookSentOnce
  <2> SUFFICES ASSUME TypeInv, SentInv, NEW h \in Hooks PROVE sent[h] <= 1 + errors
    BY DEF WebhookSentOnce
  <2>1. sent[h] \in Nat /\ errors \in Nat
    BY DEF TypeInv, RestOK, FaultsOK
  <2>2. sent[h] <= errors \/ sent[h] <= errors + 1
    BY DEF SentInv, SentForEvents
  <2> QED
    BY <2>1, <2>2
<1> QED
  BY <1>1, <1>2, <1>3, TypeInit, SentInit, PTL DEF Spec

(* The automatic trigger fires once per resource, and once more for each   *)
(* insert that failed: the document of the first stays, as does its target.*)
THEOREM ResourcesAreTriggeredOnce == Spec => []FirstSeenOnce
<1>1. TypeInv /\ SentInv /\ [Next]_vars => SentInv'
  BY SentStep
<1>2. TypeInv /\ [Next]_vars => TypeInv'
  BY StepKeeps DEF Kept
<1>3. TypeInv /\ SentInv => FirstSeenOnce
  <2> SUFFICES ASSUME TypeInv, SentInv, NEW a \in Assets PROVE sent[a] <= 1 + errors
    BY DEF FirstSeenOnce
  <2>1. sent[a] \in Nat /\ errors \in Nat
    BY DEF TypeInv, RestOK, FaultsOK
  <2>2. sent[a] <= errors \/ sent[a] <= errors + 1
    BY DEF SentInv, SentForAssets
  <2> QED
    BY <2>1, <2>2
<1> QED
  BY <1>1, <1>2, <1>3, TypeInit, SentInit, PTL DEF Spec

-----------------------------------------------------------------------------
(* What is queued or running is worked on                                  *)

HasWork(j) ==
  \/ \E m \in BagToSet(queue) : m.job = j
  \/ \E w \in Workers : run[w] # Idle /\ Pending(w) /\ JobOf(w) = j

(* QueuedJobsHaveWork, for one job: an error, a job of another kind, or one*)
(* that is settled excuses it.                                             *)
Excused(j) == errors > 0 \/ docs[j].kind = "other" \/ docs[j].status \notin {"queued", "running"}

LEMMA WorkForm == QueuedJobsHaveWork <=> \A j \in DOMAIN docs : Excused(j) \/ HasWork(j)
BY DEF QueuedJobsHaveWork, Excused, HasWork

LEMMA WorkStays ==
  ASSUME BagToSet(queue) \subseteq BagToSet(queue'), NEW j,
         \A w \in Workers :
           run[w] # Idle /\ Pending(w) /\ JobOf(w) = j =>
             \/ run'[w] = run[w]
             \/ run'[w] # Idle /\ Pending(w)' /\ run'[w].msg = run[w].msg
             \/ \E m \in BagToSet(queue') : m.job = j,
         HasWork(j)
  PROVE  HasWork(j)'
<1>1. CASE \E m \in BagToSet(queue) : m.job = j
  BY <1>1 DEF HasWork
<1>2. ASSUME NEW w \in Workers, run[w] # Idle, Pending(w), JobOf(w) = j
      PROVE  HasWork(j)'
  <2>1. CASE run'[w] = run[w]
    BY <1>2, <2>1 DEF HasWork, Pending, JobOf
  <2>2. CASE run'[w] # Idle /\ Pending(w)' /\ run'[w].msg = run[w].msg
    BY <1>2, <2>2 DEF HasWork, JobOf
  <2>3. CASE \E m \in BagToSet(queue') : m.job = j
    BY <2>3 DEF HasWork
  <2> QED
    BY <1>2, <2>1, <2>2, <2>3
<1> QED
  BY <1>1, <1>2 DEF HasWork

LEMMA ExcusedStays ==
  ASSUME NEW j, docs'[j] = docs[j], errors = errors'
  PROVE  Excused(j) => Excused(j)'
BY DEF Excused

(* While no call has failed.                                               *)
NoErrors == errors = 0 /\ errors' = 0

LEMMA WorkCreate ==
  ASSUME QueuedJobsHaveWork, NoErrors, NEW i, NEW x, UNCHANGED run,
         \E broken \in SUBSET {"check", "insert", "send"} : Created(i, x, broken)
  PROVE  QueuedJobsHaveWork'
<1>1. PICK broken \in SUBSET {"check", "insert", "send"} : Created(i, x, broken)
  OBVIOUS
<1>2. broken = {}
  BY <1>1 DEF Created, NoErrors
<1>3. /\ DOMAIN docs' \subseteq DOMAIN docs \cup {i}
      /\ \A j \in DOMAIN docs : docs'[j] = docs[j]
      /\ BagToSet(queue) \subseteq BagToSet(queue')
      /\ Message(i, x, TRUE) \in BagToSet(queue')
  BY <1>1, <1>2 DEF Created
<1>4. ASSUME NEW j \in DOMAIN docs PROVE Excused(j)' \/ HasWork(j)'
  <2>1. Excused(j) => Excused(j)'
    BY <1>3, ExcusedStays DEF NoErrors
  <2>2. HasWork(j) => HasWork(j)'
    BY <1>3, WorkStays
  <2> QED
    BY <2>1, <2>2, WorkForm
<1>5. HasWork(i)'
  BY <1>3 DEF HasWork, Message
<1>6. \A j \in DOMAIN docs' : Excused(j)' \/ HasWork(j)'
  BY <1>3, <1>4, <1>5
<1> QED
  BY <1>6 DEF QueuedJobsHaveWork, Excused, HasWork

LEMMA WorkCopy ==
  ASSUME QueuedJobsHaveWork, NoErrors, NEW i \in DOMAIN docs, NEW n, Copied(i, n)
  PROVE  QueuedJobsHaveWork'
<1> DEFINE m == Message(n, docs[i].target, docs[i].kind = "ecr")
<1>1. /\ DOMAIN docs' = DOMAIN docs \cup {n} /\ UNCHANGED run
      /\ \A j \in DOMAIN docs : docs'[j] = docs[j]
      /\ docs'[n].kind = docs[i].kind
      /\ \/ docs[i].kind = "other" /\ UNCHANGED queue
         \/ BagToSet(queue') = BagToSet(queue) \cup {m}
  BY DEF Copied, NoErrors
<1>2. BagToSet(queue) \subseteq BagToSet(queue')
  <2> HIDE DEF m
  <2> QED
    BY <1>1
<1>3. ASSUME NEW j \in DOMAIN docs PROVE Excused(j)' \/ HasWork(j)'
  <2>1. Excused(j) => Excused(j)'
    BY <1>1, ExcusedStays DEF NoErrors
  <2>2. HasWork(j) => HasWork(j)'
    BY <1>1, <1>2, WorkStays
  <2> QED
    BY <2>1, <2>2, WorkForm
<1>4. Excused(n)' \/ HasWork(n)'
  <2>1. m.job = n
    BY DEF Message
  <2> HIDE DEF m
  <2> QED
    BY <1>1, <2>1 DEF Excused, HasWork
<1>5. \A j \in DOMAIN docs' : Excused(j)' \/ HasWork(j)'
  BY <1>1, <1>3, <1>4
<1> QED
  BY <1>5 DEF QueuedJobsHaveWork, Excused, HasWork

LEMMA WorkDeliver ==
  ASSUME QueuedJobsHaveWork, NoErrors, NEW w \in Workers, NEW m, Taken(w, m)
  PROVE  QueuedJobsHaveWork'
<1>1. /\ run[w] = Idle /\ run'[w] # Idle /\ run'[w].msg = m
      /\ run'[w].pc \in {"prepare", "scan"}
      /\ \A v \in Workers : v # w => run'[v] = run[v]
      /\ DOMAIN docs' = DOMAIN docs
      /\ \A i \in DOMAIN docs : i # m.job => docs'[i] = docs[i]
      /\ queue' = Bag!BagRemove(queue, m)
  BY DEF Taken, NoErrors
<1>2. HasWork(m.job)'
  BY <1>1 DEF HasWork, Pending, JobOf
<1>3. ASSUME NEW j \in DOMAIN docs, j # m.job PROVE Excused(j)' \/ HasWork(j)'
  <2>1. Excused(j) => Excused(j)'
    BY <1>1, <1>3, ExcusedStays DEF NoErrors
  <2>2. HasWork(j) => HasWork(j)'
    <3>1. ASSUME NEW k \in BagToSet(queue), k.job = j PROVE k \in BagToSet(queue')
      BY <1>1, <1>3, <3>1, Removed
    <3>2. ASSUME NEW v \in Workers, run[v] # Idle, Pending(v), JobOf(v) = j
          PROVE  run'[v] # Idle /\ Pending(v)' /\ JobOf(v)' = j
      BY <1>1, <3>2 DEF Pending, JobOf
    <3> QED
      BY <3>1, <3>2 DEF HasWork
  <2> QED
    BY <2>1, <2>2, WorkForm
<1>4. \A j \in DOMAIN docs' : Excused(j)' \/ HasWork(j)'
  BY <1>1, <1>2, <1>3
<1> QED
  BY <1>4 DEF QueuedJobsHaveWork, Excused, HasWork

(* A step of the task: its own job is settled, sent again or goes on.      *)
LEMMA WorkMove ==
  ASSUME QueuedJobsHaveWork, NoErrors, NEW w \in Workers, NEW pc, Moved(w, pc),
         BagToSet(queue) \subseteq BagToSet(queue'),
         \/ Settled(w)
         \/ UNCHANGED docs /\ pc \in {"prepare", "code", "scan", "wipe_ok", "persist"}
         \/ UNCHANGED docs /\ ~Pending(w)
         \/ UNCHANGED docs /\ \E m \in BagToSet(queue') : m.job = JobOf(w)
  PROVE  QueuedJobsHaveWork'
<1>1. /\ run[w] # Idle /\ run'[w] # Idle /\ run'[w].pc = pc /\ run'[w].msg = run[w].msg
      /\ \A v \in Workers : v # w => run'[v] = run[v]
      /\ DOMAIN docs' = DOMAIN docs
      /\ \A i \in DOMAIN docs : i # JobOf(w) => docs'[i] = docs[i]
  BY DEF Moved
<1>2. ASSUME NEW j \in DOMAIN docs, j # JobOf(w) PROVE Excused(j)' \/ HasWork(j)'
  <2>1. Excused(j) => Excused(j)'
    BY <1>1, <1>2, ExcusedStays DEF NoErrors
  <2>2. HasWork(j) => HasWork(j)'
    <3>1. \A v \in Workers : JobOf(v) = j => run'[v] = run[v]
      BY <1>1, <1>2
    <3> QED
      BY <3>1, WorkStays
  <2> QED
    BY <2>1, <2>2, WorkForm
<1>3. ASSUME JobOf(w) \in DOMAIN docs PROVE Excused(JobOf(w))' \/ HasWork(JobOf(w))'
  <2> DEFINE j == JobOf(w)
  <2>1. CASE Settled(w)
    <3>1. docs'[j].status \in {"completed", "failed"}
      BY <1>3, <2>1 DEF Settled, NoErrors
    <3>2. \A i : i = j => docs'[i].status \notin {"queued", "running"}
      BY <3>1
    <3>3. JobOf(w)' = j
      BY <1>1 DEF JobOf
    <3> QED
      BY <3>2, <3>3 DEF Excused
  <2>2. CASE UNCHANGED docs /\ ~Settled(w)
    <3>1. JobOf(w)' = JobOf(w)
      BY <1>1 DEF JobOf
    <3>2. Excused(j) => Excused(j)'
      BY <2>2, <3>1 DEF NoErrors, Excused
    <3>3. HasWork(j) => HasWork(j)'
      <4>1. \A v \in Workers :
              run[v] # Idle /\ Pending(v) /\ JobOf(v) = j =>
                \/ run'[v] = run[v]
                \/ run'[v] # Idle /\ Pending(v)' /\ run'[v].msg = run[v].msg
                \/ \E m \in BagToSet(queue') : m.job = j
        BY <1>1, <2>2 DEF Pending
      <4>2. ASSUME HasWork(j) PROVE \/ \E m \in BagToSet(queue') : m.job = j
                                    \/ \E v \in Workers : /\ run'[v] # Idle /\ Pending(v)'
                                                          /\ run'[v].msg.job = j
        BY <4>1, <4>2 DEF HasWork, Pending, JobOf
      <4> QED
        BY <3>1, <4>2 DEF HasWork, JobOf
    <3> QED
      BY <1>3, <3>2, <3>3, WorkForm
  <2> QED
    BY <2>1, <2>2
<1>4. \A j \in DOMAIN docs' : Excused(j)' \/ HasWork(j)'
  BY <1>1, <1>2, <1>3 DEF JobOf
<1> QED
  BY <1>4 DEF QueuedJobsHaveWork, Excused, HasWork

LEMMA WorkTask ==
  ASSUME TypeInv, QueuedJobsHaveWork, NoErrors, NEW w \in Workers, Task(w)
  PROVE  QueuedJobsHaveWork'
<1>1. CASE Prepare(w)
  BY <1>1, PrepareKeeps, WorkMove DEF NoErrors
<1>2. CASE Download(w)
  BY <1>2, DownloadKeeps, WorkMove
<1>3. CASE Analyse(w)
  <2>1. /\ Moved(w, Finally(w, "persist")) /\ UNCHANGED <<docs, queue>>
        /\ Finally(w, "persist") \in {"persist", "wipe_ok"}
    BY <1>3, AnalyseKeeps, FinallyPcs
  <2> QED
    BY <2>1, WorkMove
<1>4. CASE StepFails(w)
  <2>1. CASE Resent(w) /\ UNCHANGED <<docs, faults>>
    <3>1. Moved(w, Finally(w, "ack")) /\ Again(w) \in BagToSet(queue') /\ Again(w).job = JobOf(w)
      BY <1>4, <2>1, FailingStepKeeps DEF Resent
    <3> QED
      BY <2>1, <3>1, WorkMove DEF Resent
  <2>2. CASE Settled(w) /\ UNCHANGED queue
    BY <1>4, <2>2, FailingStepKeeps, WorkMove
  <2> QED
    BY <1>4, <2>1, <2>2, FailingStepKeeps
<1>5. CASE SoftLimit(w)
  BY <1>5, SoftLimitKeeps, WorkMove
<1>6. CASE Wipe(w)
  <2>1. At(w, "wipe") => ~Pending(w)
    BY DEF At, Pending
  <2> QED
    BY <1>6, <2>1, WipeKeeps, WorkMove
<1>7. CASE Persist(w)
  BY <1>7, PersistKeeps, WorkMove
<1>8. CASE Ack(w)
  <2>1. Freed(w) /\ UNCHANGED <<queue, errors>> /\ ~Pending(w)
    BY <1>8, AckKeeps DEF At, Pending, faults
  <2>2. ASSUME NEW j \in DOMAIN docs PROVE Excused(j)' \/ HasWork(j)'
    <3>1. Excused(j) => Excused(j)'
      BY <2>1, ExcusedStays DEF Freed
    <3>2. HasWork(j) => HasWork(j)'
      BY <2>1, WorkStays DEF Freed
    <3> QED
      BY <3>1, <3>2, WorkForm
  <2>3. \A j \in DOMAIN docs' : Excused(j)' \/ HasWork(j)'
    BY <2>1, <2>2 DEF Freed
  <2> QED
    BY <2>3 DEF QueuedJobsHaveWork, Excused, HasWork
<1> QED
  BY <1>1, <1>2, <1>3, <1>4, <1>5, <1>6, <1>7, <1>8 DEF Task

(* Messages that are delivered again, or that nothing happens to.          *)
LEMMA WorkSame ==
  ASSUME QueuedJobsHaveWork, UNCHANGED <<docs, run, errors>>,
         BagToSet(queue) \subseteq BagToSet(queue')
  PROVE  QueuedJobsHaveWork'
<1>1. ASSUME NEW j \in DOMAIN docs PROVE Excused(j)' \/ HasWork(j)'
  <2>1. Excused(j) => Excused(j)'
    BY ExcusedStays
  <2>2. HasWork(j) => HasWork(j)'
    BY WorkStays
  <2> QED
    BY <2>1, <2>2, WorkForm
<1> QED
  BY <1>1 DEF QueuedJobsHaveWork, Excused, HasWork

LEMMA WorkCrash ==
  ASSUME QueuedJobsHaveWork, NoErrors, NEW w \in Workers, Freed(w),
         BagToSet(queue') = BagToSet(queue) \cup {run[w].msg}
  PROVE  QueuedJobsHaveWork'
<1>1. ASSUME NEW j \in DOMAIN docs PROVE Excused(j)' \/ HasWork(j)'
  <2>1. Excused(j) => Excused(j)'
    BY ExcusedStays DEF Freed, NoErrors
  <2>2. HasWork(j) => HasWork(j)'
    <3>1. \A v \in Workers : JobOf(v) = j => \/ run'[v] = run[v]
                                             \/ \E m \in BagToSet(queue') : m.job = j
      BY DEF Freed, JobOf
    <3> QED
      BY <3>1, WorkStays
  <2> QED
    BY <2>1, <2>2, WorkForm
<1>2. \A j \in DOMAIN docs' : Excused(j)' \/ HasWork(j)'
  BY <1>1 DEF Freed
<1> QED
  BY <1>2 DEF QueuedJobsHaveWork, Excused, HasWork

LEMMA WorkStep ==
  ASSUME TypeInv, QueuedJobsHaveWork, [Next]_vars
  PROVE  QueuedJobsHaveWork'
<1>1. /\ errors \in Nat /\ errors' \in Nat /\ errors' >= errors
  BY StepKeeps DEF Kept, TypeInv, FaultsOK, FaultsKept
<1>2. CASE errors' > 0
  BY <1>2 DEF QueuedJobsHaveWork
<1>3. CASE NoErrors
  <2>1. ASSUME NEW h \in Hooks, Webhook(h) PROVE QueuedJobsHaveWork'
    BY <1>3, <2>1, WebhookKeeps, WorkCreate
  <2>2. ASSUME NEW a \in Assets, EnqueueSideScan(a) PROVE QueuedJobsHaveWork'
    <3>1. UNCHANGED run /\ \E broken \in SUBSET {"check", "insert", "send"} :
                             Created(NewId, a, broken)
      BY <2>2, EnqueueKeeps
    <3>2. NewId = <<fresh + 1>>
      BY DEF NewId
    <3>3. \E i : i = NewId
      OBVIOUS
    <3>4. PICK i : i = NewId
      BY <3>3
    <3>5. \E broken \in SUBSET {"check", "insert", "send"} : Created(i, a, broken)
      BY <3>1, <3>4
    <3> QED
      BY <1>3, <3>1, <3>5, WorkCreate
  <2>3. ASSUME NEW a \in Assets, CheckFirstSeen(a) \/ NotScannable(a) PROVE QueuedJobsHaveWork'
    BY <2>3, WorkSame DEF CheckFirstSeen, NotScannable, faults
  <2>4. ASSUME NEW j \in DOMAIN docs, RetryCopy(j) PROVE QueuedJobsHaveWork'
    BY <1>3, <2>4, RetryCopyKeeps, WorkCopy
  <2>5. ASSUME NEW w \in Workers, Task(w) PROVE QueuedJobsHaveWork'
    BY <1>3, <2>5, WorkTask
  <2>6. ASSUME NEW w \in Workers, NEW m \in BagToSet(queue), Deliver(w, m)
        PROVE  QueuedJobsHaveWork'
    BY <1>3, <2>6, DeliverKeeps, WorkDeliver
  <2>7. ASSUME NEW w \in Workers, Crash(w) PROVE QueuedJobsHaveWork'
    BY <1>3, <2>7, CrashKeeps, WorkCrash
  <2>8. ASSUME NEW w \in Workers, HardLimit(w) PROVE FALSE
    BY <1>1, <1>3, <2>8, HardLimitKeeps DEF NoErrors
  <2>9. ASSUME NEW m \in BagToSet(queue), Redeliver(m) PROVE QueuedJobsHaveWork'
    BY <2>9, RedeliverKeeps, WorkSame
  <2>10. CASE UNCHANGED vars
    BY <2>10, WorkSame DEF vars
  <2> QED
    BY <2>1, <2>2, <2>3, <2>4, <2>5, <2>6, <2>7, <2>8, <2>9, <2>10, Zenon
    DEF Next, TriggerScan, AutoTrigger, RetryAsset
<1> QED
  BY <1>1, <1>2, <1>3 DEF NoErrors

(* Unless a call failed, whatever is queued or running has a message that  *)
(* waits or a worker that still has to settle it.                          *)
THEOREM JobsAreWorkedOn == Spec => []QueuedJobsHaveWork
<1>1. Init => QueuedJobsHaveWork
  BY DEF Init, QueuedJobsHaveWork, Job
<1>2. TypeInv /\ QueuedJobsHaveWork /\ [Next]_vars => QueuedJobsHaveWork'
  BY WorkStep
<1>3. TypeInv /\ [Next]_vars => TypeInv'
  BY StepKeeps DEF Kept
<1> QED
  BY <1>1, <1>2, <1>3, TypeInit, PTL DEF Spec

-----------------------------------------------------------------------------
(* Directories do not leak                                                 *)

(* Whoever keeps a directory removes it before the task ends.              *)
Keeps(w) == run[w].pc \in {"scan", "wipe", "wipe_ok"} /\ KindOf(w) = "lambda"

Orphans == {j \in dirs : \A w \in Workers : ~(Keeps(w) /\ JobOf(w) = j)}

LeakInv == IsFiniteSet(Orphans) /\ Cardinality(Orphans) <= outages + errors

LEMMA OrphansStay ==
  ASSUME \A w \in Workers : Keeps(w) => \/ Keeps(w)' /\ JobOf(w)' = JobOf(w)
                                        \/ JobOf(w) \notin dirs',
         \A j \in dirs' : j \in dirs \/ \E w \in Workers : Keeps(w)' /\ JobOf(w)' = j
  PROVE  Orphans' \subseteq Orphans
BY DEF Orphans

(* Workers that keep nothing or keep the same.                             *)
LEMMA OrphansMove ==
  ASSUME NEW w \in Workers, \A v \in Workers : v # w => run'[v] = run[v],
         dirs' \subseteq dirs,
         Keeps(w) => (Keeps(w)' /\ run'[w].msg = run[w].msg) \/ JobOf(w) \notin dirs'
  PROVE  Orphans' \subseteq Orphans
<1>1. ASSUME NEW v \in Workers, v # w, Keeps(v) PROVE Keeps(v)' /\ JobOf(v)' = JobOf(v)
  BY <1>1 DEF Keeps, KindOf, JobOf
<1>2. Keeps(w) => \/ Keeps(w)' /\ JobOf(w)' = JobOf(w)
                  \/ JobOf(w) \notin dirs'
  BY DEF JobOf
<1> QED
  BY <1>1, <1>2, OrphansStay

LEMMA OrphansTask ==
  ASSUME TypeInv, NEW w \in Workers, Task(w)
  PROVE  Orphans' \subseteq Orphans
<1> DEFINE Keepers == {"scan", "wipe", "wipe_ok"}
<1>1. ASSUME NEW pc, Moved(w, pc)
      PROVE  /\ \A v \in Workers : v # w => run'[v] = run[v]
             /\ run'[w].pc = pc /\ run'[w].msg = run[w].msg /\ KindOf(w)' = KindOf(w)
  BY <1>1 DEF Moved, KindOf
<1>2. CASE Prepare(w)
  <2>1. ~Keeps(w) /\ dirs' \subseteq dirs
    BY <1>2 DEF Prepare, At, Keeps
  <2> QED
    BY <1>1, <1>2, <2>1, PrepareKeeps, OrphansMove
<1>3. CASE Download(w)
  <2>1. /\ Moved(w, "scan") /\ At(w, "code") /\ KindOf(w) = "lambda"
        /\ dirs' = dirs \cup {JobOf(w)}
    BY <1>3, DownloadKeeps
  <2>2. Keeps(w)' /\ JobOf(w)' = JobOf(w)
    BY <1>1, <2>1 DEF Keeps, JobOf
  <2>3. \A v \in Workers : v # w => (Keeps(v) => Keeps(v)') /\ JobOf(v)' = JobOf(v)
    BY <1>1, <2>1 DEF Keeps, KindOf, JobOf
  <2> QED
    BY <2>1, <2>2, <2>3, OrphansStay
<1>4. CASE Analyse(w)
  <2>1. Moved(w, Finally(w, "persist")) /\ dirs' \subseteq dirs
    BY <1>4, AnalyseKeeps
  <2>2. Keeps(w) => Keeps(w)'
    BY <1>1, <2>1, FinallyPcs DEF Keeps
  <2> QED
    BY <1>1, <2>1, <2>2, OrphansMove
<1>5. CASE StepFails(w) \/ SoftLimit(w)
  <2>1. Moved(w, Finally(w, "ack")) /\ dirs' \subseteq dirs
    BY <1>5, FailingStepKeeps, SoftLimitKeeps
  <2>2. Keeps(w) => Keeps(w)'
    BY <1>1, <2>1, FinallyPcs DEF Keeps
  <2> QED
    BY <1>1, <2>1, <2>2, OrphansMove
<1>6. CASE Wipe(w)
  <2>1. dirs' = dirs \ {JobOf(w)} /\ (Moved(w, "ack") \/ Moved(w, "persist"))
    BY <1>6, WipeKeeps
  <2>2. dirs' \subseteq dirs /\ JobOf(w) \notin dirs'
    BY <2>1
  <2> QED
    BY <1>1, <2>1, <2>2, OrphansMove
<1>7. CASE Persist(w)
  <2>1. Moved(w, "ack") /\ dirs' \subseteq dirs /\ ~Keeps(w)
    BY <1>7, PersistKeeps DEF At, Keeps
  <2> QED
    BY <1>1, <2>1, OrphansMove
<1>8. CASE Ack(w)
  <2>1. Freed(w) /\ ~Keeps(w)
    BY <1>8, AckKeeps DEF At, Keeps
  <2> QED
    BY <2>1, OrphansMove DEF Freed
<1> QED
  BY <1>2, <1>3, <1>4, <1>5, <1>6, <1>7, <1>8 DEF Task

LEMMA OrphansFreed ==
  ASSUME NEW w \in Workers, Freed(w)
  PROVE  \E i : Orphans' \subseteq Orphans \cup {i}
<1>1. ASSUME NEW j \in Orphans', j # JobOf(w) PROVE j \in Orphans
  <2>1. j \in dirs
    BY DEF Orphans, Freed
  <2>2. ASSUME NEW v \in Workers, Keeps(v), JobOf(v) = j PROVE FALSE
    <3>1. v # w
      BY <1>1, <2>2
    <3>2. Keeps(v)' /\ JobOf(v)' = j
      BY <2>2, <3>1 DEF Freed, Keeps, KindOf, JobOf
    <3> QED
      BY <3>2 DEF Orphans
  <2> QED
    BY <2>1, <2>2 DEF Orphans
<1>2. Orphans' \subseteq Orphans \cup {JobOf(w)}
  BY <1>1
<1> QED
  BY <1>2

LEMMA OrphansStep ==
  ASSUME TypeInv, [Next]_vars
  PROVE  \/ Orphans' \subseteq Orphans /\ outages' + errors' >= outages + errors
         \/ /\ \E i : Orphans' \subseteq Orphans \cup {i}
            /\ outages' + errors' = outages + errors + 1
<1>1. /\ outages \in Nat /\ errors \in Nat /\ outages' \in Nat /\ errors' \in Nat
      /\ outages' + errors' >= outages + errors
  BY StepKeeps DEF Kept, FaultsKept, TypeInv, FaultsOK
<1>2. ASSUME UNCHANGED <<run, dirs>> PROVE Orphans' \subseteq Orphans
  BY <1>2 DEF Orphans, Keeps, KindOf, JobOf
<1>3. CASE \E h \in Hooks : Webhook(h)
  BY <1>1, <1>2, <1>3, WebhookKeeps
<1>4. CASE \E a \in Assets : EnqueueSideScan(a)
  BY <1>1, <1>2, <1>4, EnqueueKeeps
<1>5. CASE \E a \in Assets : CheckFirstSeen(a) \/ NotScannable(a)
  BY <1>1, <1>2, <1>5 DEF CheckFirstSeen, NotScannable
<1>6. CASE \E j \in DOMAIN docs : RetryCopy(j)
  BY <1>1, <1>2, <1>6, RetryCopyKeeps DEF Copied
<1>7. CASE \E w \in Workers : Task(w)
  BY <1>1, <1>7, OrphansTask
<1>8. CASE \E w \in Workers, m \in BagToSet(queue) : Deliver(w, m)
  <2>1. PICK w \in Workers : \E m \in BagToSet(queue) : Deliver(w, m)
    BY <1>8
  <2>2. /\ \A v \in Workers : v # w => run'[v] = run[v]
        /\ dirs' \subseteq dirs /\ run[w] = Idle
    BY <2>1, DeliverKeeps DEF Taken
  <2>3. ~Keeps(w)
    BY <2>2 DEF Keeps, Idle
  <2> QED
    BY <1>1, <2>2, <2>3, OrphansMove
<1>9. CASE \E w \in Workers : Crash(w) \/ HardLimit(w)
  <2>1. PICK w \in Workers : Crash(w) \/ HardLimit(w)
    BY <1>9
  <2>2. /\ Freed(w)
        /\ \/ errors' = errors /\ outages' = outages + 1
           \/ errors' = errors + 1 /\ outages' = outages
    BY <2>1, CrashKeeps, HardLimitKeeps
  <2>3. outages' + errors' = outages + errors + 1
    <3>1. outages \in Nat /\ errors \in Nat
      BY <1>1
    <3>2. CASE errors' = errors /\ outages' = outages + 1
      BY <3>1, <3>2
    <3>3. CASE errors' = errors + 1 /\ outages' = outages
      BY <3>1, <3>3
    <3> QED
      BY <2>2, <3>2, <3>3
  <2>4. \E i : Orphans' \subseteq Orphans \cup {i}
    BY <2>2, OrphansFreed
  <2> QED
    BY <2>3, <2>4, Zenon
<1>10. CASE (\E m \in BagToSet(queue) : Redeliver(m)) \/ UNCHANGED vars
  BY <1>1, <1>2, <1>10 DEF Redeliver, vars
<1> QED
  BY <1>3, <1>4, <1>5, <1>6, <1>7, <1>8, <1>9, <1>10, Zenon
  DEF Next, TriggerScan, AutoTrigger, RetryAsset

(* A finite set that grows by at most one with a count stays within it.    *)
LEMMA BoundedGrowth ==
  ASSUME NEW S, IsFiniteSet(S), NEW n \in Nat, Cardinality(S) <= n, NEW T, NEW k \in Nat,
         \/ T \subseteq S /\ k >= n
         \/ (\E x : T \subseteq S \cup {x}) /\ k = n + 1
  PROVE  IsFiniteSet(T) /\ Cardinality(T) <= k
<1>1. Cardinality(S) \in Nat
  BY FS_CardinalityType
<1>2. CASE T \subseteq S /\ k >= n
  <2>1. IsFiniteSet(T) /\ Cardinality(T) <= Cardinality(S)
    BY <1>2, FS_Subset
  <2>2. Cardinality(T) \in Nat
    BY <2>1, FS_CardinalityType
  <2>3. Cardinality(T) <= k
    BY <1>1, <1>2, <2>1, <2>2
  <2> QED
    BY <2>1, <2>3
<1>3. CASE (\E x : T \subseteq S \cup {x}) /\ k = n + 1
  <2>1. PICK x : T \subseteq S \cup {x}
    BY <1>3
  <2>2. IsFiniteSet(S \cup {x})
    BY FS_AddElement
  <2>3. \/ Cardinality(S \cup {x}) = Cardinality(S)
        \/ Cardinality(S \cup {x}) = Cardinality(S) + 1
    BY FS_AddElement
  <2>4. IsFiniteSet(T) /\ Cardinality(T) <= Cardinality(S \cup {x})
    BY <2>1, <2>2, FS_Subset
  <2>5. Cardinality(T) \in Nat
    BY <2>4, FS_CardinalityType
  <2>6. Cardinality(T) <= k
    BY <1>1, <1>3, <2>3, <2>4, <2>5
  <2> QED
    BY <2>4, <2>6
<1> QED
  BY <1>2, <1>3

LEMMA LeakStep ==
  ASSUME TypeInv, LeakInv, [Next]_vars
  PROVE  LeakInv'
<1>1. outages + errors \in Nat /\ outages' + errors' \in Nat
  BY StepKeeps DEF Kept, TypeInv, FaultsOK
<1>2. IsFiniteSet(Orphans) /\ Cardinality(Orphans) <= outages + errors
  BY DEF LeakInv
<1>3. \/ Orphans' \subseteq Orphans /\ outages' + errors' >= outages + errors
      \/ /\ \E i : Orphans' \subseteq Orphans \cup {i}
         /\ outages' + errors' = outages + errors + 1
  BY OrphansStep
<1> DEFINE n == outages + errors
           k == outages' + errors'
<1>4. IsFiniteSet(Orphans') /\ Cardinality(Orphans') <= k
  <2>1. /\ n \in Nat /\ k \in Nat /\ Cardinality(Orphans) <= n
        /\ \/ Orphans' \subseteq Orphans /\ k >= n
           \/ (\E i : Orphans' \subseteq Orphans \cup {i}) /\ k = n + 1
    BY <1>1, <1>2, <1>3
  <2> HIDE DEF n, k
  <2> QED
    BY <1>2, <2>1, BoundedGrowth
<1> QED
  BY <1>4 DEF LeakInv, Orphans

-----------------------------------------------------------------------------
(* The code of a Lambda function stays for its scan                        *)

Code(w) == run[w] # Idle /\ run[w].msg.target \in Functions

Codes == {m \in BagToSet(queue) : m.target \in Functions}

(* The job of a Lambda scan has the UUID it was given.                     *)
CodeIds ==
  /\ \A m \in Codes : \E n \in 1..fresh : m.job = <<n>>
  /\ \A w \in Workers : Code(w) => \E n \in 1..fresh : JobOf(w) = <<n>>

(* Before the first outage a Lambda job has one message; once it was taken,*)
(* it is back only when the attempt is over; and of the attempts of a job  *)
(* all but one are over.                                                   *)
OneMessage ==
  /\ \A m \in Codes : queue[m] = 1
  /\ \A l, m \in Codes : l.job = m.job => l = m

BackWhenOver ==
  \A m \in Codes, w \in Workers :
    Code(w) /\ JobOf(w) = m.job => m.try > 0 /\ run[w].pc \in {"wipe", "ack"}

OneAttempt ==
  \A v, w \in Workers :
    v # w /\ Code(v) /\ Code(w) /\ JobOf(v) = JobOf(w) => At(v, "ack") \/ At(w, "ack")

CodePresent == \A w \in Workers : At(w, "scan") /\ Code(w) => JobOf(w) \in dirs

CodeInv ==
  /\ CodeIds
  /\ outages = 0 => OneMessage /\ BackWhenOver /\ OneAttempt /\ CodePresent

(* A step after which nothing of a Lambda scan is in two places, if nothing*)
(* was before: no new message, no worker that did not run the same scan.   *)
LEMMA IdsKept ==
  ASSUME CodeIds, fresh \in Nat, fresh' \in Nat, fresh' >= fresh,
         \A m \in Codes' : \/ m \in Codes
                           \/ \E l \in Codes : m.job = l.job
                           \/ \E w \in Workers : Code(w) /\ JobOf(w) = m.job
                           \/ fresh' > 0 /\ m.job = <<fresh'>>,
         \A w \in Workers : Code(w)' => \/ Code(w) /\ run'[w].msg.job = JobOf(w)
                                        \/ \E l \in Codes : run'[w].msg.job = l.job
  PROVE  CodeIds'
<1>1. \A n \in 1..fresh : n \in 1..fresh'
  OBVIOUS
<1>2. \A l \in Codes : \E n \in 1..fresh' : l.job = <<n>>
  BY <1>1 DEF CodeIds
<1>3. \A w \in Workers : Code(w) => \E n \in 1..fresh' : JobOf(w) = <<n>>
  BY <1>1 DEF CodeIds
<1>4. fresh' > 0 => fresh' \in 1..fresh'
  OBVIOUS
<1>5. \A m \in Codes' : \E n \in 1..fresh' : m.job = <<n>>
  BY <1>2, <1>3, <1>4
<1>6. \A w \in Workers : Code(w)' => \E n \in 1..fresh' : JobOf(w)' = <<n>>
  BY <1>2, <1>3 DEF JobOf
<1> QED
  BY <1>5, <1>6 DEF CodeIds

LEMMA CountsAdd ==
  ASSUME NEW q, NEW x
  PROVE  /\ \A m \in BagToSet(q) : m # x => Bag!BagAdd(q, x)[m] = q[m]
         /\ x \notin BagToSet(q) => Bag!BagAdd(q, x)[x] = 1
BY DEF Bag!BagAdd, BagToSet

LEMMA CountsRemove ==
  ASSUME NEW q, NEW x \in BagToSet(q)
  PROVE  /\ \A m \in BagToSet(q) : m # x => Bag!BagRemove(q, x)[m] = q[m]
         /\ q[x] = 1 => x \notin BagToSet(Bag!BagRemove(q, x))
BY DEF Bag!BagRemove, BagToSet

LEMMA IdsDiffer ==
  ASSUME NEW a \in Nat, NEW b \in Nat, a # b
  PROVE  <<a>> # <<b>>
OBVIOUS

(* The API adds at most one message, of no Lambda or of a new job.         *)
LEMMA CodeApi ==
  ASSUME TypeInv, TypeInv', CodeInv, UNCHANGED <<run, dirs>>, outages' = outages, fresh' >= fresh,
         \/ UNCHANGED queue
         \/ \E x : /\ queue' = Bag!BagAdd(queue, x)
                   /\ x.target \notin Functions \/ (x.job = <<fresh'>> /\ fresh' > fresh)
  PROVE  CodeInv'
<1>1. fresh \in Nat /\ fresh' \in Nat /\ CodeIds
  BY DEF TypeInv, RestOK, CodeInv
<1>2. \A w \in Workers : /\ Code(w)' <=> Code(w)
                         /\ JobOf(w)' = JobOf(w) /\ run'[w] = run[w]
                         /\ At(w, "ack")' <=> At(w, "ack")
                         /\ At(w, "scan")' <=> At(w, "scan")
  BY DEF Code, JobOf, At
<1>3. OneAttempt => OneAttempt'
  BY <1>2 DEF OneAttempt
<1>4. CodePresent => CodePresent'
  BY <1>2 DEF CodePresent
<1>5. CASE Codes' = Codes /\ \A m \in Codes : queue'[m] = queue[m]
  <2>1. CodeIds'
    BY <1>1, <1>2, <1>5, IdsKept DEF JobOf
  <2>2. OneMessage => OneMessage'
    BY <1>5 DEF OneMessage
  <2>3. BackWhenOver => BackWhenOver'
    BY <1>2, <1>5 DEF BackWhenOver
  <2> QED
    BY <1>3, <1>4, <2>1, <2>2, <2>3 DEF CodeInv
<1>6. ASSUME NEW x, queue' = Bag!BagAdd(queue, x), x.target \in Functions,
             x.job = <<fresh'>>, fresh' > fresh
      PROVE  CodeInv'
  <2>1. Codes' = Codes \cup {x}
    BY <1>6, Added DEF Codes
  <2>2. \A n \in 1..fresh : <<n>> # x.job
    BY <1>1, <1>6, IdsDiffer
  <2>3. \A m \in Codes : m.job # x.job /\ m # x
    BY <1>1, <2>2 DEF CodeIds
  <2>4. \A w \in Workers : Code(w) => JobOf(w) # x.job
    BY <1>1, <2>2 DEF CodeIds
  <2>5. x \notin BagToSet(queue)
    BY <1>6, <2>3 DEF Codes
  <2>6. queue'[x] = 1 /\ \A m \in Codes : queue'[m] = queue[m]
    BY <1>6, <2>3, <2>5, CountsAdd DEF Codes
  <2>7. CodeIds'
    <3>1. fresh' > 0
      BY <1>1, <1>6
    <3> QED
      BY <1>1, <1>2, <1>6, <2>1, <3>1, IdsKept DEF JobOf
  <2>8. OneMessage => OneMessage'
    BY <2>1, <2>3, <2>6 DEF OneMessage
  <2>9. BackWhenOver => BackWhenOver'
    BY <1>2, <2>1, <2>4 DEF BackWhenOver
  <2> QED
    BY <1>3, <1>4, <2>7, <2>8, <2>9 DEF CodeInv
<1>7. CASE UNCHANGED queue
  BY <1>5, <1>7 DEF Codes
<1>8. ASSUME NEW x, queue' = Bag!BagAdd(queue, x), x.target \notin Functions
      PROVE  CodeInv'
  <2>1. Codes' = Codes /\ \A m \in Codes : m # x
    BY <1>8, Added DEF Codes
  <2>2. \A m \in Codes : queue'[m] = queue[m]
    BY <1>8, <2>1, CountsAdd DEF Codes
  <2> QED
    BY <1>5, <2>1, <2>2
<1> QED
  BY <1>6, <1>7, <1>8

LEMMA CodeDeliver ==
  ASSUME TypeInv, TypeInv', CodeInv, NEW w \in Workers, NEW m, Taken(w, m)
  PROVE  CodeInv'
<1>1. /\ run[w] = Idle /\ m \in BagToSet(queue) /\ queue' = Bag!BagRemove(queue, m)
      /\ run'[w].msg = m /\ run'[w].pc \in {"ack", FirstStep(m)}
      /\ \A v \in Workers : v # w => run'[v] = run[v]
      /\ UNCHANGED <<dirs, fresh>> /\ outages' = outages
      /\ m.try > 0 => \A v \in Workers : At(v, "wipe") => JobOf(v) # m.job
  BY DEF Taken, api
<1>2. Codes' \subseteq Codes /\ (m.target \in Functions => m \in Codes)
  BY <1>1, Removed DEF Codes
<1>3. \A v \in Workers : v # w => /\ Code(v)' <=> Code(v)
                                  /\ JobOf(v)' = JobOf(v) /\ run'[v] = run[v]
                                  /\ At(v, "ack")' <=> At(v, "ack")
                                  /\ At(v, "scan")' <=> At(v, "scan")
  BY <1>1 DEF Code, JobOf, At
<1>4. JobOf(w)' = m.job /\ (Code(w)' => m \in Codes) /\ ~Code(w)
  BY <1>1, <1>2 DEF JobOf, Code
<1>5. CodeIds'
  <2>1. fresh \in Nat /\ fresh' \in Nat /\ fresh' >= fresh /\ CodeIds
    BY <1>1 DEF TypeInv, RestOK, CodeInv
  <2>2. \A v \in Workers : Code(v)' => \/ Code(v) /\ run'[v].msg.job = JobOf(v)
                                       \/ \E l \in Codes : run'[v].msg.job = l.job
    BY <1>1, <1>3, <1>4 DEF JobOf
  <2> QED
    BY <1>2, <2>1, <2>2, IdsKept
<1>6. ASSUME OneMessage, BackWhenOver, OneAttempt, CodePresent
      PROVE  OneMessage' /\ BackWhenOver' /\ OneAttempt' /\ CodePresent'
  <2>1. m \in Codes => m \notin Codes'
    <3>1. m \in Codes => queue[m] = 1
      BY <1>6 DEF OneMessage
    <3> QED
      BY <1>1, <3>1, CountsRemove DEF Codes
  <2>2. \A l \in Codes' : l # m /\ queue'[l] = queue[l]
    <3>1. \A l \in Codes' : l # m
      BY <1>2, <2>1 DEF Codes
    <3> QED
      BY <1>1, <1>2, <3>1, CountsRemove DEF Codes
  <2>3. OneMessage'
    BY <1>2, <1>6, <2>2 DEF OneMessage
  <2>4. BackWhenOver'
    <3> SUFFICES ASSUME NEW l \in Codes', NEW v \in Workers, Code(v)', JobOf(v)' = l.job
                 PROVE  l.try > 0 /\ run'[v].pc \in {"wipe", "ack"}
      BY DEF BackWhenOver
    <3>1. CASE v = w
      BY <1>2, <1>4, <1>6, <2>2, <3>1 DEF OneMessage
    <3>2. CASE v # w
      BY <1>2, <1>3, <1>6, <3>2 DEF BackWhenOver
    <3> QED
      BY <3>1, <3>2
  <2>5. ASSUME NEW v \in Workers, v # w, Code(v)', Code(w)', JobOf(v)' = JobOf(w)'
        PROVE  At(v, "ack")'
    <3>1. m \in Codes /\ Code(v) /\ JobOf(v) = m.job
      BY <1>3, <1>4, <2>5
    <3>2. m.try > 0 /\ run[v].pc \in {"wipe", "ack"}
      BY <1>6, <3>1 DEF BackWhenOver
    <3>3. ~At(v, "wipe")
      BY <1>1, <3>1, <3>2
    <3> QED
      BY <1>3, <2>5, <3>2, <3>3 DEF At
  <2>6. OneAttempt'
    <3> SUFFICES ASSUME NEW u \in Workers, NEW v \in Workers, u # v, Code(u)', Code(v)',
                        JobOf(u)' = JobOf(v)'
                 PROVE  At(u, "ack")' \/ At(v, "ack")'
      BY DEF OneAttempt
    <3>1. CASE u = w \/ v = w
      BY <2>5, <3>1
    <3>2. CASE u # w /\ v # w
      BY <1>3, <1>6, <3>2 DEF OneAttempt
    <3> QED
      BY <3>1, <3>2
  <2>7. CodePresent'
    <3>1. Code(w)' => ~At(w, "scan")'
      BY <1>1, SideScanJobsAssumption DEF Code, At, FirstStep
    <3> QED
      BY <1>1, <1>3, <1>6, <3>1 DEF CodePresent
  <2> QED
    BY <2>3, <2>4, <2>6, <2>7
<1> QED
  BY <1>1, <1>5, <1>6 DEF CodeInv

(* A step of the task that w runs: the message comes back when the attempt *)
(* is over, and only its own directory is made or removed.                 *)
LEMMA CodeMove ==
  ASSUME TypeInv, TypeInv', CodeInv, NEW w \in Workers, NEW pc, Moved(w, pc), ~At(w, "ack"),
         \/ UNCHANGED queue /\ (At(w, "wipe") => pc = "ack")
         \/ Resent(w) /\ run[w].pc \in {"code", "scan"} /\ (Code(w) => pc = "wipe"),
         \/ UNCHANGED dirs /\ (Code(w) => pc # "scan")
         \/ dirs' = dirs \cup {JobOf(w)}
         \/ /\ dirs' = dirs \ {JobOf(w)} /\ pc # "scan"
            /\ run[w].pc \in {"wipe", "wipe_ok"} /\ Code(w)
  PROVE  CodeInv'
<1>1. /\ run[w] # Idle /\ run'[w] # Idle /\ run'[w].pc = pc /\ run'[w].msg = run[w].msg
      /\ \A v \in Workers : v # w => run'[v] = run[v]
      /\ UNCHANGED fresh /\ outages' = outages
  BY DEF Moved, api
<1>2. \A v \in Workers : /\ Code(v)' <=> Code(v)
                         /\ JobOf(v)' = JobOf(v)
  BY <1>1 DEF Code, JobOf
<1>3. \A v \in Workers : v # w => run'[v] = run[v] /\ (At(v, "ack")' <=> At(v, "ack"))
                                  /\ (At(v, "scan")' <=> At(v, "scan"))
  BY <1>1 DEF At
<1>4. \/ UNCHANGED queue
      \/ /\ Resent(w) /\ queue' = Bag!BagAdd(queue, Again(w))
         /\ Again(w).job = JobOf(w) /\ (Again(w).target \in Functions <=> Code(w))
         /\ BagToSet(queue') = BagToSet(queue) \cup {Again(w)}
  BY <1>1 DEF Resent, Code
<1>5. \A m \in Codes' : m \in Codes \/ (m = Again(w) /\ Code(w) /\ Resent(w) /\ m.job = JobOf(w))
  BY <1>4 DEF Codes
<1>6. CodeIds'
  <2>1. fresh \in Nat /\ fresh' \in Nat /\ fresh' >= fresh /\ CodeIds
    BY <1>1 DEF TypeInv, RestOK, CodeInv
  <2>2. \A v \in Workers : Code(v)' => Code(v) /\ run'[v].msg.job = JobOf(v)
    BY <1>2 DEF JobOf
  <2>3. \A m \in Codes' : m \in Codes \/ \E v \in Workers : Code(v) /\ JobOf(v) = m.job
    BY <1>5
  <2> QED
    BY <2>1, <2>2, <2>3, IdsKept
<1>7. ASSUME OneMessage, BackWhenOver, OneAttempt, CodePresent
      PROVE  OneMessage' /\ BackWhenOver' /\ OneAttempt' /\ CodePresent'
  <2>1. \A v \in Workers :
          v # w /\ Code(v) /\ Code(w) /\ JobOf(v) = JobOf(w) => At(v, "ack")
    BY <1>7 DEF OneAttempt
  <2>2. OneAttempt'
    <3> SUFFICES ASSUME NEW u \in Workers, NEW v \in Workers, u # v, Code(u), Code(v),
                        JobOf(u) = JobOf(v)
                 PROVE  At(u, "ack")' \/ At(v, "ack")'
      BY <1>2 DEF OneAttempt
    <3>1. CASE u = w \/ v = w
      BY <1>3, <2>1, <3>1
    <3>2. CASE u # w /\ v # w
      BY <1>3, <1>7, <3>2 DEF OneAttempt
    <3> QED
      BY <3>1, <3>2
  <2>3. CodePresent'
    <3> SUFFICES ASSUME NEW v \in Workers, At(v, "scan")', Code(v)
                 PROVE  JobOf(v) \in dirs'
      BY <1>2 DEF CodePresent
    <3>1. CASE v = w
      BY <1>1, <3>1 DEF At
    <3>2. CASE v # w
      <4>1. At(v, "scan") /\ JobOf(v) \in dirs
        BY <1>3, <1>7, <3>2 DEF CodePresent
      <4>2. Code(w) => JobOf(v) # JobOf(w)
        BY <2>1, <3>2, <4>1 DEF At
      <4> QED
        BY <4>1, <4>2
    <3> QED
      BY <3>1, <3>2
  <2>4. CASE UNCHANGED queue /\ (At(w, "wipe") => pc = "ack")
    <3>1. Codes' = Codes /\ OneMessage'
      BY <1>7, <2>4 DEF Codes, OneMessage
    <3>2. BackWhenOver'
      <4> SUFFICES ASSUME NEW l \in Codes, NEW v \in Workers, Code(v), JobOf(v) = l.job
                   PROVE  l.try > 0 /\ run'[v].pc \in {"wipe", "ack"}
        BY <1>2, <3>1 DEF BackWhenOver
      <4>1. l.try > 0 /\ run[v].pc \in {"wipe", "ack"}
        BY <1>7 DEF BackWhenOver
      <4>2. CASE v = w
        BY <1>1, <2>4, <4>1, <4>2 DEF At
      <4>3. CASE v # w
        BY <1>3, <4>1, <4>3
      <4> QED
        BY <4>2, <4>3
    <3> QED
      BY <2>2, <2>3, <3>1, <3>2
  <2>5. CASE Resent(w) /\ run[w].pc \in {"code", "scan"} /\ (Code(w) => pc = "wipe")
    <3>1. /\ Again(w).try > 0 /\ Again(w).job = JobOf(w)
          /\ Again(w).target \in Functions <=> Code(w)
          /\ queue' = Bag!BagAdd(queue, Again(w))
          /\ BagToSet(queue') = BagToSet(queue) \cup {Again(w)}
      BY <1>1, <2>5 DEF Resent, Code
    <3>2. Code(w) => \A m \in Codes : m.job # JobOf(w)
      BY <1>7, <2>5 DEF BackWhenOver
    <3>3. \A m \in Codes : m # Again(w)
      BY <3>1, <3>2 DEF Codes
    <3>4. \A m \in Codes : queue'[m] = queue[m]
      BY <3>1, <3>3, CountsAdd DEF Codes
    <3>5. Code(w) => queue'[Again(w)] = 1
      <4>1. Code(w) => Again(w) \notin BagToSet(queue)
        BY <3>1, <3>3 DEF Codes
      <4> QED
        BY <3>1, <4>1, CountsAdd
    <3>6. Codes' = IF Code(w) THEN Codes \cup {Again(w)} ELSE Codes
      BY <3>1 DEF Codes
    <3>7. OneMessage'
      BY <1>7, <3>1, <3>2, <3>4, <3>5, <3>6 DEF OneMessage
    <3>8. BackWhenOver'
      <4> SUFFICES ASSUME NEW l \in Codes', NEW v \in Workers, Code(v), JobOf(v) = l.job
                   PROVE  l.try > 0 /\ run'[v].pc \in {"wipe", "ack"}
        BY <1>2 DEF BackWhenOver
      <4>1. CASE l \in Codes
        <5>1. l.try > 0 /\ run[v].pc \in {"wipe", "ack"}
          BY <1>7, <4>1 DEF BackWhenOver
        <5>2. v # w
          BY <2>5, <5>1
        <5> QED
          BY <1>3, <5>1, <5>2
      <4>2. CASE l = Again(w) /\ Code(w)
        <5>1. CASE v = w
          BY <1>1, <2>5, <3>1, <4>2, <5>1
        <5>2. CASE v # w
          <6>1. At(v, "ack")
            BY <2>1, <3>1, <4>2, <5>2
          <6> QED
            BY <1>3, <3>1, <4>2, <5>2, <6>1 DEF At
        <5> QED
          BY <5>1, <5>2
      <4> QED
        BY <3>6, <4>1, <4>2
    <3> QED
      BY <2>2, <2>3, <3>7, <3>8
  <2> QED
    BY <2>4, <2>5
<1> QED
  BY <1>1, <1>6, <1>7 DEF CodeInv

LEMMA CodeFreed ==
  ASSUME TypeInv, TypeInv', CodeInv, NEW w \in Workers, Freed(w), UNCHANGED queue,
         outages' = outages
  PROVE  CodeInv'
<1>1. /\ run'[w] = Idle /\ UNCHANGED <<dirs, fresh>> /\ Codes' = Codes
      /\ \A v \in Workers : v # w => run'[v] = run[v]
  BY DEF Freed, api, Codes
<1>2. \A v \in Workers : Code(v)' \/ At(v, "scan")' =>
                           v # w /\ run'[v] = run[v] /\ (Code(v)' <=> Code(v)) /\ JobOf(v)' = JobOf(v)
                                 /\ (At(v, "ack")' <=> At(v, "ack")) /\ (At(v, "scan")' <=> At(v, "scan"))
  BY <1>1 DEF Code, JobOf, At, Idle
<1>3. CodeIds'
  <2>1. fresh \in Nat /\ fresh' \in Nat /\ fresh' >= fresh /\ CodeIds
    BY <1>1 DEF TypeInv, RestOK, CodeInv
  <2>2. \A v \in Workers : Code(v)' => Code(v) /\ run'[v].msg.job = JobOf(v)
    BY <1>2 DEF JobOf
  <2> QED
    BY <1>1, <2>1, <2>2, IdsKept
<1>4. OneMessage => OneMessage'
  BY <1>1 DEF OneMessage
<1>5. BackWhenOver => BackWhenOver'
  BY <1>1, <1>2 DEF BackWhenOver
<1>6. OneAttempt => OneAttempt'
  BY <1>2 DEF OneAttempt
<1>7. CodePresent => CodePresent'
  BY <1>1, <1>2 DEF CodePresent
<1> QED
  BY <1>3, <1>4, <1>5, <1>6, <1>7 DEF CodeInv

(* After an outage only the ids are of interest.                           *)
LEMMA CodeOutage ==
  ASSUME TypeInv, TypeInv', CodeInv, outages' = outages + 1, UNCHANGED <<dirs, api>>,
         \/ UNCHANGED run /\ BagToSet(queue') = BagToSet(queue)
         \/ \E w \in Workers : Freed(w) /\ run[w] # Idle
                               /\ BagToSet(queue') = BagToSet(queue) \cup {run[w].msg}
  PROVE  CodeInv'
<1>1. fresh \in Nat /\ fresh' \in Nat /\ fresh' >= fresh /\ CodeIds /\ outages' # 0
  BY DEF TypeInv, RestOK, FaultsOK, CodeInv, api
<1>2. CASE UNCHANGED run /\ BagToSet(queue') = BagToSet(queue)
  <2>1. Codes' = Codes /\ \A v \in Workers : Code(v)' => Code(v) /\ run'[v].msg.job = JobOf(v)
    BY <1>2 DEF Codes, Code, JobOf
  <2> QED
    BY <1>1, <2>1, IdsKept DEF CodeInv
<1>3. ASSUME NEW w \in Workers, Freed(w), run[w] # Idle,
             BagToSet(queue') = BagToSet(queue) \cup {run[w].msg}
      PROVE  CodeInv'
  <2>1. \A v \in Workers : Code(v)' => Code(v) /\ run'[v].msg.job = JobOf(v)
    BY <1>3 DEF Freed, Code, JobOf
  <2>2. \A m \in Codes' : m \in Codes \/ \E v \in Workers : Code(v) /\ JobOf(v) = m.job
    BY <1>3 DEF Codes, Code, JobOf
  <2> QED
    BY <1>1, <2>1, <2>2, IdsKept DEF CodeInv
<1> QED
  BY <1>2, <1>3

LEMMA CodeKind ==
  ASSUME TypeInv, NEW w \in Workers, run[w] # Idle
  PROVE  Code(w) <=> KindOf(w) = "lambda"
<1>1. run[w].msg.target \in Targets /\ KindOf(w) = Kind(run[w].msg.target)
  BY NotIdle DEF TypeInv, Messages, Targets
<1>2. KindOf(w) = "lambda" <=> run[w].msg.target \in Functions
  BY <1>1, Kindness
<1> QED
  BY <1>2 DEF Code

LEMMA CodeTask ==
  ASSUME TypeInv, TypeInv', CodeInv, NEW w \in Workers, Task(w)
  PROVE  CodeInv'
<1>1. CASE Prepare(w)
  <2>1. /\ \/ Moved(w, "code")
           \/ Moved(w, "scan") /\ KindOf(w) # "lambda"
           \/ Moved(w, "ack")
        /\ UNCHANGED <<queue, dirs>> /\ At(w, "prepare")
    BY <1>1, PrepareKeeps DEF Prepare
  <2>2. run[w] # Idle /\ ~At(w, "ack") /\ ~At(w, "wipe")
    BY <2>1 DEF Moved, At
  <2>3. Code(w) <=> KindOf(w) = "lambda"
    BY <2>2, CodeKind
  <2>4. CASE Moved(w, "code")
    BY <2>1, <2>2, <2>4, CodeMove
  <2>5. CASE Moved(w, "scan") /\ KindOf(w) # "lambda"
    BY <2>1, <2>2, <2>3, <2>5, CodeMove
  <2>6. CASE Moved(w, "ack")
    BY <2>1, <2>2, <2>6, CodeMove
  <2> QED
    BY <2>1, <2>4, <2>5, <2>6
<1>2. CASE Download(w)
  <2>1. /\ Moved(w, "scan") /\ ~At(w, "ack") /\ ~At(w, "wipe") /\ UNCHANGED queue
        /\ dirs' = dirs \cup {JobOf(w)}
    BY <1>2, DownloadKeeps DEF At
  <2> QED
    BY <2>1, CodeMove
<1>3. CASE Analyse(w)
  <2>1. /\ Moved(w, Finally(w, "persist")) /\ ~At(w, "ack") /\ ~At(w, "wipe")
        /\ UNCHANGED <<queue, dirs>> /\ Finally(w, "persist") # "scan"
    BY <1>3, AnalyseKeeps, FinallyPcs DEF At
  <2> QED
    BY <2>1, CodeMove
<1>4. CASE StepFails(w) \/ SoftLimit(w)
  <2>1. /\ Moved(w, Finally(w, "ack")) /\ run[w].pc \in {"code", "scan"}
        /\ UNCHANGED dirs /\ (Resent(w) \/ UNCHANGED queue)
    BY <1>4, FailingStepKeeps, SoftLimitKeeps
  <2>2. run[w] # Idle /\ ~At(w, "ack") /\ ~At(w, "wipe")
    BY <2>1 DEF Moved, At
  <2>3. Finally(w, "ack") # "scan" /\ (Code(w) => Finally(w, "ack") = "wipe")
    BY <2>2, CodeKind, FinallyPcs
  <2> QED
    BY <2>1, <2>2, <2>3, CodeMove
<1>5. CASE Wipe(w)
  <2>1. /\ dirs' = dirs \ {JobOf(w)} /\ UNCHANGED queue
        /\ \/ At(w, "wipe") /\ Moved(w, "ack")
           \/ At(w, "wipe_ok") /\ Moved(w, "persist")
    BY <1>5, WipeKeeps
  <2>2. run[w] # Idle /\ KindOf(w) = "lambda" /\ run[w].pc \in {"wipe", "wipe_ok"}
    BY <2>1 DEF Moved, At, TypeInv, RunOK
  <2>3. Code(w)
    BY <2>2, CodeKind
  <2>4. CASE At(w, "wipe") /\ Moved(w, "ack")
    BY <2>1, <2>2, <2>3, <2>4, CodeMove DEF At
  <2>5. CASE At(w, "wipe_ok") /\ Moved(w, "persist")
    BY <2>1, <2>2, <2>3, <2>5, CodeMove DEF At
  <2> QED
    BY <2>1, <2>4, <2>5
<1>6. CASE Persist(w)
  <2>1. /\ Moved(w, "ack") /\ ~At(w, "ack") /\ ~At(w, "wipe") /\ UNCHANGED <<queue, dirs>>
    BY <1>6, PersistKeeps DEF At
  <2> QED
    BY <2>1, CodeMove
<1>7. CASE Ack(w)
  BY <1>7, AckKeeps, CodeFreed DEF faults
<1> QED
  BY <1>1, <1>2, <1>3, <1>4, <1>5, <1>6, <1>7 DEF Task

LEMMA CodeStep ==
  ASSUME TypeInv, CodeInv, [Next]_vars
  PROVE  CodeInv'
<1>1. TypeInv' /\ fresh \in Nat /\ fresh + 1 > fresh /\ fresh >= fresh /\ fresh + 1 >= fresh
  BY StepKeeps DEF Kept, TypeInv, RestOK
<1>2. ASSUME NEW h \in Hooks, Webhook(h) PROVE CodeInv'
  <2>1. /\ UNCHANGED <<run, dirs, fresh>> /\ outages' = outages
        /\ UNCHANGED queue \/ queue' = Bag!BagAdd(queue, Message(<<h>>, h, TRUE))
    BY <1>2, WebhookKeeps DEF Created
  <2>2. Message(<<h>>, h, TRUE).target \notin Functions
    BY SideScanJobsAssumption DEF Message
  <2> QED
    BY <1>1, <2>1, <2>2, CodeApi
<1>3. ASSUME NEW a \in Assets, EnqueueSideScan(a) PROVE CodeInv'
  <2>1. /\ UNCHANGED <<run, dirs>> /\ outages' = outages /\ fresh' = fresh + 1
        /\ UNCHANGED queue \/ queue' = Bag!BagAdd(queue, Message(NewId, a, TRUE))
        /\ NewId = <<fresh + 1>>
    BY <1>3, EnqueueKeeps DEF Created
  <2>2. Message(NewId, a, TRUE).job = <<fresh'>>
    BY <2>1 DEF Message
  <2> QED
    BY <1>1, <2>1, <2>2, CodeApi
<1>4. ASSUME NEW a \in Assets, CheckFirstSeen(a) \/ NotScannable(a) PROVE CodeInv'
  <2>1. UNCHANGED <<run, dirs, queue, fresh>> /\ outages' = outages
    BY <1>4 DEF CheckFirstSeen, NotScannable, faults
  <2> QED
    BY <1>1, <2>1, CodeApi
<1>5. ASSUME NEW j \in DOMAIN docs, RetryCopy(j) PROVE CodeInv'
  <2>1. PICK n : Copied(j, n)
    BY <1>5, RetryCopyKeeps
  <2> DEFINE m == Message(n, docs[j].target, docs[j].kind = "ecr")
  <2>2. /\ UNCHANGED <<run, dirs, fresh>> /\ outages' = outages
        /\ UNCHANGED queue \/ (queue' = Bag!BagAdd(queue, m) /\ docs[j].target \in Hooks)
    BY <2>1 DEF Copied
  <2>3. docs[j].target \in Hooks => m.target \notin Functions
    BY SideScanJobsAssumption DEF Message
  <2> HIDE DEF m
  <2> QED
    BY <1>1, <2>2, <2>3, CodeApi
<1>6. ASSUME NEW w \in Workers, Task(w) PROVE CodeInv'
  BY <1>1, <1>6, CodeTask
<1>7. ASSUME NEW w \in Workers, NEW m \in BagToSet(queue), Deliver(w, m) PROVE CodeInv'
  BY <1>1, <1>7, DeliverKeeps, CodeDeliver
<1>8. ASSUME NEW w \in Workers, HardLimit(w) PROVE CodeInv'
  BY <1>1, <1>8, HardLimitKeeps, CodeFreed
<1>9. ASSUME NEW w \in Workers, Crash(w) PROVE CodeInv'
  BY <1>1, <1>9, CrashKeeps, CodeOutage DEF Freed
<1>10. ASSUME NEW m \in BagToSet(queue), Redeliver(m) PROVE CodeInv'
  BY <1>1, <1>10, RedeliverKeeps, CodeOutage
<1>11. CASE UNCHANGED vars
  <2>1. UNCHANGED <<run, dirs, queue, fresh>> /\ outages' = outages
    BY <1>11 DEF vars
  <2> QED
    BY <1>1, <2>1, CodeApi
<1> QED
  BY <1>2, <1>3, <1>4, <1>5, <1>6, <1>7, <1>8, <1>9, <1>10, <1>11, Zenon
  DEF Next, TriggerScan, AutoTrigger, RetryAsset

LEMMA LivesForm == TypeInv /\ LeakInv /\ CodeInv => CodeLivesAsLongAsItsScan
<1> SUFFICES ASSUME TypeInv, LeakInv, CodeInv PROVE CodeLivesAsLongAsItsScan
  OBVIOUS
<1> DEFINE Alone == {j \in dirs : ~\E w \in Workers : run[w] # Idle /\ JobOf(w) = j}
<1>1. Alone \subseteq Orphans
  <2>1. \A w \in Workers : Keeps(w) => run[w] # Idle
    BY DEF Keeps, Idle
  <2> QED
    BY <2>1 DEF Orphans
<1>2. Cardinality(Alone) <= outages + errors
  <2>1. outages + errors \in Nat
    BY DEF TypeInv, FaultsOK
  <2>2. IsFiniteSet(Orphans) /\ Cardinality(Orphans) <= outages + errors
    BY DEF LeakInv
  <2>3. IsFiniteSet(Alone) /\ Cardinality(Alone) <= Cardinality(Orphans)
    BY <1>1, <2>2, FS_Subset
  <2>4. Cardinality(Alone) \in Nat /\ Cardinality(Orphans) \in Nat
    BY <2>2, <2>3, FS_CardinalityType
  <2> HIDE DEF Alone
  <2> QED
    BY <2>1, <2>2, <2>3, <2>4
<1>3. ASSUME NEW w \in Workers, At(w, "scan"), KindOf(w) = "lambda"
      PROVE  JobOf(w) \in dirs \/ outages > 0
  <2>1. run[w] # Idle
    BY <1>3 DEF At, Idle
  <2>2. Code(w)
    BY <1>3, <2>1, CodeKind
  <2>3. outages = 0 => JobOf(w) \in dirs
    BY <1>3, <2>2 DEF CodeInv, CodePresent
  <2>4. outages = 0 \/ outages > 0
    BY DEF TypeInv, FaultsOK
  <2> QED
    BY <2>3, <2>4
<1> QED
  BY <1>2, <1>3 DEF CodeLivesAsLongAsItsScan

(* The directory of a Lambda scan outlives the scan only through a fault,  *)
(* one by each; and before the first outage none goes while it is scanned: *)
(* the UUID of a job is its own, one attempt runs at a time, and a retry   *)
(* comes after the removal of the files of the attempt before.             *)
THEOREM CodeLives == Spec => []CodeLivesAsLongAsItsScan
<1>1. Init => LeakInv
  <2> SUFFICES ASSUME Init PROVE LeakInv
    OBVIOUS
  <2>1. Orphans = {} /\ outages + errors = 0
    BY DEF Init, Orphans
  <2> QED
    BY <2>1, FS_EmptySet DEF LeakInv
<1>2. Init => CodeInv
  <2> SUFFICES ASSUME Init PROVE CodeInv
    OBVIOUS
  <2>1. Codes = {} /\ dirs = {}
    BY DEF Init, Codes, BagToSet, EmptyBag, SetToBag
  <2>2. \A w \in Workers : ~Code(w)
    BY DEF Init, Code
  <2> QED
    BY <2>1, <2>2 DEF CodeInv, CodeIds, OneMessage, BackWhenOver, OneAttempt, CodePresent
<1>3. TypeInv /\ LeakInv /\ [Next]_vars => LeakInv'
  BY LeakStep
<1>4. TypeInv /\ CodeInv /\ [Next]_vars => CodeInv'
  BY CodeStep
<1>5. TypeInv /\ [Next]_vars => TypeInv'
  BY StepKeeps DEF Kept
<1> QED
  BY <1>1, <1>2, <1>3, <1>4, <1>5, TypeInit, LivesForm, PTL DEF Spec

=============================================================================
