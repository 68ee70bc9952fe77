---------------------------- MODULE SideScanJobs ----------------------------
(***************************************************************************)
(* Where side scans come from and what becomes of their jobs: the webhooks *)
(* of the Kubernetes scanner and of ECR with their duplicate check, "Scan  *)
(* Now", the trigger of a resource seen for the first time, the retry of a *)
(* failed job, and the task life cycle that Lambda, container and image    *)
(* scans share (EC2 has a module of its own, SideScan), with the RAM disk  *)
(* of the Lambda scan and the SBOM and SARIF reports they leave behind.    *)
(*                                                                         *)
(* Source: api/v1/side_scans.py, services/side_scanning/trigger.py,        *)
(* workers/tasks/side_scanning.py, workers/tasks/_job_tracking.py and      *)
(* _auto_trigger_side_scans of workers/tasks/cspm_scan.py.                 *)
(*                                                                         *)
(* A handler of the API is one step: its body never awaits, and one        *)
(* process serves the API.  Requests that a handler refuses change nothing *)
(* and are left out.                                                       *)
(***************************************************************************)
EXTENDS Naturals, Sequences, FiniteSets, Bags

Bag == INSTANCE BagsExt

CONSTANTS
  Hooks,       \* webhook events, each with the job id its scanner gave it
  Subject,     \* the container or image each event is about
  Images,      \* those that come from ECR; the others from a Kubernetes node
  Assets,      \* EC2 instances and Lambda functions that can be scanned
  Functions,   \* the Lambda functions among them
  Strays,      \* failed jobs of other kinds (discovery, CSPM), in scan_jobs too
  Workers,     \* worker processes of one scanner host
  MaxFresh,    \* bound on calls of enqueue_side_scan
  MaxSeconds,  \* bound on the seconds in which one job is retried
  MaxDepth,    \* bound on retries of retries: the length of a job id
  MaxVersion,  \* bound on the number of contents a subject may have
  MaxRetries,  \* _MAX_SCAN_RETRIES
  MaxFaults    \* bound on the faults of a behaviour: outages plus errors

ASSUME SideScanJobsAssumption ==
  /\ Images \subseteq Hooks /\ DOMAIN Subject = Hooks
  /\ Functions \subseteq Assets
  /\ Hooks \cap Assets = {} /\ Strays \cap (Hooks \cup Assets) = {}
  /\ (1..MaxFresh) \cap (Hooks \cup Strays) = {}
  /\ {MaxFresh, MaxSeconds, MaxVersion, MaxRetries, MaxFaults} \subseteq Nat
  /\ MaxDepth \in Nat \ {0}

VARIABLES
  docs,      \* the scan_jobs documents: status, kind and target by job id
  queue,     \* the messages that wait in the broker, a bag
  run,       \* what each worker process is doing
  dirs,      \* the RAM disk directories that exist, by job id
  fresh,     \* UUIDs handed out so far
  checked,   \* assets a CSPM scan found without a prior side scan, not yet enqueued
  sent,      \* tasks sent for each webhook event, automatic triggers of each asset
  reports,   \* the SBOM (Kubernetes) or SARIF (ECR) document of each subject
  outages,   \* crashed workers and redelivered messages so far
  errors     \* calls that failed, and hard time limits

vars == <<docs, queue, run, dirs, fresh, checked, sent, reports,
          outages, errors>>
faults == <<outages, errors>>
api == <<fresh, checked, sent>>

Subjects == {Subject[h] : h \in Hooks}
Targets == Hooks \cup Assets \cup Strays

(* A job id is the id it was first given, then the second of each retry    *)
(* ("retry-<id>-<time>"): <<h>> for a webhook, <<n>> for the n-th UUID.    *)
Parts == Hooks \cup Strays \cup 1..(MaxFresh + MaxSeconds)
JobIds == UNION {[1..n -> Parts] : n \in 1..MaxDepth}

Kind(x) ==
  CASE x \in Images -> "ecr"
    [] x \in Hooks \ Images -> "k8s_container"
    [] x \in Functions -> "lambda"
    [] x \in Assets \ Functions -> "ec2"
    [] OTHER -> "other"

Job(x, status) == [kind |-> Kind(x), target |-> x, status |-> status]

(* exact: the message carries the pid of the container.                    *)
Message(j, x, exact) == [job |-> j, target |-> x, exact |-> exact, try |-> 0]

Idle == [pc |-> "idle"]
Busy(pc, m) == [pc |-> pc, msg |-> m, seen |-> 0]

Tracked == {"queued", "running", "completed", "failed"}

TypeOK ==
  /\ DOMAIN docs \subseteq JobIds
  /\ \A j \in DOMAIN docs :
       docs[j] \in [kind : {"ec2", "lambda", "ecr", "k8s_container", "other"},
                    target : Targets, status : Tracked]
  /\ \A m \in BagToSet(queue) : m.job \in JobIds /\ m.try <= MaxRetries
  /\ \A w \in Workers : run[w] = Idle \/
       /\ run[w].pc \in {"prepare", "code", "scan", "wipe", "wipe_ok", "persist", "ack"}
       /\ run[w].msg.job \in JobIds
  /\ dirs \subseteq JobIds
  /\ fresh \in 0..MaxFresh
  /\ checked \subseteq Assets
  /\ sent \in [Hooks \cup Assets -> Nat]
  /\ reports \in [Subjects -> [content : 0..MaxVersion, stamp : 0..MaxVersion, some : BOOLEAN]]
  /\ outages + errors <= MaxFaults

Init ==
  /\ docs = [j \in {<<s>> : s \in Strays} |-> Job(j[1], "failed")]
  /\ queue = EmptyBag
  /\ run = [w \in Workers |-> Idle]
  /\ dirs = {}
  /\ fresh = 0
  /\ checked = {}
  /\ sent = [x \in Hooks \cup Assets |-> 0]
  /\ reports = [s \in Subjects |-> [content |-> 0, stamp |-> 0, some |-> FALSE]]
  /\ outages = 0
  /\ errors = 0

-----------------------------------------------------------------------------
(* Helpers                                                                 *)

CountOutage ==
  /\ outages + errors < MaxFaults
  /\ outages' = outages + 1
  /\ UNCHANGED errors

CountErrors(n) ==
  /\ outages + errors + n <= MaxFaults
  /\ errors' = errors + n
  /\ UNCHANGED outages

Insert(j, doc) == [i \in DOMAIN docs \cup {j} |-> IF i = j THEN doc ELSE docs[i]]

(* update_job_to_running, complete_discovery_job and fail_discovery_job    *)
(* overwrite whatever the status was, and swallow the failure of the write *)
(* or the lack of a document.                                              *)
SetStatus(j, status) ==
  \/ /\ docs' = IF j \in DOMAIN docs THEN [docs EXCEPT ![j].status = status] ELSE docs
     /\ UNCHANGED faults
  \/ CountErrors(1) /\ UNCHANGED docs

-----------------------------------------------------------------------------
(* The API and the first-seen trigger                                      *)

(* Variant: only an active job makes a repeated delivery a duplicate.      *)
AlreadyTrackedActive(j) == j \in DOMAIN docs /\ docs[j].status \in {"queued", "running"}

(* _job_already_tracked: any status it knows makes a delivery a duplicate. *)
AlreadyTracked(j) == j \in DOMAIN docs /\ docs[j].status \in Tracked

(* A webhook delivers h, for the first time or again.  The check that      *)
(* raises says "not tracked"; an insert that raises is ignored and the     *)
(* task sent all the same; a send that raises leaves the document queued.  *)
Webhook(h) ==
  LET j == <<h>>
  IN  \E broken \in SUBSET {"check", "insert", "send"} :
        /\ AlreadyTracked(j) <=> "check" \in broken
        /\ CountErrors(Cardinality(broken))
        /\ docs' = IF j \in DOMAIN docs \/ "insert" \in broken
                   THEN docs ELSE Insert(j, Job(h, "queued"))
        /\ queue' = IF "send" \in broken THEN queue ELSE Bag!BagAdd(queue, Message(j, h, TRUE))
        /\ sent' = IF "send" \in broken THEN sent ELSE [sent EXCEPT ![h] = @ + 1]
        /\ UNCHANGED <<run, dirs, fresh, checked, reports>>

(* Variant: the job id is the second of the call, as it was before UUIDs;  *)
(* all calls fall into one second.                                         *)
NewIdFromClock == <<1>>

NewId == <<fresh + 1>>

(* enqueue_side_scan: the document, then the task; each can fail alone.    *)
EnqueueSideScan(a) ==
  \E broken \in SUBSET {"insert", "send"} :
    /\ fresh < MaxFresh
    /\ fresh' = fresh + 1
    /\ CountErrors(Cardinality(broken))
    /\ docs' = IF NewId \in DOMAIN docs \/ "insert" \in broken
               THEN docs ELSE Insert(NewId, Job(a, "queued"))
    /\ queue' = IF "send" \in broken THEN queue ELSE Bag!BagAdd(queue, Message(NewId, a, TRUE))
    /\ UNCHANGED <<run, dirs, reports>>

(* "Scan Now": whatever was scanned or is being scanned already.           *)
TriggerScan(a) == EnqueueSideScan(a) /\ UNCHANGED <<checked, sent>>

(* Variant: a resource whose last side scan failed counts as not scanned.  *)
HasPriorDone(a) == \E j \in DOMAIN docs : docs[j].target = a /\ docs[j].status # "failed"

(* has_prior_side_scan: any status; a query that raises says yes.          *)
HasPrior(a) == \E j \in DOMAIN docs : docs[j].target = a

(* The scan that found a looks for a prior side scan, then calls AWS for   *)
(* its volume and only then inserts the document.                          *)
CheckFirstSeen(a) ==
  /\ ~HasPrior(a)
  /\ checked' = checked \cup {a}
  /\ UNCHANGED <<docs, queue, run, dirs, fresh, sent, reports, faults>>

AutoTrigger(a) ==
  /\ a \in checked
  /\ checked' = checked \ {a}
  /\ sent' = [sent EXCEPT ![a] = @ + 1]
  /\ EnqueueSideScan(a)

(* enqueue_side_scan returns None for an instance that is gone or has no   *)
(* volume, and raises when AWS does: the resource stays without a scan.    *)
NotScannable(a) ==
  /\ a \in checked
  /\ checked' = checked \ {a}
  /\ UNCHANGED <<docs, queue, run, dirs, fresh, sent, reports, faults>>

(* retry_scan_job on an EC2 or Lambda job: a new job through the trigger.  *)
RetryAsset(j) ==
  /\ docs[j].status = "failed"
  /\ docs[j].target \in Assets
  /\ EnqueueSideScan(docs[j].target)
  /\ UNCHANGED <<checked, sent>>

(* retry_scan_job on any other job: a queued copy under the id of the      *)
(* second, the first that has no copy yet.  The document of a Kubernetes   *)
(* scan has no pid to send, and nothing is sent for a job of another kind. *)
RetryCopy(j) ==
  \E s \in 1..MaxSeconds :
    LET n == Append(j, s)
        known == docs[j].kind # "other"
    IN  /\ docs[j].status = "failed"
        /\ docs[j].target \notin Assets
        /\ Len(n) <= MaxDepth
        /\ n \notin DOMAIN docs /\ \A t \in 1..(s - 1) : Append(j, t) \in DOMAIN docs
        /\ docs' = Insert(n, [docs[j] EXCEPT !.status = "queued"])
        /\ \/ /\ queue' = IF known
                         THEN Bag!BagAdd(queue, Message(n, docs[j].target, docs[j].kind = "ecr"))
                         ELSE queue
              /\ UNCHANGED faults
           \/ /\ known
              /\ CountErrors(1)
              /\ UNCHANGED queue
        /\ UNCHANGED <<run, dirs, fresh, checked, sent, reports>>

-----------------------------------------------------------------------------
(* The task                                                                *)

At(w, pc) == run[w].pc = pc
JobOf(w) == run[w].msg.job
KindOf(w) == Kind(run[w].msg.target)
GoTo(w, pc) == run' = [run EXCEPT ![w].pc = pc]

(* Only the Lambda task has files to remove before it goes on.             *)
Finally(w, pc) ==
  IF KindOf(w) # "lambda" THEN pc
  ELSE IF pc = "persist" THEN "wipe_ok" ELSE "wipe"

(* EC2 and Lambda first resolve the credentials of their provider.         *)
FirstStep(m) == IF m.target \in Assets THEN "prepare" ELSE "scan"

(* A worker takes a message and sets the job running, whatever its status; *)
(* the task ends at once when the database or its schema raises.  A retry  *)
(* has a countdown of 5 s or more, which outlasts the removal of files.    *)
Deliver(w, m) ==
  /\ run[w] = Idle
  /\ m.try > 0 => \A v \in Workers : At(v, "wipe") => JobOf(v) # m.job
  /\ BagIn(m, queue)
  /\ queue' = Bag!BagRemove(queue, m)
  /\ \/ /\ run' = [run EXCEPT ![w] = Busy(FirstStep(m), m)]
        /\ SetStatus(m.job, "running")
     \/ /\ run' = [run EXCEPT ![w] = Busy("ack", m)]
        /\ CountErrors(1)
        /\ UNCHANGED docs
  /\ UNCHANGED <<dirs, api, reports>>

(* The credentials are resolved before the try block: when that raises,    *)
(* the task ends neither retried nor failed.                               *)
Prepare(w) ==
  /\ At(w, "prepare")
  /\ \/ GoTo(w, IF KindOf(w) = "lambda" THEN "code" ELSE "scan") /\ UNCHANGED faults
     \/ GoTo(w, "ack") /\ CountErrors(1)
  /\ UNCHANGED <<docs, queue, dirs, api, reports>>

(* Lambda: the code is downloaded and extracted under the id of the job.   *)
Download(w) ==
  /\ At(w, "code")
  /\ dirs' = dirs \cup {JobOf(w)}
  /\ GoTo(w, "scan")
  /\ UNCHANGED <<docs, queue, api, reports, faults>>

(* Trivy is done, and saw contents v.  A container is found by its pid,    *)
(* which a retried message lacks: /proc/0/root does not exist.             *)
Analyse(w) ==
  /\ At(w, "scan")
  /\ run[w].msg.exact
  /\ \E v \in IF run[w].msg.target \in Hooks THEN 0..MaxVersion ELSE {0} :
       run' = [run EXCEPT ![w] = [@ EXCEPT !.pc = Finally(w, "persist"), !.seen = v]]
  /\ UNCHANGED <<docs, queue, dirs, api, reports, faults>>

(* Variant: one retry too many.                                            *)
CanRetryInclusive(w) == run[w].msg.try <= MaxRetries

CanRetry(w) == run[w].msg.try < MaxRetries

(* Variant: an attempt that will be retried leaves the directory behind.   *)
StepFailsKeeps(w) ==
  /\ run[w].pc \in {"code", "scan"}
  /\ IF CanRetry(w)
     THEN /\ queue' = Bag!BagAdd(queue, [run[w].msg EXCEPT !.try = @ + 1])
          /\ UNCHANGED <<docs, faults>>
          /\ GoTo(w, "ack")
     ELSE /\ SetStatus(JobOf(w), "failed")
          /\ UNCHANGED queue
          /\ GoTo(w, Finally(w, "ack"))
  /\ UNCHANGED <<dirs, api, reports>>

(* _retry_or_fail: retried until the retries are spent, then failed.       *)
StepFails(w) ==
  /\ run[w].pc \in {"code", "scan"}
  /\ IF CanRetry(w)
     THEN /\ queue' = Bag!BagAdd(queue, [run[w].msg EXCEPT !.try = @ + 1])
          /\ UNCHANGED <<docs, faults>>
     ELSE /\ SetStatus(JobOf(w), "failed")
          /\ UNCHANGED queue
  /\ GoTo(w, Finally(w, "ack"))
  /\ UNCHANGED <<dirs, api, reports>>

(* The soft time limit: failed, not retried.                               *)
SoftLimit(w) ==
  /\ run[w].pc \in {"code", "scan"}
  /\ SetStatus(JobOf(w), "failed")
  /\ GoTo(w, Finally(w, "ack"))
  /\ UNCHANGED <<queue, dirs, api, reports>>

(* finally: the directory of the job is removed, if there is one.          *)
Wipe(w) ==
  /\ run[w].pc \in {"wipe", "wipe_ok"}
  /\ dirs' = dirs \ {JobOf(w)}
  /\ GoTo(w, IF At(w, "wipe_ok") THEN "persist" ELSE "ack")
  /\ UNCHANGED <<docs, queue, api, reports, faults>>

(* _persist_sbom and _persist_sarif: an existing document gets a new       *)
(* generated_at (and component_count), but keeps its content.              *)
FirstReport(v) == [content |-> v, stamp |-> v, some |-> TRUE]
Report(r, v) == IF r.some THEN [r EXCEPT !.stamp = v] ELSE FirstReport(v)

(* Findings and the report, if there is one, are persisted, each failure   *)
(* only logged, and the job is completed; or a normalisation raises.       *)
Persist(w) ==
  LET x == run[w].msg.target
  IN  /\ At(w, "persist")
      /\ \/ /\ SetStatus(JobOf(w), "completed")
            /\ \/ UNCHANGED reports
               \/ /\ x \in Hooks
                  /\ reports' = [reports EXCEPT ![Subject[x]] = Report(@, run[w].seen)]
         \/ CountErrors(1) /\ UNCHANGED <<docs, reports>>
      /\ GoTo(w, "ack")
      /\ UNCHANGED <<queue, dirs, api>>

Ack(w) ==
  /\ At(w, "ack")
  /\ run' = [run EXCEPT ![w] = Idle]
  /\ UNCHANGED <<docs, queue, dirs, api, reports, faults>>

(* Variant: the message was acknowledged when it was delivered.            *)
CrashLosesMessage(w) ==
  /\ run[w] # Idle
  /\ CountOutage
  /\ run' = [run EXCEPT ![w] = Idle]
  /\ UNCHANGED <<docs, queue, dirs, api, reports>>

(* The process dies: its message is delivered again; its files stay.       *)
Crash(w) ==
  /\ run[w] # Idle
  /\ CountOutage
  /\ queue' = Bag!BagAdd(queue, run[w].msg)
  /\ run' = [run EXCEPT ![w] = Idle]
  /\ UNCHANGED <<docs, dirs, api, reports>>

(* The hard time limit kills the process and acknowledges the message.     *)
HardLimit(w) ==
  /\ run[w] # Idle /\ ~At(w, "ack")
  /\ CountErrors(1)
  /\ run' = [run EXCEPT ![w] = Idle]
  /\ UNCHANGED <<docs, queue, dirs, api, reports>>

(* A message that waited for the visibility timeout is delivered again.    *)
Redeliver(m) ==
  /\ BagIn(m, queue)
  /\ CountOutage
  /\ queue' = Bag!BagAdd(queue, m)
  /\ UNCHANGED <<docs, run, dirs, api, reports>>

Task(w) ==
  \/ Prepare(w) \/ Download(w) \/ Analyse(w) \/ StepFails(w) \/ SoftLimit(w)
  \/ Wipe(w) \/ Persist(w) \/ Ack(w)

Next ==
  \/ \E h \in Hooks : Webhook(h)
  \/ \E a \in Assets : TriggerScan(a) \/ CheckFirstSeen(a) \/ AutoTrigger(a)
                        \/ NotScannable(a)
  \/ \E j \in DOMAIN docs : RetryAsset(j) \/ RetryCopy(j)
  \/ \E w \in Workers : \/ Task(w) \/ Crash(w) \/ HardLimit(w)
                        \/ \E m \in BagToSet(queue) : Deliver(w, m)
  \/ \E m \in BagToSet(queue) : Redeliver(m)

Spec == Init /\ [][Next]_vars

-----------------------------------------------------------------------------
(* Properties                                                              *)

(* "Reentrega de webhook -> 202 sem duplicar trabalho" (side_scans.py:58): *)
(* however often an event is delivered, also after its job settled, it is  *)
(* sent once, and once more for each call that failed.                     *)
WebhookSentOnce == \A h \in Hooks : sent[h] <= 1 + errors

(* "first-seen only" (cspm_scan.py:171): the automatic trigger fires once  *)
(* per resource, whatever becomes of that scan, of "Scan Now" and of       *)
(* retries in between, and once more for each insert that failed.          *)
FirstSeenOnce == \A a \in Assets : sent[a] <= 1 + errors

(* "Lambda code is downloaded to RAM disk and always deleted in finally"   *)
(* (side_scanning.py:16): a directory that no attempt holds is the trace   *)
(* of a killed process; retries, which come later and maybe elsewhere,     *)
(* leave none.  And no sooner: while the code of a function is scanned     *)
(* nobody else removes it, for two jobs never share a directory, and two   *)
(* attempts of one job only meet after a redelivery.                       *)
CodeLivesAsLongAsItsScan ==
  /\ Cardinality({j \in dirs : ~\E w \in Workers : run[w] # Idle /\ JobOf(w) = j})
       <= outages + errors
  /\ \A w \in Workers : At(w, "scan") /\ KindOf(w) = "lambda" =>
       JobOf(w) \in dirs \/ outages > 0

(* Everything queued or running is still being worked on, unless a call    *)
(* failed: but for the retries of jobs no task is sent for.                *)
Pending(w) == run[w].pc \in {"prepare", "code", "scan", "wipe_ok", "persist"}

QueuedJobsHaveWork ==
  \A j \in DOMAIN docs : docs[j].status \in {"queued", "running"} =>
    \/ errors > 0
    \/ docs[j].kind = "other"
    \/ \E m \in BagToSet(queue) : m.job = j
    \/ \E w \in Workers : run[w] # Idle /\ Pending(w) /\ JobOf(w) = j

(* "Upsert a CycloneDX SBOM document" (side_scanning.py:382): what a       *)
(* report holds is what was seen at the time its generated_at names.       *)
ReportIsCurrent == \A s \in Subjects : reports[s].content = reports[s].stamp
=============================================================================
