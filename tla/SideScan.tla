------------------------------- MODULE SideScan -------------------------------
(***************************************************************************)
(* The side scan of EC2 instances: from the scan_jobs document inserted by *)
(* the trigger, through snapshot, scoped volume, mount and analysis, to    *)
(* the cleanup in the finally block and the terminal status of the job.    *)
(* What is at stake is outside the process: snapshots and volumes in the   *)
(* customer's account, and one device name and one mount path that every   *)
(* worker process of a scanner host shares.                                *)
(*                                                                         *)
(* Source: workers/tasks/side_scanning.py (scan_ec2_instance_v2,           *)
(* _run_yara_via_scoped_mount, _retry_or_fail, cleanup_orphan_snapshots),  *)
(* services/side_scanning/snapshot_manager.py, trigger.py, and             *)
(* workers/tasks/_job_tracking.py.  The trivy thread shares nothing with   *)
(* the YARA thread, so the model runs it once YARA is over, when the code  *)
(* looks at its result.                                                    *)
(***************************************************************************)
EXTENDS Naturals, Sequences, FiniteSets

CONSTANTS
  Jobs,        \* job ids, one per call of enqueue_side_scan
  Denied,      \* jobs whose credentials or role the worker cannot use
  Workers,     \* worker processes of one scanner host
  NoMessage,   \* what an idle worker holds
  Ids,         \* names of a snapshot and of the volume made from it
  NoId,
  TimeLimit,   \* half-hours after which a task is killed (time_limit)
  Ttl,         \* half-hours from a snapshot's creation to ogum:expires_at
  MaxRetries,  \* _MAX_SCAN_RETRIES
  MaxFaults    \* bound on the faults of a behaviour: outages plus errors

Message == [job : Jobs, retries : 0..MaxRetries]

ASSUME SideScanAssumption ==
  /\ Denied \subseteq Jobs
  /\ NoMessage \notin Message
  /\ NoId \notin Ids
  /\ TimeLimit \in Nat /\ Ttl \in Nat /\ TimeLimit < Ttl
  /\ MaxRetries \in Nat
  /\ MaxFaults \in Nat

VARIABLES
  jobs,       \* status of each scan_jobs document; "missing" if its insert failed
  queue,      \* how many copies of each message wait in the broker
  run,        \* what each worker process is doing
  snapshots,  \* external: the snapshots that exist
  age,        \* half-hours that have struck since each was created
  volumes,    \* external: the state of the volume made from each snapshot
  path,       \* what is mounted on the scan path, the visible mount last
  outages,    \* crashed workers and redelivered messages so far
  errors      \* failed calls that are not retried, and hard time limits

vars == <<jobs, queue, run, snapshots, age, volumes, path, outages, errors>>
faults == <<outages, errors>>
aws == <<snapshots, age, volumes, path>>

Terminal == {"completed", "failed"}

YaraSteps == {"volume", "attach", "mount", "yara"}
CleanupSteps == {"umount", "detach", "delete", "unsnap"}

(* In half-hours that have struck; a snapshot past its expiry date stops   *)
(* aging.                                                                  *)
AttemptAges == 0..TimeLimit
SnapshotAges == 0..Ttl

Run ==
  [pc : {"idle", "prepare", "snapshot", "wait", "trivy", "persist", "ack"}
          \cup YaraSteps \cup CleanupSteps,
   msg : Message \cup {NoMessage},
   age : AttemptAges,          \* half-hours that have struck since it started
   id : Ids \cup {NoId},       \* of the snapshot and the volume
   snap : BOOLEAN,             \* snapshot_id is not None
   vol : BOOLEAN,              \* scan_volume_id is not None
   mounted : BOOLEAN,
   ok : BOOLEAN]               \* the try block ended without an exception

Idle == [pc |-> "idle", msg |-> NoMessage, age |-> 0, id |-> NoId,
         snap |-> FALSE, vol |-> FALSE, mounted |-> FALSE, ok |-> FALSE]

TypeOK ==
  /\ jobs \in [Jobs -> {"none", "missing", "queued", "running"} \cup Terminal]
  /\ queue \in [Message -> Nat]
  /\ run \in [Workers -> Run]
  /\ snapshots \subseteq Ids
  /\ age \in [Ids -> SnapshotAges]
  /\ volumes \in [Ids -> {"none", "available", "attached", "detaching"}]
  /\ path \in Seq(Ids)
  /\ outages \in Nat
  /\ errors \in Nat

Init ==
  /\ jobs = [j \in Jobs |-> "none"]
  /\ queue = [m \in Message |-> 0]
  /\ run = [w \in Workers |-> Idle]
  /\ snapshots = {}
  /\ age = [i \in Ids |-> 0]
  /\ volumes = [i \in Ids |-> "none"]
  /\ path = << >>
  /\ outages = 0
  /\ errors = 0

-----------------------------------------------------------------------------
(* Helpers                                                                 *)

At(w, pc) == run[w].pc = pc
Job(w) == run[w].msg.job
GoTo(w, pc) == run' = [run EXCEPT ![w].pc = pc]
Publish(m) == queue' = [queue EXCEPT ![m] = @ + 1]

CountOutage ==
  /\ outages + errors < MaxFaults
  /\ outages' = outages + 1
  /\ UNCHANGED errors

CountError ==
  /\ outages + errors < MaxFaults
  /\ errors' = errors + 1
  /\ UNCHANGED outages

(* The helpers of _job_tracking write whatever the status was, and swallow *)
(* the exception of a failed write or of a document that does not exist.   *)
SetJob(j, status) ==
  \/ /\ jobs' = [jobs EXCEPT ![j] = IF @ = "missing" THEN @ ELSE status]
     /\ UNCHANGED faults
  \/ CountError /\ UNCHANGED jobs

(* A name nothing refers to any more stands for a new one.                 *)
Unused == {i \in Ids \ snapshots : volumes[i] = "none" /\ \A w \in Workers : run[w].id # i}
Fresh == CHOOSE i \in Unused : TRUE

-----------------------------------------------------------------------------
(* Trigger and delivery                                                    *)

(* enqueue_side_scan inserts the document, then sends the task.  When the  *)
(* send raises, nothing takes the document back; when the insert raises,   *)
(* the task is sent all the same.                                          *)
Enqueue(j) ==
  LET sent == Publish([job |-> j, retries |-> 0])
      Document(status) == jobs' = [jobs EXCEPT ![j] = status]
  IN  /\ jobs[j] = "none"
      /\ \/ Document("queued") /\ sent /\ UNCHANGED faults
         \/ Document("queued") /\ UNCHANGED queue /\ CountError
         \/ Document("missing") /\ sent /\ CountError
      /\ UNCHANGED <<run, aws>>

(* A worker takes the message and sets the job running, whatever its       *)
(* status was; the task ends at once when the database or its schema       *)
(* raises.                                                                 *)
Deliver(w, m) ==
  /\ run[w] = Idle
  /\ queue[m] > 0
  /\ queue' = [queue EXCEPT ![m] = @ - 1]
  /\ \/ /\ run' = [run EXCEPT ![w] = [@ EXCEPT !.pc = "prepare", !.msg = m]]
        /\ SetJob(m.job, "running")
     \/ /\ run' = [run EXCEPT ![w] = [@ EXCEPT !.pc = "ack", !.msg = m]]
        /\ CountError
        /\ UNCHANGED jobs
  /\ UNCHANGED aws

Ack(w) ==
  /\ At(w, "ack")
  /\ run' = [run EXCEPT ![w] = Idle]
  /\ UNCHANGED <<jobs, queue, aws, faults>>

(* The process dies: its message goes back to the queue, and no finally    *)
(* block runs.                                                             *)
Crash(w) ==
  /\ ~At(w, "idle")
  /\ CountOutage
  /\ Publish(run[w].msg)
  /\ run' = [run EXCEPT ![w] = Idle]
  /\ UNCHANGED <<jobs, aws>>

(* A message that was reserved but not started is delivered again after    *)
(* the visibility timeout (one hour); a started one ends before it, by its *)
(* time limit of half an hour.                                             *)
Redeliver(m) ==
  /\ queue[m] > 0
  /\ CountOutage
  /\ Publish(m)
  /\ UNCHANGED <<jobs, run, aws>>

(* Half an hour strikes.  An attempt sees no more of these strikes than    *)
(* its time limit has half-hours; by the next it has ended or been killed. *)
Tick ==
  /\ \A w \in Workers : run[w] # Idle => run[w].age < TimeLimit
  /\ run' = [w \in Workers |-> IF run[w] = Idle THEN Idle
                                 ELSE [run[w] EXCEPT !.age = @ + 1]]
  /\ age' = [i \in Ids |-> CASE i \notin snapshots -> 0
                              [] i \in snapshots /\ age[i] < Ttl -> age[i] + 1
                              [] OTHER -> age[i]]
  /\ UNCHANGED <<jobs, queue, snapshots, volumes, path, faults>>

(* time_limit: the process is killed and the message is acknowledged.  The *)
(* soft limit has the same effect when it falls in the finally block,      *)
(* outside its own try.                                                    *)
HardLimit(w) ==
  /\ \/ run[w].age = TimeLimit /\ ~At(w, "idle") /\ ~At(w, "ack")
     \/ run[w].pc \in CleanupSteps
  /\ CountError
  /\ run' = [run EXCEPT ![w] = Idle]
  /\ UNCHANGED <<jobs, queue, aws>>

-----------------------------------------------------------------------------
(* The try block                                                           *)

Prepare(w) ==
  /\ At(w, "prepare")
  /\ Job(w) \notin Denied
  /\ GoTo(w, "snapshot")
  /\ UNCHANGED <<jobs, queue, aws, faults>>

(* The credentials or the session raise before the try block: the task     *)
(* ends, neither retried nor marked failed.                                *)
PrepareFails(w) ==
  /\ At(w, "prepare")
  /\ \/ Job(w) \in Denied /\ UNCHANGED faults
     \/ CountError
  /\ GoTo(w, "ack")
  /\ UNCHANGED <<jobs, queue, aws>>

CreateSnapshot(w) ==
  /\ At(w, "snapshot")
  /\ Unused # {}
  /\ snapshots' = snapshots \cup {Fresh}
  /\ age' = [age EXCEPT ![Fresh] = 0]
  /\ run' = [run EXCEPT ![w] = [@ EXCEPT !.pc = "wait", !.id = Fresh, !.snap = TRUE]]
  /\ UNCHANGED <<jobs, queue, volumes, path, faults>>

(* YARA runs only on a scanner instance, and if the zone is known.         *)
SnapshotReady(w) ==
  /\ At(w, "wait")
  /\ \E pc \in {"volume", "trivy"} : GoTo(w, pc)
  /\ UNCHANGED <<jobs, queue, aws, faults>>

CreateVolume(w) ==
  /\ At(w, "volume")
  /\ volumes' = [volumes EXCEPT ![run[w].id] = "available"]
  /\ run' = [run EXCEPT ![w] = [@ EXCEPT !.pc = "attach", !.vol = TRUE]]
  /\ UNCHANGED <<jobs, queue, snapshots, age, path, faults>>

(* One device name serves all workers of the host: EC2 refuses it while a  *)
(* volume is attached or still detaching there.                            *)
DeviceFree == \A i \in Ids : volumes[i] \notin {"attached", "detaching"}

Attach(w) ==
  /\ At(w, "attach")
  /\ DeviceFree
  /\ volumes' = [volumes EXCEPT ![run[w].id] = "attached"]
  /\ GoTo(w, "mount")
  /\ UNCHANGED <<jobs, queue, snapshots, age, path, faults>>

Mount(w) ==
  /\ At(w, "mount")
  /\ path' = Append(path, run[w].id)
  /\ run' = [run EXCEPT ![w] = [@ EXCEPT !.pc = "yara", !.mounted = TRUE]]
  /\ UNCHANGED <<jobs, queue, snapshots, age, volumes, faults>>

(* YARA ends with matches, or any of its steps raises, the soft time limit *)
(* included: `except Exception` around its result swallows them all.       *)
YaraEnds(w) ==
  /\ run[w].pc \in YaraSteps
  /\ GoTo(w, "trivy")
  /\ UNCHANGED <<jobs, queue, aws, faults>>

(* Trivy and the SBOM are done.                                            *)
Analysed(w) ==
  /\ At(w, "trivy")
  /\ run' = [run EXCEPT ![w] = [@ EXCEPT !.pc = "umount", !.ok = TRUE]]
  /\ UNCHANGED <<jobs, queue, aws, faults>>

(* Variants of StepFails: the job is marked failed before each retry; the  *)
(* job is left as it is once the retries are spent; and the exception      *)
(* escapes without the finally block.                                      *)
StepFailsEarly(w) ==
  /\ run[w].pc \in {"snapshot", "wait", "trivy"}
  /\ SetJob(Job(w), "failed")
  /\ IF run[w].msg.retries < MaxRetries
     THEN Publish([run[w].msg EXCEPT !.retries = @ + 1])
     ELSE UNCHANGED queue
  /\ GoTo(w, "umount")
  /\ UNCHANGED aws

StepFailsSilently(w) ==
  /\ run[w].pc \in {"snapshot", "wait", "trivy"}
  /\ IF run[w].msg.retries < MaxRetries
     THEN Publish([run[w].msg EXCEPT !.retries = @ + 1])
     ELSE UNCHANGED queue
  /\ GoTo(w, "umount")
  /\ UNCHANGED <<jobs, aws, faults>>

StepFailsUnclean(w) ==
  /\ run[w].pc \in {"snapshot", "wait", "trivy"}
  /\ IF run[w].msg.retries < MaxRetries
     THEN /\ Publish([run[w].msg EXCEPT !.retries = @ + 1])
          /\ UNCHANGED <<jobs, faults>>
     ELSE /\ SetJob(Job(w), "failed")
          /\ UNCHANGED queue
  /\ GoTo(w, "ack")
  /\ UNCHANGED aws

(* An exception of the snapshot, the wait or the analysis: retried until   *)
(* the retries are spent, and then the job is failed (_retry_or_fail).     *)
StepFails(w) ==
  /\ run[w].pc \in {"snapshot", "wait", "trivy"}
  /\ IF run[w].msg.retries < MaxRetries
     THEN /\ Publish([run[w].msg EXCEPT !.retries = @ + 1])
          /\ UNCHANGED <<jobs, faults>>
     ELSE /\ SetJob(Job(w), "failed")
          /\ UNCHANGED queue
  /\ GoTo(w, "umount")
  /\ UNCHANGED aws

(* The soft time limit outside YARA: the job is failed, with no retry.     *)
SoftLimit(w) ==
  /\ run[w].pc \in {"snapshot", "wait", "trivy"}
  /\ SetJob(Job(w), "failed")
  /\ GoTo(w, "umount")
  /\ UNCHANGED <<queue, aws>>

-----------------------------------------------------------------------------
(* The finally block                                                       *)

(* umount takes the visible mount away, whoever mounted it.                *)
Pop(s) == IF s = << >> THEN s ELSE SubSeq(s, 1, Len(s) - 1)

(* Variant: unmount whether or not this attempt mounted.                   *)
UmountAlways(w) ==
  /\ At(w, "umount")
  /\ path' = Pop(path)
  /\ GoTo(w, "detach")
  /\ UNCHANGED <<jobs, queue, snapshots, age, volumes, faults>>

(* Unmount if this attempt mounted; a failing umount is only logged.       *)
Umount(w) ==
  /\ At(w, "umount")
  /\ \/ /\ path' = IF run[w].mounted THEN Pop(path) ELSE path
        /\ UNCHANGED faults
     \/ /\ run[w].mounted
        /\ CountError
        /\ UNCHANGED path
  /\ GoTo(w, "detach")
  /\ UNCHANGED <<jobs, queue, snapshots, age, volumes>>

(* Only a mounted volume is detached.  EC2 detaches in its own time; when  *)
(* the call raises, the deletion is skipped with it.                       *)
Detach(w) ==
  /\ At(w, "detach")
  /\ \/ /\ volumes' = IF run[w].mounted
                      THEN [volumes EXCEPT ![run[w].id] = "detaching"]
                      ELSE volumes
        /\ UNCHANGED faults
        /\ GoTo(w, "delete")
     \/ /\ run[w].mounted
        /\ CountError
        /\ UNCHANGED volumes
        /\ GoTo(w, "unsnap")
  /\ UNCHANGED <<jobs, queue, snapshots, age, path>>

(* EC2 refuses to delete a volume that is in use; the failure is logged.   *)
DeleteVolume(w) ==
  /\ At(w, "delete")
  /\ \/ /\ volumes' = IF run[w].vol /\ volumes[run[w].id] = "available"
                      THEN [volumes EXCEPT ![run[w].id] = "none"]
                      ELSE volumes
        /\ UNCHANGED faults
     \/ /\ run[w].vol
        /\ CountError
        /\ UNCHANGED volumes
  /\ GoTo(w, "unsnap")
  /\ UNCHANGED <<jobs, queue, snapshots, age, path>>

(* delete_snapshot_safe does not raise.  A scan whose try block succeeded  *)
(* goes on to persist its findings; the others raise again.                *)
DeleteSnapshot(w) ==
  /\ At(w, "unsnap")
  /\ \/ /\ snapshots' = IF run[w].snap THEN snapshots \ {run[w].id} ELSE snapshots
        /\ UNCHANGED faults
     \/ /\ run[w].snap
        /\ CountError
        /\ UNCHANGED snapshots
  /\ run' = [run EXCEPT ![w] =
              [@ EXCEPT !.pc = IF run[w].ok THEN "persist" ELSE "ack",
                        !.id = NoId, !.snap = FALSE, !.vol = FALSE,
                        !.mounted = FALSE]]
  /\ UNCHANGED <<jobs, queue, age, volumes, path>>

(* Variant: a swallowed failure to persist shows in the status.            *)
PersistPartial(w) ==
  /\ At(w, "persist")
  /\ SetJob(Job(w), "completed_with_errors")
  /\ GoTo(w, "ack")
  /\ UNCHANGED <<queue, aws>>

(* Findings and SBOM are persisted, each failure swallowed, and the job is *)
(* completed.                                                              *)
Persist(w) ==
  /\ At(w, "persist")
  /\ SetJob(Job(w), "completed")
  /\ GoTo(w, "ack")
  /\ UNCHANGED <<queue, aws>>

(* The normalisation of a result raises, outside any try block.            *)
PersistFails(w) ==
  /\ At(w, "persist")
  /\ CountError
  /\ GoTo(w, "ack")
  /\ UNCHANGED <<jobs, queue, aws>>

-----------------------------------------------------------------------------
(* EC2 finishes to detach a volume (external).                             *)
Detached(i) ==
  /\ volumes[i] = "detaching"
  /\ volumes' = [volumes EXCEPT ![i] = "available"]
  /\ UNCHANGED <<jobs, queue, run, snapshots, age, path, faults>>

(* Variant: ogum:expires_at is not looked at.                              *)
CleanupEager ==
  /\ snapshots # {}
  /\ snapshots' = {}
  /\ UNCHANGED <<jobs, queue, run, age, volumes, path, faults>>

(* cleanup_orphan_snapshots deletes the snapshots past their expiry date,  *)
(* whoever made them; each deletion may fail, and is then only logged.  It *)
(* is in no schedule: it runs if someone calls it.                         *)
Cleanup ==
  LET expired == {i \in snapshots : age[i] >= Ttl}
  IN  \E gone \in SUBSET expired \ {{}} :
        /\ snapshots' = snapshots \ gone
        /\ UNCHANGED <<jobs, queue, run, age, volumes, path, faults>>

Worker(w) ==
  \/ Prepare(w) \/ PrepareFails(w)
  \/ CreateSnapshot(w) \/ SnapshotReady(w)
  \/ CreateVolume(w) \/ Attach(w) \/ Mount(w) \/ YaraEnds(w)
  \/ Analysed(w) \/ StepFails(w) \/ SoftLimit(w)
  \/ Umount(w) \/ Detach(w) \/ DeleteVolume(w) \/ DeleteSnapshot(w)
  \/ Persist(w) \/ PersistFails(w) \/ Ack(w)

Next ==
  \/ \E j \in Jobs : Enqueue(j)
  \/ \E w \in Workers, m \in Message : Deliver(w, m)
  \/ \E m \in Message : Redeliver(m)
  \/ \E w \in Workers : Worker(w) \/ Crash(w) \/ HardLimit(w)
  \/ \E i \in Ids : Detached(i)
  \/ Cleanup
  \/ Tick

Spec == Init /\ [][Next]_vars

(* Live workers make progress, idle ones serve the queue.  Nothing makes   *)
(* anyone enqueue a scan or call the cleanup.                              *)
Fairness ==
  /\ \A w \in Workers : WF_vars(Worker(w))
  /\ \A m \in Message : WF_vars(\E w \in Workers : Deliver(w, m))

FairSpec == Spec /\ Fairness

-----------------------------------------------------------------------------
(* Properties                                                              *)

(* What YARA reads under the shared mount path is the volume of its own    *)
(* instance, whatever other workers attach, fail to mount or clean up.     *)
YaraReadsOwnVolume ==
  \A w \in Workers : At(w, "yara") =>
    /\ path # << >>
    /\ path[Len(path)] = run[w].id
    /\ volumes[run[w].id] = "attached"

(* "EBS snapshots are always deleted in finally" (side_scanning.py:18):    *)
(* a snapshot no attempt holds is the trace of a fault, one for each.      *)
Held(i) == \E w \in Workers : run[w].id = i
NoSnapshotLeak == Cardinality({i \in snapshots : ~Held(i)}) <= outages + errors

(* "a mount failure never leaks a volume" (side_scanning.py:20): a volume  *)
(* no attempt holds is the trace of a fault; a failed YARA step is none.   *)
NoVolumeLeak ==
  Cardinality({i \in Ids : volumes[i] # "none" /\ ~Held(i)}) <= outages + errors

(* A snapshot under analysis exists until its own attempt deletes it: the  *)
(* cleanup looks at nothing but dates, and an attempt is killed before any *)
(* snapshot it made can expire.                                            *)
SnapshotOutlivesScan ==
  \A w \in Workers : run[w].snap => run[w].id \in snapshots

(* A job is failed only when nothing will try it again ("job falho NUNCA e *)
(* completed", side_scanning.py:568): it stays failed, unless an outage    *)
(* made a second copy of its message.                                      *)
FailedIsFinal ==
  [][\A j \in Jobs : jobs[j] = "failed" /\ outages = 0 => jobs'[j] = "failed"]_vars

(* A job that is queued or running is not forgotten: unless its            *)
(* credentials are refused or an error hit it, a message for it waits or   *)
(* an attempt that will still settle or retry it is under way.  Crashes    *)
(* and redeliveries alone never leave it queued or running for good.       *)
Pending(w) ==
  \/ run[w].pc \in {"prepare", "snapshot", "wait", "trivy", "persist"} \cup YaraSteps
  \/ run[w].pc \in CleanupSteps /\ run[w].ok

NoJobLost ==
  \A j \in Jobs \ Denied : jobs[j] \in {"queued", "running"} =>
    \/ errors > 0
    \/ \E m \in Message : m.job = j /\ queue[m] > 0
    \/ \E w \in Workers : Pending(w) /\ Job(w) = j

(* "what makes that job doc actually reach a terminal status"              *)
(* (side_scanning.py:484): a job that was queued reaches a final status.   *)
JobReachesTerminal ==
  \A j \in Jobs : (jobs[j] = "queued") ~> (jobs[j] \in Terminal)

=============================================================================
