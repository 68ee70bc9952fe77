------------------------------ MODULE CspmScan ------------------------------
(***************************************************************************)
(* The life of a CSPM scan: its dispatch, its at-least-once delivery by    *)
(* Celery, the Redis lock that serialises the scans of one provider, and   *)
(* the job document each attempt leaves in scan_jobs.                      *)
(*                                                                         *)
(* Source: workers/tasks/cspm_scan.py (run_cspm_scan), celery_app.py (late *)
(* acknowledgement, rejection when a worker is lost), scheduling.py and    *)
(* api/v1/scans.py (the two dispatchers).  What the body of a scan does to *)
(* findings and inventory is the subject of CspmInventory.                 *)
(*                                                                         *)
(* One tenant: the lock key is (tenant, provider_id) and tenants share     *)
(* nothing.  The only clock is the TTL of the lock, in hours; nothing in    *)
(* the code bounds a scan, so a message may outlive the visibility timeout *)
(* of the broker (one hour, shorter than the lock's TTL) at any moment.    *)
(***************************************************************************)
EXTENDS Naturals, Sequences, FiniteSets

CONSTANTS
  Tasks,       \* Celery task ids, one per dispatch of run_cspm_scan
  Providers,   \* provider ids of the tenant
  ProviderOf,  \* the provider_id in the kwargs of each task
  Workers,     \* worker processes
  NoMessage,   \* what an idle worker holds
  LockTtl,     \* _CSPM_LOCK_TTL_SECONDS
  MaxRetries,  \* max_retries of the task
  MaxFaults    \* bound on the faults of a behaviour: outages plus errors

(* A message is one attempt of a task: Celery's retry republishes the same *)
(* task id with the next retry count.                                      *)
Message == [task : Tasks, retries : 0..MaxRetries]

ASSUME ScanAssumption ==
  /\ ProviderOf \in [Tasks -> Providers]
  /\ NoMessage \notin Message
  /\ LockTtl \in Nat \ {0}
  /\ MaxRetries \in Nat
  /\ MaxFaults \in Nat

VARIABLES
  dispatched,  \* the tasks that were sent
  queue,       \* how many copies of each message wait in the broker
  run,         \* what each worker process is doing
  lock,        \* hours the lock of a provider has left; 0 when absent
  jobs,        \* per task, the status of the job documents it inserted
  outages,     \* crashed workers and broker redeliveries so far
  errors,      \* exceptions outside the retried region, and lost writes
  overruns     \* history: per provider, how often its lock expired under a
               \* scan since one last began while no other was under way

vars == <<dispatched, queue, run, lock, jobs, outages, errors, overruns>>

faults == <<outages, errors>>

Terminal == {"completed", "failed", "skipped"}
JobStatus == Terminal \cup {"running"}

Idle == [pc |-> "idle", msg |-> NoMessage, job |-> 0, unacked |-> FALSE]

Run ==
  [pc : {"lock", "setup", "scan", "release", "ack"}, msg : Message, job : Nat,
   unacked : BOOLEAN]

TypeOK ==
  /\ dispatched \subseteq Tasks
  /\ queue \in [Message -> Nat]
  /\ run \in [Workers -> Run \cup {Idle}]
  /\ lock \in [Providers -> 0..LockTtl]
  /\ jobs \in [Tasks -> Seq(JobStatus)]
  /\ outages \in Nat
  /\ errors \in Nat
  /\ overruns \in [Providers -> Nat]

Init ==
  /\ dispatched = {}
  /\ queue = [m \in Message |-> 0]
  /\ run = [w \in Workers |-> Idle]
  /\ lock = [p \in Providers |-> 0]
  /\ jobs = [t \in Tasks |-> << >>]
  /\ outages = 0
  /\ errors = 0
  /\ overruns = [p \in Providers |-> 0]

-----------------------------------------------------------------------------
(* Helpers                                                                 *)

Task(w) == run[w].msg.task
Provider(w) == ProviderOf[Task(w)]

(* The worker is between a successful SET NX and the DELETE in the finally *)
(* block: the region the lock is there to make exclusive.                  *)
InBody(w) == run[w].pc \in {"setup", "scan", "release"}
Scanners(p) == {w \in Workers : InBody(w) /\ Provider(w) = p}

GoTo(w, pc) == run' = [run EXCEPT ![w].pc = pc]

Publish(m) == queue' = [queue EXCEPT ![m] = @ + 1]

CountOutage ==
  /\ outages + errors < MaxFaults
  /\ outages' = outages + 1
  /\ UNCHANGED errors

CountError ==
  /\ outages + errors < MaxFaults
  /\ errors' = errors + 1
  /\ UNCHANGED outages

(* _update_job swallows the exception of a failed write: the document then *)
(* keeps the status it had.                                                *)
UpdateJob(w, status) ==
  \/ /\ jobs' = [jobs EXCEPT ![Task(w)][run[w].job] = status]
     /\ UNCHANGED faults
  \/ /\ CountError
     /\ UNCHANGED jobs

-----------------------------------------------------------------------------
(* Dispatch and delivery                                                   *)

(* trigger_all_cspm_scans (every six hours) and POST /scans send the same  *)
(* message; neither looks at the lock.                                     *)
Dispatch(t) ==
  /\ t \notin dispatched
  /\ dispatched' = dispatched \cup {t}
  /\ Publish([task |-> t, retries |-> 0])
  /\ UNCHANGED <<run, lock, jobs, faults, overruns>>

(* An idle worker takes a message; with task_acks_late it stays unacked    *)
(* until the task ends.                                                    *)
Deliver(w, m) ==
  /\ run[w] = Idle
  /\ queue[m] > 0
  /\ queue' = [queue EXCEPT ![m] = @ - 1]
  /\ run' = [run EXCEPT ![w] = [pc |-> "lock", msg |-> m, job |-> 0,
                                unacked |-> TRUE]]
  /\ UNCHANGED <<dispatched, lock, jobs, faults, overruns>>

(* The task has ended, with a value or an exception: the message is acked. *)
Ack(w) ==
  /\ run[w].pc = "ack"
  /\ run' = [run EXCEPT ![w] = Idle]
  /\ UNCHANGED <<dispatched, queue, lock, jobs, faults, overruns>>

(* The worker process dies.  task_reject_on_worker_lost puts its message   *)
(* back, unless the broker already did; nobody releases the lock.          *)
Crash(w) ==
  /\ run[w] # Idle
  /\ CountOutage
  /\ IF run[w].unacked THEN Publish(run[w].msg) ELSE UNCHANGED queue
  /\ run' = [run EXCEPT ![w] = Idle]
  /\ UNCHANGED <<dispatched, lock, jobs, overruns>>

(* Redis restores a message that stayed unacked past the visibility        *)
(* timeout, although its worker is alive and goes on.                      *)
Redeliver(w) ==
  /\ run[w] # Idle
  /\ run[w].unacked
  /\ CountOutage
  /\ Publish(run[w].msg)
  /\ run' = [run EXCEPT ![w].unacked = FALSE]
  /\ UNCHANGED <<dispatched, lock, jobs, overruns>>

-----------------------------------------------------------------------------
(* run_cspm_scan                                                           *)

(* A scan begins that shares the provider with no other: what its          *)
(* predecessors overran no longer counts.                                  *)
StartAfresh(p) ==
  overruns' = [overruns EXCEPT ![p] = IF Scanners(p) = {} THEN 0 ELSE @]

(* SET lock_key "1" NX EX ttl succeeds.                                    *)
Acquire(w) ==
  /\ run[w].pc = "lock"
  /\ lock[Provider(w)] = 0
  /\ lock' = [lock EXCEPT ![Provider(w)] = LockTtl]
  /\ GoTo(w, "setup")
  /\ StartAfresh(Provider(w))
  /\ UNCHANGED <<dispatched, queue, jobs, faults>>

(* Variants: a skip that leaves no document, as in the discovery tasks;    *)
(* one whose document keeps ScanJob's default status; and one that runs    *)
(* the finally block of the scan it did not start.                         *)
SkipSilently(w) ==
  /\ run[w].pc = "lock"
  /\ lock[Provider(w)] > 0
  /\ GoTo(w, "ack")
  /\ UNCHANGED <<dispatched, queue, lock, jobs, faults, overruns>>

SkipQueued(w) ==
  /\ run[w].pc = "lock"
  /\ lock[Provider(w)] > 0
  /\ jobs' = [jobs EXCEPT ![Task(w)] = Append(@, "queued")]
  /\ GoTo(w, "ack")
  /\ UNCHANGED <<dispatched, queue, lock, faults, overruns>>

SkipReleasing(w) ==
  /\ run[w].pc = "lock"
  /\ lock[Provider(w)] > 0
  /\ jobs' = [jobs EXCEPT ![Task(w)] = Append(@, "skipped")]
  /\ lock' = [lock EXCEPT ![Provider(w)] = 0]
  /\ GoTo(w, "ack")
  /\ UNCHANGED <<dispatched, queue, faults, overruns>>

(* The key exists: a SKIPPED document is inserted and the task returns.    *)
Skip(w) ==
  /\ run[w].pc = "lock"
  /\ lock[Provider(w)] > 0
  /\ jobs' = [jobs EXCEPT ![Task(w)] = Append(@, "skipped")]
  /\ GoTo(w, "ack")
  /\ UNCHANGED <<dispatched, queue, lock, faults, overruns>>

(* Redis, the database or the SKIPPED insert raises before the try block:  *)
(* the task ends with no document and no retry.  A SET whose answer timed  *)
(* out may have taken the lock all the same.                               *)
AbortEarly(w) ==
  /\ run[w].pc = "lock"
  /\ CountError
  /\ \/ UNCHANGED lock
     \/ /\ lock[Provider(w)] = 0
        /\ lock' = [lock EXCEPT ![Provider(w)] = LockTtl]
  /\ GoTo(w, "ack")
  /\ UNCHANGED <<dispatched, queue, jobs, overruns>>

(* The schema, the credentials (the provider may be gone) or the insert    *)
(* raises before the inner try: no retry, but the finally block runs.      *)
SetupFails(w) ==
  /\ run[w].pc = "setup"
  /\ CountError
  /\ GoTo(w, "release")
  /\ UNCHANGED <<dispatched, queue, lock, jobs, overruns>>

(* Variant: the document is keyed by the task id, so that an attempt takes *)
(* over the document of the one before it.                                 *)
StartJobReusing(w) ==
  /\ run[w].pc = "setup"
  /\ jobs' = [jobs EXCEPT ![Task(w)] = <<"running">>]
  /\ run' = [run EXCEPT ![w] = [@ EXCEPT !.pc = "scan", !.job = 1]]
  /\ UNCHANGED <<dispatched, queue, lock, faults, overruns>>

(* Each attempt inserts a RUNNING document under a fresh uuid.             *)
StartJob(w) ==
  /\ run[w].pc = "setup"
  /\ jobs' = [jobs EXCEPT ![Task(w)] = Append(@, "running")]
  /\ run' = [run EXCEPT ![w] = [@ EXCEPT !.pc = "scan", !.job = Len(jobs[Task(w)]) + 1]]
  /\ UNCHANGED <<dispatched, queue, lock, faults, overruns>>

ScanSucceeds(w) ==
  /\ run[w].pc = "scan"
  /\ UpdateJob(w, "completed")
  /\ GoTo(w, "release")
  /\ UNCHANGED <<dispatched, queue, lock, overruns>>

(* Variants: a failure that leaves its document running while it retries;  *)
(* and a retry that does not count.                                        *)
ScanFailsRunning(w) ==
  /\ run[w].pc = "scan"
  /\ IF run[w].msg.retries < MaxRetries
     THEN /\ Publish([run[w].msg EXCEPT !.retries = @ + 1])
          /\ UNCHANGED <<jobs, faults>>
     ELSE /\ UpdateJob(w, "failed")
          /\ UNCHANGED queue
  /\ GoTo(w, "release")
  /\ UNCHANGED <<dispatched, lock, overruns>>

ScanFailsForever(w) ==
  /\ run[w].pc = "scan"
  /\ UpdateJob(w, "failed")
  /\ Publish(run[w].msg)
  /\ GoTo(w, "release")
  /\ UNCHANGED <<dispatched, lock, overruns>>

(* Any exception marks the job FAILED and calls self.retry, which          *)
(* republishes the task until max_retries is spent.                        *)
ScanFails(w) ==
  /\ run[w].pc = "scan"
  /\ UpdateJob(w, "failed")
  /\ IF run[w].msg.retries < MaxRetries
     THEN Publish([run[w].msg EXCEPT !.retries = @ + 1])
     ELSE UNCHANGED queue
  /\ GoTo(w, "release")
  /\ UNCHANGED <<dispatched, lock, overruns>>

(* The broker refuses the retry: the exception ends the task all the same. *)
RetryUnsent(w) ==
  /\ run[w].pc = "scan"
  /\ run[w].msg.retries < MaxRetries
  /\ jobs' = [jobs EXCEPT ![Task(w)][run[w].job] = "failed"]
  /\ CountError
  /\ GoTo(w, "release")
  /\ UNCHANGED <<dispatched, queue, lock, overruns>>

(* The finally block deletes the key whoever set it; a failed DELETE is    *)
(* only logged.                                                            *)
Release(w) ==
  /\ run[w].pc = "release"
  /\ \/ /\ lock' = [lock EXCEPT ![Provider(w)] = 0]
        /\ UNCHANGED faults
     \/ /\ CountError
        /\ UNCHANGED lock
  /\ GoTo(w, "ack")
  /\ UNCHANGED <<dispatched, queue, jobs, overruns>>

-----------------------------------------------------------------------------
(* Variant: SET without EX, a lock that never expires.                     *)
TickNoExpiry ==
  /\ \E p \in Providers : lock[p] > 0
  /\ UNCHANGED vars

(* An hour passes: Redis counts the TTL of each lock down.  The lock may   *)
(* run out under a scan.                                                   *)
Tick ==
  /\ \E p \in Providers : lock[p] > 0
  /\ lock' = [p \in Providers |-> IF lock[p] > 0 THEN lock[p] - 1 ELSE 0]
  /\ overruns' = [p \in Providers |->
       IF lock[p] = 1 /\ Scanners(p) # {} THEN overruns[p] + 1 ELSE overruns[p]]
  /\ UNCHANGED <<dispatched, queue, run, jobs, faults>>

Worker(w) ==
  \/ Acquire(w) \/ Skip(w) \/ AbortEarly(w)
  \/ SetupFails(w) \/ StartJob(w)
  \/ ScanSucceeds(w) \/ ScanFails(w) \/ RetryUnsent(w)
  \/ Release(w) \/ Ack(w)

Next ==
  \/ \E t \in Tasks : Dispatch(t)
  \/ \E w \in Workers, m \in Message : Deliver(w, m)
  \/ \E w \in Workers : Worker(w)
  \/ \E w \in Workers : Crash(w) \/ Redeliver(w)
  \/ Tick

Spec == Init /\ [][Next]_vars

(* Workers that are alive make progress, an idle worker serves the queue,  *)
(* and Redis' clock runs.  Nothing makes a task be dispatched.             *)
Fairness ==
  /\ \A w \in Workers : WF_vars(Worker(w))
  /\ \A m \in Message : WF_vars(\E w \in Workers : Deliver(w, m))
  /\ WF_vars(Tick)

FairSpec == Spec /\ Fairness

-----------------------------------------------------------------------------
(* Properties                                                              *)

(* Scans of one provider are never under way together, unless the lock     *)
(* expired under one of them: the part of "nunca rodam em paralelo"        *)
(* (cspm_scan.py:288) that the TTL lets stand.  An overrun costs one more  *)
(* scan beside the others, though the scan that overran goes on to delete   *)
(* the lock of its successor, and it costs that only as long as the        *)
(* provider is never without a scan: whatever crashes, is redelivered or   *)
(* fails to release, exclusion is back with the next scan that starts      *)
(* alone.                                                                  *)
OneScanPerProvider ==
  \A p \in Providers : Cardinality(Scanners(p)) <= 1 + overruns[p]

(* A document is left "running" with nobody scanning only by a fault: an   *)
(* attempt that fails and is retried settles its own document first.       *)
RunningJobs ==
  UNION {{<<t, i>> : i \in {j \in DOMAIN jobs[t] : jobs[t][j] = "running"}} : t \in Tasks}
LiveJobs == {<<Task(w), run[w].job>> : w \in {v \in Workers : run[v].pc = "scan"}}
StuckJobsAreFaults == Cardinality(RunningJobs \ LiveJobs) <= outages + errors

(* A scan that keeps failing stops: a task makes at most 1 + max_retries   *)
(* attempts, and as many again for each time its message was redelivered.  *)
RetryBudget ==
  \A t \in Tasks : Len(jobs[t]) <= (1 + MaxRetries) * (1 + outages)

(* A document that reached a final status keeps it, and none disappears:   *)
(* no attempt, retry or redelivery writes to the document of another.      *)
JobsSettleOnce ==
  [][\A t \in Tasks : \A i \in DOMAIN jobs[t] :
       /\ i \in DOMAIN jobs'[t]
       /\ jobs[t][i] \in Terminal => jobs'[t][i] = jobs[t][i]]_vars

(* "TTL cobre worker morto" (cspm_scan.py:288): a lock that is held is     *)
(* free again later, though its owner died or failed to delete it.         *)
LockComesFree == \A p \in Providers : (lock[p] > 0) ~> (lock[p] = 0)

(* A dispatched scan leaves a document in a final status, completed,       *)
(* failed or skipped, unless an error outside the retried region hit it:   *)
(* crashes and redeliveries alone never lose a task.                       *)
EveryTaskAnswered ==
  \A t \in Tasks :
    (t \in dispatched) ~>
      \/ \E i \in DOMAIN jobs[t] : jobs[t][i] \in Terminal
      \/ errors > 0

=============================================================================
