--------------------------- MODULE CspmScanProofs ---------------------------
(***************************************************************************)
(* Theorems about CspmScan, for every number of tasks, providers, workers, *)
(* retries and faults and every TTL of the lock.                           *)
(***************************************************************************)
EXTENDS CspmScan, TLAPS, FiniteSetTheorems

(* Writing an element of S anywhere into a sequence over S gives one.      *)
LEMMA ExceptInSeq ==
  ASSUME NEW S, NEW s \in Seq(S), NEW i, NEW e \in S
  PROVE  [s EXCEPT ![i] = e] \in Seq(S)
<1>1. s \in [1..Len(s) -> S] /\ Len(s) \in Nat
  OBVIOUS
<1>2. [s EXCEPT ![i] = e] \in [1..Len(s) -> S]
  BY <1>1
<1> QED
  BY <1>1, <1>2

(* A busy worker holds a message, whose task has a provider.               *)
LEMMA BusyWorker ==
  ASSUME TypeOK, NEW w \in Workers, run[w].pc # "idle"
  PROVE  /\ run[w] \in Run
         /\ run[w].msg \in Message
         /\ Task(w) \in Tasks
         /\ Provider(w) \in Providers
<1>1. run[w] \in Run
  BY DEF TypeOK, Idle
<1> QED
  BY <1>1, ScanAssumption DEF Run, Message, Task, Provider

(* Moving a busy worker to another control point keeps run well typed.     *)
LEMMA GoToTyped ==
  ASSUME TypeOK, NEW w \in Workers, run[w].pc # "idle",
         NEW pc \in {"lock", "setup", "scan", "release", "ack"}, GoTo(w, pc)
  PROVE  run' \in [Workers -> Run \cup {Idle}]
<1>1. run[w] \in Run
  BY BusyWorker
<1>2. [run[w] EXCEPT !.pc = pc] \in Run
  BY <1>1 DEF Run
<1> QED
  BY <1>2 DEF TypeOK, GoTo

(* Writing a status to the job document of a worker keeps jobs well typed. *)
LEMMA JobWritten ==
  ASSUME TypeOK, NEW w \in Workers, NEW status \in JobStatus,
         jobs' = [jobs EXCEPT ![Task(w)][run[w].job] = status]
  PROVE  jobs' \in [Tasks -> Seq(JobStatus)]
<1>1. ASSUME Task(w) \in Tasks
      PROVE  [jobs[Task(w)] EXCEPT ![run[w].job] = status] \in Seq(JobStatus)
  <2>1. jobs[Task(w)] \in Seq(JobStatus)
    BY <1>1 DEF TypeOK
  <2> QED
    BY <2>1, ExceptInSeq
<1> QED
  BY <1>1 DEF TypeOK

LEMMA UpdateJobTyped ==
  ASSUME TypeOK, NEW w \in Workers, NEW status \in JobStatus, UpdateJob(w, status)
  PROVE  /\ jobs' \in [Tasks -> Seq(JobStatus)]
         /\ outages' \in Nat
         /\ errors' \in Nat
<1>1. CASE jobs' = [jobs EXCEPT ![Task(w)][run[w].job] = status] /\ UNCHANGED faults
  BY <1>1, JobWritten DEF TypeOK, faults
<1>2. CASE CountError /\ UNCHANGED jobs
  BY <1>2 DEF TypeOK, CountError
<1> QED
  BY <1>1, <1>2 DEF UpdateJob

LEMMA PublishTyped ==
  ASSUME TypeOK, NEW m \in Message, Publish(m)
  PROVE  queue' \in [Message -> Nat]
BY DEF TypeOK, Publish

LEMMA NextAttempt ==
  ASSUME NEW m \in Message, m.retries < MaxRetries
  PROVE  [m EXCEPT !.retries = @ + 1] \in Message
BY ScanAssumption DEF Message

(* Every variable keeps its type: no step publishes a message that is not  *)
(* an attempt of a task, or writes a status a document cannot have.        *)
LEMMA TypeStep ==
  ASSUME TypeOK, [Next]_vars
  PROVE  TypeOK'
<1>1. ASSUME NEW t \in Tasks, Dispatch(t)
      PROVE  TypeOK'
  <2>1. [task |-> t, retries |-> 0] \in Message
    BY ScanAssumption DEF Message
  <2>2. queue' \in [Message -> Nat]
    BY <1>1, <2>1, PublishTyped DEF Dispatch
  <2> QED
    BY <1>1, <2>2 DEF Dispatch, TypeOK, faults
<1>2. ASSUME NEW w \in Workers, NEW m \in Message, Deliver(w, m)
      PROVE  TypeOK'
  <2>1. [pc |-> "lock", msg |-> m, job |-> 0, unacked |-> TRUE] \in Run
    BY DEF Run
  <2>2. queue' \in [Message -> Nat]
    BY <1>2 DEF Deliver, TypeOK
  <2> QED
    BY <1>2, <2>1, <2>2 DEF Deliver, TypeOK, faults
<1>3. ASSUME NEW w \in Workers, Acquire(w)
      PROVE  TypeOK'
  <2>1. run' \in [Workers -> Run \cup {Idle}]
    BY <1>3, GoToTyped DEF Acquire
  <2>2. lock' \in [Providers -> 0..LockTtl]
    BY <1>3, BusyWorker, ScanAssumption DEF Acquire, TypeOK
  <2>3. overruns' \in [Providers -> Nat]
    BY <1>3 DEF Acquire, StartAfresh, TypeOK
  <2> QED
    BY <1>3, <2>1, <2>2, <2>3 DEF Acquire, TypeOK, faults
<1>4. ASSUME NEW w \in Workers, Skip(w)
      PROVE  TypeOK'
  <2>1. run' \in [Workers -> Run \cup {Idle}]
    BY <1>4, GoToTyped DEF Skip
  <2>2. jobs' \in [Tasks -> Seq(JobStatus)]
    <3>1. Task(w) \in Tasks
      BY <1>4, BusyWorker DEF Skip
    <3>2. jobs[Task(w)] \in Seq(JobStatus) /\ "skipped" \in JobStatus
      BY <3>1 DEF TypeOK, JobStatus, Terminal
    <3>3. Append(jobs[Task(w)], "skipped") \in Seq(JobStatus)
      BY <3>2
    <3> QED
      BY <1>4, <3>3 DEF Skip, TypeOK
  <2> QED
    BY <1>4, <2>1, <2>2 DEF Skip, TypeOK, faults
<1>5. ASSUME NEW w \in Workers, AbortEarly(w)
      PROVE  TypeOK'
  <2>1. run' \in [Workers -> Run \cup {Idle}]
    BY <1>5, GoToTyped DEF AbortEarly
  <2>2. lock' \in [Providers -> 0..LockTtl]
    BY <1>5, BusyWorker, ScanAssumption DEF AbortEarly, TypeOK
  <2> QED
    BY <1>5, <2>1, <2>2 DEF AbortEarly, TypeOK, CountError
<1>6. ASSUME NEW w \in Workers, SetupFails(w)
      PROVE  TypeOK'
  <2>1. run' \in [Workers -> Run \cup {Idle}]
    BY <1>6, GoToTyped DEF SetupFails
  <2> QED
    BY <1>6, <2>1 DEF SetupFails, TypeOK, CountError
<1>7. ASSUME NEW w \in Workers, StartJob(w)
      PROVE  TypeOK'
  <2>1. run[w] \in Run /\ Task(w) \in Tasks
    BY <1>7, BusyWorker DEF StartJob
  <2>2. jobs[Task(w)] \in Seq(JobStatus)
    BY <2>1 DEF TypeOK
  <2>3. [run[w] EXCEPT !.pc = "scan", !.job = Len(jobs[Task(w)]) + 1] \in Run
    <3>1. Len(jobs[Task(w)]) + 1 \in Nat
      BY <2>2
    <3>2. ASSUME NEW n \in Nat
          PROVE  [run[w] EXCEPT !.pc = "scan", !.job = n] \in Run
      BY <2>1 DEF Run
    <3> QED
      BY <3>1, <3>2
  <2>4. jobs' \in [Tasks -> Seq(JobStatus)]
    <3>1. "running" \in JobStatus
      BY DEF JobStatus
    <3>2. Append(jobs[Task(w)], "running") \in Seq(JobStatus)
      BY <2>2, <3>1
    <3> QED
      BY <1>7, <3>2 DEF StartJob, TypeOK
  <2> QED
    BY <1>7, <2>3, <2>4 DEF StartJob, TypeOK, faults
<1>8. ASSUME NEW w \in Workers, ScanSucceeds(w)
      PROVE  TypeOK'
  <2>1. run' \in [Workers -> Run \cup {Idle}]
    BY <1>8, GoToTyped DEF ScanSucceeds
  <2>2. "completed" \in JobStatus
    BY DEF JobStatus, Terminal
  <2>3. jobs' \in [Tasks -> Seq(JobStatus)] /\ outages' \in Nat /\ errors' \in Nat
    BY <1>8, <2>2, UpdateJobTyped DEF ScanSucceeds
  <2> QED
    BY <1>8, <2>1, <2>3 DEF ScanSucceeds, TypeOK
<1>9. ASSUME NEW w \in Workers, ScanFails(w)
      PROVE  TypeOK'
  <2>1. run' \in [Workers -> Run \cup {Idle}]
    BY <1>9, GoToTyped DEF ScanFails
  <2>2. "failed" \in JobStatus
    BY DEF JobStatus, Terminal
  <2>3. jobs' \in [Tasks -> Seq(JobStatus)] /\ outages' \in Nat /\ errors' \in Nat
    BY <1>9, <2>2, UpdateJobTyped DEF ScanFails
  <2>4. run[w].msg \in Message
    BY <1>9, BusyWorker DEF ScanFails
  <2>5. queue' \in [Message -> Nat]
    BY <1>9, <2>4, NextAttempt, PublishTyped DEF ScanFails, TypeOK
  <2> QED
    BY <1>9, <2>1, <2>3, <2>5 DEF ScanFails, TypeOK
<1>10. ASSUME NEW w \in Workers, Release(w)
       PROVE  TypeOK'
  <2>1. run' \in [Workers -> Run \cup {Idle}]
    BY <1>10, GoToTyped DEF Release
  <2>2. lock' \in [Providers -> 0..LockTtl]
    <3> DEFINE T == 0..LockTtl
    <3>l. lock \in [Providers -> T] /\ 0 \in T
      BY ScanAssumption DEF TypeOK
    <3> HIDE DEF T
    <3>1. ASSUME lock' = [lock EXCEPT ![Provider(w)] = 0]
          PROVE  lock' \in [Providers -> T]
      BY <3>l, <3>1
    <3>2. ASSUME UNCHANGED lock
          PROVE  lock' \in [Providers -> T]
      BY <3>l, <3>2
    <3> QED
      BY <1>10, <3>1, <3>2 DEF Release, T
  <2> QED
    BY <1>10, <2>1, <2>2 DEF Release, TypeOK, faults, CountError
<1>11. ASSUME NEW w \in Workers, Ack(w)
       PROVE  TypeOK'
  BY <1>11 DEF Ack, TypeOK, faults
<1>12. ASSUME NEW w \in Workers, Crash(w)
       PROVE  TypeOK'
  <2>1. run[w] \in Run
    BY <1>12 DEF Crash, TypeOK
  <2>2. run[w].msg \in Message
    BY <2>1 DEF Run
  <2>3. queue' \in [Message -> Nat]
    BY <1>12, <2>2, PublishTyped DEF Crash, TypeOK
  <2> QED
    BY <1>12, <2>3 DEF Crash, TypeOK, CountOutage
<1>13. ASSUME NEW w \in Workers, Redeliver(w)
       PROVE  TypeOK'
  <2>1. run[w] \in Run
    BY <1>13 DEF Redeliver, TypeOK
  <2>2. run[w].msg \in Message /\ [run[w] EXCEPT !.unacked = FALSE] \in Run
    BY <2>1 DEF Run
  <2>3. queue' \in [Message -> Nat]
    BY <1>13, <2>2, PublishTyped DEF Redeliver
  <2> QED
    BY <1>13, <2>2, <2>3 DEF Redeliver, TypeOK, CountOutage
<1>14. CASE Tick
  <2>1. lock' \in [Providers -> 0..LockTtl]
    BY <1>14, ScanAssumption DEF Tick, TypeOK
  <2>2. overruns' \in [Providers -> Nat]
    BY <1>14 DEF Tick, TypeOK
  <2> QED
    BY <1>14, <2>1, <2>2 DEF Tick, TypeOK, faults
<1>15. CASE UNCHANGED vars
  BY <1>15 DEF vars, TypeOK
<1>16. ASSUME NEW w \in Workers, RetryUnsent(w)
       PROVE  TypeOK'
  <2>1. run' \in [Workers -> Run \cup {Idle}]
    BY <1>16, GoToTyped DEF RetryUnsent
  <2>2. "failed" \in JobStatus
    BY DEF JobStatus, Terminal
  <2>3. jobs' \in [Tasks -> Seq(JobStatus)]
    BY <1>16, <2>2, JobWritten DEF RetryUnsent
  <2> QED
    BY <1>16, <2>1, <2>3 DEF RetryUnsent, TypeOK, CountError
<1> QED
  BY <1>1, <1>2, <1>3, <1>4, <1>5, <1>6, <1>7, <1>8, <1>9, <1>10, <1>11, <1>12,
     <1>13, <1>14, <1>15, <1>16 DEF Next, Worker

LEMMA TypeInit == Init => TypeOK
BY ScanAssumption DEF Init, TypeOK, JobStatus

(* Type correctness of the scan's life cycle.                              *)
THEOREM TypeCorrect == Spec => []TypeOK
BY TypeInit, TypeStep, PTL DEF Spec

-----------------------------------------------------------------------------
(* Mutual exclusion.  The lock excludes a second scan only while it is     *)
(* held, and nobody but a scan that begins sets it for one: so a provider  *)
(* without its lock has room for a scan, and the scans under way are no    *)
(* more than there were overruns.  Without that part neither Acquire nor   *)
(* the unconditional DELETE of Release could be shown to be safe.          *)

Overlap(p) ==
  /\ IsFiniteSet(Scanners(p))
  /\ Cardinality(Scanners(p)) <= 1 + overruns[p]
  /\ lock[p] = 0 => Cardinality(Scanners(p)) <= overruns[p]

ExclusionInv == TypeOK /\ \A p \in Providers : Overlap(p)

LEMMA Moved ==
  ASSUME TypeOK, NEW w \in Workers, NEW pc, GoTo(w, pc)
  PROVE  /\ run'[w].pc = pc
         /\ run'[w].msg = run[w].msg
         /\ \A v \in Workers \ {w} : run'[v] = run[v]
<1>1. run[w] \in Run \cup {Idle}
  BY DEF TypeOK
<1> QED
  BY <1>1 DEF TypeOK, GoTo, Run, Idle

LEMMA OneFewer ==
  ASSUME NEW S, NEW w \in S, NEW T, IsFiniteSet(S), T \subseteq S \ {w}
  PROVE  IsFiniteSet(T) /\ Cardinality(T) + 1 <= Cardinality(S)
<1>1. IsFiniteSet(S \ {w}) /\ Cardinality(S \ {w}) = Cardinality(S) - 1
  BY FS_RemoveElement
<1>2. IsFiniteSet(T) /\ Cardinality(T) <= Cardinality(S \ {w})
  BY <1>1, FS_Subset
<1>3. Cardinality(S) \in Nat /\ Cardinality(T) \in Nat
  BY <1>2, FS_CardinalityType
<1> QED
  BY <1>1, <1>2, <1>3

(* A provider that gains no scan keeps the invariant if its lock is not    *)
(* taken away.                                                             *)
LEMMA NoMoreScans ==
  ASSUME TypeOK, NEW p \in Providers, Overlap(p),
         Scanners(p)' \subseteq Scanners(p),
         overruns'[p] = overruns[p],
         lock'[p] = 0 => lock[p] = 0
  PROVE  Overlap(p)'
<1>1. /\ IsFiniteSet(Scanners(p)')
      /\ Cardinality(Scanners(p)') <= Cardinality(Scanners(p))
  BY FS_Subset DEF Overlap
<1>2. Cardinality(Scanners(p)') \in Nat /\ Cardinality(Scanners(p)) \in Nat
  BY <1>1, FS_CardinalityType DEF Overlap
<1>3. overruns[p] \in Nat
  BY DEF TypeOK
<1> QED
  BY <1>1, <1>2, <1>3 DEF Overlap

(* The scans of a provider change only with the workers in the body.       *)
LEMMA NobodyEnters ==
  ASSUME ExclusionInv, UNCHANGED overruns,
         \A v \in Workers : InBody(v)' => InBody(v) /\ Provider(v)' = Provider(v),
         \A p \in Providers : lock'[p] = 0 => lock[p] = 0
  PROVE  \A p \in Providers : Overlap(p)'
<1>1. \A p : Scanners(p)' \subseteq Scanners(p)
  BY DEF Scanners
<1> QED
  BY <1>1, NoMoreScans DEF ExclusionInv

LEMMA StaysOut ==
  ASSUME ExclusionInv, NEW w \in Workers,
         \A v \in Workers \ {w} : run'[v] = run[v],
         InBody(w)' => InBody(w) /\ run'[w].msg = run[w].msg,
         UNCHANGED <<lock, overruns>>
  PROVE  \A p \in Providers : Overlap(p)'
<1>1. \A v \in Workers : InBody(v)' => InBody(v) /\ Provider(v)' = Provider(v)
  BY DEF InBody, Provider, Task
<1> QED
  BY <1>1, NobodyEnters

LEMMA ExclusionStep ==
  ASSUME ExclusionInv, [Next]_vars
  PROVE  ExclusionInv'
<1> USE DEF ExclusionInv
<1> DEFINE Goal == \A p \in Providers : Overlap(p)
<1>t. TypeOK'
  BY TypeStep
<1>1. ASSUME (\E t \in Tasks : Dispatch(t)) \/ UNCHANGED vars
      PROVE  Goal'
  <2>1. UNCHANGED <<run, lock, overruns>>
    BY <1>1 DEF Dispatch, vars
  <2> QED
    BY <2>1, NobodyEnters DEF InBody, Provider, Task
<1>2. ASSUME NEW w \in Workers, NEW m \in Message, Deliver(w, m)
      PROVE  Goal'
  <2>1. \A v \in Workers \ {w} : run'[v] = run[v]
    BY <1>2 DEF Deliver, TypeOK
  <2>2. ~InBody(w)'
    BY <1>2 DEF Deliver, TypeOK, InBody
  <2> QED
    BY <1>2, <2>1, <2>2, StaysOut DEF Deliver
<1>3. ASSUME NEW w \in Workers, Acquire(w)
      PROVE  Goal'
  <2>1. run[w].pc = "lock" /\ GoTo(w, "setup")
    BY <1>3 DEF Acquire
  <2>2. /\ Provider(w) \in Providers /\ Provider(w)' = Provider(w)
        /\ ~InBody(w) /\ InBody(w)'
    BY <2>1, BusyWorker, Moved DEF Provider, Task, InBody
  <2>3. \A v \in Workers \ {w} :
          (InBody(v)' <=> InBody(v)) /\ Provider(v)' = Provider(v)
    BY <2>1, Moved DEF InBody, Provider, Task
  <2>4. \A p \in Providers \ {Provider(w)} : lock'[p] = lock[p] /\ overruns'[p] = overruns[p]
    BY <1>3 DEF Acquire, StartAfresh, TypeOK
  <2>5. \A p \in Providers \ {Provider(w)} : Scanners(p)' = Scanners(p)
    BY <2>2, <2>3 DEF Scanners
  <2>6. \A p \in Providers \ {Provider(w)} : Overlap(p)'
    BY <2>4, <2>5, NoMoreScans
  <2> DEFINE S == Scanners(Provider(w))
  <2>7. w \notin S /\ S' = S \cup {w}
    BY <2>2, <2>3 DEF Scanners
  <2>8. IsFiniteSet(S) /\ Cardinality(S) <= overruns[Provider(w)]
    BY <1>3, <2>2 DEF Acquire, Overlap
  <2>9. IsFiniteSet(S') /\ Cardinality(S') = Cardinality(S) + 1
    BY <2>7, <2>8, FS_AddElement
  <2>10. overruns'[Provider(w)] = IF S = {} THEN 0 ELSE overruns[Provider(w)]
    BY <1>3, <2>2 DEF Acquire, StartAfresh, TypeOK
  <2>11. S = {} => Cardinality(S) = 0
    BY FS_EmptySet
  <2>12. Cardinality(S) \in Nat /\ overruns[Provider(w)] \in Nat
    BY <2>2, <2>8, FS_CardinalityType DEF TypeOK
  <2>13. Cardinality(S') <= 1 + overruns'[Provider(w)]
    BY <2>8, <2>9, <2>10, <2>11, <2>12
  <2>14. lock'[Provider(w)] = LockTtl /\ LockTtl # 0
    BY <1>3, <2>2, ScanAssumption DEF Acquire, TypeOK
  <2>15. Overlap(Provider(w))'
    BY <2>2, <2>9, <2>13, <2>14 DEF Overlap
  <2> QED
    BY <2>2, <2>6, <2>15
<1>4. ASSUME NEW w \in Workers, Skip(w)
      PROVE  Goal'
  <2>1. ~InBody(w)'
    BY <1>4, Moved DEF Skip, InBody
  <2> QED
    BY <1>4, <2>1, Moved, StaysOut DEF Skip
<1>5. ASSUME NEW w \in Workers, AbortEarly(w)
      PROVE  Goal'
  <2>1. run[w].pc = "lock" /\ GoTo(w, "ack") /\ UNCHANGED overruns
    BY <1>5 DEF AbortEarly
  <2>2. \A v \in Workers :
          InBody(v)' => InBody(v) /\ Provider(v)' = Provider(v)
    BY <2>1, Moved DEF InBody, Provider, Task
  <2>3. \A p \in Providers : lock'[p] = 0 => lock[p] = 0
    <3>1. CASE UNCHANGED lock
      BY <3>1
    <3>2. CASE lock' = [lock EXCEPT ![Provider(w)] = LockTtl]
      BY <3>2, ScanAssumption DEF TypeOK
    <3> QED
      BY <1>5, <3>1, <3>2 DEF AbortEarly
  <2> QED
    BY <2>1, <2>2, <2>3, NobodyEnters
<1>6. ASSUME NEW w \in Workers, SetupFails(w)
      PROVE  Goal'
  <2>1. InBody(w)
    BY <1>6 DEF SetupFails, InBody
  <2> QED
    BY <1>6, <2>1, Moved, StaysOut DEF SetupFails
<1>7. ASSUME NEW w \in Workers, StartJob(w)
      PROVE  Goal'
  <2>1. InBody(w) /\ run[w] \in Run
    BY <1>7, BusyWorker DEF StartJob, InBody
  <2>2. run'[w].msg = run[w].msg
    BY <1>7, <2>1 DEF StartJob, TypeOK, Run
  <2>3. \A v \in Workers \ {w} : run'[v] = run[v]
    BY <1>7 DEF StartJob, TypeOK
  <2> QED
    BY <1>7, <2>1, <2>2, <2>3, StaysOut DEF StartJob
<1>8. ASSUME NEW w \in Workers, ScanSucceeds(w) \/ ScanFails(w) \/ RetryUnsent(w)
      PROVE  Goal'
  <2>1. InBody(w) /\ GoTo(w, "release") /\ UNCHANGED <<lock, overruns>>
    BY <1>8 DEF ScanSucceeds, ScanFails, RetryUnsent, InBody
  <2> QED
    BY <2>1, Moved, StaysOut
<1>9. ASSUME NEW w \in Workers, Release(w)
      PROVE  Goal'
  <2>1. InBody(w) /\ GoTo(w, "ack") /\ UNCHANGED overruns
    BY <1>9 DEF Release, InBody
  <2>2. \A v \in Workers :
          InBody(v)' => v # w /\ InBody(v) /\ Provider(v)' = Provider(v)
    BY <2>1, Moved DEF InBody, Provider, Task
  <2>3. CASE UNCHANGED lock
    BY <2>1, <2>2, <2>3, NobodyEnters
  <2>4. CASE lock' = [lock EXCEPT ![Provider(w)] = 0]
    <3>1. \A p \in Providers \ {Provider(w)} : lock'[p] = lock[p] /\ Scanners(p)' \subseteq Scanners(p)
      BY <2>2, <2>4 DEF TypeOK, Scanners
    <3>2. \A p \in Providers \ {Provider(w)} : Overlap(p)'
      BY <2>1, <3>1, NoMoreScans
    <3>3. Provider(w) \in Providers
      BY <2>1, BusyWorker DEF InBody
    <3> DEFINE S == Scanners(Provider(w))
    <3>4. w \in S /\ S' \subseteq S \ {w}
      <4>1. Provider(w)' = Provider(w)
        BY <2>1, Moved DEF Provider, Task
      <4> QED
        BY <2>1, <2>2, <4>1 DEF Scanners
    <3>5. IsFiniteSet(S) /\ Cardinality(S) <= 1 + overruns[Provider(w)]
      BY <3>3 DEF Overlap
    <3>6. IsFiniteSet(S') /\ Cardinality(S') + 1 <= Cardinality(S)
      BY <3>4, <3>5, OneFewer
    <3>7. /\ Cardinality(S) \in Nat /\ Cardinality(S') \in Nat
          /\ overruns[Provider(w)] \in Nat
      BY <3>3, <3>5, <3>6, FS_CardinalityType DEF TypeOK
    <3>8. Cardinality(S') <= overruns[Provider(w)]
      BY <3>5, <3>6, <3>7
    <3>9. Provider(w)' = Provider(w)
      BY <2>1, Moved DEF Provider, Task
    <3>10. Cardinality(S') <= overruns'[Provider(w)'] /\ overruns'[Provider(w)'] \in Nat
      BY <2>1, <3>7, <3>8, <3>9
    <3>11. Overlap(Provider(w))'
      BY <3>6, <3>7, <3>10 DEF Overlap
    <3> QED
      BY <3>2, <3>9, <3>11
  <2> QED
    BY <1>9, <2>3, <2>4 DEF Release
<1>10. ASSUME NEW w \in Workers, Ack(w) \/ Crash(w)
       PROVE  Goal'
  <2>1. run' = [run EXCEPT ![w] = Idle] /\ UNCHANGED <<lock, overruns>>
    BY <1>10 DEF Ack, Crash
  <2>2. \A v \in Workers \ {w} : run'[v] = run[v]
    BY <2>1 DEF TypeOK
  <2>3. ~InBody(w)'
    BY <2>1 DEF TypeOK, InBody, Idle
  <2> QED
    BY <2>1, <2>2, <2>3, StaysOut
<1>11. ASSUME NEW w \in Workers, Redeliver(w)
       PROVE  Goal'
  <2>1. run[w] \in Run
    BY <1>11 DEF Redeliver, TypeOK
  <2>2. run'[w].msg = run[w].msg /\ run'[w].pc = run[w].pc
    BY <1>11, <2>1 DEF Redeliver, TypeOK, Run
  <2>3. \A v \in Workers \ {w} : run'[v] = run[v]
    BY <1>11 DEF Redeliver, TypeOK
  <2>4. InBody(w)' => InBody(w)
    BY <2>2 DEF InBody
  <2> QED
    BY <1>11, <2>2, <2>3, <2>4, StaysOut DEF Redeliver
<1>12. ASSUME Tick
       PROVE  Goal'
  <2> SUFFICES ASSUME NEW p \in Providers PROVE Overlap(p)'
    OBVIOUS
  <2>1. Scanners(p)' = Scanners(p)
    BY <1>12 DEF Tick, Scanners, InBody, Provider, Task
  <2>2. /\ IsFiniteSet(Scanners(p)) /\ Cardinality(Scanners(p)) \in Nat
        /\ overruns[p] \in Nat /\ lock[p] \in Nat
    BY FS_CardinalityType, ScanAssumption DEF Overlap, TypeOK
  <2>3. CASE lock[p] = 1 /\ Scanners(p) # {}
    <3>1. overruns'[p] = overruns[p] + 1
      BY <1>12, <2>3 DEF Tick
    <3> QED
      BY <2>1, <2>2, <3>1 DEF Overlap
  <2>4. CASE Scanners(p) = {}
    <3>1. Cardinality(Scanners(p)) = 0 /\ overruns'[p] = overruns[p]
      BY <1>12, <2>4, FS_EmptySet DEF Tick
    <3> QED
      BY <2>1, <2>2, <3>1 DEF Overlap
  <2>5. CASE lock[p] # 1
    <3>1. overruns'[p] = overruns[p] /\ (lock'[p] = 0 => lock[p] = 0)
      BY <1>12, <2>2, <2>5 DEF Tick
    <3> QED
      BY <2>1, <3>1, NoMoreScans
  <2> QED
    BY <2>3, <2>4, <2>5
<1>13. Goal'
  BY <1>1, <1>2, <1>3, <1>4, <1>5, <1>6, <1>7, <1>8, <1>9, <1>10, <1>11, <1>12
     DEF Next, Worker
<1> QED
  BY <1>t, <1>13

LEMMA ExclusionInit == Init => ExclusionInv
<1> SUFFICES ASSUME Init, NEW p \in Providers PROVE Overlap(p)
  BY TypeInit DEF ExclusionInv
<1>1. Scanners(p) = {}
  BY DEF Init, Scanners, InBody, Idle
<1> QED
  BY <1>1, FS_EmptySet DEF Init, Overlap

(* Mutual exclusion of the scans of a provider: as many are under way at   *)
(* once as the lock allows and, beyond that, as often as it expired under  *)
(* one of them since a scan last began alone.                              *)
THEOREM MutualExclusion == Spec => []OneScanPerProvider
<1>1. ExclusionInv => OneScanPerProvider
  BY DEF ExclusionInv, Overlap, OneScanPerProvider
<1> QED
  BY <1>1, ExclusionInit, ExclusionStep, PTL DEF Spec

-----------------------------------------------------------------------------
(* The job documents.  Every attempt inserts a document of its own, so a   *)
(* scan that is under way owns one that is still "running" and that no     *)
(* other scan of its task, a redelivered attempt included, writes to.      *)

Owns(w) ==
  run[w].pc = "scan" =>
    /\ run[w].job \in DOMAIN jobs[Task(w)]
    /\ jobs[Task(w)][run[w].job] = "running"

OwnsDocument == \A w \in Workers : Owns(w)

NoSharedDocument ==
  \A v, w \in Workers :
    (v # w /\ run[v].pc = "scan" /\ run[w].pc = "scan" /\ Task(v) = Task(w))
      => run[v].job # run[w].job

DocumentInv == TypeOK /\ OwnsDocument /\ NoSharedDocument

(* What a step does to the documents of the past.                          *)
Settled ==
  \A t \in Tasks : \A i \in DOMAIN jobs[t] :
    /\ i \in DOMAIN jobs'[t]
    /\ jobs[t][i] \in Terminal => jobs'[t][i] = jobs[t][i]

(* A step that leaves the documents alone, and puts no worker in the scan. *)
LEMMA NoDocumentTouched ==
  ASSUME DocumentInv, UNCHANGED jobs,
         \A v \in Workers : run'[v].pc = "scan" =>
            /\ run[v].pc = "scan"
            /\ run'[v].msg = run[v].msg
            /\ run'[v].job = run[v].job
  PROVE  OwnsDocument' /\ NoSharedDocument' /\ Settled
BY DEF DocumentInv, OwnsDocument, Owns, NoSharedDocument, Settled, Task

(* A worker appends a document and enters the scan with it, or no scan.    *)
LEMMA DocumentAppended ==
  ASSUME DocumentInv, NEW w \in Workers, NEW status \in JobStatus,
         Task(w) \in Tasks,
         jobs' = [jobs EXCEPT ![Task(w)] = Append(@, status)],
         \A v \in Workers \ {w} : run'[v] = run[v],
         run'[w].msg = run[w].msg,
         run'[w].pc = "scan" =>
            status = "running" /\ run'[w].job = Len(jobs[Task(w)]) + 1
  PROVE  OwnsDocument' /\ NoSharedDocument' /\ Settled
<1>1. \A t \in Tasks : jobs[t] \in Seq(JobStatus)
  BY DEF DocumentInv, TypeOK
<1>2. \A t \in Tasks \ {Task(w)} : jobs'[t] = jobs[t]
  BY DEF DocumentInv, TypeOK
<1>3. jobs'[Task(w)] = Append(jobs[Task(w)], status)
  BY DEF DocumentInv, TypeOK
<1>4. \A t \in Tasks : \A i \in DOMAIN jobs[t] :
        i \in DOMAIN jobs'[t] /\ jobs'[t][i] = jobs[t][i]
  BY <1>1, <1>2, <1>3
<1>5. /\ Len(jobs[Task(w)]) + 1 \in DOMAIN jobs'[Task(w)]
      /\ Len(jobs[Task(w)]) + 1 \notin DOMAIN jobs[Task(w)]
      /\ jobs'[Task(w)][Len(jobs[Task(w)]) + 1] = status
  BY <1>1, <1>3
<1>6. \A v \in Workers : Task(v)' = Task(v)
  BY DEF Task
<1>7. \A v \in Workers : run[v].pc = "scan" => Task(v) \in Tasks
  BY BusyWorker DEF DocumentInv
<1>8. OwnsDocument'
  <2>1. ASSUME NEW v \in Workers \ {w}
        PROVE  Owns(v)'
    BY <2>1, <1>4, <1>6, <1>7 DEF DocumentInv, OwnsDocument, Owns
  <2>2. Owns(w)'
    BY <1>5, <1>6 DEF Owns
  <2> QED
    BY <2>1, <2>2 DEF OwnsDocument
<1>9. NoSharedDocument'
  <2>1. \A v \in Workers \ {w} :
          (run[v].pc = "scan" /\ Task(v) = Task(w))
            => run[v].job # Len(jobs[Task(w)]) + 1
    BY <1>5 DEF DocumentInv, OwnsDocument, Owns
  <2> QED
    BY <2>1, <1>6 DEF DocumentInv, NoSharedDocument
<1> QED
  BY <1>4, <1>8, <1>9 DEF Settled

(* A worker writes to its own document and leaves the scan.                *)
LEMMA DocumentUpdated ==
  ASSUME DocumentInv, NEW w \in Workers, NEW status \in JobStatus,
         run[w].pc = "scan", GoTo(w, "release"),
         \/ jobs' = [jobs EXCEPT ![Task(w)][run[w].job] = status]
         \/ UNCHANGED jobs
  PROVE  OwnsDocument' /\ NoSharedDocument' /\ Settled
<1>1. \A v \in Workers : run'[v].pc = "scan" =>
        v # w /\ run'[v] = run[v]
  BY Moved DEF DocumentInv
<1>2. CASE UNCHANGED jobs
  BY <1>1, <1>2, NoDocumentTouched
<1>3. CASE jobs' = [jobs EXCEPT ![Task(w)][run[w].job] = status]
  <2>1. Task(w) \in Tasks
    BY BusyWorker DEF DocumentInv
  <2>2. \A t \in Tasks \ {Task(w)} : jobs'[t] = jobs[t]
    BY <1>3 DEF DocumentInv, TypeOK
  <2>3. jobs'[Task(w)] = [jobs[Task(w)] EXCEPT ![run[w].job] = status]
    BY <1>3, <2>1 DEF DocumentInv, TypeOK
  <2>4. DOMAIN jobs'[Task(w)] = DOMAIN jobs[Task(w)]
    BY <2>3
  <2>5. \A i \in DOMAIN jobs[Task(w)] :
          i # run[w].job => jobs'[Task(w)][i] = jobs[Task(w)][i]
    BY <2>3
  <2>6. jobs[Task(w)][run[w].job] \notin Terminal
    BY DEF DocumentInv, OwnsDocument, Owns, Terminal
  <2>7. Settled
    BY <2>2, <2>4, <2>5, <2>6 DEF Settled
  <2>8. \A v \in Workers : run'[v].pc = "scan" =>
          Task(v)' = Task(v) /\ Task(v) \in Tasks /\ run[v].pc = "scan"
    BY <1>1, BusyWorker DEF DocumentInv, Task
  <2>9. OwnsDocument'
    BY <1>1, <2>2, <2>4, <2>5, <2>8
       DEF DocumentInv, OwnsDocument, Owns, NoSharedDocument
  <2>10. NoSharedDocument'
    BY <1>1, <2>8 DEF DocumentInv, NoSharedDocument
  <2> QED
    BY <2>7, <2>9, <2>10
<1> QED
  BY <1>2, <1>3

LEMMA DocumentStep ==
  ASSUME DocumentInv, [Next]_vars
  PROVE  DocumentInv' /\ Settled
<1>t. TypeOK /\ TypeOK'
  BY TypeStep DEF DocumentInv
<1>1. ASSUME NEW w \in Workers, Acquire(w) \/ AbortEarly(w) \/ SetupFails(w) \/ Release(w)
      PROVE  OwnsDocument' /\ NoSharedDocument' /\ Settled
  <2>1. PICK pc \in {"setup", "release", "ack"} : GoTo(w, pc)
    BY <1>1 DEF Acquire, AbortEarly, SetupFails, Release
  <2>2. UNCHANGED jobs
    BY <1>1 DEF Acquire, AbortEarly, SetupFails, Release
  <2> QED
    BY <1>t, <2>1, <2>2, Moved, NoDocumentTouched
<1>2. ASSUME NEW w \in Workers, Skip(w)
      PROVE  OwnsDocument' /\ NoSharedDocument' /\ Settled
  <2>1. Task(w) \in Tasks /\ "skipped" \in JobStatus
    BY <1>t, <1>2, BusyWorker DEF Skip, JobStatus, Terminal
  <2> QED
    <3>1. /\ GoTo(w, "ack") /\ run[w].pc = "lock"
          /\ jobs' = [jobs EXCEPT ![Task(w)] = Append(@, "skipped")]
      BY <1>2 DEF Skip
    <3>2. \A v \in Workers \ {w} : run'[v] = run[v]
      BY <1>t, <3>1, Moved
    <3>3. run'[w].pc # "scan" /\ run'[w].msg = run[w].msg
      BY <1>t, <3>1, Moved
    <3> QED
      BY <1>t, <2>1, <3>1, <3>2, <3>3, DocumentAppended
<1>3. ASSUME NEW w \in Workers, StartJob(w)
      PROVE  OwnsDocument' /\ NoSharedDocument' /\ Settled
  <2>1. Task(w) \in Tasks /\ "running" \in JobStatus /\ run[w] \in Run
    BY <1>t, <1>3, BusyWorker DEF StartJob, JobStatus
  <2>2. \A v \in Workers \ {w} : run'[v] = run[v]
    BY <1>t, <1>3 DEF StartJob, TypeOK
  <2>3. /\ run'[w].msg = run[w].msg
        /\ run'[w].job = Len(jobs[Task(w)]) + 1
    BY <1>t, <1>3, <2>1 DEF StartJob, TypeOK, Run
  <2> QED
    BY <1>3, <2>1, <2>2, <2>3, DocumentAppended DEF StartJob
<1>4. ASSUME NEW w \in Workers, ScanSucceeds(w) \/ ScanFails(w) \/ RetryUnsent(w)
      PROVE  OwnsDocument' /\ NoSharedDocument' /\ Settled
  <2>1. PICK status \in JobStatus :
          \/ jobs' = [jobs EXCEPT ![Task(w)][run[w].job] = status]
          \/ UNCHANGED jobs
    BY <1>4 DEF ScanSucceeds, ScanFails, RetryUnsent, UpdateJob, JobStatus, Terminal
  <2> QED
    BY <1>4, <2>1, DocumentUpdated DEF ScanSucceeds, ScanFails, RetryUnsent
<1>5. ASSUME NEW w \in Workers, Ack(w) \/ Crash(w)
      PROVE  OwnsDocument' /\ NoSharedDocument' /\ Settled
  <2>1. run' = [run EXCEPT ![w] = Idle] /\ UNCHANGED jobs
    BY <1>5 DEF Ack, Crash
  <2> QED
    BY <1>t, <2>1, NoDocumentTouched DEF TypeOK, Idle
<1>6. ASSUME NEW w \in Workers, Redeliver(w)
      PROVE  OwnsDocument' /\ NoSharedDocument' /\ Settled
  <2>1. run[w] \in Run
    BY <1>t, <1>6 DEF Redeliver, TypeOK
  <2>2. run'[w] = [run[w] EXCEPT !.unacked = FALSE]
    BY <1>t, <1>6 DEF Redeliver, TypeOK
  <2>3. \A v \in Workers \ {w} : run'[v] = run[v]
    BY <1>t, <1>6 DEF Redeliver, TypeOK
  <2>4. /\ run'[w].pc = run[w].pc
        /\ run'[w].msg = run[w].msg
        /\ run'[w].job = run[w].job
    BY <2>1, <2>2 DEF Run
  <2> QED
    BY <1>6, <2>3, <2>4, NoDocumentTouched DEF Redeliver
<1>7. ASSUME NEW w \in Workers, NEW m \in Message, Deliver(w, m)
      PROVE  OwnsDocument' /\ NoSharedDocument' /\ Settled
  <2>1. \A v \in Workers \ {w} : run'[v] = run[v]
    BY <1>t, <1>7 DEF Deliver, TypeOK
  <2>2. run'[w].pc = "lock"
    BY <1>t, <1>7 DEF Deliver, TypeOK
  <2> QED
    BY <1>7, <2>1, <2>2, NoDocumentTouched DEF Deliver
<1>8. ASSUME (\E t \in Tasks : Dispatch(t)) \/ Tick \/ UNCHANGED vars
      PROVE  OwnsDocument' /\ NoSharedDocument' /\ Settled
  BY <1>8, NoDocumentTouched DEF Dispatch, Tick, vars
<1>9. OwnsDocument' /\ NoSharedDocument' /\ Settled
  BY <1>1, <1>2, <1>3, <1>4, <1>5, <1>6, <1>7, <1>8 DEF Next, Worker
<1> QED
  BY <1>t, <1>9 DEF DocumentInv

LEMMA DocumentInit == Init => DocumentInv
BY TypeInit DEF Init, DocumentInv, OwnsDocument, Owns, NoSharedDocument, Idle

(* A document that reached a final status is never written again, and no   *)
(* document disappears.                                                    *)
THEOREM DocumentsSettle == Spec => JobsSettleOnce
<1>1. DocumentInv /\ [Next]_vars =>
        [\A t \in Tasks : \A i \in DOMAIN jobs[t] :
           /\ i \in DOMAIN jobs'[t]
           /\ jobs[t][i] \in Terminal => jobs'[t][i] = jobs[t][i]]_vars
  BY DocumentStep DEF Settled
<1> QED
  BY <1>1, DocumentInit, DocumentStep, PTL DEF Spec, JobsSettleOnce

-----------------------------------------------------------------------------
(* Stuck documents.  A document is stuck when it says "running" and no     *)
(* scan is at work on it.  The set of them grows by at most one element in *)
(* a step, and only in a step that is a fault: a crash in the middle of a  *)
(* scan, or a final status that was not written.                           *)

Stuck == RunningJobs \ LiveJobs

StuckInv ==
  /\ IsFiniteSet(Stuck)
  /\ Cardinality(Stuck) <= outages + errors

LEMMA RunningJob ==
  ASSUME NEW x
  PROVE  x \in RunningJobs <=>
           \E t \in Tasks : \E i \in DOMAIN jobs[t] :
              jobs[t][i] = "running" /\ x = <<t, i>>
BY DEF RunningJobs

LEMMA RunningJobNext ==
  ASSUME NEW x
  PROVE  x \in RunningJobs' <=>
           \E t \in Tasks : \E i \in DOMAIN jobs'[t] :
              jobs'[t][i] = "running" /\ x = <<t, i>>
BY DEF RunningJobs

LEMMA NatSum ==
  ASSUME NEW m \in Nat, NEW n \in Nat
  PROVE  m + n \in Nat
OBVIOUS

(* A finite set that grows by at most one element stays within a bound     *)
(* that grows with it.                                                     *)
LEMMA BoundedGrowth ==
  ASSUME NEW S, NEW T, NEW n \in Nat, NEW k \in Nat,
         IsFiniteSet(S), Cardinality(S) <= n,
         \/ T \subseteq S /\ k >= n
         \/ (\E x : T \subseteq S \cup {x}) /\ k = n + 1
  PROVE  IsFiniteSet(T) /\ Cardinality(T) <= k
<1>1. Cardinality(S) \in Nat
  BY FS_CardinalityType
<1>2. ASSUME T \subseteq S, k >= n
      PROVE  IsFiniteSet(T) /\ Cardinality(T) <= k
  <2>1. IsFiniteSet(T) /\ Cardinality(T) <= Cardinality(S)
    BY <1>2, FS_Subset
  <2>2. Cardinality(T) \in Nat
    BY <2>1, FS_CardinalityType
  <2> QED
    BY <1>1, <1>2, <2>1, <2>2
<1>3. ASSUME NEW x, T \subseteq S \cup {x}, k = n + 1
      PROVE  IsFiniteSet(T) /\ Cardinality(T) <= k
  <2>1. /\ IsFiniteSet(S \cup {x})
        /\ \/ Cardinality(S \cup {x}) = Cardinality(S)
           \/ Cardinality(S \cup {x}) = Cardinality(S) + 1
    BY FS_AddElement
  <2>2. IsFiniteSet(T) /\ Cardinality(T) <= Cardinality(S \cup {x})
    BY <1>3, <2>1, FS_Subset
  <2>3. Cardinality(T) \in Nat
    BY <2>2, FS_CardinalityType
  <2> QED
    BY <1>1, <1>3, <2>1, <2>2, <2>3
<1> QED
  BY <1>2, <1>3

(* The scans a step leaves alone keep their documents alive.               *)
LEMMA StaysLive ==
  ASSUME NEW v \in Workers, run[v].pc = "scan",
         run'[v].pc = "scan", run'[v].msg = run[v].msg, run'[v].job = run[v].job
  PROVE  <<Task(v), run[v].job>> \in LiveJobs'
BY DEF LiveJobs, Task

(* A step that starts no document and takes no worker out of the scan.     *)
LEMMA StuckUntouched ==
  ASSUME RunningJobs' \subseteq RunningJobs,
         \A v \in Workers : run[v].pc = "scan" =>
            /\ run'[v].pc = "scan"
            /\ run'[v].msg = run[v].msg
            /\ run'[v].job = run[v].job
  PROVE  Stuck' \subseteq Stuck
<1>1. LiveJobs \subseteq LiveJobs'
  BY StaysLive DEF LiveJobs
<1> QED
  BY <1>1 DEF Stuck

(* A worker leaves the scan and its document as it is.                     *)
LEMMA StuckByOne ==
  ASSUME UNCHANGED jobs, NEW w \in Workers,
         \A v \in Workers \ {w} : run'[v] = run[v]
  PROVE  /\ Stuck' \subseteq Stuck \cup {<<Task(w), run[w].job>>}
         /\ run[w].pc # "scan" => Stuck' \subseteq Stuck
<1>1. RunningJobs' = RunningJobs
  BY DEF RunningJobs
<1>2. \A v \in Workers \ {w} : run[v].pc = "scan" =>
        <<Task(v), run[v].job>> \in LiveJobs'
  BY StaysLive
<1>3. LiveJobs \subseteq LiveJobs' \cup {<<Task(w), run[w].job>>}
  BY <1>2 DEF LiveJobs
<1>4. run[w].pc # "scan" => LiveJobs \subseteq LiveJobs'
  BY <1>2 DEF LiveJobs
<1> QED
  BY <1>1, <1>3, <1>4 DEF Stuck

(* A worker appends a document, which it is at work on if it is running.   *)
LEMMA StuckAppended ==
  ASSUME TypeOK, NEW w \in Workers, NEW status \in JobStatus,
         Task(w) \in Tasks, run[w].pc # "scan",
         jobs' = [jobs EXCEPT ![Task(w)] = Append(@, status)],
         \A v \in Workers \ {w} : run'[v] = run[v],
         status = "running" =>
            /\ run'[w].pc = "scan"
            /\ run'[w].msg = run[w].msg
            /\ run'[w].job = Len(jobs[Task(w)]) + 1
  PROVE  Stuck' \subseteq Stuck
<1>1. \A v \in Workers : run[v].pc = "scan" =>
        <<Task(v), run[v].job>> \in LiveJobs'
  BY StaysLive
<1>2. LiveJobs \subseteq LiveJobs'
  BY <1>1 DEF LiveJobs
<1>3. jobs[Task(w)] \in Seq(JobStatus)
  BY DEF TypeOK
<1>4. \A t \in Tasks \ {Task(w)} : jobs'[t] = jobs[t]
  BY DEF TypeOK
<1>5. jobs'[Task(w)] = Append(jobs[Task(w)], status)
  BY DEF TypeOK
<1>6. \A i \in DOMAIN jobs'[Task(w)] :
        \/ i \in DOMAIN jobs[Task(w)] /\ jobs'[Task(w)][i] = jobs[Task(w)][i]
        \/ i = Len(jobs[Task(w)]) + 1 /\ jobs'[Task(w)][i] = status
  BY <1>3, <1>5
<1>7. status = "running" =>
        <<Task(w), Len(jobs[Task(w)]) + 1>> \in LiveJobs'
  BY DEF LiveJobs, Task
<1>8. ASSUME NEW x \in RunningJobs'
      PROVE  x \in RunningJobs \/ x \in LiveJobs'
  <2>1. PICK t \in Tasks : \E i \in DOMAIN jobs'[t] :
          jobs'[t][i] = "running" /\ x = <<t, i>>
    BY RunningJobNext
  <2>i. PICK i \in DOMAIN jobs'[t] : jobs'[t][i] = "running" /\ x = <<t, i>>
    BY <2>1
  <2>2. CASE t # Task(w)
    BY <1>4, <2>i, <2>2, RunningJob
  <2>3. CASE t = Task(w) /\ i \in DOMAIN jobs[t] /\ jobs'[t][i] = jobs[t][i]
    BY <2>i, <2>3, RunningJob
  <2>4. CASE t = Task(w) /\ i = Len(jobs[t]) + 1 /\ jobs'[t][i] = status
    BY <1>7, <2>i, <2>4
  <2> QED
    BY <1>6, <2>i, <2>2, <2>3, <2>4
<1> QED
  BY <1>2, <1>8 DEF Stuck

(* A worker writes a final status to its document and leaves the scan.     *)
LEMMA StuckSettled ==
  ASSUME DocumentInv, NEW w \in Workers, NEW status \in Terminal,
         run[w].pc = "scan", GoTo(w, "release"),
         jobs' = [jobs EXCEPT ![Task(w)][run[w].job] = status]
  PROVE  Stuck' \subseteq Stuck
<1>1. \A v \in Workers \ {w} : run'[v] = run[v]
  BY Moved DEF DocumentInv
<1>2. \A v \in Workers \ {w} : run[v].pc = "scan" =>
        <<Task(v), run[v].job>> \in LiveJobs'
  BY <1>1, StaysLive
<1>3. LiveJobs \subseteq LiveJobs' \cup {<<Task(w), run[w].job>>}
  BY <1>2 DEF LiveJobs
<1>4. Task(w) \in Tasks
  BY BusyWorker DEF DocumentInv
<1>5. \A t \in Tasks \ {Task(w)} : jobs'[t] = jobs[t]
  BY DEF DocumentInv, TypeOK
<1>6. jobs'[Task(w)] = [jobs[Task(w)] EXCEPT ![run[w].job] = status]
  BY <1>4 DEF DocumentInv, TypeOK
<1>7. /\ DOMAIN jobs'[Task(w)] = DOMAIN jobs[Task(w)]
      /\ \A i \in DOMAIN jobs[Task(w)] :
           jobs'[Task(w)][i] = IF i = run[w].job THEN status ELSE jobs[Task(w)][i]
  BY <1>6
<1>8. ASSUME NEW x \in RunningJobs'
      PROVE  x \in RunningJobs /\ x # <<Task(w), run[w].job>>
  <2>1. PICK t \in Tasks : \E i \in DOMAIN jobs'[t] :
          jobs'[t][i] = "running" /\ x = <<t, i>>
    BY RunningJobNext
  <2>i. PICK i \in DOMAIN jobs'[t] : jobs'[t][i] = "running" /\ x = <<t, i>>
    BY <2>1
  <2>2. CASE t # Task(w)
    BY <1>5, <2>i, <2>2, RunningJob
  <2>3. CASE t = Task(w)
    <3>1. i \in DOMAIN jobs[t] /\ i # run[w].job /\ jobs[t][i] = "running"
      BY <1>7, <2>i, <2>3 DEF Terminal
    <3> QED
      BY <2>i, <3>1, RunningJob
  <2> QED
    BY <2>2, <2>3
<1> QED
  BY <1>3, <1>8 DEF Stuck

LEMMA StuckGrows ==
  ASSUME DocumentInv, [Next]_vars
  PROVE  \/ Stuck' \subseteq Stuck /\ outages' + errors' >= outages + errors
         \/ /\ \E x : Stuck' \subseteq Stuck \cup {x}
            /\ outages' + errors' = outages + errors + 1
<1> DEFINE Kept == Stuck' \subseteq Stuck /\ outages' + errors' >= outages + errors
           OneMore == /\ \E x : Stuck' \subseteq Stuck \cup {x}
                      /\ outages' + errors' = outages + errors + 1
<1>t. TypeOK /\ outages \in Nat /\ errors \in Nat
  BY DEF DocumentInv, TypeOK
<1>1. ASSUME NEW w \in Workers, Acquire(w) \/ AbortEarly(w) \/ SetupFails(w) \/ Release(w)
      PROVE  Kept
  <2>1. PICK pc \in {"setup", "release", "ack"} : GoTo(w, pc)
    BY <1>1 DEF Acquire, AbortEarly, SetupFails, Release
  <2>2. UNCHANGED jobs /\ run[w].pc # "scan"
    BY <1>1 DEF Acquire, AbortEarly, SetupFails, Release
  <2>3. outages' + errors' >= outages + errors
    BY <1>t, <1>1 DEF Acquire, AbortEarly, SetupFails, Release, CountError, faults
  <2> QED
    BY <1>t, <2>1, <2>2, <2>3, Moved, StuckByOne
<1>2. ASSUME NEW w \in Workers, Skip(w)
      PROVE  Kept
  <2>1. /\ Task(w) \in Tasks
        /\ "skipped" \in JobStatus /\ "skipped" # "running"
        /\ run[w].pc # "scan" /\ GoTo(w, "ack")
    BY <1>t, <1>2, BusyWorker DEF Skip, JobStatus, Terminal
  <2>2. Stuck' \subseteq Stuck
    BY <1>t, <1>2, <2>1, Moved, StuckAppended DEF Skip
  <2> QED
    BY <1>t, <1>2, <2>2 DEF Skip, faults
<1>3. ASSUME NEW w \in Workers, StartJob(w)
      PROVE  Kept
  <2>1. Task(w) \in Tasks /\ "running" \in JobStatus /\ run[w] \in Run
    BY <1>t, <1>3, BusyWorker DEF StartJob, JobStatus
  <2>2. \A v \in Workers \ {w} : run'[v] = run[v]
    BY <1>t, <1>3 DEF StartJob, TypeOK
  <2>3. /\ run'[w].pc = "scan"
        /\ run'[w].msg = run[w].msg
        /\ run'[w].job = Len(jobs[Task(w)]) + 1
    BY <1>t, <1>3, <2>1 DEF StartJob, TypeOK, Run
  <2>4. Stuck' \subseteq Stuck
    BY <1>t, <1>3, <2>1, <2>2, <2>3, StuckAppended DEF StartJob
  <2> QED
    BY <1>t, <1>3, <2>4 DEF StartJob, faults
<1>4. ASSUME NEW w \in Workers, ScanSucceeds(w) \/ ScanFails(w) \/ RetryUnsent(w)
      PROVE  Kept \/ OneMore
  <2>1. run[w].pc = "scan" /\ GoTo(w, "release")
    BY <1>4 DEF ScanSucceeds, ScanFails, RetryUnsent
  <2>2. CASE \E status \in Terminal :
               jobs' = [jobs EXCEPT ![Task(w)][run[w].job] = status]
    <3>1. Stuck' \subseteq Stuck
      BY <2>1, <2>2, StuckSettled
    <3>2. outages' + errors' >= outages + errors
      BY <1>t, <1>4 DEF ScanSucceeds, ScanFails, RetryUnsent, UpdateJob, CountError, faults
    <3> QED
      BY <3>1, <3>2
  <2>3. CASE UNCHANGED jobs /\ CountError
    <3>1. Stuck' \subseteq Stuck \cup {<<Task(w), run[w].job>>}
      BY <1>t, <2>1, <2>3, Moved, StuckByOne
    <3>2. outages' + errors' = outages + errors + 1
      BY <1>t, <2>3 DEF CountError
    <3> QED
      BY <3>1, <3>2
  <2> QED
    BY <1>4, <2>2, <2>3 DEF ScanSucceeds, ScanFails, RetryUnsent, UpdateJob, Terminal
<1>5. ASSUME NEW w \in Workers, Ack(w)
      PROVE  Kept
  <2>1. UNCHANGED jobs /\ run[w].pc # "scan" /\ \A v \in Workers \ {w} : run'[v] = run[v]
    BY <1>t, <1>5 DEF Ack, TypeOK
  <2> QED
    BY <1>t, <1>5, <2>1, StuckByOne DEF Ack, faults
<1>6. ASSUME NEW w \in Workers, Crash(w)
      PROVE  OneMore
  <2>1. UNCHANGED jobs /\ \A v \in Workers \ {w} : run'[v] = run[v]
    BY <1>t, <1>6 DEF Crash, TypeOK
  <2>2. outages' + errors' = outages + errors + 1
    BY <1>t, <1>6 DEF Crash, CountOutage
  <2> QED
    BY <2>1, <2>2, StuckByOne
<1>7. ASSUME NEW w \in Workers, Redeliver(w)
      PROVE  Kept
  <2>1. run[w] \in Run
    BY <1>t, <1>7 DEF Redeliver, TypeOK
  <2>2. /\ run'[w] = [run[w] EXCEPT !.unacked = FALSE]
        /\ \A v \in Workers \ {w} : run'[v] = run[v]
    BY <1>t, <1>7 DEF Redeliver, TypeOK
  <2>3. /\ run'[w].pc = run[w].pc
        /\ run'[w].msg = run[w].msg
        /\ run'[w].job = run[w].job
    BY <2>1, <2>2 DEF Run
  <2>4. RunningJobs' = RunningJobs
    BY <1>7 DEF Redeliver, RunningJobs
  <2> QED
    BY <1>t, <1>7, <2>2, <2>3, <2>4, StuckUntouched DEF Redeliver, CountOutage
<1>8. ASSUME NEW w \in Workers, NEW m \in Message, Deliver(w, m)
      PROVE  Kept
  <2>1. /\ UNCHANGED jobs /\ run[w].pc # "scan"
        /\ \A v \in Workers \ {w} : run'[v] = run[v]
    BY <1>t, <1>8 DEF Deliver, TypeOK, Idle
  <2> QED
    BY <1>t, <1>8, <2>1, StuckByOne DEF Deliver, faults
<1>9. ASSUME (\E t \in Tasks : Dispatch(t)) \/ Tick \/ UNCHANGED vars
      PROVE  Kept
  <2>1. UNCHANGED <<jobs, run, faults>>
    BY <1>9 DEF Dispatch, Tick, vars, faults
  <2>2. RunningJobs' = RunningJobs
    BY <2>1 DEF RunningJobs
  <2> QED
    BY <1>t, <2>1, <2>2, StuckUntouched DEF faults
<1> QED
  BY <1>1, <1>2, <1>3, <1>4, <1>5, <1>6, <1>7, <1>8, <1>9 DEF Next, Worker

LEMMA StuckStep ==
  ASSUME DocumentInv, StuckInv, [Next]_vars
  PROVE  StuckInv'
<1>1. /\ outages + errors \in Nat
      /\ outages' + errors' \in Nat
  <2>1. TypeOK'
    BY TypeStep DEF DocumentInv
  <2>2. outages \in Nat /\ errors \in Nat
    BY DEF DocumentInv, TypeOK
  <2>3. outages' \in Nat /\ errors' \in Nat
    BY <2>1 DEF TypeOK
  <2> QED
    BY <2>2, <2>3, NatSum
<1>2. \/ Stuck' \subseteq Stuck /\ outages' + errors' >= outages + errors
      \/ /\ \E x : Stuck' \subseteq Stuck \cup {x}
         /\ outages' + errors' = outages + errors + 1
  BY StuckGrows
<1>3. IsFiniteSet(Stuck) /\ Cardinality(Stuck) <= outages + errors
  BY DEF StuckInv
<1>4. IsFiniteSet(Stuck') /\ Cardinality(Stuck') <= outages' + errors'
  BY <1>1, <1>2, <1>3, BoundedGrowth
<1> QED
  BY <1>4 DEF StuckInv

LEMMA StuckInit == Init => StuckInv
<1> SUFFICES ASSUME Init PROVE StuckInv
  OBVIOUS
<1>1. Stuck = {}
  BY DEF Init, Stuck, RunningJobs
<1>2. IsFiniteSet(Stuck) /\ Cardinality(Stuck) = 0
  BY <1>1, FS_EmptySet
<1> QED
  BY <1>2 DEF Init, StuckInv

(* A document is left "running" with nobody scanning only by a fault, and  *)
(* at most one by each: an attempt that fails settles its own document     *)
(* whether or not it is retried.                                           *)
THEOREM StuckJobsAreCounted == Spec => []StuckJobsAreFaults
<1>1. StuckInv => StuckJobsAreFaults
  BY DEF StuckInv, StuckJobsAreFaults, Stuck
<1> QED
  BY <1>1, DocumentInit, DocumentStep, StuckInit, StuckStep, PTL DEF Spec

-----------------------------------------------------------------------------
(* The budget of attempts.  An attempt that may still insert a document is *)
(* counted where it is: a message that waits, or is held by a worker that  *)
(* has not inserted its document yet, stands for itself and for each retry *)
(* it has left; in the scan only the retries are left, and after it none,  *)
(* for a retry is a message of its own.  Sending a task, its redelivery or *)
(* the crash of its worker adds at most 1 + max_retries of them; every     *)
(* other step only passes them on, or turns one into a document.           *)

Attempts == 0..MaxRetries
Block(x, first) == {x} \X (first..MaxRetries)

(* The first attempt of task t that a worker in state r has left.          *)
First(t, r) ==
  IF r.pc \in {"lock", "setup", "scan"} /\ r.msg.task = t
  THEN IF r.pc = "scan" THEN r.msg.retries + 1 ELSE r.msg.retries
  ELSE MaxRetries + 1

Held(t) == {x \in Workers \X Attempts : First(t, run[x[1]]) <= x[2]}

(* The copies of a message are told apart by a number.                     *)
Waiting(t, q) ==
  {x \in (Attempts \X Nat) \X Attempts :
     /\ x[1][2] < q[[task |-> t, retries |-> x[1][1]]]
     /\ x[1][1] <= x[2]}

Sends(t) == IF t \in dispatched THEN outages + 1 ELSE outages

Budget(t) ==
  /\ IsFiniteSet(Held(t))
  /\ IsFiniteSet(Waiting(t, queue))
  /\ Len(jobs[t]) + Cardinality(Held(t)) + Cardinality(Waiting(t, queue))
       <= (1 + MaxRetries) * Sends(t)

BudgetInv == \A t \in Tasks : Budget(t)

LEMMA BlockSize ==
  ASSUME NEW x, NEW first \in 0..MaxRetries + 1
  PROVE  /\ IsFiniteSet(Block(x, first))
         /\ Cardinality(Block(x, first)) = MaxRetries + 1 - first
<1>1. /\ IsFiniteSet(first..MaxRetries)
      /\ Cardinality(first..MaxRetries)
           = IF first > MaxRetries THEN 0 ELSE MaxRetries - first + 1
  BY ScanAssumption, FS_Interval
<1>2. IsFiniteSet({x}) /\ Cardinality({x}) = 1
  BY FS_Singleton
<1>3. /\ IsFiniteSet(Block(x, first))
      /\ Cardinality(Block(x, first)) = 1 * Cardinality(first..MaxRetries)
  BY <1>1, <1>2, FS_Product DEF Block
<1> QED
  BY <1>1, <1>3, ScanAssumption

(* Taking a block out of a finite set leaves the rest.                     *)
LEMMA BlockRemoved ==
  ASSUME NEW S, NEW x, NEW first \in 0..MaxRetries + 1,
         IsFiniteSet(S), Block(x, first) \subseteq S
  PROVE  /\ IsFiniteSet(S \ Block(x, first))
         /\ Cardinality(S \ Block(x, first)) + (MaxRetries + 1 - first) = Cardinality(S)
<1>1. /\ IsFiniteSet(Block(x, first))
      /\ Cardinality(Block(x, first)) = MaxRetries + 1 - first
  BY BlockSize
<1>2. S \cap Block(x, first) = Block(x, first)
  OBVIOUS
<1>3. /\ IsFiniteSet(S \ Block(x, first))
      /\ Cardinality(S \ Block(x, first))
           = Cardinality(S) - Cardinality(S \cap Block(x, first))
  BY FS_Difference
<1>4. Cardinality(S) \in Nat /\ Cardinality(S \ Block(x, first)) \in Nat
  BY <1>3, FS_CardinalityType
<1> QED
  BY <1>1, <1>2, <1>3, <1>4, ScanAssumption

(* Replacing one block of a finite set by another.                         *)
LEMMA BlockSwapped ==
  ASSUME NEW S, NEW T, NEW x, NEW a \in 0..MaxRetries + 1, NEW b \in 0..MaxRetries + 1,
         IsFiniteSet(S), Block(x, a) \subseteq S, Block(x, b) \subseteq T,
         S \ Block(x, a) = T \ Block(x, b)
  PROVE  /\ IsFiniteSet(T)
         /\ Cardinality(T) + b = Cardinality(S) + a
<1>1. /\ IsFiniteSet(S \ Block(x, a))
      /\ Cardinality(S \ Block(x, a)) + (MaxRetries + 1 - a) = Cardinality(S)
  BY BlockRemoved
<1>2. IsFiniteSet(Block(x, b))
  BY BlockSize
<1>3. T = (S \ Block(x, a)) \cup Block(x, b)
  OBVIOUS
<1>4. IsFiniteSet(T)
  BY <1>1, <1>2, <1>3, FS_Union
<1>5. Cardinality(T \ Block(x, b)) + (MaxRetries + 1 - b) = Cardinality(T)
  BY <1>4, BlockRemoved
<1>6. Cardinality(S) \in Nat /\ Cardinality(T) \in Nat
  BY <1>4, FS_CardinalityType
<1>7. PICK c : c = Cardinality(S \ Block(x, a))
  OBVIOUS
<1>8. c \in Nat
  BY <1>1, <1>7, FS_CardinalityType
<1>9. c + (MaxRetries + 1 - a) = Cardinality(S)
  BY <1>1, <1>7
<1>10. c + (MaxRetries + 1 - b) = Cardinality(T)
  BY <1>5, <1>7
<1>11. Cardinality(T) + b = Cardinality(S) + a
  BY <1>6, <1>8, <1>9, <1>10, ScanAssumption
<1> QED
  BY <1>4, <1>11

LEMMA FirstTyped ==
  ASSUME NEW t \in Tasks, NEW r \in Run \cup {Idle}
  PROVE  First(t, r) \in 0..MaxRetries + 1
<1>1. CASE r.pc \in {"lock", "setup", "scan"} /\ r.msg.task = t
  <2>1. r.msg \in Message
    BY <1>1 DEF Run, Idle
  <2>2. r.msg.retries \in 0..MaxRetries
    BY <2>1 DEF Message
  <2> QED
    BY <1>1, <2>2, ScanAssumption DEF First
<1>2. CASE ~(r.pc \in {"lock", "setup", "scan"} /\ r.msg.task = t)
  BY <1>2, ScanAssumption DEF First
<1> QED
  BY <1>1, <1>2

(* What a worker holds changes by the attempts it passes on or takes.      *)
LEMMA HeldMoves ==
  ASSUME TypeOK, TypeOK', NEW t \in Tasks, NEW w \in Workers,
         \A v \in Workers \ {w} : run'[v] = run[v],
         IsFiniteSet(Held(t))
  PROVE  /\ IsFiniteSet(Held(t)')
         /\ Cardinality(Held(t)') + First(t, run'[w]) = Cardinality(Held(t)) + First(t, run[w])
<1>1. PICK a : a = First(t, run[w])
  OBVIOUS
<1>2. PICK b : b = First(t, run'[w])
  OBVIOUS
<1>3. a \in 0..MaxRetries + 1
  BY <1>1, FirstTyped DEF TypeOK
<1>4. b \in 0..MaxRetries + 1
  <2>1. run'[w] \in Run \cup {Idle}
    BY DEF TypeOK
  <2> QED
    BY <1>2, <2>1, FirstTyped
<1>5. \A v \in Workers \ {w} : First(t, run'[v]) = First(t, run[v])
  OBVIOUS
<1>6. \A x \in Block(w, a) : x \in Held(t)
  BY <1>1, <1>3, ScanAssumption DEF Block, Held, Attempts
<1>7. \A x \in Block(w, b) : x \in Held(t)'
  BY <1>2, <1>4, ScanAssumption DEF Block, Held, Attempts
<1>8. \A x : x \in Held(t) \ Block(w, a) <=> x \in Held(t) /\ x[1] # w
  BY <1>1, <1>3, ScanAssumption DEF Block, Held, Attempts
<1>9. \A x : x \in Held(t)' \ Block(w, b) <=> x \in Held(t)' /\ x[1] # w
  BY <1>2, <1>4, ScanAssumption DEF Block, Held, Attempts
<1>10. \A x : x \in Held(t)' /\ x[1] # w <=> x \in Held(t) /\ x[1] # w
  BY <1>5 DEF Held
<1>11. Held(t) \ Block(w, a) = Held(t)' \ Block(w, b)
  BY <1>8, <1>9, <1>10
<1> QED
  BY <1>1, <1>2, <1>3, <1>4, <1>6, <1>7, <1>11, BlockSwapped

(* One more copy of a message in the queue.                                *)
LEMMA WaitingGrows ==
  ASSUME NEW t \in Tasks, NEW m \in Message, m.task = t,
         NEW q \in [Message -> Nat], NEW r \in [Message -> Nat],
         r = [q EXCEPT ![m] = @ + 1],
         IsFiniteSet(Waiting(t, q)) \/ IsFiniteSet(Waiting(t, r))
  PROVE  /\ IsFiniteSet(Waiting(t, q)) /\ IsFiniteSet(Waiting(t, r))
         /\ Cardinality(Waiting(t, r)) + m.retries
              = Cardinality(Waiting(t, q)) + (MaxRetries + 1)
<1> DEFINE copy == <<m.retries, q[m]>>
           Attempt(i) == [task |-> t, retries |-> i]
<1>1. m.retries \in Attempts /\ q[m] \in Nat /\ m = Attempt(m.retries)
  BY DEF Message, Attempts
<1>2. /\ \A i \in Attempts \ {m.retries} : r[Attempt(i)] = q[Attempt(i)]
      /\ r[m] = q[m] + 1
  <2>1. ASSUME NEW i \in Attempts \ {m.retries}
        PROVE  Attempt(i) \in Message \ {m}
    BY <1>1 DEF Message, Attempts
  <2> HIDE DEF Attempt
  <2> QED
    BY <2>1
<1>3. \A x : x \in Block(copy, m.retries) =>
               x \in Waiting(t, r) /\ x \notin Waiting(t, q)
  BY <1>1, <1>2, ScanAssumption DEF Block, Waiting, Attempts
<1>4. \A x : x \in Waiting(t, q) => x \in Waiting(t, r)
  BY <1>1, <1>2 DEF Waiting
<1>5. \A x : x \in Waiting(t, r) /\ x \notin Waiting(t, q)
               => x \in Block(copy, m.retries)
  <2> SUFFICES ASSUME NEW i \in Attempts, NEW n \in Nat, NEW j \in Attempts,
                      <<<<i, n>>, j>> \in Waiting(t, r),
                      <<<<i, n>>, j>> \notin Waiting(t, q)
               PROVE  <<<<i, n>>, j>> \in Block(copy, m.retries)
    BY DEF Waiting
  <2>1. n < r[Attempt(i)] /\ i <= j /\ ~(n < q[Attempt(i)])
    BY DEF Waiting
  <2>2. i = m.retries /\ n = q[m]
    BY <1>1, <1>2, <2>1
  <2> QED
    BY <1>1, <2>1, <2>2, ScanAssumption DEF Block, Attempts
<1>6. Block(copy, MaxRetries + 1) = {}
  BY ScanAssumption DEF Block
<1>7. Waiting(t, q) \ Block(copy, MaxRetries + 1) = Waiting(t, r) \ Block(copy, m.retries)
  BY <1>3, <1>4, <1>5, <1>6
<1>8. /\ Block(copy, MaxRetries + 1) \subseteq Waiting(t, q)
      /\ Block(copy, m.retries) \subseteq Waiting(t, r)
  BY <1>3, <1>6
<1>9. MaxRetries + 1 \in 0..MaxRetries + 1 /\ m.retries \in 0..MaxRetries + 1
  BY <1>1, ScanAssumption DEF Attempts
<1> HIDE DEF copy
<1>10. PICK S : S = Waiting(t, q)
  OBVIOUS
<1>11. PICK T : T = Waiting(t, r)
  OBVIOUS
<1>12. PICK a : a = m.retries
  OBVIOUS
<1>13. PICK b : b = MaxRetries + 1
  OBVIOUS
<1>14. /\ a \in 0..MaxRetries + 1 /\ b \in 0..MaxRetries + 1
       /\ S \ Block(copy, b) = T \ Block(copy, a)
       /\ Block(copy, b) \subseteq S /\ Block(copy, a) \subseteq T
  BY <1>7, <1>8, <1>9, <1>10, <1>11, <1>12, <1>13
<1>15. CASE IsFiniteSet(S)
  <2>1. IsFiniteSet(T) /\ Cardinality(T) + a = Cardinality(S) + b
    BY <1>14, <1>15, BlockSwapped
  <2> QED
    BY <1>10, <1>11, <1>12, <1>13, <1>15, <2>1
<1>16. CASE IsFiniteSet(T)
  <2>1. IsFiniteSet(S) /\ Cardinality(S) + b = Cardinality(T) + a
    BY <1>14, <1>16, BlockSwapped
  <2> QED
    BY <1>10, <1>11, <1>12, <1>13, <1>16, <2>1
<1> QED
  BY <1>10, <1>11, <1>15, <1>16

LEMMA WaitingElsewhere ==
  ASSUME NEW t \in Tasks, NEW m \in Message, m.task # t,
         NEW q \in [Message -> Nat], NEW r \in [Message -> Nat],
         \A k \in Message \ {m} : r[k] = q[k]
  PROVE  Waiting(t, r) = Waiting(t, q)
<1>1. \A i \in Attempts : r[[task |-> t, retries |-> i]] = q[[task |-> t, retries |-> i]]
  BY DEF Message, Attempts
<1> QED
  BY <1>1 DEF Waiting

(* Publishing a message counts its attempts in once more.                  *)
LEMMA WaitingPublished ==
  ASSUME TypeOK, NEW t \in Tasks, NEW m \in Message, Publish(m),
         IsFiniteSet(Waiting(t, queue))
  PROVE  /\ IsFiniteSet(Waiting(t, queue'))
         /\ m.task # t => Waiting(t, queue') = Waiting(t, queue)
         /\ m.task = t =>
              Cardinality(Waiting(t, queue')) + m.retries
                = Cardinality(Waiting(t, queue)) + (MaxRetries + 1)
<1>1. queue \in [Message -> Nat] /\ queue' \in [Message -> Nat]
  BY PublishTyped DEF TypeOK
<1>2. queue' = [queue EXCEPT ![m] = @ + 1]
  BY DEF Publish
<1>3. CASE m.task = t
  BY <1>1, <1>2, <1>3, WaitingGrows, ZenonT(30)
<1>4. CASE m.task # t
  <2>1. Waiting(t, queue') = Waiting(t, queue)
    <3>1. \A k \in Message \ {m} : queue'[k] = queue[k]
      BY <1>1, <1>2
    <3> QED
      BY <1>1, <1>4, <3>1, WaitingElsewhere
  <2> QED
    BY <1>4, <2>1
<1> QED
  BY <1>3, <1>4

LEMMA OneMoreSend ==
  ASSUME NEW s \in Nat
  PROVE  /\ (1 + MaxRetries) * s \in Nat
         /\ (1 + MaxRetries) * (s + 1) = (1 + MaxRetries) * s + (1 + MaxRetries)
BY ScanAssumption

(* The balance of a step of one worker: d attempts enter the queue and k   *)
(* leave it.  What else the worker gives up pays for a document, or the    *)
(* step is an outage and is granted 1 + max_retries more.                  *)
LEMMA BudgetMoves ==
  ASSUME TypeOK, TypeOK', NEW t \in Tasks, Budget(t), NEW w \in Workers,
         \A v \in Workers \ {w} : run'[v] = run[v],
         UNCHANGED dispatched,
         IsFiniteSet(Waiting(t, queue')),
         NEW d \in Nat, NEW k \in Nat,
         Cardinality(Waiting(t, queue')) + k = Cardinality(Waiting(t, queue)) + d,
         NEW g \in {0, 1}, outages' = outages + g,
         Len(jobs'[t]) + d + First(t, run[w])
           <= Len(jobs[t]) + k + First(t, run'[w]) + (IF g = 1 THEN MaxRetries + 1 ELSE 0)
  PROVE  Budget(t)'
<1>1. /\ IsFiniteSet(Held(t)) /\ IsFiniteSet(Waiting(t, queue))
      /\ Len(jobs[t]) + Cardinality(Held(t)) + Cardinality(Waiting(t, queue))
           <= (1 + MaxRetries) * Sends(t)
  BY DEF Budget
<1>2. /\ IsFiniteSet(Held(t)')
      /\ Cardinality(Held(t)') + First(t, run'[w]) = Cardinality(Held(t)) + First(t, run[w])
  BY <1>1, HeldMoves
<1>3. Len(jobs[t]) \in Nat /\ Len(jobs'[t]) \in Nat
  <2>1. jobs[t] \in Seq(JobStatus) /\ jobs'[t] \in Seq(JobStatus)
    BY DEF TypeOK
  <2> QED
    BY <2>1
<1>4. First(t, run[w]) \in Nat /\ First(t, run'[w]) \in Nat
  <2>1. run[w] \in Run \cup {Idle} /\ run'[w] \in Run \cup {Idle}
    BY DEF TypeOK
  <2> QED
    BY <2>1, FirstTyped
<1>5. Sends(t) \in Nat /\ Sends(t)' = Sends(t) + g
  BY DEF Sends, TypeOK
<1>6. /\ Cardinality(Held(t)) \in Nat /\ Cardinality(Held(t)') \in Nat
      /\ Cardinality(Waiting(t, queue)) \in Nat
      /\ Cardinality(Waiting(t, queue')) \in Nat
  BY <1>1, <1>2, FS_CardinalityType
<1>7. (1 + MaxRetries) * Sends(t) \in Nat
  BY <1>5, OneMoreSend
<1>8. Len(jobs'[t]) + Cardinality(Held(t)') + Cardinality(Waiting(t, queue'))
        <= (1 + MaxRetries) * Sends(t) + (IF g = 1 THEN MaxRetries + 1 ELSE 0)
  <2>1. PICK e : e = (IF g = 1 THEN MaxRetries + 1 ELSE 0)
    OBVIOUS
  <2>2. PICK s : s = (1 + MaxRetries) * Sends(t)
    OBVIOUS
  <2>3. PICK h : h = Cardinality(Held(t))
    OBVIOUS
  <2>4. PICK h2 : h2 = Cardinality(Held(t)')
    OBVIOUS
  <2>5. PICK q : q = Cardinality(Waiting(t, queue))
    OBVIOUS
  <2>6. PICK q2 : q2 = Cardinality(Waiting(t, queue'))
    OBVIOUS
  <2>7. PICK f : f = First(t, run[w])
    OBVIOUS
  <2>8. PICK f2 : f2 = First(t, run'[w])
    OBVIOUS
  <2>9. /\ e \in Nat /\ s \in Nat /\ h \in Nat /\ h2 \in Nat
        /\ q \in Nat /\ q2 \in Nat /\ f \in Nat /\ f2 \in Nat
    BY <1>4, <1>6, <1>7, <2>1, <2>2, <2>3, <2>4, <2>5, <2>6, <2>7, <2>8, ScanAssumption
  <2>10. /\ Len(jobs[t]) + h + q <= s
         /\ h2 + f2 = h + f
         /\ q2 + k = q + d
         /\ Len(jobs'[t]) + d + f <= Len(jobs[t]) + k + f2 + e
    BY <1>1, <1>2, <2>1, <2>2, <2>3, <2>4, <2>5, <2>6, <2>7, <2>8
  <2>11. Len(jobs'[t]) + h2 + q2 <= s + e
    <3>1. PICK l \in Nat, l2 \in Nat : l = Len(jobs[t]) /\ l2 = Len(jobs'[t])
      BY <1>3
    <3>2. /\ l + h + q <= s /\ h2 + f2 = h + f /\ q2 + k = q + d
          /\ l2 + d + f <= l + k + f2 + e
      BY <2>10, <3>1
    <3>3. l2 + h2 + q2 <= s + e
      BY <2>9, <3>2
    <3> QED
      BY <3>1, <3>3
  <2> QED
    BY <2>1, <2>2, <2>4, <2>6, <2>11
<1>9. (1 + MaxRetries) * Sends(t) + (IF g = 1 THEN MaxRetries + 1 ELSE 0)
        = (1 + MaxRetries) * Sends(t)'
  <2>1. CASE g = 0
    BY <1>5, <1>7, <2>1
  <2>2. CASE g = 1
    BY <1>5, <2>2, OneMoreSend, ScanAssumption
  <2> QED
    BY <2>1, <2>2
<1>10. Len(jobs'[t]) + Cardinality(Held(t)') + Cardinality(Waiting(t, queue'))
         <= (1 + MaxRetries) * Sends(t)'
  BY <1>8, <1>9
<1> QED
  BY <1>2, <1>10 DEF Budget

(* A step that leaves the queue alone.                                     *)
LEMMA BudgetSpent ==
  ASSUME TypeOK, TypeOK', NEW t \in Tasks, Budget(t), NEW w \in Workers,
         \A v \in Workers \ {w} : run'[v] = run[v],
         UNCHANGED <<dispatched, queue, outages>>,
         Len(jobs'[t]) + First(t, run[w]) <= Len(jobs[t]) + First(t, run'[w])
  PROVE  Budget(t)'
<1>1. IsFiniteSet(Waiting(t, queue')) /\ Waiting(t, queue') = Waiting(t, queue)
  BY DEF Budget
<1>2. Len(jobs[t]) \in Nat /\ Len(jobs'[t]) \in Nat
  <2>1. jobs[t] \in Seq(JobStatus) /\ jobs'[t] \in Seq(JobStatus)
    BY DEF TypeOK
  <2> QED
    BY <2>1
<1>3. First(t, run[w]) \in Nat /\ First(t, run'[w]) \in Nat
  <2>1. run[w] \in Run \cup {Idle} /\ run'[w] \in Run \cup {Idle}
    BY DEF TypeOK
  <2> QED
    BY <2>1, FirstTyped
<1>4. PICK n : n = Cardinality(Waiting(t, queue))
  OBVIOUS
<1>5. n \in Nat
  BY <1>1, <1>4, FS_CardinalityType
<1>6. Cardinality(Waiting(t, queue')) + 0 = Cardinality(Waiting(t, queue)) + 0
  BY <1>1
<1>7. outages' = outages + 0
  BY DEF TypeOK
<1>8. Len(jobs'[t]) + 0 + First(t, run[w])
        <= Len(jobs[t]) + 0 + First(t, run'[w]) + (IF 0 = 1 THEN MaxRetries + 1 ELSE 0)
  BY <1>2, <1>3
<1> QED
  BY <1>1, <1>6, <1>7, <1>8, BudgetMoves

(* A step that publishes a message m.                                      *)
LEMMA BudgetPublished ==
  ASSUME TypeOK, TypeOK', NEW t \in Tasks, Budget(t), NEW w \in Workers,
         \A v \in Workers \ {w} : run'[v] = run[v],
         UNCHANGED dispatched,
         NEW m \in Message, Publish(m),
         NEW g \in {0, 1}, outages' = outages + g,
         Len(jobs'[t]) = Len(jobs[t]),
         m.task # t => First(t, run[w]) <= First(t, run'[w]),
         m.task = t => MaxRetries + 1 + First(t, run[w])
                         <= m.retries + First(t, run'[w])
                              + (IF g = 1 THEN MaxRetries + 1 ELSE 0)
  PROVE  Budget(t)'
<1>1. IsFiniteSet(Waiting(t, queue))
  BY DEF Budget
<1>2. /\ IsFiniteSet(Waiting(t, queue'))
      /\ m.task # t => Waiting(t, queue') = Waiting(t, queue)
      /\ m.task = t =>
           Cardinality(Waiting(t, queue')) + m.retries
             = Cardinality(Waiting(t, queue)) + (MaxRetries + 1)
  BY <1>1, WaitingPublished
<1>3. PICK e : e = (IF g = 1 THEN MaxRetries + 1 ELSE 0)
  OBVIOUS
<1>4. e \in Nat
  BY <1>3, ScanAssumption
<1>5. First(t, run[w]) \in Nat /\ First(t, run'[w]) \in Nat
  <2>1. run[w] \in Run \cup {Idle} /\ run'[w] \in Run \cup {Idle}
    BY DEF TypeOK
  <2> QED
    BY <2>1, FirstTyped
<1>6. Len(jobs[t]) \in Nat
  <2>1. jobs[t] \in Seq(JobStatus)
    BY DEF TypeOK
  <2> QED
    BY <2>1
<1>7. PICK d \in Nat, k \in Nat :
        /\ Cardinality(Waiting(t, queue')) + k = Cardinality(Waiting(t, queue)) + d
        /\ d + First(t, run[w]) <= k + First(t, run'[w]) + e
  <2>1. CASE m.task = t
    <3>1. m.retries \in Nat /\ MaxRetries + 1 \in Nat
      BY ScanAssumption DEF Message
    <3> QED
      BY <1>2, <1>3, <2>1, <3>1
  <2>2. CASE m.task # t
    <3>1. Cardinality(Waiting(t, queue')) + 0 = Cardinality(Waiting(t, queue)) + 0
      BY <1>2, <2>2
    <3>2. 0 + First(t, run[w]) <= 0 + First(t, run'[w]) + e
      BY <1>4, <1>5, <2>2
    <3> QED
      BY <3>1, <3>2
  <2> QED
    BY <2>1, <2>2
<1>8. Len(jobs'[t]) + d + First(t, run[w])
        <= Len(jobs[t]) + k + First(t, run'[w]) + (IF g = 1 THEN MaxRetries + 1 ELSE 0)
  <2>1. Len(jobs[t]) + d + First(t, run[w]) <= Len(jobs[t]) + k + First(t, run'[w]) + e
    <3>1. PICK f \in Nat, f2 \in Nat : f = First(t, run[w]) /\ f2 = First(t, run'[w])
      BY <1>5
    <3>2. d + f <= k + f2 + e
      BY <1>7, <3>1
    <3>3. \A l \in Nat : l + d + f <= l + k + f2 + e
      BY <1>4, <3>2
    <3>4. Len(jobs'[t]) = Len(jobs[t])
      BY <1>1
    <3> QED
      BY <1>6, <3>1, <3>3, <3>4
  <2> QED
    BY <1>3, <2>1
<1> QED
  BY <1>2, <1>7, <1>8, BudgetMoves

LEMMA LenKept ==
  ASSUME NEW s \in Seq(JobStatus), NEW i, NEW e
  PROVE  Len([s EXCEPT ![i] = e]) = Len(s)
OBVIOUS

LEMMA UpdateKeepsLen ==
  ASSUME TypeOK, NEW t \in Tasks, NEW w \in Workers, NEW status \in JobStatus,
         \/ jobs' = [jobs EXCEPT ![Task(w)][run[w].job] = status]
         \/ UNCHANGED jobs
  PROVE  Len(jobs'[t]) = Len(jobs[t])
<1>1. jobs[t] \in Seq(JobStatus)
  BY DEF TypeOK
<1>2. \/ jobs'[t] = jobs[t]
      \/ jobs'[t] = [jobs[t] EXCEPT ![run[w].job] = status]
  BY DEF TypeOK
<1> QED
  BY <1>1, <1>2, LenKept

(* Where the first attempt left of a task is, by control point.            *)
LEMMA FirstAt ==
  ASSUME NEW t \in Tasks, NEW r \in Run \cup {Idle}
  PROVE  /\ r.pc \in {"idle", "release", "ack"} => First(t, r) = MaxRetries + 1
         /\ r.pc # "idle" /\ r.msg.task # t => First(t, r) = MaxRetries + 1
         /\ r.pc \in {"lock", "setup"} /\ r.msg.task = t =>
              First(t, r) = r.msg.retries
         /\ r.pc = "scan" /\ r.msg.task = t => First(t, r) = r.msg.retries + 1
         /\ r.pc # "idle" => r.msg \in Message /\ r.msg.retries \in 0..MaxRetries
BY DEF First, Run, Idle, Message

(* A step of a worker that neither takes nor sends a message: an attempt   *)
(* that is given up pays for the document, if there is one.                *)
LEMMA WorkerKeepsBudget ==
  ASSUME TypeOK, TypeOK', NEW t \in Tasks, Budget(t), NEW w \in Workers,
         NEW pc \in {"setup", "release", "ack"}, GoTo(w, pc), run[w].pc # "idle",
         run[w].pc = "ack" => pc = "ack",
         pc = "setup" => run[w].pc = "lock",
         UNCHANGED <<dispatched, queue, outages>>,
         \/ Len(jobs'[t]) = Len(jobs[t])
         \/ /\ Task(w) = t /\ run[w].pc = "lock" /\ pc = "ack"
            /\ Len(jobs'[t]) = Len(jobs[t]) + 1
  PROVE  Budget(t)'
<1>1. /\ run'[w].pc = pc /\ run'[w].msg = run[w].msg
      /\ \A v \in Workers \ {w} : run'[v] = run[v]
  BY Moved
<1>2. run[w] \in Run \cup {Idle} /\ run'[w] \in Run \cup {Idle}
  BY DEF TypeOK
<1>3. /\ First(t, run[w]) \in 0..MaxRetries + 1
      /\ First(t, run'[w]) \in 0..MaxRetries + 1
  BY <1>2, FirstTyped
<1>4. jobs[t] \in Seq(JobStatus)
  BY DEF TypeOK
<1>5. Len(jobs[t]) \in Nat
  BY <1>4
<1>6. CASE pc = "setup"
  <2>1. First(t, run'[w]) = First(t, run[w])
    BY <1>1, <1>6 DEF First
  <2>2. Len(jobs'[t]) = Len(jobs[t])
    BY <1>6
  <2> QED
    BY <1>1, <1>3, <1>5, <2>1, <2>2, BudgetSpent
<1>7. CASE pc # "setup"
  <2>1. First(t, run'[w]) = MaxRetries + 1
    BY <1>1, <1>2, <1>7, FirstAt
  <2>2. Task(w) = t /\ run[w].pc = "lock" => First(t, run[w]) <= MaxRetries
    BY <1>2, FirstAt, ScanAssumption DEF Task
  <2>3. Len(jobs'[t]) + First(t, run[w]) <= Len(jobs[t]) + First(t, run'[w])
    <3>1. PICK f \in 0..MaxRetries + 1 : f = First(t, run[w])
      BY <1>3
    <3>2. PICK l \in Nat : l = Len(jobs[t])
      BY <1>5
    <3>3. PICK n : n = Len(jobs'[t])
      OBVIOUS
    <3>4. n = l \/ (n = l + 1 /\ f <= MaxRetries)
      BY <2>2, <3>1, <3>2, <3>3
    <3>5. n + f <= l + (MaxRetries + 1)
      BY <3>4, ScanAssumption
    <3> QED
      BY <2>1, <3>1, <3>2, <3>3, <3>5
  <2> QED
    BY <1>1, <2>3, BudgetSpent
<1> QED
  BY <1>6, <1>7

LEMMA BudgetOfWorker ==
  ASSUME TypeOK, TypeOK', NEW t \in Tasks, Budget(t), NEW w \in Workers, Worker(w)
  PROVE  Budget(t)'
<1>r. run[w] \in Run \cup {Idle} /\ run'[w] \in Run \cup {Idle}
  BY DEF TypeOK
<1>l. jobs[t] \in Seq(JobStatus) /\ Len(jobs[t]) \in Nat
  BY DEF TypeOK
<1>1. ASSUME Acquire(w) \/ AbortEarly(w) \/ SetupFails(w) \/ Release(w)
      PROVE  Budget(t)'
  <2>1. PICK pc \in {"setup", "release", "ack"} :
          /\ GoTo(w, pc) /\ run[w].pc \in {"lock", "setup", "release"}
          /\ pc = "setup" => run[w].pc = "lock"
    BY <1>1 DEF Acquire, AbortEarly, SetupFails, Release
  <2>2. UNCHANGED <<dispatched, queue, outages, jobs>>
    BY <1>1 DEF Acquire, AbortEarly, SetupFails, Release, CountError, faults
  <2> QED
    BY <2>1, <2>2, WorkerKeepsBudget
<1>2. ASSUME Skip(w)
      PROVE  Budget(t)'
  <2>1. /\ GoTo(w, "ack") /\ run[w].pc = "lock"
        /\ UNCHANGED <<dispatched, queue, outages>>
    BY <1>2 DEF Skip, faults
  <2>2. \/ Len(jobs'[t]) = Len(jobs[t])
        \/ Task(w) = t /\ Len(jobs'[t]) = Len(jobs[t]) + 1
    <3>1. CASE Task(w) = t
      <4>1. jobs'[t] = Append(jobs[t], "skipped")
        BY <1>2, <3>1 DEF Skip, TypeOK
      <4> QED
        BY <1>l, <3>1, <4>1
    <3>2. CASE Task(w) # t
      BY <1>2, <3>2 DEF Skip, TypeOK
    <3> QED
      BY <3>1, <3>2
  <2> QED
    BY <2>1, <2>2, WorkerKeepsBudget
<1>3. ASSUME StartJob(w)
      PROVE  Budget(t)'
  <2>1. run[w] \in Run /\ run[w].pc = "setup"
    BY <1>3, BusyWorker DEF StartJob
  <2>2. /\ run'[w].pc = "scan" /\ run'[w].msg = run[w].msg
        /\ \A v \in Workers \ {w} : run'[v] = run[v]
    BY <1>3, <2>1 DEF StartJob, TypeOK, Run
  <2>3. UNCHANGED <<dispatched, queue, outages>>
    BY <1>3 DEF StartJob, faults
  <2>4. CASE Task(w) = t
    <3>1. jobs'[t] = Append(jobs[t], "running")
      BY <1>3, <2>4 DEF StartJob, TypeOK
    <3>2. Len(jobs'[t]) = Len(jobs[t]) + 1
      BY <1>l, <3>1
    <3>3. /\ run[w].msg.retries \in 0..MaxRetries
          /\ First(t, run[w]) = run[w].msg.retries
          /\ First(t, run'[w]) = run[w].msg.retries + 1
      BY <1>r, <2>1, <2>2, <2>4, FirstAt DEF Task
    <3>4. Len(jobs'[t]) + First(t, run[w]) <= Len(jobs[t]) + First(t, run'[w])
      BY <1>l, <3>2, <3>3
    <3> QED
      BY <2>2, <2>3, <3>4, BudgetSpent
  <2>5. CASE Task(w) # t
    <3>1. jobs'[t] = jobs[t]
      BY <1>3, <2>5 DEF StartJob, TypeOK
    <3>2. First(t, run[w]) = MaxRetries + 1 /\ First(t, run'[w]) = MaxRetries + 1
      BY <1>r, <2>1, <2>2, <2>5, FirstAt DEF Task
    <3>3. Len(jobs'[t]) + First(t, run[w]) <= Len(jobs[t]) + First(t, run'[w])
      BY <1>l, <3>1, <3>2, ScanAssumption
    <3> QED
      BY <2>2, <2>3, <3>3, BudgetSpent
  <2> QED
    BY <2>4, <2>5
<1>4. ASSUME ScanSucceeds(w) \/ ScanFails(w) \/ RetryUnsent(w)
      PROVE  Budget(t)'
  <2>1. GoTo(w, "release") /\ run[w].pc = "scan" /\ UNCHANGED <<dispatched, outages>>
    BY <1>4 DEF ScanSucceeds, ScanFails, RetryUnsent, UpdateJob, CountError, faults
  <2>2. \E status \in JobStatus :
          \/ jobs' = [jobs EXCEPT ![Task(w)][run[w].job] = status]
          \/ UNCHANGED jobs
    BY <1>4 DEF ScanSucceeds, ScanFails, RetryUnsent, UpdateJob, JobStatus, Terminal
  <2>3. Len(jobs'[t]) = Len(jobs[t])
    BY <2>2, UpdateKeepsLen
  <2>4. CASE UNCHANGED queue
    BY <2>1, <2>3, <2>4, WorkerKeepsBudget
  <2>5. CASE ~UNCHANGED queue
    <3>1. /\ run[w].msg.retries < MaxRetries
          /\ Publish([run[w].msg EXCEPT !.retries = @ + 1])
      BY <1>4, <2>5 DEF ScanSucceeds, ScanFails, RetryUnsent
    <3>2. PICK m \in Message : m = [run[w].msg EXCEPT !.retries = @ + 1]
      BY <2>1, <3>1, BusyWorker, NextAttempt
    <3>3. /\ run[w].msg \in Message
          /\ m.task = run[w].msg.task /\ m.retries = run[w].msg.retries + 1
      BY <2>1, <3>2, BusyWorker DEF Message
    <3>4. /\ run'[w].pc = "release"
          /\ \A v \in Workers \ {w} : run'[v] = run[v]
      BY <2>1, Moved
    <3>5. First(t, run'[w]) = MaxRetries + 1
      BY <1>r, <3>4, FirstAt
    <3>6. First(t, run[w]) \in 0..MaxRetries + 1
      BY <1>r, FirstTyped
    <3>7. m.task = t => First(t, run[w]) = m.retries
      BY <1>r, <2>1, <3>3, FirstAt
    <3>8. m.task # t => First(t, run[w]) <= First(t, run'[w])
      BY <3>5, <3>6, ScanAssumption
    <3>9. m.task = t => MaxRetries + 1 + First(t, run[w])
                          <= m.retries + First(t, run'[w])
                               + (IF 0 = 1 THEN MaxRetries + 1 ELSE 0)
      BY <3>5, <3>6, <3>7, ScanAssumption
    <3>10. outages' = outages + 0
      BY <2>1 DEF TypeOK
    <3>11. Publish(m)
      BY <3>1, <3>2
    <3> QED
      BY <2>1, <2>3, <3>4, <3>8, <3>9, <3>10, <3>11, BudgetPublished
  <2> QED
    BY <2>4, <2>5
<1>5. ASSUME Ack(w)
      PROVE  Budget(t)'
  <2>1. /\ run[w].pc = "ack" /\ run'[w].pc = "idle"
        /\ \A v \in Workers \ {w} : run'[v] = run[v]
        /\ UNCHANGED <<dispatched, queue, outages, jobs>>
    BY <1>5 DEF Ack, TypeOK, Idle, faults
  <2>2. First(t, run[w]) = MaxRetries + 1 /\ First(t, run'[w]) = MaxRetries + 1
    BY <1>r, <2>1, FirstAt
  <2>3. Len(jobs'[t]) + First(t, run[w]) <= Len(jobs[t]) + First(t, run'[w])
    BY <1>l, <2>1, <2>2, ScanAssumption
  <2> QED
    BY <2>1, <2>3, BudgetSpent
<1> QED
  BY <1>1, <1>2, <1>3, <1>4, <1>5 DEF Worker

LEMMA BudgetOfOutage ==
  ASSUME TypeOK, TypeOK', NEW t \in Tasks, Budget(t), NEW w \in Workers,
         Crash(w) \/ Redeliver(w)
  PROVE  Budget(t)'
<1>1. /\ run[w] # Idle
      /\ outages' = outages + 1
      /\ UNCHANGED <<dispatched, jobs>>
  BY DEF Crash, Redeliver, CountOutage
<1>2. run[w] \in Run /\ run'[w] \in Run \cup {Idle}
  BY <1>1 DEF TypeOK
<1>3. run[w].msg \in Message
  BY <1>2 DEF Run
<1>4. \A v \in Workers \ {w} : run'[v] = run[v]
  BY DEF Crash, Redeliver, TypeOK
<1>5. /\ First(t, run[w]) \in 0..MaxRetries + 1
      /\ First(t, run'[w]) \in 0..MaxRetries + 1
  BY <1>2, FirstTyped
<1>6. First(t, run[w]) <= First(t, run'[w])
  <2>1. CASE Crash(w)
    <3>1. run'[w].pc = "idle"
      BY <2>1 DEF Crash, TypeOK, Idle
    <3>2. First(t, run'[w]) = MaxRetries + 1
      BY <1>2, <3>1, FirstAt
    <3> QED
      BY <1>5, <3>2, ScanAssumption
  <2>2. CASE Redeliver(w)
    <3>1. run'[w] = [run[w] EXCEPT !.unacked = FALSE]
      BY <2>2 DEF Redeliver, TypeOK
    <3>2. run'[w].pc = run[w].pc /\ run'[w].msg = run[w].msg
      BY <1>2, <3>1 DEF Run
    <3>3. First(t, run'[w]) = First(t, run[w])
      BY <3>2 DEF First
    <3> QED
      BY <1>5, <3>3
  <2> QED
    BY <2>1, <2>2
<1>7. CASE Publish(run[w].msg)
  <2>1. PICK m \in Message : m = run[w].msg
    BY <1>3
  <2>2. MaxRetries + 1 + First(t, run[w])
          <= m.retries + First(t, run'[w]) + (IF 1 = 1 THEN MaxRetries + 1 ELSE 0)
    <3>1. m.retries \in 0..MaxRetries
      BY DEF Message
    <3> QED
      BY <1>5, <1>6, <3>1, ScanAssumption
  <2>3. Publish(m) /\ Len(jobs'[t]) = Len(jobs[t])
    BY <1>1, <1>7, <2>1
  <2> QED
    BY <1>1, <1>4, <1>6, <2>2, <2>3, BudgetPublished
<1>8. CASE UNCHANGED queue
  <2>1. IsFiniteSet(Waiting(t, queue)) /\ Waiting(t, queue') = Waiting(t, queue)
    BY <1>8 DEF Budget
  <2>2. Cardinality(Waiting(t, queue')) + 0 = Cardinality(Waiting(t, queue)) + 0
    BY <2>1
  <2>3. jobs[t] \in Seq(JobStatus)
    BY DEF TypeOK
  <2>4. Len(jobs'[t]) + 0 + First(t, run[w])
          <= Len(jobs[t]) + 0 + First(t, run'[w]) + (IF 1 = 1 THEN MaxRetries + 1 ELSE 0)
    <3>1. Len(jobs[t]) \in Nat
      BY <2>3
    <3> QED
      BY <1>1, <1>5, <1>6, <3>1, ScanAssumption
  <2> QED
    BY <1>1, <1>4, <2>1, <2>2, <2>4, BudgetMoves
<1> QED
  BY <1>7, <1>8 DEF Crash, Redeliver

LEMMA BudgetOfDelivery ==
  ASSUME TypeOK, TypeOK', NEW t \in Tasks, Budget(t),
         NEW w \in Workers, NEW m \in Message, Deliver(w, m)
  PROVE  Budget(t)'
<1>1. /\ run'[w].pc = "lock" /\ run'[w].msg = m /\ run[w].pc = "idle"
      /\ \A v \in Workers \ {w} : run'[v] = run[v]
      /\ UNCHANGED <<dispatched, outages, jobs>>
  BY DEF Deliver, TypeOK, Idle, faults
<1>2. run[w] \in Run \cup {Idle} /\ run'[w] \in Run \cup {Idle}
  BY DEF TypeOK
<1>3. queue \in [Message -> Nat] /\ queue' \in [Message -> Nat]
  BY DEF TypeOK
<1>4. First(t, run[w]) = MaxRetries + 1
  BY <1>1, <1>2, FirstAt
<1>5. jobs[t] \in Seq(JobStatus)
  BY DEF TypeOK
<1>6. Len(jobs[t]) \in Nat
  BY <1>5
<1>7. IsFiniteSet(Waiting(t, queue))
  BY DEF Budget
<1>8. m.retries \in 0..MaxRetries
  BY DEF Message
<1>9. outages' = outages + 0
  BY <1>1 DEF TypeOK
<1>10. CASE m.task = t
  <2>1. First(t, run'[w]) = m.retries
    BY <1>1, <1>2, <1>10, FirstAt
  <2>2. queue = [queue' EXCEPT ![m] = @ + 1]
    <3>1. PICK q \in [Message -> Nat] : q = queue'
      BY <1>3
    <3>2. queue[m] \in Nat /\ queue[m] > 0 /\ q = [queue EXCEPT ![m] = queue[m] - 1]
      BY <1>3, <3>1 DEF Deliver
    <3>3. q[m] + 1 = queue[m] /\ \A k \in Message \ {m} : q[k] = queue[k]
      BY <1>3, <3>2
    <3>4. queue = [q EXCEPT ![m] = q[m] + 1]
      BY <1>3, <3>3
    <3> QED
      BY <3>1, <3>4
  <2>3. /\ IsFiniteSet(Waiting(t, queue'))
        /\ Cardinality(Waiting(t, queue)) + m.retries
             = Cardinality(Waiting(t, queue')) + (MaxRetries + 1)
    BY <1>3, <1>7, <1>10, <2>2, WaitingGrows, ZenonT(30)
  <2>4. PICK d \in Nat, k \in Nat : d = m.retries /\ k = MaxRetries + 1
    BY <1>8, ScanAssumption
  <2>5. Cardinality(Waiting(t, queue')) + k = Cardinality(Waiting(t, queue)) + d
    BY <2>3, <2>4
  <2>6. Len(jobs'[t]) + d + First(t, run[w])
          <= Len(jobs[t]) + k + First(t, run'[w]) + (IF 0 = 1 THEN MaxRetries + 1 ELSE 0)
    BY <1>1, <1>4, <1>6, <2>1, <2>4
  <2> QED
    BY <1>1, <1>9, <2>3, <2>5, <2>6, BudgetMoves
<1>11. CASE m.task # t
  <2>1. First(t, run'[w]) = MaxRetries + 1
    BY <1>1, <1>2, <1>11, FirstAt
  <2>2. \A k \in Message \ {m} : queue'[k] = queue[k]
    BY <1>3 DEF Deliver
  <2>3. Waiting(t, queue') = Waiting(t, queue)
    BY <1>3, <1>11, <2>2, WaitingElsewhere
  <2>4. Cardinality(Waiting(t, queue')) + 0 = Cardinality(Waiting(t, queue)) + 0
    BY <2>3
  <2>5. Len(jobs'[t]) + 0 + First(t, run[w])
          <= Len(jobs[t]) + 0 + First(t, run'[w]) + (IF 0 = 1 THEN MaxRetries + 1 ELSE 0)
    BY <1>1, <1>4, <1>6, <2>1, ScanAssumption
  <2> QED
    BY <1>1, <1>7, <1>9, <2>3, <2>4, <2>5, BudgetMoves
<1> QED
  BY <1>10, <1>11

LEMMA BudgetOfDispatch ==
  ASSUME TypeOK, TypeOK', NEW t \in Tasks, Budget(t), NEW u \in Tasks, Dispatch(u)
  PROVE  Budget(t)'
<1>1. PICK m \in Message : m = [task |-> u, retries |-> 0]
  <2>1. [task |-> u, retries |-> 0] \in Message
    BY ScanAssumption DEF Message
  <2> QED
    BY <2>1
<1>2. /\ Publish(m) /\ m.task = u /\ m.retries = 0
      /\ UNCHANGED <<run, jobs, outages>>
      /\ u \notin dispatched /\ dispatched' = dispatched \cup {u}
  BY <1>1 DEF Dispatch, faults
<1>3. Held(t)' = Held(t)
  BY <1>2 DEF Held
<1>4. /\ IsFiniteSet(Held(t)) /\ IsFiniteSet(Waiting(t, queue))
      /\ Len(jobs[t]) + Cardinality(Held(t)) + Cardinality(Waiting(t, queue))
           <= (1 + MaxRetries) * Sends(t)
  BY DEF Budget
<1>5. /\ IsFiniteSet(Waiting(t, queue'))
      /\ u # t => Waiting(t, queue') = Waiting(t, queue)
      /\ u = t => Cardinality(Waiting(t, queue')) + 0
                    = Cardinality(Waiting(t, queue)) + (MaxRetries + 1)
  BY <1>2, <1>4, WaitingPublished
<1>6. CASE u # t
  <2>1. Sends(t)' = Sends(t)
    BY <1>2, <1>6 DEF Sends
  <2>2. Waiting(t, queue') = Waiting(t, queue)
    BY <1>5, <1>6
  <2> QED
    BY <1>2, <1>3, <1>4, <2>1, <2>2 DEF Budget
<1>7. CASE u = t
  <2>1. Sends(t) \in Nat /\ Sends(t)' = Sends(t) + 1
    BY <1>2, <1>7 DEF Sends, TypeOK
  <2>2. /\ (1 + MaxRetries) * Sends(t) \in Nat
        /\ (1 + MaxRetries) * Sends(t)' = (1 + MaxRetries) * Sends(t) + (1 + MaxRetries)
    BY <2>1, OneMoreSend
  <2>3. PICK s \in Nat : s = (1 + MaxRetries) * Sends(t)
    BY <2>2
  <2>4. PICK l \in Nat : l = Len(jobs[t])
    <3>1. jobs[t] \in Seq(JobStatus)
      BY DEF TypeOK
    <3> QED
      BY <3>1
  <2>5. PICK h \in Nat : h = Cardinality(Held(t))
    BY <1>4, FS_CardinalityType
  <2>6. PICK q \in Nat : q = Cardinality(Waiting(t, queue))
    BY <1>4, FS_CardinalityType
  <2>7. PICK r \in Nat : r = Cardinality(Waiting(t, queue'))
    BY <1>5, FS_CardinalityType
  <2>8. l + h + q <= s /\ r + 0 = q + (MaxRetries + 1)
    BY <1>4, <1>5, <1>7, <2>3, <2>4, <2>5, <2>6, <2>7
  <2>9. l + h + r <= s + (1 + MaxRetries)
    BY <2>8, ScanAssumption
  <2>10. Len(jobs'[t]) + Cardinality(Held(t)') + Cardinality(Waiting(t, queue'))
           <= (1 + MaxRetries) * Sends(t)'
    BY <1>2, <1>3, <2>2, <2>3, <2>4, <2>5, <2>7, <2>9
  <2> QED
    BY <1>3, <1>4, <1>5, <2>10 DEF Budget
<1> QED
  BY <1>6, <1>7

LEMMA BudgetStep ==
  ASSUME TypeOK, BudgetInv, [Next]_vars
  PROVE  BudgetInv'
<1> SUFFICES ASSUME NEW t \in Tasks PROVE Budget(t)'
  BY DEF BudgetInv
<1>t. TypeOK' /\ Budget(t)
  BY TypeStep DEF BudgetInv
<1>1. ASSUME Tick \/ UNCHANGED vars
      PROVE  Budget(t)'
  <2>1. UNCHANGED <<dispatched, queue, run, jobs, outages>>
    BY <1>1 DEF Tick, vars, faults
  <2>2. Held(t)' = Held(t) /\ Sends(t)' = Sends(t)
    BY <2>1 DEF Held, Sends
  <2> QED
    BY <1>t, <2>1, <2>2 DEF Budget
<1> QED
  BY <1>t, <1>1, BudgetOfWorker, BudgetOfOutage, BudgetOfDelivery, BudgetOfDispatch
     DEF Next

LEMMA BudgetInit == Init => BudgetInv
<1> SUFFICES ASSUME Init, NEW t \in Tasks PROVE Budget(t)
  BY DEF BudgetInv
<1>1. \A w \in Workers : First(t, run[w]) = MaxRetries + 1
  BY DEF Init, First, Idle
<1>2. Held(t) = {}
  BY <1>1, ScanAssumption DEF Held, Attempts
<1>3. \A i \in Attempts : queue[[task |-> t, retries |-> i]] = 0
  BY DEF Init, Message, Attempts
<1>4. Waiting(t, queue) = {}
  BY <1>3 DEF Waiting
<1>5. Len(jobs[t]) = 0 /\ Sends(t) = 0
  BY DEF Init, Sends
<1>6. (1 + MaxRetries) * Sends(t) = 0
  BY <1>5, ScanAssumption
<1>7. IsFiniteSet({}) /\ Cardinality({}) = 0
  BY FS_EmptySet
<1> QED
  BY <1>2, <1>4, <1>5, <1>6, <1>7 DEF Budget

(* A task makes at most 1 + max_retries attempts, and as many again for    *)
(* each outage: what is in the queue and with the workers never stands for *)
(* more than what the budget has left.                                     *)
THEOREM RetriesAreBounded == Spec => []RetryBudget
<1>1. TypeOK /\ BudgetInv => RetryBudget
  <2> SUFFICES ASSUME TypeOK, BudgetInv, NEW t \in Tasks
               PROVE  Len(jobs[t]) <= (1 + MaxRetries) * (1 + outages)
    BY DEF RetryBudget
  <2>1. Budget(t)
    BY DEF BudgetInv
  <2>2. Cardinality(Held(t)) \in Nat /\ Cardinality(Waiting(t, queue)) \in Nat
    BY <2>1, FS_CardinalityType DEF Budget
  <2>3. jobs[t] \in Seq(JobStatus) /\ outages \in Nat
    BY DEF TypeOK
  <2>4. /\ (1 + MaxRetries) * outages \in Nat
        /\ (1 + MaxRetries) * (outages + 1) = (1 + MaxRetries) * outages + (1 + MaxRetries)
    BY <2>3, OneMoreSend
  <2>5. (1 + MaxRetries) * Sends(t) <= (1 + MaxRetries) * (outages + 1)
    BY <2>4, ScanAssumption DEF Sends
  <2>6. PICK l \in Nat : l = Len(jobs[t])
    BY <2>3
  <2>7. PICK s : s = (1 + MaxRetries) * Sends(t)
    OBVIOUS
  <2>8. s \in Nat
    <3>1. Sends(t) \in Nat
      BY <2>3 DEF Sends
    <3> QED
      BY <2>7, <3>1, OneMoreSend
  <2>9. l <= s
    BY <2>1, <2>2, <2>6, <2>7, <2>8 DEF Budget
  <2> QED
    BY <2>3, <2>4, <2>5, <2>6, <2>7, <2>8, <2>9, ScanAssumption
<1> QED
  BY <1>1, TypeInit, TypeStep, BudgetInit, BudgetStep, PTL DEF Spec
=============================================================================
