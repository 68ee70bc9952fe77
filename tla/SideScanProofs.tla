---------------------------- MODULE SideScanProofs ----------------------------
(***************************************************************************)
(* Theorems about SideScan, for every number of jobs, workers, resource    *)
(* names, retries and faults.                                              *)
(***************************************************************************)
EXTENDS SideScan, TLAPS, SequenceTheorems, FiniteSetTheorems

(* An attempt has a snapshot from its creation to its deletion, and with   *)
(* it a name no other attempt has.                                         *)
HoldsSnapshot ==
  \A w \in Workers :
    /\ run[w].id # NoId <=> run[w].snap
    /\ run[w].snap => run[w].id \in snapshots
    /\ run[w].pc \in {"wait", "trivy"} \cup YaraSteps => run[w].snap

(* Its snapshot is no older than the attempt itself.                       *)
InTime ==
  \A w \in Workers : run[w].snap => age[run[w].id] <= run[w].age

NamesDiffer ==
  \A v, w \in Workers : run[v].snap /\ run[v].id = run[w].id => v = w

(* A worker counts on its volume being attached from the attachment on,    *)
(* until it detaches it; it has mounted it only in that time and after.    *)
OnDevice(w) ==
  \/ run[w].pc \in {"mount", "yara"}
  \/ run[w].mounted /\ run[w].pc \in {"trivy", "umount", "detach"}

DeviceShared ==
  /\ \A w \in Workers :
       /\ run[w].mounted => run[w].snap /\ run[w].pc \in {"yara", "trivy"} \cup CleanupSteps
       /\ OnDevice(w) => volumes[run[w].id] = "attached"
  /\ \A i, k \in Ids :
       volumes[i] # "none" /\ volumes[i] # "available"
         /\ volumes[k] # "none" /\ volumes[k] # "available" => i = k

(* The inductive invariant behind YaraReadsOwnVolume: the device admits    *)
(* one volume, so whoever mounts or unmounts is the only one on the path.  *)
IInv ==
  /\ TypeOK
  /\ HoldsSnapshot
  /\ InTime
  /\ NamesDiffer
  /\ DeviceShared
  /\ YaraReadsOwnVolume

(* Moving a worker to another control point keeps run well typed.          *)
LEMMA GoToTyped ==
  ASSUME TypeOK, NEW w \in Workers,
         NEW pc \in {"snapshot", "volume", "mount", "trivy", "umount", "detach",
                     "delete", "unsnap", "ack"},
         GoTo(w, pc)
  PROVE  run' \in [Workers -> Run]
<1>1. run[w] \in Run
  BY DEF TypeOK
<1>2. [run[w] EXCEPT !.pc = pc] \in Run
  BY <1>1 DEF Run, YaraSteps, CleanupSteps
<1> QED
  BY <1>2 DEF TypeOK, GoTo

LEMMA PublishTyped ==
  ASSUME TypeOK, NEW m, Publish(m)
  PROVE  queue' \in [Message -> Nat]
<1>1. \A n \in Message : queue'[n] \in Nat
  <2>1. ASSUME NEW n \in Message PROVE queue'[n] = IF n = m THEN queue[n] + 1 ELSE queue[n]
    BY DEF Publish, TypeOK
  <2> QED
    BY <2>1 DEF TypeOK
<1>2. queue' = [n \in Message |-> queue'[n]]
  BY DEF Publish, TypeOK
<1> QED
  BY <1>1, <1>2

(* umount leaves a sequence of mounts.                                     *)
LEMMA PopTyped ==
  ASSUME NEW S, NEW s \in Seq(S)
  PROVE  Pop(s) \in Seq(S)
<1>1. CASE s = << >>
  BY <1>1 DEF Pop
<1>2. CASE s # << >>
  <2>1. Len(s) \in Nat /\ Len(s) - 1 \in 0..Len(s)
    BY <1>2
  <2>2. SubSeq(s, 1, Len(s) - 1) \in Seq(S)
    BY <2>1, SubSeqProperties
  <2> QED
    BY <1>2, <2>2 DEF Pop
<1> QED
  BY <1>1, <1>2

LEMMA IdleTyped == Idle \in Run
<1>1. 0 \in AttemptAges
  BY SideScanAssumption DEF AttemptAges
<1> QED
  BY <1>1 DEF Idle, Run

LEMMA SetJobTyped ==
  ASSUME TypeOK, NEW j, NEW status \in {"running"} \cup Terminal, SetJob(j, status)
  PROVE  /\ jobs' \in [Jobs -> {"none", "missing", "queued", "running"} \cup Terminal]
         /\ outages' \in Nat
         /\ errors' \in Nat
<1>1. CASE /\ jobs' = [jobs EXCEPT ![j] = IF @ = "missing" THEN @ ELSE status]
           /\ UNCHANGED faults
  BY <1>1 DEF TypeOK, faults
<1>2. CASE CountError /\ UNCHANGED jobs
  BY <1>2 DEF TypeOK, CountError
<1> QED
  BY <1>1, <1>2 DEF SetJob

LEMMA FreshIsUnused ==
  ASSUME Unused # {}
  PROVE  /\ Fresh \in Ids
         /\ Fresh \notin snapshots
         /\ volumes[Fresh] = "none"
         /\ \A w \in Workers : run[w].id # Fresh
<1>1. Fresh \in Unused
  BY DEF Fresh
<1> QED
  BY <1>1 DEF Unused

(* Every variable keeps its type; what is mounted is the volume of an      *)
(* attempt, so its name is one of Ids.                                     *)
LEMMA TypeStep ==
  ASSUME TypeOK, HoldsSnapshot, [Next]_vars
  PROVE  TypeOK'
<1> USE DEF faults, aws
<1>1. ASSUME NEW j \in Jobs, Enqueue(j)
      PROVE  TypeOK'
  <2>1. queue' \in [Message -> Nat] /\ outages' \in Nat /\ errors' \in Nat
    BY <1>1 DEF Enqueue, Publish, CountError, TypeOK
  <2>2. jobs' = [jobs EXCEPT ![j] = "queued"] \/ jobs' = [jobs EXCEPT ![j] = "missing"]
    BY <1>1 DEF Enqueue
  <2>3. jobs' \in [Jobs -> {"none", "missing", "queued", "running"} \cup Terminal]
    BY <2>2 DEF TypeOK
  <2>4. UNCHANGED <<run, snapshots, age, volumes, path>>
    BY <1>1 DEF Enqueue
  <2> QED
    BY <2>1, <2>3, <2>4 DEF TypeOK
<1>2. ASSUME NEW w \in Workers, NEW m \in Message, Deliver(w, m)
      PROVE  TypeOK'
  <2>1. run' \in [Workers -> Run]
    <3>1. [run[w] EXCEPT !.pc = "prepare", !.msg = m] \in Run
      BY <1>2, IdleTyped DEF Deliver, Run
    <3>2. [run[w] EXCEPT !.pc = "ack", !.msg = m] \in Run
      BY <1>2, IdleTyped DEF Deliver, Run
    <3> QED
      BY <1>2, <3>1, <3>2 DEF Deliver, TypeOK
  <2>2. queue' \in [Message -> Nat]
    BY <1>2 DEF Deliver, TypeOK
  <2>3. /\ jobs' \in [Jobs -> {"none", "missing", "queued", "running"} \cup Terminal]
        /\ outages' \in Nat
        /\ errors' \in Nat
    <3>1. CASE SetJob(m.job, "running")
      BY <3>1, SetJobTyped
    <3>2. CASE CountError /\ UNCHANGED jobs
      BY <3>2 DEF TypeOK, CountError
    <3> QED
      BY <1>2, <3>1, <3>2 DEF Deliver
  <2> QED
    BY <1>2, <2>1, <2>2, <2>3 DEF Deliver, TypeOK
<1>3. ASSUME NEW m \in Message, Redeliver(m)
      PROVE  TypeOK'
  BY <1>3 DEF Redeliver, Publish, CountOutage, TypeOK
<1>4. ASSUME NEW w \in Workers, Crash(w) \/ HardLimit(w) \/ Ack(w)
      PROVE  TypeOK'
  <2>1. run' \in [Workers -> Run]
    BY <1>4, IdleTyped DEF Crash, HardLimit, Ack, TypeOK
  <2>2. queue' \in [Message -> Nat]
    BY <1>4, PublishTyped DEF Crash, HardLimit, Ack, TypeOK
  <2> QED
    BY <1>4, <2>1, <2>2 DEF Crash, HardLimit, Ack, CountOutage, CountError, TypeOK
<1>5. ASSUME NEW w \in Workers, Prepare(w) \/ PrepareFails(w)
      PROVE  TypeOK'
  BY <1>5, GoToTyped DEF Prepare, PrepareFails, CountError, TypeOK
<1>6. ASSUME NEW w \in Workers, CreateSnapshot(w)
      PROVE  TypeOK'
  <2>1. Fresh \in Ids
    BY <1>6, FreshIsUnused DEF CreateSnapshot
  <2>2. run[w] \in Run
    BY DEF TypeOK
  <2>3. [run[w] EXCEPT !.pc = "wait", !.id = Fresh, !.snap = TRUE] \in Run
    BY <2>1, <2>2 DEF Run
  <2>4. run' \in [Workers -> Run]
    BY <1>6, <2>3 DEF CreateSnapshot, TypeOK
  <2>5. age' \in [Ids -> SnapshotAges]
    <3>1. 0 \in SnapshotAges
      BY SideScanAssumption DEF SnapshotAges
    <3> QED
      BY <1>6, <3>1 DEF CreateSnapshot, TypeOK
  <2> QED
    BY <1>6, <2>1, <2>4, <2>5 DEF CreateSnapshot, TypeOK
<1>7. ASSUME NEW w \in Workers, SnapshotReady(w) \/ YaraEnds(w)
      PROVE  TypeOK'
  BY <1>7, GoToTyped DEF SnapshotReady, YaraEnds, TypeOK
<1>8. ASSUME NEW w \in Workers, CreateVolume(w)
      PROVE  TypeOK'
  <2>1. [run[w] EXCEPT !.pc = "attach", !.vol = TRUE] \in Run
    <3>1. PICK r \in Run : r = run[w]
      BY DEF TypeOK
    <3>2. [r EXCEPT !.pc = "attach", !.vol = TRUE] \in Run
      BY DEF Run, YaraSteps
    <3> QED
      BY <3>1, <3>2
  <2>2. run' \in [Workers -> Run]
    BY <1>8, <2>1 DEF CreateVolume, TypeOK
  <2> QED
    BY <1>8, <2>2 DEF CreateVolume, TypeOK
<1>9. ASSUME NEW w \in Workers, Attach(w)
      PROVE  TypeOK'
  BY <1>9, GoToTyped DEF Attach, TypeOK
<1>10. ASSUME NEW w \in Workers, Mount(w)
       PROVE  TypeOK'
  <2>1. [run[w] EXCEPT !.pc = "yara", !.mounted = TRUE] \in Run
    <3>1. PICK r \in Run : r = run[w]
      BY DEF TypeOK
    <3>2. [r EXCEPT !.pc = "yara", !.mounted = TRUE] \in Run
      BY DEF Run, YaraSteps
    <3> QED
      BY <3>1, <3>2
  <2>2. run' \in [Workers -> Run]
    BY <1>10, <2>1 DEF Mount, TypeOK
  <2>3. run[w].id \in Ids
    BY <1>10 DEF Mount, At, HoldsSnapshot, YaraSteps, TypeOK
  <2>4. path' \in Seq(Ids)
    BY <1>10, <2>3 DEF Mount, TypeOK
  <2> QED
    BY <1>10, <2>2, <2>4 DEF Mount, TypeOK
<1>11. ASSUME NEW w \in Workers, Analysed(w)
       PROVE  TypeOK'
  <2>1. [run[w] EXCEPT !.pc = "umount", !.ok = TRUE] \in Run
    <3>1. PICK r \in Run : r = run[w]
      BY DEF TypeOK
    <3>2. [r EXCEPT !.pc = "umount", !.ok = TRUE] \in Run
      BY DEF Run, CleanupSteps
    <3> QED
      BY <3>1, <3>2
  <2>2. run' \in [Workers -> Run]
    BY <1>11, <2>1 DEF Analysed, TypeOK
  <2> QED
    BY <1>11, <2>2 DEF Analysed, TypeOK
<1>12. ASSUME NEW w \in Workers, StepFails(w)
       PROVE  TypeOK'
  <2>1. run' \in [Workers -> Run]
    BY <1>12, GoToTyped DEF StepFails
  <2>2. CASE run[w].msg.retries < MaxRetries
    <3>1. queue' \in [Message -> Nat]
      BY <1>12, <2>2, PublishTyped DEF StepFails
    <3> QED
      BY <1>12, <2>1, <2>2, <3>1 DEF StepFails, TypeOK
  <2>3. CASE ~(run[w].msg.retries < MaxRetries)
    <3>1. SetJob(Job(w), "failed") /\ UNCHANGED queue
      BY <1>12, <2>3 DEF StepFails
    <3>2. /\ jobs' \in [Jobs -> {"none", "missing", "queued", "running"} \cup Terminal]
          /\ outages' \in Nat
          /\ errors' \in Nat
      BY <3>1, SetJobTyped DEF Terminal
    <3> QED
      BY <1>12, <2>1, <3>1, <3>2 DEF StepFails, TypeOK
  <2> QED
    BY <2>2, <2>3
<1>13. ASSUME NEW w \in Workers, SoftLimit(w)
       PROVE  TypeOK'
  <2>1. run' \in [Workers -> Run]
    BY <1>13, GoToTyped DEF SoftLimit
  <2>2. SetJob(Job(w), "failed") /\ UNCHANGED queue
    BY <1>13 DEF SoftLimit
  <2>3. /\ jobs' \in [Jobs -> {"none", "missing", "queued", "running"} \cup Terminal]
        /\ outages' \in Nat
        /\ errors' \in Nat
    BY <2>2, SetJobTyped DEF Terminal
  <2> QED
    BY <1>13, <2>1, <2>2, <2>3 DEF SoftLimit, TypeOK
<1>14. ASSUME NEW w \in Workers, Umount(w)
       PROVE  TypeOK'
  <2>1. run' \in [Workers -> Run]
    BY <1>14, GoToTyped DEF Umount
  <2>2. path' \in Seq(Ids)
    BY <1>14, PopTyped DEF Umount, TypeOK
  <2>3. outages' \in Nat /\ errors' \in Nat
    BY <1>14 DEF Umount, CountError, TypeOK
  <2> QED
    BY <1>14, <2>1, <2>2, <2>3 DEF Umount, TypeOK
<1>15. ASSUME NEW w \in Workers, Detach(w)
       PROVE  TypeOK'
  <2>1. run' \in [Workers -> Run]
    BY <1>15, GoToTyped DEF Detach
  <2>2. outages' \in Nat /\ errors' \in Nat
    BY <1>15 DEF Detach, CountError, TypeOK
  <2>3. volumes' \in [Ids -> {"none", "available", "attached", "detaching"}]
    BY <1>15 DEF Detach, TypeOK
  <2> QED
    BY <1>15, <2>1, <2>2, <2>3 DEF Detach, TypeOK
<1>16. ASSUME NEW w \in Workers, DeleteVolume(w)
       PROVE  TypeOK'
  <2>1. run' \in [Workers -> Run]
    BY <1>16, GoToTyped DEF DeleteVolume
  <2>2. outages' \in Nat /\ errors' \in Nat
    BY <1>16 DEF DeleteVolume, CountError, TypeOK
  <2>3. volumes' \in [Ids -> {"none", "available", "attached", "detaching"}]
    BY <1>16 DEF DeleteVolume, TypeOK
  <2> QED
    BY <1>16, <2>1, <2>2, <2>3 DEF DeleteVolume, TypeOK
<1>17. ASSUME NEW w \in Workers, DeleteSnapshot(w)
       PROVE  TypeOK'
  <2>1. \A pc \in {"persist", "ack"} :
          [run[w] EXCEPT !.pc = pc, !.id = NoId, !.snap = FALSE,
                         !.vol = FALSE, !.mounted = FALSE] \in Run
    <3>1. PICK r \in Run : r = run[w]
      BY DEF TypeOK
    <3>2. \A pc \in {"persist", "ack"} :
            [r EXCEPT !.pc = pc, !.id = NoId, !.snap = FALSE,
                      !.vol = FALSE, !.mounted = FALSE] \in Run
      BY DEF Run
    <3> QED
      BY <3>1, <3>2
  <2>2. run' \in [Workers -> Run]
    BY <1>17, <2>1 DEF DeleteSnapshot, TypeOK
  <2>3. snapshots' \subseteq Ids /\ outages' \in Nat /\ errors' \in Nat
    BY <1>17 DEF DeleteSnapshot, CountError, TypeOK
  <2> QED
    BY <1>17, <2>2, <2>3 DEF DeleteSnapshot, TypeOK
<1>18. ASSUME NEW w \in Workers, Persist(w)
       PROVE  TypeOK'
  <2>1. run' \in [Workers -> Run]
    BY <1>18, GoToTyped DEF Persist
  <2>2. /\ jobs' \in [Jobs -> {"none", "missing", "queued", "running"} \cup Terminal]
        /\ outages' \in Nat
        /\ errors' \in Nat
    BY <1>18, SetJobTyped DEF Persist, Terminal
  <2> QED
    BY <1>18, <2>1, <2>2 DEF Persist, TypeOK
<1>19. ASSUME NEW w \in Workers, PersistFails(w)
       PROVE  TypeOK'
  BY <1>19, GoToTyped DEF PersistFails, CountError, TypeOK
<1>20. ASSUME NEW i \in Ids, Detached(i)
       PROVE  TypeOK'
  BY <1>20 DEF Detached, TypeOK
<1>21. CASE Cleanup
  BY <1>21 DEF Cleanup, TypeOK
<1>22. CASE Tick
  <2>1. ASSUME NEW w \in Workers
        PROVE  run'[w] \in Run
    <3>1. PICK r \in Run : r = run[w]
      BY DEF TypeOK
    <3>2. CASE run[w] = Idle
      BY <1>22, <3>2, IdleTyped DEF Tick
    <3>3. CASE run[w] # Idle
      <4>1. r.age \in AttemptAges /\ r.age < TimeLimit
        BY <1>22, <3>1, <3>3 DEF Tick, Run
      <4>2. r.age + 1 \in AttemptAges
        BY <4>1, SideScanAssumption DEF AttemptAges
      <4>3. [r EXCEPT !.age = r.age + 1] \in Run
        BY <4>2 DEF Run
      <4> QED
        BY <1>22, <3>1, <3>3, <4>3 DEF Tick
    <3> QED
      BY <3>2, <3>3
  <2>2. ASSUME NEW i \in Ids
        PROVE  age'[i] \in SnapshotAges
    <3>1. age[i] \in SnapshotAges
      BY DEF TypeOK
    <3>2. age'[i] = CASE i \notin snapshots -> 0
                      [] i \in snapshots /\ age[i] < Ttl -> age[i] + 1
                      [] OTHER -> age[i]
      BY <1>22 DEF Tick
    <3> QED
      BY <3>1, <3>2, SideScanAssumption DEF SnapshotAges
  <2>3. run' \in [Workers -> Run] /\ age' \in [Ids -> SnapshotAges]
    <3>1. DOMAIN run' = Workers /\ run' = [w \in Workers |-> run'[w]]
      BY <1>22 DEF Tick
    <3>2. DOMAIN age' = Ids /\ age' = [i \in Ids |-> age'[i]]
      BY <1>22 DEF Tick
    <3> QED
      BY <2>1, <2>2, <3>1, <3>2
  <2> QED
    BY <1>22, <2>3 DEF Tick, TypeOK
<1>23. CASE UNCHANGED vars
  BY <1>23 DEF vars, TypeOK
<1> QED
  BY <1>1, <1>2, <1>3, <1>4, <1>5, <1>6, <1>7, <1>8, <1>9, <1>10, <1>11, <1>12,
     <1>13, <1>14, <1>15, <1>16, <1>17, <1>18, <1>19, <1>20, <1>21, <1>22, <1>23
     DEF Next, Worker

-----------------------------------------------------------------------------
(* The names of snapshots, and what is on the device                       *)

(* What an action does to the fields of run that the invariant looks at.   *)
SameButPc(w) ==
  \A v \in Workers :
    /\ v # w => run'[v] = run[v]
    /\ run'[v].id = run[v].id
    /\ run'[v].snap = run[v].snap
    /\ run'[v].mounted = run[v].mounted
    /\ run'[v].age = run[v].age

(* Time changes nothing of an attempt but its age.                         *)
SameButAge ==
  \A v \in Workers :
    /\ run'[v].pc = run[v].pc
    /\ run'[v].msg = run[v].msg
    /\ run'[v].id = run[v].id
    /\ run'[v].snap = run[v].snap
    /\ run'[v].mounted = run[v].mounted
    /\ run'[v].ok = run[v].ok

LEMMA TickChangesAge ==
  ASSUME TypeOK, Tick
  PROVE  SameButAge
<1>1. ASSUME NEW v \in Workers
      PROVE  run'[v] = IF run[v] = Idle THEN Idle ELSE [run[v] EXCEPT !.age = @ + 1]
  BY DEF Tick
<1>2. ASSUME NEW v \in Workers
      PROVE  run[v] \in Run
  BY DEF TypeOK
<1> QED
  BY <1>1, <1>2 DEF SameButAge, Run

(* A delivered message starts an attempt that holds nothing yet.           *)
LEMMA DeliverEffect ==
  ASSUME TypeOK, NEW w \in Workers, NEW m \in Message, Deliver(w, m)
  PROVE  /\ \A v \in Workers : v # w => run'[v] = run[v]
         /\ run'[w].pc \in {"prepare", "ack"} /\ run'[w].msg = m
         /\ run'[w].id = NoId /\ ~run'[w].snap /\ ~run'[w].mounted /\ ~run'[w].ok
<1>1. PICK pc \in {"prepare", "ack"} : run' = [run EXCEPT ![w] =
                                                [@ EXCEPT !.pc = pc, !.msg = m]]
  BY DEF Deliver
<1>2. run[w] = Idle /\ DOMAIN run = Workers
  BY DEF Deliver, TypeOK
<1>3. run'[w] = [Idle EXCEPT !.pc = pc, !.msg = m] /\ \A v \in Workers : v # w => run'[v] = run[v]
  BY <1>1, <1>2
<1> QED
  BY <1>3 DEF Idle

LEMMA GoToChangesPc ==
  ASSUME TypeOK, NEW w \in Workers, NEW pc, GoTo(w, pc)
  PROVE  SameButPc(w) /\ run'[w].pc = pc
<1>1. run \in [Workers -> Run] /\ run[w] \in Run
  BY DEF TypeOK
<1>2. run'[w] = [run[w] EXCEPT !.pc = pc]
  BY <1>1 DEF GoTo
<1>3. \A v \in Workers : v # w => run'[v] = run[v]
  BY <1>1 DEF GoTo
<1> QED
  BY <1>1, <1>2, <1>3 DEF SameButPc, Run

(* The fields changed by the steps that do more than move on.              *)
LEMMA CreateSnapshotEffect ==
  ASSUME TypeOK, NEW w \in Workers, CreateSnapshot(w)
  PROVE  /\ \A v \in Workers : v # w => run'[v] = run[v]
         /\ run[w].pc = "snapshot" /\ run'[w].pc = "wait"
         /\ run'[w].id = Fresh /\ run'[w].snap
         /\ run'[w].msg = run[w].msg /\ run'[w].age = run[w].age
         /\ run'[w].mounted = run[w].mounted /\ run'[w].ok = run[w].ok
<1>1. PICK r \in Run : r = run[w]
  BY DEF TypeOK
<1>2. /\ run'[w] = [r EXCEPT !.pc = "wait", !.id = Fresh, !.snap = TRUE]
      /\ \A v \in Workers : v # w => run'[v] = run[v]
  BY <1>1 DEF CreateSnapshot, TypeOK
<1>3. run[w].pc = "snapshot"
  BY DEF CreateSnapshot, At
<1> QED
  BY <1>1, <1>2, <1>3 DEF Run

LEMMA ProgressEffect ==
  ASSUME TypeOK, NEW w \in Workers, CreateVolume(w) \/ Mount(w) \/ Analysed(w)
  PROVE  /\ \A v \in Workers : v # w => run'[v] = run[v]
         /\ run'[w].id = run[w].id /\ run'[w].snap = run[w].snap
         /\ run'[w].msg = run[w].msg /\ run'[w].age = run[w].age
         /\ \/ /\ run[w].pc = "volume" /\ run'[w].pc = "attach"
               /\ run'[w].mounted = run[w].mounted /\ run'[w].ok = run[w].ok
            \/ /\ run[w].pc = "mount" /\ run'[w].pc = "yara"
               /\ run'[w].ok = run[w].ok
            \/ /\ run[w].pc = "trivy" /\ run'[w].pc = "umount"
               /\ run'[w].mounted = run[w].mounted /\ run'[w].ok
<1>1. PICK r \in Run : r = run[w]
  BY DEF TypeOK
<1>2. \A v \in Workers : v # w => run'[v] = run[v]
  BY DEF CreateVolume, Mount, Analysed, TypeOK
<1>3. \/ r.pc = "volume" /\ run'[w] = [r EXCEPT !.pc = "attach", !.vol = TRUE]
      \/ r.pc = "mount" /\ run'[w] = [r EXCEPT !.pc = "yara", !.mounted = TRUE]
      \/ r.pc = "trivy" /\ run'[w] = [r EXCEPT !.pc = "umount", !.ok = TRUE]
  BY <1>1 DEF CreateVolume, Mount, Analysed, At, TypeOK
<1> QED
  BY <1>1, <1>2, <1>3 DEF Run

LEMMA DeleteSnapshotEffect ==
  ASSUME TypeOK, NEW w \in Workers, DeleteSnapshot(w)
  PROVE  /\ \A v \in Workers : v # w => run'[v] = run[v]
         /\ run[w].pc = "unsnap"
         /\ run'[w].pc = IF run[w].ok THEN "persist" ELSE "ack"
         /\ run'[w].id = NoId /\ ~run'[w].snap /\ ~run'[w].mounted
         /\ run'[w].msg = run[w].msg /\ run'[w].ok = run[w].ok
<1>1. PICK r \in Run : r = run[w]
  BY DEF TypeOK
<1>2. /\ run'[w] = [r EXCEPT !.pc = IF r.ok THEN "persist" ELSE "ack", !.id = NoId,
                             !.snap = FALSE, !.vol = FALSE, !.mounted = FALSE]
      /\ \A v \in Workers : v # w => run'[v] = run[v]
  BY <1>1 DEF DeleteSnapshot, TypeOK
<1>3. run[w].pc = "unsnap"
  BY DEF DeleteSnapshot, At
<1> QED
  BY <1>1, <1>2, <1>3 DEF Run

LEMMA HoldsStep ==
  ASSUME IInv, [Next]_vars
  PROVE  HoldsSnapshot' /\ NamesDiffer'
<1> USE DEF IInv
<1>1. ASSUME UNCHANGED <<run, snapshots>>
      PROVE  HoldsSnapshot' /\ NamesDiffer'
  BY <1>1 DEF HoldsSnapshot, NamesDiffer
<1>2. ASSUME NEW w \in Workers, GoTo(w, run'[w].pc), UNCHANGED snapshots,
             run'[w].pc \in {"wait", "trivy"} \cup YaraSteps => run[w].snap
      PROVE  HoldsSnapshot' /\ NamesDiffer'
  <2>1. SameButPc(w)
    BY <1>2, GoToChangesPc
  <2> QED
    BY <1>2, <2>1 DEF HoldsSnapshot, NamesDiffer, SameButPc
<1>3. ASSUME NEW w \in Workers, NEW m \in Message, Deliver(w, m)
      PROVE  HoldsSnapshot' /\ NamesDiffer'
  <2>1. \A v \in Workers : v # w => run'[v] = run[v]
    BY <1>3 DEF Deliver, TypeOK
  <2>2. /\ run'[w].id = NoId /\ ~run'[w].snap
        /\ run'[w].pc \in {"prepare", "ack"}
    BY <1>3, DeliverEffect
  <2>3. UNCHANGED snapshots
    BY <1>3 DEF Deliver, aws
  <2> QED
    BY <2>1, <2>2, <2>3 DEF HoldsSnapshot, NamesDiffer, YaraSteps
<1>4. ASSUME NEW w \in Workers, run' = [run EXCEPT ![w] = Idle], UNCHANGED snapshots
      PROVE  HoldsSnapshot' /\ NamesDiffer'
  <2>1. \A v \in Workers : run'[v] = IF v = w THEN Idle ELSE run[v]
    BY <1>4 DEF TypeOK
  <2> QED
    BY <1>4, <2>1 DEF HoldsSnapshot, NamesDiffer, YaraSteps, Idle
<1>5. ASSUME NEW w \in Workers, CreateSnapshot(w)
      PROVE  HoldsSnapshot' /\ NamesDiffer'
  <2>1. Fresh \in Ids /\ \A v \in Workers : run[v].id # Fresh
    BY <1>5, FreshIsUnused DEF CreateSnapshot
  <2>2. \A v \in Workers : v # w => run'[v] = run[v]
    BY <1>5, CreateSnapshotEffect
  <2>3. run'[w].id = Fresh /\ run'[w].snap /\ run'[w].pc = "wait"
    BY <1>5, CreateSnapshotEffect
  <2>4. snapshots' = snapshots \cup {Fresh} /\ Fresh # NoId
    BY <1>5, <2>1, SideScanAssumption DEF CreateSnapshot
  <2> QED
    BY <2>1, <2>2, <2>3, <2>4 DEF HoldsSnapshot, NamesDiffer
<1>6. ASSUME NEW w \in Workers, CreateVolume(w) \/ Mount(w) \/ Analysed(w)
      PROVE  HoldsSnapshot' /\ NamesDiffer'
  <2>1. \A v \in Workers : v # w => run'[v] = run[v]
    BY <1>6, ProgressEffect
  <2>2. run'[w].id = run[w].id /\ run'[w].snap = run[w].snap
    BY <1>6, ProgressEffect
  <2>3. run[w].snap
    BY <1>6 DEF CreateVolume, Mount, Analysed, At, HoldsSnapshot, YaraSteps
  <2>4. UNCHANGED snapshots
    BY <1>6 DEF CreateVolume, Mount, Analysed, aws
  <2>5. \A v \in Workers : run'[v].id = run[v].id /\ run'[v].snap = run[v].snap
    BY <2>1, <2>2
  <2>6. HoldsSnapshot'
    <3>1. ASSUME NEW v \in Workers, run'[v].pc \in {"wait", "trivy"} \cup YaraSteps
          PROVE  run'[v].snap
      BY <2>1, <2>3, <2>5, <3>1 DEF HoldsSnapshot
    <3> QED
      BY <2>4, <2>5, <3>1 DEF HoldsSnapshot
  <2>7. NamesDiffer'
    BY <2>5 DEF NamesDiffer
  <2> QED
    BY <2>6, <2>7
<1>7. ASSUME NEW w \in Workers, DeleteSnapshot(w)
      PROVE  HoldsSnapshot' /\ NamesDiffer'
  <2>1. \A v \in Workers : v # w => run'[v] = run[v]
    BY <1>7 DEF DeleteSnapshot, TypeOK
  <2>2. run'[w].id = NoId /\ ~run'[w].snap /\ run'[w].pc \in {"persist", "ack"}
    BY <1>7 DEF DeleteSnapshot, TypeOK, Run
  <2>3. snapshots' = snapshots \/ (run[w].snap /\ snapshots' = snapshots \ {run[w].id})
    BY <1>7 DEF DeleteSnapshot
  <2>4. ASSUME NEW v \in Workers, v # w, run[v].snap
        PROVE  run[v].id \in snapshots'
    BY <2>3, <2>4 DEF HoldsSnapshot, NamesDiffer
  <2> QED
    BY <2>1, <2>2, <2>4 DEF HoldsSnapshot, NamesDiffer, YaraSteps
<1>8. CASE Cleanup
  <2>1. ASSUME NEW v \in Workers, run[v].snap
        PROVE  run[v].id \in snapshots'
    <3>1. /\ run[v].id \in snapshots /\ run[v].id \in Ids
          /\ age[run[v].id] <= run[v].age
      BY <2>1 DEF HoldsSnapshot, InTime, TypeOK
    <3>2. run[v].age \in AttemptAges /\ age[run[v].id] \in SnapshotAges
      BY <3>1 DEF TypeOK, Run
    <3>3. ~(age[run[v].id] >= Ttl)
      BY <3>1, <3>2, SideScanAssumption DEF AttemptAges, SnapshotAges
    <3> QED
      BY <1>8, <3>1, <3>3 DEF Cleanup
  <2>2. UNCHANGED run
    BY <1>8 DEF Cleanup
  <2> QED
    BY <2>1, <2>2 DEF HoldsSnapshot, NamesDiffer
<1>9. ASSUME NEW w \in Workers,
             \/ Prepare(w) \/ PrepareFails(w) \/ SnapshotReady(w) \/ Attach(w)
             \/ YaraEnds(w) \/ StepFails(w) \/ SoftLimit(w)
             \/ Umount(w) \/ Detach(w) \/ DeleteVolume(w)
             \/ Persist(w) \/ PersistFails(w)
      PROVE  HoldsSnapshot' /\ NamesDiffer'
  <2>1. UNCHANGED snapshots
    BY <1>9 DEF Prepare, PrepareFails, SnapshotReady, Attach, YaraEnds, StepFails, SoftLimit,
                Umount, Detach, DeleteVolume, Persist, PersistFails, aws
  <2>2. PICK pc : /\ GoTo(w, pc)
                  /\ pc \in {"wait", "trivy"} \cup YaraSteps =>
                       run[w].pc \in {"wait"} \cup YaraSteps
    BY <1>9 DEF Prepare, PrepareFails, SnapshotReady, Attach, YaraEnds, StepFails, SoftLimit,
                Umount, Detach, DeleteVolume, Persist, PersistFails, At, YaraSteps
  <2>3. run'[w].pc = pc
    BY <2>2, GoToChangesPc
  <2> QED
    BY <1>2, <2>1, <2>2, <2>3 DEF HoldsSnapshot
<1>10. ASSUME NEW w \in Workers, Crash(w) \/ HardLimit(w) \/ Ack(w)
       PROVE  HoldsSnapshot' /\ NamesDiffer'
  BY <1>4, <1>10 DEF Crash, HardLimit, Ack, aws
<1>11. ASSUME \/ \E j \in Jobs : Enqueue(j)
              \/ \E m \in Message : Redeliver(m)
              \/ \E i \in Ids : Detached(i)
              \/ UNCHANGED vars
       PROVE  HoldsSnapshot' /\ NamesDiffer'
  BY <1>1, <1>11 DEF Enqueue, Redeliver, Detached, vars, aws
<1>12. CASE Tick
  <2>1. SameButAge /\ UNCHANGED snapshots
    BY <1>12, TickChangesAge DEF Tick
  <2> QED
    BY <2>1 DEF SameButAge, HoldsSnapshot, NamesDiffer
<1> QED
  BY <1>3, <1>5, <1>6, <1>7, <1>8, <1>9, <1>10, <1>11, <1>12 DEF Next, Worker

(* An attempt is older than the snapshot it makes, and both age together.  *)
LEMMA TimeStep ==
  ASSUME IInv, [Next]_vars
  PROVE  InTime'
<1> USE DEF IInv
<1>1. ASSUME UNCHANGED <<run, age>>
      PROVE  InTime'
  BY <1>1 DEF InTime
<1>2. ASSUME NEW w \in Workers, UNCHANGED age,
             \A v \in Workers \ {w} : run'[v] = run[v],
             run'[w].snap => /\ run[w].snap
                             /\ run'[w].id = run[w].id
                             /\ run'[w].age = run[w].age
      PROVE  InTime'
  BY <1>2 DEF InTime
<1>3. ASSUME NEW w \in Workers, NEW m \in Message, Deliver(w, m)
      PROVE  InTime'
  <2>1. \A v \in Workers \ {w} : run'[v] = run[v]
    BY <1>3 DEF Deliver, TypeOK
  <2>2. ~run'[w].snap /\ UNCHANGED age
    BY <1>3, DeliverEffect DEF Deliver, aws
  <2> QED
    BY <1>2, <2>1, <2>2
<1>4. ASSUME NEW w \in Workers, Crash(w) \/ HardLimit(w) \/ Ack(w)
      PROVE  InTime'
  <2>1. \A v \in Workers : run'[v] = IF v = w THEN Idle ELSE run[v]
    BY <1>4 DEF Crash, HardLimit, Ack, TypeOK
  <2>2. ~run'[w].snap /\ UNCHANGED age
    BY <1>4, <2>1 DEF Crash, HardLimit, Ack, Idle, aws
  <2> QED
    BY <1>2, <2>1, <2>2
<1>5. ASSUME NEW w \in Workers, CreateSnapshot(w)
      PROVE  InTime'
  <2>1. Fresh \in Ids /\ \A v \in Workers : run[v].id # Fresh
    BY <1>5, FreshIsUnused DEF CreateSnapshot
  <2>2. \A v \in Workers : v # w => run'[v] = run[v]
    BY <1>5 DEF CreateSnapshot, TypeOK
  <2>3. run'[w].id = Fresh /\ run'[w].age = run[w].age /\ run[w].age \in AttemptAges
    BY <1>5 DEF CreateSnapshot, TypeOK, Run
  <2>4. /\ age'[Fresh] = 0
        /\ \A v \in Workers : run[v].id # NoId => age'[run[v].id] = age[run[v].id]
    BY <1>5, <2>1 DEF CreateSnapshot, HoldsSnapshot, TypeOK
  <2>5. age'[run'[w].id] <= run'[w].age
    BY <2>3, <2>4, SideScanAssumption DEF AttemptAges
  <2>6. ASSUME NEW v \in Workers, v # w, run'[v].snap
        PROVE  age'[run'[v].id] <= run'[v].age
    BY <2>2, <2>4, <2>6 DEF InTime, HoldsSnapshot
  <2> QED
    BY <2>5, <2>6 DEF InTime
<1>6. ASSUME NEW w \in Workers,
             CreateVolume(w) \/ Mount(w) \/ Analysed(w) \/ DeleteSnapshot(w)
      PROVE  InTime'
  <2>1. \A v \in Workers \ {w} : run'[v] = run[v]
    BY <1>6, ProgressEffect, DeleteSnapshotEffect
  <2>2. run'[w].snap => /\ run[w].snap
                        /\ run'[w].id = run[w].id
                        /\ run'[w].age = run[w].age
    BY <1>6, ProgressEffect, DeleteSnapshotEffect
  <2>3. UNCHANGED age
    BY <1>6 DEF CreateVolume, Mount, Analysed, DeleteSnapshot, aws
  <2> QED
    BY <1>2, <2>1, <2>2, <2>3
<1>7. ASSUME NEW w \in Workers,
             \/ Prepare(w) \/ PrepareFails(w) \/ SnapshotReady(w) \/ Attach(w)
             \/ YaraEnds(w) \/ StepFails(w) \/ SoftLimit(w)
             \/ Umount(w) \/ Detach(w) \/ DeleteVolume(w)
             \/ Persist(w) \/ PersistFails(w)
      PROVE  InTime'
  <2>1. (\E pc : GoTo(w, pc)) /\ UNCHANGED age
    BY <1>7 DEF Prepare, PrepareFails, SnapshotReady, Attach, YaraEnds, StepFails, SoftLimit,
                Umount, Detach, DeleteVolume, Persist, PersistFails, aws
  <2>2. SameButPc(w)
    BY <2>1, GoToChangesPc
  <2> QED
    BY <1>2, <2>1, <2>2 DEF SameButPc
<1>8. CASE Tick
  <2>1. ASSUME NEW v \in Workers, run'[v].snap
        PROVE  age'[run'[v].id] <= run'[v].age
    <3>1. run[v] # Idle /\ run[v].snap /\ run'[v].id = run[v].id
      BY <1>8, <2>1, TickChangesAge DEF SameButAge, Tick, Idle
    <3>2. PICK i \in Ids : i = run[v].id
      BY <3>1 DEF HoldsSnapshot, TypeOK
    <3>3. /\ age[i] \in SnapshotAges /\ run[v].age \in AttemptAges
          /\ age[i] <= run[v].age
      BY <3>1, <3>2 DEF InTime, TypeOK, Run
    <3>4. run'[v].age = run[v].age + 1
      BY <1>8, <3>1 DEF Tick, TypeOK, Run
    <3>5. age'[i] = CASE i \notin snapshots -> 0
                      [] i \in snapshots /\ age[i] < Ttl -> age[i] + 1
                      [] OTHER -> age[i]
      BY <1>8 DEF Tick
    <3>6. age'[i] <= age[i] + 1
      BY <3>3, <3>5, SideScanAssumption DEF SnapshotAges
    <3>7. age'[i] \in Int
      BY <3>3, <3>5 DEF SnapshotAges
    <3> QED
      BY <3>1, <3>2, <3>3, <3>4, <3>6, <3>7, SideScanAssumption DEF AttemptAges, SnapshotAges
  <2> QED
    BY <2>1 DEF InTime
<1>9. ASSUME \/ \E j \in Jobs : Enqueue(j)
             \/ \E m \in Message : Redeliver(m)
             \/ \E i \in Ids : Detached(i)
             \/ Cleanup
             \/ UNCHANGED vars
      PROVE  InTime'
  BY <1>1, <1>9 DEF Enqueue, Redeliver, Detached, Cleanup, vars, aws
<1> QED
  BY <1>3, <1>4, <1>5, <1>6, <1>7, <1>8, <1>9 DEF Next, Worker

(* A worker that counts on its volume is the only one that does: the       *)
(* device admits one volume at a time.                                     *)
LEMMA OneOnDevice ==
  ASSUME IInv, NEW v \in Workers, NEW w \in Workers, OnDevice(v), OnDevice(w)
  PROVE  v = w
<1>1. run[v].snap /\ run[w].snap
  BY DEF IInv, OnDevice, DeviceShared, HoldsSnapshot, YaraSteps
<1>2. run[v].id \in Ids /\ run[w].id \in Ids
  BY <1>1 DEF IInv, HoldsSnapshot, TypeOK
<1>3. volumes[run[v].id] = "attached" /\ volumes[run[w].id] = "attached"
  BY DEF IInv, DeviceShared
<1>4. run[v].id = run[w].id
  BY <1>2, <1>3 DEF IInv, DeviceShared
<1> QED
  BY <1>1, <1>4 DEF IInv, NamesDiffer

(* If the device keeps what other workers count on, only the worker that   *)
(* moves, and what it leaves on the path, has to be looked at.             *)
LEMMA DeviceKept ==
  ASSUME IInv, NEW w \in Workers,
         \A v \in Workers \ {w} :
           /\ run'[v] = run[v]
           /\ run[v].snap => volumes'[run[v].id] = volumes[run[v].id]
           /\ run[v].pc = "yara" => UNCHANGED path,
         \A i, k \in Ids :
           volumes'[i] # "none" /\ volumes'[i] # "available"
             /\ volumes'[k] # "none" /\ volumes'[k] # "available" => i = k,
         run'[w].mounted =>
           run'[w].snap /\ run'[w].pc \in {"yara", "trivy"} \cup CleanupSteps,
         OnDevice(w)' => volumes'[run'[w].id] = "attached",
         run'[w].pc = "yara" =>
           path' # << >> /\ path'[Len(path')] = run'[w].id
  PROVE  DeviceShared' /\ YaraReadsOwnVolume'
<1>1. ASSUME NEW v \in Workers, v # w, OnDevice(v)'
      PROVE  volumes'[run'[v].id] = "attached"
  <2>1. OnDevice(v)
    BY <1>1 DEF OnDevice
  <2>2. run[v].snap
    BY <2>1 DEF IInv, OnDevice, DeviceShared, HoldsSnapshot, YaraSteps
  <2> QED
    BY <1>1, <2>1, <2>2 DEF IInv, DeviceShared
<1>2. ASSUME NEW v \in Workers, run'[v].mounted
      PROVE  run'[v].snap /\ run'[v].pc \in {"yara", "trivy"} \cup CleanupSteps
  BY <1>2 DEF IInv, DeviceShared
<1>3. DeviceShared'
  BY <1>1, <1>2 DEF DeviceShared
<1>4. ASSUME NEW v \in Workers, run'[v].pc = "yara"
      PROVE  /\ path' # << >>
             /\ path'[Len(path')] = run'[v].id
             /\ volumes'[run'[v].id] = "attached"
  <2>1. volumes'[run'[v].id] = "attached"
    BY <1>3, <1>4 DEF DeviceShared, OnDevice
  <2>2. CASE v = w
    BY <1>4, <2>1, <2>2
  <2>3. CASE v # w
    BY <1>4, <2>1, <2>3 DEF IInv, YaraReadsOwnVolume, At
  <2> QED
    BY <2>2, <2>3
<1> QED
  BY <1>3, <1>4 DEF YaraReadsOwnVolume, At

(* A worker that leaves volumes and path alone does not disturb it.        *)
LEMMA DeviceUntouched ==
  ASSUME IInv, NEW w \in Workers, UNCHANGED <<volumes, path>>,
         \A v \in Workers \ {w} : run'[v] = run[v],
         run'[w].mounted =>
           run'[w].snap /\ run'[w].pc \in {"yara", "trivy"} \cup CleanupSteps,
         OnDevice(w)' => volumes[run'[w].id] = "attached",
         run'[w].pc # "yara"
  PROVE  DeviceShared' /\ YaraReadsOwnVolume'
<1>1. \A i, k \in Ids :
        volumes'[i] # "none" /\ volumes'[i] # "available"
          /\ volumes'[k] # "none" /\ volumes'[k] # "available" => i = k
  BY DEF IInv, DeviceShared
<1> QED
  BY <1>1, DeviceKept

LEMMA DeviceStep ==
  ASSUME IInv, [Next]_vars
  PROVE  DeviceShared' /\ YaraReadsOwnVolume'
<1> USE DEF IInv
<1>1. ASSUME UNCHANGED <<run, volumes, path>>
      PROVE  DeviceShared' /\ YaraReadsOwnVolume'
  BY <1>1 DEF DeviceShared, OnDevice, YaraReadsOwnVolume, At
(* Steps after which the worker counts on nothing.                         *)
<1>2. ASSUME NEW w \in Workers, UNCHANGED <<volumes, path>>,
             \A v \in Workers \ {w} : run'[v] = run[v],
             ~run'[w].mounted, run'[w].pc \notin {"mount", "yara"}
      PROVE  DeviceShared' /\ YaraReadsOwnVolume'
  BY <1>2, DeviceUntouched DEF OnDevice
<1>3. ASSUME NEW w \in Workers, NEW m \in Message, Deliver(w, m)
      PROVE  DeviceShared' /\ YaraReadsOwnVolume'
  <2>1. \A v \in Workers \ {w} : run'[v] = run[v]
    BY <1>3 DEF Deliver, TypeOK
  <2>2. ~run'[w].mounted /\ run'[w].pc \in {"prepare", "ack"}
    BY <1>3, DeliverEffect
  <2> QED
    <3>1. UNCHANGED aws
      BY <1>3 DEF Deliver
    <3>2. run'[w].pc \notin {"mount", "yara"}
      BY <2>2
    <3> QED
      BY <1>2, <2>1, <2>2, <3>1, <3>2 DEF aws
<1>4. ASSUME NEW w \in Workers, Crash(w) \/ HardLimit(w) \/ Ack(w)
      PROVE  DeviceShared' /\ YaraReadsOwnVolume'
  <2>1. \A v \in Workers : run'[v] = IF v = w THEN Idle ELSE run[v]
    BY <1>4 DEF Crash, HardLimit, Ack, TypeOK
  <2>2. ~run'[w].mounted /\ run'[w].pc = "idle"
    BY <2>1 DEF Idle
  <2>3. UNCHANGED <<volumes, path>>
    BY <1>4 DEF Crash, HardLimit, Ack, aws
  <2> QED
    BY <1>2, <2>1, <2>2, <2>3
<1>5. ASSUME NEW w \in Workers,
             \/ Prepare(w) \/ PrepareFails(w) \/ SnapshotReady(w)
             \/ Persist(w) \/ PersistFails(w)
      PROVE  DeviceShared' /\ YaraReadsOwnVolume'
  <2>1. PICK pc \in {"snapshot", "ack", "volume", "trivy"} :
          GoTo(w, pc)
    BY <1>5 DEF Prepare, PrepareFails, SnapshotReady, Persist, PersistFails
  <2>2. SameButPc(w) /\ run'[w].pc = pc
    BY <2>1, GoToChangesPc
  <2>3. ~run[w].mounted
    BY <1>5 DEF Prepare, PrepareFails, SnapshotReady, Persist, PersistFails, At,
                DeviceShared, CleanupSteps
  <2>4. UNCHANGED <<volumes, path>>
    BY <1>5 DEF Prepare, PrepareFails, SnapshotReady, Persist, PersistFails, aws
  <2> QED
    BY <1>2, <2>2, <2>3, <2>4 DEF SameButPc
<1>6. ASSUME NEW w \in Workers, CreateSnapshot(w)
      PROVE  DeviceShared' /\ YaraReadsOwnVolume'
  <2>1. \A v \in Workers \ {w} : run'[v] = run[v]
    BY <1>6 DEF CreateSnapshot, TypeOK
  <2>2. run'[w].mounted = run[w].mounted /\ run'[w].pc = "wait"
    BY <1>6 DEF CreateSnapshot, TypeOK, Run
  <2>3. ~run[w].mounted
    BY <1>6 DEF CreateSnapshot, At, DeviceShared, CleanupSteps
  <2> QED
    BY <1>2, <1>6, <2>1, <2>2, <2>3 DEF CreateSnapshot
(* Steps that keep volumes, path and what the worker counts on.            *)
<1>7. ASSUME NEW w \in Workers, YaraEnds(w) \/ StepFails(w) \/ SoftLimit(w)
      PROVE  DeviceShared' /\ YaraReadsOwnVolume'
  <2>1. PICK pc \in {"trivy", "umount"} : GoTo(w, pc)
    BY <1>7 DEF YaraEnds, StepFails, SoftLimit
  <2>2. SameButPc(w) /\ run'[w].pc = pc
    BY <2>1, GoToChangesPc
  <2>3. UNCHANGED <<volumes, path>>
    BY <1>7 DEF YaraEnds, StepFails, SoftLimit, aws
  <2>4. OnDevice(w)' => OnDevice(w)
    BY <1>7, <2>1, <2>2 DEF SameButPc, OnDevice, DeviceShared, YaraEnds, StepFails, SoftLimit,
                            YaraSteps, CleanupSteps
  <2>5. OnDevice(w)' => volumes[run'[w].id] = "attached"
    BY <2>2, <2>4 DEF SameButPc, DeviceShared
  <2>6. run'[w].mounted =>
          run'[w].snap /\ run'[w].pc \in {"yara", "trivy"} \cup CleanupSteps
    BY <2>1, <2>2 DEF SameButPc, DeviceShared, CleanupSteps
  <2> QED
    BY <2>1, <2>2, <2>3, <2>5, <2>6, DeviceUntouched DEF SameButPc
<1>8. ASSUME NEW w \in Workers, Analysed(w)
      PROVE  DeviceShared' /\ YaraReadsOwnVolume'
  <2>1. \A v \in Workers \ {w} : run'[v] = run[v]
    BY <1>8 DEF Analysed, TypeOK
  <2>2. /\ run'[w].mounted = run[w].mounted
        /\ run'[w].snap = run[w].snap
        /\ run'[w].id = run[w].id
        /\ run'[w].pc = "umount" /\ run[w].pc = "trivy"
    BY <1>8 DEF Analysed, At, TypeOK, Run
  <2>3. OnDevice(w)' => volumes[run'[w].id] = "attached"
    BY <2>2 DEF OnDevice, DeviceShared
  <2>4. run'[w].mounted =>
          run'[w].snap /\ run'[w].pc \in {"yara", "trivy"} \cup CleanupSteps
    BY <2>2 DEF DeviceShared, CleanupSteps
  <2>5. UNCHANGED <<volumes, path>>
    BY <1>8 DEF Analysed, aws
  <2> QED
    BY <2>1, <2>2, <2>3, <2>4, <2>5, DeviceUntouched
<1>9. ASSUME NEW w \in Workers, DeleteSnapshot(w)
      PROVE  DeviceShared' /\ YaraReadsOwnVolume'
  <2>1. \A v \in Workers \ {w} : run'[v] = run[v]
    BY <1>9 DEF DeleteSnapshot, TypeOK
  <2>2. ~run'[w].mounted /\ run'[w].pc \in {"persist", "ack"}
    BY <1>9 DEF DeleteSnapshot, TypeOK, Run
  <2> QED
    BY <1>2, <1>9, <2>1, <2>2 DEF DeleteSnapshot
(* Steps that change the volume of the worker.                             *)
<1>10. ASSUME NEW w \in Workers, run[w].snap, UNCHANGED path,
              NEW state \in {"none", "available", "attached", "detaching"},
              volumes' = [volumes EXCEPT ![run[w].id] = state],
              \/ state \in {"none", "available"}
              \/ DeviceFree
              \/ volumes[run[w].id] = "attached",
              \A v \in Workers \ {w} : run'[v] = run[v],
              run'[w].mounted => run'[w].snap /\ run'[w].pc \in CleanupSteps,
              OnDevice(w)' => run'[w].id = run[w].id /\ state = "attached",
              run'[w].pc # "yara"
       PROVE  DeviceShared' /\ YaraReadsOwnVolume'
  <2>1. run[w].id \in Ids
    BY <1>10 DEF HoldsSnapshot, TypeOK
  <2>2. \A i \in Ids : volumes'[i] = IF i = run[w].id THEN state ELSE volumes[i]
    BY <1>10 DEF TypeOK
  <2>3. \A v \in Workers \ {w} : run[v].snap => volumes'[run[v].id] = volumes[run[v].id]
    BY <1>10, <2>2 DEF HoldsSnapshot, NamesDiffer, TypeOK
  <2>4. ASSUME NEW i \in Ids, NEW k \in Ids,
               volumes'[i] # "none", volumes'[i] # "available",
               volumes'[k] # "none", volumes'[k] # "available"
        PROVE  i = k
    <3>1. CASE state \in {"none", "available"}
      BY <2>2, <2>4, <3>1 DEF DeviceShared
    <3>2. CASE DeviceFree
      BY <2>2, <2>4, <3>2 DEF DeviceFree, TypeOK
    <3>3. CASE volumes[run[w].id] = "attached"
      BY <2>1, <2>2, <2>4, <3>3 DEF DeviceShared
    <3> QED
      BY <1>10, <3>1, <3>2, <3>3
  <2>5. OnDevice(w)' => volumes'[run'[w].id] = "attached"
    BY <1>10, <2>1, <2>2
  <2> QED
    BY <1>10, <2>3, <2>4, <2>5, DeviceKept
<1>11. ASSUME NEW w \in Workers, CreateVolume(w)
       PROVE  DeviceShared' /\ YaraReadsOwnVolume'
  <2>1. run[w].snap /\ ~run[w].mounted
    BY <1>11 DEF CreateVolume, At, HoldsSnapshot, DeviceShared, YaraSteps, CleanupSteps
  <2>2. \A v \in Workers \ {w} : run'[v] = run[v]
    BY <1>11 DEF CreateVolume, TypeOK
  <2>3. run'[w].mounted = run[w].mounted /\ run'[w].pc = "attach"
    BY <1>11 DEF CreateVolume, TypeOK, Run
  <2>4. UNCHANGED path /\ volumes' = [volumes EXCEPT ![run[w].id] = "available"]
    BY <1>11 DEF CreateVolume
  <2> QED
    BY <1>10, <2>1, <2>2, <2>3, <2>4 DEF OnDevice
<1>12. ASSUME NEW w \in Workers, Attach(w)
       PROVE  DeviceShared' /\ YaraReadsOwnVolume'
  <2>1. run[w].snap /\ ~run[w].mounted
    BY <1>12 DEF Attach, At, HoldsSnapshot, DeviceShared, YaraSteps, CleanupSteps
  <2>2. SameButPc(w) /\ run'[w].pc = "mount"
    BY <1>12, GoToChangesPc DEF Attach
  <2>3. /\ UNCHANGED path /\ DeviceFree
        /\ volumes' = [volumes EXCEPT ![run[w].id] = "attached"]
    BY <1>12 DEF Attach
  <2> QED
    BY <1>10, <2>1, <2>2, <2>3 DEF SameButPc
<1>13. ASSUME NEW w \in Workers, Mount(w)
       PROVE  DeviceShared' /\ YaraReadsOwnVolume'
  <2>1. OnDevice(w) /\ run[w].snap /\ run[w].id \in Ids
    BY <1>13 DEF Mount, At, OnDevice, HoldsSnapshot, YaraSteps, TypeOK
  <2>2. /\ \A v \in Workers \ {w} : run'[v] = run[v]
        /\ run'[w].id = run[w].id
        /\ run'[w].snap = run[w].snap
        /\ run'[w].pc = "yara"
    BY <1>13 DEF Mount, TypeOK, Run
  <2>3. \A v \in Workers \ {w} : run[v].pc # "yara"
    BY <2>1, OneOnDevice DEF OnDevice
  <2>4. path' # << >> /\ path'[Len(path')] = run[w].id
    <3>1. path' = Append(path, run[w].id)
      BY <1>13 DEF Mount
    <3>2. path \in Seq(Ids)
      BY DEF TypeOK
    <3> QED
      BY <2>1, <3>1, <3>2
  <2>5. UNCHANGED volumes
    BY <1>13 DEF Mount
  <2>6. \A i, k \in Ids :
          volumes'[i] # "none" /\ volumes'[i] # "available"
            /\ volumes'[k] # "none" /\ volumes'[k] # "available" => i = k
    BY <2>5 DEF DeviceShared
  <2>7. volumes'[run'[w].id] = "attached"
    BY <2>1, <2>2, <2>5 DEF DeviceShared
  <2> QED
    BY <2>1, <2>2, <2>3, <2>4, <2>5, <2>6, <2>7, DeviceKept, ZenonT(30)
<1>14. ASSUME NEW w \in Workers, Umount(w)
       PROVE  DeviceShared' /\ YaraReadsOwnVolume'
  <2>1. SameButPc(w) /\ run'[w].pc = "detach" /\ run[w].pc = "umount"
    BY <1>14, GoToChangesPc DEF Umount, At
  <2>2. run[w].mounted => OnDevice(w)
    BY <2>1 DEF OnDevice
  <2>3. UNCHANGED volumes /\ (~run[w].mounted => UNCHANGED path)
    BY <1>14 DEF Umount
  <2>4. \A v \in Workers \ {w} : run[v].pc = "yara" => UNCHANGED path
    BY <2>2, <2>3, OneOnDevice DEF OnDevice
  <2>5. \A i, k \in Ids :
          volumes'[i] # "none" /\ volumes'[i] # "available"
            /\ volumes'[k] # "none" /\ volumes'[k] # "available" => i = k
    BY <2>3 DEF DeviceShared
  <2>6. OnDevice(w)' => volumes'[run'[w].id] = "attached"
    BY <2>1, <2>2, <2>3 DEF SameButPc, OnDevice, DeviceShared
  <2>7. run'[w].mounted =>
          run'[w].snap /\ run'[w].pc \in {"yara", "trivy"} \cup CleanupSteps
    BY <2>1 DEF SameButPc, DeviceShared, CleanupSteps
  <2> QED
    BY <2>1, <2>3, <2>4, <2>5, <2>6, <2>7, DeviceKept DEF SameButPc
<1>15. ASSUME NEW w \in Workers, Detach(w)
       PROVE  DeviceShared' /\ YaraReadsOwnVolume'
  <2>1. PICK pc \in {"delete", "unsnap"} : GoTo(w, pc)
    BY <1>15 DEF Detach
  <2>2. SameButPc(w) /\ run'[w].pc = pc /\ ~OnDevice(w)' /\ UNCHANGED path
    BY <1>15, <2>1, GoToChangesPc DEF Detach, OnDevice
  <2>3. run'[w].mounted => run'[w].snap /\ run'[w].pc \in CleanupSteps
    BY <2>1, <2>2 DEF SameButPc, DeviceShared, CleanupSteps
  <2>4. CASE UNCHANGED volumes
    BY <2>1, <2>2, <2>3, <2>4, DeviceUntouched DEF SameButPc
  <2>5. CASE /\ run[w].mounted
             /\ volumes' = [volumes EXCEPT ![run[w].id] = "detaching"]
    <3>1. OnDevice(w)
      BY <1>15, <2>5 DEF Detach, At, OnDevice
    <3>2. run[w].snap /\ volumes[run[w].id] = "attached"
      BY <2>5, <3>1 DEF DeviceShared
    <3> QED
      BY <1>10, <2>1, <2>2, <2>3, <2>5, <3>2 DEF SameButPc
  <2> QED
    BY <1>15, <2>4, <2>5 DEF Detach
<1>16. ASSUME NEW w \in Workers, DeleteVolume(w)
       PROVE  DeviceShared' /\ YaraReadsOwnVolume'
  <2>1. SameButPc(w) /\ run'[w].pc = "unsnap" /\ ~OnDevice(w)' /\ UNCHANGED path
    BY <1>16, GoToChangesPc DEF DeleteVolume, OnDevice
  <2>2. run'[w].mounted => run'[w].snap /\ run'[w].pc \in CleanupSteps
    BY <2>1 DEF SameButPc, DeviceShared, CleanupSteps
  <2>3. CASE UNCHANGED volumes
    BY <2>1, <2>2, <2>3, DeviceUntouched DEF SameButPc
  <2>4. CASE /\ volumes[run[w].id] = "available"
             /\ volumes' = [volumes EXCEPT ![run[w].id] = "none"]
             /\ run[w].snap
    BY <1>10, <2>1, <2>2, <2>4 DEF SameButPc
  <2>5. CASE /\ volumes' = [volumes EXCEPT ![run[w].id] = "none"]
             /\ ~run[w].snap
    <3>1. run[w].id \notin Ids
      BY <2>5, SideScanAssumption DEF HoldsSnapshot
    <3>2. UNCHANGED volumes
      BY <2>5, <3>1 DEF TypeOK
    <3> QED
      BY <2>1, <2>2, <3>2, DeviceUntouched DEF SameButPc
  <2> QED
    BY <1>16, <2>3, <2>4, <2>5 DEF DeleteVolume
<1>17. ASSUME NEW i \in Ids, Detached(i)
       PROVE  DeviceShared' /\ YaraReadsOwnVolume'
  <2>1. \A k \in Ids : volumes'[k] = IF k = i THEN "available" ELSE volumes[k]
    BY <1>17 DEF Detached, TypeOK
  <2>2. ASSUME NEW w \in Workers, OnDevice(w)
        PROVE  volumes'[run[w].id] = "attached"
    <3>1. run[w].snap
      BY <2>2 DEF OnDevice, DeviceShared, HoldsSnapshot, YaraSteps
    <3>2. run[w].id \in Ids /\ volumes[run[w].id] = "attached"
      BY <2>2, <3>1 DEF DeviceShared, HoldsSnapshot, TypeOK
    <3> QED
      BY <1>17, <2>1, <3>2 DEF Detached
  <2>3. UNCHANGED <<run, path>>
    BY <1>17 DEF Detached
  <2>4. DeviceShared'
    BY <2>1, <2>2, <2>3 DEF DeviceShared, OnDevice
  <2> QED
    BY <2>2, <2>3, <2>4 DEF YaraReadsOwnVolume, At, OnDevice
<1>18. ASSUME \/ \E j \in Jobs : Enqueue(j)
              \/ \E m \in Message : Redeliver(m)
              \/ Cleanup
              \/ UNCHANGED vars
       PROVE  DeviceShared' /\ YaraReadsOwnVolume'
  BY <1>1, <1>18 DEF Enqueue, Redeliver, Cleanup, vars, aws
<1>19. CASE Tick
  <2>1. SameButAge /\ UNCHANGED <<volumes, path>>
    BY <1>19, TickChangesAge DEF Tick
  <2> QED
    BY <2>1 DEF SameButAge, DeviceShared, OnDevice, YaraReadsOwnVolume, At
<1> QED
  BY <1>3, <1>4, <1>5, <1>6, <1>7, <1>8, <1>9, <1>11, <1>12, <1>13, <1>14, <1>15,
     <1>16, <1>17, <1>18, <1>19 DEF Next, Worker

LEMMA Inductive ==
  ASSUME IInv, [Next]_vars
  PROVE  IInv'
BY TypeStep, HoldsStep, TimeStep, DeviceStep DEF IInv

LEMMA Initial ==
  ASSUME Init
  PROVE  IInv
<1>1. TypeOK
  <2>1. 0 \in SnapshotAges
    BY SideScanAssumption DEF SnapshotAges
  <2> QED
    BY <2>1, IdleTyped DEF Init, TypeOK
<1>2. \A w \in Workers : run[w] = Idle
  BY DEF Init
<1>3. HoldsSnapshot /\ InTime /\ NamesDiffer /\ YaraReadsOwnVolume
  BY <1>2 DEF HoldsSnapshot, InTime, NamesDiffer, YaraReadsOwnVolume, At, Idle, YaraSteps
<1>4. DeviceShared
  <2>1. \A w \in Workers : ~run[w].mounted /\ ~OnDevice(w)
    BY <1>2 DEF OnDevice, Idle
  <2> QED
    BY <2>1 DEF DeviceShared, Init
<1> QED
  BY <1>1, <1>3, <1>4 DEF IInv

LEMMA Invariant == Spec => []IInv
<1>1. Init => IInv
  BY Initial
<1>2. IInv /\ [Next]_vars => IInv'
  BY Inductive
<1> QED
  BY <1>1, <1>2, PTL DEF Spec

(* Every reachable state is well typed.                                    *)
THEOREM TypeCorrect == Spec => []TypeOK
<1>1. IInv => TypeOK
  BY DEF IInv
<1> QED
  BY <1>1, Invariant, PTL

(* What YARA reads under the shared mount path is the volume of its own    *)
(* instance, however many workers share the device and the path, and       *)
(* wherever they fail, crash or are killed.                                *)
THEOREM MountIsolation == Spec => []YaraReadsOwnVolume
<1>1. IInv => YaraReadsOwnVolume
  BY DEF IInv
<1> QED
  BY <1>1, Invariant, PTL

(* No attempt loses its snapshot to another one, or to the cleanup task,   *)
(* which asks only for its date: a task is killed before a snapshot it     *)
(* made can expire (TimeLimit < Ttl).                                      *)
THEOREM SnapshotsOutliveScans == Spec => []SnapshotOutlivesScan
<1>1. IInv => SnapshotOutlivesScan
  BY DEF IInv, HoldsSnapshot, SnapshotOutlivesScan
<1> QED
  BY <1>1, Invariant, PTL

-----------------------------------------------------------------------------
(* The jobs: the copies of a message, and what they may still do           *)

(* A busy worker holds a message, and only the end of the try block makes  *)
(* its attempt a success.                                                  *)
Attempts ==
  \A w \in Workers :
    /\ run[w].pc # "idle" => run[w].msg \in Message
    /\ run[w].ok => run[w].pc \in {"persist", "ack"} \cup CleanupSteps

(* As long as no crash and no redelivery made a second one, a job has one  *)
(* copy of its message, waiting or in an attempt that may still settle it; *)
(* a job that is failed, or not yet enqueued, has none.                    *)
Waits(j) == \E m \in Message : m.job = j /\ queue[m] > 0
Tried(j) == \E w \in Workers : Pending(w) /\ Job(w) = j

OneCopy ==
  outages = 0 =>
    /\ \A m \in Message : queue[m] <= 1
    /\ \A m, n \in Message : queue[m] > 0 /\ queue[n] > 0 /\ m.job = n.job => m = n
    /\ \A v, w \in Workers : Pending(v) /\ Pending(w) /\ Job(v) = Job(w) => v = w
    /\ \A j \in Jobs : Tried(j) => ~Waits(j)
    /\ \A j \in Jobs : jobs[j] \in {"none", "failed"} => ~Waits(j) /\ ~Tried(j)

(* The inductive invariant behind NoJobLost and FailedIsFinal.             *)
JobsInv ==
  /\ Attempts
  /\ NoJobLost
  /\ OneCopy

LEMMA SetJobEffect ==
  ASSUME TypeOK, NEW j \in Jobs, NEW status, SetJob(j, status)
  PROVE  /\ \A k \in Jobs \ {j} : jobs'[k] = jobs[k]
         /\ UNCHANGED outages
         /\ \/ errors' = errors + 1 /\ UNCHANGED jobs
            \/ /\ errors' = errors
               /\ jobs'[j] = IF jobs[j] = "missing" THEN "missing" ELSE status
BY DEF SetJob, CountError, faults, TypeOK

LEMMA PublishEffect ==
  ASSUME TypeOK, NEW m \in Message, Publish(m)
  PROVE  \A n \in Message : queue'[n] = IF n = m THEN queue[n] + 1 ELSE queue[n]
BY DEF Publish, TypeOK

(* A step that leaves the queue alone, and neither starts nor ends an      *)
(* attempt.                                                                *)
LEMMA JobsUntouched ==
  ASSUME TypeOK, JobsInv, UNCHANGED <<jobs, queue, outages>>,
         errors' \in Nat, errors' >= errors,
         \A w \in Workers :
           /\ run'[w].msg = run[w].msg
           /\ Pending(w)' <=> Pending(w)
  PROVE  NoJobLost' /\ OneCopy'
<1>2. \A w \in Workers : Job(w)' = Job(w)
  BY DEF Job
<1>3. NoJobLost'
  <2>1. ASSUME NEW j \in Jobs \ Denied, jobs'[j] \in {"queued", "running"}
        PROVE  \/ errors' > 0
               \/ \E m \in Message : m.job = j /\ queue'[m] > 0
               \/ \E w \in Workers : Pending(w)' /\ Job(w)' = j
    BY <1>2, <2>1 DEF JobsInv, NoJobLost, TypeOK
  <2> QED
    BY <2>1 DEF NoJobLost
<1>4. \A j \in Jobs : (Waits(j)' <=> Waits(j)) /\ (Tried(j)' <=> Tried(j))
  BY <1>2 DEF Waits, Tried
<1>5. OneCopy'
  BY <1>2, <1>4 DEF JobsInv, OneCopy
<1> QED
  BY <1>3, <1>5

(* A step that ends an attempt for good: the job is settled, or an error   *)
(* or refused credentials excuse it, or the attempt had ended already.     *)
LEMMA AttemptEnds ==
  ASSUME TypeOK, JobsInv, NEW w \in Workers, UNCHANGED <<queue, outages>>,
         errors' \in Nat, errors' >= errors,
         \A v \in Workers \ {w} : run'[v] = run[v],
         ~Pending(w)',
         \A k \in Jobs : k # Job(w) \/ ~Pending(w) => jobs'[k] = jobs[k],
         Pending(w) => \/ jobs'[Job(w)] \notin {"queued", "running"}
                       \/ errors' > 0
                       \/ Job(w) \in Denied,
         jobs'[Job(w)] = "none" => jobs[Job(w)] = "none"
  PROVE  NoJobLost' /\ OneCopy'
<1>2. \A v \in Workers \ {w} : Job(v)' = Job(v) /\ (Pending(v)' <=> Pending(v))
  BY DEF Job, Pending
<1>3. NoJobLost'
  <2>1. ASSUME NEW j \in Jobs \ Denied, jobs'[j] \in {"queued", "running"}, ~(errors' > 0)
        PROVE  \/ \E m \in Message : m.job = j /\ queue'[m] > 0
               \/ \E v \in Workers : Pending(v)' /\ Job(v)' = j
    <3>1. j # Job(w) \/ ~Pending(w)
      BY <2>1
    <3>2. jobs[j] \in {"queued", "running"} /\ ~(errors > 0)
      BY <2>1, <3>1 DEF TypeOK
    <3>3. CASE \E m \in Message : m.job = j /\ queue[m] > 0
      BY <3>3
    <3>4. CASE \E v \in Workers : Pending(v) /\ Job(v) = j
      BY <1>2, <3>1, <3>4
    <3> QED
      BY <3>2, <3>3, <3>4 DEF JobsInv, NoJobLost
  <2> QED
    BY <2>1 DEF NoJobLost
<1>4. \A j \in Jobs : (Waits(j)' <=> Waits(j)) /\ (Tried(j)' => Tried(j))
  BY <1>2 DEF Waits, Tried
<1>5. ASSUME outages' = 0, NEW j \in Jobs, jobs'[j] \in {"none", "failed"}
      PROVE  ~Waits(j)' /\ ~Tried(j)'
  <2>1. CASE j # Job(w) \/ ~Pending(w)
    BY <1>4, <1>5, <2>1 DEF JobsInv, OneCopy
  <2>2. CASE j = Job(w) /\ Pending(w)
    <3>1. Tried(j) /\ ~Waits(j)
      BY <1>5, <2>2 DEF Tried, JobsInv, OneCopy
    <3>2. \A v \in Workers : Pending(v) /\ Job(v) = j => v = w
      BY <1>5, <2>2 DEF JobsInv, OneCopy
    <3> QED
      BY <1>2, <1>4, <3>1, <3>2 DEF Tried
  <2> QED
    BY <2>1, <2>2
<1>6. ASSUME outages' = 0, NEW u \in Workers, NEW v \in Workers,
             Pending(u)', Pending(v)', Job(u)' = Job(v)'
      PROVE  u = v
  BY <1>2, <1>6 DEF JobsInv, OneCopy
<1>7. OneCopy'
  <2> SUFFICES ASSUME outages' = 0
               PROVE  OneCopy'
    BY DEF OneCopy
  <2>1. \A m \in Message : queue'[m] <= 1
    BY DEF JobsInv, OneCopy
  <2>2. \A m, n \in Message : queue'[m] > 0 /\ queue'[n] > 0 /\ m.job = n.job => m = n
    BY DEF JobsInv, OneCopy
  <2>3. \A j \in Jobs : Tried(j)' => ~Waits(j)'
    BY <1>4 DEF JobsInv, OneCopy
  <2> QED
    BY <1>5, <1>6, <2>1, <2>2, <2>3 DEF OneCopy
<1> QED
  BY <1>3, <1>7

LEMMA AttemptsStep ==
  ASSUME TypeOK, Attempts, [Next]_vars
  PROVE  Attempts'
<1>1. ASSUME UNCHANGED run
      PROVE  Attempts'
  BY <1>1 DEF Attempts
<1>2. ASSUME NEW w \in Workers, NEW m \in Message, Deliver(w, m)
      PROVE  Attempts'
  <2>1. \A v \in Workers : v # w => run'[v] = run[v]
    BY <1>2 DEF Deliver, TypeOK
  <2>2. run'[w].msg = m /\ ~run'[w].ok
    BY <1>2, DeliverEffect
  <2> QED
    BY <2>1, <2>2 DEF Attempts
<1>3. ASSUME NEW w \in Workers, Crash(w) \/ HardLimit(w) \/ Ack(w)
      PROVE  Attempts'
  <2>1. \A v \in Workers : run'[v] = IF v = w THEN Idle ELSE run[v]
    BY <1>3 DEF Crash, HardLimit, Ack, TypeOK
  <2> QED
    BY <2>1 DEF Attempts, Idle
<1>4. ASSUME NEW w \in Workers,
             \/ CreateSnapshot(w) \/ CreateVolume(w) \/ Mount(w) \/ Analysed(w)
             \/ DeleteSnapshot(w)
      PROVE  Attempts'
  <2>1. /\ \A v \in Workers : v # w => run'[v] = run[v]
        /\ run[w].pc # "idle" /\ run'[w].msg = run[w].msg
    BY <1>4, CreateSnapshotEffect, ProgressEffect, DeleteSnapshotEffect
  <2>2. run'[w].ok => run'[w].pc \in {"persist", "ack"} \cup CleanupSteps
    BY <1>4, CreateSnapshotEffect, ProgressEffect, DeleteSnapshotEffect
       DEF Attempts, CleanupSteps
  <2> QED
    BY <2>1, <2>2 DEF Attempts
<1>5. ASSUME NEW w \in Workers,
             \/ Prepare(w) \/ PrepareFails(w) \/ SnapshotReady(w) \/ Attach(w)
             \/ YaraEnds(w) \/ StepFails(w) \/ SoftLimit(w)
             \/ Umount(w) \/ Detach(w) \/ DeleteVolume(w)
             \/ Persist(w) \/ PersistFails(w)
      PROVE  Attempts'
  <2>1. PICK pc : /\ GoTo(w, pc) /\ run[w].pc # "idle"
                  /\ \/ run[w].pc \in {"prepare", "snapshot", "wait", "trivy"} \cup YaraSteps
                     \/ pc \in {"ack"} \cup CleanupSteps
    BY <1>5 DEF Prepare, PrepareFails, SnapshotReady, Attach, YaraEnds, StepFails, SoftLimit,
                Umount, Detach, DeleteVolume, Persist, PersistFails, At, YaraSteps, CleanupSteps
  <2>2. run'[w].pc = pc /\ run'[w].msg = run[w].msg /\ run'[w].ok = run[w].ok
    <3>1. run[w] \in Run /\ run'[w] = [run[w] EXCEPT !.pc = pc]
      BY <2>1 DEF GoTo, TypeOK
    <3> QED
      BY <3>1 DEF Run
  <2>3. \A v \in Workers : v # w => run'[v] = run[v]
    BY <2>1, GoToChangesPc DEF SameButPc
  <2>4. run'[w].ok => run'[w].pc \in {"persist", "ack"} \cup CleanupSteps
    BY <2>1, <2>2 DEF Attempts, YaraSteps, CleanupSteps
  <2> QED
    BY <2>1, <2>2, <2>3, <2>4 DEF Attempts
<1>6. ASSUME \/ \E j \in Jobs : Enqueue(j)
             \/ \E m \in Message : Redeliver(m)
             \/ \E i \in Ids : Detached(i)
             \/ Cleanup
             \/ UNCHANGED vars
      PROVE  Attempts'
  BY <1>1, <1>6 DEF Enqueue, Redeliver, Detached, Cleanup, vars
<1>7. CASE Tick
  BY <1>7, TickChangesAge DEF SameButAge, Attempts
<1> QED
  BY <1>2, <1>3, <1>4, <1>5, <1>6, <1>7 DEF Next, Worker

LEMMA EnqueueStep ==
  ASSUME TypeOK, JobsInv, NEW j \in Jobs, Enqueue(j)
  PROVE  NoJobLost' /\ OneCopy'
<1> DEFINE m0 == [job |-> j, retries |-> 0]
<1>1. m0 \in Message /\ m0.job = j
  BY SideScanAssumption DEF Message
<1>2. /\ jobs[j] = "none" /\ UNCHANGED run /\ UNCHANGED outages
      /\ jobs'[j] \in {"queued", "missing"}
      /\ \A k \in Jobs \ {j} : jobs'[k] = jobs[k]
      /\ errors \in Nat /\ errors' \in Nat /\ errors' >= errors
  BY DEF Enqueue, CountError, faults, TypeOK
<1>3. \/ UNCHANGED queue /\ errors' > 0
      \/ \A n \in Message : queue'[n] = IF n = m0 THEN queue[n] + 1 ELSE queue[n]
  BY <1>1, PublishEffect DEF Enqueue, CountError, TypeOK
<1>4. \A w \in Workers : (Pending(w)' <=> Pending(w)) /\ Job(w)' = Job(w)
  BY <1>2 DEF Pending, Job
<1>5. \A n \in Message : queue[n] \in Nat /\ queue'[n] >= queue[n]
  BY <1>3 DEF TypeOK
<1>6. NoJobLost'
  <2>1. ASSUME NEW k \in Jobs \ Denied, jobs'[k] \in {"queued", "running"}, ~(errors' > 0)
        PROVE  \/ \E m \in Message : m.job = k /\ queue'[m] > 0
               \/ \E w \in Workers : Pending(w)' /\ Job(w)' = k
    <3>1. CASE k = j
      <4>1. queue'[m0] = queue[m0] + 1
        BY <1>1, <1>3, <2>1
      <4>2. queue'[m0] > 0
        <5>1. queue[m0] \in Nat
          BY <1>1, <1>5
        <5> QED
          BY <4>1, <5>1
      <4> QED
        BY <1>1, <3>1, <4>2
    <3>2. CASE k # j
      <4>1. \/ \E m \in Message : m.job = k /\ queue[m] > 0
            \/ \E w \in Workers : Pending(w) /\ Job(w) = k
        BY <1>2, <2>1, <3>2 DEF JobsInv, NoJobLost
      <4>2. CASE \E m \in Message : m.job = k /\ queue[m] > 0
        <5>1. PICK m \in Message : m.job = k /\ queue[m] > 0
          BY <4>2
        <5>2. queue'[m] > 0
          <6>1. queue[m] \in Nat /\ queue'[m] \in {queue[m], queue[m] + 1}
            BY <1>3 DEF TypeOK
          <6> QED
            BY <5>1, <6>1
        <5> QED
          BY <5>1, <5>2
      <4>3. CASE \E w \in Workers : Pending(w) /\ Job(w) = k
        BY <1>4, <4>3
      <4> QED
        BY <4>1, <4>2, <4>3
    <3> QED
      BY <3>1, <3>2
  <2> QED
    BY <2>1 DEF NoJobLost
<1>7. ASSUME outages' = 0
      PROVE  OneCopy'
  <2>1. ~Waits(j) /\ ~Tried(j)
    BY <1>2, <1>7 DEF JobsInv, OneCopy
  <2>2. \A n \in Message : n.job = j => queue[n] = 0
    BY <1>5, <2>1 DEF Waits
  <2>3. \A n \in Message : queue'[n] > 0 => n = m0 \/ (n.job # j /\ queue'[n] = queue[n])
    BY <1>1, <1>3, <2>2
  <2>4. \A n \in Message : queue'[n] <= 1
    <3>1. \A n \in Message : queue[n] <= 1
      BY <1>2, <1>7 DEF JobsInv, OneCopy
    <3> QED
      BY <1>1, <1>3, <2>2, <3>1
  <2>5. \A k \in Jobs : (Tried(k)' <=> Tried(k)) /\ (k # j => (Waits(k)' <=> Waits(k)))
    <3>1. \A k \in Jobs : Tried(k)' <=> Tried(k)
      BY <1>4 DEF Tried
    <3>2. \A n \in Message : n.job # j => queue'[n] = queue[n]
      BY <1>1, <1>3
    <3> QED
      BY <3>1, <3>2 DEF Waits
  <2>6. \A m, n \in Message : queue'[m] > 0 /\ queue'[n] > 0 /\ m.job = n.job => m = n
    BY <1>1, <1>2, <1>7, <2>3 DEF JobsInv, OneCopy
  <2>7. \A v, w \in Workers : Pending(v)' /\ Pending(w)' /\ Job(v)' = Job(w)' => v = w
    BY <1>2, <1>4, <1>7 DEF JobsInv, OneCopy
  <2>8. \A k \in Jobs : Tried(k)' => ~Waits(k)'
    BY <1>2, <1>7, <2>1, <2>5 DEF JobsInv, OneCopy
  <2>9. \A k \in Jobs : jobs'[k] \in {"none", "failed"} => ~Waits(k)' /\ ~Tried(k)'
    BY <1>2, <1>7, <2>5 DEF JobsInv, OneCopy
  <2> QED
    BY <2>4, <2>6, <2>7, <2>8, <2>9 DEF OneCopy
<1> QED
  BY <1>6, <1>7 DEF OneCopy

LEMMA DeliverStep ==
  ASSUME TypeOK, JobsInv, NEW w \in Workers, NEW m \in Message, Deliver(w, m)
  PROVE  NoJobLost' /\ OneCopy'
<1>1. m.job \in Jobs
  BY DEF Message
<1>2. /\ ~Pending(w) /\ queue[m] > 0 /\ run'[w].msg = m
      /\ \A v \in Workers \ {w} : run'[v] = run[v]
      /\ \A n \in Message : queue'[n] = IF n = m THEN queue[n] - 1 ELSE queue[n]
  <2>1. run'[w].msg = m /\ \A v \in Workers \ {w} : run'[v] = run[v]
    BY DeliverEffect
  <2>2. ~Pending(w) /\ queue[m] > 0
    BY DEF Deliver, Idle, Pending, YaraSteps, CleanupSteps
  <2>3. \A n \in Message : queue'[n] = IF n = m THEN queue[n] - 1 ELSE queue[n]
    BY DEF Deliver, TypeOK
  <2> QED
    BY <2>1, <2>2, <2>3
<1>3. /\ UNCHANGED outages
      /\ \A k \in Jobs \ {m.job} : jobs'[k] = jobs[k]
      /\ errors \in Nat /\ errors' \in Nat /\ errors' >= errors
      /\ jobs'[m.job] \in {jobs[m.job], "running"}
      /\ errors' > 0 \/ run'[w].pc = "prepare"
  <2>1. CASE SetJob(m.job, "running") /\ run' = [run EXCEPT ![w] =
                                                  [@ EXCEPT !.pc = "prepare",
                                                            !.msg = m]]
    <3>1. run'[w].pc = "prepare"
      BY <2>1 DEF TypeOK, Run
    <3>2. /\ \A k \in Jobs \ {m.job} : jobs'[k] = jobs[k]
          /\ UNCHANGED outages
          /\ \/ errors' = errors + 1 /\ UNCHANGED jobs
             \/ /\ errors' = errors
                /\ jobs'[m.job] = IF jobs[m.job] = "missing" THEN "missing" ELSE "running"
      BY <1>1, <2>1, SetJobEffect
    <3> QED
      BY <3>1, <3>2 DEF TypeOK
  <2>2. CASE CountError /\ UNCHANGED jobs
    BY <2>2 DEF CountError, TypeOK
  <2> QED
    BY <2>1, <2>2 DEF Deliver
<1>4. \A v \in Workers \ {w} : Job(v)' = Job(v) /\ (Pending(v)' <=> Pending(v))
  BY <1>2 DEF Job, Pending
<1>5. Job(w)' = m.job
  BY <1>2 DEF Job
<1>6. NoJobLost'
  <2>1. ASSUME NEW k \in Jobs \ Denied, jobs'[k] \in {"queued", "running"}, ~(errors' > 0)
        PROVE  \/ \E n \in Message : n.job = k /\ queue'[n] > 0
               \/ \E v \in Workers : Pending(v)' /\ Job(v)' = k
    <3>1. CASE k = m.job
      BY <1>3, <1>5, <2>1, <3>1 DEF Pending
    <3>2. CASE k # m.job
      <4>1. \/ \E n \in Message : n.job = k /\ queue[n] > 0
            \/ \E v \in Workers : Pending(v) /\ Job(v) = k
        BY <1>3, <2>1, <3>2 DEF JobsInv, NoJobLost
      <4> QED
        BY <1>2, <1>4, <3>2, <4>1
    <3> QED
      BY <3>1, <3>2
  <2> QED
    BY <2>1 DEF NoJobLost
<1>7. ASSUME outages' = 0
      PROVE  OneCopy'
  <2>1. queue[m] = 1 /\ ~Tried(m.job) /\ jobs[m.job] \notin {"none", "failed"}
    BY <1>1, <1>2, <1>3, <1>7 DEF JobsInv, OneCopy, Waits, TypeOK
  <2>2. ~Waits(m.job)'
    BY <1>2, <1>3, <1>7, <2>1 DEF JobsInv, OneCopy, Waits
  <2>3. \A k \in Jobs : k # m.job => (Tried(k)' <=> Tried(k)) /\ (Waits(k)' <=> Waits(k))
    BY <1>2, <1>4, <1>5 DEF Tried, Waits
  <2>4. \A n \in Message : queue'[n] <= 1
    BY <1>2, <1>3, <1>7, <2>1 DEF JobsInv, OneCopy
  <2>5. \A n, o \in Message : queue'[n] > 0 /\ queue'[o] > 0 /\ n.job = o.job => n = o
    BY <1>2, <1>3, <1>7, <2>1 DEF JobsInv, OneCopy
  <2>6. \A u, v \in Workers : Pending(u)' /\ Pending(v)' /\ Job(u)' = Job(v)' => u = v
    BY <1>3, <1>4, <1>5, <1>7, <2>1 DEF JobsInv, OneCopy, Tried
  <2>7. \A k \in Jobs : Tried(k)' => ~Waits(k)'
    BY <1>3, <1>7, <2>2, <2>3 DEF JobsInv, OneCopy
  <2>8. \A k \in Jobs : jobs'[k] \in {"none", "failed"} => ~Waits(k)' /\ ~Tried(k)'
    BY <1>3, <1>7, <2>1, <2>3 DEF JobsInv, OneCopy
  <2> QED
    BY <2>4, <2>5, <2>6, <2>7, <2>8 DEF OneCopy
<1> QED
  BY <1>6, <1>7 DEF OneCopy

(* A failed step publishes the next attempt.                               *)
LEMMA RetryStep ==
  ASSUME TypeOK, JobsInv, NEW w \in Workers, StepFails(w),
         run[w].msg.retries < MaxRetries
  PROVE  NoJobLost' /\ OneCopy'
<1> DEFINE next == [run[w].msg EXCEPT !.retries = @ + 1]
<1>1. /\ run[w].msg \in Message /\ Pending(w) /\ ~run[w].ok
      /\ SameButPc(w) /\ run'[w].pc = "umount"
  BY GoToChangesPc DEF StepFails, JobsInv, Attempts, Pending, CleanupSteps
<1>2. next \in Message /\ next.job = Job(w)
  BY <1>1, SideScanAssumption DEF Message, Job
<1>3. \A n \in Message : queue'[n] = IF n = next THEN queue[n] + 1 ELSE queue[n]
  BY <1>2, PublishEffect DEF StepFails
<1>4. UNCHANGED <<jobs, outages, errors>> /\ Job(w) \in Jobs
  BY <1>1 DEF StepFails, faults, Message, Job
<1>5. /\ ~Pending(w)'
      /\ \A v \in Workers \ {w} : Job(v)' = Job(v) /\ (Pending(v)' <=> Pending(v))
  <2>1. run'[w].ok = run[w].ok
    BY DEF StepFails, GoTo, TypeOK, Run
  <2> QED
    BY <1>1, <2>1 DEF SameButPc, Pending, Job, YaraSteps
<1>6. \A n \in Message : queue[n] \in Nat /\ (queue[n] > 0 => queue'[n] > 0)
  BY <1>3 DEF TypeOK
<1>7. NoJobLost'
  <2>1. ASSUME NEW k \in Jobs \ Denied, jobs'[k] \in {"queued", "running"}, ~(errors' > 0)
        PROVE  \/ \E n \in Message : n.job = k /\ queue'[n] > 0
               \/ \E v \in Workers : Pending(v)' /\ Job(v)' = k
    <3>1. CASE k = Job(w)
      <4>1. queue[next] \in Nat /\ queue'[next] = queue[next] + 1
        BY <1>2, <1>3, <1>6
      <4>2. queue'[next] > 0
        BY <4>1
      <4> QED
        BY <1>2, <3>1, <4>2
    <3>2. CASE k # Job(w)
      <4>1. \/ \E n \in Message : n.job = k /\ queue[n] > 0
            \/ \E v \in Workers : Pending(v) /\ Job(v) = k
        BY <1>4, <2>1, <3>2 DEF JobsInv, NoJobLost
      <4> QED
        BY <1>5, <1>6, <3>2, <4>1
    <3> QED
      BY <3>1, <3>2
  <2> QED
    BY <2>1 DEF NoJobLost
<1>8. ASSUME outages' = 0
      PROVE  OneCopy'
  <2>1. Tried(Job(w)) /\ ~Waits(Job(w)) /\ jobs[Job(w)] \notin {"none", "failed"}
    BY <1>1, <1>4, <1>8 DEF JobsInv, OneCopy, Tried
  <2>2. \A v \in Workers : Pending(v) /\ Job(v) = Job(w) => v = w
    BY <1>1, <1>4, <1>8 DEF JobsInv, OneCopy
  <2>3. ~Tried(Job(w))'
    <3>1. \A v \in Workers : Pending(v)' => Job(v)' # Job(w)
      BY <1>5, <2>2
    <3>2. Job(w)' = Job(w)
      BY <1>1 DEF StepFails, GoTo, Job, TypeOK, Run
    <3> QED
      BY <3>1, <3>2 DEF Tried
  <2>4. \A n \in Message : n.job = Job(w) => queue[n] = 0
    BY <1>6, <2>1 DEF Waits
  <2>5. \A n \in Message : queue'[n] > 0 => n = next \/ (n.job # Job(w) /\ queue'[n] = queue[n])
    BY <1>2, <1>3, <2>4
  <2>6. \A k \in Jobs : k # Job(w) => (Tried(k)' <=> Tried(k)) /\ (Waits(k)' <=> Waits(k))
    <3>1. \A n \in Message : n.job # Job(w) => queue'[n] = queue[n]
      BY <1>2, <1>3
    <3> QED
      BY <1>5, <3>1 DEF Tried, Waits
  <2>7. \A n \in Message : queue'[n] <= 1
    <3>1. \A n \in Message : queue[n] <= 1
      BY <1>4, <1>8 DEF JobsInv, OneCopy
    <3>2. queue[next] = 0
      BY <1>2, <2>4
    <3> QED
      BY <1>3, <3>1, <3>2
  <2>8. \A n, o \in Message : queue'[n] > 0 /\ queue'[o] > 0 /\ n.job = o.job => n = o
    BY <1>2, <1>4, <1>8, <2>5 DEF JobsInv, OneCopy
  <2>9. \A u, v \in Workers : Pending(u)' /\ Pending(v)' /\ Job(u)' = Job(v)' => u = v
    BY <1>4, <1>5, <1>8 DEF JobsInv, OneCopy
  <2>10. Job(w)' = Job(w)
    BY <1>1 DEF StepFails, GoTo, Job, TypeOK, Run
  <2>11. \A k \in Jobs : Tried(k)' => ~Waits(k)'
    BY <1>4, <1>8, <2>3, <2>6, <2>10 DEF JobsInv, OneCopy
  <2>12. \A k \in Jobs : jobs'[k] \in {"none", "failed"} => ~Waits(k)' /\ ~Tried(k)'
    BY <1>4, <1>8, <2>1, <2>6 DEF JobsInv, OneCopy
  <2> QED
    BY <2>7, <2>8, <2>9, <2>11, <2>12 DEF OneCopy
<1> QED
  BY <1>7, <1>8 DEF OneCopy

(* An outage: the message of a dead worker, or a copy of one that waits,   *)
(* goes back to the queue.                                                 *)
LEMMA OutageStep ==
  ASSUME TypeOK, JobsInv, NEW m \in Message, Publish(m), CountOutage, UNCHANGED jobs,
         \A v \in Workers : run'[v] = run[v] \/ run[v].msg = m
  PROVE  NoJobLost' /\ OneCopy'
<1>1. outages' # 0 /\ errors' = errors
  BY DEF CountOutage, TypeOK
<1>2. \A n \in Message : queue[n] \in Nat /\ queue'[n] = IF n = m THEN queue[n] + 1 ELSE queue[n]
  BY PublishEffect DEF TypeOK
<1>3. queue'[m] > 0 /\ \A n \in Message : queue[n] > 0 => queue'[n] > 0
  BY <1>2
<1>4. ASSUME NEW k \in Jobs \ Denied, jobs'[k] \in {"queued", "running"}, ~(errors' > 0)
      PROVE  \/ \E n \in Message : n.job = k /\ queue'[n] > 0
             \/ \E v \in Workers : Pending(v)' /\ Job(v)' = k
  <2>1. CASE \E n \in Message : n.job = k /\ queue[n] > 0
    BY <1>3, <2>1
  <2>2. CASE \E v \in Workers : Pending(v) /\ Job(v) = k
    <3>1. PICK v \in Workers : Pending(v) /\ Job(v) = k
      BY <2>2
    <3>2. CASE run'[v] = run[v]
      BY <3>1, <3>2 DEF Pending, Job
    <3>3. CASE run[v].msg = m
      BY <1>3, <3>1, <3>3 DEF Job
    <3> QED
      BY <3>2, <3>3
  <2> QED
    BY <1>1, <1>4, <2>1, <2>2 DEF JobsInv, NoJobLost
<1> QED
  BY <1>1, <1>4 DEF NoJobLost, OneCopy

LEMMA JobsStep ==
  ASSUME TypeOK, TypeOK', JobsInv, [Next]_vars
  PROVE  JobsInv'
<1>1. Attempts'
  BY AttemptsStep DEF JobsInv
<1>2. errors \in Nat /\ errors' \in Nat
  BY DEF TypeOK
<1>3. ASSUME NEW m \in Message, Redeliver(m)
      PROVE  NoJobLost' /\ OneCopy'
  BY <1>3, OutageStep DEF Redeliver
<1>4. ASSUME NEW w \in Workers, Crash(w)
      PROVE  NoJobLost' /\ OneCopy'
  <2>1. run[w].msg \in Message
    BY <1>4 DEF Crash, At, JobsInv, Attempts
  <2>2. \A v \in Workers : run'[v] = run[v] \/ run[v].msg = run[w].msg
    BY <1>4 DEF Crash, TypeOK
  <2> QED
    BY <1>4, <2>1, <2>2, OutageStep DEF Crash
<1>5. ASSUME NEW w \in Workers,
             \/ Prepare(w) \/ CreateSnapshot(w) \/ SnapshotReady(w) \/ CreateVolume(w)
             \/ Attach(w) \/ Mount(w) \/ YaraEnds(w) \/ Analysed(w)
             \/ Umount(w) \/ Detach(w) \/ DeleteVolume(w) \/ DeleteSnapshot(w)
      PROVE  NoJobLost' /\ OneCopy'
  <2>1. UNCHANGED <<jobs, queue, outages>> /\ errors' >= errors
    BY <1>2, <1>5 DEF Prepare, CreateSnapshot, SnapshotReady, CreateVolume, Attach, Mount,
                YaraEnds, Analysed, Umount, Detach, DeleteVolume, DeleteSnapshot,
                CountError, faults
  <2>2. /\ \A v \in Workers : v # w => run'[v] = run[v]
        /\ run'[w].msg = run[w].msg
        /\ Pending(w)' <=> Pending(w)
    <3>1. CASE CreateSnapshot(w)
      BY <3>1, CreateSnapshotEffect DEF Pending
    <3>2. CASE CreateVolume(w) \/ Mount(w) \/ Analysed(w)
      BY <3>2, ProgressEffect DEF Pending, YaraSteps, CleanupSteps
    <3>3. CASE DeleteSnapshot(w)
      BY <3>3, DeleteSnapshotEffect DEF Pending, YaraSteps, CleanupSteps
    <3>4. CASE Prepare(w) \/ SnapshotReady(w) \/ Attach(w) \/ YaraEnds(w)
                 \/ Umount(w) \/ Detach(w) \/ DeleteVolume(w)
      <4>1. PICK pc : /\ GoTo(w, pc)
                      /\ \/ /\ run[w].pc \in {"prepare", "wait"} \cup YaraSteps
                            /\ pc \in {"snapshot", "trivy"} \cup YaraSteps
                         \/ run[w].pc \in CleanupSteps /\ pc \in CleanupSteps
        BY <3>4 DEF Prepare, SnapshotReady, Attach, YaraEnds, Umount, Detach, DeleteVolume,
                    At, YaraSteps, CleanupSteps
      <4>2. run'[w].pc = pc /\ run'[w].msg = run[w].msg /\ run'[w].ok = run[w].ok
        <5>1. run[w] \in Run /\ run'[w] = [run[w] EXCEPT !.pc = pc]
          BY <4>1 DEF GoTo, TypeOK
        <5> QED
          BY <5>1 DEF Run
      <4>3. \A v \in Workers : v # w => run'[v] = run[v]
        BY <4>1, GoToChangesPc DEF SameButPc
      <4> QED
        BY <4>1, <4>2, <4>3 DEF Pending, YaraSteps, CleanupSteps
    <3> QED
      BY <1>5, <3>1, <3>2, <3>3, <3>4
  <2>3. \A v \in Workers : run'[v].msg = run[v].msg /\ (Pending(v)' <=> Pending(v))
    BY <2>2 DEF Pending
  <2> QED
    BY <1>2, <2>1, <2>3, JobsUntouched
<1>6. ASSUME NEW w \in Workers, HardLimit(w) \/ Ack(w) \/ PrepareFails(w) \/ PersistFails(w)
      PROVE  NoJobLost' /\ OneCopy'
  <2>1. UNCHANGED <<jobs, queue, outages>> /\ errors' >= errors
    BY <1>2, <1>6 DEF HardLimit, Ack, PrepareFails, PersistFails, CountError, faults
  <2>2. \A v \in Workers \ {w} : run'[v] = run[v]
    BY <1>6 DEF HardLimit, Ack, PrepareFails, PersistFails, GoTo, TypeOK
  <2>3. run'[w].pc \in {"idle", "ack"}
    BY <1>6 DEF HardLimit, Ack, PrepareFails, PersistFails, GoTo, Idle, TypeOK, Run
  <2>4. ~Pending(w)'
    BY <2>3 DEF Pending, YaraSteps, CleanupSteps
  <2>5. Pending(w) => errors' > 0 \/ Job(w) \in Denied
    BY <1>2, <1>6 DEF HardLimit, Ack, PrepareFails, PersistFails, CountError, At, Pending,
                YaraSteps, CleanupSteps
  <2> QED
    BY <1>2, <2>1, <2>2, <2>4, <2>5, AttemptEnds
(* Attempts that end by writing a final status.                            *)
<1>7. ASSUME NEW w \in Workers, NEW status \in Terminal, SetJob(Job(w), status),
             UNCHANGED queue, NEW pc \in {"umount", "ack"}, GoTo(w, pc),
             run[w].pc \in {"snapshot", "wait", "trivy", "persist"},
             pc = "umount" => run[w].pc # "persist"
      PROVE  NoJobLost' /\ OneCopy'
  <2>1. Job(w) \in Jobs /\ Pending(w)
    BY <1>7 DEF JobsInv, Attempts, Message, Job, Pending
  <2>2. /\ \A k \in Jobs \ {Job(w)} : jobs'[k] = jobs[k]
        /\ UNCHANGED outages
        /\ \/ errors' = errors + 1 /\ UNCHANGED jobs
           \/ /\ errors' = errors
              /\ jobs'[Job(w)] = IF jobs[Job(w)] = "missing" THEN "missing" ELSE status
    BY <1>7, <2>1, SetJobEffect
  <2>3. /\ errors' >= errors
        /\ errors' > 0 \/ jobs'[Job(w)] \notin {"queued", "running"}
        /\ jobs'[Job(w)] = "none" => jobs[Job(w)] = "none"
    BY <1>2, <2>2 DEF Terminal
  <2>4. SameButPc(w) /\ run'[w].pc = pc /\ run'[w].ok = run[w].ok
    <3>1. SameButPc(w) /\ run'[w].pc = pc
      BY <1>7, GoToChangesPc
    <3>2. run'[w].ok = run[w].ok
      BY <1>7 DEF GoTo, TypeOK, Run
    <3> QED
      BY <3>1, <3>2
  <2>5. ~Pending(w)'
    BY <1>7, <2>4 DEF JobsInv, Attempts, Pending, YaraSteps, CleanupSteps
  <2> QED
    BY <1>2, <1>7, <2>1, <2>2, <2>3, <2>4, <2>5, AttemptEnds DEF SameButPc
<1>8. ASSUME NEW w \in Workers, StepFails(w)
      PROVE  NoJobLost' /\ OneCopy'
  <2>1. CASE run[w].msg.retries < MaxRetries
    BY <1>8, <2>1, RetryStep DEF JobsInv
  <2>2. CASE ~(run[w].msg.retries < MaxRetries)
    BY <1>7, <1>8, <2>2 DEF StepFails, Terminal
  <2> QED
    BY <2>1, <2>2
<1>9. ASSUME NEW w \in Workers, SoftLimit(w)
      PROVE  NoJobLost' /\ OneCopy'
  BY <1>7, <1>9 DEF SoftLimit, Terminal
<1>10. ASSUME NEW w \in Workers, Persist(w)
       PROVE  NoJobLost' /\ OneCopy'
  BY <1>7, <1>10 DEF Persist, At, Terminal
<1>11. ASSUME UNCHANGED <<jobs, queue, run, outages, errors>>
       PROVE  NoJobLost' /\ OneCopy'
  <2>1. \A w \in Workers : Pending(w)' <=> Pending(w)
    BY <1>11 DEF Pending
  <2> QED
    BY <1>2, <1>11, <2>1, JobsUntouched
<1>12. ASSUME (\E i \in Ids : Detached(i)) \/ Cleanup \/ UNCHANGED vars
       PROVE  NoJobLost' /\ OneCopy'
  BY <1>11, <1>12 DEF Detached, Cleanup, vars, faults
<1>13. ASSUME Tick
       PROVE  NoJobLost' /\ OneCopy'
  <2>1. SameButAge /\ UNCHANGED <<jobs, queue, outages>> /\ UNCHANGED errors
    BY <1>13, TickChangesAge DEF Tick, faults
  <2>2. \A w \in Workers : run'[w].msg = run[w].msg /\ (Pending(w)' <=> Pending(w))
    BY <2>1 DEF SameButAge, Pending
  <2>3. errors' >= errors
    BY <1>2, <2>1
  <2> QED
    BY <1>2, <2>1, <2>2, <2>3, JobsUntouched
<1>14. ASSUME NEW w \in Workers, Worker(w)
       PROVE  NoJobLost' /\ OneCopy'
  BY <1>5, <1>6, <1>8, <1>9, <1>10, <1>14 DEF Worker
<1>15. ASSUME \/ \E j \in Jobs : Enqueue(j)
              \/ \E w \in Workers, m \in Message : Deliver(w, m)
       PROVE  NoJobLost' /\ OneCopy'
  BY <1>15, EnqueueStep, DeliverStep
<1>16. NoJobLost' /\ OneCopy'
  BY <1>3, <1>4, <1>6, <1>12, <1>13, <1>14, <1>15 DEF Next
<1> QED
  BY <1>1, <1>16 DEF JobsInv

LEMMA JobsInvariant == Spec => []JobsInv
<1>1. Init => JobsInv
  <2>1. ASSUME Init
        PROVE  JobsInv
    <3>1. \A w \in Workers : run[w] = Idle /\ ~Pending(w)
      BY <2>1 DEF Init, Idle, Pending, YaraSteps, CleanupSteps
    <3>2. \A m \in Message : queue[m] = 0
      BY <2>1 DEF Init
    <3>3. \A j \in Jobs : jobs[j] = "none" /\ ~Waits(j) /\ ~Tried(j)
      BY <2>1, <3>1, <3>2 DEF Init, Waits, Tried
    <3>4. Attempts
      BY <3>1 DEF Attempts, Idle
    <3>5. NoJobLost
      BY <3>3 DEF NoJobLost
    <3>6. OneCopy
      BY <3>1, <3>2, <3>3 DEF OneCopy
    <3> QED
      BY <3>4, <3>5, <3>6 DEF JobsInv
  <2> QED
    BY <2>1
<1>2. IInv /\ IInv' /\ JobsInv /\ [Next]_vars => JobsInv'
  BY JobsStep DEF IInv
<1> QED
  BY <1>1, <1>2, Invariant, PTL DEF Spec

(* A job that is queued or running is not forgotten by crashes and         *)
(* redeliveries alone, for every number of them and of retries.            *)
THEOREM JobsAreNotLost == Spec => []NoJobLost
<1>1. JobsInv => NoJobLost
  BY DEF JobsInv
<1> QED
  BY <1>1, JobsInvariant, PTL

(* Who writes the status of a failed job: nobody, while every job has one  *)
(* copy of its message.                                                    *)
LEMMA FailedStays ==
  ASSUME TypeOK, JobsInv, [Next]_vars, NEW j \in Jobs, jobs[j] = "failed", outages = 0
  PROVE  jobs'[j] = "failed"
<1>1. ~Waits(j) /\ ~Tried(j)
  BY DEF JobsInv, OneCopy
<1>2. ASSUME NEW k \in Jobs, Enqueue(k)
      PROVE  jobs'[j] = "failed"
  BY <1>2 DEF Enqueue, TypeOK
<1>3. ASSUME NEW w \in Workers, NEW m \in Message, Deliver(w, m)
      PROVE  jobs'[j] = "failed"
  <2>1. m.job \in Jobs /\ m.job # j
    BY <1>1, <1>3 DEF Deliver, Waits, Message
  <2> QED
    BY <1>3, <2>1, SetJobEffect DEF Deliver
<1>4. ASSUME NEW w \in Workers, NEW status, SetJob(Job(w), status), Pending(w)
      PROVE  jobs'[j] = "failed"
  <2>1. Job(w) \in Jobs /\ Job(w) # j
    BY <1>1, <1>4 DEF JobsInv, Attempts, Pending, Tried, Job, Message, YaraSteps, CleanupSteps
  <2> QED
    BY <1>4, <2>1, SetJobEffect
<1>5. ASSUME NEW w \in Workers, StepFails(w) \/ SoftLimit(w) \/ Persist(w)
      PROVE  jobs'[j] = "failed"
  <2>1. Pending(w)
    BY <1>5 DEF StepFails, SoftLimit, Persist, At, Pending
  <2>2. UNCHANGED jobs \/ \E status \in Terminal : SetJob(Job(w), status)
    BY <1>5 DEF StepFails, SoftLimit, Persist, Terminal
  <2> QED
    BY <1>4, <2>1, <2>2
<1>6. ASSUME UNCHANGED jobs
      PROVE  jobs'[j] = "failed"
  BY <1>6
<1>7. ASSUME NEW w \in Workers, Worker(w), ~(StepFails(w) \/ SoftLimit(w) \/ Persist(w))
      PROVE  UNCHANGED jobs
  BY <1>7 DEF Worker, Prepare, PrepareFails, CreateSnapshot, SnapshotReady, CreateVolume,
              Attach, Mount, YaraEnds, Analysed, Umount, Detach, DeleteVolume, DeleteSnapshot,
              PersistFails, Ack
<1> QED
  BY <1>2, <1>3, <1>5, <1>6, <1>7
     DEF Next, Redeliver, Crash, HardLimit, Detached, Cleanup, Tick, vars

(* A failed job is not tried again, unless an outage made a second copy of *)
(* its message.                                                            *)
THEOREM FailuresAreFinal == Spec => FailedIsFinal
<1>1. IInv /\ JobsInv /\ [Next]_vars
        => [\A j \in Jobs : jobs[j] = "failed" /\ outages = 0 => jobs'[j] = "failed"]_vars
  BY FailedStays DEF IInv
<1> QED
  BY <1>1, Invariant, JobsInvariant, PTL DEF Spec, FailedIsFinal

-----------------------------------------------------------------------------
(* The snapshots no attempt holds                                          *)

Orphans == {i \in snapshots : ~Held(i)}

(* Before and after its try block an attempt has no snapshot.              *)
HoldsNothingOutside ==
  \A w \in Workers :
    run[w].pc \in {"idle", "prepare", "snapshot", "persist", "ack"} => ~run[w].snap

LeakInv ==
  /\ HoldsNothingOutside
  /\ IsFiniteSet(Orphans)
  /\ NoSnapshotLeak

LEMMA OutsideStep ==
  ASSUME IInv, HoldsNothingOutside, [Next]_vars
  PROVE  HoldsNothingOutside'
<1> USE DEF IInv
<1>1. ASSUME UNCHANGED run
      PROVE  HoldsNothingOutside'
  BY <1>1 DEF HoldsNothingOutside
<1>2. ASSUME NEW w \in Workers, NEW m \in Message, Deliver(w, m)
      PROVE  HoldsNothingOutside'
  <2>1. \A v \in Workers : v # w => run'[v] = run[v]
    BY <1>2 DEF Deliver, TypeOK
  <2>2. ~run'[w].snap
    BY <1>2, DeliverEffect
  <2> QED
    BY <2>1, <2>2 DEF HoldsNothingOutside
<1>3. ASSUME NEW w \in Workers, Crash(w) \/ HardLimit(w) \/ Ack(w)
      PROVE  HoldsNothingOutside'
  <2>1. \A v \in Workers : run'[v] = IF v = w THEN Idle ELSE run[v]
    BY <1>3 DEF Crash, HardLimit, Ack, TypeOK
  <2> QED
    BY <2>1 DEF HoldsNothingOutside, Idle
<1>4. ASSUME NEW w \in Workers,
             \/ CreateSnapshot(w) \/ CreateVolume(w) \/ Mount(w) \/ Analysed(w)
             \/ DeleteSnapshot(w)
      PROVE  HoldsNothingOutside'
  <2>1. \A v \in Workers : v # w => run'[v] = run[v]
    BY <1>4, CreateSnapshotEffect, ProgressEffect, DeleteSnapshotEffect
  <2>2. run'[w].pc \in {"wait", "attach", "yara", "umount"} \/ ~run'[w].snap
    BY <1>4, CreateSnapshotEffect, ProgressEffect, DeleteSnapshotEffect
  <2> QED
    BY <2>1, <2>2 DEF HoldsNothingOutside
<1>5. ASSUME NEW w \in Workers,
             \/ Prepare(w) \/ PrepareFails(w) \/ SnapshotReady(w) \/ Attach(w)
             \/ YaraEnds(w) \/ StepFails(w) \/ SoftLimit(w)
             \/ Umount(w) \/ Detach(w) \/ DeleteVolume(w)
             \/ Persist(w) \/ PersistFails(w)
      PROVE  HoldsNothingOutside'
  <2>1. PICK pc : /\ GoTo(w, pc)
                  /\ \/ run[w].pc \in {"prepare", "persist"}
                     \/ pc \in {"volume", "mount", "trivy", "umount", "detach",
                                "delete", "unsnap"}
    BY <1>5 DEF Prepare, PrepareFails, SnapshotReady, Attach, YaraEnds, StepFails, SoftLimit,
                Umount, Detach, DeleteVolume, Persist, PersistFails, At
  <2>2. SameButPc(w) /\ run'[w].pc = pc
    BY <2>1, GoToChangesPc
  <2> QED
    BY <2>1, <2>2 DEF SameButPc, HoldsNothingOutside
<1>6. ASSUME \/ \E j \in Jobs : Enqueue(j)
             \/ \E m \in Message : Redeliver(m)
             \/ \E i \in Ids : Detached(i)
             \/ Cleanup
             \/ UNCHANGED vars
      PROVE  HoldsNothingOutside'
  BY <1>1, <1>6 DEF Enqueue, Redeliver, Detached, Cleanup, vars
<1>7. CASE Tick
  BY <1>7, TickChangesAge DEF SameButAge, HoldsNothingOutside
<1> QED
  BY <1>2, <1>3, <1>4, <1>5, <1>6, <1>7 DEF Next, Worker

(* A step orphans no snapshot, or it counts a fault and orphans one.       *)
LEMMA OrphansStep ==
  ASSUME IInv, HoldsNothingOutside, [Next]_vars
  PROVE  \/ Orphans' \subseteq Orphans /\ outages' + errors' >= outages + errors
         \/ /\ \E i \in Ids : Orphans' \subseteq Orphans \cup {i}
            /\ outages' + errors' = outages + errors + 1
<1> DEFINE
      Kept == Orphans' \subseteq Orphans /\ outages' + errors' >= outages + errors
      OneMore == /\ \E i \in Ids : Orphans' \subseteq Orphans \cup {i}
                 /\ outages' + errors' = outages + errors + 1
<1> USE DEF IInv
<1>1. outages \in Nat /\ errors \in Nat
  BY DEF TypeOK
<1>2. ASSUME UNCHANGED snapshots, \A w \in Workers : run'[w].id = run[w].id,
             outages' + errors' >= outages + errors
      PROVE  Kept
  BY <1>2 DEF Orphans, Held
<1>3. ASSUME NEW w \in Workers, Crash(w) \/ HardLimit(w)
      PROVE  Kept \/ OneMore
  <2>1. /\ UNCHANGED snapshots /\ outages' + errors' = outages + errors + 1
        /\ \A v \in Workers : v # w => run'[v] = run[v]
    <3>1. UNCHANGED snapshots /\ (CountOutage \/ CountError)
      BY <1>3 DEF Crash, HardLimit, aws
    <3>2. run' = [run EXCEPT ![w] = Idle] /\ DOMAIN run = Workers
      BY <1>3 DEF Crash, HardLimit, TypeOK
    <3> QED
      BY <1>1, <3>1, <3>2 DEF CountOutage, CountError
  <2>2. Orphans' \subseteq Orphans \cup {run[w].id}
    BY <2>1 DEF Orphans, Held
  <2>3. CASE run[w].id \in Ids
    BY <2>1, <2>2, <2>3
  <2>4. CASE run[w].id \notin Ids
    BY <1>1, <2>1, <2>2, <2>4 DEF Orphans, TypeOK
  <2> QED
    BY <2>3, <2>4
<1>4. ASSUME NEW w \in Workers, Ack(w)
      PROVE  Kept
  <2>1. run[w].id = NoId
    BY <1>4 DEF Ack, At, HoldsNothingOutside, HoldsSnapshot
  <2>2. \A v \in Workers : run'[v].id = run[v].id
    BY <1>4, <2>1 DEF Ack, Idle, TypeOK
  <2> QED
    BY <1>1, <1>2, <1>4, <2>2 DEF Ack, aws, faults
<1>5. ASSUME NEW w \in Workers, NEW m \in Message, Deliver(w, m)
      PROVE  Kept
  <2>1. \A v \in Workers : run'[v].id = run[v].id
    <3>1. run'[w].id = run[w].id
      BY <1>5 DEF Deliver, TypeOK, Run
    <3>2. \A v \in Workers : v # w => run'[v] = run[v]
      BY <1>5 DEF Deliver, TypeOK
    <3> QED
      BY <3>1, <3>2
  <2>2. outages' + errors' >= outages + errors
    BY <1>1, <1>5 DEF Deliver, SetJob, CountError, faults
  <2> QED
    BY <1>2, <1>5, <2>1, <2>2 DEF Deliver, aws
<1>6. ASSUME NEW w \in Workers, CreateSnapshot(w)
      PROVE  Kept
  <2>1. run[w].id = NoId
    BY <1>6 DEF CreateSnapshot, At, HoldsNothingOutside, HoldsSnapshot
  <2>2. /\ snapshots' = snapshots \cup {Fresh}
        /\ \A v \in Workers : run'[v].id = IF v = w THEN Fresh ELSE run[v].id
    BY <1>6 DEF CreateSnapshot, TypeOK, Run
  <2>3. Orphans' \subseteq Orphans
    BY <2>1, <2>2, SideScanAssumption DEF Orphans, Held, TypeOK
  <2> QED
    BY <1>1, <1>6, <2>3 DEF CreateSnapshot, faults
<1>7. ASSUME NEW w \in Workers, DeleteSnapshot(w)
      PROVE  Kept \/ OneMore
  <2>1. \A v \in Workers : v # w => run'[v] = run[v]
    BY <1>7 DEF DeleteSnapshot, TypeOK
  <2>2. CASE /\ snapshots' = IF run[w].snap THEN snapshots \ {run[w].id} ELSE snapshots
             /\ UNCHANGED faults
    <3>1. Orphans' \subseteq Orphans
      BY <2>1, <2>2, SideScanAssumption DEF Orphans, Held, HoldsSnapshot, TypeOK
    <3> QED
      BY <1>1, <2>2, <3>1 DEF faults
  <2>3. CASE run[w].snap /\ CountError /\ UNCHANGED snapshots
    <3>1. Orphans' \subseteq Orphans \cup {run[w].id}
      BY <2>1, <2>3 DEF Orphans, Held
    <3>2. run[w].id \in Ids
      BY <2>3 DEF HoldsSnapshot, TypeOK
    <3> QED
      BY <1>1, <2>3, <3>1, <3>2 DEF CountError
  <2> QED
    BY <1>7, <2>2, <2>3 DEF DeleteSnapshot
<1>8. CASE Cleanup
  BY <1>1, <1>8 DEF Cleanup, Orphans, Held, faults
<1>9. ASSUME NEW w \in Workers, Worker(w),
             ~(Ack(w) \/ CreateSnapshot(w) \/ DeleteSnapshot(w))
      PROVE  Kept
  <2>1. \A v \in Workers : run'[v].id = run[v].id
    <3>1. CASE CreateVolume(w) \/ Mount(w) \/ Analysed(w)
      BY <3>1, ProgressEffect
    <3>2. CASE \E pc : GoTo(w, pc)
      BY <3>2, GoToChangesPc DEF SameButPc
    <3> QED
      BY <1>9, <3>1, <3>2 DEF Worker, Prepare, PrepareFails, SnapshotReady, Attach, YaraEnds,
         StepFails, SoftLimit, Umount, Detach, DeleteVolume, Persist, PersistFails
  <2>2. UNCHANGED snapshots
    BY <1>9 DEF Worker, Prepare, PrepareFails, SnapshotReady, CreateVolume, Attach, Mount,
                YaraEnds, Analysed, StepFails, SoftLimit, Umount, Detach, DeleteVolume,
                Persist, PersistFails, aws
  <2>3. outages' + errors' >= outages + errors
    BY <1>1, <1>9 DEF Worker, Prepare, PrepareFails, SnapshotReady, CreateVolume, Attach, Mount,
                YaraEnds, Analysed, StepFails, SoftLimit, Umount, Detach, DeleteVolume,
                Persist, PersistFails, SetJob, CountError, faults
  <2> QED
    BY <1>2, <2>1, <2>2, <2>3
<1>10. ASSUME \/ \E j \in Jobs : Enqueue(j)
              \/ \E m \in Message : Redeliver(m)
              \/ \E i \in Ids : Detached(i)
              \/ UNCHANGED vars
       PROVE  Kept
  <2>1. UNCHANGED <<run, snapshots>>
    BY <1>10 DEF Enqueue, Redeliver, Detached, vars, aws
  <2>2. outages' + errors' >= outages + errors
    <3>1. ASSUME NEW j \in Jobs, Enqueue(j)
          PROVE  outages' + errors' >= outages + errors
      BY <1>1, <3>1 DEF Enqueue, CountError, faults
    <3>2. ASSUME NEW m \in Message, Redeliver(m)
          PROVE  outages' + errors' >= outages + errors
      BY <1>1, <3>2 DEF Redeliver, CountOutage
    <3>3. CASE (\E i \in Ids : Detached(i)) \/ UNCHANGED vars
      BY <1>1, <3>3 DEF Detached, vars, faults
    <3> QED
      BY <1>10, <3>1, <3>2, <3>3
  <2> QED
    BY <1>2, <2>1, <2>2
<1>11. CASE Tick
  <2>1. SameButAge /\ UNCHANGED <<snapshots, outages, errors>>
    BY <1>11, TickChangesAge DEF Tick, faults
  <2> QED
    BY <1>1, <1>2, <2>1 DEF SameButAge
<1> QED
  BY <1>3, <1>4, <1>5, <1>6, <1>7, <1>8, <1>9, <1>10, <1>11 DEF Next

(* A finite set that grows by at most one element stays within a bound     *)
(* that grows with it.                                                     *)
LEMMA BoundedGrowth ==
  ASSUME NEW S, NEW T, NEW n \in Nat, NEW o \in Nat, NEW k \in Nat, NEW p \in Nat,
         IsFiniteSet(S), Cardinality(S) <= n + o,
         \/ T \subseteq S /\ k + p >= n + o
         \/ (\E x : T \subseteq S \cup {x}) /\ k + p = n + o + 1
  PROVE  IsFiniteSet(T) /\ Cardinality(T) <= k + p
<1>1. Cardinality(S) \in Nat
  BY FS_CardinalityType
<1>2. ASSUME T \subseteq S, k + p >= n + o
      PROVE  IsFiniteSet(T) /\ Cardinality(T) <= k + p
  <2>1. IsFiniteSet(T)
    BY <1>2, FS_Subset
  <2>2. Cardinality(T) \in Nat
    BY <2>1, FS_CardinalityType
  <2>3. Cardinality(T) <= Cardinality(S)
    BY <1>2, FS_Subset
  <2>4. Cardinality(T) <= k + p
    BY <1>1, <1>2, <2>2, <2>3
  <2> QED
    BY <2>1, <2>4
<1>3. ASSUME NEW x, T \subseteq S \cup {x}, k + p = n + o + 1
      PROVE  IsFiniteSet(T) /\ Cardinality(T) <= k + p
  <2>1. IsFiniteSet(S \cup {x})
    BY FS_AddElement
  <2>2. \/ Cardinality(S \cup {x}) = Cardinality(S)
        \/ Cardinality(S \cup {x}) = Cardinality(S) + 1
    BY FS_AddElement
  <2>3. IsFiniteSet(T)
    BY <1>3, <2>1, FS_Subset
  <2>4. Cardinality(T) \in Nat
    BY <2>3, FS_CardinalityType
  <2>5. Cardinality(T) <= Cardinality(S \cup {x})
    BY <1>3, <2>1, FS_Subset
  <2>6. Cardinality(T) <= k + p
    BY <1>1, <1>3, <2>2, <2>4, <2>5
  <2> QED
    BY <2>3, <2>6
<1> QED
  BY <1>2, <1>3

LEMMA LeakStep ==
  ASSUME IInv, LeakInv, [Next]_vars
  PROVE  LeakInv'
<1>1. HoldsNothingOutside'
  BY OutsideStep DEF LeakInv
<1>2. IsFiniteSet(Orphans)
  BY DEF LeakInv
<1>3. Cardinality(Orphans) <= outages + errors
  BY DEF LeakInv, NoSnapshotLeak, Orphans
<1>4. outages \in Nat /\ errors \in Nat /\ outages' \in Nat /\ errors' \in Nat
  BY TypeStep DEF IInv, TypeOK
<1>5. \/ Orphans' \subseteq Orphans /\ outages' + errors' >= outages + errors
      \/ /\ \E i : Orphans' \subseteq Orphans \cup {i}
         /\ outages' + errors' = outages + errors + 1
  BY OrphansStep DEF LeakInv
<1>6. IsFiniteSet(Orphans') /\ Cardinality(Orphans') <= outages' + errors'
  BY <1>2, <1>3, <1>4, <1>5, BoundedGrowth
<1> QED
  BY <1>1, <1>6 DEF LeakInv, NoSnapshotLeak, Orphans

(* Snapshots leak only by faults, and at most one by each fault: whatever  *)
(* step of a scan fails, its finally block runs.                           *)
THEOREM SnapshotsDoNotLeak == Spec => []NoSnapshotLeak
<1>1. Init => LeakInv
  <2>1. ASSUME Init
        PROVE  LeakInv
    <3>1. Orphans = {}
      BY <2>1 DEF Init, Orphans
    <3>2. IsFiniteSet(Orphans) /\ Cardinality(Orphans) = 0
      BY <3>1, FS_EmptySet
    <3>3. NoSnapshotLeak
      BY <2>1, <3>2 DEF Init, NoSnapshotLeak, Orphans
    <3>4. HoldsNothingOutside
      BY <2>1 DEF Init, HoldsNothingOutside, Idle
    <3> QED
      BY <3>2, <3>3, <3>4 DEF LeakInv
  <2> QED
    BY <2>1
<1>2. IInv /\ LeakInv /\ [Next]_vars => LeakInv'
  BY LeakStep
<1>3. LeakInv => NoSnapshotLeak
  BY DEF LeakInv
<1> QED
  BY <1>1, <1>2, <1>3, Invariant, PTL DEF Spec

=============================================================================
