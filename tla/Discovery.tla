----------------------------- MODULE Discovery -----------------------------
(***************************************************************************)
(* The discovery of Azure subscriptions, GCP projects or Kubernetes        *)
(* clusters: three tasks of one shape.  A task takes the lock of its       *)
(* tenant and cloud, inserts a job document, resolves the secret of its    *)
(* provider, lists one resource type after the other and upserts what it   *)
(* finds, marks everything else of the cloud deleted, and closes the job.  *)
(*                                                                         *)
(* Source: workers/tasks/azure_discovery.py, gcp_discovery.py and          *)
(* k8s_discovery.py, workers/tasks/scheduling.py (the lock),               *)
(* workers/tasks/_job_tracking.py and workers/tasks/cloud_utils.py.        *)
(***************************************************************************)
EXTENDS Providers

CONSTANTS
  TypeOf,       \* the resource type of each asset, 1 for the first listed
  Types,        \* the number of resource types
  Silent,       \* types whose listing may lack assets without an error
  Foreign,      \* the worker's own resources, under the name of the owner
  MaxRetries    \* max_retries

ASSUME DiscoveryAssumption ==
  /\ Types \in Nat \ {0}
  /\ TypeOf \in [Assets -> 1..Types]
  /\ Silent \subseteq 1..Types
  /\ Foreign \subseteq Assets
  /\ MaxRetries \in Nat
  /\ {"free", "dead"} \cap Workers = {}

VARIABLES
  cloud,     \* external: the assets that exist
  lock,      \* who set the discovery lock
  run,       \* what each worker process is doing
  overrun    \* history: a lock expired under a live discovery

vars == <<apiVars, cloud, lock, run, overrun>>
data == <<config, vault, api, asked, inv, open, deletion, late, calm>>
workers == <<lock, run, overrun>>

Free == "free"
Idle == [pc |-> "idle"]

(* own: with the secret of the provider; next: the type listed next; seen: *)
(* what was listed so far.                                                 *)
Begun(m) == [pc |-> "creds", msg |-> m, own |-> FALSE, next |-> 1, seen |-> {}]

At(w, pc) == run[w].pc = pc
On(w) == run[w].msg.provider
Busy(p) ==
  \/ \E m \in BagToSet(queue) : m.provider = p
  \/ \E w \in Workers : run[w] # Idle /\ On(w) = p

TypeOK ==
  /\ ProvidersTypeOK
  /\ cloud \subseteq Assets
  /\ lock \in Workers \cup {Free, Dead}
  /\ \A w \in Workers : run[w] = Idle \/
       /\ run[w].pc \in {"creds", "list", "stale", "close", "release"}
       /\ run[w].msg.try \in 0..MaxRetries
       /\ run[w].next \in 1..(Types + 1)
       /\ run[w].seen \subseteq Assets
  /\ overrun \in BOOLEAN

Init ==
  /\ ProvidersInit
  /\ cloud \in {Foreign, Assets}
  /\ lock = Free
  /\ run = [w \in Workers |-> Idle]
  /\ overrun = FALSE

-----------------------------------------------------------------------------
(* The task                                                                *)

(* The document of the attempt stays running, and nobody will close it.    *)
Abandon(w) ==
  open' = IF <<On(w), w>> \in open
          THEN (open \ {<<On(w), w>>}) \cup {<<On(w), Dead>>} ELSE open

GoTo(w, pc) == run' = [run EXCEPT ![w].pc = pc]

(* start_discovery_job, whose failure is swallowed.                        *)
StartJob(w, p) ==
  \/ NoFault /\ open' = open \cup {<<p, w>>}
  \/ Fault /\ UNCHANGED open

Begin(w, m) ==
  /\ lock' = w
  /\ run' = [run EXCEPT ![w] = Begun(m)]
  /\ calm' = calm \cup {m.provider}
  /\ StartJob(w, m.provider)

Skip == UNCHANGED <<lock, run, calm, open, faults>>

(* Variant: the lock is set whether it was set before or not.              *)
TakeAnyway(w, m) ==
  /\ run[w] = Idle /\ BagIn(m, queue)
  /\ queue' = BagRemove(queue, m)
  /\ Begin(w, m)
  /\ UNCHANGED <<config, vault, deletion, api, asked, inv, late, cloud, overrun>>

(* A message is taken: SET NX, and the task is over when the lock is set.  *)
(* A database that cannot be reached right after ends the task with the    *)
(* lock still set.                                                         *)
Take(w, m) ==
  /\ run[w] = Idle /\ BagIn(m, queue)
  /\ queue' = BagRemove(queue, m)
  /\ \/ lock # Free /\ Skip
     \/ lock = Free /\ Begin(w, m)
     \/ lock = Free /\ lock' = Dead /\ Fault /\ UNCHANGED <<run, calm, open>>
  /\ UNCHANGED <<config, vault, deletion, api, asked, inv, late, cloud, overrun>>

(* get_provider_credentials: no document, no path, no secret and a Vault   *)
(* that does not answer are all the same, the identity of the worker.      *)
Resolve(w) ==
  LET stored == Known(On(w)) /\ config[On(w)].path /\ Loads(On(w))
  IN  /\ At(w, "creds")
      /\ \/ run' = [run EXCEPT ![w] = [@ EXCEPT !.pc = "list", !.own = stored]] /\ NoFault
         \/ stored /\ GoTo(w, "list") /\ Fault
      /\ UNCHANGED <<data, queue, cloud, lock, overrun>>

(* The identity a listing runs under, and what it reaches: with its own    *)
(* secret the assets of the provider, without it those of the worker, both *)
(* filed under the name of the provider.                                   *)
Visible(w) == {a \in Assets : run[w].own <=> a \notin Foreign}
Reached(w) == Owned(On(w)) \cap cloud \cap Visible(w)

(* One listing is of one type; that of the containers of an account skips  *)
(* the accounts that do not answer, the others fail.                       *)
OfType(t) == {a \in Assets : TypeOf[a] = t}
Listing(w) == Reached(w) \cap OfType(run[w].next)
MayMiss(w) == IF run[w].next \in Silent THEN SUBSET Listing(w) ELSE {{}}

Listed(w) == run[w].next = Types

(* Variant: an update that does not write the status.                      *)
UpsertKeeping(assets) ==
  inv' = [a \in Assets |-> IF a \in assets /\ inv[a] = "none" THEN "active" ELSE inv[a]]

(* _upsert: inserted as active, or updated with status active.             *)
Upsert(assets) == inv' = [a \in Assets |-> IF a \in assets THEN "active" ELSE inv[a]]

(* The next type is listed, and what is listed upserted.                   *)
List(w) ==
  /\ At(w, "list")
  /\ \E missed \in MayMiss(w) :
       /\ \/ missed = {} /\ NoFault
             /\ UNCHANGED calm
          \/ /\ missed # {}
             /\ Fault
             /\ calm' = calm \ {On(w)}
       /\ Upsert(Listing(w) \ missed)
       /\ run' = [run EXCEPT ![w] =
                   [@ EXCEPT !.seen = run[w].seen \cup (Listing(w) \ missed),
                             !.next = run[w].next + 1,
                             !.pc = IF Listed(w) THEN "stale" ELSE "list"]]
  /\ UNCHANGED <<config, vault, deletion, api, asked, queue, open, late, cloud, lock, overrun>>

(* _mark_stale_deleted with regions = None: every active document of the   *)
(* cloud that this run has not seen, whichever account it belongs to.      *)
MarkStale(w) ==
  /\ At(w, "stale")
  /\ inv' = [a \in Assets |->
       IF inv[a] = "active" /\ a \notin run[w].seen THEN "deleted" ELSE inv[a]]
  /\ GoTo(w, "close")
  /\ UNCHANGED <<config, vault, deletion, api, asked, queue, open, late, calm, faults, cloud, lock, overrun>>

(* complete_discovery_job and fail_discovery_job: their failure is          *)
(* swallowed, and the document may be gone.                                *)
CloseJob(w) ==
  \/ NoFault /\ open' = open \ {<<On(w), w>>}
  \/ Fault /\ Abandon(w)

Complete(w) ==
  /\ At(w, "close")
  /\ config' = IF Known(On(w))
               THEN [config EXCEPT ![On(w)].status = "active"]
               ELSE config
  /\ CloseJob(w)
  /\ GoTo(w, "release")
  /\ calm' = calm \ {On(w)}
  /\ UNCHANGED <<vault, deletion, api, asked, queue, inv, late, cloud, lock, overrun>>

(* Variant: one attempt too many.                                          *)
CanRetryInclusive(w) == run[w].msg.try <= MaxRetries

CanRetry(w) == run[w].msg.try < MaxRetries

(* Variant: the job is failed only when no retry is left.                  *)
FailAtTheEnd(w) ==
  /\ run[w].pc \in {"creds", "list", "stale"}
  /\ SetStatus(On(w), "error")
  /\ IF CanRetry(w)
     THEN queue' = BagAdd(queue, [run[w].msg EXCEPT !.try = @ + 1]) /\ UNCHANGED <<open, faults>>
     ELSE UNCHANGED queue /\ CloseJob(w)
  /\ GoTo(w, "release")
  /\ calm' = calm \ {On(w)}
  /\ UNCHANGED <<vault, deletion, api, asked, inv, late, cloud, lock, overrun>>

(* An exception: error, the job failed, and another attempt.               *)
Fail(w) ==
  /\ run[w].pc \in {"creds", "list", "stale"}
  /\ SetStatus(On(w), "error")
  /\ CloseJob(w)
  /\ queue' = IF CanRetry(w)
              THEN BagAdd(queue, [run[w].msg EXCEPT !.try = @ + 1]) ELSE queue
  /\ GoTo(w, "release")
  /\ calm' = calm \ {On(w)}
  /\ UNCHANGED <<vault, deletion, api, asked, inv, late, cloud, lock, overrun>>

(* finally: the key is deleted, whoever set it.                            *)
Release(w) ==
  /\ At(w, "release")
  /\ lock' = Free
  /\ run' = [run EXCEPT ![w] = Idle]
  /\ UNCHANGED <<data, queue, faults, cloud, overrun>>

-----------------------------------------------------------------------------
(* Faults, and the cloud                                                   *)

(* The process dies: its message is delivered again, the lock stays set.   *)
Crash(w) ==
  /\ run[w] # Idle
  /\ Fault
  /\ queue' = BagAdd(queue, run[w].msg)
  /\ run' = [run EXCEPT ![w] = Idle]
  /\ lock' = IF lock = w THEN Dead ELSE lock
  /\ calm' = calm \ {On(w)}
  /\ Abandon(w)
  /\ UNCHANGED <<config, vault, deletion, api, asked, inv, late, cloud, overrun>>

(* A message that is not acknowledged in time is delivered again.          *)
Redeliver(w) ==
  /\ run[w] # Idle
  /\ Fault
  /\ queue' = BagAdd(queue, run[w].msg)
  /\ UNCHANGED <<data, cloud, workers>>

(* Seven hours have passed: long after a worker died, or under one that    *)
(* takes longer than that.                                                 *)
Expire ==
  /\ lock # Free
  /\ lock' = Free
  /\ IF lock = Dead
     THEN NoFault /\ UNCHANGED <<overrun, calm>>
     ELSE Fault /\ overrun' = TRUE /\ calm' = {}
  /\ UNCHANGED <<config, vault, deletion, api, asked, queue, inv, open, late, cloud, run>>

Change(a) ==
  /\ cloud' = IF a \in cloud THEN cloud \ {a} ELSE cloud \cup {a}
  /\ a \notin Foreign
  /\ calm' = calm \ {Owner[a]}
  /\ UNCHANGED <<config, vault, deletion, api, asked, queue, inv, open, late, faults, workers>>

Step(w) ==
  \/ Resolve(w) \/ List(w) \/ MarkStale(w) \/ Complete(w) \/ Fail(w)
  \/ Release(w) \/ Crash(w) \/ Redeliver(w)
  \/ \E m \in BagToSet(queue) : Take(w, m)

Next ==
  \/ Requests /\ UNCHANGED <<cloud, workers>>
  \/ \E p \in Providers : DeleteBegin(p, Busy(p)) /\ UNCHANGED <<cloud, workers>>
  \/ \E w \in Workers : Step(w)
  \/ Expire
  \/ \E a \in Assets : Change(a)

Spec == Init /\ [][Next]_vars

-----------------------------------------------------------------------------
(* Properties                                                              *)

Working == {w \in Workers : run[w] # Idle}

(* "prevent concurrent runs" (scheduling.py:9): the lock of a tenant and a *)
(* cloud keeps the promise of a lease, for all its accounts together.      *)
Lease == INSTANCE ScanLease WITH
  Providers <- {"cloud"},
  scanning <- [c \in {"cloud"} |-> IF overrun THEN {} ELSE Working],
  forfeited <- IF overrun THEN {"cloud"} ELSE {}

LeaseSpec == Lease!Spec

(* "Delete a provider config and all its associated graph resources"       *)
(* (provider_service.py:479): what is left of a deleted provider was       *)
(* written by a discovery that was queued or running at that time.         *)
PurgeIsFinal ==
  \A p \in Providers \ late : ~Known(p) =>
    /\ \A o \in open : o[1] # p
    /\ \A a \in Owned(p) : inv[a] = "none"

(* A job document is running while a worker is at it, and afterwards only  *)
(* if a fault kept it from being closed.                                   *)
JobsSettle ==
  \A o \in open :
    IF o[2] = Dead THEN faults > 0
    ELSE o[2] \in Working /\ On(o[2]) = o[1] /\ ~At(o[2], "release")

(* A discovery that marked what is stale leaves exactly what its provider  *)
(* has, if nothing else changed meanwhile: also what an earlier discovery, *)
(* failed, partial or of another account, had marked deleted.              *)
DiscoveryMirrorsCloud ==
  [][\A w \in Workers :
       At(w, "stale") /\ run'[w].pc = "close" /\ run[w].own /\ On(w) \in calm /\ ~overrun =>
         \A a \in Owned(On(w)) : inv'[a] = "active" <=> a \in cloud \ Foreign]_vars
=============================================================================
