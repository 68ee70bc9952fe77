# Ogum Security: specifications

TLA+ models of the parts of Ogum Security where processes meet: Celery workers
that run scans with at-least-once delivery, a Redis lock, an ArangoDB without
transactions across queries, and the snapshots, volumes and mounts of an AWS
account. The code is under `src/backend/app`; paths below are relative to it.

To run: `tlc -workers 2 -config cspm_scan.cfg MCCspmScan` (each `.cfg` names its
module in the table of runs), and `tlapm CspmScanProofs.tla` for the proofs.

## Inventory

| Component | State it keeps | Operations | What makes it hard | What makes it correct |
| --- | --- | --- | --- | --- |
| CSPM scan life cycle (`workers/tasks/cspm_scan.py`, `scheduling.py`, `celery_app.py`, `api/v1/scans.py`) | messages in the broker, the lock `ogum:cspm-lock:<tenant>:<provider>`, documents in `scan_jobs` | dispatch (Beat every six hours, `POST /scans`), acquire or skip, scan, retry, release | late acknowledgement, crashed workers, redelivery after an hour, a lock with a term and no owner | one scan per provider, a document per attempt that settles once, every task answered |
| CSPM scan body (`cspm_scan.py`, `cloud_utils.py`, `services/prowler_inventory.py`, `services/prowler_service.py`) | `findings`, `HAS_FINDING`, `resources`, `identities`, `data_assets` | upsert findings and edges, rebuild the inventory, soft delete, cascade, count | a dozen queries that are not one transaction; accounts of one cloud share the collections | inventory mirrors what was seen, findings have assets, counts add up |
| EC2 side scan (`workers/tasks/side_scanning.py`, `services/side_scanning/*`) | `scan_jobs`, snapshots and volumes in AWS, one device and one mount path per host | enqueue, snapshot, volume, attach, mount, YARA and Trivy, clean up, persist, orphan cleanup | shared device and path, asynchronous detach, time limits, retries, killed processes | YARA reads its own volume, nothing leaks but by faults, jobs are not lost |
| Side scan triggers, Lambda, container and SBOM tasks (`api/v1/side_scans.py`, `trigger.py`) | `scan_jobs`, `sboms`, a RAM disk per host | webhooks, Scan Now, manual retry, first-seen trigger, daily rescan | duplicate webhooks, insert and send are two steps | no trigger is lost or doubled, no code outlives its scan |
| Provider life cycle (`services/provider_service.py`, `provider_health.py`, `vault_client.py`) | `tenant_config`, Vault secrets | register, update, probe, dispatch, delete with purge | Vault and database are written in turn; a discovery may be running | no secret without provider, no data of a deleted provider |
| Discovery (`azure_discovery.py`, `gcp_discovery.py`, `k8s_discovery.py`) | inventory, lock per tenant and cloud | list, upsert, mark stale | lock shared by subscriptions, retry under the lock | the inventory mirrors the cloud, jobs settle |
| Findings (`services/findings_service.py`) | status of findings | mute, accept, list, export | scans write while users triage and pages are read | an export lists each finding once |
| Compliance (`services/compliance_service.py`) | the score trend; the rest is derived | summary, page of a version, assets of a control, daily scores | three queries fold the same findings in three places | pages agree, triage costs no points, the trend is current |
| Risk scores and attack paths (`workers/tasks/attack_paths.py`, `attack_path_service.py`) | `risk_score`, `attack_paths`, `in_attack_path` | recalculate, detect, mark | two tasks in no order, each fed by the other, flags that are only set | scores and flags agree with the paths |
| Graph builders (`services/graph/*`) | edge collections | derive edges from documents | they only insert, before or after what they derive from | edges lead from stored to stored vertices |
| Tenants and tokens, rate limiter, admin jobs, IaC scan, settings, migrations, development data, frontend, agent, deployment | see `PROJECT.json` | | | |

Components interact as follows. Beat and the API put `run_cspm_scan` on the
broker. A worker takes the lock, runs the body, and within it records the trend
and enqueues a side scan for each EC2 instance or Lambda function never scanned
before (`_auto_trigger_side_scans`), then the tasks for scores and attack paths.
Discoveries of the other clouds are dispatched when a provider is registered or
changed. Side scans, container webhooks and IaC scans write into the same
`findings`, and all of them into `scan_jobs`. A provider may be deleted at any time.

`PROJECT.json` lists 40 hazards of this code at their lines, each with the
properties that would catch it, or the reason there is none. Where the code does
what the hazard fears (a provider half deleted, findings that an interrupted scan
left), the model does it too and the properties excuse it by name, as `torn`, `late`
or a count of faults: they say that nothing *else* leads there, and the note of the hazard says so.

## Modules

| Module | What it models | Extends |
| --- | --- | --- |
| `CspmScan` | One tenant's CSPM scans: broker, workers, lock, job documents | |
| `ScanLease` | What a lock with a term promises, abstractly; `Discovery` implements it | |
| `CspmInventory` | The body of a scan, query by query, for the accounts of one cloud | |
| `SideScan` | EC2 side scans on one scanner host, with AWS and the mount path | |
| `SideScanJobs` | Webhooks, Scan Now, first-seen trigger and retries, and the Lambda, Kubernetes and image tasks | |
| `Providers` | The API of provider accounts: configuration, Vault, dispatch, purge | |
| `Discovery` | The discovery tasks of three clouds, composed with `Providers` | `Providers` |
| `Compliance` | The compliance pages and scores as operators on a set of findings | |
| `Findings` | Findings between scans, users, exports and the score trend | `Compliance` |
| `AssetGraph` | Edge builders, traversals and the two risk formulas as operators | |
| `AttackPaths` | Scans, the two tasks they send, their workers and faults | `AssetGraph` |
| `CspmScanProofs`, `CspmInventoryProofs`, `SideScanProofs`, `SideScanJobsProofs`, `DiscoveryProofs`, `FindingsProofs`, `AttackPathsProofs` | Theorems | the module they name; the last two also `Induction` |
| `Induction` | Induction over numbers and finite sets, and what it gives about minima, maxima and sums | |
| `MC...` | Values of the constants for TLC | the module they name |

`CspmInventory` refines one step of `CspmScan`, the scan under the lock, and
relies on what is shown there: at most one attempt at a time for each provider
(that is why `scan` holds one attempt per account). In `Findings` and
`AttackPaths`, the inventory phase of a scan, whose steps `CspmInventory` has, is
one action.

### CspmScan

A message is an attempt: Celery's retry republishes a task id with its next
retry count. `run[w]` follows a worker through `run_cspm_scan`: `lock` (until the
answer of `SET NX EX`), `setup` (credentials and the insert of the job, outside
the retried region), `scan` (the inner `try`), `release` (the outer `finally`) and
`ack`. `lock[p]` is the hours the key has left. `jobs[t]` lists the documents the
attempts of a task inserted, in order.

Faults are actions of their own, limited by `MaxFaults`. Outages: `Crash` (the
message is put back, the lock stays), `Redeliver` (the message is delivered again
while its worker goes on; nothing bounds a scan, so it may happen at any time). Errors:
`AbortEarly` (Redis or the database fails before the try block, the `SET` applied or
not), `SetupFails`, a lost status write (`UpdateJob`), a retry the broker refuses
(`RetryUnsent`), a failed `DELETE`. `overruns` is a history
variable: how often the lock of a provider ran out under a scan, since a scan of the
provider last began with no other under way (`StartAfresh` sets it back to zero).

What happens when a retry waits 120 seconds is a message in the queue that nobody
takes yet; Beat's period only adds tasks. Both need no clock.

### CspmInventory

The attempt of an account goes through `findings` and `edge` (one finding and its
edge at a time), `inventory`, the soft delete, `cascade`, `sweep` and `count`. The
resources it saw are fixed when Prowler runs, while the cloud goes on changing.
`Fail` may end it between any two steps, with its document failed or, when the
worker was killed, still running; the retry is another `Start`. `NameOf` is the
value `_normalize` gives to `Finding.resource_id`, which need not be the uid that
the inventory stores. Each resource has one check. `Collection` routes it to
`resources`, `identities` or `data_assets`; the soft delete marks documents of all
three, and the cascade is given the ids of the first alone (`Cascading`,
`cspm_scan.py:418`).

### SideScan

`run[w]` holds the local variables of `scan_ec2_instance_v2` that its `finally`
block reads: `snapshot_id`, `scan_volume_id`, `mounted`. `volumes` and `snapshots` are
AWS's; a volume that is detached becomes `available` later, by `Detached`. `path` is
the stack of mounts on the shared path. The Trivy thread shares nothing with the
YARA thread, and `trivy` stands for the moment the code looks at its result.
Names of snapshots are reused once nothing refers to them.

Time passes in half-hours (`Tick`), for all attempts and snapshots together. An attempt
is `age` half-hours old, a snapshot carries its own `age`, and both count the strikes they
have lived through: an attempt sees at most `TimeLimit` of them before it has
ended or is killed (`HardLimit`; the half-hour of `time_limit=1800`), and a snapshot is past
its expiry date once it has seen `Ttl` (two hours). `Cleanup` deletes what is past that
date and looks at nothing else, as the code does. Counting strikes makes a snapshot
up to half an hour too old, so `Cleanup` may come earlier in the model than it can in
fact, and never later. The visibility timeout of an hour is twice the time limit,
so `Redeliver` concerns messages that were not started.

### SideScanJobs

`docs` are the `scan_jobs` documents of side scans, with the resource and the kind of
task; `queue` the messages, of which several may name one job (a manual retry and
Celery's own, or a redelivery). A webhook handler is one action, whose three calls (the
check `AlreadyTracked`, the insert and the send) can each fail; an event may be
delivered again at any time. A task registers its
start, pulls and scans, and writes its report; `dirs` are the directories that Lambda
tasks have unpacked on the RAM disk of the host, each named by the id of its job.

### Providers and Discovery

The requests of `provider_service.py` are actions of `Providers`. One process serves
the API and its handlers do not await, so requests do not interleave with each other;
a dispatch (message, then stamp) and a deletion (secret, jobs, vertices, document)
are several steps, between which workers run. `Discovery` is the common shape of the
three tasks, each listing types of resources in turn. A worker whose provider has no
secret lists under its own identity (`own`); `Foreign` assets are those this
identity sees. `Silent` types are those whose listing swallows errors of a part.
Workers are on one lock per tenant and cloud, which names no owner. `deletion` is a
history variable of each provider: whether a deletion destroyed its secret and has not got to
the document (`begun`), or went on although Vault refused (`kept`); a new secret or a
document that names none sets it back (`Fresh`).

### Compliance and Findings

`Compliance` has the folds of `compliance_service.py` as operators on a set of findings:
`Rows` (the one pass over findings), `ScoreByControl`, `BuildFamilies`, `Summary`,
`FrameworkDetail`, `ControlAssets`, `ThreatScore`. Percentages are in tenths. `Findings`
runs them over the states that scans, triage and purges reach. A scan of an account
goes through `upsert` (finding by finding), `record` (read the scores, then write one point
per version, any part of which may be lost) and `inventory`; the export is
page after page with the cursor of `list_findings`.

### AssetGraph and AttackPaths

`AssetGraph` translates each builder to a set of edges and each AQL traversal to a set of
walks that use no edge twice (ArangoDB's default), and has both risk formulas, in
tenths. Edge kinds and collections that nothing in the code writes are left out.
`AttackPaths` has a scan in four steps (inventory, edges, exposure, sending the two
tasks), the queue and the workers. `recalculate` is one query per collection; `detect`
is the reading, the storing of paths and the flagging, whose loops skip a document
that fails. Each of the two loops is one action: between its writes nothing
else looks at them, except that a crash leaves any part of them done.

## Runs

| Run | Shows | Bounds | Result |
| --- | --- | --- | --- |
| `cspm_scan` (`MCCspmScan`) | exclusion, settlement, answers, retries | 2 tasks, 1 provider, 2 workers, TTL 2, 1 retry, 1 fault | passes, 630,000 states |
| `inventory` (`MCCspmInventory`) | finding history, orphans, edges, counts, mirror of the cloud | 1 account, 3 resources, 3 attempts, 1 fault | passes, 4,550,000 states |
| `inventory_names` | the cascade misses findings stored under a name | 2 attempts, no fault | violated |
| `inventory_accounts` | a scan deletes another account's resources | 2 accounts, 2 attempts | violated |
| `side_scan` (`MCSideScan`) | volumes read, snapshots against leaks and the cleanup, jobs | 1 job, 2 workers, 1 retry, 2 faults, time limit 1, term 2 | passes, 5,740,000 states |
| `side_scan_mount` | a failed mount leaks a volume | 2 jobs, 2 workers, no retry, no fault | violated |
| `side_scan_stuck` | a refused role leaves a job running | 2 jobs, 1 worker, no fault | violated |
| `side_scan_jobs` (`MCSideScanJobs`) | webhooks, first-seen trigger, RAM disk, queued jobs | 2 jobs, 2 workers, 1 retry, a fault | passes, 2,050,000 states |
| `side_scan_reports` | a second scan of a container leaves the report of the first | 2 jobs, no fault | violated |
| `discovery` (`MCDiscovery`) | secrets, purge, jobs, mirror of the cloud, refinement of `ScanLease` | 1 cluster, 2 workers, 3 requests, 1 retry, 1 fault | passes, 1,320,000 states |
| `findings` (`MCFindings`) | complete exports, agreeing pages, triage, trend | 3 findings, 2 accounts, see below | passes, 3,140,000 states |
| `attack_paths` (`MCAttackPaths`) | flags, ratings, settling of scores and paths | 6 vertices, 2 clouds, 2 workers, 2 queued tasks, 1 event | passes, 130,000 states |

The violated runs are disagreements between the code and what it says of itself;
`PROJECT.json` quotes both sides under "findings". Each property of a passing run
has a mutant there: a variant of one definition, defined beside it in the module and
marked "Variant", under which TLC finds the property violated.

Why the bounds are enough:

- Two tasks and two workers are the least that compete, and one provider makes
  every pair compete: providers share nothing but the workers. With one retry there
  are four attempts, and the copy of a redelivered message is a fifth.
- A TTL of two hours can be counted down before, during and after a scan; longer
  terms only repeat the middle.
  A third scan at one time takes a third worker, which the run does not have: that each
  overrun costs one more scan and no more is proved (`MutualExclusion`).
- Three attempts let an inventory be built, half changed and repaired, with any of them torn. The
  instance, the other resource and the data asset differ in what is left of them: the
  first is still reported after its end, the findings of the last are in no cascade.
- In `side_scan` one instance suffices: attempts of one job meet each other by retry and
  redelivery as those of two would, on the same device, path and host. A fault to
  make the second attempt and one more to hurt either are the two. A time limit of one
  half-hour and a term of two keep the order of the code's (one and four): an attempt can
  be killed before, and a leaked snapshot deleted after.
- Two names of snapshots let two workers have live ones, or one have a live one beside a
  leaked one. With both leaked, or one leaked and the other live, the next attempt waits
  for a name; what more names would add is covered by the theorems about
  `SideScan`, which hold for every set of names.
- Three requests to the provider API let one be registered, changed or probed, and
  deleted while a discovery runs, or registered again after a deletion. Two resource
  types separate what a failed listing loses from what a later one finds.
- In `findings` two accounts are scanned, so that two reports interleave, and an export
  with pages of one row has several pages; what users do (triage, exports, midnights)
  shares one bound, `MaxEvents`. `PagesAgree` looks at every status of every finding
  that the keys admit, mapped to versions with and without a catalogue or family.
- In `attack_paths` the vertices cover each edge kind and both rules, and the second
  cloud takes away both an entry point and the policies of a role. Changes and
  faults share `MaxEvents`: one of either, then the system must settle. A query of the
  detection returns at most 50 rows, which these graphs do not reach.
- The symmetry of workers in `side_scan` and in `discovery` is
  sound: the runs check invariants and action properties, no liveness.

Fairness is stated in `FairSpec` of `CspmScan` and `SideScan`: a worker process
that is alive goes on (weak fairness of its next step), idle workers serve the
queue, and Redis counts its terms down. Celery gives no more. In `AttackPaths` scans
recur, as Beat sends them every six hours, and some worker serves the queue: weak
fairness of `Scan` and of the workers together, not of each. Nothing is assumed
of those who dispatch, of faults, or of the orphan cleanup, which no schedule
calls. Deadlock is not checked where bounded tasks let the system really stop.

## Properties

`CspmScan`: `OneScanPerProvider` (at most one scan at a time, and one more for each that
outlived the lock since a scan last began alone: it also bounds the third scan that
starts after an overrun, and has exclusion come back), `JobsSettleOnce` (final statuses stay, no
document disappears), `StuckJobsAreFaults` (a document is left running only by a
fault), `RetryBudget`, and the liveness properties `LockComesFree` and `EveryTaskAnswered`.

`CspmInventory`: `HistoryAddsUp` (first and last seen, counts that never exceed the
reports, and the totals of a finished scan), `FindingsHaveAssets` (a finding of a document of
`resources` outlives it only as the trace of an interrupted attempt; those of identities and data assets are
left behind by every scan, see the end of this page), `NoDanglingEdges`, `CompletedScanMirrorsCloud`.

`SideScan`: `YaraReadsOwnVolume`, `NoSnapshotLeak` (one per fault),
`SnapshotOutlivesScan` (a cleanup that looks at dates alone never deletes under a scan,
for time limits are shorter than terms), `FailedIsFinal`, `NoJobLost`.

`SideScanJobs`: `WebhookSentOnce`, `FirstSeenOnce` (one check of a resource
at a time, `checked`: two at once take two scans of one account under way together, after an
overrun of the lock or under two registrations, and that race is not covered), `CodeLivesAsLongAsItsScan` (unpacked
code is there while its scan runs, and afterwards only by a fault),
`QueuedJobsHaveWork` (a job that waits has a message that will start it, but for a
failed send).

`Providers`, `Discovery`: `PathLeadsToSecret` (whichever call of whichever request fails, a
configuration names a missing secret only after a deletion that did not get to the document),
`NoSecretLeft` (the deletion that removes the document, be it the first or a repeated
one, has left no secret unless Vault refused), `PurgeIsFinal` (what
is left of a deleted provider was written by a discovery queued or running then),
`JobsSettle`, `DiscoveryMirrorsCloud`, and `LeaseSpec`: the discovery lock
keeps the promise of `ScanLease`, as long as no discovery outlives it.

`Findings`: `ExportComplete`, `TrendIsCurrent`, `PagesAgree`, and `TriageNeverLowersAScore`: muting or
accepting lowers no score by control, nor, whatever families are disabled, the threat
score or what the summary shows for a version. There is one exception, and it is the
code's: a version whose mappings name no control is a bare tally of findings
(`compliance_service.py:46,62`), which a muted PASS leaves. A version all of whose findings
are muted is not in the summary any more.

`AttackPaths`: `FlagsCoverPaths`, `RatingsAgree` (tiles add up to the total; the batch query
equals the reference formula but for flagged vertices without findings) and the
liveness property `GraphSettles`: scores and paths computed from each other's old values, in any
order and with one fault or change, agree in the end.

## Proofs

`CspmScanProofs` proves, for all values of the constants that satisfy
`ScanAssumption` (tasks have providers, an idle worker holds no message, the TTL is
positive, the bounds are naturals):

- `TypeCorrect`: `TypeOK` always holds. It is inductive.
- `MutualExclusion`: `OneScanPerProvider`, for any number of workers and overruns. It is not
  inductive: another `Acquire` is excluded by the lock, not by the scans that run. The
  invariant adds (`Overlap`) that the scans of a provider are finitely many, at most
  `1 + overruns`, and at most `overruns` while the lock is free. So whoever takes a free lock
  uses up what an overrun has given. `Release` deletes the key of whoever set it, and
  preserves this because the worker that releases is one fewer.
- `DocumentsSettle`: `JobsSettleOnce`. The invariant adds `OwnsDocument` (a scanning
  worker's document is there and still running) and `NoSharedDocument` (two workers
  never write to one), which holds because each attempt appends its own.
- `StuckJobsAreCounted`: `StuckJobsAreFaults`, from `StuckInv`: the set `Stuck` of running
  documents that no scan is at work on is finite and has at most `outages + errors` elements.
  It grows by one element at most, and only in a step that is a fault. That the other
  steps do not let it grow rests on the invariant of `DocumentsSettle`: a worker that
  leaves the scan settles its *own* document, so nobody else's loses its scan.
- `RetriesAreBounded`: `RetryBudget`. It is not inductive: documents are bounded only
  together with the attempts that may still insert one. `BudgetInv` counts these where
  they are: a message that waits (`Waiting`) or is held (`Held`) stands for itself and each
  retry it has left. Sending a task and each outage add `1 + MaxRetries`; a retry
  passes on what its message had left, an insert turns one into a document. It holds
  for infinitely many tasks and workers too.

`CspmInventoryProofs` proves, for all accounts, names and resources that satisfy
`InventoryAssumption`:

- `TypeCorrect` (`TypeOK`) and `FindingsKeepAssets` (`FindingsHaveAssets`), for any number
  of accounts whose scans interleave query by query. The property is not inductive: a scan
  upserts the finding before the asset and deletes the asset before the finding, so the
  invariant follows each attempt: the finding's resource, one of those the cascade looks at
  (`Addressed`), is settled or the attempt is on its way
  to it (`Kept`), upserts go to what the attempt reported (`ReportsAreOwn`), and the asset
  comes last (`UpsertsLast`). A scan of another account may condemn the asset, but
  then removes the finding in its cascade, or is torn.
- `EdgesKeepFindings` (`NoDanglingEdges`) and `CompletedScansMirror`
  (`CompletedScanMirrorsCloud`), under `OneAccount`. The assumption is the code's: the
  cascade of a second account may fall between the upsert of a finding and that of its
  edge, and its soft delete reaches resources the first has just seen (the run
  `inventory_accounts` is violated by such a deletion).
- `TimelinesAddUp` (the first half of `HistoryAddsUp`), for any number of accounts as long as no
  two of them share a name (`NamesOwned`; the key of a finding is made of check, name and
  tenant, not of the account). `TimelineInv` counts the reports that are upserted already (`Counted`): a
  report that an attempt has still to upsert is set aside (`Pending`), or the count of its
  finding could pass that of the reports when it comes. `NotSeenLater` says that no finding
  of the attempt's account was seen by a later attempt.
- `HistoriesAddUp` (`HistoryAddsUp`), under `OneAccount` and `NamesDiffer`. Its second half says
  of each completed job that its counts agree. `ResultsInv` follows what the attempt has
  seen: what bears its number was reported (`SeenAreReported`), and what was reported and is
  upserted bears it or is about to be removed (`ReportedAreSeen`). `NamesDiffer` excludes
  what the code does wrong: of two resources with one name, one finding is made
  (the hazard at `models/finding.py:74`), so that a job reports more than it wrote.

`SideScanProofs` proves, for all values that satisfy `SideScanAssumption` (an idle
worker holds no message, no name is `NoId`, the bounds are naturals):

- `TypeCorrect`, `MountIsolation` (`YaraReadsOwnVolume`) and `SnapshotsOutliveScans`
  (`SnapshotOutlivesScan`) from one invariant, `IInv`. That YARA sees its own volume
  depends on all workers: `NamesDiffer` (no two attempts hold one snapshot),
  `HoldsSnapshot` (an attempt has its snapshot from creation to deletion) and
  `DeviceShared` (at most one volume is attached or detaching; who has mounted, and has
  not yet detached, still has its volume attached). That no cleanup takes a snapshot from
  under its attempt is `InTime`: a snapshot is never older than the attempt that made it,
  which is killed before that age reaches the term (`TimeLimit < Ttl`, a premise of the
  theorem that the code's half-hour and two hours satisfy). So whoever mounts or unmounts is
  the only one on the path (`OneOnDevice`), although nothing in the code locks it: the
  exclusion is EC2's, which refuses a device name in use.
- `JobsAreNotLost` (`NoJobLost`) and `FailuresAreFinal` (`FailedIsFinal`) from `JobsInv`.
  `OneCopy` says that before the first outage a job has one copy of its message, in the
  queue or in an attempt that may still settle it, and none once it has failed;
  `Attempts` that only the end of the try block makes an attempt a success.
- `SnapshotsDoNotLeak` (`NoSnapshotLeak`) from `LeakInv`: the orphans are a finite set that
  grows by one element at most, and only with a fault (`OrphansStep`).

`SideScanJobsProofs` proves all five properties of the run `side_scan_jobs`, for all
events, assets, workers, retries and faults that satisfy `SideScanJobsAssumption` (UUIDs,
event ids and stray ids are apart):

- `TypeCorrect` (`TypeOK`): `TypeInv` adds what a busy worker holds and that a job id is as
  long as the retries that made it.
- `EventsAreSentOnce` (`WebhookSentOnce`) and `ResourcesAreTriggeredOnce` (`FirstSeenOnce`) from
  `SentInv`. Neither property is inductive: that nothing is sent again needs the document
  of the first time to be there and to be found (`SentForEvents`, `SentForAssets`), that the
  asset is no longer among those already `checked`, and that a new UUID overwrites no
  document (`UuidsAreOld`). Documents are never removed and keep their target (`DocsKept`),
  so retries and tasks cannot disturb this.
- `JobsAreWorkedOn` (`QueuedJobsHaveWork`), inductive beside the types.
- `CodeLives` (`CodeLivesAsLongAsItsScan`): its first half from `LeakInv`, as in `SideScanProofs`;
  its second from `CodeInv`. Up to the first outage, a Lambda job has one message
  (`OneMessage`), which is back in the queue only when its attempt has left the code
  (`BackWhenOver`), so that of two attempts of a job one is over (`OneAttempt`). Lambda jobs
  come through the trigger only, each under a new UUID, also when a job is retried by hand
  (`CodeIds`): no other job can bring a second message.

`DiscoveryProofs` proves all seven properties of the run `discovery`, for all providers,
assets, workers and bounds that satisfy `ProvidersAssumption` and `DiscoveryAssumption`. Each rests
on `TypeInv` and an invariant of its own; together they are about the API and the
workers composed:

- `TypeCorrect` (`TypeOK`): `TypeInv` adds that what waits in the queue is of a registered
  shape and that a request under way works on a document that is there.
- `LockImplementsLease` (`LeaseSpec`): before the first overrun, a worker is busy if and only if
  it set the lock (`LockInv`). Both directions are needed: one for the beginning of a
  lease, the other for its forfeit, when the term of a *live* holder ends.
- `DocumentsSettle` (`JobsSettle`), which is inductive.
- `SecretsAreStored` (`PathLeadsToSecret`) and `SecretsAreDestroyed` (`NoSecretLeft`) from `SecretInv`:
  a document that names a secret has one, or its deletion has begun; and while its deletion goes
  on the secret is gone, or Vault kept it. It holds with any number of faults: a
  deletion cut short, then repeated with Vault down, takes two, one more than the run has.
- `PurgesAreFinal` (`PurgeIsFinal`) from `PurgeInv`: of a provider that is deleted while nobody
  is busy with it, nobody becomes busy; job documents are gone once the first purge is
  done, vertices once the second is. `WorkerTouches` says why workers do not disturb
  this: they write only of a provider they are busy with.
- `DiscoveriesMirror` (`DiscoveryMirrorsCloud`) from `MirrorInv` and `LockInv`: what an
  undisturbed discovery has seen is what there is of the types it has listed, and active.

`FindingsProofs` proves, for all findings, accounts, mappings, catalogs, page sizes and
orders of the keys that satisfy `ComplianceAssumption` and `FindingsAssumption`:

- `TypeCorrect` (`TypeOK`). That a score is a percentage is a fact about `ScoreByControl`
  (`ControlScoreInTenths`); that a version has one point a day is one about `Recorded`.
- `ExportsAreComplete` (`ExportComplete`) from `ExportInv`: what is owed and not yet listed lies past
  the cursor, and what was listed lies behind it (`Behind`). The property is not inductive, and
  the second half is the harder one, for a finding that was listed may be removed and come
  back with the key it had. It comes back with the time of a *later* scan of its account, which
  is newer than the cursor; a scan that is still to insert it has such a time already.
  `LastOfPage` is about the pages themselves: the places of n rows are the numbers
  below n (`PlacesAreTaken`, by the pigeonhole principle), so that a full page ends with
  a row after all others of the page and before all the page leaves out.
- `TrendKeepsUp` (`TrendIsCurrent`) from `TrendInv`: scores that a scan has read and that are still
  fresh are those of the findings. A scan that records only some versions replaces
  points by equal ones, for each version has one score (`OnePerVersion`).
- `TriageIsFree` (`TriageNeverLowersAScore`), an action property. That a step is a triage is
  read off `edits`; the rest is about the operators of `Compliance`, for every mapping,
  catalog, table of weights and set of disabled families: the controls of a version stay the same
  (`StillFound`), fewer of them fail and no fewer pass, so that the ratio does not fall
  (`RatioGrows`, `ScoresDoNotFall`), and the weight of what fails is a sum over fewer findings
  (`ThreatDoesNotGrow`). For the summary (`SummaryDoesNotFall`), a version with controls
  shows its score by control (`SummaryShows`), and a bare one a tally (`TallyOfBare`) that
  does not fall if what passes goes on passing (`BareDoesNotFall`). Without that
  premise it is false of the code.
- `PagesAlwaysAgree` (`PagesAgree`), from `TypeInv` alone, since it holds of every well-formed set of
  findings (`WellFormed`): three folds of the code over the same findings agree. The score by
  control, from rows, is the roll-up of the requirements (`HeadlineIsRollup`); the sections
  divide the controls (`SectionsAddUp`), and the assets of a control divide its findings
  (`AssetsAddUp`), both by `SumOfSizes`; one of the failed findings is the worst (`OneIsWorst`), so
  that a scored requirement has a link. `SummaryAgrees` is the comparison of the summary
  with the pages, with and without families that users disabled.

`AttackPathsProofs` proves, for all graphs, clouds, workers and bounds that satisfy the
assumptions of `AssetGraph` and `AttackPaths`:

- `PathsAreFlagged`: `FlagsCoverPaths`. It is not inductive: that a mark covers the paths
  stored before it needs the worker's rows to be those it stored, with vertices that
  exist, and that no step clears a flag or changes a stored path but by rows that its
  worker is about to mark. `IInv` adds `DocsOK`, `RunOK` and `FaultsOK`. The walks themselves are
  opaque to this proof: only that a row has a path, whose vertices it marks, is used.
- `TypeCorrect` (`TypeOK`): scores and risks stay within 0 and 100, and no edge dangles. The
  invariant `GraphInv` adds that the rows of a worker (`RowsOK`) and the stored paths (`PathsOK`) are
  walks of 1 to `MaxDepth` hops with a risk in range and one of the four severities, and
  that a path is stored under the key of its ends and its rule. That the walks of the
  traversal are such is shown by induction over the hops (`WalksAreWalks`), that a
  score is in range by the caps of the formula.
- `RatingsHold` (`RatingsAgree`), from `GraphInv`: the tiles add up to the total because each
  stored path has one of four severities and there are finitely many keys
  (`FinitePaths`); the two formulas agree but for flagged vertices without failed findings.

`Induction` states what these proofs need of numbers and finite sets; its theorems are lemmas of the
other modules and say nothing of the code by themselves. The library's
induction theorems take a predicate as a parameter, which the provers do not instantiate;
here the same principles are about a *set* (`InductionUpTo`: a set that has 0, and `k + 1`
if it has `k`, has all numbers up to `n`; `SubsetInduction`: the same of the parts of a finite
set), and both rest on the well-foundedness of `<`. So a recursive function, of the hops of
a walk or of a sum, can be reasoned about for every input. The sums of the models are those
of the community module `Functions`, whose recursive function is shown to exist and to
have the usual properties (`SumStep`, `SumIsMonotone`, `SumOfSizes`).

The severities and weights of `AssetGraph` are those of `_SEVERITY_WEIGHTS`; the weights of
`Compliance` are a constant, so that `TriageIsFree` holds for every table.

Every invariant and action property of the passing runs is thus stated by a theorem. Only
model-checked: the liveness properties `LockComesFree`, `EveryTaskAnswered` and `GraphSettles`,
which are out of the prover's reach, and whatever the assumptions above leave out
(`HistoryAddsUp`, `NoDanglingEdges` and `CompletedScanMirrorsCloud` with several accounts: TLC
finds each of them violated with two accounts and three scans).

## Not modelled

The parts marked `not_modelled` in `PROJECT.json`, with their reasons. Within the
modelled parts: what Prowler, Trivy and YARA find; the log handler; tenants, which
share nothing; labels and order of lists; filters and facets of queries; rotation of
scanner tokens; the daily SBOM rescan; `privilege_escalation.py`, `MEMBER_OF` and the summary of
exposure; toxic combinations TC-02 to TC-04, which filter on
fields that no production code writes (`contains_credentials`, `contains_secrets`,
`dangerous_permissions`, `host_network`, and `resource_type` of data assets, which the inventory calls
`asset_type`: `attack_path_service.py:196-286`); and of the purge of a provider its other queries: the
findings, by the filter of the vertices, and the edges and attack paths whose ends are
gone (`provider_service.py:386-475`). That no edge dangles in `AttackPaths` is said of a tenant
whose providers stay.

## What reading the code beside its models showed

Next to the violated runs, these are differences between the code and its
documents, or between two parts of the code, which a model has as the code has
them, or which it leaves out:

- The batch query gives a flagged vertex 40 points even without failed findings
  (`attack_paths.py:54`), the reference formula of `risk_score.py` none. Paths rate
  themselves by these scores, so a path of clean identities is CRITICAL on the second
  round (`RatingsAgree` states the difference).
- Findings of identities and data assets that vanished are never removed: the soft delete
  returns the ids of three collections, and the cascade is given those of `resources`
  (`cspm_scan.py:418`), though the docstring of the soft delete names all three
  (`cspm_scan.py:73-77`).
- A provider whose deletion was cut short is listed on without its secret, and its discoveries
  run under the identity of the worker.
- Muting a PASS finding of a version whose mappings name no control lowers the score the
  summary shows for it (`compliance_service.py:46,62`).
- Paths and flags of deleted vertices are never removed, and are found again: the
  queries do not look at the status.
- A role whose policies are all detached stays admin, and an instance without a profile
  keeps its role: the fields are not reported when empty and an update merges them
  (`prowler_inventory.py:252-257`).
- `EXPOSED_TO`, `ROUTES_TRAFFIC`, `ASSUMES` and `network_endpoints` have readers and no writer;
  `exposure.py` says it writes `EXPOSED_TO`. The path detail looks for findings by
  vertex ids, which none has (`api/v1/attack_paths.py:296`).
- A terminated instance is reported still, so each scan inserts its findings again
  (`cspm_scan.py:394`) after the cascade of the scan before had removed them; a test calls
  such findings "no longer actionable" (`test_cspm_scan.py:432`).
- The date of the last discovery is written at dispatch (`providers.py:117`) and health reads it as
  if one had run (`provider_health.py:30`).
- A rescan overwrites a mute (`cloud_utils.py:180`).
- When a family is disabled, a finding that maps to nothing is dropped from the totals
  (`compliance_service.py:187-191`); a family with muted findings only cannot be configured.
- The trend is recorded before the cascade removes findings; its docstring says at the
  end of the scan (`compliance_service.py:600`).
- The list of jobs pages by `created_at` alone and skips ties (`admin_service.py`).

## Plan

1. IaC scans and the settings, should they come to be written concurrently.
