-------------------------- MODULE DiscoveryProofs --------------------------
(* Theorems about Discovery and the part of Providers it is composed with. *)
EXTENDS Discovery, TLAPS

USE ProvidersAssumption, DiscoveryAssumption

-----------------------------------------------------------------------------
(* Bags, messages and runs                                                 *)

LEMMA Added == ASSUME NEW q, NEW m PROVE BagToSet(BagAdd(q, m)) = BagToSet(q) \cup {m}
BY DEF BagAdd, BagToSet

LEMMA Removed == ASSUME NEW q, NEW m PROVE BagToSet(BagRemove(q, m)) \subseteq BagToSet(q)
BY DEF BagRemove, BagToSet

Pcs == {"creds", "list", "stale", "close", "release"}
Msgs == [provider : Providers, try : 0..MaxRetries]
Runs == [pc : Pcs, msg : Msgs, own : BOOLEAN, next : 1..(Types + 1), seen : SUBSET Assets]

(* What waits and what is under way is about a provider of the tenant, and *)
(* a listing has a type to list.                                           *)
RunsOK ==
  /\ BagToSet(queue) \subseteq Msgs
  /\ run \in [Workers -> Runs \cup {Idle}]
  /\ \A w \in Workers :
       /\ At(w, "creds") => run[w].next = 1 /\ run[w].seen = {}
       /\ At(w, "list") => run[w].next \in 1..Types

(* The configuration documents and the request under way.                  *)
ConfigOK ==
  /\ config \in [Providers -> Config \cup {NoConfig}]
  /\ api = Quiet \/ api \in [pc : {"stamp", "jobs", "vertices", "document"}, provider : Providers]
  /\ api.pc # "quiet" => Known(api.provider)

RestOK ==
  /\ vault \subseteq Providers
  /\ asked \in 0..MaxRequests
  /\ inv \in [Assets -> {"none", "active", "deleted"}]
  /\ open \subseteq Providers \X (Workers \cup {Dead})
  /\ deletion \in [Providers -> {"none", "begun", "kept"}]
  /\ late \subseteq Providers /\ calm \subseteq Providers
  /\ faults \in 0..MaxFaults
  /\ cloud \subseteq Assets
  /\ lock \in Workers \cup {Free, Dead}
  /\ overrun \in BOOLEAN

TypeInv == RunsOK /\ ConfigOK /\ RestOK

LEMMA TypeInvImplies == TypeInv => TypeOK
<1> SUFFICES ASSUME TypeInv PROVE TypeOK
  OBVIOUS
<1>1. ProvidersTypeOK
  BY DEF TypeInv, RunsOK, ConfigOK, RestOK, ProvidersTypeOK, Msgs
<1>2. ASSUME NEW w \in Workers, run[w] # Idle
      PROVE  /\ run[w].pc \in Pcs
             /\ run[w].msg.try \in 0..MaxRetries
             /\ run[w].next \in 1..(Types + 1)
             /\ run[w].seen \subseteq Assets
  BY <1>2 DEF TypeInv, RunsOK, Runs, Msgs
<1> QED
  BY <1>1, <1>2 DEF TypeOK, TypeInv, RestOK, Pcs

LEMMA TypeInit == Init => TypeInv
<1> SUFFICES ASSUME Init PROVE TypeInv
  OBVIOUS
<1>1. BagToSet(queue) = {}
  BY DEF Init, ProvidersInit, BagToSet, EmptyBag, SetToBag
<1>2. RunsOK
  BY <1>1 DEF Init, RunsOK, At, Idle
<1>3. ConfigOK
  BY DEF Init, ProvidersInit, ConfigOK, Quiet
<1>4. RestOK
  <2>1. cloud \subseteq Assets
    BY DEF Init
  <2>2. inv \in [Assets -> {"none", "active", "deleted"}]
    BY DEF Init, ProvidersInit
  <2>3. asked \in 0..MaxRequests /\ faults \in 0..MaxFaults
    BY DEF Init, ProvidersInit
  <2> QED
    BY <2>1, <2>2, <2>3 DEF Init, ProvidersInit, RestOK
<1> QED
  BY <1>2, <1>3, <1>4 DEF TypeInv

(* A worker that is not idle has a message of its own.                     *)
LEMMA BusyRun ==
  ASSUME RunsOK, NEW w \in Workers, run[w] # Idle
  PROVE  run[w] \in Runs /\ run[w].msg \in Msgs /\ On(w) \in Providers
BY DEF RunsOK, Runs, Msgs, On

LEMMA AtBusy == ASSUME NEW w, NEW pc \in Pcs, At(w, pc) PROVE run[w] # Idle
BY DEF At, Idle, Pcs

-----------------------------------------------------------------------------
(* Types                                                                   *)

LEMMA Dispatched ==
  ASSUME NEW p, Dispatch(p)
  PROVE  /\ BagToSet(queue') \subseteq BagToSet(queue) \cup {Message(p)}
         /\ api' = [pc |-> "stamp", provider |-> p] \/ api' = api
         /\ Fault \/ NoFault
BY Added DEF Dispatch

(* A request adds one message at most, of a provider that is registered    *)
(* and not being deleted.                                                  *)
LEMMA RequestQueue ==
  ASSUME ConfigOK, Requests \/ \E p \in Providers : DeleteBegin(p, Busy(p))
  PROVE  queue' = queue \/ \E p \in Providers :
           /\ BagToSet(queue') \subseteq BagToSet(queue) \cup {Message(p)}
           /\ Known(p)' /\ api = Quiet
           /\ api'.pc \in {"quiet", "stamp"}
<1>1. CASE \E p \in Providers : Request(p)
  <2> PICK p \in Providers : Request(p)
    BY <1>1
  <2>1. ASSUME NEW secret \in BOOLEAN, Register(p, secret), queue' # queue
        PROVE  /\ BagToSet(queue') \subseteq BagToSet(queue) \cup {Message(p)}
               /\ Known(p)' /\ api = Quiet
               /\ api'.pc \in {"quiet", "stamp"}
    <3>1. config' = [config EXCEPT ![p] = Registered(secret)] /\ Dispatch(p)
      BY <2>1 DEF Register
    <3>2. config'[p] = Registered(secret)
      BY <3>1 DEF ConfigOK
    <3> QED
      BY <2>1, <3>1, <3>2, Dispatched DEF Register, Known, Registered, NoConfig, Ask, Quiet
  <2>2. CASE Discover(p)
    BY <2>2, Dispatched DEF Discover, Known, Ask, Quiet
  <2>3. CASE (\E enabled \in BOOLEAN : SetEnabled(p, enabled)) \/ StoreSecret(p) \/ TestConnection(p)
    BY <2>3 DEF SetEnabled, StoreSecret, TestConnection
  <2> QED
    BY <2>1, <2>2, <2>3 DEF Request
<1>2. CASE Stamp \/ PurgeJobs \/ PurgeVertices \/ DeleteDocument
  BY <1>2 DEF Stamp, PurgeJobs, PurgeVertices, DeleteDocument
<1>3. CASE \E p \in Providers : DeleteBegin(p, Busy(p))
  BY <1>3 DEF DeleteBegin
<1> QED
  BY <1>1, <1>2, <1>3 DEF Requests

(* What a worker may do to the runs: it touches its own only.              *)
OthersKeep(w) == \A v \in Workers \ {w} : run'[v] = run[v]

Same(w) ==
  /\ run'[w].msg = run[w].msg
  /\ run'[w].own = run[w].own
  /\ run'[w].next = run[w].next
  /\ run'[w].seen = run[w].seen

LEMMA Goes ==
  ASSUME RunsOK, NEW w \in Workers, run[w] # Idle, NEW pc \in Pcs, GoTo(w, pc)
  PROVE  run'[w] \in Runs /\ run'[w].pc = pc /\ Same(w) /\ OthersKeep(w) /\ run' \in [Workers -> Runs \cup {Idle}]
<1>1. run[w] \in Runs
  BY BusyRun
<1>2. /\ run'[w] = [run[w] EXCEPT !.pc = pc]
      /\ OthersKeep(w) /\ run' = [run EXCEPT ![w] = run'[w]]
  BY DEF GoTo, RunsOK, OthersKeep
<1>3. run'[w] \in Runs /\ run'[w].pc = pc
  BY <1>1, <1>2 DEF Runs
<1>4. Same(w)
  BY <1>1, <1>2 DEF Runs, Same
<1>5. run' \in [Workers -> Runs \cup {Idle}]
  BY <1>2, <1>3 DEF RunsOK
<1> QED
  BY <1>2, <1>3, <1>4, <1>5

LEMMA Stops ==
  ASSUME RunsOK, NEW w \in Workers, run' = [run EXCEPT ![w] = Idle]
  PROVE  run'[w] = Idle /\ OthersKeep(w) /\ run' \in [Workers -> Runs \cup {Idle}]
BY DEF RunsOK, OthersKeep

LEMMA Begins ==
  ASSUME RunsOK, NEW w \in Workers, NEW m \in BagToSet(queue), Begin(w, m)
  PROVE  /\ run'[w] = Begun(m) /\ run'[w] \in Runs
         /\ OthersKeep(w) /\ run' \in [Workers -> Runs \cup {Idle}]
<1>1. run'[w] = Begun(m) /\ OthersKeep(w)
  BY DEF Begin, RunsOK, OthersKeep
<1>2. Begun(m) \in Runs
  BY DEF RunsOK, Begun, Runs, Pcs
<1>3. run' \in [Workers -> Runs \cup {Idle}]
  BY <1>2 DEF Begin, RunsOK
<1> QED
  BY <1>1, <1>2, <1>3

LEMMA Resolves ==
  ASSUME RunsOK, NEW w \in Workers, Resolve(w)
  PROVE  /\ run'[w] \in Runs /\ run'[w].pc = "list"
         /\ run'[w].msg = run[w].msg
         /\ run'[w].next = 1 /\ run'[w].seen = {}
         /\ OthersKeep(w) /\ run' \in [Workers -> Runs \cup {Idle}]
<1>1. run[w] \in Runs /\ run[w] # Idle
  BY BusyRun, AtBusy DEF Resolve, Pcs
<1>2. CASE GoTo(w, "list")
  BY <1>1, <1>2, Goes DEF Pcs, Same, Resolve, RunsOK
<1>3. ASSUME NEW stored \in BOOLEAN,
             run' = [run EXCEPT ![w] = [@ EXCEPT !.pc = "list", !.own = stored]]
      PROVE  /\ run'[w] = [run[w] EXCEPT !.pc = "list", !.own = stored]
             /\ OthersKeep(w) /\ run' = [run EXCEPT ![w] = run'[w]]
  BY <1>3 DEF RunsOK, OthersKeep
<1>4. ASSUME NEW stored \in BOOLEAN,
             run'[w] = [run[w] EXCEPT !.pc = "list", !.own = stored]
      PROVE  /\ run'[w] \in Runs /\ run'[w].pc = "list"
             /\ run'[w].msg = run[w].msg
             /\ run'[w].next = 1 /\ run'[w].seen = {}
  BY <1>1, <1>4 DEF Runs, Pcs, RunsOK, Resolve
<1>5. (Known(On(w)) /\ config[On(w)].path /\ Loads(On(w))) \in BOOLEAN
  BY DEF Loads
<1>6. ASSUME run'[w] \in Runs, run' = [run EXCEPT ![w] = run'[w]]
      PROVE  run' \in [Workers -> Runs \cup {Idle}]
  BY <1>6 DEF RunsOK
<1> QED
  BY <1>2, <1>3, <1>4, <1>5, <1>6 DEF Resolve

(* After a listing the run stands before the next type, or before what is  *)
(* stale.                                                                  *)
LEMMA Lists ==
  ASSUME RunsOK, NEW w \in Workers, NEW missed, List(w),
         run' = [run EXCEPT ![w] =
                  [@ EXCEPT !.seen = run[w].seen \cup (Listing(w) \ missed),
                            !.next = run[w].next + 1,
                            !.pc = IF Listed(w) THEN "stale" ELSE "list"]]
  PROVE  /\ run'[w] \in Runs
         /\ run'[w].pc = IF Listed(w) THEN "stale" ELSE "list"
         /\ run'[w].msg = run[w].msg
         /\ run'[w].own = run[w].own
         /\ run'[w].next = run[w].next + 1
         /\ run'[w].seen = run[w].seen \cup (Listing(w) \ missed)
         /\ OthersKeep(w) /\ run' \in [Workers -> Runs \cup {Idle}]
<1>1. run[w] \in Runs /\ run[w] # Idle /\ run[w].next \in 1..Types
  BY BusyRun, AtBusy DEF List, Pcs, RunsOK
<1>2. /\ run'[w] = [run[w] EXCEPT !.seen = run[w].seen \cup (Listing(w) \ missed),
                                  !.next = run[w].next + 1,
                                  !.pc = IF Listed(w) THEN "stale" ELSE "list"]
      /\ OthersKeep(w) /\ run' = [run EXCEPT ![w] = run'[w]]
  BY DEF RunsOK, OthersKeep
<1>3. Listing(w) \subseteq Assets
  BY DEF Listing, Reached, Owned
<1>4. run[w].seen \cup (Listing(w) \ missed) \in SUBSET Assets
  BY <1>1, <1>3 DEF Runs
<1>5. run[w].next + 1 \in 1..(Types + 1)
  BY <1>1
<1>6. (IF Listed(w) THEN "stale" ELSE "list") \in Pcs
  BY DEF Pcs
<1>7. PICK r \in Runs, seen \in SUBSET Assets, next \in 1..(Types + 1), pc \in Pcs :
        /\ r = run[w] /\ seen = run[w].seen \cup (Listing(w) \ missed)
        /\ next = run[w].next + 1 /\ pc = IF Listed(w) THEN "stale" ELSE "list"
  BY <1>1, <1>4, <1>5, <1>6
<1> DEFINE moved == [r EXCEPT !.seen = seen, !.next = next, !.pc = pc]
<1>8. run'[w] = moved
  BY <1>2, <1>7
<1>10. /\ moved \in Runs
       /\ moved.pc = pc /\ moved.msg = r.msg /\ moved.own = r.own
       /\ moved.next = next /\ moved.seen = seen
  BY DEF Runs
<1> HIDE DEF moved
<1>9. ASSUME run'[w] \in Runs, run' = [run EXCEPT ![w] = run'[w]]
      PROVE  run' \in [Workers -> Runs \cup {Idle}]
  BY <1>9 DEF RunsOK
<1> QED
  BY <1>2, <1>7, <1>8, <1>9, <1>10

(* A step of a worker moves its own run, keeps or drops messages of        *)
(* providers somebody was busy with, and keeps all of the API but the      *)
(* status of a configuration.                                              *)
MovesRun(w) ==
  /\ OthersKeep(w) /\ run' \in [Workers -> Runs \cup {Idle}]
  /\ At(w, "creds")' => run'[w].next = 1 /\ run'[w].seen = {}
  /\ At(w, "list")' => run'[w].next \in 1..Types

KeepsMessages(w) ==
  /\ BagToSet(queue') \subseteq
       BagToSet(queue) \cup (IF run[w] = Idle THEN {} ELSE {m \in Msgs : m.provider = On(w)})
  /\ run'[w] # Idle =>
       \/ run[w] # Idle /\ run'[w].msg = run[w].msg
       \/ run'[w].msg \in BagToSet(queue)

LEMMA WorkerMoves ==
  ASSUME RunsOK, NEW w \in Workers, Step(w)
  PROVE  MovesRun(w) /\ KeepsMessages(w)
<1> USE DEF MovesRun, KeepsMessages
<1>1. CASE Resolve(w)
  <2>1. run[w] # Idle /\ queue' = queue
    BY <1>1, AtBusy DEF Resolve, Pcs
  <2> QED
    BY <1>1, <2>1, Resolves DEF At
<1>2. CASE List(w)
  <2>1. run[w] \in Runs /\ run[w] # Idle /\ queue' = queue /\ run[w].next \in 1..Types
    BY <1>2, AtBusy, BusyRun DEF List, Pcs, RunsOK
  <2>2. PICK missed : run' = [run EXCEPT ![w] =
                               [@ EXCEPT !.seen = run[w].seen \cup (Listing(w) \ missed),
                                         !.next = run[w].next + 1,
                                         !.pc = IF Listed(w) THEN "stale" ELSE "list"]]
    BY <1>2 DEF List
  <2>3. /\ run'[w] \in Runs /\ OthersKeep(w) /\ run' \in [Workers -> Runs \cup {Idle}]
        /\ run'[w].pc = IF Listed(w) THEN "stale" ELSE "list"
        /\ run'[w].msg = run[w].msg /\ run'[w].next = run[w].next + 1
    BY <1>2, <2>2, Lists
  <2>4. ~Listed(w) => run[w].next + 1 \in 1..Types
    BY <2>1 DEF Listed
  <2>5. At(w, "list")' => run'[w].next \in 1..Types
    BY <2>3, <2>4 DEF At
  <2>6. ~At(w, "creds")'
    BY <2>3 DEF At
  <2> QED
    BY <2>1, <2>3, <2>5, <2>6
<1>3. ASSUME NEW pc \in {"close", "release"}, GoTo(w, pc), run[w] # Idle,
             \/ queue' = queue
             \/ CanRetry(w) /\ queue' = BagAdd(queue, [run[w].msg EXCEPT !.try = @ + 1])
      PROVE  MovesRun(w) /\ KeepsMessages(w)
  <2>1. /\ run'[w] \in Runs /\ run'[w].pc = pc /\ run'[w].msg = run[w].msg
        /\ OthersKeep(w) /\ run' \in [Workers -> Runs \cup {Idle}]
    BY <1>3, Goes DEF Pcs, Same
  <2>2. run[w].msg \in Msgs
    BY <1>3, BusyRun
  <2>3. ASSUME CanRetry(w)
        PROVE  [run[w].msg EXCEPT !.try = @ + 1] \in {m \in Msgs : m.provider = On(w)}
    <3>1. run[w].msg.try + 1 \in 0..MaxRetries
      BY <2>2, <2>3 DEF CanRetry, Msgs
    <3> QED
      BY <2>2, <3>1 DEF Msgs, On
  <2>4. BagToSet(queue') \subseteq BagToSet(queue) \cup {m \in Msgs : m.provider = On(w)}
    BY <1>3, <2>3, Added
  <2> QED
    BY <1>3, <2>1, <2>4 DEF At
<1>4. CASE MarkStale(w) \/ Complete(w)
  <2>1. /\ run[w] # Idle /\ queue' = queue
        /\ \E pc \in {"close", "release"} : GoTo(w, pc)
    BY <1>4, AtBusy DEF MarkStale, Complete, Pcs
  <2> QED
    BY <1>3, <2>1
<1>5. CASE Fail(w)
  <2>1. run[w] # Idle /\ GoTo(w, "release")
    BY <1>5 DEF Fail, Idle
  <2>2. \/ queue' = queue
        \/ CanRetry(w) /\ queue' = BagAdd(queue, [run[w].msg EXCEPT !.try = @ + 1])
    BY <1>5 DEF Fail
  <2> QED
    BY <1>3, <2>1, <2>2
<1>6. CASE Release(w) \/ Crash(w)
  <2>1. run[w] # Idle /\ run' = [run EXCEPT ![w] = Idle]
    BY <1>6, AtBusy DEF Release, Crash, Pcs
  <2>2. queue' = queue \/ queue' = BagAdd(queue, run[w].msg)
    BY <1>6 DEF Release, Crash
  <2>3. run[w].msg \in {m \in Msgs : m.provider = On(w)}
    BY <2>1, BusyRun DEF On
  <2>4. BagToSet(queue') \subseteq BagToSet(queue) \cup {m \in Msgs : m.provider = On(w)}
    BY <2>2, <2>3, Added
  <2> QED
    <3>1. run'[w] = Idle /\ OthersKeep(w) /\ run' \in [Workers -> Runs \cup {Idle}]
      BY <2>1, Stops
    <3>2. ~At(w, "creds")' /\ ~At(w, "list")'
      BY <3>1 DEF At, Idle
    <3> QED
      BY <2>1, <2>4, <3>1, <3>2
<1>7. CASE Redeliver(w)
  <2>1. run[w] # Idle /\ run' = run /\ queue' = BagAdd(queue, run[w].msg)
    BY <1>7 DEF Redeliver, workers
  <2>2. run[w].msg \in {m \in Msgs : m.provider = On(w)}
    BY <2>1, BusyRun DEF On
  <2>3. BagToSet(queue') \subseteq BagToSet(queue) \cup {m \in Msgs : m.provider = On(w)}
    BY <2>1, <2>2, Added
  <2> QED
    BY <2>1, <2>3 DEF At, RunsOK, OthersKeep
<1>8. ASSUME NEW m \in BagToSet(queue), Take(w, m)
      PROVE  MovesRun(w) /\ KeepsMessages(w)
  <2>1. run[w] = Idle /\ BagToSet(queue') \subseteq BagToSet(queue)
    BY <1>8, Removed DEF Take
  <2>2. CASE run' = run
    BY <2>1, <2>2 DEF At, RunsOK, OthersKeep
  <2>3. CASE Begin(w, m)
    <3>1. run'[w] = Begun(m) /\ run'[w] \in Runs /\ OthersKeep(w) /\ run' \in [Workers -> Runs \cup {Idle}]
      BY <2>3, Begins
    <3>2. /\ run'[w].pc = "creds" /\ run'[w].next = 1 /\ run'[w].seen = {}
          /\ run'[w].msg = m
      BY <3>1 DEF Begun
    <3> QED
      BY <2>1, <3>1, <3>2 DEF At
  <2> QED
    BY <1>8, <2>2, <2>3 DEF Take, Skip
<1> QED
  BY <1>1, <1>2, <1>4, <1>5, <1>6, <1>7, <1>8 DEF Step

LEMMA RunsStep == RunsOK /\ ConfigOK /\ [Next]_vars => RunsOK'
<1> SUFFICES ASSUME RunsOK, ConfigOK, [Next]_vars PROVE RunsOK'
  OBVIOUS
<1>1. ASSUME NEW w \in Workers, Step(w) PROVE RunsOK'
  <2>1. MovesRun(w) /\ KeepsMessages(w)
    BY <1>1, WorkerMoves
  <2>2. BagToSet(queue') \subseteq Msgs
    BY <2>1 DEF KeepsMessages, RunsOK
  <2>3. run' \in [Workers -> Runs \cup {Idle}]
    BY <2>1 DEF MovesRun
  <2>4. \A v \in Workers :
          /\ At(v, "creds")' => run'[v].next = 1 /\ run'[v].seen = {}
          /\ At(v, "list")' => run'[v].next \in 1..Types
    BY <2>1 DEF MovesRun, OthersKeep, RunsOK, At
  <2> QED
    BY <2>2, <2>3, <2>4 DEF RunsOK
<1>2. ASSUME run' = run, BagToSet(queue') \subseteq Msgs PROVE RunsOK'
  BY <1>2 DEF RunsOK, At
<1>3. CASE (Requests \/ \E p \in Providers : DeleteBegin(p, Busy(p))) /\ UNCHANGED workers
  <2>1. BagToSet(queue') \subseteq Msgs
    BY <1>3, RequestQueue DEF RunsOK, Message, Msgs
  <2> QED
    BY <1>2, <1>3, <2>1 DEF workers
<1>4. CASE Expire \/ (\E a \in Assets : Change(a)) \/ UNCHANGED vars
  BY <1>2, <1>4 DEF Expire, Change, vars, apiVars, workers, RunsOK
<1> QED
  BY <1>1, <1>3, <1>4 DEF Next

(* What a worker writes to a configuration is its status.                  *)
OnlyStatus ==
  /\ config' \in [Providers -> Config \cup {NoConfig}]
  /\ \A p \in Providers : (Known(p)' <=> Known(p)) /\ config'[p].path = config[p].path

LEMMA SetsStatus ==
  ASSUME ConfigOK, NEW p \in Providers, NEW status \in Statuses, SetStatus(p, status)
  PROVE  OnlyStatus
<1>1. CASE ~Known(p)
  BY <1>1 DEF SetStatus, OnlyStatus, ConfigOK, Known
<1>2. CASE Known(p)
  <2>1. config[p] \in Config
    BY <1>2 DEF Known, ConfigOK
  <2>2. config' = [config EXCEPT ![p].status = status]
    BY <1>2 DEF SetStatus
  <2>3. /\ config'[p] = [config[p] EXCEPT !.status = status]
        /\ \A q \in Providers \ {p} : config'[q] = config[q]
    BY <2>2 DEF ConfigOK
  <2>4. config'[p] \in Config /\ config'[p].path = config[p].path
    BY <2>1, <2>3 DEF Config
  <2>5. config'[p] # NoConfig
    BY <2>4 DEF Config, NoConfig, Statuses
  <2>6. config' \in [Providers -> Config \cup {NoConfig}]
    BY <2>2, <2>3, <2>4 DEF ConfigOK
  <2> QED
    BY <1>2, <2>3, <2>4, <2>5, <2>6 DEF OnlyStatus, Known
<1> QED
  BY <1>1, <1>2

LEMMA WorkerConfig ==
  ASSUME RunsOK, ConfigOK, NEW w \in Workers, Step(w)
  PROVE  OnlyStatus /\ UNCHANGED <<vault, deletion, api, asked, late, cloud>>
<1>1. CASE Complete(w)
  <2>1. On(w) \in Providers
    BY <1>1, AtBusy, BusyRun DEF Complete, Pcs
  <2> QED
    BY <1>1, <2>1, SetsStatus DEF Complete, SetStatus, Statuses
<1>2. CASE Fail(w)
  <2>1. On(w) \in Providers
    BY <1>2, AtBusy, BusyRun DEF Fail, At, Pcs
  <2> QED
    BY <1>2, <2>1, SetsStatus DEF Fail, Statuses
<1>3. CASE config' = config /\ UNCHANGED <<vault, deletion, api, asked, late, cloud>>
  BY <1>3 DEF OnlyStatus, ConfigOK, Known
<1>4. CASE Resolve(w) \/ List(w) \/ MarkStale(w) \/ Release(w) \/ Crash(w) \/ Redeliver(w)
           \/ \E m \in BagToSet(queue) : Take(w, m)
  BY <1>3, <1>4 DEF Resolve, List, MarkStale, Release, Crash, Redeliver, Take, data
<1> QED
  BY <1>1, <1>2, <1>4 DEF Step

ApiDocs == [pc : {"stamp", "jobs", "vertices", "document"}, provider : Providers]

LEMMA ConfigStep == RunsOK /\ ConfigOK /\ [Next]_vars => ConfigOK'
<1> SUFFICES ASSUME RunsOK, ConfigOK, [Next]_vars PROVE ConfigOK'
  OBVIOUS
<1>2. ASSUME OnlyStatus,
             \/ api' = api \/ api' = Quiet
             \/ api' \in ApiDocs /\ Known(api'.provider)
      PROVE  ConfigOK'
  <2>1. api' = Quiet \/ (api' \in ApiDocs /\ Known(api'.provider))
    BY <1>2 DEF ConfigOK, ApiDocs, Quiet
  <2>2. api'.pc # "quiet" => Known(api.provider)'
    BY <1>2, <2>1 DEF OnlyStatus, Quiet, ApiDocs, Known
  <2> QED
    BY <1>2, <2>1, <2>2 DEF OnlyStatus, ConfigOK, ApiDocs
<1>1. ASSUME NEW w \in Workers, Step(w) PROVE ConfigOK'
  BY <1>1, <1>2, WorkerConfig
<1>3. config' = config => OnlyStatus
  BY DEF OnlyStatus, ConfigOK, Known
<1>4. ASSUME NEW p \in Providers, NEW c \in Config, config' = [config EXCEPT ![p] = c],
             api' = Quiet \/ api' = [pc |-> "stamp", provider |-> p]
      PROVE  ConfigOK'
  <2>1. config'[p] = c /\ config' \in [Providers -> Config \cup {NoConfig}]
    BY <1>4 DEF ConfigOK
  <2>2. config'[p] # NoConfig
    BY <2>1 DEF Config, NoConfig, Statuses
  <2> QED
    BY <1>4, <2>1, <2>2 DEF ConfigOK, Known, Quiet
<1>5. ASSUME NEW p \in Providers, Request(p) PROVE ConfigOK'
  <2>1. ASSUME NEW secret \in BOOLEAN, Register(p, secret) PROVE ConfigOK'
    <3>1. Registered(secret) \in Config
      BY DEF Registered, Config, Statuses
    <3>2. CASE UNCHANGED <<config, api>>
      BY <1>2, <1>3, <3>2
    <3>3. CASE config' = [config EXCEPT ![p] = Registered(secret)] /\ Dispatch(p)
      BY <1>4, <2>1, <3>1, <3>3, Dispatched DEF Register, Ask
    <3> QED
      BY <2>1, <3>2, <3>3 DEF Register
  <2>2. ASSUME NEW enabled \in BOOLEAN, SetEnabled(p, enabled) PROVE ConfigOK'
    <3>1. config[p] \in Config
      BY <2>2 DEF SetEnabled, Known, ConfigOK
    <3>2. [config[p] EXCEPT !.enabled = enabled,
                            !.status = IF enabled THEN "active" ELSE "disabled"] \in Config
      BY <3>1 DEF Config, Statuses
    <3>3. config' = [config EXCEPT ![p] = [config[p] EXCEPT !.enabled = enabled,
                       !.status = IF enabled THEN "active" ELSE "disabled"]]
      BY <2>2 DEF SetEnabled, ConfigOK
    <3> QED
      BY <1>4, <2>2, <3>2, <3>3 DEF SetEnabled, Ask
  <2>3. CASE StoreSecret(p)
    <3>1. config[p] \in Config
      BY <2>3 DEF StoreSecret, Known, ConfigOK
    <3>2. [config[p] EXCEPT !.path = TRUE] \in Config
      BY <3>1 DEF Config
    <3>3. CASE config' = config
      BY <1>2, <1>3, <2>3, <3>3 DEF StoreSecret
    <3>4. CASE config' = [config EXCEPT ![p] = [config[p] EXCEPT !.path = TRUE]]
      BY <1>4, <2>3, <3>2, <3>4 DEF StoreSecret, Ask
    <3>5. [config EXCEPT ![p].path = TRUE] = [config EXCEPT ![p] = [config[p] EXCEPT !.path = TRUE]]
      BY DEF ConfigOK
    <3> QED
      BY <2>3, <3>3, <3>4, <3>5 DEF StoreSecret
  <2>4. CASE TestConnection(p)
    <3>1. OnlyStatus
      BY <2>4, SetsStatus DEF TestConnection, Statuses
    <3> QED
      BY <1>2, <2>4, <3>1 DEF TestConnection
  <2>5. CASE Discover(p)
    <3>1. api' = api \/ (api' \in ApiDocs /\ Known(api'.provider))
      BY <2>5, Dispatched DEF Discover, ApiDocs
    <3> QED
      BY <1>2, <1>3, <2>5, <3>1 DEF Discover
  <2> QED
    BY <1>5, <2>1, <2>2, <2>3, <2>4, <2>5 DEF Request
<1>6. CASE Stamp
  <2>1. api.provider \in Providers /\ config[api.provider] \in Config /\ api' = Quiet
    BY <1>6 DEF Stamp, ConfigOK, Known, Quiet
  <2>2. CASE config' = config
    BY <1>2, <1>3, <2>1, <2>2
  <2>3. CASE config' = [config EXCEPT ![api.provider] =
                         [@ EXCEPT !.status = "active", !.stamped = TRUE]]
    <3>1. [config[api.provider] EXCEPT !.status = "active", !.stamped = TRUE] \in Config
      BY <2>1 DEF Config, Statuses
    <3>2. config' = [config EXCEPT ![api.provider] =
                       [config[api.provider] EXCEPT !.status = "active", !.stamped = TRUE]]
      BY <2>1, <2>3 DEF ConfigOK
    <3> QED
      BY <1>4, <2>1, <3>1, <3>2
  <2> QED
    BY <1>6, <2>2, <2>3 DEF Stamp
<1>7. CASE PurgeJobs \/ PurgeVertices
  <2>1. config' = config /\ api \in ApiDocs /\ Known(api.provider)
    BY <1>7 DEF PurgeJobs, PurgeVertices, Purging, ConfigOK, Quiet, ApiDocs
  <2>2. \/ api' = Quiet
        \/ \E pc \in {"vertices", "document"} : api' = [api EXCEPT !.pc = pc]
    BY <1>7 DEF PurgeJobs, PurgeVertices, Proceed, Broken
  <2>3. api' = Quiet \/ (api' \in ApiDocs /\ Known(api'.provider))
    BY <2>1, <2>2 DEF ApiDocs
  <2> QED
    BY <1>2, <1>3, <2>1, <2>3
<1>8. CASE DeleteDocument
  <2>1. api' = Quiet /\ config' \in [Providers -> Config \cup {NoConfig}]
    BY <1>8 DEF DeleteDocument, ConfigOK
  <2> QED
    BY <2>1 DEF ConfigOK, Quiet
<1>9. ASSUME NEW p \in Providers, DeleteBegin(p, Busy(p)) PROVE ConfigOK'
  <2>1. config' = config /\ api' \in ApiDocs /\ Known(api'.provider)
    BY <1>9 DEF DeleteBegin, ApiDocs
  <2> QED
    BY <1>2, <1>3, <2>1
<1>10. CASE Expire \/ (\E a \in Assets : Change(a)) \/ UNCHANGED vars
  <2>1. config' = config /\ api' = api
    BY <1>10 DEF Expire, Change, vars, apiVars
  <2> QED
    BY <1>2, <1>3, <2>1
<1> QED
  BY <1>1, <1>5, <1>6, <1>7, <1>8, <1>9, <1>10 DEF Next, Requests

(* Faults are counted, one at a time.                                      *)
LEMMA FaultStep == [Next]_vars => Fault \/ NoFault
<1> SUFFICES ASSUME [Next]_vars PROVE Fault \/ NoFault
  OBVIOUS
<1>1. CASE \E p \in Providers : Request(p)
  BY <1>1, Dispatched
     DEF Request, Register, SetEnabled, StoreSecret, TestConnection, Discover, NoFault
<1>2. CASE \/ Stamp \/ PurgeJobs \/ PurgeVertices \/ DeleteDocument
           \/ \E p \in Providers : DeleteBegin(p, Busy(p))
  BY <1>2 DEF Stamp, PurgeJobs, PurgeVertices, DeleteDocument, DeleteBegin, Proceed, Broken
<1>3. ASSUME NEW w \in Workers, Step(w) PROVE Fault \/ NoFault
  <2>1. CASE Resolve(w) \/ List(w) \/ MarkStale(w) \/ Complete(w)
    BY <2>1 DEF Resolve, List, MarkStale, Complete, CloseJob, NoFault
  <2>2. CASE Fail(w) \/ Release(w) \/ Crash(w) \/ Redeliver(w)
    BY <2>2 DEF Fail, CloseJob, Release, Crash, Redeliver, NoFault
  <2>3. CASE \E m \in BagToSet(queue) : Take(w, m)
    BY <2>3 DEF Take, Skip, Begin, StartJob, NoFault
  <2> QED
    BY <1>3, <2>1, <2>2, <2>3 DEF Step
<1>4. CASE Expire \/ (\E a \in Assets : Change(a)) \/ UNCHANGED vars
  BY <1>4 DEF Expire, Change, vars, apiVars, NoFault
<1> QED
  BY <1>1, <1>2, <1>3, <1>4 DEF Next, Requests

(* What a worker does to the inventory, the job documents and the lock.    *)
LEMMA WorkerRest ==
  ASSUME RunsOK, RestOK, NEW w \in Workers, Step(w)
  PROVE  /\ inv' \in [Assets -> {"none", "active", "deleted"}]
         /\ open' \subseteq Providers \X (Workers \cup {Dead})
         /\ calm' \subseteq Providers
         /\ lock' \in Workers \cup {Free, Dead}
         /\ overrun' = overrun
<1> USE DEF RestOK
<1>1. CASE Resolve(w) \/ Release(w) \/ Redeliver(w)
  BY <1>1 DEF Resolve, Release, Redeliver, data, workers
<1>2. CASE List(w) \/ MarkStale(w)
  BY <1>2 DEF List, MarkStale, Upsert
<1>3. run[w] # Idle => On(w) \in Providers
  BY BusyRun
<1>4. CASE Complete(w) \/ Fail(w) \/ Crash(w)
  <2>1. On(w) \in Providers
    BY <1>3, <1>4 DEF Complete, Fail, Crash, At, Idle
  <2>2. open' = open \ {<<On(w), w>>} \/ Abandon(w)
    BY <1>4 DEF Complete, Fail, Crash, CloseJob
  <2>3. open' \subseteq Providers \X (Workers \cup {Dead})
    BY <2>1, <2>2 DEF Abandon
  <2> QED
    BY <1>4, <2>3 DEF Complete, Fail, Crash
<1>5. ASSUME NEW m \in BagToSet(queue), Take(w, m)
      PROVE  /\ open' \subseteq Providers \X (Workers \cup {Dead})
             /\ calm' \subseteq Providers
             /\ inv' = inv
             /\ lock' \in Workers \cup {Free, Dead}
             /\ overrun' = overrun
  <2>1. m.provider \in Providers
    BY DEF RunsOK, Msgs
  <2> QED
    BY <1>5, <2>1 DEF Take, Skip, Begin, StartJob
<1> QED
  BY <1>1, <1>2, <1>4, <1>5 DEF Step

(* What a request does to the rest of the state.                           *)
LEMMA RequestRest ==
  ASSUME ConfigOK, RestOK, Requests \/ \E p \in Providers : DeleteBegin(p, Busy(p))
  PROVE  /\ vault' \subseteq Providers
         /\ asked' \in 0..MaxRequests
         /\ inv' \in [Assets -> {"none", "active", "deleted"}]
         /\ open' \subseteq open
         /\ deletion' \in [Providers -> {"none", "begun", "kept"}]
         /\ late' \subseteq Providers /\ calm' \subseteq calm
<1> USE DEF RestOK
<1>1. CASE \E p \in Providers : Request(p)
  <2>1. PICK p \in Providers : Request(p)
    BY <1>1
  <2>2. Ask /\ UNCHANGED <<inv, open, late, calm>>
    BY <2>1 DEF Request, Register, SetEnabled, StoreSecret, TestConnection, Discover
  <2>3. vault' = vault \/ vault' = vault \cup {p}
    BY <2>1 DEF Request, Register, SetEnabled, StoreSecret, TestConnection, Discover, Store
  <2>4. asked' \in 0..MaxRequests
    BY <2>2 DEF Ask
  <2>5. deletion' = deletion \/ Fresh(p)
    BY <2>1 DEF Request, Register, SetEnabled, StoreSecret, TestConnection, Discover
  <2>6. deletion' \in [Providers -> {"none", "begun", "kept"}]
    BY <2>5 DEF Fresh
  <2> QED
    BY <2>2, <2>3, <2>4, <2>6
<1>2. CASE Stamp \/ PurgeJobs \/ PurgeVertices \/ DeleteDocument
  BY <1>2 DEF Stamp, PurgeJobs, PurgeVertices, DeleteDocument, Fresh
<1>3. ASSUME NEW p \in Providers, DeleteBegin(p, Busy(p))
      PROVE  /\ vault' \subseteq vault /\ asked' \in 0..MaxRequests
             /\ UNCHANGED <<inv, open, calm>> /\ late' \subseteq Providers
             /\ deletion' \in [Providers -> {"none", "begun", "kept"}]
  <2>1. asked' \in 0..MaxRequests
    BY <1>3 DEF DeleteBegin, Ask
  <2> QED
    BY <1>3, <2>1 DEF DeleteBegin, Destroy
<1> QED
  BY <1>1, <1>2, <1>3 DEF Requests

LEMMA RestStep == TypeInv /\ [Next]_vars => RestOK'
<1> SUFFICES ASSUME TypeInv, [Next]_vars PROVE RestOK'
  OBVIOUS
<1> USE DEF TypeInv
<1>1. faults' \in 0..MaxFaults
  BY FaultStep DEF RestOK, Fault, NoFault
<1>2. ASSUME NEW w \in Workers, Step(w) PROVE RestOK'
  BY <1>1, <1>2, WorkerRest, WorkerConfig DEF RestOK
<1>3. CASE /\ Requests \/ \E p \in Providers : DeleteBegin(p, Busy(p))
           /\ UNCHANGED <<cloud, workers>>
  BY <1>1, <1>3, RequestRest DEF RestOK, workers
<1>4. CASE Expire
  BY <1>1, <1>4 DEF Expire, RestOK
<1>5. CASE \E a \in Assets : Change(a)
  BY <1>1, <1>5 DEF Change, RestOK, workers
<1>6. CASE UNCHANGED vars
  BY <1>6 DEF vars, apiVars, RestOK
<1> QED
  BY <1>2, <1>3, <1>4, <1>5, <1>6 DEF Next

LEMMA TypeStep == TypeInv /\ [Next]_vars => TypeInv'
BY RunsStep, ConfigStep, RestStep DEF TypeInv

(* Every variable keeps its type: no worker and no request writes a status *)
(* a configuration cannot have, no attempt exceeds max_retries.            *)
THEOREM TypeCorrect == Spec => []TypeOK
BY TypeInit, TypeStep, TypeInvImplies, PTL DEF Spec

-----------------------------------------------------------------------------
(* The lock                                                                *)

(* As long as no lock expired under a discovery, whoever is at work has    *)
(* set it, and who has set it is at work.                                  *)
LockInv == ~overrun => \A w \in Workers : (run[w] # Idle) <=> (lock = w)

LEMMA NotIdle == ASSUME NEW r \in Runs PROVE r # Idle
BY DEF Runs, Pcs, Idle

LEMMA NoWorker == Free \notin Workers /\ Dead \notin Workers /\ Free # Dead
BY DEF Free, Dead

(* The steps between Take and Release, as moves of one run.                *)
LEMMA Works ==
  ASSUME RunsOK, NEW w \in Workers,
         Resolve(w) \/ List(w) \/ MarkStale(w) \/ Complete(w) \/ Fail(w)
  PROVE  /\ run[w] # Idle /\ run'[w] \in Runs /\ run'[w] # Idle
         /\ run'[w].msg = run[w].msg
         /\ OthersKeep(w) /\ UNCHANGED <<lock, overrun>>
<1>1. CASE Resolve(w)
  BY <1>1, Resolves, NotIdle, AtBusy DEF Resolve, Pcs
<1>2. CASE List(w)
  <2>1. PICK missed : run' = [run EXCEPT ![w] =
                               [@ EXCEPT !.seen = run[w].seen \cup (Listing(w) \ missed),
                                         !.next = run[w].next + 1,
                                         !.pc = IF Listed(w) THEN "stale" ELSE "list"]]
    BY <1>2 DEF List
  <2>2. run'[w] \in Runs /\ run'[w].msg = run[w].msg /\ OthersKeep(w)
    BY <1>2, <2>1, Lists
  <2> QED
    BY <1>2, <2>2, NotIdle, AtBusy DEF List, Pcs
<1>3. CASE MarkStale(w) \/ Complete(w) \/ Fail(w)
  <2>1. /\ run[w] # Idle
        /\ \E pc \in {"close", "release"} : GoTo(w, pc)
        /\ UNCHANGED <<lock, overrun>>
    BY <1>3 DEF MarkStale, Complete, Fail, At, Idle
  <2> QED
    BY <2>1, Goes, NotIdle DEF Pcs, Same
<1> QED
  BY <1>1, <1>2, <1>3

LEMMA LockInit == Init => LockInv
BY NoWorker DEF Init, LockInv

LEMMA LockStep == TypeInv /\ LockInv /\ [Next]_vars => LockInv'
<1> SUFFICES ASSUME TypeInv, LockInv, [Next]_vars, ~overrun' PROVE LockInv'
  BY DEF LockInv
<1> USE DEF TypeInv
<1>1. ASSUME UNCHANGED <<lock, overrun>>,
             \A v \in Workers : (run'[v] = Idle) <=> (run[v] = Idle)
      PROVE  LockInv'
  BY <1>1 DEF LockInv
<1>2. ASSUME NEW w \in Workers,
             Resolve(w) \/ List(w) \/ MarkStale(w) \/ Complete(w) \/ Fail(w)
      PROVE  LockInv'
  BY <1>1, <1>2, Works DEF OthersKeep
<1>3. ASSUME NEW w \in Workers, Release(w) \/ Crash(w) PROVE LockInv'
  <2>1. /\ run[w] # Idle /\ overrun' = overrun
        /\ run'[w] = Idle /\ OthersKeep(w)
    BY <1>3, Stops DEF Release, Crash, At, Idle
  <2>2. lock = w /\ lock' \in {Free, Dead}
    BY <1>3, <2>1 DEF LockInv, Release, Crash
  <2> QED
    BY <2>1, <2>2, NoWorker DEF LockInv, OthersKeep
<1>4. ASSUME NEW w \in Workers, Redeliver(w) PROVE LockInv'
  BY <1>1, <1>4 DEF Redeliver, workers
<1>5. ASSUME NEW w \in Workers, NEW m \in BagToSet(queue), Take(w, m) PROVE LockInv'
  <2>1. CASE run' = run /\ lock' = lock /\ overrun' = overrun
    BY <1>1, <2>1
  <2>2. CASE run' = run /\ lock = Free /\ lock' = Dead /\ overrun' = overrun
    BY <2>2, NoWorker DEF LockInv
  <2>3. CASE lock = Free /\ Begin(w, m) /\ overrun' = overrun
    <3>1. run'[w] # Idle /\ OthersKeep(w) /\ lock' = w
      BY <2>3, Begins, NotIdle DEF Begin
    <3>2. \A v \in Workers : run[v] = Idle
      BY <2>3, NoWorker DEF LockInv
    <3> QED
      BY <3>1, <3>2 DEF LockInv, OthersKeep
  <2> QED
    BY <1>5, <2>1, <2>2, <2>3 DEF Take, Skip
<1>6. CASE Expire
  <2>1. lock = Dead /\ lock' = Free /\ UNCHANGED <<run, overrun>>
    BY <1>6 DEF Expire
  <2> QED
    BY <2>1, NoWorker DEF LockInv
<1>7. CASE UNCHANGED workers
  BY <1>1, <1>7 DEF workers
<1>8. CASE (\E a \in Assets : Change(a)) \/ UNCHANGED vars
  BY <1>7, <1>8 DEF Change, vars, workers
<1> QED
  BY <1>2, <1>3, <1>4, <1>5, <1>6, <1>7, <1>8 DEF Next, Step

-----------------------------------------------------------------------------
(* The lock implements the lease                                           *)

Forfeited == IF overrun THEN {"cloud"} ELSE {}
Scanning == [c \in {"cloud"} |-> IF overrun THEN {} ELSE Working]

LEMMA LeaseStutter ==
  ASSUME overrun' = overrun,
         \A v \in Workers : (run'[v] = Idle) <=> (run[v] = Idle)
  PROVE  UNCHANGED <<Scanning, Forfeited>>
<1>1. Working' = Working
  BY DEF Working
<1> QED
  BY <1>1 DEF Scanning, Forfeited

LEMMA LeaseStep ==
  ASSUME TypeInv, LockInv, [Next]_vars
  PROVE  Lease!Next \/ UNCHANGED <<Scanning, Forfeited>>
<1> USE DEF TypeInv
<1>1. ASSUME NEW w \in Workers,
             Resolve(w) \/ List(w) \/ MarkStale(w) \/ Complete(w) \/ Fail(w)
      PROVE  UNCHANGED <<Scanning, Forfeited>>
  BY <1>1, Works, LeaseStutter DEF OthersKeep
<1>2. ASSUME NEW w \in Workers, Release(w) \/ Crash(w)
      PROVE  Lease!Next \/ UNCHANGED <<Scanning, Forfeited>>
  <2>1. /\ run[w] # Idle /\ overrun' = overrun
        /\ run'[w] = Idle /\ OthersKeep(w)
    BY <1>2, Stops DEF Release, Crash, At, Idle
  <2>2. Working' = Working \ {w} /\ w \in Working
    BY <2>1 DEF Working, OthersKeep
  <2>3. CASE overrun
    BY <2>1, <2>3 DEF Scanning, Forfeited
  <2>4. CASE ~overrun
    <3>1. Lease!End("cloud", w)
      BY <2>1, <2>2, <2>4 DEF Lease!End, Scanning, Forfeited
    <3> QED
      BY <3>1 DEF Lease!Next
  <2> QED
    BY <2>3, <2>4
<1>3. ASSUME NEW w \in Workers, NEW m \in BagToSet(queue), Take(w, m)
      PROVE  Lease!Next \/ UNCHANGED <<Scanning, Forfeited>>
  <2>1. CASE run' = run
    BY <1>3, <2>1, LeaseStutter DEF Take
  <2>2. CASE lock = Free /\ Begin(w, m)
    <3>1. run'[w] # Idle /\ OthersKeep(w) /\ overrun' = overrun
      BY <1>3, <2>2, Begins, NotIdle DEF Take
    <3>2. CASE overrun
      BY <3>1, <3>2 DEF Scanning, Forfeited
    <3>3. CASE ~overrun
      <4>1. \A v \in Workers : run[v] = Idle
        BY <2>2, <3>3, NoWorker DEF LockInv
      <4>2. Working = {} /\ Working' = {w}
        BY <3>1, <4>1 DEF Working, OthersKeep
      <4>3. Lease!Begin("cloud", w)
        BY <3>1, <3>3, <4>2 DEF Lease!Begin, Scanning, Forfeited
      <4> QED
        BY <4>3 DEF Lease!Next
    <3> QED
      BY <3>2, <3>3
  <2> QED
    BY <1>3, <2>1, <2>2 DEF Take, Skip
<1>4. CASE Expire
  <2>1. run' = run
    BY <1>4 DEF Expire
  <2>2. CASE overrun' = overrun
    BY <2>1, <2>2, LeaseStutter
  <2>3. CASE overrun' # overrun
    <3>1. ~overrun /\ overrun' /\ lock \in Workers
      BY <1>4, <2>3 DEF Expire, RestOK
    <3>2. Working # {}
      BY <3>1 DEF LockInv, Working
    <3>3. Lease!Forfeit({"cloud"})
      BY <3>1, <3>2 DEF Lease!Forfeit, Scanning, Forfeited
    <3> QED
      BY <3>3 DEF Lease!Next
  <2> QED
    BY <2>2, <2>3
<1>5. CASE UNCHANGED <<run, overrun>>
  BY <1>5, LeaseStutter
<1>6. CASE \/ \E w \in Workers : Redeliver(w)
           \/ \E a \in Assets : Change(a)
           \/ UNCHANGED vars
  BY <1>5, <1>6 DEF Redeliver, Change, vars, workers
<1> QED
  BY <1>1, <1>2, <1>3, <1>4, <1>5, <1>6 DEF Next, Step, workers

(* The lock of a tenant and a cloud implements the lease of ScanLease: the *)
(* discoveries of all accounts never run in parallel, until one outlives   *)
(* the seven hours.                                                        *)
THEOREM LockImplementsLease == Spec => LeaseSpec
<1>1. Init => Lease!Init
  <2>1. Init => Working = {}
    BY DEF Init, Working
  <2> QED
    BY <2>1 DEF Init, Lease!Init
<1>2. TypeInv /\ LockInv /\ [Next]_vars =>
        Lease!Next \/ UNCHANGED <<Scanning, Forfeited>>
  BY LeaseStep
<1> QED
  BY <1>1, <1>2, TypeInit, TypeStep, LockInit, LockStep, PTL
     DEF Spec, LeaseSpec, Lease!Spec, Scanning, Forfeited

-----------------------------------------------------------------------------
(* The job documents                                                       *)

LEMMA JobsInit == Init => JobsSettle
BY DEF Init, ProvidersInit, JobsSettle

(* What keeps a document settled while its worker's run is as it was.      *)
LEMMA JobsKept ==
  ASSUME TypeInv, JobsSettle, faults > 0 => faults' > 0, open' \subseteq open,
         \A o \in open' : o[2] # Dead =>
           run'[o[2]] # Idle /\ run'[o[2]].msg = run[o[2]].msg /\ ~At(o[2], "release")'
  PROVE  JobsSettle'
<1> SUFFICES ASSUME NEW o \in open'
             PROVE  IF o[2] = Dead THEN faults' > 0
                    ELSE o[2] \in Working' /\ On(o[2])' = o[1] /\ ~At(o[2], "release")'
  BY DEF JobsSettle
<1>1. CASE o[2] = Dead
  BY <1>1 DEF JobsSettle
<1>2. CASE o[2] # Dead
  BY <1>2 DEF JobsSettle, Working, On
<1> QED
  BY <1>1, <1>2

LEMMA JobsStep == TypeInv /\ JobsSettle /\ [Next]_vars => JobsSettle'
<1> SUFFICES ASSUME TypeInv, JobsSettle, [Next]_vars PROVE JobsSettle'
  OBVIOUS
<1> USE DEF TypeInv
<1>f. (faults > 0 => faults' > 0) /\ (Fault => faults' > 0)
  <2>1. faults \in Nat
    BY DEF RestOK
  <2> QED
    BY <2>1, FaultStep DEF Fault, NoFault
<1>o. \A o \in open : o = <<o[1], o[2]>> /\ o[2] \in Workers \cup {Dead}
  BY DEF RestOK
<1>1. ASSUME UNCHANGED run, open' \subseteq open PROVE JobsSettle'
  BY <1>f, <1>1 DEF JobsSettle, Working, On, At
<1>2. ASSUME NEW w \in Workers, Resolve(w) \/ List(w) \/ MarkStale(w)
      PROVE  JobsSettle'
  <2>1. /\ run'[w] # Idle /\ run'[w].msg = run[w].msg
        /\ OthersKeep(w) /\ open' = open
    BY <1>2, Works DEF Resolve, List, MarkStale, data
  <2>2. ~At(w, "release")'
    <3>1. CASE Resolve(w)
      BY <3>1, Resolves DEF At
    <3>2. CASE List(w)
      BY <3>2, Lists DEF List, At
    <3>3. CASE MarkStale(w)
      BY <3>3, Goes, AtBusy DEF MarkStale, At, Pcs
    <3> QED
      BY <1>2, <3>1, <3>2, <3>3
  <2>3. \A o \in open' : o[2] # Dead =>
          run'[o[2]] # Idle /\ run'[o[2]].msg = run[o[2]].msg /\ ~At(o[2], "release")'
    BY <1>o, <2>1, <2>2 DEF OthersKeep, At, JobsSettle, Working
  <2> QED
    BY <1>f, <2>1, <2>3, JobsKept
<1>3. ASSUME NEW w \in Workers, OthersKeep(w),
             \/ open' = open \ {<<On(w), w>>}
             \/ Fault /\ Abandon(w)
      PROVE  JobsSettle'
  <2>1. \A o \in open : o[2] = w => o = <<On(w), w>>
    BY <1>o, NoWorker DEF JobsSettle
  <2>2. \A o \in open' : o \in open \/ (o[2] = Dead /\ faults' > 0)
    BY <1>f, <1>3 DEF Abandon
  <2>3. \A o \in open' : o[2] # w
    <3>1. CASE open' = open \ {<<On(w), w>>}
      BY <2>1, <3>1
    <3>2. CASE Abandon(w)
      BY <2>1, <3>2, NoWorker DEF Abandon
    <3> QED
      BY <1>3, <3>1, <3>2
  <2> SUFFICES ASSUME NEW o \in open'
               PROVE  IF o[2] = Dead THEN faults' > 0
                      ELSE o[2] \in Working' /\ On(o[2])' = o[1] /\ ~At(o[2], "release")'
    BY DEF JobsSettle
  <2>4. CASE o[2] = Dead
    BY <1>f, <2>2, <2>4 DEF JobsSettle
  <2>5. CASE o[2] # Dead
    <3>1. o \in open /\ o[2] \in Workers \ {w}
      BY <1>o, <2>2, <2>3, <2>5
    <3>2. run'[o[2]] = run[o[2]]
      BY <1>3, <3>1 DEF OthersKeep
    <3> QED
      BY <2>5, <3>1, <3>2 DEF JobsSettle, Working, On, At
  <2> QED
    BY <2>4, <2>5
<1>4. ASSUME NEW w \in Workers, Complete(w) \/ Fail(w) \/ Crash(w) PROVE JobsSettle'
  <2>1. OthersKeep(w)
    BY <1>4, Works, Stops DEF Crash
  <2>2. open' = open \ {<<On(w), w>>} \/ (Fault /\ Abandon(w))
    BY <1>4 DEF Complete, Fail, Crash, CloseJob
  <2> QED
    BY <1>3, <2>1, <2>2
<1>5. ASSUME NEW w \in Workers, Release(w) PROVE JobsSettle'
  <2>1. At(w, "release") /\ OthersKeep(w) /\ open' = open
    BY <1>5, Stops DEF Release, data
  <2>2. <<On(w), w>> \notin open
    BY <2>1, NoWorker DEF JobsSettle
  <2> QED
    BY <1>3, <2>1, <2>2
<1>6. ASSUME NEW w \in Workers, NEW m \in BagToSet(queue), Take(w, m) PROVE JobsSettle'
  <2>1. CASE run' = run /\ open' = open
    BY <1>1, <2>1
  <2>2. CASE run[w] = Idle /\ Begin(w, m)
    <3>1. run'[w] = Begun(m) /\ run'[w] # Idle /\ OthersKeep(w)
      BY <2>2, Begins, NotIdle
    <3>2. On(w)' = m.provider /\ ~At(w, "release")' /\ w \in Working'
      BY <3>1 DEF Begun, On, At, Working
    <3>3. open' \subseteq open \cup {<<m.provider, w>>}
      BY <2>2 DEF Begin, StartJob
    <3>4. \A o \in open : o[2] # Dead => o[2] \in Workers \ {w}
      BY <1>o, <2>2 DEF JobsSettle, Working
    <3>5. \A o \in open : o[2] # Dead => run'[o[2]] = run[o[2]]
      BY <3>1, <3>4 DEF OthersKeep
    <3> SUFFICES ASSUME NEW o \in open'
                 PROVE  IF o[2] = Dead THEN faults' > 0
                        ELSE o[2] \in Working' /\ On(o[2])' = o[1] /\ ~At(o[2], "release")'
      BY DEF JobsSettle
    <3>6. CASE o = <<m.provider, w>>
      BY <3>2, <3>6, NoWorker
    <3>7. CASE o \in open
      BY <1>f, <3>4, <3>5, <3>7 DEF JobsSettle, Working, On, At
    <3> QED
      BY <3>3, <3>6, <3>7
  <2> QED
    BY <1>6, <2>1, <2>2 DEF Take, Skip
<1>7. CASE Requests /\ UNCHANGED workers
  BY <1>1, <1>7, RequestRest DEF workers
<1>8. CASE \/ \E p \in Providers : DeleteBegin(p, Busy(p)) /\ UNCHANGED <<cloud, workers>>
           \/ \E w \in Workers : Redeliver(w)
           \/ Expire \/ (\E a \in Assets : Change(a)) \/ UNCHANGED vars
  BY <1>1, <1>8 DEF DeleteBegin, Redeliver, Expire, Change, vars, apiVars, workers, data
<1> QED
  BY <1>2, <1>4, <1>5, <1>6, <1>7, <1>8 DEF Next, Step

(* A job document that is running has a worker at it, or a fault kept the  *)
(* worker from closing it.                                                 *)
THEOREM DocumentsSettle == Spec => []JobsSettle
BY TypeInit, TypeStep, JobsInit, JobsStep, PTL DEF Spec

-----------------------------------------------------------------------------
(* Secrets                                                                 *)

Deleting == {"jobs", "vertices", "document"}
BeingDeleted(p) == api.pc \in Deleting /\ api.provider = p

(* A document names a secret that is there, or that a deletion destroyed;  *)
(* and once a deletion has begun, the secret is gone or Vault kept it.     *)
SecretInv ==
  \A p \in Providers : Known(p) /\ config[p].path =>
    /\ p \in vault \/ deletion[p] = "begun"
    /\ BeingDeleted(p) => p \notin vault \/ deletion[p] = "kept"

LEMMA SecretInit == Init => SecretInv
BY DEF Init, ProvidersInit, SecretInv, Known

LEMMA SecretStep == TypeInv /\ SecretInv /\ [Next]_vars => SecretInv'
<1> SUFFICES ASSUME TypeInv, SecretInv, [Next]_vars PROVE SecretInv'
  OBVIOUS
<1> USE DEF TypeInv
<1>1. ASSUME UNCHANGED <<vault, deletion, api>>, OnlyStatus PROVE SecretInv'
  BY <1>1 DEF SecretInv, OnlyStatus, BeingDeleted
<1>2. ASSUME NEW w \in Workers, Step(w) PROVE SecretInv'
  BY <1>1, <1>2, WorkerConfig
<1>3. config' = config => OnlyStatus
  BY DEF OnlyStatus, ConfigOK, Known
<1>q. ASSUME api = Quiet PROVE \A p : ~BeingDeleted(p)
  BY <1>q DEF Quiet, BeingDeleted, Deleting
<1>4. ASSUME NEW p \in Providers, Request(p) PROVE SecretInv'
  <2>1. api = Quiet /\ \A q : ~BeingDeleted(q)'
    <3>1. api = Quiet
      BY <1>4 DEF Request, Register, SetEnabled, StoreSecret, TestConnection, Discover, Ask
    <3>2. api' = Quiet \/ api' = [pc |-> "stamp", provider |-> p]
      BY <1>4, <3>1, Dispatched
         DEF Request, Register, SetEnabled, StoreSecret, TestConnection, Discover, Ask
    <3> QED
      BY <3>1, <3>2 DEF Quiet, BeingDeleted, Deleting
  <2>2. \A q \in Providers : Known(q) /\ config[q].path => q \in vault \/ deletion[q] = "begun"
    BY DEF SecretInv
  <2>3. vault \subseteq vault' /\ \A q \in Providers \ {p} : deletion'[q] = deletion[q]
    <3>1. deletion' = deletion \/ Fresh(p)
      BY <1>4 DEF Request, Register, SetEnabled, StoreSecret, TestConnection, Discover
    <3>2. vault \subseteq vault'
      BY <1>4 DEF Request, Register, SetEnabled, StoreSecret, TestConnection, Discover, Store
    <3> QED
      BY <3>1, <3>2 DEF Fresh, RestOK
  <2>4. ASSUME OnlyStatus, deletion' = deletion \/ p \in vault' PROVE SecretInv'
    BY <2>1, <2>2, <2>3, <2>4 DEF SecretInv, OnlyStatus
  <2>5. ASSUME NEW c, config' = [config EXCEPT ![p] = c],
               c.path => p \in vault' \/ (deletion' = deletion /\ deletion[p] = "begun")
        PROVE  SecretInv'
    <3>1. \A q \in Providers \ {p} : config'[q] = config[q]
      BY <2>5 DEF ConfigOK
    <3>2. config'[p] = c
      BY <2>5 DEF ConfigOK
    <3> QED
      BY <2>1, <2>2, <2>3, <2>5, <3>1, <3>2 DEF SecretInv, Known
  <2>6. ASSUME NEW secret \in BOOLEAN, Register(p, secret) PROVE SecretInv'
    <3>1. CASE config' = [config EXCEPT ![p] = Registered(secret)]
      BY <2>5, <2>6, <3>1 DEF Register, Registered, Store
    <3>2. CASE UNCHANGED <<config, deletion>>
      BY <1>3, <2>4, <3>2
    <3> QED
      BY <2>6, <3>1, <3>2 DEF Register
  <2>7. ASSUME NEW enabled \in BOOLEAN, SetEnabled(p, enabled) PROVE SecretInv'
    <3>1. config[p] \in Config /\ deletion' = deletion
      BY <2>7 DEF SetEnabled, Known, ConfigOK
    <3>2. config' = [config EXCEPT ![p] = [config[p] EXCEPT !.enabled = enabled,
                       !.status = IF enabled THEN "active" ELSE "disabled"]]
      BY <2>7 DEF SetEnabled, ConfigOK
    <3>3. [config[p] EXCEPT !.enabled = enabled,
             !.status = IF enabled THEN "active" ELSE "disabled"].path = config[p].path
      BY <3>1 DEF Config
    <3>4. config[p].path => p \in vault' \/ deletion[p] = "begun"
      BY <2>2, <2>3, <2>7 DEF SetEnabled
    <3> QED
      BY <2>5, <3>1, <3>2, <3>3, <3>4
  <2>8. CASE StoreSecret(p)
    <3>1. config[p] \in Config /\ p \in vault'
      BY <2>8 DEF StoreSecret, Known, ConfigOK, Store
    <3>2. CASE config' = config
      BY <1>3, <2>4, <3>1, <3>2
    <3>3. CASE config' = [config EXCEPT ![p].path = TRUE]
      <4>1. config' = [config EXCEPT ![p] = [config[p] EXCEPT !.path = TRUE]]
        BY <3>3 DEF ConfigOK
      <4> QED
        BY <2>5, <3>1, <4>1
    <3> QED
      BY <2>8, <3>2, <3>3 DEF StoreSecret
  <2>9. CASE TestConnection(p)
    BY <2>4, <2>9, SetsStatus DEF TestConnection, Statuses
  <2>10. CASE Discover(p)
    BY <1>3, <2>4, <2>10 DEF Discover
  <2> QED
    BY <1>4, <2>6, <2>7, <2>8, <2>9, <2>10 DEF Request
<1>5. CASE Stamp
  <2>1. /\ api.provider \in Providers /\ config[api.provider] \in Config
        /\ api.pc = "stamp" /\ api' = Quiet /\ UNCHANGED <<vault, deletion>>
    BY <1>5 DEF Stamp, ConfigOK, Known, Quiet
  <2>2. \/ config' = config
        \/ config' = [config EXCEPT ![api.provider] =
                        [config[api.provider] EXCEPT !.status = "active", !.stamped = TRUE]]
    BY <1>5, <2>1 DEF Stamp, ConfigOK
  <2>3. [config[api.provider] EXCEPT !.status = "active", !.stamped = TRUE].path
          = config[api.provider].path
    BY <2>1 DEF Config
  <2>4. \A q \in Providers : (Known(q)' => Known(q)) /\ config'[q].path = config[q].path
    BY <2>1, <2>2, <2>3 DEF ConfigOK, Known, Config, NoConfig, Statuses
  <2>5. \A q : ~BeingDeleted(q)'
    BY <2>1 DEF BeingDeleted, Deleting, Quiet
  <2> QED
    BY <2>1, <2>4, <2>5 DEF SecretInv
<1>6. CASE PurgeJobs \/ PurgeVertices
  <2>1. /\ UNCHANGED <<vault, deletion, config>> /\ api.pc \in Deleting
        /\ api' = Quiet \/ \E pc \in Deleting : api' = [api EXCEPT !.pc = pc]
    BY <1>6 DEF PurgeJobs, PurgeVertices, Proceed, Broken, Purging, Deleting
  <2>2. \A q : BeingDeleted(q)' => BeingDeleted(q)
    BY <2>1 DEF BeingDeleted, ConfigOK, Quiet, Deleting
  <2> QED
    BY <2>1, <2>2 DEF SecretInv, Known
<1>7. CASE DeleteDocument
  <2>1. /\ \/ config' = [config EXCEPT ![api.provider] = NoConfig] /\ Fresh(api.provider)
           \/ UNCHANGED <<config, deletion>>
        /\ api' = Quiet /\ vault' = vault
    BY <1>7 DEF DeleteDocument
  <2>2. \A q \in Providers : Known(q)' =>
          Known(q) /\ config'[q] = config[q] /\ deletion'[q] = deletion[q]
    BY <2>1 DEF ConfigOK, RestOK, Known, Fresh
  <2>3. \A q : ~BeingDeleted(q)'
    BY <2>1 DEF BeingDeleted, Deleting, Quiet
  <2> QED
    BY <2>1, <2>2, <2>3 DEF SecretInv
<1>8. ASSUME NEW p \in Providers, DeleteBegin(p, Busy(p)) PROVE SecretInv'
  <2>1. /\ config' = config /\ api = Quiet
        /\ api' = [pc |-> "jobs", provider |-> p]
    BY <1>8 DEF DeleteBegin, Ask
  <2>2. \A q \in Providers : BeingDeleted(q)' <=> q = p
    BY <2>1 DEF BeingDeleted, Deleting
  <2>3. \/ /\ deletion' = [deletion EXCEPT ![p] = "begun"]
           /\ vault' = IF config[p].path THEN vault \ {p} ELSE vault
        \/ /\ deletion' = [deletion EXCEPT ![p] = IF p \in vault THEN "kept" ELSE "begun"]
           /\ vault' = vault
    BY <1>8 DEF DeleteBegin, Destroy, Loads
  <2>4. \A q \in Providers \ {p} :
          deletion'[q] = deletion[q] /\ (q \in vault' <=> q \in vault)
    BY <2>3 DEF RestOK
  <2>5. config[p].path =>
          \/ deletion'[p] = "begun" /\ p \notin vault'
          \/ deletion'[p] = "kept" /\ p \in vault'
    BY <2>3 DEF RestOK
  <2> QED
    BY <1>q, <2>1, <2>2, <2>4, <2>5 DEF SecretInv, Known
<1>9. CASE Expire \/ (\E a \in Assets : Change(a)) \/ UNCHANGED vars
  <2>1. UNCHANGED <<vault, deletion, api, config>>
    BY <1>9 DEF Expire, Change, vars, apiVars
  <2> QED
    BY <1>1, <1>3, <2>1
<1> QED
  BY <1>2, <1>4, <1>5, <1>6, <1>7, <1>8, <1>9 DEF Next, Requests

(* Only the last step of a deletion forgets a provider.                    *)
LEMMA Forgets ==
  ASSUME TypeInv, [Next]_vars, NEW p \in Providers, Known(p), ~Known(p)'
  PROVE  DeleteDocument /\ BeingDeleted(p) /\ api.pc = "document" /\ ~Fault
<1> USE DEF TypeInv
<1>1. ASSUME config' = config \/ OnlyStatus PROVE FALSE
  BY <1>1 DEF OnlyStatus, Known
<1>2. ASSUME NEW w \in Workers, Step(w) PROVE FALSE
  BY <1>1, <1>2, WorkerConfig
<1>3. ASSUME NEW q \in Providers, Request(q) PROVE FALSE
  <2>1. ASSUME NEW c \in Config, config' = [config EXCEPT ![q] = c] PROVE FALSE
    BY <2>1 DEF ConfigOK, Known, Config, NoConfig, Statuses
  <2>2. ASSUME NEW secret \in BOOLEAN, Register(q, secret) PROVE FALSE
    <3>1. Registered(secret) \in Config
      BY DEF Registered, Config, Statuses
    <3> QED
      BY <1>1, <2>1, <2>2, <3>1 DEF Register
  <2>3. ASSUME NEW enabled \in BOOLEAN, SetEnabled(q, enabled) PROVE FALSE
    <3>1. config[q] \in Config
      BY <2>3 DEF SetEnabled, Known, ConfigOK
    <3>2. [config[q] EXCEPT !.enabled = enabled,
                            !.status = IF enabled THEN "active" ELSE "disabled"] \in Config
      BY <3>1 DEF Config, Statuses
    <3>3. config' = [config EXCEPT ![q] = [config[q] EXCEPT !.enabled = enabled,
                       !.status = IF enabled THEN "active" ELSE "disabled"]]
      BY <2>3 DEF SetEnabled, ConfigOK
    <3> QED
      BY <2>1, <3>2, <3>3
  <2>4. CASE StoreSecret(q)
    <3>1. config[q] \in Config
      BY <2>4 DEF StoreSecret, Known, ConfigOK
    <3>2. [config[q] EXCEPT !.path = TRUE] \in Config
      BY <3>1 DEF Config
    <3>3. [config EXCEPT ![q].path = TRUE] = [config EXCEPT ![q] = [config[q] EXCEPT !.path = TRUE]]
      BY DEF ConfigOK
    <3> QED
      BY <1>1, <2>1, <2>4, <3>2, <3>3 DEF StoreSecret
  <2>5. CASE TestConnection(q)
    BY <1>1, <2>5, SetsStatus DEF TestConnection, Statuses
  <2>6. CASE Discover(q)
    BY <1>1, <2>6 DEF Discover
  <2> QED
    BY <1>3, <2>2, <2>3, <2>4, <2>5, <2>6 DEF Request
<1>4. CASE Stamp
  <2>1. api.provider \in Providers /\ config[api.provider] \in Config
    BY <1>4 DEF Stamp, ConfigOK, Known, Quiet
  <2>2. [config[api.provider] EXCEPT !.status = "active", !.stamped = TRUE] \in Config
    BY <2>1 DEF Config, Statuses
  <2>3. \/ config' = config
        \/ config' = [config EXCEPT ![api.provider] =
                        [config[api.provider] EXCEPT !.status = "active", !.stamped = TRUE]]
    BY <1>4, <2>1 DEF Stamp, ConfigOK
  <2>4. config'[p] \in Config
    BY <2>1, <2>2, <2>3 DEF ConfigOK, Known
  <2> QED
    BY <2>4 DEF Known, Config, NoConfig, Statuses
<1>5. CASE DeleteDocument
  <2>1. NoFault /\ config' = [config EXCEPT ![api.provider] = NoConfig]
    BY <1>1, <1>5 DEF DeleteDocument
  <2>2. api.provider = p
    BY <2>1 DEF ConfigOK, Known
  <2>3. ~Fault
    BY <2>1 DEF NoFault, Fault, RestOK
  <2> QED
    BY <1>5, <2>2, <2>3 DEF DeleteDocument, Purging, BeingDeleted, Deleting
<1>6. CASE \/ PurgeJobs \/ PurgeVertices \/ Expire
           \/ (\E q \in Providers : DeleteBegin(q, Busy(q)))
           \/ (\E a \in Assets : Change(a)) \/ UNCHANGED vars
  BY <1>1, <1>6 DEF PurgeJobs, PurgeVertices, Expire, DeleteBegin, Change, vars, apiVars
<1> QED
  BY <1>2, <1>3, <1>4, <1>5, <1>6 DEF Next, Requests

(* A configuration that names a secret has one, however its requests fail, *)
(* unless a deletion destroyed it and did not get to the document.         *)
THEOREM SecretsAreStored == Spec => []PathLeadsToSecret
<1>1. SecretInv => PathLeadsToSecret
  BY DEF SecretInv, PathLeadsToSecret
<1> QED
  BY <1>1, TypeInit, TypeStep, SecretInit, SecretStep, PTL DEF Spec

(* A deletion that removes the document, at the first attempt or after     *)
(* some that failed, has removed the secret it named, unless Vault refused *)
(* that in the last attempt.                                               *)
THEOREM SecretsAreDestroyed == Spec => NoSecretLeft
<1>1. TypeInv /\ SecretInv /\ [Next]_vars =>
        [\A p \in Providers :
           Known(p) /\ config[p].path /\ config'[p] = NoConfig =>
             p \notin vault \/ deletion[p] = "kept"]_apiVars
  <2> SUFFICES ASSUME TypeInv, SecretInv, [Next]_vars,
                      NEW p \in Providers, Known(p), config[p].path, config'[p] = NoConfig
               PROVE  p \notin vault \/ deletion[p] = "kept"
    OBVIOUS
  <2>1. BeingDeleted(p)
    BY Forgets DEF Known
  <2> QED
    BY <2>1 DEF SecretInv
<1> QED
  BY <1>1, TypeInit, TypeStep, SecretInit, SecretStep, PTL DEF Spec, NoSecretLeft

-----------------------------------------------------------------------------
(* The purge                                                               *)

(* Of a provider that was deleted while nobody was busy with it, or is     *)
(* being deleted so, nothing comes back behind the purge.                  *)
PurgeInv ==
  \A p \in Providers \ late :
    /\ ~Known(p) \/ BeingDeleted(p) => ~Busy(p)
    /\ ~Known(p) \/ (BeingDeleted(p) /\ api.pc # "jobs") => \A o \in open : o[1] # p
    /\ ~Known(p) \/ (BeingDeleted(p) /\ api.pc = "document") =>
         \A a \in Owned(p) : inv[a] = "none"

LEMMA PurgeInit == Init => PurgeInv
<1> SUFFICES ASSUME Init PROVE PurgeInv
  OBVIOUS
<1>1. BagToSet(queue) = {}
  BY DEF Init, ProvidersInit, BagToSet, EmptyBag, SetToBag
<1> QED
  BY <1>1 DEF Init, ProvidersInit, PurgeInv, Busy, Owned

(* A worker writes only of a provider it is busy with.                     *)
LEMMA WorkerTouches ==
  ASSUME TypeInv, NEW w \in Workers, Step(w)
  PROVE  /\ \A p \in Providers : Busy(p)' => Busy(p)
         /\ \A o \in open' : Busy(o[1]) \/ \E before \in open : before[1] = o[1]
         /\ \A a \in Assets : inv'[a] # "none" => inv[a] # "none" \/ Busy(Owner[a])
<1> USE DEF TypeInv
<1>1. run[w] # Idle => Busy(On(w))
  BY DEF Busy
<1>2. MovesRun(w) /\ KeepsMessages(w)
  BY WorkerMoves
<1>3. ASSUME NEW p \in Providers, Busy(p)' PROVE Busy(p)
  <2>1. CASE \E m \in BagToSet(queue') : m.provider = p
    BY <1>1, <1>2, <2>1 DEF KeepsMessages, Busy
  <2>2. CASE \E v \in Workers : run'[v] # Idle /\ On(v)' = p
    BY <1>1, <1>2, <2>2 DEF KeepsMessages, MovesRun, OthersKeep, Busy, On
  <2> QED
    BY <1>3, <2>1, <2>2 DEF Busy
<1>4. ASSUME NEW o \in open'
      PROVE  Busy(o[1]) \/ \E before \in open : before[1] = o[1]
  <2>1. CASE Complete(w) \/ Fail(w) \/ Crash(w)
    <3>1. run[w] # Idle /\ (open' \subseteq open \/ Abandon(w))
      BY <2>1 DEF Complete, Fail, Crash, CloseJob, At, Idle
    <3>2. o \in open \/ o = <<On(w), Dead>>
      BY <3>1 DEF Abandon
    <3> QED
      BY <1>1, <3>1, <3>2
  <2>2. ASSUME NEW m \in BagToSet(queue), Take(w, m)
        PROVE  o \in open \/ Busy(o[1])
    <3>1. o \in open \/ o = <<m.provider, w>>
      BY <2>2 DEF Take, Skip, Begin, StartJob
    <3> QED
      BY <3>1 DEF Busy
  <2>3. CASE open' = open
    BY <2>3
  <2>4. CASE Resolve(w) \/ List(w) \/ MarkStale(w) \/ Release(w) \/ Redeliver(w)
    BY <2>3, <2>4 DEF Resolve, List, MarkStale, Release, Redeliver, data
  <2> QED
    BY <2>1, <2>2, <2>4 DEF Step
<1>5. ASSUME NEW a \in Assets, inv'[a] # "none"
      PROVE  inv[a] # "none" \/ Busy(Owner[a])
  <2>1. CASE inv' = inv
    BY <1>5, <2>1
  <2>2. CASE List(w)
    <3>1. run[w] # Idle
      BY <2>2, AtBusy DEF List, Pcs
    <3>2. \A b \in Listing(w) : Owner[b] = On(w)
      BY DEF Listing, Reached, Owned
    <3>3. inv'[a] = inv[a] \/ a \in Listing(w)
      BY <2>2 DEF List, Upsert
    <3> QED
      BY <1>1, <1>5, <3>1, <3>2, <3>3
  <2>3. CASE MarkStale(w)
    BY <1>5, <2>3 DEF MarkStale
  <2>4. CASE \/ Resolve(w) \/ Complete(w) \/ Fail(w) \/ Release(w) \/ Crash(w) \/ Redeliver(w)
             \/ \E m \in BagToSet(queue) : Take(w, m)
    BY <2>1, <2>4 DEF Resolve, Complete, Fail, Release, Crash, Redeliver, Take, data
  <2> QED
    BY <2>2, <2>3, <2>4 DEF Step
<1> QED
  BY <1>3, <1>4, <1>5

LEMMA PurgeStep == TypeInv /\ PurgeInv /\ [Next]_vars => PurgeInv'
<1> SUFFICES ASSUME TypeInv, PurgeInv, [Next]_vars PROVE PurgeInv'
  OBVIOUS
<1> USE DEF TypeInv
<1>k. \A p \in Providers : ~Known(p)' => ~Known(p) \/ (DeleteDocument /\ BeingDeleted(p))
  BY Forgets
<1>b. UNCHANGED <<queue, run>> => \A p : Busy(p)' <=> Busy(p)
  BY DEF Busy, On
<1>1. ASSUME NEW w \in Workers, Step(w) PROVE PurgeInv'
  <2>1. UNCHANGED <<api, late>> /\ \A p \in Providers : Known(p)' <=> Known(p)
    BY <1>1, WorkerConfig DEF OnlyStatus
  <2>2. \A p \in Providers : BeingDeleted(p)' <=> BeingDeleted(p)
    BY <2>1 DEF BeingDeleted
  <2>3. /\ \A p \in Providers : Busy(p)' => Busy(p)
        /\ \A o \in open' : Busy(o[1]) \/ \E before \in open : before[1] = o[1]
        /\ \A a \in Assets : inv'[a] # "none" => inv[a] # "none" \/ Busy(Owner[a])
    BY <1>1, WorkerTouches
  <2> SUFFICES ASSUME NEW p \in Providers \ late
               PROVE  /\ ~Known(p) \/ BeingDeleted(p) => ~Busy(p)'
                      /\ ~Known(p) \/ (BeingDeleted(p) /\ api.pc # "jobs") =>
                           \A o \in open' : o[1] # p
                      /\ ~Known(p) \/ (BeingDeleted(p) /\ api.pc = "document") =>
                           \A a \in Owned(p) : inv'[a] = "none"
    BY <2>1, <2>2 DEF PurgeInv, Owned
  <2> QED
    BY <2>3 DEF PurgeInv, Owned
<1>2. ASSUME UNCHANGED <<late, open, inv, run>>,
             \A p \in Providers : ~BeingDeleted(p)',
             \A p \in Providers : ~Known(p)' => ~Known(p) /\ (Busy(p)' => Busy(p))
      PROVE  PurgeInv'
  BY <1>2 DEF PurgeInv, Owned
<1>3. ASSUME NEW q \in Providers, Request(q), UNCHANGED <<cloud, workers>> PROVE PurgeInv'
  <2>1. UNCHANGED <<late, open, inv, run>> /\ api = Quiet
    BY <1>3 DEF Request, Register, SetEnabled, StoreSecret, TestConnection, Discover, Ask, workers
  <2>2. api' = Quiet \/ api' = [pc |-> "stamp", provider |-> q]
    BY <1>3, <2>1, Dispatched
       DEF Request, Register, SetEnabled, StoreSecret, TestConnection, Discover
  <2>3. \A p \in Providers : ~BeingDeleted(p) /\ ~BeingDeleted(p)'
    BY <2>1, <2>2 DEF BeingDeleted, Deleting, Quiet
  <2>4. queue' = queue \/ \E r \in Providers :
          BagToSet(queue') \subseteq BagToSet(queue) \cup {Message(r)} /\ Known(r)'
    BY <1>3, RequestQueue DEF Requests
  <2>5. \A p \in Providers : ~Known(p)' => (Busy(p)' => Busy(p))
    <3>1. CASE queue' = queue
      BY <1>b, <2>1, <3>1
    <3>2. ASSUME NEW r \in Providers, Known(r)',
                 BagToSet(queue') \subseteq BagToSet(queue) \cup {Message(r)}
          PROVE  \A p \in Providers : ~Known(p)' => (Busy(p)' => Busy(p))
      <4>1. Message(r).provider = r
        BY DEF Message
      <4> QED
        BY <2>1, <3>2, <4>1 DEF Busy, On
    <3> QED
      BY <2>4, <3>1, <3>2
  <2> QED
    BY <1>2, <1>k, <2>1, <2>3, <2>5
<1>4. CASE Stamp /\ UNCHANGED <<cloud, workers>>
  <2>1. /\ UNCHANGED <<late, open, inv, run, queue>>
        /\ api.pc = "stamp" /\ api' = Quiet
    BY <1>4 DEF Stamp, workers
  <2>2. \A p \in Providers : ~BeingDeleted(p) /\ ~BeingDeleted(p)'
    BY <2>1 DEF BeingDeleted, Deleting, Quiet
  <2> QED
    BY <1>2, <1>b, <1>k, <2>1, <2>2
<1>5. CASE PurgeJobs /\ UNCHANGED <<cloud, workers>>
  <2>1. /\ UNCHANGED <<late, inv, run, queue, config>> /\ api.pc = "jobs"
        /\ \/ api' = [api EXCEPT !.pc = "vertices"] /\ open' = {o \in open : o[1] # api.provider}
           \/ api' = Quiet /\ open' = open
    BY <1>5 DEF PurgeJobs, Purging, Proceed, Broken, workers
  <2>2. CASE api' = Quiet /\ open' = open
    <3>1. \A p \in Providers : ~BeingDeleted(p)'
      BY <2>2 DEF BeingDeleted, Deleting, Quiet
    <3> QED
      BY <1>2, <1>b, <2>1, <2>2, <3>1 DEF Known
  <2>3. CASE api' = [api EXCEPT !.pc = "vertices"] /\ open' = {o \in open : o[1] # api.provider}
    <3>1. api'.pc = "vertices" /\ api'.provider = api.provider
      BY <2>1, <2>3 DEF ConfigOK, Quiet
    <3>2. \A p \in Providers : BeingDeleted(p)' <=> BeingDeleted(p)
      BY <2>1, <3>1 DEF BeingDeleted, Deleting
    <3>3. \A p \in Providers : BeingDeleted(p) => p = api.provider
      BY DEF BeingDeleted
    <3> QED
      BY <1>b, <2>1, <2>3, <3>1, <3>2, <3>3 DEF PurgeInv, Known, Owned
  <2> QED
    BY <2>1, <2>2, <2>3
<1>6. CASE PurgeVertices /\ UNCHANGED <<cloud, workers>>
  <2>1. /\ UNCHANGED <<late, open, run, queue, config>> /\ api.pc = "vertices"
        /\ \/ /\ api' = [api EXCEPT !.pc = "document"]
              /\ inv' = [a \in Assets |-> IF Owner[a] = api.provider THEN "none" ELSE inv[a]]
           \/ api' = Quiet /\ inv' = inv
    BY <1>6 DEF PurgeVertices, Purging, Proceed, Broken, workers
  <2>2. CASE api' = Quiet /\ inv' = inv
    <3>1. \A p \in Providers : ~BeingDeleted(p)'
      BY <2>2 DEF BeingDeleted, Deleting, Quiet
    <3> QED
      BY <1>2, <1>b, <2>1, <2>2, <3>1 DEF Known
  <2>3. CASE /\ api' = [api EXCEPT !.pc = "document"]
             /\ inv' = [a \in Assets |-> IF Owner[a] = api.provider THEN "none" ELSE inv[a]]
    <3>1. api'.pc = "document" /\ api'.provider = api.provider
      BY <2>1, <2>3 DEF ConfigOK, Quiet
    <3>2. \A p \in Providers : BeingDeleted(p)' <=> BeingDeleted(p)
      BY <2>1, <3>1 DEF BeingDeleted, Deleting
    <3>3. \A p \in Providers : BeingDeleted(p) => p = api.provider
      BY DEF BeingDeleted
    <3> QED
      BY <1>b, <2>1, <2>3, <3>1, <3>2, <3>3 DEF PurgeInv, Known, Owned
  <2> QED
    BY <2>1, <2>2, <2>3
<1>7. CASE DeleteDocument /\ UNCHANGED <<cloud, workers>>
  <2>1. UNCHANGED <<late, open, inv, run, queue>> /\ api.pc = "document" /\ api' = Quiet
    BY <1>7 DEF DeleteDocument, Purging, workers
  <2>2. \A p \in Providers : ~BeingDeleted(p)'
    BY <2>1 DEF BeingDeleted, Deleting, Quiet
  <2>3. \A p \in Providers : ~Known(p)' => ~Known(p) \/ BeingDeleted(p)
    BY <1>k
  <2> QED
    BY <1>b, <2>1, <2>2, <2>3 DEF PurgeInv, Owned
<1>8. ASSUME NEW q \in Providers, DeleteBegin(q, Busy(q)), UNCHANGED <<cloud, workers>>
      PROVE  PurgeInv'
  <2>1. /\ UNCHANGED <<config, queue, inv, open, run>> /\ Known(q)
        /\ api' = [pc |-> "jobs", provider |-> q]
        /\ late' = IF Busy(q) THEN late \cup {q} ELSE late \ {q}
    BY <1>8 DEF DeleteBegin, workers
  <2>2. \A p \in Providers : BeingDeleted(p)' <=> p = q
    BY <2>1 DEF BeingDeleted, Deleting
  <2>3. \A p \in Providers \ late' : (p = q /\ ~Busy(q)) \/ (p # q /\ p \notin late)
    BY <2>1
  <2> QED
    BY <1>b, <2>1, <2>2, <2>3 DEF PurgeInv, Known, Owned
<1>9. CASE Expire \/ (\E a \in Assets : Change(a)) \/ UNCHANGED vars
  <2>1. UNCHANGED <<config, api, late, queue, run, open, inv>>
    BY <1>9 DEF Expire, Change, vars, apiVars, workers
  <2> QED
    BY <1>b, <2>1 DEF PurgeInv, Known, BeingDeleted, Owned
<1> QED
  BY <1>1, <1>3, <1>4, <1>5, <1>6, <1>7, <1>8, <1>9 DEF Next, Requests

(* A deleted provider leaves no job document and no vertex behind, unless  *)
(* it was being discovered when its deletion began.                        *)
THEOREM PurgesAreFinal == Spec => []PurgeIsFinal
<1>1. PurgeInv => PurgeIsFinal
  BY DEF PurgeInv, PurgeIsFinal
<1> QED
  BY <1>1, TypeInit, TypeStep, PurgeInit, PurgeStep, PTL DEF Spec

-----------------------------------------------------------------------------
(* The mirror                                                              *)

Mine(w) == (Owned(On(w)) \cap cloud) \ Foreign

(* A discovery with its own secret, in whose provider nothing has changed, *)
(* has seen what there is of the types it has listed, and that is active.  *)
Undisturbed(w) ==
  /\ run[w] # Idle /\ (At(w, "list") \/ At(w, "stale"))
  /\ run[w].own /\ On(w) \in calm

SeesOwn(w) ==
  /\ run[w].seen = {a \in Mine(w) : TypeOf[a] < run[w].next}
  /\ \A a \in run[w].seen : inv[a] = "active"
  /\ At(w, "stale") => run[w].next = Types + 1

MirrorInv == ~overrun => \A w \in Workers : Undisturbed(w) => SeesOwn(w)

LEMMA MirrorInit == Init => MirrorInv
BY DEF Init, MirrorInv, Undisturbed

(* What keeps a worker's view right while its run is as it was.            *)
LEMMA ViewKept ==
  ASSUME TypeInv, NEW v \in Workers, Undisturbed(v) => SeesOwn(v),
         run'[v] = run[v],
         \/ UNCHANGED <<cloud, inv>> /\ calm' \subseteq calm
         \/ \E p \in Providers :
              /\ calm' = calm \ {p}
              /\ \A a \in Assets : Owner[a] # p => inv'[a] = inv[a]
              /\ \A a \in Assets : Owner[a] # p => (a \in cloud' <=> a \in cloud)
  PROVE  Undisturbed(v)' => SeesOwn(v)'
<1> SUFFICES ASSUME Undisturbed(v)' PROVE SeesOwn(v)'
  OBVIOUS
<1>1. Undisturbed(v) /\ On(v)' = On(v) /\ On(v) \in calm'
  BY DEF Undisturbed, At, On
<1>2. \A a \in Owned(On(v)) : inv'[a] = inv[a] /\ (a \in cloud' <=> a \in cloud)
  BY <1>1 DEF Owned
<1>3. Mine(v)' = Mine(v)
  BY <1>1, <1>2 DEF Mine, Owned
<1>4. run[v].seen \subseteq Owned(On(v))
  BY <1>1 DEF SeesOwn, Mine
<1> QED
  BY <1>1, <1>2, <1>3, <1>4 DEF SeesOwn, At

LEMMA MirrorStep == TypeInv /\ LockInv /\ MirrorInv /\ [Next]_vars => MirrorInv'
<1> SUFFICES ASSUME TypeInv, LockInv, MirrorInv, [Next]_vars, ~overrun'
             PROVE  \A v \in Workers : Undisturbed(v)' => SeesOwn(v)'
  BY DEF MirrorInv
<1> USE DEF TypeInv
<1>1. ASSUME ~overrun, run' = run,
             \/ UNCHANGED <<cloud, inv>> /\ calm' \subseteq calm
             \/ \E p \in Providers :
                  /\ calm' = calm \ {p}
                  /\ \A a \in Assets : Owner[a] # p => inv'[a] = inv[a]
                  /\ \A a \in Assets : Owner[a] # p => (a \in cloud' <=> a \in cloud)
      PROVE  \A v \in Workers : Undisturbed(v)' => SeesOwn(v)'
  BY <1>1, ViewKept DEF MirrorInv
<1>2. ASSUME ~overrun, NEW w \in Workers, run[w] # Idle, OthersKeep(w),
             Undisturbed(w)' => SeesOwn(w)'
      PROVE  \A v \in Workers : Undisturbed(v)' => SeesOwn(v)'
  <2>1. \A v \in Workers \ {w} : run[v] = Idle
    BY <1>2 DEF LockInv
  <2> QED
    BY <1>2, <2>1 DEF OthersKeep, Undisturbed
<1>3. ASSUME NEW w \in Workers, Resolve(w)
      PROVE  \A v \in Workers : Undisturbed(v)' => SeesOwn(v)'
  <2>1. /\ ~overrun /\ run[w] # Idle /\ OthersKeep(w)
        /\ run'[w].pc = "list" /\ run'[w].next = 1 /\ run'[w].seen = {}
    BY <1>3, Works, Resolves
  <2>2. {a \in Mine(w)' : TypeOf[a] < 1} = {}
    BY DEF Mine, Owned
  <2>3. SeesOwn(w)'
    BY <2>1, <2>2 DEF SeesOwn, At
  <2> QED
    BY <1>2, <2>1, <2>3
<1>4. ASSUME NEW w \in Workers, List(w)
      PROVE  \A v \in Workers : Undisturbed(v)' => SeesOwn(v)'
  <2>1. ~overrun /\ run[w] # Idle /\ OthersKeep(w) /\ At(w, "list") /\ cloud' = cloud
    BY <1>4, Works DEF List
  <2>2. PICK missed \in MayMiss(w) :
          /\ missed = {} \/ calm' = calm \ {On(w)}
          /\ missed = {} => calm' = calm
          /\ Upsert(Listing(w) \ missed)
          /\ run' = [run EXCEPT ![w] =
                      [@ EXCEPT !.seen = run[w].seen \cup (Listing(w) \ missed),
                                !.next = run[w].next + 1,
                                !.pc = IF Listed(w) THEN "stale" ELSE "list"]]
    BY <1>4 DEF List
  <2>3. /\ run'[w].pc = IF Listed(w) THEN "stale" ELSE "list"
        /\ run'[w].msg = run[w].msg /\ run'[w].own = run[w].own
        /\ run'[w].next = run[w].next + 1
        /\ run'[w].seen = run[w].seen \cup (Listing(w) \ missed)
    BY <1>4, <2>2, Lists
  <2>4. On(w)' = On(w) /\ run[w].next \in 1..Types
    BY <2>1, <2>3 DEF On, RunsOK
  <2> SUFFICES ASSUME Undisturbed(w)' PROVE SeesOwn(w)'
    BY <1>2, <2>1
  <2>5. missed = {} /\ calm' = calm
    BY <2>2, <2>4 DEF Undisturbed
  <2>6. Undisturbed(w) /\ run[w].own
    BY <2>1, <2>3, <2>4, <2>5 DEF Undisturbed
  <2>7. SeesOwn(w)
    BY <2>1, <2>6 DEF MirrorInv
  <2>8. Listing(w) = {a \in Mine(w) : TypeOf[a] = run[w].next}
    BY <2>6 DEF Listing, Reached, Visible, OfType, Mine, Owned
  <2>9. Mine(w)' = Mine(w)
    BY <2>1, <2>4 DEF Mine, Owned
  <2>10. run'[w].seen = {a \in Mine(w) : TypeOf[a] < run[w].next + 1}
    <3>1. \A a \in Mine(w) : TypeOf[a] < run[w].next + 1 <=>
                               TypeOf[a] < run[w].next \/ TypeOf[a] = run[w].next
      BY <2>4 DEF Mine, Owned
    <3> QED
      BY <2>3, <2>5, <2>7, <2>8, <3>1 DEF SeesOwn
  <2>11. \A a \in run'[w].seen : inv'[a] = "active"
    <3>1. \A a \in Assets : inv'[a] = IF a \in Listing(w) THEN "active" ELSE inv[a]
      BY <2>2, <2>5 DEF Upsert
    <3>2. run'[w].seen \subseteq Assets
      BY <2>10 DEF Mine, Owned
    <3> QED
      BY <2>3, <2>5, <2>7, <3>1, <3>2 DEF SeesOwn
  <2>12. At(w, "stale")' => run'[w].next = Types + 1
    BY <2>3, <2>4 DEF At, Listed
  <2> QED
    BY <2>3, <2>9, <2>10, <2>11, <2>12 DEF SeesOwn
<1>5. ASSUME NEW w \in Workers, MarkStale(w) \/ Complete(w) \/ Fail(w)
      PROVE  \A v \in Workers : Undisturbed(v)' => SeesOwn(v)'
  <2>1. ~overrun /\ run[w] # Idle /\ OthersKeep(w)
    BY <1>5, Works
  <2>2. \E pc \in {"close", "release"} : GoTo(w, pc)
    BY <1>5 DEF MarkStale, Complete, Fail
  <2>3. ~Undisturbed(w)'
    BY <2>1, <2>2, Goes DEF Undisturbed, At, Pcs
  <2> QED
    BY <1>2, <2>1, <2>3
<1>6. ASSUME NEW w \in Workers, Release(w) \/ Crash(w)
      PROVE  \A v \in Workers : Undisturbed(v)' => SeesOwn(v)'
  <2>1. ~overrun /\ run[w] # Idle /\ OthersKeep(w) /\ run'[w] = Idle
    BY <1>6, Stops DEF Release, Crash, At, Idle
  <2>2. ~Undisturbed(w)'
    BY <2>1 DEF Undisturbed
  <2> QED
    BY <1>2, <2>1, <2>2
<1>7. ASSUME NEW w \in Workers, NEW m \in BagToSet(queue), Take(w, m)
      PROVE  \A v \in Workers : Undisturbed(v)' => SeesOwn(v)'
  <2>1. UNCHANGED <<cloud, inv, overrun>>
    BY <1>7 DEF Take
  <2>2. CASE run' = run /\ calm' = calm
    BY <1>1, <2>1, <2>2
  <2>3. CASE lock = Free /\ Begin(w, m)
    <3>1. \A v \in Workers : run[v] = Idle
      BY <2>1, <2>3, NoWorker DEF LockInv
    <3>2. run'[w].pc = "creds" /\ OthersKeep(w)
      <4>1. run'[w] = Begun(m) /\ OthersKeep(w)
        BY <2>3, Begins
      <4> QED
        BY <4>1 DEF Begun
    <3>3. \A v \in Workers : ~Undisturbed(v)'
      BY <3>1, <3>2 DEF OthersKeep, Undisturbed, At
    <3> QED
      BY <3>3
  <2> QED
    BY <1>7, <2>2, <2>3 DEF Take, Skip
<1>8. CASE Requests /\ UNCHANGED <<cloud, workers>>
  <2>1. CASE PurgeVertices
    <3>1. /\ api.provider \in Providers /\ calm' = calm \ {api.provider}
          /\ \A a \in Assets : Owner[a] # api.provider => inv'[a] = inv[a]
      BY <2>1 DEF PurgeVertices, Purging, ConfigOK, RestOK, Quiet
    <3> QED
      BY <1>1, <1>8, <3>1 DEF workers
  <2>2. CASE \/ \E p \in Providers : Request(p)
             \/ Stamp \/ PurgeJobs \/ DeleteDocument
    <3>1. UNCHANGED <<inv, calm>>
      BY <2>2 DEF Request, Register, SetEnabled, StoreSecret, TestConnection, Discover,
                  Stamp, PurgeJobs, DeleteDocument
    <3> QED
      BY <1>1, <1>8, <3>1 DEF workers
  <2> QED
    BY <1>8, <2>1, <2>2 DEF Requests
<1>9. CASE \/ \E p \in Providers : DeleteBegin(p, Busy(p)) /\ UNCHANGED <<cloud, workers>>
           \/ \E w \in Workers : Redeliver(w)
           \/ UNCHANGED vars
  BY <1>1, <1>9 DEF DeleteBegin, Redeliver, workers, data, vars, apiVars
<1>10. CASE Expire
  BY <1>1, <1>10 DEF Expire
<1>11. ASSUME NEW a \in Assets, Change(a)
       PROVE  \A v \in Workers : Undisturbed(v)' => SeesOwn(v)'
  <2>1. /\ UNCHANGED <<run, inv, overrun>> /\ calm' = calm \ {Owner[a]}
        /\ \A b \in Assets : b # a => (b \in cloud' <=> b \in cloud)
    BY <1>11 DEF Change, workers
  <2> QED
    BY <1>1, <2>1
<1> QED
  BY <1>3, <1>4, <1>5, <1>6, <1>7, <1>8, <1>9, <1>10, <1>11 DEF Next, Step

(* Only marking what is stale takes a discovery from there to its end.     *)
LEMMA OnlyMarkStale ==
  ASSUME TypeInv, [Next]_vars, NEW w \in Workers, At(w, "stale"), run'[w].pc = "close"
  PROVE  MarkStale(w)
<1> USE DEF TypeInv
<1>1. run'[w] # run[w] /\ run[w] # Idle
  BY AtBusy DEF At, Pcs
<1>2. ASSUME NEW v \in Workers, Step(v) PROVE MarkStale(w)
  <2>1. v = w
    BY <1>1, <1>2, WorkerMoves DEF MovesRun, OthersKeep
  <2>2. CASE Fail(w) \/ Complete(w)
    BY <2>2, Goes, <1>1 DEF Fail, Complete, Pcs
  <2>3. CASE Release(w) \/ Crash(w)
    BY <2>3, Stops DEF Release, Crash, Idle
  <2>4. CASE Resolve(w) \/ List(w) \/ Redeliver(w) \/ \E m \in BagToSet(queue) : Take(w, m)
    BY <1>1, <2>4 DEF Resolve, List, Redeliver, Take, workers, At
  <2> QED
    BY <1>2, <2>1, <2>2, <2>3, <2>4 DEF Step
<1>3. CASE run' = run
  BY <1>1, <1>3
<1>4. CASE Expire \/ (\E a \in Assets : Change(a)) \/ UNCHANGED vars
  BY <1>3, <1>4 DEF Expire, Change, vars, workers
<1> QED
  BY <1>2, <1>3, <1>4 DEF Next, workers

(* A discovery with its own secret, in whose provider nothing changes      *)
(* meanwhile, leaves active what its provider has, whatever other accounts *)
(* have written before.                                                    *)
THEOREM DiscoveriesMirror == Spec => DiscoveryMirrorsCloud
<1>1. TypeInv /\ MirrorInv /\ [Next]_vars =>
        [\A w \in Workers :
           At(w, "stale") /\ run'[w].pc = "close" /\ run[w].own /\ On(w) \in calm /\ ~overrun =>
             \A a \in Owned(On(w)) : inv'[a] = "active" <=> a \in cloud \ Foreign]_vars
  <2> SUFFICES ASSUME TypeInv, MirrorInv, [Next]_vars, NEW w \in Workers,
                      At(w, "stale"), run'[w].pc = "close", run[w].own, On(w) \in calm, ~overrun,
                      NEW a \in Owned(On(w))
               PROVE  inv'[a] = "active" <=> a \in cloud \ Foreign
    OBVIOUS
  <2>1. MarkStale(w)
    BY OnlyMarkStale
  <2>2. SeesOwn(w)
    BY AtBusy DEF MirrorInv, Undisturbed, Pcs
  <2>3. a \in Assets /\ TypeOf[a] < Types + 1
    BY DEF Owned
  <2>4. a \in run[w].seen <=> a \in cloud \ Foreign
    BY <2>2, <2>3 DEF SeesOwn, Mine
  <2>5. inv'[a] = IF inv[a] = "active" /\ a \notin run[w].seen THEN "deleted" ELSE inv[a]
    BY <2>1, <2>3 DEF MarkStale
  <2>6. a \in run[w].seen => inv[a] = "active"
    BY <2>2 DEF SeesOwn
  <2> QED
    BY <2>4, <2>5, <2>6
<1> QED
  BY <1>1, TypeInit, TypeStep, LockInit, LockStep, MirrorInit, MirrorStep, PTL
     DEF Spec, DiscoveryMirrorsCloud

=============================================================================
