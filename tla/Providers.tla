----------------------------- MODULE Providers -----------------------------
(***************************************************************************)
(* The cloud accounts (subscriptions, projects, clusters) a tenant has     *)
(* registered for one cloud: their configuration documents, their secrets  *)
(* in Vault, and the API that registers, changes, probes, dispatches and   *)
(* deletes them.  The tasks it dispatches are in Discovery, which extends  *)
(* this module and shares the inventory, the job documents and the status  *)
(* of the configuration with it.                                           *)
(*                                                                         *)
(* Source: services/provider_service.py, services/provider_health.py,      *)
(* services/vault_client.py and api/v1/providers.py.                       *)
(*                                                                         *)
(* One process serves the API and its handlers never await, so requests    *)
(* do not interleave with each other; with the workers they do, and the    *)
(* two requests that write more than one document in several calls, a      *)
(* dispatch and a deletion, are several steps.                             *)
(***************************************************************************)
EXTENDS Naturals, FiniteSets, Bags, BagsExt

CONSTANTS
  Providers,   \* the configuration keys
  Assets,      \* inventory keys
  Workers,     \* worker processes
  Owner,       \* the provider whose account or cluster name an asset carries
  MaxRequests, \* bound on the requests of a behaviour
  MaxQueue,    \* bound on the messages that wait
  MaxFaults    \* bound on failed calls, crashes, redeliveries and overruns

ASSUME ProvidersAssumption ==
  /\ Owner \in [Assets -> Providers]
  /\ MaxRequests \in Nat /\ MaxQueue \in Nat /\ MaxFaults \in Nat

VARIABLES
  config,   \* the tenant_config document of each provider
  vault,    \* the providers with a secret in Vault
  api,      \* the request that is under way
  asked,    \* requests so far
  queue,    \* the discovery messages that wait in the broker, a bag
  inv,      \* status of the inventory document of each asset
  open,     \* job documents in status running: provider and worker, or "dead"
  deletion, \* history: what a deletion did to the secret since it was stored
  late,     \* history: deleted while a discovery was queued or running
  calm,     \* history: being discovered, with nothing changed meanwhile
  faults    \* faults so far

apiVars == <<config, vault, api, asked, queue, inv, open, deletion, late, calm, faults>>

NoConfig == [status |-> "none"]
Statuses == {"pending", "active", "disabled", "error"}

(* path: names a secret in Vault; stamped: has a last_discovery_at.        *)
Config == [status : Statuses, enabled : BOOLEAN, path : BOOLEAN, stamped : BOOLEAN]

Registered(secret) ==
  [status |-> "pending", enabled |-> TRUE, path |-> secret, stamped |-> FALSE]

Dead == "dead"
Quiet == [pc |-> "quiet"]

Message(p) == [provider |-> p, try |-> 0]

ProvidersTypeOK ==
  /\ \A p \in Providers : config[p] = NoConfig \/ config[p] \in Config
  /\ vault \subseteq Providers
  /\ api = Quiet \/ api \in [pc : {"stamp", "jobs", "vertices", "document"}, provider : Providers]
  /\ asked \in 0..MaxRequests
  /\ \A m \in BagToSet(queue) : m.provider \in Providers
  /\ inv \in [Assets -> {"none", "active", "deleted"}]
  /\ open \subseteq Providers \X (Workers \cup {Dead})
  /\ deletion \in [Providers -> {"none", "begun", "kept"}]
  /\ late \subseteq Providers /\ calm \subseteq Providers
  /\ faults \in 0..MaxFaults

ProvidersInit ==
  /\ config = [p \in Providers |-> NoConfig]
  /\ vault = {}
  /\ api = Quiet
  /\ asked = 0
  /\ queue = EmptyBag
  /\ inv = [a \in Assets |-> "none"]
  /\ open = {}
  /\ deletion = [p \in Providers |-> "none"]
  /\ late = {}
  /\ calm = {}
  /\ faults = 0

Known(p) == config[p] # NoConfig
Owned(p) == {a \in Assets : Owner[a] = p}

(* A request begins; only one is under way.                                *)
Ask == api = Quiet /\ asked < MaxRequests /\ asked' = asked + 1

Fault == faults < MaxFaults /\ faults' = faults + 1
NoFault == UNCHANGED faults

(* The update of a configuration document fails when there is none.        *)
SetStatus(p, status) ==
  config' = IF Known(p) THEN [config EXCEPT ![p].status = status] ELSE config

(* store_credentials, load_credentials and destroy_credentials.            *)
Store(p) == vault' = vault \cup {p}
Loads(p) == p \in vault
Destroy(p) == vault' = vault \ {p}

-----------------------------------------------------------------------------
(* Registration, changes, probes                                           *)

(* _dispatch_discovery: the message goes first, the stamp follows; a send  *)
(* that fails leaves the configuration as it is.                           *)
Dispatch(p) ==
  \/ /\ BagCardinality(queue) < MaxQueue
     /\ queue' = BagAdd(queue, Message(p))
     /\ api' = [pc |-> "stamp", provider |-> p]
     /\ NoFault
  \/ /\ Fault
     /\ UNCHANGED <<queue, api>>

(* The secret of p is a new one, or the document names none any more.      *)
Fresh(p) == deletion' = [deletion EXCEPT ![p] = "none"]

(* Variant: the document is written although Vault did not take the secret. *)
RegisterWithoutStore(p, secret) ==
  /\ Ask
  /\ config' = [config EXCEPT ![p] = Registered(secret)]
  /\ Dispatch(p)
  /\ Fresh(p)
  /\ UNCHANGED <<vault, inv, open, late, calm>>

(* register_provider: the secret goes to Vault first; when that fails      *)
(* nothing is registered.  A new document replaces the old one, with the   *)
(* path of this request's secret: none, when the request has none.  The    *)
(* insert may fail after the secret was stored.                            *)
Register(p, secret) ==
  /\ Ask
  /\ IF secret THEN Store(p) ELSE UNCHANGED vault
  /\ \/ config' = [config EXCEPT ![p] = Registered(secret)] /\ Fresh(p) /\ Dispatch(p)
     \/ Fault /\ UNCHANGED <<config, deletion, queue, api>>
  /\ UNCHANGED <<inv, open, late, calm>>

(* The stamp says "active", whatever the worker has said since the send.   *)
Stamp ==
  /\ api.pc = "stamp"
  /\ \/ NoFault /\ config' = [config EXCEPT ![api.provider] =
                               [@ EXCEPT !.status = "active", !.stamped = TRUE]]
     \/ Fault /\ UNCHANGED config
  /\ api' = Quiet
  /\ UNCHANGED <<vault, asked, queue, inv, open, deletion, late, calm>>

(* update_provider with enabled: the status follows.                       *)
SetEnabled(p, enabled) ==
  /\ Ask /\ Known(p)
  /\ config' = [config EXCEPT ![p] =
                 [@ EXCEPT !.enabled = enabled,
                           !.status = IF enabled THEN "active" ELSE "disabled"]]
  /\ UNCHANGED <<vault, api, queue, inv, open, deletion, late, calm, faults>>

(* update_provider with secrets: Vault first, then the document; when the  *)
(* second fails the secret is there and the path may not be.               *)
StoreSecret(p) ==
  /\ Ask /\ Known(p)
  /\ Store(p)
  /\ \/ NoFault /\ config' = [config EXCEPT ![p].path = TRUE]
     \/ Fault /\ UNCHANGED config
  /\ Fresh(p)
  /\ UNCHANGED <<api, queue, inv, open, late, calm>>

(* run_connection_test: what the probe says becomes the status.            *)
TestConnection(p) ==
  /\ Ask /\ Known(p) /\ config[p].enabled
  /\ \E status \in {"active", "error"} : SetStatus(p, status)
  /\ UNCHANGED <<vault, api, queue, inv, open, deletion, late, calm, faults>>

(* POST /discover, for a provider that is enabled; a request that brings a *)
(* secret is a StoreSecret first.                                          *)
Discover(p) ==
  /\ Ask /\ Known(p) /\ config[p].enabled
  /\ Dispatch(p)
  /\ UNCHANGED <<config, vault, inv, open, deletion, late, calm>>

-----------------------------------------------------------------------------
(* Deletion                                                                *)

Purging(pc) == api.pc = pc

(* A purge query that fails ends the request: "not found", with the        *)
(* document still there.                                                   *)
Broken == Fault /\ api' = Quiet

Proceed(pc) == NoFault /\ api' = [api EXCEPT !.pc = pc]

(* Variant: the secret is left to the next registration.                   *)
DeleteBeginKeeping(p, busy) ==
  /\ Ask /\ Known(p)
  /\ api' = [pc |-> "jobs", provider |-> p]
  /\ deletion' = [deletion EXCEPT ![p] = "begun"]
  /\ late' = IF busy THEN late \cup {p} ELSE late \ {p}
  /\ UNCHANGED <<config, vault, queue, inv, open, calm, faults>>

(* delete_provider destroys the secret the document names, if it names     *)
(* one, and goes on when Vault refuses: then the secret is kept, unless an *)
(* earlier attempt has destroyed it.                                       *)
(* busy: a discovery of the provider is queued or running.                 *)
DeleteBegin(p, busy) ==
  /\ Ask /\ Known(p)
  /\ api' = [pc |-> "jobs", provider |-> p]
  /\ \/ /\ NoFault
        /\ IF config[p].path THEN Destroy(p) ELSE UNCHANGED vault
        /\ deletion' = [deletion EXCEPT ![p] = "begun"]
     \/ /\ Fault /\ config[p].path
        /\ UNCHANGED vault
        /\ deletion' = [deletion EXCEPT ![p] = IF Loads(p) THEN "kept" ELSE "begun"]
  /\ late' = IF busy THEN late \cup {p} ELSE late \ {p}
  /\ UNCHANGED <<config, queue, inv, open, calm>>

PurgeJobs ==
  /\ Purging("jobs")
  /\ \/ Proceed("vertices") /\ open' = {o \in open : o[1] # api.provider}
     \/ Broken /\ UNCHANGED open
  /\ UNCHANGED <<config, vault, asked, queue, inv, deletion, late, calm>>

(* Variant: what was deleted softly is overlooked.                         *)
PurgeActiveVertices ==
  /\ Purging("vertices")
  /\ \/ /\ Proceed("document")
        /\ inv' = [a \in Assets |->
             IF Owner[a] = api.provider /\ inv[a] = "active" THEN "none" ELSE inv[a]]
     \/ Broken /\ UNCHANGED inv
  /\ calm' = calm \ {api.provider}
  /\ UNCHANGED <<config, vault, asked, queue, open, deletion, late>>

(* _purge_provider_resources: every document with this cloud and account   *)
(* or cluster name, whatever its status.                                   *)
PurgeVertices ==
  /\ Purging("vertices")
  /\ \/ /\ Proceed("document")
        /\ inv' = [a \in Assets |-> IF Owner[a] = api.provider THEN "none" ELSE inv[a]]
     \/ Broken /\ UNCHANGED inv
  /\ calm' = calm \ {api.provider}
  /\ UNCHANGED <<config, vault, asked, queue, open, deletion, late>>

DeleteDocument ==
  /\ Purging("document")
  /\ api' = Quiet
  /\ \/ NoFault /\ config' = [config EXCEPT ![api.provider] = NoConfig] /\ Fresh(api.provider)
     \/ Fault /\ UNCHANGED <<config, deletion>>
  /\ UNCHANGED <<vault, asked, queue, inv, open, late, calm>>

Request(p) ==
  \/ \E secret \in BOOLEAN : Register(p, secret)
  \/ \E enabled \in BOOLEAN : SetEnabled(p, enabled)
  \/ StoreSecret(p) \/ TestConnection(p) \/ Discover(p)

Requests ==
  \/ \E p \in Providers : Request(p)
  \/ Stamp \/ PurgeJobs \/ PurgeVertices \/ DeleteDocument

-----------------------------------------------------------------------------
(* Properties                                                              *)

(* A configuration that names a secret has one, whichever request fails at *)
(* whichever of its writes, unless a deletion destroyed the secret and did *)
(* not get to the document: the provider is then listed without a secret   *)
(* until it is registered again, given a new one or deleted at last.       *)
PathLeadsToSecret ==
  \A p \in Providers : Known(p) /\ config[p].path => p \in vault \/ deletion[p] = "begun"

(* delete_provider destroys the secret "antes de remover o documento"      *)
(* (provider_service.py:490): once the document is gone, after as many     *)
(* attempts as the deletion took, the secret it named is gone too, unless  *)
(* Vault refused to destroy it in the attempt that removed the document.   *)
NoSecretLeft ==
  [][\A p \in Providers :
       Known(p) /\ config[p].path /\ config'[p] = NoConfig =>
         p \notin vault \/ deletion[p] = "kept"]_apiVars
=============================================================================
