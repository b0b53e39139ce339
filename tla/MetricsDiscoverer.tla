------------------------- MODULE MetricsDiscoverer -------------------------
(***************************************************************************)
(* The controller metrics of internal/k8s/metrics.go: GET /kro/metrics     *)
(* finds the kro pod of a cluster, remembers it in the PodRefCache, and    *)
(* scrapes it through the API server's pod proxy.                          *)
(*                                                                         *)
(* A poll of the active context reads the factory three times, for the     *)
(* client that discovers, the config that scrapes and the cache key, so a  *)
(* context switch can make the three differ.  Pods are told apart by their *)
(* cluster and a number: a restarted pod has a new name.  The field stored *)
(* of a reference is history.                                              *)
(*                                                                         *)
(* The second MetricsDiscoverer, of the /fleet/summary handler, never      *)
(* scrapes: its cache stays empty and its hook changes nothing.            *)
(***************************************************************************)
EXTENDS ClientFactory

CONSTANTS
  Polls,         (* Goroutines serving GET /kro/metrics.                   *)
  MaxRestarts    (* Bound: the pods a cluster has had.                     *)

ASSUME PollAssumption == MaxRestarts \in Nat

VARIABLES
  pod,      (* Per cluster: its kro pod by number, 0 as long as it has none. *)
  refs,     (* The PodRefCache: per context a reference, NoRef for none.   *)
  pc,       (* Per poll: how far it has come.                              *)
  dyn,      (* Per poll: the cluster of its dynamic client.                *)
  cfg,      (* Per poll: the cluster of its REST config.                   *)
  key,      (* Per poll: its cache key.                                    *)
  ref,      (* Per poll: the pod it scrapes.                               *)
  retried,  (* Per poll: has it used its one retry?                        *)
  reply     (* Per poll: how its last request was answered.                *)

pollVars == <<pc, dyn, cfg, key, ref, retried, reply>>
metricsVars == <<pod, refs, pollVars>>
vars == <<factoryVars, metricsVars>>

Refs == [of : Contexts, pod : Nat, expired : BOOLEAN, stored : Nat]
NoRef == [of |-> NoContext, pod |-> 0, expired |-> TRUE, stored |-> 0]

Steps == {"idle", "config", "key", "lookup", "discover", "set", "scrape", "invalidate"}
Replies == {"none", "metrics", "nulls", "podNotFound", "failed"}

TypeOK ==
  /\ FactoryTypeOK
  /\ pod \in [Contexts -> Nat]
  /\ refs \in [Contexts -> Refs \union {NoRef}]
  /\ pc \in [Polls -> Steps]
  /\ dyn \in [Polls -> Contexts \union {NoContext}]
  /\ cfg \in [Polls -> Contexts \union {NoContext}]
  /\ key \in [Polls -> Contexts \union {NoContext}]
  /\ ref \in [Polls -> Refs \union {NoRef}]
  /\ retried \in [Polls -> BOOLEAN]
  /\ reply \in [Polls -> Replies]

Init ==
  /\ FactoryInit
  /\ pod \in [Contexts -> {0, 1}]
  /\ refs = [c \in Contexts |-> NoRef]
  /\ pc = [p \in Polls |-> "idle"]
  /\ dyn = [p \in Polls |-> NoContext]
  /\ cfg = [p \in Polls |-> NoContext]
  /\ key = [p \in Polls |-> NoContext]
  /\ ref = [p \in Polls |-> NoRef]
  /\ retried = [p \in Polls |-> FALSE]
  /\ reply = [p \in Polls |-> "none"]
-----------------------------------------------------------------------------
(* GetMetrics and ScrapeMetrics without ?context=: Dynamic().              *)
ReadDynamic(p) ==
  /\ pc[p] = "idle"
  /\ pc' = [pc EXCEPT ![p] = "config"]
  /\ dyn' = [dyn EXCEPT ![p] = active]
  /\ reply' = [reply EXCEPT ![p] = "none"]
  /\ UNCHANGED <<factoryVars, pod, refs, cfg, key, ref, retried>>

(* RESTConfig()                                                            *)
ReadConfig(p) ==
  /\ pc[p] = "config"
  /\ pc' = [pc EXCEPT ![p] = "key"]
  /\ cfg' = [cfg EXCEPT ![p] = active]
  /\ UNCHANGED <<factoryVars, pod, refs, dyn, key, ref, retried, reply>>

(* ActiveContext()                                                         *)
ReadKey(p) ==
  /\ pc[p] = "key"
  /\ pc' = [pc EXCEPT ![p] = "lookup"]
  /\ key' = [key EXCEPT ![p] = active]
  /\ UNCHANGED <<factoryVars, pod, refs, dyn, cfg, ref, retried, reply>>

(* With ?context=c all three are built for c.  A name that is not in the   *)
(* kubeconfig is answered 404, without a change of state; without a        *)
(* kubeconfig no client can be built.                                      *)
BuildForContext(p, c) ==
  /\ pc[p] = "idle"
  /\ ~InCluster
  /\ pc' = [pc EXCEPT ![p] = "lookup"]
  /\ dyn' = [dyn EXCEPT ![p] = c]
  /\ cfg' = [cfg EXCEPT ![p] = c]
  /\ key' = [key EXCEPT ![p] = c]
  /\ reply' = [reply EXCEPT ![p] = "none"]
  /\ UNCHANGED <<factoryVars, pod, refs, ref, retried>>

(* Poll p is answered with r.                                              *)
Ends(p, r) ==
  /\ pc' = [pc EXCEPT ![p] = "idle"]
  /\ dyn' = [dyn EXCEPT ![p] = NoContext]
  /\ cfg' = [cfg EXCEPT ![p] = NoContext]
  /\ key' = [key EXCEPT ![p] = NoContext]
  /\ ref' = [ref EXCEPT ![p] = NoRef]
  /\ retried' = [retried EXCEPT ![p] = FALSE]
  /\ reply' = [reply EXCEPT ![p] = r]

(* PodRefCache.get                                                         *)
Lookup(p) ==
  /\ pc[p] = "lookup"
  /\ IF refs[key[p]].expired
     THEN /\ pc' = [pc EXCEPT ![p] = "discover"]
          /\ UNCHANGED ref
     ELSE /\ pc' = [pc EXCEPT ![p] = "scrape"]
          /\ ref' = [ref EXCEPT ![p] = refs[key[p]]]
  /\ UNCHANGED <<factoryVars, pod, refs, dyn, cfg, key, retried, reply>>

(* A wrong discoverKroPod, to test the properties: on the retry it takes   *)
(* what another poll has cached meanwhile.                                 *)
DiscoverCached(p) ==
  /\ pc[p] = "discover"
  /\ pod[dyn[p]] > 0
  /\ pc' = [pc EXCEPT ![p] = "set"]
  /\ ref' = [ref EXCEPT ![p] =
               IF retried[p] /\ ~refs[key[p]].expired THEN refs[key[p]]
               ELSE [of |-> dyn[p], pod |-> pod[dyn[p]], expired |-> FALSE, stored |-> 0]]
  /\ UNCHANGED <<factoryVars, pod, refs, dyn, cfg, key, retried, reply>>

(* discoverKroPod lists pods with the dynamic client and picks one.        *)
Discover(p) ==
  /\ pc[p] = "discover"
  /\ pod[dyn[p]] > 0
  /\ pc' = [pc EXCEPT ![p] = "set"]
  /\ ref' = [ref EXCEPT ![p] = [of |-> dyn[p], pod |-> pod[dyn[p]],
                                expired |-> FALSE, stored |-> 0]]
  /\ UNCHANGED <<factoryVars, pod, refs, dyn, cfg, key, retried, reply>>

(* It finds none, or every list fails, which it does not tell apart: 200   *)
(* without a single figure.                                                *)
DiscoverNothing(p) ==
  /\ pc[p] = "discover"
  /\ Ends(p, "nulls")
  /\ UNCHANGED <<factoryVars, pod, refs>>

(* PodRefCache.set: whatever is there is overwritten.                      *)
SetRef(p) ==
  /\ pc[p] = "set"
  /\ refs' = [refs EXCEPT ![key[p]] = [ref[p] EXCEPT !.stored = epoch]]
  /\ pc' = [pc EXCEPT ![p] = "scrape"]
  /\ UNCHANGED <<factoryVars, pod, dyn, cfg, key, ref, retried, reply>>

(* Does the cluster of p's REST config have the pod p scrapes?             *)
PodThere(p) == ref[p].of = cfg[p] /\ ref[p].pod = pod[cfg[p]]

Scraped(p) ==
  /\ pc[p] = "scrape"
  /\ PodThere(p)
  /\ Ends(p, "metrics")
  /\ UNCHANGED <<factoryVars, pod, refs>>

(* 404 from the proxy, for the first time.                                 *)
PodNotFound(p) ==
  /\ pc[p] = "scrape"
  /\ ~PodThere(p)
  /\ ~retried[p]
  /\ pc' = [pc EXCEPT ![p] = "invalidate"]
  /\ UNCHANGED <<factoryVars, pod, refs, dyn, cfg, key, ref, retried, reply>>

(* PodRefCache.invalidate, and the poll discovers once more.               *)
Invalidate(p) ==
  /\ pc[p] = "invalidate"
  /\ refs' = [refs EXCEPT ![key[p]] = NoRef]
  /\ pc' = [pc EXCEPT ![p] = "discover"]
  /\ ref' = [ref EXCEPT ![p] = NoRef]
  /\ retried' = [retried EXCEPT ![p] = TRUE]
  /\ UNCHANGED <<factoryVars, pod, dyn, cfg, key, reply>>

(* 404 after the retry is passed on: 502.                                  *)
StillNotFound(p) ==
  /\ pc[p] = "scrape"
  /\ ~PodThere(p)
  /\ retried[p]
  /\ Ends(p, "podNotFound")
  /\ UNCHANGED <<factoryVars, pod, refs>>

(* Any other failure of the scrape: a timeout, no connection, another      *)
(* status.                                                                 *)
ScrapeFails(p) ==
  /\ pc[p] = "scrape"
  /\ Ends(p, "failed")
  /\ UNCHANGED <<factoryVars, pod, refs>>
-----------------------------------------------------------------------------
(* Around the polls: a reference passes its expiry; the kro pod of a       *)
(* cluster starts or is replaced; the active context is switched.          *)
Expires(c) ==
  /\ ~refs[c].expired
  /\ refs' = [refs EXCEPT ![c].expired = TRUE]
  /\ UNCHANGED <<factoryVars, pod, pollVars>>

PodRestarts(c) ==
  /\ pod[c] < MaxRestarts
  /\ pod' = [pod EXCEPT ![c] = @ + 1]
  /\ UNCHANGED <<factoryVars, refs, pollVars>>

Swap(s, c) ==
  /\ Load(s, c)
  /\ UNCHANGED metricsVars

SwitchRefused(s, name) ==
  /\ RefuseSwitch(s, name)
  /\ UNCHANGED metricsVars

(* A wrong hook, to test the properties: only the old context's reference  *)
(* is dropped.                                                             *)
InvalidateOthers(s) ==
  /\ RanHook(s, PodRefHook)
  /\ refs' = [c \in Contexts |-> IF c = target[s] THEN refs[c] ELSE NoRef]
  /\ UNCHANGED <<pod, pollVars>>

(* PodRefCache.invalidateAll, as a context-switch hook.                    *)
InvalidateAll(s) ==
  /\ RanHook(s, PodRefHook)
  /\ refs' = [c \in Contexts |-> NoRef]
  /\ UNCHANGED <<pod, pollVars>>

OtherHook(s) ==
  /\ \E h \in {FlushHook, FleetPodRefHook} : RanHook(s, h)
  /\ UNCHANGED metricsVars
-----------------------------------------------------------------------------
Proceed(p) ==
  \/ ReadConfig(p) \/ ReadKey(p) \/ Lookup(p)
  \/ Discover(p) \/ DiscoverNothing(p) \/ SetRef(p)
  \/ Scraped(p) \/ PodNotFound(p) \/ Invalidate(p) \/ StillNotFound(p) \/ ScrapeFails(p)

Next ==
  \/ \E p \in Polls : ReadDynamic(p) \/ Proceed(p)
  \/ \E p \in Polls, c \in Contexts : BuildForContext(p, c)
  \/ \E c \in Contexts : Expires(c) \/ PodRestarts(c)
  \/ \E s \in Switchers, c \in Contexts : Swap(s, c)
  \/ \E s \in Switchers, n \in Contexts \union UnknownNames : SwitchRefused(s, n)
  \/ \E s \in Switchers : InvalidateAll(s) \/ OtherHook(s)

Spec == Init /\ [][Next]_vars
-----------------------------------------------------------------------------
(***************************************************************************)
(* Properties.                                                             *)
(***************************************************************************)

(* Once every switch that swapped the clients has run the hook, every      *)
(* cached pod was stored after the latest swap, however switches overlap.  *)
RefsFromThisSwitch ==
  AllRan(PodRefHook) => \A c \in Contexts : refs[c] # NoRef => refs[c].stored = epoch

(* One retry is enough.  A poll whose client and config belong to one      *)
(* cluster is told "pod not found" only if the pod was replaced after the  *)
(* poll's second discovery: whatever other polls and switches do to the    *)
(* cache, a wrong or outdated reference costs it no more than the retry.   *)
HealedByOneRetry ==
  [][\A p \in Polls :
       reply[p] # "podNotFound" /\ reply'[p] = "podNotFound" /\ dyn[p] = cfg[p]
         => ref[p].of = cfg[p] /\ ref[p].pod < pod[cfg[p]]]_vars
-----------------------------------------------------------------------------
(***************************************************************************)
(* What makes them inductive.                                              *)
(***************************************************************************)

(* A poll knows its clusters from the step that reads them on.             *)
ClientsKnown ==
  \A p \in Polls :
    /\ pc[p] # "idle" => dyn[p] \in Contexts
    /\ pc[p] \notin {"idle", "config"} => cfg[p] \in Contexts
    /\ pc[p] \notin {"idle", "config", "key"} => key[p] \in Contexts

(* Once it has retried, a poll holds what it discovered itself.            *)
OwnRefAfterRetry ==
  \A p \in Polls :
    /\ retried[p] => pc[p] \in {"discover", "set", "scrape"}
    /\ pc[p] \in {"set", "scrape"} /\ (retried[p] \/ pc[p] = "set")
         => ref[p].of = dyn[p] /\ ref[p].pod <= pod[dyn[p]]

IndInv ==
  /\ TypeOK
  /\ RefsFromThisSwitch
  /\ ClientsKnown
  /\ OwnRefAfterRetry

=============================================================================
