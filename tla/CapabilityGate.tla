--------------------------- MODULE CapabilityGate ---------------------------
(***************************************************************************)
(* The detected capabilities of the active cluster's kro, which gate the   *)
(* one write of kro-ui: capCache and GetCapabilities                       *)
(* (internal/api/handlers/capabilities.go), the response cache in front of *)
(* GET /kro/capabilities (internal/server/server.go), and ApplyRGD         *)
(* (internal/api/handlers/rgds.go).                                        *)
(*                                                                         *)
(* Of the capabilities only the gate canApplyRGDs is kept.  It is read     *)
(* from the kro Deployment with the dynamic client; what the discovery     *)
(* client and the version fallback add is left out.  The response cache is *)
(* modelled in ResponseCache; here it is the one entry of this route.  One *)
(* RGD is applied.  refresh=true, which no page sends, is left out, since   *)
(* what it fetches is stored under a key of its own.  The fields epoch and *)
(* at and the variable loadedAt are history.                               *)
(***************************************************************************)
EXTENDS ClientFactory

CONSTANTS
  Enabled,       (* Contexts whose kro has the gate canApplyRGDs on.       *)
  Requests,      (* Goroutines serving GET /kro/capabilities.              *)
  Applies,       (* Goroutines serving POST /rgds/apply.                   *)
  CapTTL,        (* defaultCapabilitiesTTL.                                *)
  ResponseTTL,   (* ttlCapabilities.                                       *)
  MaxHandler,    (* Longest time a handler runs.                           *)
  MaxTime        (* Bound: when the clock stops.                           *)

ASSUME GateAssumption ==
  /\ Enabled \subseteq Contexts
  /\ Requests \cap Applies = {}
  /\ CapTTL \in Nat /\ ResponseTTL \in Nat /\ MaxHandler \in Nat /\ MaxTime \in Nat

VARIABLES
  now,        (* The clock.                                                *)
  capCache,   (* result and fetchedAt; NoCaps when result is nil.          *)
  response,   (* The response cache's entry of the route, NoCaps for none. *)
  pc,         (* Per handler: how far it has come.                         *)
  since,      (* Per handler: when its request arrived.                    *)
  caps,       (* Per request: the capabilities it has, or NoCaps.          *)
  notFound,   (* Per apply: did its Get say that the RGD does not exist?   *)
  reply,      (* Per apply: its last answer.                               *)
  exists,     (* The clusters that have the RGD.                           *)
  loadedAt    (* When the clients were last swapped.                       *)

handlerVars == <<pc, since, caps, notFound, reply>>
gateVars == <<now, capCache, response, handlerVars, exists, loadedAt>>
vars == <<factoryVars, gateVars>>

(* until: the last instant at which a cache still serves them.             *)
Capabilities == [gate : BOOLEAN, epoch : Nat, at : Nat, until : Nat, some : {TRUE}]
NoCaps == [gate |-> FALSE, epoch |-> 0, at |-> 0, until |-> 0, some |-> FALSE]

Handlers == Requests \union Applies
RequestSteps == {"idle", "capabilities", "detecting", "storing"}
ApplySteps == {"idle", "parse", "apply"}
Replies == {"none", "disabled", "notDetected", "failed", "created", "updated"}

TypeOK ==
  /\ FactoryTypeOK
  /\ now \in Nat
  /\ capCache \in Capabilities \union {NoCaps}
  /\ response \in Capabilities \union {NoCaps}
  /\ pc \in [Handlers -> RequestSteps \union ApplySteps]
  /\ since \in [Handlers -> Nat]
  /\ caps \in [Requests -> Capabilities \union {NoCaps}]
  /\ notFound \in [Applies -> BOOLEAN]
  /\ reply \in [Applies -> Replies]
  /\ exists \in SUBSET Contexts
  /\ loadedAt \in Nat

Init ==
  /\ FactoryInit
  /\ now = 0
  /\ capCache = NoCaps
  /\ response = NoCaps
  /\ pc = [h \in Handlers |-> "idle"]
  /\ since = [h \in Handlers |-> 0]
  /\ caps = [r \in Requests |-> NoCaps]
  /\ notFound = [a \in Applies |-> FALSE]
  /\ reply = [a \in Applies |-> "none"]
  /\ exists \in SUBSET Contexts
  /\ loadedAt = 0

(* A cache serves e: both caches compare with After, so the instant of     *)
(* expiry itself still counts.                                             *)
Fresh(e) == e.some /\ now <= e.until
-----------------------------------------------------------------------------
(***************************************************************************)
(* GET /kro/capabilities.                                                  *)
(***************************************************************************)

(* While the response cache answers, GetCapabilities is not called: such a *)
(* request changes nothing.                                                *)
ResponseMiss(r) ==
  /\ pc[r] = "idle"
  /\ ~Fresh(response)
  /\ pc' = [pc EXCEPT ![r] = "capabilities"]
  /\ since' = [since EXCEPT ![r] = now]
  /\ UNCHANGED <<factoryVars, now, capCache, response, caps, notFound, reply, exists,
                 loadedAt>>

(* GetCapabilities answers from capCache.                                  *)
CapCacheHit(r) ==
  /\ pc[r] = "capabilities"
  /\ Fresh(capCache)
  /\ pc' = [pc EXCEPT ![r] = "storing"]
  /\ caps' = [caps EXCEPT ![r] = capCache]
  /\ UNCHANGED <<factoryVars, now, capCache, response, since, notFound, reply, exists,
                 loadedAt>>

(* It takes the factory's client and asks the cluster.  If the kro group,  *)
(* the Deployment or its arguments are not found, or a call fails, the     *)
(* gate is off, as in the baseline.                                        *)
Detect(r) ==
  /\ pc[r] = "capabilities"
  /\ ~Fresh(capCache)
  /\ pc' = [pc EXCEPT ![r] = "detecting"]
  /\ \E gate \in {FALSE, (active \in Enabled)} :
       caps' = [caps EXCEPT ![r] = [gate |-> gate, epoch |-> epoch, at |-> now,
                                    until |-> now, some |-> TRUE]]
  /\ UNCHANGED <<factoryVars, now, capCache, response, since, notFound, reply, exists,
                 loadedAt>>

(* A wrong set, to test the properties: the response cache's time to live. *)
SetCapCacheLong(r) ==
  /\ pc[r] = "detecting"
  /\ pc' = [pc EXCEPT ![r] = "storing"]
  /\ capCache' = [caps[r] EXCEPT !.until = now + ResponseTTL]
  /\ UNCHANGED <<factoryVars, now, response, since, caps, notFound, reply, exists,
                 loadedAt>>

(* capCache.set: whatever was detected is cached, the baseline too, and    *)
(* whatever the active context is by now.                                  *)
SetCapCache(r) ==
  /\ pc[r] = "detecting"
  /\ pc' = [pc EXCEPT ![r] = "storing"]
  /\ capCache' = [caps[r] EXCEPT !.until = now + CapTTL]
  /\ UNCHANGED <<factoryVars, now, response, since, caps, notFound, reply, exists,
                 loadedAt>>

(* A wrong response cache, to test the properties: it stores for both      *)
(* times to live.                                                          *)
StoreResponseLong(r) ==
  /\ pc[r] = "storing"
  /\ pc' = [pc EXCEPT ![r] = "idle"]
  /\ since' = [since EXCEPT ![r] = 0]
  /\ response' = [caps[r] EXCEPT !.until = now + ResponseTTL + CapTTL]
  /\ caps' = [caps EXCEPT ![r] = NoCaps]
  /\ UNCHANGED <<factoryVars, now, capCache, notFound, reply, exists, loadedAt>>

(* 200, always: the response cache stores the answer.                      *)
StoreResponse(r) ==
  /\ pc[r] = "storing"
  /\ pc' = [pc EXCEPT ![r] = "idle"]
  /\ since' = [since EXCEPT ![r] = 0]
  /\ response' = [caps[r] EXCEPT !.until = now + ResponseTTL]
  /\ caps' = [caps EXCEPT ![r] = NoCaps]
  /\ UNCHANGED <<factoryVars, now, capCache, notFound, reply, exists, loadedAt>>
-----------------------------------------------------------------------------
(***************************************************************************)
(* POST /rgds/apply.                                                       *)
(***************************************************************************)
Answer(a, r) ==
  /\ pc' = [pc EXCEPT ![a] = "idle"]
  /\ since' = [since EXCEPT ![a] = 0]
  /\ notFound' = [notFound EXCEPT ![a] = FALSE]
  /\ reply' = [reply EXCEPT ![a] = r]
  /\ UNCHANGED <<factoryVars, now, capCache, response, caps, loadedAt>>

(* A wrong gate, to test the properties: expired capabilities will do.     *)
GateOpenStale(a) ==
  /\ pc[a] = "idle"
  /\ capCache.some
  /\ capCache.gate
  /\ pc' = [pc EXCEPT ![a] = "parse"]
  /\ since' = [since EXCEPT ![a] = now]
  /\ reply' = [reply EXCEPT ![a] = "none"]
  /\ UNCHANGED <<factoryVars, now, capCache, response, caps, notFound, exists,
                 loadedAt>>

(* The gate is checked once, first of all, in capCache.                    *)
GateOpen(a) ==
  /\ pc[a] = "idle"
  /\ Fresh(capCache)
  /\ capCache.gate
  /\ pc' = [pc EXCEPT ![a] = "parse"]
  /\ since' = [since EXCEPT ![a] = now]
  /\ reply' = [reply EXCEPT ![a] = "none"]
  /\ UNCHANGED <<factoryVars, now, capCache, response, caps, notFound, exists,
                 loadedAt>>

GateClosed(a) ==
  /\ pc[a] = "idle"
  /\ Fresh(capCache)
  /\ ~capCache.gate
  /\ Answer(a, "disabled")
  /\ UNCHANGED exists

NotDetected(a) ==
  /\ pc[a] = "idle"
  /\ ~Fresh(capCache)
  /\ Answer(a, "notDetected")
  /\ UNCHANGED exists

BodyInvalid(a) ==
  /\ pc[a] = "parse"
  /\ Answer(a, "failed")
  /\ UNCHANGED exists

(* The body, read to its end, is an RGD; then Get with Dynamic().  An      *)
(* error other than NotFound counts as "it exists".                        *)
GetRGD(a) ==
  /\ pc[a] = "parse"
  /\ pc' = [pc EXCEPT ![a] = "apply"]
  /\ \E said \in {FALSE, (active \notin exists)} :
       notFound' = [notFound EXCEPT ![a] = said]
  /\ UNCHANGED <<factoryVars, now, capCache, response, since, caps, reply, exists,
                 loadedAt>>

(* Apply with Dynamic(), called anew, and the answer is 201 or 200 by what *)
(* Get said.                                                               *)
ApplyRGD(a) ==
  /\ pc[a] = "apply"
  /\ exists' = exists \union {active}
  /\ Answer(a, IF notFound[a] THEN "created" ELSE "updated")

(* Apply fails: refused, unreachable or timed out, and in the last case    *)
(* the cluster may have carried it out.                                    *)
ApplyFails(a) ==
  /\ pc[a] = "apply"
  /\ exists' \in {exists, exists \union {active}}
  /\ Answer(a, "failed")

(* The RGD is deleted in a cluster, by somebody else.                      *)
RGDDeleted(c) ==
  /\ c \in exists
  /\ exists' = exists \ {c}
  /\ UNCHANGED <<factoryVars, now, capCache, response, handlerVars, loadedAt>>
-----------------------------------------------------------------------------
(***************************************************************************)
(* The context switch: no hook concerns capCache, and nothing calls        *)
(* InvalidateCapabilitiesCache.                                            *)
(***************************************************************************)
SwapClients(s, c) ==
  /\ Load(s, c)
  /\ loadedAt' = now
  /\ UNCHANGED <<now, capCache, response, handlerVars, exists>>

SwitchRefused(s, name) ==
  /\ RefuseSwitch(s, name)
  /\ UNCHANGED gateVars

Flush(s) ==
  /\ RanHook(s, FlushHook)
  /\ response' = NoCaps
  /\ UNCHANGED <<now, capCache, handlerVars, exists, loadedAt>>

OtherHook(s) ==
  /\ \E h \in {PodRefHook, FleetPodRefHook} : RanHook(s, h)
  /\ UNCHANGED gateVars

Tick ==
  /\ now < MaxTime
  /\ \A h \in Handlers : pc[h] # "idle" => now < since[h] + MaxHandler
  /\ now' = now + 1
  /\ UNCHANGED <<factoryVars, capCache, response, handlerVars, exists, loadedAt>>

Next ==
  \/ \E r \in Requests :
       \/ ResponseMiss(r)
       \/ CapCacheHit(r) \/ Detect(r) \/ SetCapCache(r) \/ StoreResponse(r)
  \/ \E a \in Applies :
       \/ GateOpen(a) \/ GateClosed(a) \/ NotDetected(a) \/ BodyInvalid(a)
       \/ GetRGD(a) \/ ApplyRGD(a) \/ ApplyFails(a)
  \/ \E c \in Contexts : RGDDeleted(c)
  \/ \E s \in Switchers, c \in Contexts : SwapClients(s, c)
  \/ \E s \in Switchers, n \in Contexts \union UnknownNames : SwitchRefused(s, n)
  \/ \E s \in Switchers : Flush(s) \/ OtherHook(s)
  \/ Tick

Spec == Init /\ [][Next]_vars
-----------------------------------------------------------------------------
(***************************************************************************)
(* Properties.                                                             *)
(***************************************************************************)

(* Apply reaches a cluster whose gate is off only after a switch, and only *)
(* within one time to live of capCache and two handlers' time: the one     *)
(* that detected and the one that applies.                                 *)
GateHonoured ==
  [][\A a \in Applies :
       pc[a] = "apply" /\ pc'[a] = "idle" /\ active \notin Enabled
         => epoch > 0 /\ now <= loadedAt + CapTTL + 2 * MaxHandler]_vars

(* One cache behind the other: what is served was detected no longer ago   *)
(* than both times to live and the time of the two handlers that stored    *)
(* it.                                                                     *)
CapabilitiesAge ==
  Fresh(response) => now <= response.at + CapTTL + ResponseTTL + 2 * MaxHandler
-----------------------------------------------------------------------------
(***************************************************************************)
(* What makes them inductive.                                              *)
(***************************************************************************)
HandlersTimely ==
  \A h \in Handlers : pc[h] # "idle" => since[h] <= now /\ now <= since[h] + MaxHandler

(* What was detected with the present clients is true of the active        *)
(* cluster; what was detected with others is from before the latest swap.  *)
Truthful(e) ==
  e.some =>
    /\ e.epoch <= epoch /\ e.at <= now
    /\ e.epoch = epoch /\ e.gate => active \in Enabled
    /\ e.epoch < epoch => e.at <= loadedAt

DetectedTruthful ==
  /\ loadedAt <= now
  /\ Truthful(capCache) /\ Truthful(response)
  /\ \A r \in Requests : Truthful(caps[r])

CachesInTime ==
  /\ capCache.some => capCache.until <= capCache.at + MaxHandler + CapTTL
  /\ response.some =>
       response.until <= response.at + CapTTL + ResponseTTL + 2 * MaxHandler
  /\ \A r \in Requests :
       /\ pc[r] = "detecting" => since[r] <= caps[r].at
       /\ pc[r] = "storing" => since[r] <= caps[r].at + MaxHandler + CapTTL
       /\ caps[r].some <=> pc[r] \in {"detecting", "storing"}

(* An apply past its gate is on its way to a cluster that allows it, or    *)
(* passed the gate soon after the latest swap.                             *)
GatePassed ==
  \A a \in Applies :
    pc[a] # "idle" =>
      active \in Enabled \/ (epoch > 0 /\ since[a] <= loadedAt + CapTTL + MaxHandler)

IndInv ==
  /\ TypeOK
  /\ HandlersTimely
  /\ DetectedTruthful
  /\ CachesInTime
  /\ GatePassed
-----------------------------------------------------------------------------
(***************************************************************************)
(* What the comments of the code say, and the code does not do.            *)
(***************************************************************************)

(* server.go: POST /rgds/apply is "gated behind canApplyRGDs capability    *)
(* flag": the cluster that is written to has it on, at least when the      *)
(* request came after the latest switch.                                   *)
AppliedWhereEnabled ==
  [][\A a \in Applies :
       pc[a] = "apply" /\ exists' # exists /\ pc'[a] = "idle" /\ since[a] > loadedAt
         => active \in Enabled]_vars

=============================================================================
