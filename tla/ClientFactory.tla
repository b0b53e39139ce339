--------------------------- MODULE ClientFactory ---------------------------
(***************************************************************************)
(* The kubeconfig client factory of internal/k8s/client.go and the handler *)
(* of POST /contexts/switch that drives it.                                *)
(*                                                                         *)
(* load() replaces restConfig, dynamic, discovery and activeContext under  *)
(* one write lock, so one variable, active, stands for all four.  What     *)
(* SwitchContext does after that lock is released, the context-switch      *)
(* hooks one after the other, is one step per hook: another request, or    *)
(* another switch, may run between any two of them.                        *)
(*                                                                         *)
(* The modules of the caches that depend on the active context EXTEND this *)
(* one and say what the hook they registered does.                         *)
(***************************************************************************)
EXTENDS Naturals, Sequences, FiniteSets

CONSTANTS
  Contexts,       (* Context names of the kubeconfig.                      *)
  UnknownNames,   (* Other names a switch may ask for, the empty one too.  *)
  Switchers,      (* Goroutines, one per POST /contexts/switch.            *)
  InCluster,      (* TRUE iff the factory has no kubeconfig file.          *)
  NoContext       (* Stands for "no context name".                         *)

ASSUME FactoryAssumption ==
  /\ Contexts # {}
  /\ Contexts \cap UnknownNames = {}
  /\ NoContext \notin Contexts
  /\ InCluster \in BOOLEAN

VARIABLES
  active,    (* The context the clients of the factory belong to.          *)
  epoch,     (* Which clients: load() builds new ones, this counts them.   *)
  hookPos,   (* Per switcher: 0, then the hook it runs next, then Answered. *)
  target     (* Per switcher: the context it loaded, NoContext if none.    *)

factoryVars == <<active, epoch, hookPos, target>>

(***************************************************************************)
(* The hooks in the order NewRouter registers them: handlers.New makes a   *)
(* MetricsDiscoverer that registers invalidateAll of its PodRefCache, the  *)
(* router registers Flush of the response cache, and the second            *)
(* handlers.New, for /fleet/summary, registers another invalidateAll.      *)
(***************************************************************************)
HookCount == 3
PodRefHook == 1
FlushHook == 2
FleetPodRefHook == 3

Answered == HookCount + 1

(* Switcher s has swapped the clients and has yet to run hook h.           *)
YetToRun(s, h) == hookPos[s] \in 1..h

(* No switch in progress has yet to run hook h.                            *)
AllRan(h) == \A s \in Switchers : ~YetToRun(s, h)

FactoryTypeOK ==
  /\ active \in Contexts
  /\ epoch \in Nat
  /\ hookPos \in [Switchers -> 0..Answered]
  /\ target \in [Switchers -> Contexts \union {NoContext}]

FactoryInit ==
  /\ active \in Contexts
  /\ epoch = 0
  /\ hookPos = [s \in Switchers |-> 0]
  /\ target = [s \in Switchers |-> NoContext]

(* A wrong Load, to test the properties: the Flush hook is not registered. *)
LoadWithoutFlushHook(s, c) ==
  /\ hookPos[s] = 0
  /\ ~InCluster
  /\ active' = c
  /\ epoch' = epoch + 1
  /\ hookPos' = [hookPos EXCEPT ![s] = FleetPodRefHook]
  /\ target' = [target EXCEPT ![s] = c]

(***************************************************************************)
(* SwitchContext up to the end of load(): the clients are swapped in one   *)
(* critical section, then the hook list is copied.                         *)
(***************************************************************************)
Load(s, c) ==
  /\ hookPos[s] = 0
  /\ ~InCluster
  /\ active' = c
  /\ epoch' = epoch + 1
  /\ hookPos' = [hookPos EXCEPT ![s] = 1]
  /\ target' = [target EXCEPT ![s] = c]

(***************************************************************************)
(* A switch that is answered 400: the name is empty or not in the          *)
(* kubeconfig, there is no kubeconfig, or it cannot be read or turned into *)
(* clients.  load() returns before its critical section: nothing is        *)
(* swapped, and no hook runs.                                              *)
(***************************************************************************)
RefuseSwitch(s, name) ==
  /\ hookPos[s] = 0
  /\ name \in Contexts \union UnknownNames
  /\ hookPos' = [hookPos EXCEPT ![s] = Answered]
  /\ UNCHANGED <<active, epoch, target>>

(***************************************************************************)
(* Switcher s has run hook h; after the last one it answers 200 with the   *)
(* name it was asked for.                                                  *)
(***************************************************************************)
RanHook(s, h) ==
  /\ hookPos[s] = h
  /\ hookPos' = [hookPos EXCEPT ![s] = h + 1]
  /\ UNCHANGED <<active, epoch, target>>

=============================================================================
