--------------------------- MODULE DiscoveryCache ---------------------------
(***************************************************************************)
(* The cache of API discovery results inside the client factory            *)
(* (apiResourceCache and CachedServerGroupsAndResources of                 *)
(* internal/k8s/client.go).  It is invalidated by load() itself, in the    *)
(* critical section that swaps the clients, not by a hook.                 *)
(*                                                                         *)
(* A discovery result is abstracted to the cluster it describes; the       *)
(* fields epoch, at, stored and the variable loadedAt are history.         *)
(***************************************************************************)
EXTENDS ClientFactory

CONSTANTS
  Callers,       (* Goroutines calling CachedServerGroupsAndResources.     *)
  DiscoveryTTL,  (* discoveryCacheTTL.                                     *)
  MaxCall,       (* Longest time one call takes: the discovery client has  *)
                 (* its own timeout, and takes no request context.         *)
  MaxTime        (* Bound: when the clock stops.                           *)

ASSUME DiscoveryAssumption ==
  DiscoveryTTL \in Nat /\ MaxCall \in Nat /\ MaxTime \in Nat

VARIABLES
  now,       (* The clock.                                                 *)
  cached,    (* lists and expiry: NoLists when lists is nil.               *)
  pc,        (* Per caller: how far its call has come.                     *)
  since,     (* Per caller: when its call began.                           *)
  lists,     (* Per caller: what it got from the cluster, or NoLists.      *)
  loadedAt   (* When the clients were last swapped.                        *)

discoveryVars == <<now, cached, pc, since, lists, loadedAt>>
vars == <<factoryVars, discoveryVars>>

Lists == [of : Contexts \union {NoContext}, epoch : Nat, at : Nat,
          expiry : Nat, stored : Nat]
NoLists == [of |-> NoContext, epoch |-> 0, at |-> 0, expiry |-> 0, stored |-> 0]

Steps == {"idle", "client", "fetching"}

TypeOK ==
  /\ FactoryTypeOK
  /\ now \in Nat
  /\ cached \in Lists
  /\ pc \in [Callers -> Steps]
  /\ since \in [Callers -> Nat]
  /\ lists \in [Callers -> Lists]
  /\ loadedAt \in Nat

Init ==
  /\ FactoryInit
  /\ now = 0
  /\ cached = NoLists
  /\ pc = [d \in Callers |-> "idle"]
  /\ since = [d \in Callers |-> 0]
  /\ lists = [d \in Callers |-> NoLists]
  /\ loadedAt = 0
-----------------------------------------------------------------------------
(* get() under the cache's read lock: nil lists and lists past their       *)
(* expiry are a miss.                                                      *)
Fresh == cached # NoLists /\ now <= cached.expiry

(* The call is answered from the cache.                                    *)
CacheHit(d) ==
  /\ pc[d] = "idle"
  /\ Fresh
  /\ lists' = [lists EXCEPT ![d] = cached]
  /\ UNCHANGED <<factoryVars, now, cached, pc, since, loadedAt>>

CacheMiss(d) ==
  /\ pc[d] = "idle"
  /\ ~Fresh
  /\ pc' = [pc EXCEPT ![d] = "client"]
  /\ since' = [since EXCEPT ![d] = now]
  /\ lists' = [lists EXCEPT ![d] = NoLists]
  /\ UNCHANGED <<factoryVars, now, cached, loadedAt>>

(* disc := f.discovery, under the factory's read lock, which is taken      *)
(* after the cache's lock has been released.                               *)
TakeClient(d) ==
  /\ pc[d] = "client"
  /\ pc' = [pc EXCEPT ![d] = "fetching"]
  /\ lists' = [lists EXCEPT ![d] = [NoLists EXCEPT !.of = active, !.epoch = epoch,
                                                   !.at = now]]
  /\ UNCHANGED <<factoryVars, now, cached, since, loadedAt>>

(* ServerGroupsAndResources() has failed: the caller gets an error, the    *)
(* cache keeps what it holds.                                              *)
FetchFailed(d) ==
  /\ pc[d] = "fetching"
  /\ pc' = [pc EXCEPT ![d] = "idle"]
  /\ since' = [since EXCEPT ![d] = 0]
  /\ lists' = [lists EXCEPT ![d] = NoLists]
  /\ UNCHANGED <<factoryVars, now, cached, loadedAt>>

(* A wrong set(), to test the properties: it lives one tick longer.        *)
SetListsLonger(d) ==
  /\ pc[d] = "fetching"
  /\ cached' = [lists[d] EXCEPT !.expiry = now + DiscoveryTTL + 1, !.stored = epoch]
  /\ pc' = [pc EXCEPT ![d] = "idle"]
  /\ since' = [since EXCEPT ![d] = 0]
  /\ UNCHANGED <<factoryVars, now, lists, loadedAt>>

(* ServerGroupsAndResources() has answered: the result becomes the cached  *)
(* one, whatever the factory's client is by now, and is returned.          *)
SetLists(d) ==
  /\ pc[d] = "fetching"
  /\ cached' = [lists[d] EXCEPT !.expiry = now + DiscoveryTTL, !.stored = epoch]
  /\ pc' = [pc EXCEPT ![d] = "idle"]
  /\ since' = [since EXCEPT ![d] = 0]
  /\ UNCHANGED <<factoryVars, now, lists, loadedAt>>
-----------------------------------------------------------------------------
(* A wrong load(), to test the properties: it leaves the cache alone.      *)
SwapOnly(s, c) ==
  /\ Load(s, c)
  /\ loadedAt' = now
  /\ UNCHANGED <<now, cached, pc, since, lists>>

(* load(): the swap and the invalidation are one critical section.         *)
SwapAndInvalidate(s, c) ==
  /\ Load(s, c)
  /\ cached' = NoLists
  /\ loadedAt' = now
  /\ UNCHANGED <<now, pc, since, lists>>

SwitchRefused(s, name) ==
  /\ RefuseSwitch(s, name)
  /\ UNCHANGED discoveryVars

(* None of the hooks concerns this cache.                                  *)
RunHook(s) ==
  /\ \E h \in 1..HookCount : RanHook(s, h)
  /\ UNCHANGED discoveryVars

Tick ==
  /\ now < MaxTime
  /\ \A d \in Callers : pc[d] # "idle" => now < since[d] + MaxCall
  /\ now' = now + 1
  /\ UNCHANGED <<factoryVars, cached, pc, since, lists, loadedAt>>

Next ==
  \/ \E d \in Callers :
       \/ CacheHit(d) \/ CacheMiss(d) \/ TakeClient(d)
       \/ FetchFailed(d) \/ SetLists(d)
  \/ \E s \in Switchers, c \in Contexts : SwapAndInvalidate(s, c)
  \/ \E s \in Switchers, n \in Contexts \union UnknownNames : SwitchRefused(s, n)
  \/ \E s \in Switchers : RunHook(s)
  \/ Tick

Spec == Init /\ [][Next]_vars
-----------------------------------------------------------------------------
(***************************************************************************)
(* Properties.                                                             *)
(***************************************************************************)

(* What the cache holds was set after the latest swap of the clients: no   *)
(* result of a call that ended before a switch is ever used after it.      *)
NothingFromBeforeSwap == cached # NoLists => cached.stored = epoch

(* The cache describes another cluster than the active one only until one  *)
(* call's time and one time to live after the switch.                      *)
OldDiscoveryWindow ==
  Fresh /\ cached.epoch < epoch => now <= loadedAt + MaxCall + DiscoveryTTL
-----------------------------------------------------------------------------
(***************************************************************************)
(* What makes the properties above inductive.                              *)
(***************************************************************************)
IndInv ==
  /\ TypeOK
  /\ NothingFromBeforeSwap
  /\ loadedAt <= now
  /\ \A d \in Callers :
       pc[d] = "fetching" =>
         /\ since[d] <= lists[d].at
         /\ lists[d].at <= now
         /\ lists[d].epoch <= epoch
         /\ lists[d].epoch < epoch => lists[d].at <= loadedAt
  /\ \A d \in Callers :
       pc[d] # "idle" => since[d] <= now /\ now <= since[d] + MaxCall
  /\ cached # NoLists =>
       /\ cached.epoch <= epoch
       /\ cached.at <= now
       /\ cached.epoch < epoch => cached.at <= loadedAt
       /\ cached.expiry <= cached.at + MaxCall + DiscoveryTTL

=============================================================================
