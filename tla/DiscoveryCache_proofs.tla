----------------------- MODULE DiscoveryCache_proofs -----------------------
(***************************************************************************)
(* Proofs about DiscoveryCache, for every set of callers, contexts and     *)
(* switchers, and every time to live.                                      *)
(***************************************************************************)
EXTENDS DiscoveryCache, TLAPS

\* The empty entry is an entry.
LEMMA NoListsType == NoLists \in Lists
BY DEF NoLists, Lists

(* What SetLists stores is of the type of the cache. *)
LEMMA SetFieldsType ==
  ASSUME NEW l \in Lists, NEW x \in Nat, NEW e \in Nat
  PROVE  [l EXCEPT !.expiry = x, !.stored = e] \in Lists
<1>1. [l EXCEPT !.expiry = x] \in Lists
  BY DEF Lists
<1>2. \A k \in Lists : [k EXCEPT !.stored = e] \in Lists
  BY DEF Lists
<1> QED
  BY <1>1, <1>2

\* Every step keeps the types.
LEMMA TypeStep == TypeOK /\ [Next]_vars => TypeOK'
<1> SUFFICES ASSUME TypeOK, [Next]_vars PROVE TypeOK'
  OBVIOUS
<1> USE DiscoveryAssumption, NoListsType DEF TypeOK, factoryVars, discoveryVars
<1>1. ASSUME NEW d \in Callers, CacheHit(d) \/ CacheMiss(d) \/ FetchFailed(d)
      PROVE  TypeOK'
  BY <1>1 DEF CacheHit, CacheMiss, FetchFailed, Steps, FactoryTypeOK
<1>2. ASSUME NEW d \in Callers, TakeClient(d)
      PROVE  TypeOK'
  <2>1. [NoLists EXCEPT !.of = active, !.epoch = epoch, !.at = now] \in Lists
    BY DEF Lists, NoLists, FactoryTypeOK
  <2> QED
    BY <1>2, <2>1 DEF TakeClient, Steps, FactoryTypeOK
<1>3. ASSUME NEW d \in Callers, SetLists(d)
      PROVE  TypeOK'
  <2>1. [lists[d] EXCEPT !.expiry = now + DiscoveryTTL, !.stored = epoch] \in Lists
    <3> lists[d] \in Lists /\ now + DiscoveryTTL \in Nat /\ epoch \in Nat
      BY DEF FactoryTypeOK
    <3> HIDE DEF TypeOK, factoryVars, discoveryVars
    <3> QED
      BY SetFieldsType
  <2> QED
    BY <1>3, <2>1 DEF SetLists, Steps, FactoryTypeOK
<1>4. ASSUME NEW s \in Switchers, NEW c \in Contexts, SwapAndInvalidate(s, c)
      PROVE  TypeOK'
  BY <1>4 DEF SwapAndInvalidate, Load, FactoryTypeOK, Answered, HookCount
<1>5. ASSUME NEW s \in Switchers, NEW n \in Contexts \union UnknownNames,
             SwitchRefused(s, n)
      PROVE  TypeOK'
  BY <1>5 DEF SwitchRefused, RefuseSwitch, FactoryTypeOK, Answered, HookCount
<1>6. ASSUME NEW s \in Switchers, RunHook(s)
      PROVE  TypeOK'
  BY <1>6 DEF RunHook, RanHook, FactoryTypeOK, Answered, HookCount
<1>7. CASE Tick \/ UNCHANGED vars
  BY <1>7 DEF Tick, vars, FactoryTypeOK
<1> QED
  BY <1>1, <1>2, <1>3, <1>4, <1>5, <1>6, <1>7 DEF Next

(* A result's history fields, as far as IndInv is about them.              *)
InPast(l) ==
  /\ l.at <= now
  /\ l.epoch <= epoch
  /\ l.epoch < epoch => l.at <= loadedAt

\* Every step keeps the invariant.
LEMMA IndStep == IndInv /\ [Next]_vars => IndInv'
<1> SUFFICES ASSUME IndInv, [Next]_vars PROVE IndInv'
  OBVIOUS
<1>0. TypeOK /\ TypeOK'
  BY TypeStep DEF IndInv
<1> USE DiscoveryAssumption
    DEF IndInv, NothingFromBeforeSwap, factoryVars, discoveryVars
<1>t. /\ now \in Nat /\ epoch \in Nat /\ loadedAt \in Nat
      /\ \A d \in Callers : since[d] \in Nat /\ lists[d] \in Lists
      /\ cached \in Lists
      /\ \A l \in Lists : /\ l.at \in Nat /\ l.epoch \in Nat
                          /\ l.expiry \in Nat /\ l.stored \in Nat
  <2>1. \A l \in Lists : /\ l.at \in Nat /\ l.epoch \in Nat
                         /\ l.expiry \in Nat /\ l.stored \in Nat
    BY DEF Lists
  <2> QED
    BY <1>0, <2>1 DEF TypeOK, FactoryTypeOK
<1>1. ASSUME NEW d \in Callers, CacheHit(d)
      PROVE  IndInv'
  BY <1>0, <1>1 DEF CacheHit, TypeOK
<1>2. ASSUME NEW d \in Callers, CacheMiss(d)
      PROVE  IndInv'
  BY <1>0, <1>t, <1>2 DEF CacheMiss, TypeOK
<1>3. ASSUME NEW d \in Callers, TakeClient(d)
      PROVE  IndInv'
  <2>1. /\ lists'[d].at = now /\ lists'[d].epoch = epoch
        /\ \A q \in Callers \ {d} : lists'[q] = lists[q] /\ pc'[q] = pc[q]
        /\ pc[d] = "client" /\ UNCHANGED <<now, epoch, since, loadedAt, cached>>
    BY <1>0, <1>3 DEF TakeClient, TypeOK, NoLists
  <2> QED
    BY <1>0, <1>t, <2>1
<1>4. ASSUME NEW d \in Callers, FetchFailed(d)
      PROVE  IndInv'
  BY <1>0, <1>t, <1>4 DEF FetchFailed, TypeOK
<1>5. ASSUME NEW d \in Callers, SetLists(d)
      PROVE  IndInv'
  <2>1. lists[d] \in Lists /\ InPast(lists[d]) /\ now <= lists[d].at + MaxCall
    BY <1>0, <1>t, <1>5 DEF SetLists, InPast
  <2>2. /\ cached'.at = lists[d].at /\ cached'.epoch = lists[d].epoch
        /\ cached'.expiry = now + DiscoveryTTL /\ cached'.stored = epoch
    BY <1>5, <2>1 DEF SetLists, Lists
  <2>3. /\ \A q \in Callers \ {d} : pc'[q] = pc[q] /\ since'[q] = since[q]
        /\ pc'[d] = "idle" /\ UNCHANGED <<now, epoch, lists, loadedAt>>
    BY <1>0, <1>5 DEF SetLists, TypeOK
  <2> QED
    BY <1>0, <1>t, <2>1, <2>2, <2>3 DEF InPast
<1>6. ASSUME NEW s \in Switchers, NEW c \in Contexts, SwapAndInvalidate(s, c)
      PROVE  IndInv'
  BY <1>0, <1>t, <1>6 DEF SwapAndInvalidate, Load
<1>7. ASSUME NEW s \in Switchers,
             RunHook(s) \/ \E n \in Contexts \union UnknownNames : SwitchRefused(s, n)
      PROVE  IndInv'
  BY <1>0, <1>7 DEF RunHook, RanHook, SwitchRefused, RefuseSwitch
<1>8. CASE Tick
  BY <1>0, <1>t, <1>8 DEF Tick
<1>9. CASE UNCHANGED vars
  BY <1>0, <1>9 DEF vars
<1> QED
  BY <1>1, <1>2, <1>3, <1>4, <1>5, <1>6, <1>7, <1>8, <1>9 DEF Next

(* The types, the history of the cached result and the duration of calls   *)
(* are kept by every step.                                                 *)
THEOREM Inductive == Spec => []IndInv
<1>1. Init => IndInv
  <2> SUFFICES ASSUME Init PROVE IndInv
    OBVIOUS
  <2>1. TypeOK
    BY FactoryAssumption, NoListsType
       DEF Init, FactoryInit, TypeOK, FactoryTypeOK, Steps, Answered, HookCount
  <2> QED
    BY <2>1 DEF Init, FactoryInit, IndInv, NothingFromBeforeSwap
<1> QED
  BY <1>1, IndStep, PTL DEF Spec

(* No call is answered with the result of a call that ended before the     *)
(* latest switch.                                                          *)
THEOREM NothingOld == Spec => []NothingFromBeforeSwap
<1>1. IndInv => NothingFromBeforeSwap
  BY DEF IndInv
<1> QED
  BY <1>1, Inductive, PTL

(* The old cluster's lists are served until one call's time and one time   *)
(* to live after the switch, at most.                                      *)
THEOREM OldDiscovery == Spec => []OldDiscoveryWindow
<1>1. IndInv => OldDiscoveryWindow
  BY DiscoveryAssumption DEF IndInv, OldDiscoveryWindow, Fresh, TypeOK, Lists
<1> QED
  BY <1>1, Inductive, PTL

=============================================================================
