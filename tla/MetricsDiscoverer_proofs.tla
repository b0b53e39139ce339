---------------------- MODULE MetricsDiscoverer_proofs ----------------------
(***************************************************************************)
(* Proofs about MetricsDiscoverer, for every set of polls, contexts and    *)
(* switchers, and any number of pod restarts.                              *)
(***************************************************************************)
EXTENDS MetricsDiscoverer, TLAPS

(* What SetRef and Expires leave in the cache is of its type.              *)
LEMMA StoredType ==
  ASSUME NEW r \in Refs, NEW e \in Nat
  PROVE  [r EXCEPT !.stored = e] \in Refs /\ [r EXCEPT !.expired = TRUE] \in Refs
BY DEF Refs

(* A poll about to store a pod holds one that it discovered.               *)
LEMMA DiscoveredType ==
  ASSUME TypeOK, ClientsKnown, OwnRefAfterRetry,
         NEW p \in Polls, pc[p] \in {"set", "scrape"}, retried[p] \/ pc[p] = "set"
  PROVE  ref[p] \in Refs
<1>1. ref[p].of \in Contexts /\ ref[p] \in Refs \union {NoRef}
  BY DEF OwnRefAfterRetry, ClientsKnown, TypeOK
<1> QED
  BY <1>1, FactoryAssumption DEF NoRef

\* Every step keeps the types.
LEMMA TypeStep ==
  TypeOK /\ ClientsKnown /\ OwnRefAfterRetry /\ [Next]_vars => TypeOK'
<1> SUFFICES ASSUME TypeOK, ClientsKnown, OwnRefAfterRetry, [Next]_vars PROVE TypeOK'
  OBVIOUS
<1> USE DEF TypeOK, factoryVars, metricsVars, pollVars
<1>r. \A p \in Polls, r \in Replies : Ends(p, r) =>
        /\ pc' \in [Polls -> Steps]
        /\ dyn' \in [Polls -> Contexts \union {NoContext}]
        /\ cfg' \in [Polls -> Contexts \union {NoContext}]
        /\ key' \in [Polls -> Contexts \union {NoContext}]
        /\ ref' \in [Polls -> Refs \union {NoRef}]
        /\ retried' \in [Polls -> BOOLEAN]
        /\ reply' \in [Polls -> Replies]
  BY DEF Ends, Steps
<1>1. ASSUME NEW p \in Polls, ReadDynamic(p) \/ ReadConfig(p) \/ ReadKey(p)
      PROVE  TypeOK'
  BY <1>1 DEF ReadDynamic, ReadConfig, ReadKey, Steps, Replies, FactoryTypeOK
<1>2. ASSUME NEW p \in Polls, Lookup(p) \/ PodNotFound(p) \/ Invalidate(p)
      PROVE  TypeOK'
  BY <1>2 DEF Lookup, PodNotFound, Invalidate, Steps, FactoryTypeOK, ClientsKnown
<1>3. ASSUME NEW p \in Polls, Discover(p)
      PROVE  TypeOK'
  <2>1. dyn[p] \in Contexts
    BY <1>3 DEF Discover, ClientsKnown
  <2>2. [of |-> dyn[p], pod |-> pod[dyn[p]], expired |-> FALSE, stored |-> 0] \in Refs
    BY <2>1 DEF Refs
  <2> QED
    BY <1>3, <2>2 DEF Discover, Steps, FactoryTypeOK
<1>4. ASSUME NEW p \in Polls, SetRef(p)
      PROVE  TypeOK'
  <2>1. ref[p] \in Refs
    BY <1>4, DiscoveredType DEF SetRef
  <2>2. [ref[p] EXCEPT !.stored = epoch] \in Refs
    BY <2>1, StoredType DEF FactoryTypeOK
  <2> QED
    BY <1>4, <2>2 DEF SetRef, Steps, FactoryTypeOK
<1>5. ASSUME NEW p \in Polls,
             DiscoverNothing(p) \/ Scraped(p) \/ StillNotFound(p) \/ ScrapeFails(p)
      PROVE  TypeOK'
  BY <1>5, <1>r DEF DiscoverNothing, Scraped, StillNotFound, ScrapeFails, Replies,
                    FactoryTypeOK
<1>6. ASSUME NEW p \in Polls, NEW c \in Contexts, BuildForContext(p, c)
      PROVE  TypeOK'
  BY <1>6 DEF BuildForContext, Steps, Replies, FactoryTypeOK
<1>7. ASSUME NEW c \in Contexts, Expires(c)
      PROVE  TypeOK'
  <2>1. refs[c] \in Refs
    BY <1>7 DEF Expires, NoRef
  <2>2. [refs[c] EXCEPT !.expired = TRUE] \in Refs
    BY <2>1, StoredType
  <2>3. refs' = [refs EXCEPT ![c] = [refs[c] EXCEPT !.expired = TRUE]]
    BY <1>7 DEF Expires
  <2> QED
    BY <1>7, <2>2, <2>3 DEF Expires, FactoryTypeOK
<1>8. ASSUME NEW c \in Contexts, PodRestarts(c)
      PROVE  TypeOK'
  BY <1>8 DEF PodRestarts, FactoryTypeOK
<1>9. ASSUME NEW s \in Switchers, NEW c \in Contexts, Swap(s, c)
      PROVE  TypeOK'
  BY <1>9 DEF Swap, Load, FactoryTypeOK, Answered, HookCount
<1>10. ASSUME NEW s \in Switchers, NEW n \in Contexts \union UnknownNames,
              SwitchRefused(s, n)
       PROVE  TypeOK'
  BY <1>10 DEF SwitchRefused, RefuseSwitch, FactoryTypeOK, Answered, HookCount
<1>11. ASSUME NEW s \in Switchers, InvalidateAll(s) \/ OtherHook(s)
       PROVE  TypeOK'
  BY <1>11 DEF InvalidateAll, OtherHook, RanHook, PodRefHook, FlushHook,
               FleetPodRefHook, FactoryTypeOK, Answered, HookCount
<1>12. CASE UNCHANGED vars
  BY <1>12 DEF vars, FactoryTypeOK
<1> QED
  BY <1>1, <1>2, <1>3, <1>4, <1>5, <1>6, <1>7, <1>8, <1>9, <1>10, <1>11, <1>12
     DEF Next, Proceed

\* Every step keeps the clients that a poll may hold.
LEMMA ClientsStep == TypeOK /\ ClientsKnown /\ [Next]_vars => ClientsKnown'
<1> SUFFICES ASSUME TypeOK, ClientsKnown, [Next]_vars PROVE ClientsKnown'
  OBVIOUS
<1> USE DEF ClientsKnown, TypeOK, FactoryTypeOK
<1>1. CASE UNCHANGED <<pc, dyn, cfg, key>>
  BY <1>1
<1>2. ASSUME NEW p \in Polls, ReadDynamic(p) \/ ReadConfig(p) \/ ReadKey(p)
      PROVE  ClientsKnown'
  BY <1>2 DEF ReadDynamic, ReadConfig, ReadKey, factoryVars
<1>3. ASSUME NEW p \in Polls, NEW c \in Contexts, BuildForContext(p, c)
      PROVE  ClientsKnown'
  BY <1>3 DEF BuildForContext
<1>4. ASSUME NEW p \in Polls,
             \/ Lookup(p) \/ Discover(p) \/ SetRef(p) \/ PodNotFound(p) \/ Invalidate(p)
      PROVE  ClientsKnown'
  BY <1>4 DEF Lookup, Discover, SetRef, PodNotFound, Invalidate
<1>5. ASSUME NEW p \in Polls,
             DiscoverNothing(p) \/ Scraped(p) \/ StillNotFound(p) \/ ScrapeFails(p)
      PROVE  ClientsKnown'
  BY <1>5 DEF DiscoverNothing, Scraped, StillNotFound, ScrapeFails, Ends
<1>6. ASSUME NEW c \in Contexts, Expires(c) \/ PodRestarts(c) \/ \E s \in Switchers : Swap(s, c)
      PROVE  ClientsKnown'
  BY <1>1, <1>6 DEF Expires, PodRestarts, Swap, metricsVars, pollVars
<1>7. ASSUME NEW s \in Switchers,
             \/ InvalidateAll(s) \/ OtherHook(s)
             \/ \E n \in Contexts \union UnknownNames : SwitchRefused(s, n)
      PROVE  ClientsKnown'
  BY <1>1, <1>7 DEF InvalidateAll, OtherHook, SwitchRefused, metricsVars, pollVars
<1>8. CASE UNCHANGED vars
  BY <1>1, <1>8 DEF vars, metricsVars, pollVars
<1> QED
  BY <1>2, <1>3, <1>4, <1>5, <1>6, <1>7, <1>8 DEF Next, Proceed

\* No step leaves a reference from before the swap once the hooks have run.
LEMMA RefsStep == TypeOK /\ RefsFromThisSwitch /\ [Next]_vars => RefsFromThisSwitch'
<1> SUFFICES ASSUME TypeOK, RefsFromThisSwitch, [Next]_vars
             PROVE  RefsFromThisSwitch'
  OBVIOUS
<1> USE DEF RefsFromThisSwitch, PodRefHook
<1>1. CASE UNCHANGED <<refs, epoch, hookPos>>
  BY <1>1 DEF AllRan, YetToRun
<1>2. ASSUME NEW p \in Polls, SetRef(p)
      PROVE  RefsFromThisSwitch'
  BY <1>2 DEF SetRef, TypeOK, Refs, NoRef, factoryVars, AllRan, YetToRun
<1>3. ASSUME NEW p \in Polls, Invalidate(p)
      PROVE  RefsFromThisSwitch'
  BY <1>3 DEF Invalidate, TypeOK, factoryVars, AllRan, YetToRun
<1>4. ASSUME NEW c \in Contexts, Expires(c)
      PROVE  RefsFromThisSwitch'
  <2>1. refs[c] # NoRef
    BY <1>4 DEF Expires, NoRef
  <2>2. refs'[c].stored = refs[c].stored /\ \A d \in Contexts \ {c} : refs'[d] = refs[d]
    BY <1>4, <2>1 DEF Expires, TypeOK, Refs
  <2> QED
    BY <1>4, <2>1, <2>2 DEF Expires, factoryVars, AllRan, YetToRun
<1>5. ASSUME NEW s \in Switchers, NEW c \in Contexts, Swap(s, c)
      PROVE  RefsFromThisSwitch'
  <2>1. hookPos'[s] = 1
    BY <1>5 DEF Swap, Load, TypeOK, FactoryTypeOK
  <2> QED
    BY <2>1 DEF AllRan, YetToRun
<1>6. ASSUME NEW s \in Switchers, NEW n \in Contexts \union UnknownNames,
             SwitchRefused(s, n)
      PROVE  RefsFromThisSwitch'
  BY <1>6 DEF SwitchRefused, RefuseSwitch, metricsVars, AllRan, YetToRun,
              Answered, HookCount, TypeOK, FactoryTypeOK
<1>7. ASSUME NEW s \in Switchers, InvalidateAll(s)
      PROVE  RefsFromThisSwitch'
  BY <1>7 DEF InvalidateAll
<1>8. ASSUME NEW s \in Switchers, OtherHook(s)
      PROVE  RefsFromThisSwitch'
  BY <1>8 DEF OtherHook, RanHook, FlushHook, FleetPodRefHook, metricsVars,
              AllRan, YetToRun, TypeOK, FactoryTypeOK, Answered, HookCount
<1>9. ASSUME NEW p \in Polls,
             \/ ReadDynamic(p) \/ ReadConfig(p) \/ ReadKey(p) \/ Lookup(p)
             \/ Discover(p) \/ DiscoverNothing(p) \/ Scraped(p) \/ PodNotFound(p)
             \/ StillNotFound(p) \/ ScrapeFails(p)
             \/ \E c \in Contexts : BuildForContext(p, c)
      PROVE  RefsFromThisSwitch'
  BY <1>1, <1>9
     DEF ReadDynamic, ReadConfig, ReadKey, Lookup, Discover, DiscoverNothing,
         Scraped, PodNotFound, StillNotFound, ScrapeFails, BuildForContext, factoryVars
<1>10. CASE UNCHANGED vars \/ \E c \in Contexts : PodRestarts(c)
  BY <1>1, <1>10 DEF PodRestarts, vars, factoryVars, metricsVars
<1> QED
  BY <1>2, <1>3, <1>4, <1>5, <1>6, <1>7, <1>8, <1>9, <1>10 DEF Next, Proceed

\* Every step keeps what a retry knows of its own reference.
LEMMA OwnRefStep ==
  TypeOK /\ ClientsKnown /\ OwnRefAfterRetry /\ [Next]_vars => OwnRefAfterRetry'
<1> SUFFICES ASSUME TypeOK, ClientsKnown, OwnRefAfterRetry, [Next]_vars
             PROVE  OwnRefAfterRetry'
  OBVIOUS
<1> USE DEF OwnRefAfterRetry, TypeOK
<1>1. CASE UNCHANGED <<pod, pc, dyn, ref, retried>>
  BY <1>1
<1>2. ASSUME NEW p \in Polls, Lookup(p) \/ SetRef(p) \/ PodNotFound(p) \/ Invalidate(p)
      PROVE  OwnRefAfterRetry'
  <2>1. CASE Lookup(p)
    BY <2>1 DEF Lookup
  <2>2. CASE SetRef(p)
    BY <2>2 DEF SetRef
  <2>3. CASE PodNotFound(p)
    BY <2>3 DEF PodNotFound
  <2>4. CASE Invalidate(p)
    BY <2>4 DEF Invalidate
  <2> QED
    BY <1>2, <2>1, <2>2, <2>3, <2>4
<1>3. ASSUME NEW p \in Polls, Discover(p)
      PROVE  OwnRefAfterRetry'
  <2>1. pod[dyn[p]] \in Nat
    BY <1>3 DEF Discover, ClientsKnown
  <2> QED
    BY <1>3, <2>1 DEF Discover
<1>4. ASSUME NEW p \in Polls,
             \/ ReadDynamic(p) \/ ReadConfig(p) \/ ReadKey(p)
             \/ \E c \in Contexts : BuildForContext(p, c)
      PROVE  OwnRefAfterRetry'
  BY <1>4 DEF ReadDynamic, ReadConfig, ReadKey, BuildForContext
<1>5. ASSUME NEW p \in Polls,
             DiscoverNothing(p) \/ Scraped(p) \/ StillNotFound(p) \/ ScrapeFails(p)
      PROVE  OwnRefAfterRetry'
  BY <1>5 DEF DiscoverNothing, Scraped, StillNotFound, ScrapeFails, Ends
<1>6. ASSUME NEW c \in Contexts, PodRestarts(c)
      PROVE  OwnRefAfterRetry'
  <2>1. \A q \in Polls : pc[q] \in {"set", "scrape"} => ref[q].pod \in Nat
    BY DEF Refs, NoRef
  <2> QED
    BY <1>6, <2>1 DEF PodRestarts, pollVars, ClientsKnown
<1>7. CASE \/ UNCHANGED vars
           \/ \E c \in Contexts : Expires(c) \/ \E s \in Switchers : Swap(s, c)
  BY <1>1, <1>7 DEF Expires, Swap, vars, metricsVars, pollVars
<1>8. ASSUME NEW s \in Switchers,
             \/ InvalidateAll(s) \/ OtherHook(s)
             \/ \E n \in Contexts \union UnknownNames : SwitchRefused(s, n)
      PROVE  OwnRefAfterRetry'
  BY <1>1, <1>8 DEF InvalidateAll, OtherHook, SwitchRefused, metricsVars, pollVars
<1> QED
  BY <1>2, <1>3, <1>4, <1>5, <1>6, <1>7, <1>8 DEF Next, Proceed

(* The types, what a poll knows and holds, and what the cache holds, are   *)
(* kept by every step.                                                     *)
THEOREM Inductive == Spec => []IndInv
<1>1. Init => IndInv
  BY FactoryAssumption
     DEF Init, FactoryInit, IndInv, TypeOK, FactoryTypeOK, RefsFromThisSwitch,
         ClientsKnown, OwnRefAfterRetry, Steps, Replies, Answered, HookCount
<1>2. IndInv /\ [Next]_vars => IndInv'
  BY TypeStep, ClientsStep, RefsStep, OwnRefStep DEF IndInv
<1> QED
  BY <1>1, <1>2, PTL DEF Spec

(* However switches interleave, after their hooks no reference stored      *)
(* before the latest swap is in the cache.                                 *)
THEOREM RefsRecent == Spec => []RefsFromThisSwitch
<1>1. IndInv => RefsFromThisSwitch
  BY DEF IndInv
<1> QED
  BY <1>1, Inductive, PTL

(* "Pod not found" after the retry means that the pod was replaced after   *)
(* the poll's own second discovery, or that a switch fell between the      *)
(* poll's reads of the factory.                                            *)
THEOREM Healed == Spec => HealedByOneRetry
<1> DEFINE Gone(p) ==
      reply[p] # "podNotFound" /\ reply'[p] = "podNotFound" /\ dyn[p] = cfg[p]
        => ref[p].of = cfg[p] /\ ref[p].pod < pod[cfg[p]]
<1>1. ASSUME IndInv, [Next]_vars, NEW p \in Polls
      PROVE  Gone(p)
  <2> SUFFICES ASSUME reply[p] # "podNotFound", reply'[p] = "podNotFound", dyn[p] = cfg[p]
               PROVE  ref[p].of = cfg[p] /\ ref[p].pod < pod[cfg[p]]
    OBVIOUS
  <2>1. StillNotFound(p)
    <3>1. ASSUME NEW q \in Polls,
                 \/ ReadDynamic(q) \/ DiscoverNothing(q) \/ Scraped(q) \/ ScrapeFails(q)
                 \/ \E c \in Contexts : BuildForContext(q, c)
          PROVE  FALSE
      BY <1>1, <3>1 DEF IndInv, TypeOK, ReadDynamic, DiscoverNothing, Scraped,
                        ScrapeFails, BuildForContext, Ends
    <3>2. ASSUME UNCHANGED reply
          PROVE  FALSE
      BY <3>2
    <3>3. ASSUME NEW q \in Polls,
                 \/ ReadConfig(q) \/ ReadKey(q) \/ Lookup(q) \/ Discover(q)
                 \/ SetRef(q) \/ PodNotFound(q) \/ Invalidate(q)
          PROVE  FALSE
      BY <3>2, <3>3 DEF ReadConfig, ReadKey, Lookup, Discover, SetRef, PodNotFound, Invalidate
    <3>4. ASSUME NEW q \in Polls, StillNotFound(q)
          PROVE  q = p
      BY <1>1, <3>4 DEF StillNotFound, Ends, IndInv, TypeOK
    <3>5. ASSUME NEW c \in Contexts,
                 Expires(c) \/ PodRestarts(c) \/ \E s \in Switchers : Swap(s, c)
          PROVE  FALSE
      BY <3>2, <3>5 DEF Expires, PodRestarts, Swap, metricsVars, pollVars
    <3>6. ASSUME NEW s \in Switchers,
                 \/ InvalidateAll(s) \/ OtherHook(s)
                 \/ \E n \in Contexts \union UnknownNames : SwitchRefused(s, n)
          PROVE  FALSE
      BY <3>2, <3>6 DEF InvalidateAll, OtherHook, SwitchRefused, metricsVars, pollVars
    <3>7. CASE UNCHANGED vars
      BY <3>2, <3>7 DEF vars, metricsVars, pollVars
    <3> QED
      BY <1>1, <3>1, <3>3, <3>4, <3>5, <3>6, <3>7 DEF Next, Proceed
  <2>2. ref[p].of = dyn[p] /\ ref[p].pod <= pod[dyn[p]] /\ ref[p].pod # pod[cfg[p]]
    BY <1>1, <2>1 DEF StillNotFound, PodThere, IndInv, OwnRefAfterRetry
  <2>3. cfg[p] \in Contexts /\ ref[p] \in Refs
    BY <1>1, <2>1, DiscoveredType DEF StillNotFound, IndInv, ClientsKnown
  <2>4. ref[p].pod \in Nat /\ pod[cfg[p]] \in Nat
    BY <1>1, <2>3 DEF IndInv, TypeOK, Refs
  <2> QED
    BY <2>2, <2>4
<1>2. IndInv /\ [Next]_vars => [\A p \in Polls : Gone(p)]_vars
  BY <1>1
<1> QED
  BY <1>2, Inductive, PTL DEF Spec, HealedByOneRetry

=============================================================================
