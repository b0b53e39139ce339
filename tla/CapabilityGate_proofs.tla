------------------------ MODULE CapabilityGate_proofs ------------------------
(***************************************************************************)
(* Proofs about CapabilityGate, for every set of requests, applies,        *)
(* contexts and switchers, and every time to live.                         *)
(***************************************************************************)
EXTENDS CapabilityGate, TLAPS

(* Capabilities stay what they are when they get another time to live.     *)
LEMMA UntilType ==
  ASSUME NEW e \in Capabilities, NEW t \in Nat
  PROVE  /\ [e EXCEPT !.until = t] \in Capabilities
         /\ [e EXCEPT !.until = t].gate = e.gate
         /\ [e EXCEPT !.until = t].epoch = e.epoch
         /\ [e EXCEPT !.until = t].at = e.at
         /\ [e EXCEPT !.until = t].until = t
         /\ [e EXCEPT !.until = t].some
BY DEF Capabilities

\* Every step keeps the types.
LEMMA TypeStep == TypeOK /\ CachesInTime /\ [Next]_vars => TypeOK'
<1> SUFFICES ASSUME TypeOK, CachesInTime, [Next]_vars PROVE TypeOK'
  OBVIOUS
<1> USE GateAssumption DEF TypeOK, factoryVars, handlerVars, gateVars, Handlers,
        RequestSteps, ApplySteps
<1>1. ASSUME NEW r \in Requests, ResponseMiss(r) \/ CapCacheHit(r)
      PROVE  TypeOK'
  BY <1>1 DEF ResponseMiss, CapCacheHit, FactoryTypeOK
<1>2. ASSUME NEW r \in Requests, Detect(r)
      PROVE  TypeOK'
  <2>0. {FALSE, (active \in Enabled)} \subseteq BOOLEAN
    OBVIOUS
  <2>1. PICK gate \in BOOLEAN :
          caps' = [caps EXCEPT ![r] = [gate |-> gate, epoch |-> epoch, at |-> now,
                                       until |-> now, some |-> TRUE]]
    BY <1>2, <2>0, Zenon DEF Detect
  <2>2. [gate |-> gate, epoch |-> epoch, at |-> now, until |-> now, some |-> TRUE]
          \in Capabilities
    BY DEF Capabilities, FactoryTypeOK
  <2> QED
    BY <1>2, <2>1, <2>2 DEF Detect, FactoryTypeOK
<1>3. ASSUME NEW r \in Requests, SetCapCache(r) \/ StoreResponse(r)
      PROVE  TypeOK'
  <2>1. caps[r] \in Capabilities
    BY <1>3 DEF SetCapCache, StoreResponse, CachesInTime, NoCaps
  <2>2. /\ [caps[r] EXCEPT !.until = now + CapTTL] \in Capabilities
        /\ [caps[r] EXCEPT !.until = now + ResponseTTL] \in Capabilities
    <3>1. now + CapTTL \in Nat /\ now + ResponseTTL \in Nat
      OBVIOUS
    <3> QED
      BY <2>1, <3>1, UntilType, Zenon
  <2> QED
    BY <1>3, <2>2 DEF SetCapCache, StoreResponse, FactoryTypeOK
<1>4. ASSUME NEW a \in Applies,
             \/ GateOpen(a) \/ GateClosed(a) \/ NotDetected(a) \/ BodyInvalid(a)
             \/ GetRGD(a)
      PROVE  TypeOK'
  <2>1. notFound' \in [Applies -> BOOLEAN]
    BY <1>4, Zenon DEF GateOpen, GateClosed, NotDetected, BodyInvalid, GetRGD, Answer
  <2> QED
    BY <1>4, <2>1 DEF GateOpen, GateClosed, NotDetected, BodyInvalid, GetRGD,
       Answer, Replies, FactoryTypeOK
<1>5. ASSUME NEW a \in Applies, ApplyRGD(a) \/ ApplyFails(a)
      PROVE  TypeOK'
  <2>1. notFound' \in [Applies -> BOOLEAN]
    BY <1>5, Zenon DEF ApplyRGD, ApplyFails, Answer
  <2>2. exists' \in SUBSET Contexts
    BY <1>5 DEF ApplyRGD, ApplyFails, FactoryTypeOK
  <2> QED
    BY <1>5, <2>1, <2>2 DEF ApplyRGD, ApplyFails, Answer, Replies, FactoryTypeOK
<1>6. ASSUME NEW c \in Contexts, RGDDeleted(c)
      PROVE  TypeOK'
  BY <1>6 DEF RGDDeleted, FactoryTypeOK
<1>7. ASSUME NEW s \in Switchers, NEW c \in Contexts, SwapClients(s, c)
      PROVE  TypeOK'
  BY <1>7 DEF SwapClients, Load, FactoryTypeOK, Answered, HookCount
<1>8. ASSUME NEW s \in Switchers, NEW n \in Contexts \union UnknownNames,
             SwitchRefused(s, n)
      PROVE  TypeOK'
  BY <1>8 DEF SwitchRefused, RefuseSwitch, FactoryTypeOK, Answered, HookCount
<1>9. ASSUME NEW s \in Switchers, Flush(s) \/ OtherHook(s)
      PROVE  TypeOK'
  BY <1>9 DEF Flush, OtherHook, RanHook, PodRefHook, FlushHook, FleetPodRefHook,
              FactoryTypeOK, Answered, HookCount
<1>10. CASE Tick \/ UNCHANGED vars
  BY <1>10 DEF Tick, vars, FactoryTypeOK
<1> QED
  BY <1>1, <1>2, <1>3, <1>4, <1>5, <1>6, <1>7, <1>8, <1>9, <1>10 DEF Next

\* Time passes for no handler beyond its bound.
LEMMA TimelyStep == TypeOK /\ HandlersTimely /\ [Next]_vars => HandlersTimely'
<1> SUFFICES ASSUME TypeOK, HandlersTimely, [Next]_vars PROVE HandlersTimely'
  OBVIOUS
<1> USE GateAssumption DEF TypeOK, HandlersTimely, factoryVars, handlerVars, Handlers
<1>1. CASE UNCHANGED <<now, pc, since>>
  BY <1>1
<1>2. ASSUME NEW r \in Requests, ResponseMiss(r) \/ CapCacheHit(r)
      PROVE  HandlersTimely'
  BY <1>2 DEF ResponseMiss, CapCacheHit
<1>3. ASSUME NEW r \in Requests, Detect(r) \/ SetCapCache(r) \/ StoreResponse(r)
      PROVE  HandlersTimely'
  BY <1>3 DEF Detect, SetCapCache, StoreResponse
<1>4. ASSUME NEW a \in Applies, GateOpen(a) \/ GetRGD(a)
      PROVE  HandlersTimely'
  BY <1>4 DEF GateOpen, GetRGD
<1>5. ASSUME NEW a \in Applies,
             \/ GateClosed(a) \/ NotDetected(a) \/ BodyInvalid(a)
             \/ ApplyRGD(a) \/ ApplyFails(a)
      PROVE  HandlersTimely'
  BY <1>5 DEF GateClosed, NotDetected, BodyInvalid, ApplyRGD, ApplyFails, Answer
<1>6. CASE \/ UNCHANGED vars
           \/ \E c \in Contexts : RGDDeleted(c) \/ \E s \in Switchers : SwapClients(s, c)
  BY <1>1, <1>6 DEF RGDDeleted, SwapClients, vars, gateVars
<1>7. ASSUME NEW s \in Switchers,
             \/ Flush(s) \/ OtherHook(s)
             \/ \E n \in Contexts \union UnknownNames : SwitchRefused(s, n)
      PROVE  HandlersTimely'
  BY <1>1, <1>7 DEF Flush, OtherHook, SwitchRefused, gateVars
<1>8. CASE Tick
  BY <1>8 DEF Tick
<1> QED
  BY <1>2, <1>3, <1>4, <1>5, <1>6, <1>7, <1>8 DEF Next

\* The fields of capabilities.
LEMMA FieldTypes ==
  \A e \in Capabilities : e.epoch \in Nat /\ e.at \in Nat /\ e.until \in Nat /\ e.some
BY DEF Capabilities

\* Every step keeps what was detected true of its cluster.
LEMMA TruthStep ==
  TypeOK /\ CachesInTime /\ DetectedTruthful /\ [Next]_vars => DetectedTruthful'
<1> SUFFICES ASSUME TypeOK, CachesInTime, DetectedTruthful, [Next]_vars
             PROVE  DetectedTruthful'
  OBVIOUS
<1> USE GateAssumption DEF DetectedTruthful, factoryVars, handlerVars
<1>t. /\ now \in Nat /\ epoch \in Nat /\ loadedAt \in Nat
      /\ capCache \in Capabilities \union {NoCaps}
      /\ response \in Capabilities \union {NoCaps}
      /\ caps \in [Requests -> Capabilities \union {NoCaps}]
  BY DEF TypeOK, FactoryTypeOK
<1>n. ~NoCaps.some
  BY DEF NoCaps
<1>1. CASE UNCHANGED <<active, epoch, now, loadedAt, capCache, response, caps>>
  BY <1>1 DEF Truthful
<1>2. ASSUME NEW r \in Requests, CapCacheHit(r)
      PROVE  DetectedTruthful'
  BY <1>t, <1>2 DEF CapCacheHit, Truthful
<1>3. ASSUME NEW r \in Requests, Detect(r)
      PROVE  DetectedTruthful'
  <2>1. PICK gate \in {FALSE, (active \in Enabled)} :
          caps' = [caps EXCEPT ![r] = [gate |-> gate, epoch |-> epoch, at |-> now,
                                       until |-> now, some |-> TRUE]]
    BY <1>3, Zenon DEF Detect
  <2>2. /\ caps'[r].epoch = epoch /\ caps'[r].at = now /\ caps'[r].gate = gate
        /\ \A q \in Requests \ {r} : caps'[q] = caps[q]
    BY <1>t, <2>1
  <2>3. gate => active \in Enabled
    BY <2>1
  <2> QED
    BY <1>t, <1>3, <2>2, <2>3 DEF Detect, Truthful
<1>4. ASSUME NEW r \in Requests, SetCapCache(r)
      PROVE  DetectedTruthful'
  <2>1. caps[r] \in Capabilities
    BY <1>t, <1>4, <1>n DEF SetCapCache, CachesInTime
  <2>2. /\ capCache'.epoch = caps[r].epoch /\ capCache'.at = caps[r].at
        /\ capCache'.gate = caps[r].gate /\ caps[r].some
    BY <1>t, <1>4, <2>1, UntilType, FieldTypes DEF SetCapCache
  <2> QED
    BY <1>4, <2>2 DEF SetCapCache, Truthful
<1>5. ASSUME NEW r \in Requests, StoreResponse(r)
      PROVE  DetectedTruthful'
  <2>1. caps[r] \in Capabilities
    BY <1>t, <1>5, <1>n DEF StoreResponse, CachesInTime
  <2>2. /\ response'.epoch = caps[r].epoch /\ response'.at = caps[r].at
        /\ response'.gate = caps[r].gate /\ caps[r].some
    BY <1>t, <1>5, <2>1, UntilType, FieldTypes DEF StoreResponse
  <2>3. caps'[r] = NoCaps /\ \A q \in Requests \ {r} : caps'[q] = caps[q]
    BY <1>t, <1>5 DEF StoreResponse
  <2> QED
    BY <1>5, <1>n, <2>2, <2>3 DEF StoreResponse, Truthful
<1>6. ASSUME NEW s \in Switchers, NEW c \in Contexts, SwapClients(s, c)
      PROVE  DetectedTruthful'
  <2>1. /\ epoch' = epoch + 1 /\ loadedAt' = now
        /\ UNCHANGED <<now, capCache, response, caps>>
    BY <1>6 DEF SwapClients, Load
  <2>2. \A e \in Capabilities \union {NoCaps} :
          Truthful(e) /\ e.some => e.epoch < epoch' /\ e.epoch # epoch' /\ e.at <= now
    BY <1>t, <1>n, <2>1, FieldTypes DEF Truthful
  <2>3. \A e \in Capabilities \union {NoCaps} :
          Truthful(e) /\ e.some =>
            /\ e.epoch <= epoch' /\ e.at <= now'
            /\ e.epoch = epoch' /\ e.gate => active' \in Enabled
            /\ e.epoch < epoch' => e.at <= loadedAt'
    BY <1>t, <1>n, <2>1, <2>2, FieldTypes
  <2>4. /\ Truthful(capCache)' /\ Truthful(response)'
        /\ \A r \in Requests : Truthful(caps[r])'
    BY <1>t, <2>1, <2>3, Zenon DEF Truthful
  <2> QED
    BY <1>t, <2>1, <2>4
<1>7. ASSUME NEW s \in Switchers, Flush(s)
      PROVE  DetectedTruthful'
  BY <1>7, <1>n DEF Flush, RanHook, Truthful
<1>8. CASE Tick
  <2>1. \A e \in Capabilities \union {NoCaps} : Truthful(e) /\ e.some => e.at <= now + 1
    BY <1>t, <1>n, FieldTypes DEF Truthful
  <2> QED
    BY <1>t, <1>8, <2>1 DEF Tick, Truthful
<1>9. ASSUME NEW r \in Requests, ResponseMiss(r)
      PROVE  DetectedTruthful'
  BY <1>1, <1>9 DEF ResponseMiss
<1>10. ASSUME NEW a \in Applies,
              \/ GateOpen(a) \/ GateClosed(a) \/ NotDetected(a) \/ BodyInvalid(a)
              \/ GetRGD(a) \/ ApplyRGD(a) \/ ApplyFails(a)
       PROVE  DetectedTruthful'
  BY <1>1, <1>10 DEF GateOpen, GateClosed, NotDetected, BodyInvalid, GetRGD,
                     ApplyRGD, ApplyFails, Answer
<1>11. ASSUME NEW s \in Switchers,
              OtherHook(s) \/ \E n \in Contexts \union UnknownNames : SwitchRefused(s, n)
       PROVE  DetectedTruthful'
  BY <1>1, <1>11 DEF OtherHook, RanHook, SwitchRefused, RefuseSwitch, gateVars
<1>12. CASE UNCHANGED vars \/ \E c \in Contexts : RGDDeleted(c)
  BY <1>1, <1>12 DEF RGDDeleted, vars, gateVars
<1> QED
  BY <1>2, <1>3, <1>4, <1>5, <1>6, <1>7, <1>8, <1>9, <1>10, <1>11, <1>12 DEF Next

\* Every step keeps the age of what the two caches hold.
LEMMA CachesStep ==
  TypeOK /\ HandlersTimely /\ CachesInTime /\ [Next]_vars => CachesInTime'
<1> SUFFICES ASSUME TypeOK, HandlersTimely, CachesInTime, [Next]_vars
             PROVE  CachesInTime'
  OBVIOUS
<1> USE GateAssumption DEF CachesInTime, factoryVars, handlerVars
<1>t. /\ now \in Nat
      /\ capCache \in Capabilities \union {NoCaps}
      /\ response \in Capabilities \union {NoCaps}
      /\ caps \in [Requests -> Capabilities \union {NoCaps}]
      /\ \A r \in Requests : since[r] \in Nat
      /\ \A r \in Requests :
           pc[r] # "idle" => since[r] <= now /\ now <= since[r] + MaxHandler
  BY DEF TypeOK, Handlers, HandlersTimely
<1>p. pc \in [Handlers -> RequestSteps \union ApplySteps] /\ since \in [Handlers -> Nat]
      /\ Requests \subseteq Handlers
  BY DEF TypeOK, Handlers
<1>n. ~NoCaps.some
  BY DEF NoCaps
<1>1. ASSUME UNCHANGED <<capCache, response, caps>>,
             \A r \in Requests : pc'[r] = pc[r] /\ since'[r] = since[r]
      PROVE  CachesInTime'
  BY <1>1
<1>2. ASSUME NEW r \in Requests, CapCacheHit(r)
      PROVE  CachesInTime'
  <2>1. capCache \in Capabilities /\ now <= capCache.until
    BY <1>t, <1>n, <1>2 DEF CapCacheHit, Fresh
  <2>2. since[r] <= capCache.at + MaxHandler + CapTTL /\ capCache.some
    BY <1>t, <1>2, <2>1, FieldTypes DEF CapCacheHit
  <2> QED
    BY <1>t, <1>p, <1>2, <2>2 DEF CapCacheHit
<1>3. ASSUME NEW r \in Requests, Detect(r)
      PROVE  CachesInTime'
  <2>1. caps'[r].at = now /\ caps'[r].some /\ \A q \in Requests \ {r} : caps'[q] = caps[q]
    BY <1>t, <1>3 DEF Detect
  <2> QED
    BY <1>t, <1>p, <1>3, <2>1 DEF Detect
<1>4. ASSUME NEW r \in Requests, SetCapCache(r)
      PROVE  CachesInTime'
  <2>1. caps[r] \in Capabilities
    BY <1>t, <1>4, <1>n DEF SetCapCache
  <2>2. capCache'.at = caps[r].at /\ capCache'.until = now + CapTTL
    BY <1>t, <1>4, <2>1, UntilType DEF SetCapCache
  <2>3. since[r] <= caps[r].at /\ now <= since[r] + MaxHandler /\ caps[r].at \in Nat
    BY <1>t, <1>4, <2>1, FieldTypes DEF SetCapCache
  <2> QED
    BY <1>t, <1>p, <1>4, <2>2, <2>3 DEF SetCapCache
<1>5. ASSUME NEW r \in Requests, StoreResponse(r)
      PROVE  CachesInTime'
  <2>1. caps[r] \in Capabilities
    BY <1>t, <1>5, <1>n DEF StoreResponse
  <2>2. response'.at = caps[r].at /\ response'.until = now + ResponseTTL
    BY <1>t, <1>5, <2>1, UntilType DEF StoreResponse
  <2>3. /\ since[r] <= caps[r].at + MaxHandler + CapTTL
        /\ now <= since[r] + MaxHandler /\ caps[r].at \in Nat
    BY <1>t, <1>5, <2>1, FieldTypes DEF StoreResponse
  <2>4. response'.until <= response'.at + CapTTL + ResponseTTL + 2 * MaxHandler
    BY <1>t, <2>2, <2>3
  <2> QED
    BY <1>t, <1>p, <1>n, <1>5, <2>4 DEF StoreResponse
<1>6. ASSUME NEW r \in Requests, ResponseMiss(r)
      PROVE  CachesInTime'
  BY <1>t, <1>p, <1>6 DEF ResponseMiss
<1>7. ASSUME NEW a \in Applies,
             \/ GateOpen(a) \/ GateClosed(a) \/ NotDetected(a) \/ BodyInvalid(a)
             \/ GetRGD(a) \/ ApplyRGD(a) \/ ApplyFails(a)
      PROVE  CachesInTime'
  <2>1. /\ UNCHANGED <<capCache, response, caps>>
        /\ \A r \in Requests : pc'[r] = pc[r] /\ since'[r] = since[r]
    BY <1>p, <1>7 DEF GateOpen, GateClosed, NotDetected, BodyInvalid, GetRGD,
                      ApplyRGD, ApplyFails, Answer
  <2> QED
    BY <1>1, <2>1
<1>8. ASSUME NEW s \in Switchers, Flush(s)
      PROVE  CachesInTime'
  BY <1>8, <1>n DEF Flush
<1>9. CASE \/ Tick \/ UNCHANGED vars
           \/ \E c \in Contexts : RGDDeleted(c) \/ \E s \in Switchers : SwapClients(s, c)
  BY <1>1, <1>9 DEF Tick, RGDDeleted, SwapClients, vars, gateVars
<1>10. ASSUME NEW s \in Switchers,
              OtherHook(s) \/ \E n \in Contexts \union UnknownNames : SwitchRefused(s, n)
       PROVE  CachesInTime'
  BY <1>1, <1>10 DEF OtherHook, SwitchRefused, gateVars
<1> QED
  BY <1>2, <1>3, <1>4, <1>5, <1>6, <1>7, <1>8, <1>9, <1>10 DEF Next

\* An apply that passes the gate passes it on capabilities that were true.
LEMMA GateStep == IndInv /\ [Next]_vars => GatePassed'
<1> SUFFICES ASSUME IndInv, [Next]_vars PROVE GatePassed'
  OBVIOUS
<1> USE GateAssumption DEF IndInv, GatePassed, factoryVars, handlerVars
<1>t. /\ now \in Nat /\ epoch \in Nat /\ loadedAt \in Nat
      /\ capCache \in Capabilities \union {NoCaps}
      /\ pc \in [Handlers -> RequestSteps \union ApplySteps] /\ since \in [Handlers -> Nat]
      /\ Applies \subseteq Handlers
  BY DEF TypeOK, FactoryTypeOK, Handlers
<1>1. ASSUME UNCHANGED <<active, epoch, loadedAt>>,
             \A a \in Applies : pc'[a] # "idle" => pc[a] # "idle" /\ since'[a] = since[a]
      PROVE  GatePassed'
  BY <1>1
<1>2. ASSUME NEW a \in Applies, GateOpen(a)
      PROVE  GatePassed'
  <2>1. capCache \in Capabilities /\ capCache.some /\ now <= capCache.until /\ capCache.gate
    BY <1>t, <1>2 DEF GateOpen, Fresh, NoCaps
  <2>2. capCache.until <= capCache.at + MaxHandler + CapTTL /\ Truthful(capCache)
    BY <2>1 DEF CachesInTime, DetectedTruthful
  <2>3. active \in Enabled \/ (epoch > 0 /\ now <= loadedAt + CapTTL + MaxHandler)
    BY <1>t, <2>1, <2>2, FieldTypes DEF Truthful
  <2> QED
    BY <1>t, <1>2, <2>3 DEF GateOpen
<1>3. ASSUME NEW s \in Switchers, NEW c \in Contexts, SwapClients(s, c)
      PROVE  GatePassed'
  <2>1. \A a \in Applies : pc[a] # "idle" => since[a] \in Nat /\ since[a] <= now
    BY <1>t DEF HandlersTimely
  <2>2. /\ epoch' = epoch + 1 /\ loadedAt' = now /\ UNCHANGED <<pc, since>>
    BY <1>3 DEF SwapClients, Load
  <2> QED
    BY <1>t, <2>1, <2>2
<1>4. ASSUME NEW r \in Requests,
             \/ ResponseMiss(r) \/ CapCacheHit(r) \/ Detect(r)
             \/ SetCapCache(r) \/ StoreResponse(r)
      PROVE  GatePassed'
  <2>1. /\ UNCHANGED <<active, epoch, loadedAt>>
        /\ \A a \in Applies : pc'[a] = pc[a] /\ since'[a] = since[a]
    BY <1>t, <1>4 DEF ResponseMiss, CapCacheHit, Detect, SetCapCache,
                      StoreResponse
  <2> QED
    BY <1>1, <2>1
<1>5. ASSUME NEW a \in Applies,
             \/ GateClosed(a) \/ NotDetected(a) \/ BodyInvalid(a)
             \/ ApplyRGD(a) \/ ApplyFails(a)
      PROVE  GatePassed'
  BY <1>t, <1>5 DEF GateClosed, NotDetected, BodyInvalid, ApplyRGD, ApplyFails, Answer
<1>6. ASSUME NEW a \in Applies, GetRGD(a)
      PROVE  GatePassed'
  BY <1>t, <1>6 DEF GetRGD
<1>7. CASE Tick \/ UNCHANGED vars \/ \E c \in Contexts : RGDDeleted(c)
  BY <1>1, <1>7 DEF Tick, RGDDeleted, vars, gateVars
<1>8. ASSUME NEW s \in Switchers,
             \/ Flush(s) \/ OtherHook(s)
             \/ \E n \in Contexts \union UnknownNames : SwitchRefused(s, n)
      PROVE  GatePassed'
  BY <1>1, <1>8 DEF Flush, OtherHook, RanHook, SwitchRefused, RefuseSwitch, gateVars
<1> QED
  BY <1>2, <1>3, <1>4, <1>5, <1>6, <1>7, <1>8 DEF Next

(* The types, the ages of what is cached, and what an apply past its gate  *)
(* may rely on, are kept by every step.                                    *)
THEOREM Inductive == Spec => []IndInv
<1>1. Init => IndInv
  <2> SUFFICES ASSUME Init PROVE IndInv
    OBVIOUS
  <2>0. notFound \in [Applies -> BOOLEAN]
    BY Zenon DEF Init
  <2>1. TypeOK
    BY <2>0, FactoryAssumption
       DEF Init, FactoryInit, TypeOK, FactoryTypeOK, RequestSteps, ApplySteps, Replies,
           Answered, HookCount
  <2>2. HandlersTimely /\ GatePassed
    BY DEF Init, HandlersTimely, GatePassed, Handlers
  <2>3. DetectedTruthful /\ CachesInTime
    BY DEF Init, DetectedTruthful, CachesInTime, Truthful, NoCaps, Handlers
  <2> QED
    BY <2>1, <2>2, <2>3 DEF IndInv
<1>2. IndInv /\ [Next]_vars => IndInv'
  BY TypeStep, TimelyStep, TruthStep, CachesStep, GateStep DEF IndInv
<1> QED
  BY <1>1, <1>2, PTL DEF Spec

(* What GET /kro/capabilities serves from its two caches is never older    *)
(* than both times to live and two handlers' time.                         *)
THEOREM Age == Spec => []CapabilitiesAge
<1>1. IndInv => CapabilitiesAge
  <2> SUFFICES ASSUME IndInv, response.some, now <= response.until
               PROVE  now <= response.at + CapTTL + ResponseTTL + 2 * MaxHandler
    BY DEF CapabilitiesAge, Fresh
  <2>1. response \in Capabilities /\ now \in Nat
    BY DEF IndInv, TypeOK, NoCaps
  <2>2. response.until <= response.at + CapTTL + ResponseTTL + 2 * MaxHandler
    BY DEF IndInv, CachesInTime
  <2> QED
    BY <2>1, <2>2, FieldTypes, GateAssumption
<1> QED
  BY <1>1, Inductive, PTL

(* A cluster whose gate is off is written to only soon after a switch.     *)
THEOREM GateHolds == Spec => GateHonoured
<1> DEFINE InTime(a) ==
      pc[a] = "apply" /\ pc'[a] = "idle" /\ active \notin Enabled
        => epoch > 0 /\ now <= loadedAt + CapTTL + 2 * MaxHandler
<1>1. IndInv => \A a \in Applies : InTime(a)
  <2> SUFFICES ASSUME IndInv, NEW a \in Applies, pc[a] = "apply", active \notin Enabled
               PROVE  epoch > 0 /\ now <= loadedAt + CapTTL + 2 * MaxHandler
    OBVIOUS
  <2>1. now \in Nat /\ loadedAt \in Nat /\ since[a] \in Nat
    BY DEF IndInv, TypeOK, Handlers
  <2>2. /\ epoch > 0 /\ since[a] <= loadedAt + CapTTL + MaxHandler
        /\ now <= since[a] + MaxHandler
    BY DEF IndInv, GatePassed, HandlersTimely, Handlers
  <2> QED
    BY <2>1, <2>2, GateAssumption
<1>2. IndInv => [\A a \in Applies : InTime(a)]_vars
  BY <1>1
<1> QED
  BY <1>2, Inductive, PTL DEF Spec, GateHonoured

=============================================================================
