----------------------- MODULE ResponseCache_proofs -----------------------
(***************************************************************************)
(* Proofs about ResponseCache, for every set of requests, routes, contexts *)
(* and switchers, and every time to live.                                  *)
(***************************************************************************)
EXTENDS ResponseCache, TLAPS

\* The invariant holds initially.
LEMMA InitInd == Init => IndInv
<1> SUFFICES ASSUME Init PROVE IndInv
  OBVIOUS
<1> USE CacheAssumption, FactoryAssumption DEF Init, FactoryInit
<1>1. TypeOK
  <2>1. FactoryTypeOK
    BY DEF FactoryTypeOK, Answered, HookCount
  <2>2. ask \in [Requests -> Asks]
    BY DEF Asks
  <2>3. NoBody \in Bodies
    BY DEF NoBody, Bodies
  <2>5. capCache \in CapEntries \union {NoCaps}
    OBVIOUS
  <2>4. pc \in [Requests -> Steps]
    BY DEF Steps
  <2> QED
    BY <2>1, <2>2, <2>3, <2>4, <2>5 DEF TypeOK
<1>2. FlushCoversSwitch
  BY DEF FlushCoversSwitch, NoEntry
<1>3. SettledHitIsRecent
  BY DEF SettledHitIsRecent, NoEntry
<1>4. RequestsTimely
  BY DEF RequestsTimely, NoEntry
<1>5. AsksInPast
  BY DEF AsksInPast
<1>6. ReadsBeforeSwap
  BY DEF ReadsBeforeSwap, ReadBeforeSwap, NoEntry, NoBody, NoCaps
<1>7. EntriesInTime
  BY DEF EntriesInTime, ExpiresInTime, NoEntry, NoCaps
<1> QED
  BY <1>1, <1>2, <1>3, <1>4, <1>5, <1>6, <1>7 DEF IndInv

\* The empty body is a body.
LEMMA NoBodyType == NoBody \in Bodies
BY DEF NoBody, Bodies

(* How old an answer may be is a number.                                   *)
LEMMA AgesAreNumbers ==
  ASSUME NEW p \in Routes
  PROVE  /\ Behind(p) \in Nat
         /\ TTL[p] \in Nat
         /\ MaxHandler \in Nat /\ CapTTL \in Nat
         /\ OldestHit(p) = Behind(p) + MaxHandler + TTL[p]
         /\ p \in CapRoutes => Behind(p) = MaxHandler + CapTTL
BY CacheAssumption DEF Behind, OldestHit

(* What a request is left with when it ends.                               *)
LEMMA EndsType ==
  ASSUME TypeOK, NEW r \in Requests, Ends(r)
  PROVE  /\ pc' \in [Requests -> Steps]
         /\ ask' \in [Requests -> Asks]
         /\ found' \in [Requests -> Entries \union {NoEntry}]
         /\ body' \in [Requests -> Bodies]
<1>1. [ask[r] EXCEPT !.start = 0, !.epoch = 0, !.settled = TRUE] \in Asks
  BY DEF TypeOK, Asks
<1>2. ask' \in [Requests -> Asks]
  BY <1>1 DEF TypeOK, Ends
<1> QED
  BY <1>2, NoBodyType DEF TypeOK, Ends, Steps

\* Every step keeps the types.
LEMMA TypeStep == TypeOK /\ [Next]_vars => TypeOK'
<1> SUFFICES ASSUME TypeOK, [Next]_vars PROVE TypeOK'
  OBVIOUS
<1> USE CacheAssumption, FactoryAssumption DEF TypeOK, factoryVars, cacheVars
<1>1. ASSUME NEW r \in Requests, NEW k \in Keys, Arrive(r, k)
      PROVE  TypeOK'
  <2>1. [key |-> k, start |-> now, epoch |-> epoch, settled |-> AllRan(HookCount)] \in Asks
    BY DEF Asks, FactoryTypeOK, AllRan
  <2>2. ask' \in [Requests -> Asks]
    BY <1>1, <2>1 DEF Arrive
  <2> QED
    BY <1>1, <2>2 DEF Arrive, HandlerOf, Steps, FactoryTypeOK
<1>2. ASSUME NEW r \in Requests, HandlerReads(r)
      PROVE  TypeOK'
  <2>1. AfterRead(body[r]) \in Bodies
    <3>1. [from |-> {active}, epoch |-> epoch, at |-> now] \in Bodies
      BY DEF Bodies, FactoryTypeOK
    <3>2. [body[r] EXCEPT !.from = @ \union {active}] \in Bodies
      BY DEF Bodies, FactoryTypeOK
    <3> QED
      BY <3>1, <3>2 DEF AfterRead
  <2> QED
    BY <1>2, <2>1 DEF HandlerReads, FactoryTypeOK
<1>3. ASSUME NEW r \in Requests, ServeHit(r) \/ HandlerFails(r)
      PROVE  TypeOK'
  BY <1>3, EndsType DEF ServeHit, HandlerFails, FactoryTypeOK
<1>4. ASSUME NEW r \in Requests, FoundExpired(r) \/ CapCacheMiss(r)
      PROVE  TypeOK'
  BY <1>4 DEF FoundExpired, CapCacheMiss, HandlerOf, Steps, FactoryTypeOK
<1>13. ASSUME NEW r \in Requests, CapCacheHit(r)
       PROVE  TypeOK'
  <2>1. capCache.body \in Bodies
    <3>1. capCache \in CapEntries
      BY <1>13 DEF CapCacheHit, NoCaps
    <3> QED
      BY <3>1 DEF CapEntries
  <2> QED
    BY <1>13, <2>1 DEF CapCacheHit, Steps, FactoryTypeOK
<1>14. ASSUME NEW r \in Requests, HandlerOk(r)
       PROVE  TypeOK'
  <2>1. [body |-> body[r], expires |-> now + CapTTL, some |-> TRUE] \in CapEntries
    BY DEF CapEntries
  <2>2. capCache' \in CapEntries \union {NoCaps}
    BY <1>14, <2>1 DEF HandlerOk
  <2> QED
    BY <1>14, <2>2 DEF HandlerOk, Steps, FactoryTypeOK
<1>5. ASSUME NEW r \in Requests, Store(r)
      PROVE  TypeOK'
  <2> DEFINE e == [body |-> body[r], expires |-> now + TTL[ask[r].key.route],
                   stored |-> epoch, some |-> TRUE]
  <2>1. ask[r].key \in Keys /\ TTL[ask[r].key.route] \in Nat
    BY DEF Asks, Keys
  <2>2. e \in Entries
    BY <2>1 DEF Entries, FactoryTypeOK
  <2>3. entries' \in [Keys -> Entries \union {NoEntry}]
    BY <1>5, <2>1, <2>2 DEF Store
  <2> QED
    BY <1>5, <2>3, EndsType DEF Store, FactoryTypeOK
<1>6. CASE PurgeStarts
  BY <1>6 DEF PurgeStarts, FactoryTypeOK
<1>7. CASE PurgeSweeps
  BY <1>7 DEF PurgeSweeps, FactoryTypeOK
<1>8. ASSUME NEW s \in Switchers, NEW c \in Contexts, SwapClients(s, c)
      PROVE  TypeOK'
  BY <1>8 DEF SwapClients, Load, FactoryTypeOK, Answered, HookCount
<1>9. ASSUME NEW s \in Switchers, NEW n \in Contexts \union UnknownNames,
             SwitchRefused(s, n)
      PROVE  TypeOK'
  BY <1>9 DEF SwitchRefused, RefuseSwitch, FactoryTypeOK, Answered, HookCount
<1>10. ASSUME NEW s \in Switchers, RunHooks(s)
       PROVE  TypeOK'
  BY <1>10 DEF RunHooks, Flush, OtherHook, RanHook, FactoryTypeOK, Answered,
               HookCount, PodRefHook, FlushHook, FleetPodRefHook
<1>11. CASE Tick
  BY <1>11 DEF Tick, FactoryTypeOK
<1>12. CASE UNCHANGED vars
  BY <1>12 DEF vars, FactoryTypeOK
<1> QED
  BY <1>1, <1>2, <1>3, <1>4, <1>5, <1>6, <1>7, <1>8, <1>9, <1>10, <1>11, <1>12, <1>13, <1>14
     DEF Next, Middleware

(* Every reachable state has the types the code's variables have.          *)
THEOREM TypeCorrect == Spec => []TypeOK
<1>1. Init => TypeOK
  BY InitInd DEF IndInv
<1> QED
  BY <1>1, TypeStep, PTL DEF Spec

-----------------------------------------------------------------------------
(***************************************************************************)
(* FlushCoversSwitch is inductive by itself: a swap makes the swapping     *)
(* switcher owe a Flush, and a set() after the swap records the new epoch. *)
(***************************************************************************)
LEMMA FlushStep ==
  TypeOK /\ FlushCoversSwitch /\ [Next]_vars => FlushCoversSwitch'
<1> SUFFICES ASSUME TypeOK, FlushCoversSwitch, [Next]_vars
             PROVE  FlushCoversSwitch'
  OBVIOUS
<1> USE DEF FlushCoversSwitch, FlushHook
<1>1. CASE UNCHANGED <<entries, epoch, hookPos>>
  BY <1>1 DEF AllRan, YetToRun
<1>2. ASSUME NEW r \in Requests, Store(r)
      PROVE  FlushCoversSwitch'
  BY <1>2 DEF Store, TypeOK, factoryVars, AllRan, YetToRun
<1>3. CASE PurgeSweeps
  BY <1>3 DEF PurgeSweeps, NoEntry, factoryVars, AllRan, YetToRun
<1>4. ASSUME NEW s \in Switchers, NEW c \in Contexts, SwapClients(s, c)
      PROVE  FlushCoversSwitch'
  <2>1. hookPos'[s] = 1
    BY <1>4 DEF SwapClients, Load, TypeOK, FactoryTypeOK
  <2> QED
    BY <2>1 DEF AllRan, YetToRun
<1>5. ASSUME NEW s \in Switchers, NEW n \in Contexts \union UnknownNames,
             SwitchRefused(s, n)
      PROVE  FlushCoversSwitch'
  BY <1>5 DEF SwitchRefused, RefuseSwitch, cacheVars, AllRan, YetToRun,
              Answered, HookCount, TypeOK, FactoryTypeOK
<1>6. ASSUME NEW s \in Switchers, Flush(s)
      PROVE  FlushCoversSwitch'
  BY <1>6 DEF Flush, NoEntry
<1>7. ASSUME NEW s \in Switchers, OtherHook(s)
      PROVE  FlushCoversSwitch'
  BY <1>7 DEF OtherHook, RanHook, PodRefHook, FleetPodRefHook, cacheVars,
              AllRan, YetToRun, TypeOK, FactoryTypeOK, Answered, HookCount
<1>8. ASSUME NEW r \in Requests, NEW k \in Keys, Arrive(r, k)
      PROVE  FlushCoversSwitch'
  BY <1>1, <1>8 DEF Arrive, factoryVars
<1>9. ASSUME NEW r \in Requests,
             \/ HandlerReads(r) \/ ServeHit(r) \/ FoundExpired(r) \/ CapCacheHit(r)
             \/ CapCacheMiss(r) \/ HandlerOk(r) \/ HandlerFails(r)
      PROVE  FlushCoversSwitch'
  BY <1>1, <1>9
     DEF HandlerReads, ServeHit, FoundExpired, CapCacheHit, CapCacheMiss, HandlerOk,
         HandlerFails, factoryVars
<1>10. CASE PurgeStarts \/ Tick \/ UNCHANGED vars
  BY <1>1, <1>10 DEF PurgeStarts, Tick, vars, factoryVars, cacheVars
<1> QED
  BY <1>2, <1>3, <1>4, <1>5, <1>6, <1>7, <1>8, <1>9, <1>10
     DEF Next, Middleware, RunHooks

(* However the swaps and the flushes of several switches interleave with   *)
(* requests, purges and each other, once the flushes are done the cache    *)
(* holds nothing that was stored before the latest swap.                   *)
THEOREM FlushCovers == Spec => []FlushCoversSwitch
<1>1. Init => FlushCoversSwitch
  BY InitInd DEF IndInv
<1> QED
  BY <1>1, TypeCorrect, FlushStep, PTL DEF Spec

-----------------------------------------------------------------------------
(***************************************************************************)
(* A lookup that finds an entry remembers it; what it was asked, and the   *)
(* entry, stay until the request ends.                                     *)
(***************************************************************************)
LEMMA SettledStep ==
  /\ TypeOK /\ FlushCoversSwitch /\ SettledHitIsRecent /\ AsksInPast
  /\ [Next]_vars
  => SettledHitIsRecent' /\ AsksInPast'
<1> SUFFICES ASSUME TypeOK, FlushCoversSwitch, SettledHitIsRecent, AsksInPast,
                    [Next]_vars
             PROVE  SettledHitIsRecent' /\ AsksInPast'
  OBVIOUS
<1> USE DEF SettledHitIsRecent, AsksInPast, factoryVars, cacheVars
<1>1. CASE UNCHANGED <<found, ask, epoch>>
  BY <1>1
<1>2. ASSUME NEW r \in Requests, NEW k \in Keys, Arrive(r, k)
      PROVE  SettledHitIsRecent' /\ AsksInPast'
  <2>1. AllRan(HookCount) => AllRan(FlushHook)
    BY DEF AllRan, YetToRun, HookCount, FlushHook
  <2> QED
    BY <1>2, <2>1 DEF Arrive, TypeOK, FactoryTypeOK, NoEntry, FlushCoversSwitch
<1>3. ASSUME NEW r \in Requests, Ends(r), UNCHANGED epoch
      PROVE  SettledHitIsRecent' /\ AsksInPast'
  <2>1. found'[r] = NoEntry /\ ask'[r].epoch = 0
    BY <1>3 DEF Ends, TypeOK, Asks
  <2>2. \A q \in Requests \ {r} : found'[q] = found[q] /\ ask'[q] = ask[q]
    BY <1>3 DEF Ends, TypeOK
  <2> QED
    BY <1>3, <2>1, <2>2 DEF NoEntry, TypeOK, FactoryTypeOK
<1>4. ASSUME NEW r \in Requests, FoundExpired(r)
      PROVE  SettledHitIsRecent' /\ AsksInPast'
  BY <1>4 DEF FoundExpired, NoEntry, TypeOK
<1>5. ASSUME NEW s \in Switchers, NEW c \in Contexts, SwapClients(s, c)
      PROVE  SettledHitIsRecent' /\ AsksInPast'
  <2>1. epoch' = epoch + 1 /\ UNCHANGED <<found, ask>>
    BY <1>5 DEF SwapClients, Load
  <2>2. \A r \in Requests : ask[r].epoch \in Nat /\ epoch \in Nat
    BY DEF TypeOK, FactoryTypeOK, Asks
  <2> QED
    BY <2>1, <2>2
<1>6. ASSUME NEW r \in Requests, ServeHit(r) \/ HandlerFails(r) \/ Store(r)
      PROVE  SettledHitIsRecent' /\ AsksInPast'
  BY <1>3, <1>6 DEF ServeHit, HandlerFails, Store
<1>7. ASSUME NEW r \in Requests,
             HandlerReads(r) \/ HandlerOk(r) \/ CapCacheHit(r) \/ CapCacheMiss(r)
      PROVE  SettledHitIsRecent' /\ AsksInPast'
  BY <1>1, <1>7 DEF HandlerReads, HandlerOk, CapCacheHit, CapCacheMiss
<1>8. ASSUME NEW s \in Switchers, RunHooks(s)
      PROVE  SettledHitIsRecent' /\ AsksInPast'
  BY <1>1, <1>8 DEF RunHooks, Flush, OtherHook, RanHook
<1>9. ASSUME NEW s \in Switchers, NEW n \in Contexts \union UnknownNames,
             SwitchRefused(s, n)
      PROVE  SettledHitIsRecent' /\ AsksInPast'
  BY <1>1, <1>9 DEF SwitchRefused, RefuseSwitch
<1>10. CASE PurgeStarts \/ PurgeSweeps \/ Tick \/ UNCHANGED vars
  BY <1>1, <1>10 DEF PurgeStarts, PurgeSweeps, Tick, vars
<1> QED
  BY <1>2, <1>4, <1>5, <1>6, <1>7, <1>8, <1>9, <1>10 DEF Next, Middleware

(* After a switch has been answered no request is answered from an entry   *)
(* that was stored before it, whatever happens between its lookup and its  *)
(* reply.                                                                  *)
THEOREM SettledHits == Spec => []SettledHitIsRecent
<1>1. Init => SettledHitIsRecent /\ AsksInPast
  BY InitInd DEF IndInv
<1> QED
  BY <1>1, TypeCorrect, FlushCovers, SettledStep, PTL DEF Spec

-----------------------------------------------------------------------------
(***************************************************************************)
(* Time.                                                                   *)
(***************************************************************************)
LEMMA TimelyStep ==
  TypeOK /\ RequestsTimely /\ EntriesInTime /\ [Next]_vars => RequestsTimely'
<1> SUFFICES ASSUME TypeOK, RequestsTimely, EntriesInTime, [Next]_vars
             PROVE  RequestsTimely'
  OBVIOUS
<1> USE CacheAssumption DEF RequestsTimely, factoryVars, cacheVars
<1>0. /\ now \in Nat
      /\ pc \in [Requests -> Steps]
      /\ ask \in [Requests -> Asks]
      /\ found \in [Requests -> Entries \union {NoEntry}]
      /\ body \in [Requests -> Bodies]
      /\ \A r \in Requests : ask[r].key.route \in Routes
  BY DEF TypeOK, Asks, Keys
<1>1. CASE UNCHANGED <<now, pc, ask, found, body>>
  BY <1>1
<1>2. ASSUME NEW r \in Requests, NEW k \in Keys, Arrive(r, k)
      PROVE  RequestsTimely'
  <2>1. body[r] = NoBody
    BY <1>2 DEF Arrive
  <2> QED
    BY <1>0, <1>2, <2>1 DEF Arrive, HandlerOf, Asks, Entries, NoEntry
<1>3. ASSUME NEW r \in Requests, HandlerReads(r)
      PROVE  RequestsTimely'
  <2>1. ask[r].start <= AfterRead(body[r]).at
    BY <1>0, <1>3 DEF HandlerReads, AfterRead, Asks, Bodies
  <2>2. body'[r] = AfterRead(body[r])
    BY <1>0, <1>3 DEF HandlerReads
  <2>3. \A q \in Requests \ {r} : body'[q] = body[q]
    BY <1>0, <1>3 DEF HandlerReads
  <2> QED
    BY <1>3, <2>1, <2>2, <2>3 DEF HandlerReads
<1>4. ASSUME NEW r \in Requests, Ends(r), UNCHANGED now
      PROVE  RequestsTimely'
  BY <1>0, <1>4 DEF Ends, NoEntry
<1>5. ASSUME NEW r \in Requests, FoundExpired(r) \/ CapCacheMiss(r)
      PROVE  RequestsTimely'
  BY <1>0, <1>5 DEF FoundExpired, CapCacheMiss, HandlerOf, NoEntry
<1>10. ASSUME NEW r \in Requests, CapCacheHit(r)
       PROVE  RequestsTimely'
  <2> DEFINE b == capCache.body
             p == ask[r].key.route
  <2>1. capCache \in CapEntries
    BY <1>10 DEF CapCacheHit, TypeOK, NoCaps
  <2>2. /\ now \in Nat /\ ask[r].start \in Nat /\ capCache.expires \in Nat /\ b.at \in Nat
        /\ MaxHandler \in Nat /\ CapTTL \in Nat
    BY <1>0, <2>1 DEF CapEntries, Bodies, Asks
  <2>3. now <= capCache.expires
    BY <1>10, <2>2 DEF CapCacheHit, Expired
  <2>4. b # NoBody /\ capCache.expires <= b.at + MaxHandler + CapTTL
    BY <1>10 DEF CapCacheHit, EntriesInTime
  <2>5. ask[r].start <= now /\ p \in CapRoutes
    BY <1>10 DEF CapCacheHit
  <2>6. Behind(p) = MaxHandler + CapTTL
    BY <2>5 DEF Behind
  <2>7. ask[r].start <= b.at + Behind(p)
    BY <2>2, <2>3, <2>4, <2>5, <2>6
  <2>8. /\ pc' = [pc EXCEPT ![r] = "storing"]
        /\ body' = [body EXCEPT ![r] = b]
        /\ UNCHANGED <<now, ask, found>>
    BY <1>10 DEF CapCacheHit
  <2>9. pc[r] = "capCache"
    BY <1>10 DEF CapCacheHit
  <2> HIDE DEF b, p
  <2> QED
    BY <1>0, <2>4, <2>7, <2>8, <2>9 DEF p
<1>11. ASSUME NEW r \in Requests, HandlerOk(r)
       PROVE  RequestsTimely'
  <2>1. /\ ask[r].start \in Nat /\ body[r].at \in Nat
        /\ Behind(ask[r].key.route) \in Nat
    BY <1>0, AgesAreNumbers DEF Asks, Bodies
  <2>2. ask[r].start <= body[r].at + Behind(ask[r].key.route)
    BY <1>11, <2>1 DEF HandlerOk
  <2> QED
    BY <1>0, <1>11, <2>2 DEF HandlerOk
<1>6. CASE Tick
  BY <1>0, <1>6 DEF Tick, Asks
<1>7. ASSUME NEW r \in Requests, ServeHit(r) \/ HandlerFails(r) \/ Store(r)
      PROVE  RequestsTimely'
  BY <1>4, <1>7 DEF ServeHit, HandlerFails, Store
<1>8. ASSUME NEW s \in Switchers,
             \/ RunHooks(s)
             \/ \E c \in Contexts : SwapClients(s, c)
             \/ \E n \in Contexts \union UnknownNames : SwitchRefused(s, n)
      PROVE  RequestsTimely'
  BY <1>1, <1>8 DEF RunHooks, Flush, OtherHook, SwapClients, SwitchRefused
<1>9. CASE PurgeStarts \/ PurgeSweeps \/ UNCHANGED vars
  BY <1>1, <1>9 DEF PurgeStarts, PurgeSweeps, vars
<1> QED
  BY <1>2, <1>3, <1>5, <1>6, <1>7, <1>8, <1>9, <1>10, <1>11 DEF Next, Middleware

\* Every step keeps the age of the entries.
LEMMA EntriesStep ==
  TypeOK /\ RequestsTimely /\ EntriesInTime /\ [Next]_vars => EntriesInTime'
<1> SUFFICES ASSUME TypeOK, RequestsTimely, EntriesInTime, [Next]_vars
             PROVE  EntriesInTime'
  OBVIOUS
<1> USE CacheAssumption DEF EntriesInTime, ExpiresInTime, factoryVars, cacheVars
<1>1. CASE UNCHANGED <<ask, found, entries, capCache>>
  BY <1>1
<1>2. ASSUME NEW r \in Requests, NEW k \in Keys, Arrive(r, k)
      PROVE  EntriesInTime'
  BY <1>2 DEF Arrive, NoEntry, TypeOK
<1>3. ASSUME NEW r \in Requests, Ends(r)
      PROVE  \A q \in Requests : ExpiresInTime(found'[q], ask'[q].key)
  BY <1>3 DEF Ends, NoEntry, TypeOK
<1>4. ASSUME NEW r \in Requests, FoundExpired(r)
      PROVE  EntriesInTime'
  BY <1>4 DEF FoundExpired, NoEntry, TypeOK
<1>5. ASSUME NEW r \in Requests, Store(r)
      PROVE  EntriesInTime'
  <2> DEFINE p == ask[r].key.route
             ttl == TTL[p]
  <2>1. ask[r].key \in Keys /\ p \in Routes
    BY DEF TypeOK, Asks, Keys
  <2>6. /\ Behind(p) \in Nat /\ ttl \in Nat /\ MaxHandler \in Nat
        /\ OldestHit(p) = Behind(p) + MaxHandler + ttl
    BY <2>1, AgesAreNumbers
  <2>7. now \in Nat /\ ask[r].start \in Nat /\ body[r].at \in Nat
    BY DEF TypeOK, Asks, Bodies
  <2>8. now <= ask[r].start + MaxHandler /\ ask[r].start <= body[r].at + Behind(p)
    BY <1>5 DEF Store, RequestsTimely
  <2>2. now <= body[r].at + Behind(p) + MaxHandler
    BY <2>6, <2>7, <2>8
  <2>3. now + ttl <= body[r].at + OldestHit(p)
    BY <2>2, <2>6, <2>7
  <2>4. \A k \in Keys : ExpiresInTime(entries'[k], k)
    BY <1>5, <2>1, <2>3 DEF Store, TypeOK
  <2> QED
    BY <1>3, <1>5, <2>4 DEF Store
<1>12. ASSUME NEW r \in Requests, HandlerOk(r)
       PROVE  EntriesInTime'
  <2>1. now \in Nat /\ ask[r].start \in Nat /\ body[r].at \in Nat
    BY DEF TypeOK, Asks, Bodies
  <2>2. now <= body[r].at + MaxHandler
    BY <1>12, <2>1 DEF HandlerOk, RequestsTimely
  <2>3. now + CapTTL <= body[r].at + MaxHandler + CapTTL
    BY <2>1, <2>2
  <2>4. capCache'.some => /\ capCache'.body # NoBody
                          /\ capCache'.expires <= capCache'.body.at + MaxHandler + CapTTL
    BY <1>12, <2>3 DEF HandlerOk
  <2> QED
    BY <1>12, <2>4 DEF HandlerOk
<1>6. CASE PurgeSweeps
  BY <1>6 DEF PurgeSweeps, NoEntry
<1>7. ASSUME NEW s \in Switchers, Flush(s)
      PROVE  EntriesInTime'
  BY <1>7 DEF Flush, NoEntry
<1>8. ASSUME NEW r \in Requests, ServeHit(r) \/ HandlerFails(r)
      PROVE  EntriesInTime'
  BY <1>3, <1>8 DEF ServeHit, HandlerFails
<1>9. ASSUME NEW r \in Requests, HandlerReads(r) \/ CapCacheHit(r) \/ CapCacheMiss(r)
      PROVE  EntriesInTime'
  BY <1>1, <1>9 DEF HandlerReads, CapCacheHit, CapCacheMiss
<1>10. ASSUME NEW s \in Switchers,
              \/ OtherHook(s)
              \/ \E c \in Contexts : SwapClients(s, c)
              \/ \E n \in Contexts \union UnknownNames : SwitchRefused(s, n)
       PROVE  EntriesInTime'
  BY <1>1, <1>10 DEF OtherHook, SwapClients, SwitchRefused
<1>11. CASE PurgeStarts \/ Tick \/ UNCHANGED vars
  BY <1>1, <1>11 DEF PurgeStarts, Tick, vars
<1> QED
  BY <1>2, <1>4, <1>5, <1>6, <1>7, <1>8, <1>9, <1>10, <1>11, <1>12
     DEF Next, Middleware, RunHooks

\* Every step keeps what was read before the swap known as such.
LEMMA SwapStep ==
  TypeOK /\ ReadsBeforeSwap /\ [Next]_vars => ReadsBeforeSwap'
<1> SUFFICES ASSUME TypeOK, ReadsBeforeSwap, [Next]_vars
             PROVE  ReadsBeforeSwap'
  OBVIOUS
<1> USE DEF ReadsBeforeSwap, ReadBeforeSwap, factoryVars, cacheVars
<1>0. /\ epoch \in Nat /\ now \in Nat /\ loadedAt \in Nat
      /\ \A r \in Requests : body[r] \in Bodies /\ found[r].body \in Bodies
      /\ \A k \in Keys : entries[k].body \in Bodies
      /\ capCache.body \in Bodies
      /\ \A b \in Bodies : b.epoch \in Nat /\ b.at \in Nat
  <2>1. /\ NoEntry.body \in Bodies /\ \A e \in Entries : e.body \in Bodies
        /\ NoCaps.body \in Bodies /\ \A e \in CapEntries : e.body \in Bodies
    BY NoBodyType DEF NoEntry, Entries, NoCaps, CapEntries
  <2>2. \A b \in Bodies : b.epoch \in Nat /\ b.at \in Nat
    BY DEF Bodies
  <2> QED
    BY <2>1, <2>2 DEF TypeOK, FactoryTypeOK
<1>1. ReadBeforeSwap(NoBody) /\ NoEntry.body = NoBody
  BY <1>0 DEF NoBody, NoEntry
<1>2. CASE UNCHANGED <<now, epoch, loadedAt, capCache, body, found, entries>>
  BY <1>2
<1>3. ASSUME NEW r \in Requests, NEW k \in Keys, Arrive(r, k)
      PROVE  ReadsBeforeSwap'
  BY <1>1, <1>3 DEF Arrive, TypeOK
<1>4. ASSUME NEW r \in Requests, HandlerReads(r)
      PROVE  ReadsBeforeSwap'
  <2>1. ReadBeforeSwap(AfterRead(body[r]))
    BY <1>0 DEF AfterRead, Bodies
  <2> QED
    BY <1>4, <2>1 DEF HandlerReads, TypeOK
<1>5. ASSUME NEW r \in Requests, Ends(r), UNCHANGED <<now, epoch, loadedAt, capCache, entries>>
      PROVE  ReadsBeforeSwap'
  BY <1>1, <1>5 DEF Ends, TypeOK
<1>6. ASSUME NEW r \in Requests, FoundExpired(r)
      PROVE  ReadsBeforeSwap'
  BY <1>1, <1>6 DEF FoundExpired, TypeOK
<1>7. ASSUME NEW r \in Requests, Store(r)
      PROVE  ReadsBeforeSwap'
  <2>1. \A k \in Keys : ReadBeforeSwap(entries'[k].body)
    BY <1>7 DEF Store, TypeOK
  <2> QED
    BY <1>1, <1>7, <2>1 DEF Store, Ends, TypeOK
<1>8. CASE PurgeSweeps
  BY <1>1, <1>8 DEF PurgeSweeps
<1>9. ASSUME NEW s \in Switchers, NEW c \in Contexts, SwapClients(s, c)
      PROVE  ReadsBeforeSwap'
  <2>1. epoch' = epoch + 1 /\ loadedAt' = now /\ UNCHANGED <<now, capCache, body, found, entries>>
    BY <1>9 DEF SwapClients, Load
  <2> QED
    BY <1>0, <2>1
<1>10. ASSUME NEW s \in Switchers, Flush(s)
       PROVE  ReadsBeforeSwap'
  BY <1>1, <1>10 DEF Flush, RanHook
<1>11. CASE Tick
  BY <1>0, <1>11 DEF Tick
<1>12. ASSUME NEW r \in Requests, ServeHit(r) \/ HandlerFails(r) \/ CapCacheMiss(r)
       PROVE  ReadsBeforeSwap'
  BY <1>2, <1>5, <1>12 DEF ServeHit, HandlerFails, CapCacheMiss
<1>15. ASSUME NEW r \in Requests, CapCacheHit(r)
       PROVE  ReadsBeforeSwap'
  BY <1>15 DEF CapCacheHit, TypeOK
<1>16. ASSUME NEW r \in Requests, HandlerOk(r)
       PROVE  ReadsBeforeSwap'
  BY <1>16 DEF HandlerOk
<1>13. ASSUME NEW s \in Switchers,
              OtherHook(s) \/ \E n \in Contexts \union UnknownNames : SwitchRefused(s, n)
       PROVE  ReadsBeforeSwap'
  BY <1>2, <1>13 DEF OtherHook, RanHook, SwitchRefused, RefuseSwitch
<1>14. CASE PurgeStarts \/ UNCHANGED vars
  BY <1>2, <1>14 DEF PurgeStarts, vars
<1> QED
  BY <1>3, <1>4, <1>6, <1>7, <1>8, <1>9, <1>10, <1>11, <1>12, <1>13, <1>14, <1>15, <1>16
     DEF Next, Middleware, RunHooks

-----------------------------------------------------------------------------
(***************************************************************************)
(* What a HIT serves.                                                      *)
(***************************************************************************)
THEOREM Inductive == Spec => []IndInv
<1>1. IndInv /\ [Next]_vars => IndInv'
  BY TypeStep, FlushStep, SettledStep, TimelyStep, EntriesStep, SwapStep DEF IndInv
<1> QED
  BY <1>1, InitInd, PTL DEF Spec

(* Only ServeHit answers a request that has found an entry.                *)
LEMMA HitIsServeHit ==
  ASSUME TypeOK, [Next]_vars, NEW r \in Requests, Hit(r)
  PROVE  ServeHit(r)
<1> USE DEF Hit, TypeOK, factoryVars, cacheVars
<1>1. CASE UNCHANGED pc
  BY <1>1
<1>2. ASSUME NEW q \in Requests, pc[q] # "found", pc' = [pc EXCEPT ![q] = pc'[q]]
      PROVE  FALSE
  BY <1>2
<1>3. ASSUME NEW q \in Requests, Middleware(q)
      PROVE  ServeHit(r)
  BY <1>2, <1>3 DEF Middleware, ServeHit, FoundExpired, CapCacheHit, CapCacheMiss,
                    HandlerOk, HandlerFails, Store, Ends, HandlerOf
<1>4. ASSUME NEW q \in Requests, HandlerReads(q) \/ \E k \in Keys : Arrive(q, k)
      PROVE  ServeHit(r)
  BY <1>1, <1>2, <1>4 DEF HandlerReads, Arrive
<1>5. ASSUME NEW s \in Switchers,
             \/ RunHooks(s)
             \/ \E c \in Contexts : SwapClients(s, c)
             \/ \E n \in Contexts \union UnknownNames : SwitchRefused(s, n)
      PROVE  ServeHit(r)
  BY <1>1, <1>5 DEF RunHooks, Flush, OtherHook, SwapClients, SwitchRefused
<1>6. CASE PurgeStarts \/ PurgeSweeps \/ Tick \/ UNCHANGED vars
  BY <1>1, <1>6 DEF PurgeStarts, PurgeSweeps, Tick, vars
<1> QED
  BY <1>3, <1>4, <1>5, <1>6 DEF Next

\* What a hit serves is of bounded age.
LEMMA HitStep == IndInv /\ [Next]_vars => FreshHits /\ OldHitsEnd
<1> SUFFICES ASSUME IndInv, [Next]_vars, NEW r \in Requests, Hit(r)
             PROVE  /\ now <= found[r].body.at + OldestHit(ask[r].key.route)
                    /\ found[r].body.epoch < epoch
                       => now <= loadedAt + OldestHit(ask[r].key.route)
  BY DEF FreshHits, OldHitsEnd
<1> DEFINE e == found[r]
           age == OldestHit(ask[r].key.route)
<1>0. TypeOK /\ ServeHit(r)
  BY HitIsServeHit DEF IndInv
<1>1. now <= e.expires /\ e.some
  <2>1. e.some
    BY <1>0 DEF IndInv, RequestsTimely, ServeHit
  <2>2. e \in Entries
    BY <1>0, <2>1 DEF TypeOK, NoEntry
  <2>3. e.expires \in Nat /\ now \in Nat
    BY <1>0, <2>2 DEF TypeOK, Entries
  <2> QED
    BY <1>0, <2>1, <2>3 DEF ServeHit, Expired
<1>2. /\ now \in Nat /\ loadedAt \in Nat /\ age \in Nat
      /\ e.expires \in Nat /\ e.body.at \in Nat
  <2>1. e \in Entries
    BY <1>1 DEF IndInv, TypeOK, NoEntry
  <2>2. e.expires \in Nat /\ e.body.at \in Nat
    BY <2>1 DEF Entries, Bodies
  <2>3. ask[r].key.route \in Routes
    BY DEF IndInv, TypeOK, Asks, Keys
  <2>4. age \in Nat
    BY <2>3, AgesAreNumbers
  <2> QED
    BY <2>2, <2>4 DEF IndInv, TypeOK
<1>3. e.expires <= e.body.at + age
  BY <1>1 DEF IndInv, EntriesInTime, ExpiresInTime
<1>4. e.body.epoch < epoch => e.body.at <= loadedAt
  BY DEF IndInv, ReadsBeforeSwap, ReadBeforeSwap
<1> HIDE DEF age
<1>5. now <= e.body.at + age /\ (e.body.epoch < epoch => now <= loadedAt + age)
  BY <1>1, <1>2, <1>3, <1>4
<1> QED
  BY <1>5 DEF age

(* No HIT serves data read longer ago than a handler's time and the time   *)
(* to live of its route, for the capabilities also that of an earlier      *)
(* handler and of capCache.                                                *)
THEOREM Staleness == Spec => BoundedStaleness
  BY Inductive, HitStep, PTL DEF Spec, BoundedStaleness

(* No HIT serves the previous cluster's data later after the switch than   *)
(* a HIT of its route may be old.                                          *)
THEOREM OldCluster == Spec => OldClusterWindow
  BY Inductive, HitStep, PTL DEF Spec, OldClusterWindow

-----------------------------------------------------------------------------
(***************************************************************************)
(* The purge goroutine.                                                    *)
(***************************************************************************)

\* The clock that a purge has read is never ahead of the one lookups read, however long
\* the purge waits for the lock.
PurgeClockBehind == purging => purgeNow <= now

\* No step sets the clock of a purge ahead.
LEMMA PurgeClockStep ==
  ASSUME TypeOK, PurgeClockBehind, [Next]_vars
  PROVE  PurgeClockBehind'
<1> USE DEF PurgeClockBehind, TypeOK
<1>1. CASE PurgeStarts
  BY <1>1 DEF PurgeStarts
<1>2. CASE PurgeSweeps
  BY <1>2 DEF PurgeSweeps
<1>3. CASE Tick
  BY <1>3 DEF Tick
<1>4. ASSUME UNCHANGED <<now, purging, purgeNow>>
      PROVE  PurgeClockBehind'
  BY <1>4
<1>5. ASSUME NEW r \in Requests, (\E k \in Keys : Arrive(r, k)) \/ HandlerReads(r) \/ Middleware(r)
      PROVE  UNCHANGED <<now, purging, purgeNow>>
  BY <1>5 DEF Arrive, HandlerReads, Middleware, ServeHit, FoundExpired, CapCacheHit,
              CapCacheMiss, HandlerOk, HandlerFails, Store
<1>6. ASSUME NEW s \in Switchers,
             \/ \E c \in Contexts : SwapClients(s, c)
             \/ \E n \in Contexts \union UnknownNames : SwitchRefused(s, n)
             \/ RunHooks(s)
      PROVE  UNCHANGED <<now, purging, purgeNow>>
  BY <1>6 DEF SwapClients, SwitchRefused, RunHooks, Flush, OtherHook, cacheVars
<1>7. CASE UNCHANGED vars
  BY <1>7 DEF vars, cacheVars
<1> QED
  BY <1>1, <1>2, <1>3, <1>4, <1>5, <1>6, <1>7 DEF Next

\* What a sweep takes had expired by the clock of the purge, hence by the clock.
LEMMA SweepStep ==
  ASSUME TypeOK, PurgeClockBehind, [Next]_vars, purging, ~purging'
  PROVE  \A k \in Keys : entries[k].some /\ ~entries'[k].some => Expired(entries[k], now)
<1>1. PurgeSweeps
  BY DEF Next, Arrive, HandlerReads, Middleware, ServeHit, FoundExpired, CapCacheHit,
         CapCacheMiss, HandlerOk, HandlerFails, Store, PurgeStarts, SwapClients, SwitchRefused, RunHooks, Flush,
         OtherHook, Tick, vars, cacheVars, TypeOK
<1> SUFFICES ASSUME NEW k \in Keys, entries[k].some, ~entries'[k].some
             PROVE  Expired(entries[k], now)
  OBVIOUS
<1>2. Expired(entries[k], purgeNow)
  BY <1>1 DEF PurgeSweeps
<1>3. entries[k].expires \in Nat
  <2>1. entries[k] \in Entries \union {NoEntry}
    BY DEF TypeOK
  <2>2. entries[k] # NoEntry
    BY DEF NoEntry
  <2>3. entries[k] \in Entries
    BY <2>1, <2>2, Zenon
  <2> QED
    BY <2>3 DEF Entries
<1> QED
  BY <1>1, <1>2, <1>3 DEF PurgeClockBehind, PurgeSweeps, TypeOK, Expired

(* The purge goroutine, which reads the clock before it takes the lock, takes *)
(* away only entries that no lookup would serve any more.                  *)
THEOREM PurgeIsSafe == Spec => PurgeTakesOnlyExpired
<1>1. Init => PurgeClockBehind
  BY DEF Init, PurgeClockBehind
<1> QED
  BY <1>1, TypeCorrect, PurgeClockStep, SweepStep, PTL DEF Spec, PurgeTakesOnlyExpired

-----------------------------------------------------------------------------
(***************************************************************************)
(* ResponseCache implements ReadThrough.                                   *)
(***************************************************************************)

\* The standing of a request in the abstract memory, by its place in the code.
LEMMA StandingFacts ==
  ASSUME IndInv, NEW r \in Requests
  PROVE  /\ pc[r] = "idle" => Standing[r] = Reads!Idle
         /\ pc[r] # "idle" =>
              Standing[r] = Reads!Waiting(ask[r].key.route, ask[r].start,
                                          IF found[r].some THEN {found[r].body} ELSE {})
BY DEF Standing, Reads!Idle, Reads!Waiting

(* A step that leaves the requests alone leaves the readers alone.         *)
LEMMA StandingStays ==
  ASSUME UNCHANGED <<pc, ask, found>>
  PROVE  Standing' = Standing
BY DEF Standing

\* The abstract memory depends on the entries only.
LEMMA RememberedStays ==
  ASSUME UNCHANGED entries
  PROVE  Remembered' = Remembered
BY DEF Remembered

(* A step that moves one request moves one reader.                         *)
LEMMA StandingOfOne ==
  ASSUME TypeOK, NEW r \in Requests,
         \A q \in Requests \ {r} :
           pc'[q] = pc[q] /\ ask'[q] = ask[q] /\ found'[q] = found[q]
  PROVE  Standing' = [Standing EXCEPT ![r] = Standing'[r]]
BY DEF Standing

(* The request is over: its reader is idle.                                *)
LEMMA EndsIdle ==
  ASSUME TypeOK, NEW r \in Requests, Ends(r)
  PROVE  Standing' = [Standing EXCEPT ![r] = Reads!Idle]
<1>1. Standing'[r] = Reads!Idle
  BY DEF Ends, TypeOK, Standing, Reads!Idle
<1>2. \A q \in Requests \ {r} :
        pc'[q] = pc[q] /\ ask'[q] = ask[q] /\ found'[q] = found[q]
  BY DEF Ends, TypeOK
<1> QED
  BY <1>1, <1>2, StandingOfOne

\* The initial states are the abstract one's.
LEMMA InitRefines == Init => Reads!Init
<1> SUFFICES ASSUME Init PROVE Reads!Init
  OBVIOUS
<1>1. Remembered = {}
  BY DEF Init, Remembered, NoEntry
<1>2. Standing = [r \in Requests |-> Reads!Idle]
  BY DEF Init, Standing, Reads!Idle
<1> QED
  BY <1>1, <1>2 DEF Init, FactoryInit, Reads!Init

(* Arrive is the reader's Ask.                                             *)
LEMMA ArriveRefines ==
  ASSUME IndInv, NEW r \in Requests, NEW k \in Keys, Arrive(r, k)
  PROVE  Reads!Ask(r, k.route)
<1>0. TypeOK /\ pc[r] = "idle"
  BY DEF IndInv, Arrive
<1>1. Standing[r] = Reads!Idle
  BY <1>0, StandingFacts
<1>2. UNCHANGED <<now, active, epoch>> /\ Remembered' = Remembered
  BY RememberedStays DEF Arrive, factoryVars
<1>3. \A q \in Requests \ {r} :
        pc'[q] = pc[q] /\ ask'[q] = ask[q] /\ found'[q] = found[q]
  BY <1>0 DEF Arrive, TypeOK
<1>4. Standing' = [Standing EXCEPT ![r] = Standing'[r]]
  BY <1>0, <1>3, StandingOfOne
<1>5. ask'[r].key = k /\ ask'[r].start = now
  BY <1>0 DEF Arrive, TypeOK
<1>6. CASE ~k.refresh /\ entries[k].some
  <2>1. pc'[r] = "found" /\ found'[r] = entries[k]
    BY <1>0, <1>6 DEF Arrive, TypeOK
  <2>2. Standing'[r] = Reads!Waiting(k.route, now, {entries[k].body})
    BY <1>5, <1>6, <2>1 DEF Standing, Reads!Waiting
  <2>3. [route |-> k.route, data |-> entries[k].body] \in Remembered
    BY <1>6 DEF Remembered
  <2> QED
    BY <1>1, <1>2, <1>4, <2>2, <2>3 DEF Reads!Ask
<1>7. CASE ~(~k.refresh /\ entries[k].some)
  <2>1. pc'[r] \in {"capCache", "handler"} /\ found'[r] = NoEntry
    BY <1>0, <1>7 DEF Arrive, HandlerOf, TypeOK
  <2>2. Standing'[r] = Reads!Waiting(k.route, now, {})
    BY <1>5, <2>1 DEF Standing, Reads!Waiting, NoEntry
  <2> QED
    BY <1>1, <1>2, <1>4, <2>2 DEF Reads!Ask
<1> QED
  BY <1>6, <1>7

\* A request is for a key of a route.
LEMMA RouteOf ==
  ASSUME IndInv, NEW r \in Requests
  PROVE  ask[r].key \in Keys /\ ask[r].key.route \in Routes
BY DEF IndInv, TypeOK, Asks, Keys

(* ServeHit answers from memory, and what it serves is recent enough.      *)
LEMMA HitRefines ==
  ASSUME IndInv, NEW r \in Requests, ServeHit(r)
  PROVE  Reads!FromMemory(r, ask[r].key.route)
<1> DEFINE p == ask[r].key.route
           e == found[r]
<1>0. TypeOK /\ pc[r] = "found" /\ e.some /\ ~Expired(e, now)
  BY DEF IndInv, RequestsTimely, ServeHit
<1>1. e \in Entries /\ now \in Nat
  BY <1>0 DEF TypeOK, NoEntry
<1>2. /\ e.body.at \in Nat /\ e.expires \in Nat
      /\ OldestHit(p) \in Nat
  <2>1. p \in Routes
    BY RouteOf
  <2>2. OldestHit(p) \in Nat
    BY <2>1, AgesAreNumbers
  <2> QED
    BY <1>1, <2>2 DEF Entries, Bodies
<1>3. e.body.at <= now
  BY <1>0 DEF IndInv, ReadsBeforeSwap, ReadBeforeSwap
<1>4. e.expires <= e.body.at + OldestHit(p)
  BY <1>0 DEF IndInv, EntriesInTime, ExpiresInTime
<1>5. now <= e.expires
  BY <1>0, <1>1, <1>2 DEF Expired
<1>6. now <= e.body.at + OldestHit(p)
  BY <1>1, <1>2, <1>4, <1>5
<1>7. Standing[r] = Reads!Waiting(p, ask[r].start, {e.body})
  BY <1>0, StandingFacts
<1>8. Standing[r].route = {p} /\ Standing[r].handed = {e.body}
  BY <1>7 DEF Reads!Waiting
<1>9. Standing' = [Standing EXCEPT ![r] = Reads!Idle]
  BY <1>0, EndsIdle DEF ServeHit
<1>10. UNCHANGED <<now, active, epoch>> /\ Remembered' = Remembered
  BY RememberedStays DEF ServeHit, factoryVars
<1> QED
  BY <1>3, <1>6, <1>8, <1>9, <1>10 DEF Reads!FromMemory

\* A lookup that finds an expired entry declines it.
LEMMA ExpiredRefines ==
  ASSUME IndInv, NEW r \in Requests, FoundExpired(r)
  PROVE  Reads!Declined(r)
<1>0. TypeOK /\ pc[r] = "found" /\ found[r].some
  BY DEF IndInv, RequestsTimely, FoundExpired
<1>1. Standing[r] = Reads!Waiting(ask[r].key.route, ask[r].start, {found[r].body})
  BY <1>0, StandingFacts
<1>2. /\ \A q \in Requests \ {r} :
           pc'[q] = pc[q] /\ ask'[q] = ask[q] /\ found'[q] = found[q]
      /\ pc'[r] \in {"capCache", "handler"} /\ found'[r] = NoEntry /\ ask'[r] = ask[r]
  BY <1>0 DEF FoundExpired, HandlerOf, TypeOK
<1>3. Standing'[r] = Reads!Waiting(ask[r].key.route, ask[r].start, {})
  <2>1. ~found'[r].some
    BY <1>2 DEF NoEntry
  <2> QED
    BY <1>2, <2>1 DEF Standing, Reads!Waiting
<1>4. Standing'[r] = [Standing[r] EXCEPT !.handed = {}]
  BY <1>1, <1>3 DEF Reads!Waiting
<1>5. Standing' = [Standing EXCEPT ![r] = Standing'[r]]
  BY <1>0, <1>2, StandingOfOne
<1>6. Standing[r].handed # {}
  BY <1>1 DEF Reads!Waiting
<1>7. UNCHANGED <<now, active, epoch>> /\ Remembered' = Remembered
  BY RememberedStays DEF FoundExpired, factoryVars
<1> QED
  BY <1>4, <1>5, <1>6, <1>7 DEF Reads!Declined

(* A request in or after its handler is a reader that was handed nothing.  *)
LEMMA UnderWay ==
  ASSUME IndInv, NEW r \in Requests, pc[r] \in {"handler", "storing"}
  PROVE  Standing[r] = Reads!Waiting(ask[r].key.route, ask[r].start, {})
<1>1. pc[r] # "idle" /\ ~found[r].some
  BY DEF IndInv, RequestsTimely
<1> QED
  BY <1>1, StandingFacts

\* A handler that fails answers live.
LEMMA FailRefines ==
  ASSUME IndInv, NEW r \in Requests, HandlerFails(r)
  PROVE  Reads!Live(r, ask[r].key.route)
<1>0. TypeOK /\ pc[r] = "handler"
  BY DEF IndInv, HandlerFails
<1>1. Standing[r].route = {ask[r].key.route} /\ Standing[r].handed = {}
  <2>1. Standing[r] = Reads!Waiting(ask[r].key.route, ask[r].start, {})
    BY <1>0, UnderWay
  <2> QED
    BY <2>1 DEF Reads!Waiting
<1>2. Standing' = [Standing EXCEPT ![r] = Reads!Idle]
  BY <1>0, EndsIdle DEF HandlerFails
<1>3. UNCHANGED <<now, active, epoch>> /\ Remembered' = Remembered
  BY RememberedStays DEF HandlerFails, factoryVars
<1> QED
  BY <1>1, <1>2, <1>3 DEF Reads!Live

(* What Store adds to the memory was read from clusters of the kubeconfig, *)
(* while its reader waited.                                                *)
LEMMA StoreRefines ==
  ASSUME IndInv, NEW r \in Requests, Store(r)
  PROVE  Reads!Live(r, ask[r].key.route)
<1> DEFINE k == ask[r].key
           new == [route |-> k.route, data |-> body[r]]
<1>0. TypeOK /\ pc[r] = "storing" /\ k \in Keys
  BY RouteOf DEF IndInv, Store
<1>1. Standing[r] = Reads!Waiting(k.route, ask[r].start, {})
  BY <1>0, UnderWay
<1>2. Remembered' \ Remembered \subseteq {new}
  <2> SUFFICES ASSUME NEW l \in Keys, entries'[l].some
               PROVE  \/ [route |-> l.route, data |-> entries'[l].body] = new
                      \/ [route |-> l.route, data |-> entries'[l].body] \in Remembered
    BY DEF Remembered
  <2>1. CASE l = k
    BY <1>0, <2>1 DEF Store, TypeOK
  <2>2. CASE l # k
    <3>1. entries'[l] = entries[l]
      BY <1>0, <2>2 DEF Store, TypeOK
    <3> QED
      BY <3>1 DEF Remembered
  <2> QED
    BY <2>1, <2>2
<1>3. body[r] \in Bodies /\ body[r].from \subseteq Contexts
  BY <1>0 DEF TypeOK, Bodies
<1>4. body[r].at <= now /\ ask[r].start <= body[r].at + Behind(k.route)
  BY <1>0 DEF IndInv, RequestsTimely, ReadsBeforeSwap, ReadBeforeSwap
<1>5. \A m \in Remembered' \ Remembered :
        /\ m.route = k.route
        /\ m.data.at <= now /\ Standing[r].since <= m.data.at + Behind(k.route)
        /\ m.data.from \subseteq Contexts
  BY <1>1, <1>2, <1>3, <1>4 DEF Reads!Waiting
<1>6. Standing[r].route = {k.route} /\ Standing[r].handed = {}
  BY <1>1 DEF Reads!Waiting
<1>7. Standing' = [Standing EXCEPT ![r] = Reads!Idle]
  BY <1>0, EndsIdle DEF Store
<1>8. UNCHANGED <<now, active, epoch>>
  BY DEF Store, factoryVars
<1> QED
  BY <1>5, <1>6, <1>7, <1>8 DEF Reads!Live

(* Within the handler nothing of the reader changes.                       *)
LEMMA HandlerStutters ==
  ASSUME IndInv, NEW r \in Requests,
         HandlerReads(r) \/ HandlerOk(r) \/ CapCacheHit(r) \/ CapCacheMiss(r)
  PROVE  UNCHANGED Reads!vars
<1>0. TypeOK /\ pc[r] # "idle"
  BY DEF IndInv, HandlerReads, HandlerOk, CapCacheHit, CapCacheMiss
<1>1. UNCHANGED <<now, active, epoch, entries, ask, found>>
  BY DEF HandlerReads, HandlerOk, CapCacheHit, CapCacheMiss, factoryVars
<1>2. \A q \in Requests : pc'[q] = "idle" <=> pc[q] = "idle"
  BY <1>0 DEF HandlerReads, HandlerOk, CapCacheHit, CapCacheMiss, TypeOK
<1>3. Standing' = Standing
  BY <1>1, <1>2 DEF Standing
<1> QED
  BY <1>1, <1>3, RememberedStays DEF Reads!vars

(* Flush and Purge forget.                                                 *)
LEMMA ForgetRefines ==
  ASSUME IndInv, PurgeSweeps \/ \E s \in Switchers : Flush(s)
  PROVE  Reads!Forget
<1>1. \A k \in Keys : entries'[k].some => entries'[k] = entries[k]
  BY DEF PurgeSweeps, Flush, NoEntry
<1>2. Remembered' \subseteq Remembered
  BY <1>1 DEF Remembered
<1>3. UNCHANGED <<now, active, epoch, pc, ask, found>>
  BY DEF PurgeSweeps, Flush, RanHook, factoryVars
<1> QED
  BY <1>2, <1>3, StandingStays DEF Reads!Forget

\* Every step is a step of the abstract memory or a stutter.
LEMMA StepRefines == IndInv /\ [Next]_vars => [Reads!Next]_(Reads!vars)
<1> SUFFICES ASSUME IndInv, [Next]_vars PROVE Reads!Next \/ UNCHANGED Reads!vars
  OBVIOUS
<1>1. ASSUME NEW r \in Requests, NEW k \in Keys, Arrive(r, k)
      PROVE  Reads!Next
  <2>1. k.route \in Routes
    BY DEF Keys
  <2> QED
    BY <1>1, <2>1, ArriveRefines DEF Reads!Next
<1>2. ASSUME NEW r \in Requests, HandlerReads(r)
      PROVE  UNCHANGED Reads!vars
  BY <1>2, HandlerStutters
<1>3. ASSUME NEW r \in Requests, Middleware(r)
      PROVE  Reads!Next \/ UNCHANGED Reads!vars
  <2>1. CASE ServeHit(r)
    BY <2>1, HitRefines, RouteOf DEF Reads!Next
  <2>2. CASE FoundExpired(r)
    BY <2>2, ExpiredRefines DEF Reads!Next
  <2>3. CASE HandlerOk(r) \/ CapCacheHit(r) \/ CapCacheMiss(r)
    BY <2>3, HandlerStutters
  <2>4. CASE HandlerFails(r)
    BY <2>4, FailRefines, RouteOf DEF Reads!Next
  <2>5. CASE Store(r)
    BY <2>5, StoreRefines, RouteOf DEF Reads!Next
  <2> QED
    BY <1>3, <2>1, <2>2, <2>3, <2>4, <2>5 DEF Middleware
<1>4. CASE PurgeSweeps \/ \E s \in Switchers : Flush(s)
  BY <1>4, ForgetRefines DEF Reads!Next
<1>5. ASSUME UNCHANGED <<entries, pc, ask, found, now, active, epoch>>
      PROVE  UNCHANGED Reads!vars
  BY <1>5, StandingStays, RememberedStays DEF Reads!vars
<1>6. CASE PurgeStarts \/ UNCHANGED vars
  BY <1>5, <1>6 DEF PurgeStarts, vars, factoryVars, cacheVars
<1>7. ASSUME NEW s \in Switchers, OtherHook(s)
      PROVE  UNCHANGED Reads!vars
  BY <1>5, <1>7 DEF OtherHook, RanHook, cacheVars
<1>8. ASSUME NEW s \in Switchers, NEW n \in Contexts \union UnknownNames,
             SwitchRefused(s, n)
      PROVE  UNCHANGED Reads!vars
  BY <1>5, <1>8 DEF SwitchRefused, RefuseSwitch, cacheVars
<1>9. ASSUME NEW s \in Switchers, NEW c \in Contexts, SwapClients(s, c)
      PROVE  Reads!Next
  <2>1. Reads!Switch(c)
    BY <1>9, StandingStays, RememberedStays DEF SwapClients, Load, Reads!Switch
  <2> QED
    BY <2>1 DEF Reads!Next
<1>10. CASE Tick
  <2>1. Reads!Tick
    BY <1>10, StandingStays, RememberedStays DEF Tick, factoryVars, Reads!Tick
  <2> QED
    BY <2>1 DEF Reads!Next
<1> QED
  BY <1>1, <1>2, <1>3, <1>4, <1>6, <1>7, <1>8, <1>9, <1>10 DEF Next, RunHooks

(* The cache, its purge, its flush on a switch and its middleware together *)
(* implement reading through a memory: what is served from it is of the    *)
(* age the route's times to live allow, and what enters it is as new as    *)
(* the route's source, the cluster or capCache.                            *)
THEOREM Refinement == Spec => ReadsThrough
<1>1. Spec => [][Reads!Next]_(Reads!vars)
  BY Inductive, StepRefines, PTL DEF Spec
<1> QED
  BY <1>1, InitRefines, PTL DEF Spec, ReadsThrough, Reads!Spec

=============================================================================
