--------------------------- MODULE ResponseCache ---------------------------
(***************************************************************************)
(* The HTTP response cache (internal/cache/cache.go) as NewRouter wires it *)
(* (internal/server/server.go): its middleware in front of the cached GET  *)
(* routes, its purge goroutine, and its Flush as a context-switch hook of  *)
(* the client factory.                                                     *)
(*                                                                         *)
(* The handler of one cached route, GET /kro/capabilities, answers from a  *)
(* cache of its own, capCache (internal/api/handlers/capabilities.go),     *)
(* which no switch clears.  The other handlers read the cluster: the       *)
(* discovery cache, which they go through, only tells under which plural   *)
(* to ask.                                                                 *)
(*                                                                         *)
(* A response body is abstracted to where and when its data was read.  The *)
(* fields epoch, at, stored, and the variable loadedAt, are history: the   *)
(* code keeps no such data, and no guard reads them.                       *)
(***************************************************************************)
EXTENDS ClientFactory

CONSTANTS
  Requests,      (* Goroutines serving cached GET routes, one request each *)
                 (* at a time.                                             *)
  Routes,        (* Cached paths with their query, refresh left out.       *)
  CapRoutes,     (* Those whose handler is GetCapabilities.                *)
  RefreshFlags,  (* Whether clients ask with refresh=true: within BOOLEAN. *)
  TTL,           (* The time to live of each route's responses.            *)
  CapTTL,        (* defaultCapabilitiesTTL, that of capCache.              *)
  MaxHandler,    (* Longest time from a request's arrival to its set().    *)
  MaxTime        (* Bound: when the clock stops.                           *)

ASSUME CacheAssumption ==
  /\ CapRoutes \subseteq Routes
  /\ RefreshFlags \subseteq BOOLEAN
  /\ CapTTL \in Nat
  /\ TTL \in [Routes -> Nat]
  /\ MaxHandler \in Nat
  /\ MaxTime \in Nat

VARIABLES
  now,       (* The clock, time.Now().                                     *)
  capCache,  (* What GetCapabilities remembers, or NoCaps.                 *)
  entries,   (* The cache: per key an entry, NoEntry where the map has none. *)
  pc,        (* Per request: how far the middleware has come.              *)
  ask,       (* Per request: what it asks for and when it arrived.         *)
  found,     (* Per request: the entry its lookup found, or NoEntry.       *)
  body,      (* Per request: what its handler has read so far, or NoBody.  *)
  purging,   (* Is the purge goroutine between reading the clock and the   *)
             (* lock?                                                      *)
  purgeNow,  (* The clock the purge goroutine has read.                    *)
  loadedAt   (* When the clients were last swapped.                        *)

cacheVars == <<now, capCache, entries, pc, ask, found, body, purging, purgeNow, loadedAt>>
vars == <<factoryVars, cacheVars>>

(* cacheKey keeps the whole query: refresh=true makes a key of its own.    *)
Keys == [route : Routes, refresh : RefreshFlags]

(* Clusters the data came from; clients and time of the first read.        *)
Bodies == [from : SUBSET Contexts, epoch : Nat, at : Nat]
NoBody == [from |-> {}, epoch |-> 0, at |-> 0]

(* An entry of the cache; stored is the epoch of the set() that made it.   *)
Entries == [body : Bodies, expires : Nat, stored : Nat, some : {TRUE}]
NoEntry == [body |-> NoBody, expires |-> 0, stored |-> 0, some |-> FALSE]

(* capCache: a result, and the last instant it is served at.               *)
CapEntries == [body : Bodies, expires : Nat, some : {TRUE}]
NoCaps == [body |-> NoBody, expires |-> 0, some |-> FALSE]

(* settled: every switch that had swapped the clients by the arrival had   *)
(* been answered as well.                                                  *)
Asks == [key : Keys, start : Nat, epoch : Nat, settled : BOOLEAN]

Steps == {"idle", "found", "capCache", "handler", "storing"}

TypeOK ==
  /\ FactoryTypeOK
  /\ now \in Nat
  /\ capCache \in CapEntries \union {NoCaps}
  /\ entries \in [Keys -> Entries \union {NoEntry}]
  /\ pc \in [Requests -> Steps]
  /\ ask \in [Requests -> Asks]
  /\ found \in [Requests -> Entries \union {NoEntry}]
  /\ body \in [Requests -> Bodies]
  /\ purging \in BOOLEAN
  /\ purgeNow \in Nat
  /\ loadedAt \in Nat

Init ==
  /\ FactoryInit
  /\ now = 0
  /\ capCache = NoCaps
  /\ entries = [k \in Keys |-> NoEntry]
  /\ pc = [r \in Requests |-> "idle"]
  /\ \E key \in [Requests -> Keys] :
       ask = [r \in Requests |-> [key |-> key[r], start |-> 0, epoch |-> 0,
                                  settled |-> TRUE]]
  /\ found = [r \in Requests |-> NoEntry]
  /\ body = [r \in Requests |-> NoBody]
  /\ purging = FALSE
  /\ purgeNow = 0
  /\ loadedAt = 0
-----------------------------------------------------------------------------
(***************************************************************************)
(* The middleware.                                                         *)
(***************************************************************************)

(* A wrong expiry check, to test the properties: one tick late.            *)
ExpiredLate(e, t) == t > e.expires + 1

(* time.Now().After(expires): the instant of expiry itself still counts.   *)
Expired(e, t) == t > e.expires

(* Where a route's handler begins.                                         *)
HandlerOf(p) == IF p \in CapRoutes THEN "capCache" ELSE "handler"

(* A request arrives and get() reads the map under its read lock; with     *)
(* refresh=true the lookup is skipped.                                     *)
Arrive(r, k) ==
  /\ pc[r] = "idle"
  /\ ask' = [ask EXCEPT ![r] = [key |-> k, start |-> now, epoch |-> epoch,
                                settled |-> AllRan(HookCount)]]
  /\ IF ~k.refresh /\ entries[k].some
     THEN /\ pc' = [pc EXCEPT ![r] = "found"]
          /\ found' = [found EXCEPT ![r] = entries[k]]
     ELSE /\ pc' = [pc EXCEPT ![r] = HandlerOf(k.route)]
          /\ found' = [found EXCEPT ![r] = NoEntry]
  /\ UNCHANGED <<factoryVars, now, capCache, entries, body, purging, purgeNow, loadedAt>>

(* The request is over: what it held is let go.                            *)
Ends(r) ==
  /\ pc' = [pc EXCEPT ![r] = "idle"]
  /\ ask' = [ask EXCEPT ![r].start = 0, ![r].epoch = 0, ![r].settled = TRUE]
  /\ found' = [found EXCEPT ![r] = NoEntry]
  /\ body' = [body EXCEPT ![r] = NoBody]

(* HIT: after the lock is released, the entry is found not to have expired *)
(* and is written out.                                                     *)
ServeHit(r) ==
  /\ pc[r] = "found"
  /\ ~Expired(found[r], now)
  /\ Ends(r)
  /\ UNCHANGED <<factoryVars, now, capCache, entries, purging, purgeNow, loadedAt>>

(* The entry the lookup found has expired: MISS, the handler is called.    *)
FoundExpired(r) ==
  /\ pc[r] = "found"
  /\ Expired(found[r], now)
  /\ pc' = [pc EXCEPT ![r] = HandlerOf(ask[r].key.route)]
  /\ found' = [found EXCEPT ![r] = NoEntry]
  /\ UNCHANGED <<factoryVars, now, capCache, entries, ask, body, purging, purgeNow, loadedAt>>

(* A wrong hit, to test the properties: it renews what it is answered from. *)
CapCacheHitRenews(r) ==
  /\ pc[r] = "capCache"
  /\ capCache.some /\ ~Expired(capCache, now)
  /\ pc' = [pc EXCEPT ![r] = "storing"]
  /\ body' = [body EXCEPT ![r] = capCache.body]
  /\ capCache' = [capCache EXCEPT !.expires = now + CapTTL]
  /\ UNCHANGED <<factoryVars, now, entries, ask, found, purging, purgeNow, loadedAt>>

(* GetCapabilities answers 200 with what capCache holds, whichever cluster *)
(* is active by now.                                                       *)
CapCacheHit(r) ==
  /\ pc[r] = "capCache"
  /\ capCache.some /\ ~Expired(capCache, now)
  /\ pc' = [pc EXCEPT ![r] = "storing"]
  /\ body' = [body EXCEPT ![r] = capCache.body]
  /\ UNCHANGED <<factoryVars, now, capCache, entries, ask, found, purging, purgeNow,
                 loadedAt>>

(* capCache is empty or too old: the cluster is asked.                     *)
CapCacheMiss(r) ==
  /\ pc[r] = "capCache"
  /\ capCache.some => Expired(capCache, now)
  /\ pc' = [pc EXCEPT ![r] = "handler"]
  /\ UNCHANGED <<factoryVars, now, capCache, entries, ask, found, body, purging, purgeNow,
                 loadedAt>>

(* A handler's data b after it has queried the active cluster as well.     *)
AfterRead(b) ==
  IF b = NoBody THEN [from |-> {active}, epoch |-> epoch, at |-> now]
                ELSE [b EXCEPT !.from = @ \union {active}]

(* The handler takes a client from the factory (Dynamic(), Discovery(),    *)
(* ...) and queries its cluster.  Handlers do so more than once, and the   *)
(* active context may have changed in between.                             *)
HandlerReads(r) ==
  /\ pc[r] = "handler"
  /\ body' = [body EXCEPT ![r] = AfterRead(body[r])]
  /\ UNCHANGED <<factoryVars, now, capCache, entries, pc, ask, found, purging, purgeNow,
                 loadedAt>>

(* The handler has written 200 and a body, through the recorder, to the    *)
(* client.  GetCapabilities has kept it as well.                           *)
HandlerOk(r) ==
  /\ pc[r] = "handler"
  /\ body[r] # NoBody
  /\ pc' = [pc EXCEPT ![r] = "storing"]
  /\ capCache' = IF ask[r].key.route \in CapRoutes
                 THEN [body |-> body[r], expires |-> now + CapTTL, some |-> TRUE]
                 ELSE capCache
  /\ UNCHANGED <<factoryVars, now, entries, ask, found, body, purging, purgeNow, loadedAt>>

(* The handler has answered with an error: nothing is stored.  What fails  *)
(* in GetCapabilities leads to the baseline, and 200.                      *)
HandlerFails(r) ==
  /\ pc[r] = "handler"
  /\ ask[r].key.route \notin CapRoutes
  /\ Ends(r)
  /\ UNCHANGED <<factoryVars, now, capCache, entries, purging, purgeNow, loadedAt>>

(* A wrong set(), to test the properties: the time to live is doubled.     *)
StoreForTwice(r) ==
  /\ pc[r] = "storing"
  /\ entries' = [entries EXCEPT ![ask[r].key] =
                   [body |-> body[r], expires |-> now + 2 * TTL[ask[r].key.route],
                    stored |-> epoch, some |-> TRUE]]
  /\ Ends(r)
  /\ UNCHANGED <<factoryVars, now, capCache, purging, purgeNow, loadedAt>>

(* set(): the recorded response replaces whatever the key holds.           *)
Store(r) ==
  /\ pc[r] = "storing"
  /\ entries' = [entries EXCEPT ![ask[r].key] =
                   [body |-> body[r], expires |-> now + TTL[ask[r].key.route],
                    stored |-> epoch, some |-> TRUE]]
  /\ Ends(r)
  /\ UNCHANGED <<factoryVars, now, capCache, purging, purgeNow, loadedAt>>
-----------------------------------------------------------------------------
(***************************************************************************)
(* The purge goroutine: Purge() reads the clock, then takes the lock.      *)
(***************************************************************************)
PurgeStarts ==
  /\ ~purging
  /\ purging' = TRUE
  /\ purgeNow' = now
  /\ UNCHANGED <<factoryVars, now, capCache, entries, pc, ask, found, body, loadedAt>>

(* Wrong sweeps, to test the properties: one takes what expires at the     *)
(* very instant it read, one takes nothing.                                *)
PurgeSweepsEarly ==
  /\ purging
  /\ entries' = [k \in Keys |-> IF entries[k].some /\ purgeNow >= entries[k].expires
                                THEN NoEntry ELSE entries[k]]
  /\ purging' = FALSE
  /\ purgeNow' = 0
  /\ UNCHANGED <<factoryVars, now, capCache, pc, ask, found, body, loadedAt>>

PurgeSweepsNothing ==
  /\ purging
  /\ purging' = FALSE
  /\ purgeNow' = 0
  /\ UNCHANGED <<factoryVars, now, capCache, entries, pc, ask, found, body, loadedAt>>

PurgeSweeps ==
  /\ purging
  /\ entries' = [k \in Keys |-> IF Expired(entries[k], purgeNow)
                                THEN NoEntry ELSE entries[k]]
  /\ purging' = FALSE
  /\ purgeNow' = 0
  /\ UNCHANGED <<factoryVars, now, capCache, pc, ask, found, body, loadedAt>>

(***************************************************************************)
(* The context switch.                                                     *)
(***************************************************************************)
SwapClients(s, c) ==
  /\ Load(s, c)
  /\ loadedAt' = now
  /\ UNCHANGED <<now, capCache, entries, pc, ask, found, body, purging, purgeNow>>

SwitchRefused(s, name) ==
  /\ RefuseSwitch(s, name)
  /\ UNCHANGED cacheVars

(* A wrong Flush, to test the properties: it takes only expired entries,   *)
(* as Purge does.                                                          *)
FlushExpired(s) ==
  /\ RanHook(s, FlushHook)
  /\ entries' = [k \in Keys |-> IF Expired(entries[k], now) THEN NoEntry ELSE entries[k]]
  /\ UNCHANGED <<now, capCache, pc, ask, found, body, purging, purgeNow, loadedAt>>

Flush(s) ==
  /\ RanHook(s, FlushHook)
  /\ entries' = [k \in Keys |-> NoEntry]
  /\ UNCHANGED <<now, capCache, pc, ask, found, body, purging, purgeNow, loadedAt>>

OtherHook(s) ==
  /\ \E h \in {PodRefHook, FleetPodRefHook} : RanHook(s, h)
  /\ UNCHANGED cacheVars

(***************************************************************************)
(* Time passes, but no request runs for longer than MaxHandler.            *)
(***************************************************************************)
Tick ==
  /\ now < MaxTime
  /\ \A r \in Requests : pc[r] # "idle" => now < ask[r].start + MaxHandler
  /\ now' = now + 1
  /\ UNCHANGED <<factoryVars, capCache, entries, pc, ask, found, body, purging, purgeNow,
                 loadedAt>>
-----------------------------------------------------------------------------
Middleware(r) ==
  \/ ServeHit(r)
  \/ FoundExpired(r)
  \/ CapCacheHit(r)
  \/ CapCacheMiss(r)
  \/ HandlerOk(r)
  \/ HandlerFails(r)
  \/ Store(r)

RunHooks(s) == Flush(s) \/ OtherHook(s)

Next ==
  \/ \E r \in Requests, k \in Keys : Arrive(r, k)
  \/ \E r \in Requests : HandlerReads(r) \/ Middleware(r)
  \/ PurgeStarts
  \/ PurgeSweeps
  \/ \E s \in Switchers, c \in Contexts : SwapClients(s, c)
  \/ \E s \in Switchers, n \in Contexts \union UnknownNames : SwitchRefused(s, n)
  \/ \E s \in Switchers : RunHooks(s)
  \/ Tick

Spec == Init /\ [][Next]_vars

(* The ticker of the purge goroutine fires for ever, and its sweep only    *)
(* takes a mutex.  Nobody else has to do anything.                         *)
Fairness == WF_vars(PurgeStarts) /\ WF_vars(PurgeSweeps)

FairSpec == Spec /\ Fairness
-----------------------------------------------------------------------------
(***************************************************************************)
(* Properties.                                                             *)
(***************************************************************************)

(* Once every switch that swapped the clients has also flushed the cache,  *)
(* all that the cache holds was stored after the latest swap: switching    *)
(* and flushing in two steps loses nothing, however switches overlap.      *)
FlushCoversSwitch ==
  AllRan(FlushHook) =>
    \A k \in Keys : entries[k].some => entries[k].stored = epoch

(* A request that arrives after a switch has been answered, with no other  *)
(* switch until its reply, is never answered from an entry stored before   *)
(* that switch, even though its lookup and its check of the expiry are two *)
(* steps.                                                                  *)
SettledHitIsRecent ==
  \A r \in Requests :
    found[r].some /\ ask[r].settled /\ ask[r].epoch = epoch
      => found[r].stored = epoch

(* The step in which a request is answered from the cache.                 *)
Hit(r) == pc[r] = "found" /\ pc'[r] = "idle"

(* How old what a handler answers may be: capCache holds what the handler  *)
(* of an earlier request read, for CapTTL after that handler's end.        *)
Behind(p) == IF p \in CapRoutes THEN MaxHandler + CapTTL ELSE 0

(* How old a HIT may be: its data were that old, its handler took some     *)
(* time, and it was kept for the route's time to live.                     *)
OldestHit(p) == Behind(p) + MaxHandler + TTL[p]

FreshHits ==
  \A r \in Requests :
    Hit(r) => now <= found[r].body.at + OldestHit(ask[r].key.route)

(* A HIT serves data read from the cluster at most one handler's time and  *)
(* one time to live ago, for the capabilities two handlers' time and both  *)
(* times to live, whatever requests, purges and switches do.               *)
BoundedStaleness == [][FreshHits]_vars

OldHitsEnd ==
  \A r \in Requests :
    Hit(r) /\ found[r].body.epoch < epoch
      => now <= loadedAt + OldestHit(ask[r].key.route)

(* After a switch the previous cluster's data can still be served: by a    *)
(* HIT on what a request stored that was running during the switch, and,   *)
(* for the capabilities, that was filled from capCache after it.  It ends  *)
(* as long after the swap as a HIT may be old.                             *)
OldClusterWindow == [][OldHitsEnd]_vars

(* The purge goroutine, whose clock is read before it takes the lock, only *)
(* ever takes away entries that no lookup would serve any more.            *)
PurgeTakesOnlyExpired ==
  [][purging /\ ~purging' =>
       \A k \in Keys : entries[k].some /\ ~entries'[k].some
                         => Expired(entries[k], now)]_vars

(* The memory that readers read through, and where each reader stands: a   *)
(* request holds what its lookup found until it is answered.               *)
Remembered ==
  {[route |-> k.route, data |-> entries[k].body] : k \in {l \in Keys : entries[l].some}}

Standing ==
  [r \in Requests |->
     IF pc[r] = "idle" THEN [route |-> {}, since |-> 0, handed |-> {}]
     ELSE [route |-> {ask[r].key.route}, since |-> ask[r].start,
           handed |-> IF found[r].some THEN {found[r].body} ELSE {}]]

Reads == INSTANCE ReadThrough
           WITH Lag <- OldestHit, memory <- Remembered, reader <- Standing

(* The cache implements what its readers were promised: whatever requests, *)
(* purges, flushes and switches do, what is remembered was read at most    *)
(* Behind(route) before its reader asked, and what is served from memory   *)
(* was read at most OldestHit(route) ago.                                  *)
ReadsThrough == Reads!Spec

(* The cache does not grow without bound: an expired entry goes away, or   *)
(* its key is stored anew.                                                 *)
ExpiredGoesAway ==
  \A k \in Keys :
    entries[k].some /\ Expired(entries[k], now)
      ~> ~(entries[k].some /\ Expired(entries[k], now))
-----------------------------------------------------------------------------
(***************************************************************************)
(* What makes the properties above inductive.                              *)
(***************************************************************************)

(* A running request is at most MaxHandler old, and its handler has read   *)
(* nothing before it arrived, or took it from capCache; only a "found"     *)
(* request holds an entry.                                                 *)
RequestsTimely ==
  \A r \in Requests :
    /\ pc[r] # "idle" => ask[r].start <= now /\ now <= ask[r].start + MaxHandler
    /\ pc[r] = "handler" /\ body[r] # NoBody => ask[r].start <= body[r].at
    /\ pc[r] = "storing" =>
         body[r] # NoBody /\ ask[r].start <= body[r].at + Behind(ask[r].key.route)
    /\ pc[r] \in {"idle", "found", "capCache"} => body[r] = NoBody
    /\ pc[r] = "capCache" => ask[r].key.route \in CapRoutes
    /\ found[r].some <=> pc[r] = "found"

AsksInPast == \A r \in Requests : ask[r].epoch <= epoch

(* What was read with the clients of an earlier switch was read before the *)
(* latest swap.                                                            *)
ReadBeforeSwap(b) ==
  /\ b.epoch <= epoch
  /\ b.at <= now
  /\ b.epoch < epoch => b.at <= loadedAt

ReadsBeforeSwap ==
  /\ loadedAt <= now
  /\ ReadBeforeSwap(capCache.body)
  /\ \A r \in Requests : ReadBeforeSwap(body[r]) /\ ReadBeforeSwap(found[r].body)
  /\ \A k \in Keys : ReadBeforeSwap(entries[k].body)

(* The entry e of a key expires soon enough after its data was read.       *)
ExpiresInTime(e, k) == e.some => e.expires <= e.body.at + OldestHit(k.route)

EntriesInTime ==
  /\ capCache.some =>
       capCache.body # NoBody /\ capCache.expires <= capCache.body.at + MaxHandler + CapTTL
  /\ \A r \in Requests : ExpiresInTime(found[r], ask[r].key)
  /\ \A k \in Keys : ExpiresInTime(entries[k], k)

(* The invariant the proofs use.                                           *)
IndInv ==
  /\ TypeOK
  /\ FlushCoversSwitch
  /\ SettledHitIsRecent
  /\ AsksInPast
  /\ RequestsTimely
  /\ ReadsBeforeSwap
  /\ EntriesInTime
-----------------------------------------------------------------------------
(***************************************************************************)
(* What the comments of the code say, and the code does not do.            *)
(***************************************************************************)

(* server.go: "after switching from cluster-A to cluster-B, the next       *)
(* request always hits the new cluster and not a cached response from      *)
(* cluster-A".                                                             *)
NextRequestHitsNewCluster ==
  [][\A r \in Requests :
       Hit(r) /\ ask[r].settled /\ ask[r].epoch = epoch
         => found[r].body.from = {active}]_vars

=============================================================================
