# A verification model of kro-ui

kro-ui is a read-only dashboard for kro: a Go server (`cmd/`, `internal/`) that
serves a REST API over the clusters of a kubeconfig, and a React application
(`web/src/`) that polls it. One server has one *active context*, shared by every
browser and tab. Most of what is hard in the program follows from that: caches
that belong to a cluster, requests that are under way while the cluster is
exchanged beneath them, and pages that fetch on several timers and show what
answers last.

The modules in this directory model these parts in TLA+. TLC checks them on
small instances, TLAPS proves their safety properties for every instance.

## 1. Inventory

### Server

| Part | State | Operations | Interacts with | Correct when |
|---|---|---|---|---|
| Client factory `internal/k8s/client.go`, `handlers/contexts.go` | REST config, dynamic and discovery client, active context (one lock); hooks (another lock) | `load`, `SwitchContext`, the readers | every handler reads it, some of them several times per request; hooks call the caches | what depends on the old cluster does not outlive a switch for longer than stated |
| Discovery cache `client.go` 33-65, 243-258 | API lists, expiry | `get`, `set`, `invalidate` | invalidated inside `load`'s critical section, filled outside it | never a result set before the latest swap; an old cluster's result for a bounded time |
| Response cache `internal/cache/cache.go` | map from method, path and query to an entry | `Middleware`, `get`, `set`, `Flush`, `Purge` | in front of 7 routes; flushed by a hook; a goroutine purges it | bounded staleness; flushed by every switch; does not grow for ever |
| Metrics discoverer `internal/k8s/metrics.go` | PodRefCache, per context a pod | `ScrapeMetrics`, `discoverKroPod`, `scrapeViaProxy`, `invalidateAll` | three reads of the factory; the API server's pod proxy | a stale pod costs one retry and no more |
| Capabilities and apply gate `handlers/capabilities.go`, `k8s/capabilities.go`, `ApplyRGD` in `handlers/rgds.go` | capCache | `GetCapabilities`, `DetectCapabilities`, `ApplyRGD` | the response cache stands in front of it; a switch flushes that one and not capCache | the only write of the program reaches only clusters that allow it |
| Fan-outs `instances_all.go`, `k8s/rgd.go`, `events.go`, `handlers/fleet.go` | none | list many resources or clusters in parallel under deadlines | discovery cache, response cache | partial results, and how long they are cached |
| RBAC `k8s/rbac.go`, `access.go` | none | which verbs kro needs, which it has | RGD parsing, roles and bindings | a gap is told if and only if RBAC refuses |
| Router `internal/server/server.go` | none | order of hooks, TTLs, deadlines, the purge goroutine | all of the above | |
| Graph revisions, validation, `dump-fixtures` | none | one call each | | |

### Browser

| Part | State | Operations | Interacts with | Correct when |
|---|---|---|---|---|
| `hooks/usePolling.ts` | data, error, loading, paused, an interval | fetch, pause, resume, visibility, change of dependencies | the API; the page that uses it | one interval exactly when wanted; data of the resource shown |
| `pages/InstanceDetail.tsx` | children, RGD, the latched "gone" ref | a second interval, an RGD fetch per name | `usePolling` | shows one instance, and tells when it is gone |
| Side panels `LiveNodeDetailPanel.tsx`, `CollectionPanel.tsx` | YAML of one resource, timers, what of a Secret is revealed | select, poll, retry, reveal | the instance page, `GET resource` | a node's Secret appears by its button only; an item shows itself |
| Nested graphs `DeepDAG.tsx`, `StaticChainDAG.tsx` | open panels, their loads | expand, close, retry | the list of RGDs, the children | unfolding ends |
| `Layout.tsx`, `ContextSwitcher.tsx` | active context as the browser knows it, generation counter, capabilities | switch with a 10 s abort, capabilities per context | `POST /contexts/switch`, the fleet page | browser and server agree on the cluster |
| `pages/RGDDetail.tsx` | six slots, each filled by an effect keyed by the address | tabs, namespace, overlay, retries | the API | nothing loads for ever; a slot belongs to its RGD |
| `pages/Home.tsx`, alerts, trend | five widgets, last health per instance, samples | refresh, retry, transitions | the API; the layout's bell | "Updated" is said only of fresh data |
| `pages/Catalog.tsx`, `Instances.tsx`, `InstanceTable.tsx` | a list, filters, pages, selections, presets | search, sort, select, compare, save | the API, localStorage | what is shown and counted exists |
| `pages/Events.tsx` | a map by uid, cut when full | poll, filter, page | the API | the newest are kept |
| `pages/Fleet.tsx` | summaries, then metrics, joined to cards | refresh, switch | `handlers/fleet.go` | every context on one card |
| `RevisionsTab.tsx`, `RevisionSelector.tsx` | list, two selections, two checked | select, check, retry | the API | the graph shows what is selected |
| RGD designer `AuthorPage.tsx`, `RGDAuthoringForm.tsx`, `lib/generator.ts` | the design, its draft, verdicts of the server | edit, import, share, restore, validate | localStorage, the API | the draft catches up; a design survives its YAML |
| Pure algorithms `lib/format.ts`, `lib/instanceNodeState.ts`, `lib/dag.ts`, `lib/dag-diff.ts`, `lib/diff.ts`, `useVirtualGrid.ts` | none | health, node state, graph, differences, window of rows | `handlers/fleet.go` classifies health a second time | two classifications of one instance agree; results meet their definitions |

Hard to test, in short: a switch between any two steps of a request; two switches
at once; what is stored after the flush; two caches one behind the other with
different lifetimes; answers in any order; timers started and stopped by three
independent causes; pages that are kept while what they show is exchanged. `PROJECT.json` lists each hazard at its line.

## 2. Modules

| Module | Models | Extends |
|---|---|---|
| `ClientFactory` | `load`, `SwitchContext`, its refusals, the hooks | |
| `ResponseCache` | `internal/cache/cache.go` with the handlers it wraps (of the capabilities' with capCache), the purge goroutine | `ClientFactory` |
| `DiscoveryCache` | the discovery cache in the factory | `ClientFactory` |
| `MetricsDiscoverer` | `internal/k8s/metrics.go` | `ClientFactory` |
| `CapabilityGate` | capCache, the capabilities route, `ApplyRGD` | `ClientFactory` |
| `UsePolling` | `hooks/usePolling.ts` | |
| `InstanceDetail` | `pages/InstanceDetail.tsx` | `UsePolling` |
| `ReadThrough` | what the cached routes promise a reader: an abstract specification, which `ResponseCache` implements | |
| `InstanceHealth` | six classifications of one instance: `lib/format.ts` (twice), `lib/instanceNodeState.ts`, `lib/collection.ts`, `lib/conditions.ts`, `handlers/fleet.go` | |
| `AccessCheck` | `internal/k8s/rbac.go`: plurals, roles and their aggregation, bindings, the permission matrix; against what RBAC grants | |
| `Dag` | `lib/dag.ts`, `lib/dag-diff.ts`: the graph of an RGD, the difference of two, collapse groups | |
| `LineDiff` | `lib/diff.ts` | |
| `ChainView` | `StaticChainDAG.tsx`, `DeepDAG.tsx` | |
| `VirtualGrid` | `VirtualGrid.tsx`, `useVirtualGrid.ts` | |
| `Catalog`, `InstanceList`, `Revisions`, `EventsPage`, `FleetPage`, `RgdPage`, `Overview` | the page, or tab, of that name | |
| `Browser` | `Layout.tsx`, `ContextSwitcher.tsx` and the cards of `Fleet.tsx` against the server's active context | |
| `NodePanel` | `LiveNodeDetailPanel.tsx`, `CollectionPanel.tsx` | |
| `Author`, `Designer` | `AuthorPage.tsx`; the form, its YAML, the imports and the preview (`lib/generator.ts`) | |
| `JsArray` | `Array.prototype.filter` and the stable `Array.prototype.sort`, which the lists of the pages are built with | |
| `MC...` | constants and symmetry for TLC | the module named; `MCWeb` the modules from `InstanceHealth` on |
| `ResponseCache_proofs`, `DiscoveryCache_proofs`, `MetricsDiscoverer_proofs`, `CapabilityGate_proofs`, `InstanceDetail_proofs` | theorems | the module named |
| `Data_proofs` | lemmas about numbers, finite sets and orders, filtered and sorted sequences, and functions defined by recursion | `JsArray` |
| `Pages_proofs` | theorems about what waits for an answer or survives one: `Browser`, `NodePanel`, `RgdPage`, `Overview`, `ChainView`, `Designer`; and about the graph of an RGD: `Dag` | these, `Data_proofs` |
| `Views_proofs` | theorems about what the views derive from data: `VirtualGrid`, `AccessCheck`, `InstanceHealth`, `Revisions`, `EventsPage`, `InstanceList`, `Catalog`, `FleetPage`, `LineDiff` | these, `Data_proofs` |

### How state and steps correspond to the code

*ClientFactory.* `load` replaces config, clients and context under one lock, so
one variable `active` stands for them; `epoch` counts the swaps (history).
`hookPos[s]` is how far goroutine `s` has come in `SwitchContext`: after the swap
each hook is one step, in the order `NewRouter` registers them (the PodRefCache of
`handlers.New`, the flush, the PodRefCache of the second `handlers.New` for the
fleet route). The hooks run outside the factory's lock, so anything may come in
between. A switch is refused, before anything is swapped, for an empty or unknown name,
without a kubeconfig (`InCluster`), or when the kubeconfig cannot be read. A switch to
the context that is active already builds new clients like any other.

*ResponseCache.* One process per request: the lookup (`get` under the lock), the
check of the expiry, which the code makes after the lock is released, the
handler, and `set`. A handler reads the factory each time it needs a client (`ListInstances`
does so three times), so the body records the *set* of clusters it came from
and the instant and epoch of its first read. The handler of the capabilities is one of its own: it answers from capCache
(`CapCacheHit`), which expires after `CapTTL` and which no switch clears, or detects and fills it (`CapCacheMiss`, `HandlerOk`). `time.Now().After(e.expires)` is strict:
an entry is served at the very instant of its expiry. `Purge` reads the clock and
then waits for the lock: two steps. A response is stored for status 200 only; a
refresh is stored under its own key, as the key holds the whole query. `MaxHandler`
bounds a request: the router's `Timeout(5 s)` on `/api/v1`, plus the
discovery client's own timeout for the handlers that use it, since that call takes
no request context.

*DiscoveryCache.* `CachedServerGroupsAndResources`: the lookup, taking the client, the
answer, `set`. The invalidation belongs to the swap itself, not to a hook.

*MetricsDiscoverer.* A poll reads the client, the config and the key in three
steps. `refs[c]` is the cached pod of context `c`; pods are told apart by cluster
and number. The expiry of a reference is a step that may happen at any time (no
clock). The proxy answers 404 exactly when the cluster of the poll's *config* does not have
the pod the poll holds. With `?context=` all three come from one ephemeral client
(`fleet.go`). A failed list is not told from an empty one, as in the code.

*Browser.* `switchReqs` holds the switches the server has not carried out yet, with who waits for them: the switcher, a card
of the fleet, or nobody. The switcher gives up after 10 s or when the connection breaks (`GiveUp`), and the server may still carry
the switch out; a card tells the layout nothing. `untold` (history) says that the last switch was one the bar has not heard of.

*AccessCheck.* `fetchClusterRules` as the code does it: the bindings that name the service account, of the cluster and of its own
namespace, each with the rules of its role, or of the roles its selector aggregates; any read may fail.
RBAC is defined beside it, over the same objects and without the code's functions: groups count, so do bindings of other
namespaces, `resourceNames` confine, and an aggregated role has the rules its controller gave it (`Grants`, `MaySomewhere`,
`MayEverywhere`).

*Designer.* A design is pasted as its own YAML (`ImportOwnYaml`) or loaded from the cluster it was applied to
(`ImportFromCluster`): the API server sorts the keys, `toYaml` prints the first one of a block after its dash, and the parser looks for
`forEach:` and `externalRef:` at the indent of the other keys only (`SeenOfSorted`).

*CapabilityGate.* capCache and the one entry of the response cache for the
capabilities route, requests for it, and applies of one RGD. The gate is a
property of a cluster (`Enabled`) and does not change while the model runs. `ApplyRGD` checks the
gate, reads the existing object, then applies with a client it takes anew.

*UsePolling, InstanceDetail.* One event of the browser is one step, together with
the render and the effects it leads to: React renders discrete events and flushes
their effects before the next event is handled. Requests in flight are counted
per route, as those for one route differ in nothing the properties see. A
navigation between two instances that keeps the page mounted is possible with a
jump in the history; the router has one element for all instances. Under a manual
pause the hook's main effect returns before it blanks anything. A context switch
remounts the page (`Outlet key`), which is `Leave` and `Open`. `banner` is what the last
render showed of `goneRef`: the effect that sets the ref causes no render of its own.
Of a failed request for children or for the RGD it is left open whether it renders
the page (it does only when it changes a state).

*ReadThrough.* A memory of what was read and readers who wait; each is answered with
what was read while it waited, or with something remembered that is at most `Lag(route)` old. The refinement
mapping (`Remembered`, `Standing` in `ResponseCache`) forgets keys, expiry times, hooks and the purge's clock:
`Arrive` is `Ask`, `ServeHit` is `FromMemory`, `FoundExpired` is `Declined`, `Store` and `HandlerFails` are
`Live`, `Flush` and `PurgeSweeps` are `Forget`, and the steps inside a handler are invisible.

*The pages of the browser* (`Catalog` to `Author`). A variable per `useState` or ref the properties see, one
action per handler, effect or answer, named after the function in the code where it has a name. A render and the
effects it leads to belong to the step that causes them. A request under way is an element of a set, with what it was
asked for and whether the code still listens to it (`live`): an answer that nobody aborts is applied whenever it
comes. What a fetch brings is represented by what was asked for, since that is what can be wrong. `...Shows` operators
say which controls are rendered, so that the user can only press what is there.

*The algorithms* (`InstanceHealth`, `AccessCheck`, `Dag`, `LineDiff`, `VirtualGrid`, `Designer`). The functions of the
code as operators; the behaviours only build up their inputs (a status and its children, roles and bindings, a list of
resources, two documents, a scroll position, a form), so that every input within the bounds is a state.

*MCWeb.* The modules of the browser share no variable: one page is open at a time and keeps its state in hooks of its
own. A behaviour of `MCWeb` is therefore a behaviour of one of them, chosen by `topic` at the start.
The instance page is a run of its own, with the polling hook. What pages share by way of the server is in `Browser` (the active context) and in the modules
of the server (the caches).

## 3. What TLC checks

| Run | Question | Instance |
|---|---|---|
| `cache_switch` | Do overlapping switches lose a flush? | 2 switches, 2 requests, 1 route, TTL 1, clock to 1: 2.1 M states |
| `cache_time` | How old can a HIT on the capabilities be, with capCache behind them; how long is the old cluster served; does the purge take a live entry? | 1 switch, 2 requests, TTLs and handler 1, clock to 5: 2.2 M |
| `cache_routes` | Has each route its own bound; do expired entries go? | 1 switch, 1 request, a plain route and the capabilities, clock to 3, fairness: 0.24 M |
| `cache_next_request` | *violation*: `server.go:121` | 1 switch, 2 requests |
| `discovery` | What survives the invalidation inside the swap? | 2 switches, 2 callers: 0.6 M |
| `metrics` | Is one retry enough; do the hooks clear the references? | 2 polls, 1 switch, a pod replaced twice: 1.4 M |
| `gate` | How long can a wrong gate let an apply through; how old are the capabilities? | 1 request, 1 apply, 1 switch, TTLs 1 and 2, clock to 6: 0.8 M |
| `gate_enabled` | *violation*: `server.go:162` | as `gate` |
| `instance` | Interval, loading, settling on a route, the not-found banner | 2 routes of 2 RGDs, 2 polls in flight per route, 1 request for children and RGD each; fairness: 0.2 M |
| `instance_route` | *violation*: `usePolling.ts:90` | as `instance` |
| `web` | One property or two for each page and algorithm, see below | 18 topics: 0.36 M |
| `author_draft` | *violation*: `AuthorPage.tsx:176` | the topic `author` of `web` |

What `web` shows:

| Topic | Property | Says |
|---|---|---|
| health | `HealthAgrees` | where the six classifications agree, and the only cases in which page and list differ |
| access | `GapsAreReal` | no gap means that RBAC allows all; a gap means that it grants nothing; with the exceptions named in the module and in section 5 |
| dag | `DagIsRight` | rows follow the references, conditions are inherited, the difference of two graphs is symmetric and complete, groups only grow |
| linediff | `DiffIsMinimal` | both documents can be read off, and no comparison has fewer changed lines |
| chains | `UnfoldingEnds` | cycles are cut; a panel that loads has a load under way |
| grid | `WindowCoversView` | no visible row is missing, and the scroll bar does not jump |
| catalog | `CatalogKeepsCount` | a count shimmers exactly while it is awaited; saving drops no preset |
| instances page, instance table | `TableIsConsistent` | no blank page while there are rows; two instances are compared or none |
| revisions | `GraphShowsSelected` | the graph shows the two that the lists name |
| events | `NewestAreKept` | the cut loses only what is older than all that is kept |
| fleet | `EveryContextOnOneCard` | as it says, in any order of the answer |
| rgd page | `PageSettles` | what loads is awaited; the guarded slots belong to the RGD in the address |
| overview | `StalenessIsTold` | "Updated" and "Last attempt failed" are true |
| browser | `LayoutFollowsServer` | the bar names the server's context, unless the last switch was one it was not told of; the capabilities were asked for in it |
| node panel | `ItemShowsItself`, `SecretsShownOnRequest` | an item shows its own answer; a Secret is shown by its own button, or as the item that was opened |
| author | `DraftCatchesUp` | the draft becomes the design that stays |
| designer | `ImportKeepsDesign` | form, YAML, import and preview tell one design; what a load from the cluster keeps |

Every property of a passing run has a mutant in `PROJECT.json`, a plausible wrong
version of one definition (an operator "wrong ..., to test the properties" in the
module), which breaks it.

### Bounds, and why they are enough

- *Two contexts.* What matters of a cluster is whether it is the active one or the one before;
  two contexts alternate, and `epoch` tells the visits to one context apart.
- *Two requests, callers, polls.* The races are between one that stores and one that
  looks up. A third adds no kind of step. Two switches suffice for one to
  swap between another's swap and its hook.
- *The clock* (`MaxTime`) runs for longer than a handler, a lifetime and a switch one after
  another, so that every deadline in the properties is passed. Lifetimes of one and two ticks keep
  the order of the real ones (10 s to 5 min) where two meet, in `gate`.
- *`MaxRestarts` 2*: the pod a poll holds can be replaced after its second discovery.
- *`MaxInFlight` 2*: two fetches for one route besides those of the other. A fetch lasts at most
  30 s and the interval is 5 s, so the real number is small as well.
- *`web`*. Two contexts, RGDs, revisions or nodes, where a late answer for the one meets the other; more where an
  order or a tie matters (three instances, five events, three contexts of one cluster and one of another). Lists are cut at one row per page,
  three kept events and one preset, so that every cut happens. The algorithms get all lists of three resources, all
  pairs of documents of up to four lines over two, all windows over up to six cards. The form has one part at a time, with up to two rows: its parts are
  written and read one after the other and share nothing. `MaxMoves`, `MaxSwitches` (3) and `MaxLoads` bound what a user asks
  for, each high enough for one answer to come after the next two questions.
- *RBAC*. Two bindings of any scope and subject, with three roles (one that reads, one that keeps one object by name, one that aggregates),
  one read that fails (`MaxFailures`), and discovery up or down: a grant that is read and one that is not meet in every way.
- *The graph*. The resources refer to each other and to the root in any way. Three make every circle, a node with two parents on
  different rows, and a condition inherited over a node. A fourth is needed for the last parent that is visited not to be
  the lowest one: the theorem has no such bound.
- Symmetry is used over requests, polls, callers and switches in runs without
  liveness properties.

### Fairness

- `cache_routes`: weak fairness of the purge: its ticker fires for ever, and its sweep only takes a mutex. No request, switch or
  tick of the clock has to happen.
- `instance`: weak fairness of the end of each request: `api.ts` aborts a request after
  30 s. A browser without `AbortSignal.any` has no such timeout, as a comment there says.
  That requests *succeed* is not assumed; it is a premise of the properties that need it
  (`SettlesOnRoute`, `NotFoundIsTold`).

- `web`: weak fairness of the timer of the auto-save, which the browser fires. No answer of the server is assumed to
  come.

## 4. What is proved

All theorems hold for every number of contexts, requests, routes, resources, rows and so on, under the named assumptions
on the constants. Those of the server and the polling hook (`FactoryAssumption`, `CacheAssumption`, `DiscoveryAssumption`,
`PollAssumption`, `GateAssumption`, `PollingAssumption`, `PageAssumption`) say that sets do not overlap, that times are natural
numbers and that bounds are natural. Those of the browser say no more than this of what the code is given:

- a list that a server sends is finite (`EventsAssumption`, `InstanceListAssumption`, `CatalogAssumption`, `FleetAssumption`),
  and what is compared in a sort is a number;
- the empty text is not a name (`BrowserAssumption`, `RgdPageAssumption`, `PanelAssumption`, `DesignerAssumption`); neither
  are the words that the bar shows in the place of one;
- an empty search box matches all (`InstanceListAssumption`, `CatalogAssumption`);
- sizes that the grid divides by are positive (`GridAssumption`);
- a role has rules that name resources, an aggregated role is not aggregated by another, and the verbs kro needs for what it reads are
  among those for what it manages (`AccessAssumption`).

### The server

- `ResponseCache_proofs`: type correctness; `FlushCoversSwitch`; `SettledHitIsRecent`;
  `BoundedStaleness` and `OldClusterWindow`; and `Refinement`: the cache implements `ReadThrough`. The
  argument: a request that runs is at most `MaxHandler` old and what it is about to store at most `Behind(route)` older
  (`RequestsTimely`), where `Behind` is nothing for a handler that reads the cluster and `MaxHandler + CapTTL` for the capabilities, as capCache
  expires so long after its read; so an entry expires at most `OldestHit(route)` = `Behind(route) + MaxHandler + TTL` after the
  read (`EntriesInTime`); what has an earlier epoch
  was read before the latest swap (`ReadsBeforeSwap`), which bounds both the age of a HIT and the time an old
  cluster's data is served. None of these is inductive alone: an entry's
  expiry depends on what the request that stored it held, and that on when it arrived. The refinement uses the same
  invariant: each action is shown to be a step of `ReadThrough` or to leave memory and readers alone (`StepRefines`);
  `HitRefines`, where the age of the answer is needed, and `StoreRefines`, where the instant of the read is, carry it.
  `PurgeTakesOnlyExpired` is an action property: the purge compares with a clock it read before it waited for the lock, and
  takes nothing that is alive because that clock is never ahead (`PurgeClockBehind`).
- `DiscoveryCache_proofs`: `NothingFromBeforeSwap`, `OldDiscoveryWindow`, by the same argument
  with the invalidation inside the swap.
- `MetricsDiscoverer_proofs`: `RefsFromThisSwitch`, `HealedByOneRetry`. The second
  needs that a poll that has retried holds what it discovered itself, with a pod number
  no higher than the present one (`OwnRefAfterRetry`).
- `CapabilityGate_proofs`: `CapabilitiesAge`, `GateHonoured`. The invariant says what is
  truthful: capabilities detected with the present clients are those of the active cluster, older
  ones were detected before the swap; an apply past its gate is either going to a
  cluster that allows it or passed soon after a switch (`GatePassed`).

### Pages that wait

- `InstanceDetail_proofs`: `PollingInv` (with one interval exactly when one is wanted), `LoadingHasFetch`,
  `OnlyNavigationUnsettles`.
- `LayoutFollows`. `LayoutFollowsServer` is not inductive: an answer to a switch says nothing of the moments before it. The
  invariant `BrowserInv` adds that the browser waits for one switch at most, for the one its switcher names
  (`OneSwitchAwaited`); that the server is where the bar says or where the awaited switch leads, unless its last switch was one the
  bar was not told of (`ServerIsKnown`); and that a question whose generation still counts was asked for the name in the bar (`LiveQuestions`).
- `OwnItem`, `SecretsStayMasked`. An item's request that is still listened to is for the item in view
  (`LiveItemIsSelected`); the object behind the reveal button is the one whose YAML is on the screen (`LoadedIsRaw`).
  `SecretsShownOnRequest` then holds of each step, whichever timer, poll or late answer it is: a Secret comes on the screen by the
  button of its node, or as the item whose YAML the user opened, which the code does not mask (`ShownSecret`).
- `PageAlwaysSettles`. The effects keyed by parts of the address run one after the other in one commit, and between two of them the
  property is false. The proof carries the set of slots that are right so far (`SlotsOK`), shows for each effect which slots it
  puts right and which it leaves alone, and for each change of the address that the effects it triggers together
  cover the slots it put in doubt (`EffectsOK`).
- `HeaderTellsTheAttempt`: when nothing is under way the flag of the last attempt says whether a widget failed (`AttemptIsKnown`).
- `UnfoldingAlwaysEnds`: `UnfoldingEnds` is inductive with the types.
- `DesignAlwaysSurvives`. The invariant is the type of a design; what carries the theorem is a lemma about the generator and
  the parser for every design (`DesignSurvives`): a field, a status field, a template and a reference are each read back to
  something that generates the same (`FieldSurvives`, `StatusSurvives`, `TemplateSurvives`, `ReferenceSurvives`). The type of a
  resource is guessed from its iterators, and rows that are blank are dropped, so the second design is not the first one. Of what is
  loaded from the cluster `ClusterKeeps` shows, resource by resource, what is left, and `ClusterDesign` that it is a design again.

### Views of data

- `NoRowIsMissed`, for every size, scroll position and number of columns: the window as the code rounds it, by the arithmetic of
  `CeilDiv` (`RoundedUp`, `SumOfRows`).
- `MatrixIsRight`: both directions, for any roles, bindings and failures: where a gap is shown RBAC grants the verb on no object, but through what
  was not read; where none is shown it grants each verb, and on every object where no grant is confined.
- `HealthAlwaysAgrees`, over every status and every set of children. The invariant is the types.
- `SelectedIsShown`: the graph is that of the two selections, and the selections are revisions of the list that is shown.
- `OnlyOldEventsGo`. `NewestAreKept` compares the map with all that was ever merged into it, so the invariant adds that something
  was lost only when the map was full (`EventsInv`). The lemmas show of `sortEvents` that it is an order of all events,
  and of the cut that it takes the last of them (`SortEventsSorts`, `TrimmedKeepsNewest`).
- `InstancesPageIsConsistent`, `InstanceTableIsConsistent`: the page that is drawn is one of the filtered list's pages, whatever
  page number the state still has from a longer list (`SafePageIs`, `RowsAreShown`), and a comparison opens with two and closes the other.
- `CatalogAlwaysKeepsCount`: a card has a number, or a request for one, from the moment its list has arrived (`CatalogInv`).
- `EveryContextHasItsCard`: after each summary there is one card per cluster and every context so far is on one
  (`CardsOK`, `CardIsAdded`), by induction over the summaries.
- `EveryDiffIsMinimal`, for documents of every length over any lines. The table of `lcsTable` is the length of the longest
  common subsequence: none is longer (`NoneIsLonger`) and one is as long (`OneIsAsLong`), both by induction over the entries of
  the table; the rows compare the prefixes they stand for (`Compares`, `ScriptCompares`), which counts the changed
  lines. A subsequence is a set of line numbers on either side, matched by rank; that one line can be put at or
  taken from the end of a match is `MatchOneMore` and `MatchOneFewer`.

- `GraphAlwaysRight`, for every list of resources. The invariant is that no id is in the list twice. Four lemmas carry it: the
  rounds of the search are enough, so that it reaches the least set that is closed under the edges (`ReachableIs`); without a circle any
  nodes have one among them whose parents are all elsewhere, the one with most descendants (`SourceExists`), so that Kahn's queue is not
  empty before every node was visited, parents first (`KahnOrdersAll`); a node is not moved any more once it has been visited,
  so that one pass over this order puts it below all its parents, and right below one of them (`PlaceNext`, `RowsAre`). A resource may
  refer to the root, and a circle may be anywhere: then the theorem promises what remains, that every node hangs from the root.

### Induction, recursion and sorting

The induction theorems of the library take a predicate as a parameter, which the installed provers cannot instantiate. What
they can use is that the strict subsets of a finite set are well-founded: `LeastNumber` in `Data_proofs` derives from it that
every nonempty set of naturals has a least element. With it an induction over numbers is a proof by the least counterexample,
written out where it is needed (`GridInduction` for the entries of a table). `IterationExists` shows in the same way
that a function defined by a step from each value to the next exists, without which nothing could be said of a recursive
function. `RankExists` and `SetInOrder` do the same for sorting: in an order of a finite set every rank is taken once.

For that the models state their data as functions: `lcsTable`, `computeLineDiff`, `FleetPage` and the loops of `Dag` as recursive functions
of one argument (a row of the table is a function of the column), sorting and filtering by rank in `JsArray`. `SortSeq`
of the standard modules leaves the order of equal elements open, where JavaScript's sort keeps it; `SelectSeq` and the folds
cannot be expanded by the prover.

### Only model-checked

- The liveness properties `ExpiredGoesAway`, `SettlesOnRoute`, `NotFoundIsTold` and `DraftCatchesUp`: liveness under fairness
  is out of the prover's reach.

## 5. Where code and documentation disagree

| Run | The text | The code |
|---|---|---|
| `cache_next_request` | "the next request always hits the new cluster" `server.go:121` | a request that was running stores the old cluster's response after the flush; it is served for a lifetime. `OldClusterWindow` is the bound that holds |
| `gate_enabled` | "Gated behind canApplyRGDs capability flag" `server.go:162`; "Called when the user switches kubeconfig context" `capabilities.go:118` | nothing calls `InvalidateCapabilitiesCache`; for 30 s after a switch the old cluster's gate decides. `GateHonoured` is the bound that holds |
| `instance_route` | "Fixes #234" `usePolling.ts:90` | a late answer for the previous instance is shown on the new one; under a pause no reset takes place at all |
| `author_draft` | "debounced 2s after each change" `AuthorPage.tsx:176` | the effect runs at once, without a change, and stores the starter design over the draft that the banner still offers: leaving the page then loses it |

Seen while modelling, visible in the actions named, and not given a run of their own:

- a response fetched with `refresh=true` is stored under its own key, so it does not replace the plain
  entry (`cache.go:177` says it is stored back): `Store`;
- `PodRefCache.get` does not re-check under the write lock as `metrics.go:70` says: `Lookup`, `SetRef`;
- two applies of one new RGD can both answer `created: true` (`rgds.go:170`): `GetRGD`, `ApplyRGD`;
- an old call's lists can be set after the swap's invalidation (`client.go:156` "discovered fresh"): `SetLists`;
- a page opened, resumed or navigated while its tab is hidden polls (`usePolling.ts:5`): `PollingMounts`, `Resume`;
- after "not found" the page goes on polling, and after other errors it retries in 5 s, not 10 s
  (spec 005, lines 143 and 223): `IntervalFires`.
- once capCache (30 s) has expired and the response cache (5 min) has not, calling the capabilities endpoint does not refill the gate's
  cache, so "retry after the capabilities endpoint has been called" (`rgds.go:206`) does not help: `CapCacheHit`, `NotDetected`;
- the pause button says "stop automatic polling" (`InstanceDetail.tsx:543`), the interval of the children goes on: `ChildrenIntervalFires`.

In the browser:

- *Author.* A verdict stays on the screen when the YAML has changed; library and imports are offered in a read-only design; answers of the static
  validation are applied in any order; a load from the cluster replaces edits made meanwhile.
- *Designer.* A load from the cluster loses every iterator and every reference, without a message: the resource comes back as a managed one
  (`generator.ts:607`), and what its template has before `kind` when the keys are sorted, such as the `data` of a ConfigMap, is dropped
  (`generator.ts:773`; the model's bodies have none). Two labels of one key are one in the preview and two lines in the YAML. Several empty ids all become `resource`, without a warning; a body with a nested `metadata:` gets none of its own; an imported body keeps
  the name derived from the old id. The comment at `generator.ts:1219` says that conditions are forwarded for every type of resource; for a
  reference they are dropped. The one near `generator.ts:921` says that malformed rows of a batch are skipped; a manifest is written for them.
- *NodePanel.* A Secret among the items of a `forEach` is shown with its values, without a button (`CollectionPanel.tsx:150`). Finalizers of the node before stay (`LiveNodeDetailPanel.tsx:330` says they are reset); a poll clears the 15 s timer of the YAML; Retry
  does nothing for a row of the resource list; a late answer for one node is shown under the next.
- *RgdPage.* A picker whose request is aborted by a change of tab loads for ever; the namespace is not kept across tabs; RGD and retries are not guarded
  against late answers; a retry of the instances does not refresh the warning about hidden ones.
- *Browser.* A card of the fleet switches the server and does not tell the bar (`Fleet.tsx:170`), as does another browser; a switch that timed out, or whose reply
  was lost, may still take effect (`ContextSwitcher.tsx:160`). Until the bar hears of a switch again it names the wrong cluster, and the
  name it shows cannot be picked anew. After a switch the server answers capabilities from the capCache of the context before.
- *AccessCheck.* What RBAC grants and the tab does not tell: through a group (`rbac.go:403` looks for the service account only), through a RoleBinding of another namespace, through
  a read that failed, which is logged and counts as no grant. What the tab tells and RBAC does not grant in full: a rule confined by
  `resourceNames` (`rbac.go:482` drops them), a grant in one namespace, an aggregated role whose controller has not caught up, and a kind
  that is both referenced and managed, of which the first use counts. With discovery down the plural is guessed.
- *Overview.* Alerts are told through the callback of the first render; the key `namespace/name` is not unique across kinds and outlives a switch.
- *FleetPage.* A late second stage overwrites newer metrics; the state `degraded` of the matrix cannot occur.
- *EventsPage.* A late answer for another RGD is merged in; the anomalies are looked for in the visible slice, without the counts of the events.
- *Catalog, InstanceList.* An empty cluster is told "no match"; presets of two tabs overwrite each other; "N selected" counts hidden instances; sorting
  by age starts with the oldest; the comparison stays closed when a selected instance is gone.
- *ChainView.* Several panels can be open, against "accordion ensures only one panel"; retry closes the panel; a nested graph misses itself among its ancestors.
- *Revisions, LineDiff.* Retries are unguarded; the counter of changes can be past the end; documents that agree in their first 3000 lines are told
  identical.
- *Dag.* References from a `forEach` make no edge; a cycle of references can leave a row empty, and the height of the drawing is then -Infinity.

## 6. Plan

Done: the factory and its caches (most important: wrong cluster, stale data, the one
write), the polling hook and the live page; the abstract specification of the response cache and the refinement; the
pages, the browser against the server, and the algorithms; theorems for every safety property. Next:

1. `SettledHitIsRecent` and `FlushCoversSwitch` as part of a stronger `ReadThrough`, and `DiscoveryCache` as an implementation of it.
2. `FanOut`: what a list that was cut by the deadline may miss.

## 7. Not modelled, and why

- *Fan-outs* (`instances_all.go`, `events.go`, `handlers/fleet.go`): one goroutine per resource under a deadline, results joined under a lock, no state
  between requests. What can go wrong is that the answer is partial and cached for 10 s; nothing in the code says how complete it is, so there is
  no property to hold it to. That a handler reads the factory several times while it is switched is in `ResponseCache` (`AfterRead`).
- *Text* (`lib/schema.ts`, `yaml.ts`, `share.ts`, `cel-linter.ts`, `highlighter.ts`, forms and batches that generate instances): pure functions of strings;
  a small instance says little that their unit tests do not.
- *Rendering* (`DAGGraph.tsx`, badges, charts, tooltips, focus and keyboard), `dump-fixtures`, the validation library: no state, or one fetch into one slot.
- *Plumbing*: listening, CORS, static files, shutdown. Of the detection of capabilities only the gate: the version comparison is parsing.
- *Data races*: none of the modelled fields is accessed without its lock.
- *Several pages at a time*: the router shows one. State that outlives a page (localStorage presets and draft, the alerts of the layout) is in the
  module of the page that uses it.
