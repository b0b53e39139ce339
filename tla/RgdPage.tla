------------------------------ MODULE RgdPage ------------------------------
(***************************************************************************)
(* The page of one RGD: pages/RGDDetail.tsx with InstanceOverlayBar.tsx.   *)
(* The address (name, ?tab=, ?namespace=) is the input of its effects, and *)
(* each effect fetches into a slot of its own. What a fetch brings is      *)
(* modelled by what was asked for: the RGD, the namespace, the instance.   *)
(* Requests that ask for the same are one. The page is not mounted anew    *)
(* when a link leads from one RGD to another.                              *)
(***************************************************************************)
EXTENDS Naturals, FiniteSets

CONSTANTS
    RgdNames, NamespaceNames,
    InstanceNames,     \* the instances of every RGD
    MaxMoves           \* bound on what the user does to the address

VARIABLES
    url,               \* [rgd, tab ("" for none), ns ("" for none)]
    hasRevisions,      \* do the capabilities that came say so
    overlayKey,        \* the instance laid over the graph, "" for none
    slots,             \* [Slots -> [value, busy, failed]]
    flight,            \* requests: [slot, of, live], not live: nothing aborts it
    moves

rgdPageVars == <<url, hasRevisions, overlayKey, slots, flight, moves>>

Slots == {"rgd", "count", "instances", "all", "picker", "overlay", "diff"}
Tabs  == {"", "instances", "yaml", "errors", "revisions"}

RgdPageAssumption ==
    /\ RgdNames # {} /\ "" \notin RgdNames \cup NamespaceNames \cup InstanceNames
    /\ MaxMoves \in Nat

ASSUME RgdPageAssumption

Nothing == [rgd |-> "", ns |-> "", name |-> ""]
Of(rgd, ns, name) == [rgd |-> rgd, ns |-> ns, name |-> name]

\* ?tab=revisions counts for nothing as long as the cluster is not known to have any.
TabOf(u, revs) ==
    IF u.tab \in Tabs \ {"", "revisions"} \/ (u.tab = "revisions" /\ revs) THEN u.tab ELSE "graph"

activeTab == TabOf(url, hasRevisions)

-----------------------------------------------------------------------------
(* Effects. pg is the slots and the requests, u the address, k the overlay *)

Put(pg, s, value, busy, failed) ==
    [pg EXCEPT !.slots[s] = [value |-> value, busy |-> busy, failed |-> failed]]

Ask(pg, s, of, live) ==
    [slots  |-> [pg.slots EXCEPT ![s] = [@ EXCEPT !.busy = TRUE, !.failed = FALSE]],
     flight |-> pg.flight \cup {[slot |-> s, of |-> of, live |-> live]}]

Abort(pg, s) == [pg EXCEPT !.flight = {q \in @ : q.slot # s \/ ~q.live}]

RgdEffect(pg, u) == Ask(pg, "rgd", Of(u.rgd, "", ""), FALSE)

\* Wrong: the answer for the RGD of before is not told from this one's.
CountEffectUnguarded(pg, u) ==
    Ask(Put(pg, "count", Nothing, TRUE, FALSE), "count", Of(u.rgd, "", ""), TRUE)

CountEffect(pg, u) ==
    Ask(Put(Abort(pg, "count"), "count", Nothing, TRUE, FALSE), "count", Of(u.rgd, "", ""), TRUE)

DiffEffect(pg, u, revs) ==
    LET quiet == Abort(pg, "diff")
    IN  IF ~revs \/ TabOf(u, revs) # "graph" THEN Put(quiet, "diff", Nothing, FALSE, FALSE)
        ELSE Ask(quiet, "diff", Of(u.rgd, "", ""), TRUE)

\* Wrong: like the picker's, the fetch is not repeated while one is under way.
InstancesEffectOnce(pg, u, revs) ==
    LET quiet == Abort(Abort(pg, "instances"), "all")
    IN  IF TabOf(u, revs) # "instances" \/ quiet.slots.instances.busy THEN quiet
        ELSE LET asked == Ask(quiet, "instances", Of(u.rgd, u.ns, ""), TRUE)
             IN  IF u.ns = "" THEN asked ELSE Ask(asked, "all", Of(u.rgd, "", ""), TRUE)

\* With a namespace the list of all namespaces is fetched beside the list shown.
InstancesEffect(pg, u, revs) ==
    LET quiet == Abort(Abort(pg, "instances"), "all")
    IN  IF TabOf(u, revs) # "instances" THEN quiet
        ELSE LET asked == Ask(quiet, "instances", Of(u.rgd, u.ns, ""), TRUE)
             IN  IF u.ns = "" THEN asked ELSE Ask(asked, "all", Of(u.rgd, "", ""), TRUE)

\* One-shot: nothing is fetched when something is there, under way, or failed.
PickerEffect(pg, u, revs) ==
    LET quiet == Abort(pg, "picker")
        p == quiet.slots.picker
    IN  IF TabOf(u, revs) # "graph" \/ p.value # Nothing \/ p.busy \/ p.failed THEN quiet
        ELSE Ask(quiet, "picker", Of(u.rgd, "", ""), TRUE)

\* No overlay: what was laid over the graph goes, "loading" stays as it is.
OverlayEffect(pg, u, k) ==
    LET quiet == Put(Abort(pg, "overlay"), "overlay", Nothing, pg.slots.overlay.busy, FALSE)
    IN  IF k = "" THEN quiet ELSE Ask(quiet, "overlay", Of(u.rgd, "", k), TRUE)

\* What React runs after the address or the capabilities have changed: the effects
\* whose dependencies did, in the order of the page.
Effects(pg, u, revs) ==
    LET moved  == u.rgd # url.rgd
        tabbed == moved \/ TabOf(u, revs) # activeTab
        p1 == IF moved THEN CountEffect(RgdEffect(pg, u), u) ELSE pg
        p2 == IF tabbed \/ revs # hasRevisions THEN DiffEffect(p1, u, revs) ELSE p1
        p3 == IF tabbed \/ u.ns # url.ns THEN InstancesEffect(p2, u, revs) ELSE p2
        p4 == IF tabbed THEN PickerEffect(p3, u, revs) ELSE p3
    IN  IF moved THEN OverlayEffect(p4, u, overlayKey) ELSE p4

Page == [slots |-> slots, flight |-> flight]
Becomes(pg) == slots' = pg.slots /\ flight' = pg.flight

-----------------------------------------------------------------------------
(* What is on the screen *)

Loaded == ~slots.rgd.busy /\ ~slots.rgd.failed /\ slots.rgd.value # Nothing

Section(s) ==
    CASE slots[s].busy   -> "loading"
      [] slots[s].failed -> "retry"
      [] slots[s].value = Nothing -> "empty"
      [] OTHER -> "shown"

OverlayBarShows ==
    [picker  |-> Section("picker"),
     summary |-> IF overlayKey = "" THEN "none" ELSE Section("overlay")]

RgdPageShows ==
    [page      |-> IF Loaded THEN "shown" ELSE Section("rgd"),
     revisions |-> Loaded /\ hasRevisions,
     overlay   |-> IF Loaded /\ activeTab = "graph" THEN OverlayBarShows
                   ELSE [picker |-> "none", summary |-> "none"],
     banner    |-> Loaded /\ activeTab = "graph" /\ slots.diff.value # Nothing,
     instances |-> IF Loaded /\ activeTab = "instances" THEN Section("instances") ELSE "none"]

-----------------------------------------------------------------------------
(* The user *)

Move(u) ==
    /\ moves < MaxMoves
    /\ moves' = moves + 1
    /\ url' = u
    /\ Becomes(Effects(Page, u, hasRevisions))
    /\ UNCHANGED <<hasRevisions, overlayKey>>

\* "View RGD", or the breadcrumb back. The overlay and the picker stay as they are.
OpenRgd == Loaded /\ \E r \in RgdNames \ {url.rgd} : Move([rgd |-> r, tab |-> "", ns |-> ""])

\* The graph's button takes ?tab= away and leaves the rest; any other button writes
\* ?tab= and nothing else. The revisions have a button when the cluster has them.
setTab ==
    /\ Loaded
    /\ \E t \in Tabs \ {url.tab} :
          /\ t = "revisions" => RgdPageShows.revisions
          /\ Move([url EXCEPT !.tab = t, !.ns = IF t = "" THEN url.ns ELSE ""])

handleNamespaceChange ==
    /\ Loaded /\ activeTab = "instances"
    /\ \E n \in (NamespaceNames \cup {""}) \ {url.ns} : Move([url EXCEPT !.tab = "instances", !.ns = n])

User(pg) == Becomes(pg) /\ UNCHANGED <<url, hasRevisions, overlayKey, moves>>

fetchRGD == RgdPageShows.page = "retry" /\ User(RgdEffect(Page, url))

RetryInstances ==
    /\ RgdPageShows.instances = "retry"
    /\ User(Ask(Page, "instances", Of(url.rgd, url.ns, ""), FALSE))

handlePickerRetry ==
    /\ RgdPageShows.overlay.picker = "retry"
    /\ User(Ask(Put(Page, "picker", Nothing, TRUE, FALSE), "picker", Of(url.rgd, "", ""), FALSE))

handleOverlaySelect ==
    /\ RgdPageShows.overlay.picker = "shown"
    /\ \E k \in (InstanceNames \cup {""}) \ {overlayKey} :
          /\ overlayKey' = k
          /\ Becomes(OverlayEffect(Page, url, k))
    /\ UNCHANGED <<url, hasRevisions, moves>>

handleOverlayRetry ==
    /\ RgdPageShows.overlay.summary = "retry"
    /\ User(OverlayEffect(Page, url, overlayKey))

-----------------------------------------------------------------------------
(* Answers *)

capabilitiesArrive ==
    /\ ~hasRevisions
    /\ hasRevisions' = TRUE
    /\ Becomes(Effects(Page, url, TRUE))
    /\ UNCHANGED <<url, overlayKey, moves>>

Done(q) == [Page EXCEPT !.flight = @ \ {q}]

\* A new RGD is a new graph, and with a new graph the overlay is fetched again. A
\* cluster without instances leaves the picker as it was before.
Answered(q) ==
    LET got == Put(Done(q), q.slot, q.of, FALSE, FALSE)
    IN  CASE q.slot = "rgd" -> User(OverlayEffect(got, url, overlayKey))
          [] q.slot = "instances" /\ q.of.ns = "" -> User(Put(got, "all", q.of, FALSE, FALSE))
          [] q.slot \in {"picker", "diff"} -> User(got) \/ User(Put(Done(q), q.slot, Nothing, FALSE, FALSE))
          [] OTHER -> User(got)

\* Without the RGD there is no graph; the overlay is fetched again when there was one.
\* The list that was fetched by Retry is kept when the retry fails.
Failed(q) ==
    CASE q.slot = "rgd" ->
            LET lost == Put(Done(q), "rgd", Nothing, FALSE, TRUE)
            IN  User(IF slots.rgd.value = Nothing THEN lost ELSE OverlayEffect(lost, url, overlayKey))
      [] q.slot \in {"all", "diff"} -> User(Put(Done(q), q.slot, IF q.slot = "all" THEN slots.all.value ELSE Nothing, FALSE, FALSE))
      [] q.slot = "picker" \/ ~q.live -> User(Put(Done(q), q.slot, slots[q.slot].value, FALSE, TRUE))
      [] OTHER -> User(Put(Done(q), q.slot, Nothing, FALSE, TRUE))

-----------------------------------------------------------------------------

NoPage ==
    [slots  |-> [s \in Slots |-> [value |-> Nothing, busy |-> FALSE, failed |-> FALSE]],
     flight |-> {}]

RgdPageInit ==
    /\ url = [rgd |-> CHOOSE r \in RgdNames : TRUE, tab |-> "", ns |-> ""]
    /\ hasRevisions = FALSE /\ overlayKey = "" /\ moves = 0
    /\ LET pg == PickerEffect(CountEffect(RgdEffect(NoPage, url), url), url, FALSE)
       IN  slots = pg.slots /\ flight = pg.flight

RgdPageNext ==
    \/ OpenRgd \/ setTab \/ handleNamespaceChange
    \/ fetchRGD \/ RetryInstances \/ handlePickerRetry \/ handleOverlaySelect \/ handleOverlayRetry
    \/ capabilitiesArrive
    \/ \E q \in flight : Answered(q) \/ Failed(q)

RgdPageSpec == RgdPageInit /\ [][RgdPageNext]_rgdPageVars

-----------------------------------------------------------------------------
(* Properties *)

Waiting(s) == \E q \in flight : q.slot = s

\* Wherever the page says "loading" a request is under way that ends it, whatever
\* was aborted by a change of the address before. The picker is left
\* out: its fetch is not repeated while one is under way, aborted or not.
LoadingIsAwaited ==
    /\ RgdPageShows.page = "loading" => Waiting("rgd")
    /\ RgdPageShows.instances = "loading" => Waiting("instances")
    /\ RgdPageShows.overlay.summary = "loading" => Waiting("overlay")
    /\ slots.count.busy => Waiting("count")

\* Once their answers are in, the number of instances, the overlay and the banner
\* about the last revision are those of the RGD in the address.
GuardedSlotsSettle ==
    \A s \in {"count", "overlay", "diff"} :
        ~Waiting(s) /\ slots[s].value # Nothing => slots[s].value.rgd = url.rgd

\* Nothing loads forever, and what is shown beside an RGD is its own.
PageSettles == LoadingIsAwaited /\ GuardedSlotsSettle
=============================================================================
