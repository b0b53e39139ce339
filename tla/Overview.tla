----------------------------- MODULE Overview -----------------------------
(***************************************************************************)
(* The overview: pages/Home.tsx with OverviewWidget.tsx, the health alerts *)
(* of hooks/useAlertSubscription.ts, which the layout keeps for it, and    *)
(* the trend of hooks/useHealthTrend.ts. The page fetches five things at   *)
(* once, when it is mounted and when Refresh or Retry is clicked.          *)
(***************************************************************************)
EXTENDS Naturals, FiniteSets, Sequences, SequencesExt, FiniteSetsExt, JsArray

CONSTANTS
    AlertKeys,     \* "namespace/name" of the instances there may be
    RgdOf,         \* [AlertKeys -> names of RGDs]
    CreatedAt,     \* [AlertKeys -> when they were created]
    STUCK_AFTER,   \* created before this is more than five minutes ago
    MAX_SAMPLES

VARIABLES
    homeOn,        \* is the page mounted
    isFetching,
    widgets,       \* [WidgetNames -> [loading, failed]]
    known,         \* "rgds": there are RGDs, "capabilities": there are capabilities
    healths,       \* what the instances widget has: [keys -> health]
    lastAttemptFailed,
    updated,       \* has lastFetchedAt been set
    trend,         \* the number of samples of this mount
    permission,    \* of the browser's notifications
    subscribed,
    homeSubscribed,\* what checkTransitions saw when the page was first rendered
    prevStates,    \* prevStateRef: [keys -> health]
    alerted        \* the keys of the last notifications

overviewVars == <<homeOn, isFetching, widgets, known, healths, lastAttemptFailed, updated, trend,
                  permission, subscribed, homeSubscribed, prevStates, alerted>>
homeVars  == <<homeOn, isFetching, widgets, known, healths, lastAttemptFailed, updated, trend,
               homeSubscribed>>
alertVars == <<permission, subscribed, prevStates, alerted>>

WidgetNames == {"instances", "rgds", "metrics", "capabilities", "events"}
Healths == {"ready", "error", "reconciling"}

OverviewAssumption ==
    /\ DOMAIN RgdOf = AlertKeys
    /\ CreatedAt \in [AlertKeys -> Nat]
    /\ STUCK_AFTER \in Nat /\ MAX_SAMPLES \in Nat \ {0}

ASSUME OverviewAssumption

-----------------------------------------------------------------------------
(* lib/format.ts: what the widgets say of the instances                    *)

buildHealthDistribution(h) == [s \in Healths |-> Cardinality({k \in DOMAIN h : h[k] = s})]

ErrorsOf(h, rgd) == Cardinality({k \in DOMAIN h : RgdOf[k] = rgd /\ h[k] = "error"})

buildTopErroringRGDs(h) ==
    SortedSeq({r \in {RgdOf[k] : k \in DOMAIN h} : ErrorsOf(h, r) > 0},
                 LAMBDA a, b : ErrorsOf(h, a) > ErrorsOf(h, b))

mayBeStuck(h) == {k \in DOMAIN h : h[k] = "reconciling" /\ CreatedAt[k] < STUCK_AFTER}
getMayBeStuck(h) == SortedSeq(mayBeStuck(h), LAMBDA a, b : CreatedAt[a] < CreatedAt[b])
getRecentlyCreated(h) == SortedSeq(DOMAIN h, LAMBDA a, b : CreatedAt[a] > CreatedAt[b])

-----------------------------------------------------------------------------
(* What the page shows *)

WidgetShows(loading, failed) ==
    CASE loading -> "skeleton"
      [] ~loading /\ failed -> "retry"
      [] OTHER -> "body"

Waits(names) == \E w \in names : widgets[w].loading
Fails(names) == \E w \in names : widgets[w].failed

Onboarding ==
    /\ ~Waits({"instances", "rgds"}) /\ ~Fails({"instances", "rgds"})
    /\ DOMAIN healths = {} /\ "rgds" \notin known

HomeShows ==
    [page      |-> IF ~Waits({"instances", "rgds"}) /\ widgets["instances"].failed /\ widgets["rgds"].failed
                   THEN "retry" ELSE "widgets",
     staleness |-> CASE ~isFetching /\ lastAttemptFailed -> "failed"
                     [] ~isFetching /\ ~lastAttemptFailed /\ updated -> "updated"
                     [] OTHER -> "none",
     instances |-> WidgetShows(Waits({"instances"}), Fails({"instances"})),
     metrics   |-> WidgetShows(Waits({"metrics", "capabilities"}), Fails({"metrics", "capabilities"})),
     rgds      |-> WidgetShows(Waits({"rgds"}), Fails({"rgds"})),
     events    |-> WidgetShows(Waits({"events"}), Fails({"events"})),
     kro       |-> {s \in {"running", "not detected", "checking"} :
                      /\ Onboarding
                      /\ CASE s = "running"      -> "capabilities" \in known
                           [] s = "not detected" -> Fails({"capabilities"}) /\ ~Waits({"capabilities"})
                           [] OTHER              -> Waits({"capabilities"})}]

ReconcilingWidget(h) ==
    IF buildHealthDistribution(h)["reconciling"] = 0 THEN "clean"
    ELSE IF mayBeStuck(h) # {} THEN "some may be stuck" ELSE "reconciling"

AlertBell ==
    CASE permission = "unavailable" -> "hidden"
      [] subscribed /\ permission = "granted" -> "active"
      [] subscribed /\ permission # "granted" -> "blocked"
      [] OTHER -> "inactive"

-----------------------------------------------------------------------------
(* Home *)

Loading == [w \in WidgetNames |-> [loading |-> TRUE, failed |-> FALSE]]

\* The callback of the first render is kept for as long as the page is mounted.
HomeMounts ==
    /\ ~homeOn
    /\ homeOn' = TRUE /\ isFetching' = TRUE
    /\ homeSubscribed' = (subscribed /\ permission = "granted")
    /\ UNCHANGED <<widgets, known, healths, lastAttemptFailed, updated, trend, alertVars>>

\* The user goes elsewhere, or the context is switched and the page is keyed anew.
HomeUnmounts ==
    /\ homeOn
    /\ homeOn' = FALSE /\ isFetching' = FALSE
    /\ widgets' = Loading /\ known' = {} /\ healths' = <<>>
    /\ lastAttemptFailed' = FALSE /\ updated' = FALSE /\ trend' = 0
    /\ homeSubscribed' = FALSE
    /\ UNCHANGED alertVars

\* Refresh is disabled while a fetch is under way, and no Retry is shown then.
fetchAll ==
    /\ homeOn /\ ~isFetching
    /\ isFetching' = TRUE
    /\ widgets' = Loading
    /\ UNCHANGED <<homeOn, known, healths, lastAttemptFailed, updated, trend, homeSubscribed, alertVars>>

checkTransitions(h) ==
    IF homeSubscribed
    THEN /\ alerted' = {k \in DOMAIN h \cap DOMAIN prevStates :
                          h[k] = "error" /\ prevStates[k] # "error"}
         /\ prevStates' = h
         /\ UNCHANGED <<permission, subscribed>>
    ELSE UNCHANGED alertVars

\* A sample within a second of the last one is dropped; the oldest makes room.
pushSnapshot == trend' \in {trend, Min({trend + 1, MAX_SAMPLES})}

\* Wrong: a failure of the controller's metrics is not counted.
anyFailedButMetrics(outcome) == \E w \in WidgetNames \ {"metrics"} : outcome[w] = "failed"

anyFailed(outcome) == \E w \in WidgetNames : outcome[w] = "failed"

WidgetAfter(w, outcome) == [loading |-> FALSE, failed |-> outcome[w] = "failed"]

KnownAfter(outcome) ==
    {w \in {"rgds", "capabilities"} : outcome[w] = "data" \/ (outcome[w] = "failed" /\ w \in known)}

\* What failed keeps the data it had. The alerts are looked at, and a sample is taken,
\* when the list of instances is there.
AllSettled(outcome) ==
    /\ homeOn /\ isFetching
    /\ widgets' = [w \in WidgetNames |-> WidgetAfter(w, outcome)] /\ known' = KnownAfter(outcome)
    /\ lastAttemptFailed' = anyFailed(outcome)
    /\ updated' = (updated \/ ~anyFailed(outcome))
    /\ isFetching' = FALSE
    /\ IF outcome["instances"] = "failed" THEN UNCHANGED <<healths, trend, alertVars>>
       ELSE \E keys \in SUBSET AlertKeys : \E h \in [keys -> Healths] :
               /\ (keys = {}) = (outcome["instances"] = "empty")
               /\ healths' = h /\ checkTransitions(h) /\ pushSnapshot
    /\ UNCHANGED <<homeOn, homeSubscribed>>

\* Only an empty list of instances or RGDs is told from one with items.
Outcomes ==
    {o \in [WidgetNames -> {"data", "empty", "failed"}] :
        \A w \in {"metrics", "capabilities", "events"} : o[w] # "empty"}

HomeAnswered == \E o \in Outcomes : AllSettled(o)

-----------------------------------------------------------------------------
(* The bell *)

\* Off forgets the states seen; so does on, once the browser allows it.
toggleSubscription ==
    /\ AlertBell \in {"inactive", "active"}
    /\ IF subscribed THEN subscribed' = FALSE /\ prevStates' = <<>> /\ UNCHANGED permission
       ELSE \E p \in (IF permission = "default" THEN {"default", "granted", "denied"} ELSE {permission}) :
               /\ permission' = p
               /\ subscribed' = (p = "granted")
               /\ prevStates' = IF p = "granted" THEN <<>> ELSE prevStates
    /\ UNCHANGED <<homeVars, alerted>>

-----------------------------------------------------------------------------

OverviewInit ==
    /\ homeOn = FALSE /\ isFetching = FALSE
    /\ widgets = Loading /\ known = {} /\ healths = <<>>
    /\ lastAttemptFailed = FALSE /\ updated = FALSE /\ trend = 0
    /\ permission = "default" /\ subscribed = FALSE /\ homeSubscribed = FALSE
    /\ prevStates = <<>> /\ alerted = {}

OverviewNext ==
    HomeMounts \/ HomeUnmounts \/ fetchAll \/ HomeAnswered \/ toggleSubscription

\* Every request of api.ts ends within 30 seconds.
OverviewFairness == WF_overviewVars(HomeAnswered)

OverviewSpec == OverviewInit /\ [][OverviewNext]_overviewVars /\ OverviewFairness

-----------------------------------------------------------------------------
(* Properties *)

\* The header says "Updated" only when every widget shows what the last attempt
\* brought, and "Last attempt failed" whenever one of them does not.
StalenessIsTold ==
    homeOn /\ ~isFetching =>
        HomeShows.staleness = (IF Fails(WidgetNames) THEN "failed" ELSE "updated")
=============================================================================
