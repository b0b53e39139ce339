------------------------------- MODULE MCWeb -------------------------------
(***************************************************************************)
(* The pages and algorithms of the web client, and the algorithms of the   *)
(* server that need no other component, for TLC.                           *)
(*                                                                         *)
(* They share no state: the user has one page open at a time, and a        *)
(* component holds its state in hooks of its own. So a behaviour of this   *)
(* module is a behaviour of one of them, chosen at the start, while the    *)
(* others stay as they were opened; a property about one holds here if and *)
(* only if it holds in its own specification and in its initial states.    *)
(***************************************************************************)
EXTENDS
    InstanceHealth, AccessCheck, Dag, LineDiff, ChainView,
    VirtualGrid, Catalog, InstanceList, Revisions, EventsPage,
    FleetPage, RgdPage, Overview, Browser, NodePanel,
    Author, Designer

CONSTANT Topics   \* the components that are looked at

VARIABLE topic

webVars ==
    <<topic, healthVars, accessVars, dagVars, lineDiffVars, chainVars,
      gridVars, catalogVars, instanceListVars, revisionVars, eventVars,
      fleetVars, rgdPageVars, overviewVars, browserVars, panelVars,
      authorVars, design>>

-----------------------------------------------------------------------------
(* InstanceHealth: a managed resource with an includeWhen and a reference. *)

MCNodes == {"deploy", "ref"}
MCNodeType == [n \in MCNodes |-> IF n = "ref" THEN "external" ELSE "resource"]

\* Ready or not, with at most one other condition, or a wait that is told.
MCStatuses ==
    {s \in InstanceStatus :
        /\ s.state # "ACTIVE"
        /\ s.conds["GraphProgressing"] = "absent"
        /\ s.conds["Progressing"] \in {"absent", "True"}
        /\ s.conds["ResourcesReady"] \in {"absent", "False"}
        /\ s.conds["ReconciliationSuspended"] \in {"absent", "True"}
        /\ Cardinality({t \in {"Progressing", "ResourcesReady", "ReconciliationSuspended"} :
                           s.conds[t] # "absent"}) <= 1
        /\ s.state = "IN_PROGRESS" => \A t \in ConditionTypes \ {"Ready"} : s.conds[t] = "absent"
        /\ s.waiting => s.conds["ResourcesReady"] = "False"}

\* Children without conditions, ready, failed, in contradiction, rolling out,
\* rolled out, terminating, and with a phase that runs or does not.
MCChild(ready, available, progressing, rolledOut, phase, terminating) ==
    [conds |-> [t \in {"Ready", "Available", "Progressing"} |->
                   CASE t = "Ready" -> ready [] t = "Available" -> available [] OTHER -> progressing],
     listedFirst |-> "Ready", rolledOut |-> rolledOut, phase |-> phase, terminating |-> terminating]

MCChildStatuses ==
    {MCChild("absent", "absent", "absent", FALSE, "", t) : t \in BOOLEAN}
    \cup {MCChild("False", "absent", "absent", FALSE, p, FALSE) : p \in {"", "Running"}}
    \cup {MCChild("absent", "absent", "True", r, "", FALSE) : r \in BOOLEAN}
    \cup {MCChild("True", "False", "absent", FALSE, "", FALSE),
          MCChild("absent", "False", "True", FALSE, "Pending", FALSE)}

(* AccessCheck: read all, write some and only one object of others, both.  *)

MCRule(what, verbs) == [resources |-> what, verbs |-> verbs, named |-> FALSE]

MCRoleRules ==
    [r \in {"viewer", "keeper", "sum"} |->
        CASE r = "viewer" -> {MCRule({AnyResource}, {"get"})}
          [] r = "keeper" -> {MCRule({<<"policy">>}, {AnyVerb}),
                              [MCRule({<<"svc">>}, {AnyVerb}) EXCEPT !.named = TRUE]}
          [] r = "sum"    -> {}]

MCAggregates == [r \in DOMAIN MCRoleRules |-> IF r = "sum" THEN {"viewer", "keeper"} ELSE {}]

(* Dag: three managed resources of one kind, two of them alike.            *)

MCTypeOf == [n \in 1..3 |-> "resource"]
MCKindOf == [n \in 1..3 |-> "ConfigMap"]
MCKeysOf == [n \in 1..3 |-> IF n = 3 THEN {"data"} ELSE {"metadata", "data"}]

(* ChainView: two RGDs that refer to each other and to themselves.         *)

MCChains == [r \in {"a", "b", "c"} |->
    CASE r = "a" -> {"a", "b"} [] r = "b" -> {"b", "c", "gone"} [] r = "c" -> {"a", "b", "c"}]

(* Catalog: one RGD that uses another.                                     *)

MCRgds == [n \in {"app", "db"} |->
    IF n = "app"
    THEN [kind |-> "App", uses |-> {"Db"}, forEach |-> 1, labels |-> {"team"},
          state |-> "ready", created |-> 2]
    ELSE [kind |-> "Db", uses |-> {}, forEach |-> 0, labels |-> {},
          state |-> "error", created |-> 1]]

MCQueries == [q \in {"", "a"} |-> IF q = "" THEN DOMAIN MCRgds ELSE {"app"}]

(* InstanceList: pages of one row.                                         *)

MCInstances == [k \in {"x", "y", "z"} |->
    CASE k = "x" -> [namespace |-> "ns", health |-> "ready", created |-> 1, terminating |-> FALSE]
      [] k = "y" -> [namespace |-> "ns", health |-> "error", created |-> 2, terminating |-> TRUE]
      [] k = "z" -> [namespace |-> "",   health |-> "ready", created |-> 3, terminating |-> FALSE]]

MCSearches == [q \in {"", "x"} |-> IF q = "" THEN DOMAIN MCInstances ELSE {"x"}]

(* Revisions: the second differs from the first in two blocks.             *)

MCChangeBlocks ==
    [p \in (1..MaxRevision) \X (1..MaxRevision) |-> IF p = <<2, 1>> THEN 2 ELSE 0]

(* EventsPage: five events of two RGDs, two of them at one time.           *)

MCKubeEvents == [u \in 1..5 |->
    [rgd      |-> IF u \in {1, 4, 5} THEN "a" ELSE "b",
     instance |-> IF u \in {2, 4} THEN "x" ELSE "y",
     reason   |-> IF u = 5 THEN "Ready" ELSE "Progressing",
     type     |-> IF u = 3 THEN "Warning" ELSE "Normal",
     time     |-> IF u = 5 THEN 4 ELSE u]]

(* FleetPage: three contexts of one cluster, one of another.               *)

MCClusterOf  == [c \in FleetContexts |-> IF c = "d" THEN 2 ELSE 1]
MCNameLength == [c \in FleetContexts |-> CASE c = "aaa" -> 3 [] c = "bb" -> 2 [] OTHER -> 1]

(* Overview, NodePanel                                                     *)

MCRgdOf     == [k \in AlertKeys |-> "r"]
MCCreatedAt == [k \in AlertKeys |-> 0]

MCPanelNodeType == [n \in PanelNodes |->
    CASE n = "a" -> "resource" [] n = "r" -> "row" [] n = "i" -> "instance" [] n = "c" -> "collection"]
MCItemsOf == [n \in {"c"} |-> {"c1", "c2"}]

-----------------------------------------------------------------------------
WebInit ==
    /\ topic \in Topics
    /\ HealthInit /\ AccessInit /\ DagInit
    /\ LineDiffInit /\ ChainInit /\ GridInit
    /\ CatalogInit /\ InstanceListInit /\ RevisionsInit
    /\ EventsInit /\ FleetInit /\ RgdPageInit
    /\ OverviewInit /\ BrowserInit /\ PanelInit
    /\ AuthorInit /\ DesignerInit
    /\ topic # "revisions" => revisedRgd = CHOOSE r \in RevisedRgds : TRUE
    /\ topic # "instances page" => urlHealth = "all"
    /\ topic # "grid" => grid.itemCount = 0

\* A step of the component that the behaviour is about.

Stays(t) ==
    /\ UNCHANGED topic
    /\ IF t = "health" THEN TRUE ELSE UNCHANGED healthVars
    /\ IF t = "access" THEN TRUE ELSE UNCHANGED accessVars
    /\ IF t = "dag" THEN TRUE ELSE UNCHANGED dagVars
    /\ IF t = "linediff" THEN TRUE ELSE UNCHANGED lineDiffVars
    /\ IF t = "chains" THEN TRUE ELSE UNCHANGED chainVars
    /\ IF t = "grid" THEN TRUE ELSE UNCHANGED gridVars
    /\ IF t = "catalog" THEN TRUE ELSE UNCHANGED catalogVars
    /\ IF t \in {"instances page", "instance table"} THEN TRUE ELSE UNCHANGED instanceListVars
    /\ IF t = "revisions" THEN TRUE ELSE UNCHANGED revisionVars
    /\ IF t = "events" THEN TRUE ELSE UNCHANGED eventVars
    /\ IF t = "fleet" THEN TRUE ELSE UNCHANGED fleetVars
    /\ IF t = "rgd page" THEN TRUE ELSE UNCHANGED rgdPageVars
    /\ IF t = "overview" THEN TRUE ELSE UNCHANGED overviewVars
    /\ IF t = "browser" THEN TRUE ELSE UNCHANGED browserVars
    /\ IF t = "node panel" THEN TRUE ELSE UNCHANGED panelVars
    /\ IF t = "author" THEN TRUE ELSE UNCHANGED authorVars
    /\ IF t = "designer" THEN TRUE ELSE UNCHANGED design

WebNext ==
    \/ topic = "health" /\ HealthNext /\ Stays("health")
    \/ topic = "access" /\ AccessNext /\ Stays("access")
    \/ topic = "dag" /\ DagNext /\ Stays("dag")
    \/ topic = "linediff" /\ LineDiffNext /\ Stays("linediff")
    \/ topic = "chains" /\ ChainNext /\ Stays("chains")
    \/ topic = "grid" /\ GridNext /\ Stays("grid")
    \/ topic = "catalog" /\ CatalogNext /\ Stays("catalog")
    \/ topic = "instances page" /\ InstancesPageNext /\ Stays("instances page")
    \/ topic = "instance table" /\ InstanceTableNext /\ Stays("instance table")
    \/ topic = "revisions" /\ RevisionsNext /\ Stays("revisions")
    \/ topic = "events" /\ EventsNext /\ Stays("events")
    \/ topic = "fleet" /\ FleetNext /\ Stays("fleet")
    \/ topic = "rgd page" /\ RgdPageNext /\ Stays("rgd page")
    \/ topic = "overview" /\ OverviewNext /\ Stays("overview")
    \/ topic = "browser" /\ BrowserNext /\ Stays("browser")
    \/ topic = "node panel" /\ PanelNext /\ Stays("node panel")
    \/ topic = "author" /\ AuthorNext /\ Stays("author")
    \/ topic = "designer" /\ DesignerNext /\ Stays("designer")

\* The browser's timer fires (AuthorPage.tsx).
WebFairness == WF_webVars(topic = "author" /\ SaveTimerFires /\ Stays("author"))

WebSpec == WebInit /\ [][WebNext]_webVars /\ WebFairness

=============================================================================
