--------------------------- MODULE InstanceHealth ---------------------------
(***************************************************************************)
(* How the health of one kro instance is told, six times over:             *)
(*   - lib/format.ts, from all conditions (detail page, RGD page),         *)
(*   - lib/format.ts, from the summary of GET /instances (overview),       *)
(*   - lib/instanceNodeState.ts, per node of the graph (detail page),      *)
(*   - lib/collection.ts, per item of a forEach collection,                *)
(*   - lib/conditions.ts, per condition,                                   *)
(*   - handlers/fleet.go, per cluster (fleet page).                        *)
(* The classifications are functions of one status, written at different   *)
(* times in two languages; the properties say where they agree.            *)
(*                                                                         *)
(* A status holds at most one condition of a type (kro and Kubernetes key  *)
(* conditions by type), so conditions are a function from types to         *)
(* statuses. "waiting" stands for the reason or message of ResourcesReady  *)
(* that tells a wait for a dependency, "rolledOut" for the reason          *)
(* NewReplicaSetAvailable.                                                 *)
(***************************************************************************)
EXTENDS Naturals, FiniteSets, Sequences

CONSTANTS
    Nodes,       \* ids of the resources of the RGD
    Unlabelled,  \* the "id" of a child without the label kro.run/node-id
    NodeType,    \* [Nodes -> node types of lib/dag.ts]
    IncludeWhen, \* the nodes with an includeWhen expression
    Statuses,    \* the instance statuses considered
    ChildStatuses,   \* the child statuses considered
    MaxChildren  \* bound on the length of the list of children

VARIABLES
    instance,    \* the status of the instance
    children     \* the list GetInstanceChildren answers, in its order

healthVars == <<instance, children>>

ConditionTypes == {"Ready", "Progressing", "GraphProgressing",
                   "ResourcesReady", "ReconciliationSuspended"}
ConditionStatus == {"True", "False", "Unknown", "absent"}

InstanceStatus == [state : {"", "ACTIVE", "IN_PROGRESS"},
                   conds : [ConditionTypes -> ConditionStatus],
                   waiting : BOOLEAN]

ChildStatus == [conds : [{"Ready", "Available", "Progressing"} -> ConditionStatus],
                listedFirst : {"Ready", "Available"},
                rolledOut : BOOLEAN,
                phase : {"", "Running", "Pending"},
                terminating : BOOLEAN]

Child == [node : Nodes \cup {Unlabelled}, status : ChildStatus]

HealthAssumption ==
    /\ Unlabelled \notin Nodes
    /\ NodeType \in [Nodes -> {"instance", "resource", "collection", "external",
                               "externalCollection", "state"}]
    /\ IncludeWhen \subseteq Nodes
    /\ Statuses \subseteq InstanceStatus
    /\ ChildStatuses \subseteq ChildStatus
    /\ MaxChildren \in Nat

ASSUME HealthAssumption

-----------------------------------------------------------------------------
(* lib/conditions.ts *)

NEGATION_POLARITY_CONDITIONS == {"ReconciliationSuspended"}

isHealthyCondition(type, status) ==
    status = IF type \in NEGATION_POLARITY_CONDITIONS THEN "False" ELSE "True"

conditionStatusLabel(type, status) ==
    CASE status = "Unknown" -> "Pending"
      [] status # "Unknown" /\ isHealthyCondition(type, status) -> "Healthy"
      [] OTHER -> "Failed"

Present(o) == {t \in DOMAIN o.conds : o.conds[t] # "absent"}

\* The condition counter of lib/telemetry.ts. It knows no polarity.
countFailedConditions(o) ==
    Cardinality({t \in Present(o) \ {"Ready"} : o.conds[t] \in {"False", "Unknown"}})

-----------------------------------------------------------------------------
(* lib/format.ts *)

IsProgressing(o) == \E t \in {"Progressing", "GraphProgressing"} : o.conds[t] = "True"

UnhealthyOther(o) ==
    \E t \in Present(o) \ {"Ready"} :
        o.conds[t] # "Unknown" /\ ~isHealthyCondition(t, o.conds[t])

extractInstanceHealth(o) ==
    IF o.state = "IN_PROGRESS" THEN "reconciling"
    ELSE IF Present(o) = {} THEN "unknown"
    ELSE IF IsProgressing(o) THEN "reconciling"
    ELSE IF o.conds["Ready"] = "True" THEN "ready"
    ELSE IF o.conds["Ready"] = "False" \/ UnhealthyOther(o) THEN "error"
    ELSE IF \A t \in Present(o) : o.conds[t] = "Unknown" THEN "pending"
    ELSE "unknown"

applyDegradedState(health, hasChildError) ==
    IF health = "ready" /\ hasChildError THEN "degraded" ELSE health

extractReadyStatus(o) ==
    CASE o.conds["Ready"] = "True"  -> "ready"
      [] o.conds["Ready"] = "False" -> "error"
      [] OTHER -> "unknown"

-----------------------------------------------------------------------------
(* The summary that handlers/instances_all.go makes of an instance, and    *)
(* the health that lib/format.ts reads off it.                             *)

Summary(o) ==
    [state |-> o.state,
     ready |-> IF o.conds["Ready"] = "absent" THEN "Unknown" ELSE o.conds["Ready"]]

healthFromSummary(s) ==
    CASE s.state = "IN_PROGRESS" -> "reconciling"
      [] s.state # "IN_PROGRESS" /\ s.ready = "True"  -> "ready"
      [] s.state # "IN_PROGRESS" /\ s.ready = "False" -> "error"
      [] OTHER -> "unknown"

(* handlers/fleet.go *)

isInstanceReconciling(o) == o.state = "IN_PROGRESS"
isInstanceDegraded(o)    == o.state # "IN_PROGRESS" /\ o.conds["Ready"] = "False"

-----------------------------------------------------------------------------
(* lib/instanceNodeState.ts *)

GlobalState(o) ==
    IF o.state = "IN_PROGRESS" \/ IsProgressing(o) THEN "reconciling"
    ELSE IF o.conds["Ready"] # "False" THEN "alive"
    ELSE IF o.conds["ResourcesReady"] # "absent" /\ o.waiting THEN "reconciling"
    ELSE "error"

deriveChildState(c) ==
    IF c.conds["Available"] = "True" \/ c.conds["Ready"] = "True" THEN "alive"
    ELSE IF c.conds["Ready"] = "False" \/ c.conds["Available"] = "False" THEN "error"
    ELSE IF c.conds["Progressing"] = "True" /\ ~c.rolledOut THEN "reconciling"
    ELSE "alive"

ObservedState(o, c) ==
    IF c.terminating \/ GlobalState(o) = "error" THEN "error" ELSE deriveChildState(c)

AbsentState(o, n) ==
    IF NodeType[n] \in {"external", "externalCollection"}
    THEN IF GlobalState(o) = "error" THEN "not-found" ELSE "alive"
    ELSE IF n \in IncludeWhen THEN "pending" ELSE "not-found"

ObservedNodes(cs) == {cs[i].node : i \in DOMAIN cs} \ {Unlabelled}

\* The first child with a node's label wins.
FirstChild(cs, n) ==
    cs[CHOOSE i \in DOMAIN cs : cs[i].node = n /\ \A j \in 1..(i - 1) : cs[j].node # n]

\* Wrong: the failure of the instance is not spread to its children.
buildNodeStateMapOwn(o, cs) ==
    [n \in ObservedNodes(cs) |-> deriveChildState(FirstChild(cs, n).status)]

buildNodeStateMap(o, cs) ==
    LET seen   == ObservedNodes(cs)
        listed == {n \in Nodes : NodeType[n] \notin {"instance", "state"}}
    IN  [n \in seen \cup listed |->
            IF n \in seen THEN ObservedState(o, FirstChild(cs, n).status)
                          ELSE AbsentState(o, n)]

(* lib/telemetry.ts *)

countHealthyChildren(map) ==
    [healthy  |-> Cardinality({n \in DOMAIN map : map[n] \in {"alive", "reconciling"}}),
     total    |-> Cardinality(DOMAIN map),
     hasError |-> \E n \in DOMAIN map : map[n] = "error"]

(* lib/collection.ts: what the badge of a collection counts as ready. *)

isItemReady(c) ==
    LET other   == IF c.listedFirst = "Ready" THEN "Available" ELSE "Ready"
        decides == IF c.conds[c.listedFirst] \in {"True", "False"} THEN c.listedFirst ELSE other
    IN  CASE c.phase = "Pending" -> FALSE
          [] c.phase = "Running" -> TRUE
          [] OTHER -> c.conds[decides] # "False"

(* pages/InstanceDetail.tsx: the health the page announces and shows. *)

PageHealth(o, cs) ==
    applyDegradedState(extractInstanceHealth(o),
                       countHealthyChildren(buildNodeStateMap(o, cs)).hasError)

-----------------------------------------------------------------------------
(* kro, outside the repository, writes statuses and creates children.       *)

\* A custom resource that was just created has no status.
NoStatus == [state |-> "", conds |-> [t \in ConditionTypes |-> "absent"], waiting |-> FALSE]

HealthInit == instance = NoStatus /\ children = <<>>

KroUpdatesStatus == instance' \in Statuses /\ UNCHANGED children

KroAddsChild ==
    /\ Len(children) < MaxChildren
    /\ \E c \in [node : Nodes \cup {Unlabelled}, status : ChildStatuses] :
           children' = Append(children, c)
    /\ UNCHANGED instance

KroRemovesChild ==
    /\ children # <<>>
    /\ children' = Tail(children)
    /\ UNCHANGED instance

HealthNext == KroUpdatesStatus \/ KroAddsChild \/ KroRemovesChild

HealthSpec == HealthInit /\ [][HealthNext]_healthVars

-----------------------------------------------------------------------------
(* Properties *)

\* The cluster's figures on the fleet page and those of the overview count the
\* same instances: what fleet.go calls degraded and reconciling is what
\* format.ts calls error and reconciling from the summary of instances_all.go.
FleetAgreesWithOverview ==
    LET listed == healthFromSummary(Summary(instance)) IN
    /\ isInstanceDegraded(instance)    <=> listed = "error"
    /\ isInstanceReconciling(instance) <=> listed = "reconciling"

\* What the overview says of an instance and what its own page says differ in
\* three cases only: kro reports progress by a condition, a child fails under a
\* ready instance, or Ready says nothing.
DetailAgreesWithOverview ==
    LET listed == healthFromSummary(Summary(instance))
        page   == PageHealth(instance, children)
    IN  listed # page =>
            \/ IsProgressing(instance) /\ page = "reconciling"
            \/ listed = "ready" /\ page = "degraded"
            \/ listed = "unknown" /\ page \in {"error", "pending"}

\* No node of the graph is red under a page that says ready; a page whose
\* instance failed for good shows every child red; and a resource that kro
\* creates is never shown alive before a child carries its label.
GraphAgreesWithPage ==
    LET map == buildNodeStateMap(instance, children)
    IN  /\ PageHealth(instance, children) = "ready" => \A n \in DOMAIN map : map[n] # "error"
        /\ isInstanceDegraded(instance) /\ ~IsProgressing(instance) /\ ~instance.waiting
               => \A n \in ObservedNodes(children) : map[n] = "error"
        /\ \A n \in DOMAIN map \ ObservedNodes(children) :
               map[n] = "alive" => NodeType[n] \in {"external", "externalCollection"}

\* A child that the graph shows red on its own account is not counted ready by
\* the badge of its collection, unless its phase says that it runs, or it is
\* only being deleted.
BadgeAgreesWithGraph ==
    \A i \in DOMAIN children :
        LET c == children[i].status IN
        deriveChildState(c) = "error" /\ c.phase # "Running" => ~isItemReady(c)

\* An instance that its page calls failed has a condition that the list of conditions
\* calls failed; and the counter of failed conditions, which knows no polarity, misses
\* it only where that is Ready itself or the suspension.
ConditionsAgreeWithPage ==
    extractInstanceHealth(instance) = "error" =>
        LET failed == {t \in Present(instance) :
                          conditionStatusLabel(t, instance.conds[t]) = "Failed"}
        IN  /\ failed # {}
            /\ countFailedConditions(instance) = 0
                   => failed \subseteq {"Ready", "ReconciliationSuspended"}

\* The six ways to tell the health of an instance agree: on the fleet page, in the
\* lists, on its page, in the graph, in the badge of a collection,
\* in the list of its conditions.
HealthAgrees ==
    /\ FleetAgreesWithOverview
    /\ DetailAgreesWithOverview
    /\ GraphAgreesWithPage
    /\ BadgeAgreesWithGraph
    /\ ConditionsAgreeWithPage

=============================================================================
