----------------------------- MODULE NodePanel -----------------------------
(***************************************************************************)
(* The side panel of the instance page, which opens on a click on a node   *)
(* of the graph or on a row of the resource list: LiveNodeDetailPanel.tsx, *)
(* or CollectionPanel.tsx for a forEach node. Both fetch the YAML of one   *)
(* resource, with a timer of their own. React keeps the panel, with its    *)
(* state, when one node is selected after another.                         *)
(***************************************************************************)
EXTENDS Naturals, FiniteSets

CONSTANTS
    PanelNodes,    \* what can be clicked
    PanelNodeType, \* [PanelNodes -> {"resource", "instance", "state", "row", "collection"}]
    ItemsOf,       \* the items of each collection
    SecretResources  \* the nodes and items whose resource is a Secret

VARIABLES
    panelNode,     \* the selected node, "" for none
    absentNodes,   \* nodes that nodeStateMap has as pending or not-found
    yamlState,     \* of YamlSection: [status, of, masked]
    fetchedFor,    \* fetchedForRef
    rawObj, secretRevealed,
    rawResourceObj,\* the panel's own copy, for finalizers and deletion
    yamlReqs,      \* [of, timed, live]: does its timer run, does its section exist
    selectedItem, viewState, itemReqs   \* of CollectionPanel

sectionVars == <<yamlState, fetchedFor, rawObj, secretRevealed>>
itemVars    == <<selectedItem, viewState, itemReqs>>
panelVars   == <<panelNode, absentNodes, sectionVars, rawResourceObj, yamlReqs, itemVars>>

Items == UNION {ItemsOf[n] : n \in DOMAIN ItemsOf}

PanelAssumption ==
    /\ "" \notin PanelNodes \cup Items
    /\ PanelNodeType \in [PanelNodes -> {"resource", "instance", "state", "row", "collection"}]
    /\ DOMAIN ItemsOf = {n \in PanelNodes : PanelNodeType[n] = "collection"}
    /\ SecretResources \subseteq PanelNodes \cup Items

ASSUME PanelAssumption

IsCollection(n) == n # "" /\ PanelNodeType[n] = "collection"

\* A node that does not exist yet has no resource to fetch, nor have an instance and a
\* state node.
HasYaml(n, absent) ==
    /\ n # ""
    /\ \/ PanelNodeType[n] = "row"
       \/ PanelNodeType[n] = "resource" /\ n \notin absent

-----------------------------------------------------------------------------
(* What is shown *)

NodePanelShows ==
    [live       |-> panelNode # "" /\ ~IsCollection(panelNode),
     yaml       |-> HasYaml(panelNode, absentNodes),
     absent     |-> panelNode # "" /\ PanelNodeType[panelNode] = "resource" /\ panelNode \in absentNodes,
     finalizers |-> IF panelNode # "" /\ PanelNodeType[panelNode] \in {"resource", "row"}
                    THEN rawResourceObj ELSE ""]

YamlShows ==
    [spinner |-> yamlState.status \in {"idle", "loading"},
     retry   |-> yamlState.status \in {"timeout", "error"},
     reveal  |-> yamlState.status = "loaded" /\ rawObj \in SecretResources]

\* The items of the collection, by their index, unless one was opened.
CollectionPanelShows ==
    [open  |-> IsCollection(panelNode),
     table |-> IF IsCollection(panelNode) /\ selectedItem = "" THEN ItemsOf[panelNode] ELSE {}]

ItemViewShows ==
    [back  |-> selectedItem # "",
     retry |-> selectedItem # "" /\ viewState.status \in {"timeout", "error"}]

-----------------------------------------------------------------------------
(* YamlSection *)

NoYaml == [status |-> "idle", of |-> "", masked |-> TRUE]

\* Runs when the node or its resourceInfo is another object: the timer of the run
\* before is cleared, the fetch is not, and a node already asked for is not asked again.
YamlEffect(n) ==
    LET untimed == {[q EXCEPT !.timed = FALSE] : q \in yamlReqs}
    IN  IF fetchedFor = n THEN yamlReqs' = untimed /\ UNCHANGED sectionVars
        ELSE /\ fetchedFor' = n
             /\ yamlState' = [NoYaml EXCEPT !.status = "loading"]
             /\ rawObj' = "" /\ secretRevealed' = FALSE
             /\ yamlReqs' = untimed \cup {[of |-> n, timed |-> TRUE, live |-> TRUE]}

Unlive(reqs) == {[q EXCEPT !.timed = FALSE, !.live = FALSE] : q \in reqs}

SectionMounts(n) ==
    /\ fetchedFor' = n
    /\ yamlState' = [NoYaml EXCEPT !.status = "loading"]
    /\ rawObj' = "" /\ secretRevealed' = FALSE
    /\ yamlReqs' = Unlive(yamlReqs) \cup {[of |-> n, timed |-> TRUE, live |-> TRUE]}

SectionUnmounts ==
    /\ fetchedFor' = "" /\ yamlState' = NoYaml /\ rawObj' = "" /\ secretRevealed' = FALSE
    /\ yamlReqs' = Unlive(yamlReqs)

SectionRenders(n, absent) ==
    LET was == HasYaml(panelNode, absentNodes)
        is  == HasYaml(n, absent)
    IN  \/ was /\ is /\ YamlEffect(n)
        \/ ~was /\ is /\ SectionMounts(n)
        \/ was /\ ~is /\ SectionUnmounts
        \/ ~was /\ ~is /\ UNCHANGED <<sectionVars, yamlReqs>>

\* Wrong: what is shown follows the button as it was left.
YamlAnsweredAsLeft(q) ==
    /\ q \in yamlReqs
    /\ yamlReqs' = yamlReqs \ {q}
    /\ rawResourceObj' = q.of
    /\ IF q.live THEN /\ rawObj' = q.of
                      /\ yamlState' = [status |-> "loaded", of |-> q.of, masked |-> ~secretRevealed]
       ELSE UNCHANGED <<rawObj, yamlState>>
    /\ UNCHANGED <<panelNode, absentNodes, fetchedFor, secretRevealed, itemVars>>

\* The panel is told first, even by a section that is gone.
YamlAnswered(q) ==
    /\ q \in yamlReqs
    /\ yamlReqs' = yamlReqs \ {q}
    /\ rawResourceObj' = q.of
    /\ IF q.live THEN /\ rawObj' = q.of
                      /\ yamlState' = [status |-> "loaded", of |-> q.of, masked |-> TRUE]
       ELSE UNCHANGED <<rawObj, yamlState>>
    /\ UNCHANGED <<panelNode, absentNodes, fetchedFor, secretRevealed, itemVars>>

YamlFails(q) ==
    /\ q \in yamlReqs
    /\ yamlReqs' = yamlReqs \ {q}
    /\ IF q.live THEN \E s \in {"not-found", "error"} :
                          yamlState' = [status |-> s, of |-> q.of, masked |-> TRUE]
       ELSE UNCHANGED yamlState
    /\ UNCHANGED <<panelNode, absentNodes, fetchedFor, rawObj, secretRevealed, rawResourceObj, itemVars>>

\* Fifteen seconds. The request goes on.
YamlTimesOut(q) ==
    /\ q \in yamlReqs /\ q.timed
    /\ yamlReqs' = (yamlReqs \ {q}) \cup {[q EXCEPT !.timed = FALSE]}
    /\ yamlState' = [status |-> "timeout", of |-> q.of, masked |-> TRUE]
    /\ UNCHANGED <<panelNode, absentNodes, fetchedFor, rawObj, secretRevealed, rawResourceObj, itemVars>>

\* Nothing the effect depends on changes: the fetch waits for the next poll.
handleYamlRetry ==
    /\ NodePanelShows.yaml /\ YamlShows.retry
    /\ fetchedFor' = "" /\ yamlState' = NoYaml /\ rawObj' = "" /\ secretRevealed' = FALSE
    /\ UNCHANGED <<panelNode, absentNodes, rawResourceObj, yamlReqs, itemVars>>

handleToggleReveal ==
    /\ NodePanelShows.yaml /\ YamlShows.reveal
    /\ secretRevealed' = ~secretRevealed
    /\ yamlState' = [yamlState EXCEPT !.of = rawObj, !.masked = secretRevealed]
    /\ UNCHANGED <<panelNode, absentNodes, fetchedFor, rawObj, rawResourceObj, yamlReqs, itemVars>>

-----------------------------------------------------------------------------
(* InstanceDetail: the selection, and its polls. *)

PanelGoes == rawResourceObj' = "" /\ yamlReqs' = {} /\ fetchedFor' = "" /\ yamlState' = NoYaml
             /\ rawObj' = "" /\ secretRevealed' = FALSE

NoItem == selectedItem' = "" /\ viewState' = NoYaml /\ itemReqs' = {}

\* Between nodes of one kind of panel everything but the node stays.
handleNodeClick(n) ==
    /\ n # panelNode
    /\ panelNode' = n
    /\ IF IsCollection(n)
       THEN PanelGoes /\ (IF IsCollection(panelNode) THEN UNCHANGED itemVars ELSE NoItem)
       ELSE SectionRenders(n, absentNodes) /\ NoItem /\ UNCHANGED rawResourceObj
    /\ UNCHANGED absentNodes

handlePanelClose ==
    /\ panelNode # ""
    /\ panelNode' = "" /\ PanelGoes /\ NoItem
    /\ UNCHANGED absentNodes

\* Every poll makes a new resourceInfo for a node of the graph; a row keeps its own.
PanelPoll ==
    /\ \E absent \in SUBSET {n \in PanelNodes : PanelNodeType[n] = "resource"} :
          /\ absentNodes' = absent
          /\ IF panelNode # "" /\ PanelNodeType[panelNode] = "resource"
             THEN SectionRenders(panelNode, absent) ELSE UNCHANGED <<sectionVars, yamlReqs>>
    /\ UNCHANGED <<panelNode, rawResourceObj, itemVars>>

-----------------------------------------------------------------------------
(* CollectionPanel and its ItemYamlView *)

AskItem(i) ==
    /\ viewState' = [NoYaml EXCEPT !.status = "loading"]
    /\ itemReqs' = {[q EXCEPT !.live = FALSE] : q \in itemReqs} \cup {[of |-> i, live |-> TRUE]}

SelectItem(i) ==
    /\ i \in CollectionPanelShows.table
    /\ selectedItem' = i /\ AskItem(i)
    /\ UNCHANGED <<panelNode, absentNodes, sectionVars, rawResourceObj, yamlReqs>>

handleBack ==
    /\ ItemViewShows.back
    /\ selectedItem' = "" /\ viewState' = NoYaml
    /\ itemReqs' = {[q EXCEPT !.live = FALSE] : q \in itemReqs}
    /\ UNCHANGED <<panelNode, absentNodes, sectionVars, rawResourceObj, yamlReqs>>

handleItemRetry ==
    /\ ItemViewShows.retry
    /\ AskItem(selectedItem)
    /\ UNCHANGED <<selectedItem, panelNode, absentNodes, sectionVars, rawResourceObj, yamlReqs>>

\* Wrong: without the test of the signal.
ItemAnsweredAny(q) ==
    /\ q \in itemReqs
    /\ itemReqs' = itemReqs \ {q}
    /\ \E s \in {"loaded", "not-found", "error"} :
           viewState' = IF selectedItem # "" THEN [status |-> s, of |-> q.of, masked |-> FALSE] ELSE viewState
    /\ UNCHANGED <<selectedItem, panelNode, absentNodes, sectionVars, rawResourceObj, yamlReqs>>

\* The view has no mask and no button: the values of a Secret are shown with the rest.
ItemAnswered(q) ==
    /\ q \in itemReqs
    /\ itemReqs' = itemReqs \ {q}
    /\ IF q.live THEN \E s \in {"loaded", "not-found", "error"} :
                          viewState' = [status |-> s, of |-> q.of, masked |-> FALSE]
       ELSE UNCHANGED viewState
    /\ UNCHANGED <<selectedItem, panelNode, absentNodes, sectionVars, rawResourceObj, yamlReqs>>

\* The timer ends the request for good.
ItemTimesOut ==
    /\ viewState.status = "loading"
    /\ viewState' = [status |-> "timeout", of |-> selectedItem, masked |-> FALSE]
    /\ itemReqs' = {[q EXCEPT !.live = FALSE] : q \in itemReqs}
    /\ UNCHANGED <<selectedItem, panelNode, absentNodes, sectionVars, rawResourceObj, yamlReqs>>

-----------------------------------------------------------------------------

PanelInit ==
    /\ panelNode = "" /\ absentNodes = {}
    /\ yamlState = NoYaml /\ fetchedFor = "" /\ rawObj = "" /\ secretRevealed = FALSE
    /\ rawResourceObj = "" /\ yamlReqs = {}
    /\ selectedItem = "" /\ viewState = NoYaml /\ itemReqs = {}

PanelNext ==
    \/ \E n \in PanelNodes : handleNodeClick(n)
    \/ handlePanelClose \/ PanelPoll
    \/ \E q \in yamlReqs : YamlAnswered(q) \/ YamlFails(q) \/ YamlTimesOut(q)
    \/ handleYamlRetry \/ handleToggleReveal
    \/ \E i \in Items : SelectItem(i)
    \/ handleBack \/ handleItemRetry \/ ItemTimesOut
    \/ \E q \in itemReqs : ItemAnswered(q)

PanelSpec == PanelInit /\ [][PanelNext]_panelVars

-----------------------------------------------------------------------------
(* Properties *)

\* The Secrets whose values can be read.
SecretsOnScreen ==
    SecretResources \cap
        ((IF yamlState.status = "loaded" /\ ~yamlState.masked THEN {yamlState.of} ELSE {})
            \cup (IF viewState.status = "loaded" THEN {viewState.of} ELSE {}))

\* GH #402: the values of a Secret become visible by a press of the button, which stands
\* beside that very Secret, or because it is the item of a collection that the user has
\* opened; and by nothing else: not by the answer for another node or item that comes
\* late, a node that is selected anew, a retry or a poll.
SecretsShownOnRequest ==
    [][\A s \in SecretsOnScreen' \ SecretsOnScreen :
           (handleToggleReveal /\ s = yamlState.of) \/ s = selectedItem']_panelVars

\* Issue #238: an item's view shows its own answer, or its own timeout, and not what
\* an item that was left, or a try that was given up, brings later.
ItemShowsItself == viewState.status \in {"idle", "loading"} \/ viewState.of = selectedItem
=============================================================================
