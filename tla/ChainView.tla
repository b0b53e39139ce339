----------------------------- MODULE ChainView -----------------------------
(***************************************************************************)
(* RGDs nested in RGDs, in the two places that show them:                  *)
(*   - StaticChainDAG on the page of an RGD unfolds the RGD that a node's  *)
(*     kind belongs to, level by level, from the list it has;              *)
(*   - DeepDAG on the page of an instance opens a panel under a node and   *)
(*     fetches the child instance for it (one level: a panel holds another *)
(*     DeepDAG, which works the same way).                                 *)
(***************************************************************************)
EXTENDS Naturals, FiniteSets, Sequences, SequencesExt

CONSTANTS
    Chains,   \* [RGD names -> the sets of RGD names its nodes are chained to]
    Missing,  \* names that the list of RGDs no longer has
    Opened,   \* the RGD of the page
    Panels,   \* the nodes of a kind that an RGD defines
    MaxLoads  \* bound on the loads of one panel at a time

VARIABLES
    path,     \* the RGDs shown, each nested in the one before
    panel,    \* expansionMap: is the panel open, and what does it hold
    loads,    \* how many loads of a panel are under way
    created   \* the panels whose child is in the list the page polls

chainVars == <<path, panel, loads, created>>

ChainAssumption ==
    /\ DOMAIN Chains \cap Missing = {}
    /\ Chains \in [DOMAIN Chains -> SUBSET (DOMAIN Chains \cup Missing)]
    /\ Opened \in DOMAIN Chains
    /\ MaxLoads \in Nat

ASSUME ChainAssumption

-----------------------------------------------------------------------------
(* StaticChainDAG                                                          *)

MAX_DEPTH == 4

\* Wrong: the ancestors are not handed down.
AncestorsParent(level) == {path[level]}

\* The top level takes itself as its ancestor; a nested one gets its parent's
\* ancestors and its parent, but not itself.
Ancestors(level) ==
    IF level = 1 THEN {path[1]} ELSE {path[i] : i \in 1..(level - 1)}

\* What is drawn at a node chained to an RGD, at a level of nesting.
ChainNodeShows(level, rgd) ==
    LET cycle == rgd \in Ancestors(level)
        deep  == level - 1 >= MAX_DEPTH
    IN  [toggle |-> ~cycle /\ ~deep, cycle |-> cycle, maxDepth |-> deep]

NestedShows(rgd) == IF rgd \in Missing THEN "not found" ELSE "subgraph"

ChainedFrom(rgd) == IF rgd \in Missing THEN {} ELSE Chains[rgd]

\* One node of a graph is open at a time: opening one closes what hung from its sibling.
Expand(level) ==
    \E rgd \in ChainedFrom(path[level]) :
        /\ ChainNodeShows(level, rgd).toggle
        /\ path' = SubSeq(path, 1, level) \o <<rgd>>
        /\ UNCHANGED <<panel, loads, created>>

Collapse(level) ==
    /\ level < Len(path)
    /\ path' = SubSeq(path, 1, level)
    /\ UNCHANGED <<panel, loads, created>>

-----------------------------------------------------------------------------
(* DeepDAG                                                                 *)

Closed(p) == [p EXCEPT !.open = FALSE]
Holds(content) == [open |-> TRUE, content |-> content]
OpenAlone(n, p) == [m \in Panels |-> IF m = n THEN p ELSE Closed(panel[m])]

\* What DeepDAG draws at a node of a kind that an RGD defines; the graphs nested in
\* the panel's graph are not followed.
PanelShows(n) ==
    [expanded |-> panel[n].open,
     loading  |-> panel[n] = Holds("loading"),
     retry    |-> panel[n] = Holds("error"),
     nested   |-> panel[n] = Holds("data")]

ClosePanel(n) ==
    /\ PanelShows(n).expanded
    /\ panel' = [panel EXCEPT ![n] = Closed(panel[n])]
    /\ UNCHANGED <<path, loads, created>>

ReopenPanel(n) ==
    /\ ~panel[n].open
    /\ panel[n].content = "data"
    /\ panel' = OpenAlone(n, Holds("data"))
    /\ UNCHANGED <<path, loads, created>>

OpenUncreated(n) ==
    /\ ~panel[n].open
    /\ panel[n].content # "data"
    /\ n \notin created
    /\ panel' = OpenAlone(n, Holds("error"))
    /\ UNCHANGED <<path, loads, created>>

\* Wrong: no load is started again while one is under way.
LoadPanelOnce(n) ==
    /\ ~panel[n].open
    /\ panel[n].content # "data"
    /\ n \in created
    /\ loads[n] < MaxLoads
    /\ panel' = OpenAlone(n, Holds("loading"))
    /\ loads' = [loads EXCEPT ![n] = IF panel[n].content = "idle" THEN @ + 1 ELSE @]
    /\ UNCHANGED <<path, created>>

LoadPanel(n) ==
    /\ ~panel[n].open
    /\ panel[n].content # "data"
    /\ n \in created
    /\ loads[n] < MaxLoads
    /\ panel' = OpenAlone(n, Holds("loading"))
    /\ loads' = [loads EXCEPT ![n] = @ + 1]
    /\ UNCHANGED <<path, created>>

\* The answer opens the panel, closed in the meantime or not, and closes no other.
PanelLoaded(n) ==
    /\ loads[n] > 0
    /\ loads' = [loads EXCEPT ![n] = @ - 1]
    /\ \E content \in {"data", "error"} : panel' = [panel EXCEPT ![n] = Holds(content)]
    /\ UNCHANGED <<path, created>>

\* The button calls the toggle twice, both times the one of the render in which
\* the panel was open: it is closed twice and not loaded.
RetryPanel(n) ==
    /\ PanelShows(n).retry
    /\ panel' = [panel EXCEPT ![n] = Closed(panel[n])]
    /\ UNCHANGED <<path, loads, created>>

ChildListed(n) == created' = created \cup {n} /\ UNCHANGED <<path, panel, loads>>
ChildGone(n)   == created' = created \ {n} /\ UNCHANGED <<path, panel, loads>>

-----------------------------------------------------------------------------

ChainInit ==
    /\ path = <<Opened>>
    /\ panel = [n \in Panels |-> [open |-> FALSE, content |-> "idle"]]
    /\ loads = [n \in Panels |-> 0]
    /\ created = {}

ChainNext ==
    \/ \E level \in DOMAIN path : Expand(level) \/ Collapse(level)
    \/ \E n \in Panels :
          \/ ClosePanel(n) \/ ReopenPanel(n) \/ OpenUncreated(n) \/ LoadPanel(n)
          \/ PanelLoaded(n) \/ RetryPanel(n)
          \/ ChildListed(n) \/ ChildGone(n)

ChainFairness == \A n \in Panels : WF_chainVars(PanelLoaded(n))

ChainSpec == ChainInit /\ [][ChainNext]_chainVars /\ ChainFairness

-----------------------------------------------------------------------------
(* Properties *)

\* Unfolding ends however the RGDs refer to each other: at most four levels, the
\* page's own RGD never again, and another at most twice, directly in itself.
CyclesAreCut ==
    /\ Len(path) <= MAX_DEPTH + 1
    /\ \A i, j \in DOMAIN path : i < j /\ path[i] = path[j] => i > 1 /\ j = i + 1

\* A panel that says it is loading has a load under way, whatever was opened,
\* closed and answered before.
LoadingPanelHasLoad == \A n \in Panels : panel[n].content = "loading" => loads[n] > 0

\* Unfolding ends, and a panel that loads is answered.
UnfoldingEnds == CyclesAreCut /\ LoadingPanelHasLoad
=============================================================================
