-------------------------------- MODULE Dag --------------------------------
(***************************************************************************)
(* The graph of an RGD (lib/dag.ts), the difference of two revisions       *)
(* (lib/dag-diff.ts, lib/format.ts) and the groups the advisor proposes.   *)
(*                                                                         *)
(* Ids are numbers, in the place of their alphabetical order; the root,    *)
(* which the code calls 'schema', is 0. What the CEL expressions of a      *)
(* resource refer to is a set of ids and the root, "cel" stands for its    *)
(* includeWhen, readyWhen and forEach: "when" is one with an includeWhen.  *)
(* The type, kind and top-level template keys of a resource are functions  *)
(* of its id.                                                              *)
(***************************************************************************)
EXTENDS Naturals, FiniteSets, Sequences, SequencesExt, FiniteSetsExt, JsArray

CONSTANTS Ids, TypeOf, KindOf, KeysOf, Cels, MaxResources

VARIABLE resources  \* spec.resources of the RGD

dagVars == <<resources>>

DagAssumption ==
    /\ Ids \subseteq Nat \ {0}
    /\ MaxResources \in Nat
    /\ TypeOf \in [Ids -> {"resource", "collection", "external", "state"}]

ASSUME DagAssumption

Root == 0

Resource == [id : Ids, refs : SUBSET (Ids \cup {Root}), cel : Cels]

Declared == {resources[i].id : i \in DOMAIN resources}

-----------------------------------------------------------------------------
(* buildDAGGraph: nodes and edges                                          *)

\* From what an expression names to the resource it stands in; unknown names
\* and the resource's own are dropped. The forEach is not looked at.
ReferenceEdges(rs) ==
    LET known == {rs[i].id : i \in DOMAIN rs} \cup {Root} IN
    UNION {{<<ref, rs[i].id>> : ref \in (rs[i].refs \cap known) \ {rs[i].id}} : i \in DOMAIN rs}

Children(edges, n) == {e[2] : e \in {f \in edges : f[1] = n}}
Parents(edges, n)  == {e[1] : e \in {f \in edges : f[2] = n}}

WithChildren(edges, seen) == seen \cup {e[2] : e \in {f \in edges : f[1] \in seen}}

\* A round of the search that finds nothing new is the last, so there are no more
\* rounds than edges.
Reachable(from, edges) ==
    LET seen[round \in 0..Cardinality(edges)] ==
            IF round = 0 THEN from ELSE WithChildren(edges, seen[round - 1])
    IN  seen[Cardinality(edges)]

\* A node that the references do not connect to the root hangs from it.
GraphEdges(rs) ==
    LET edges == ReferenceEdges(rs)
        ids   == {rs[i].id : i \in DOMAIN rs}
    IN  edges \cup {<<Root, n>> : n \in ids \ Reachable({Root}, edges)}

\* Wrong: exclusion is not passed on to what depends on the excluded.
ConditionalOwn(rs) == {rs[i].id : i \in {j \in DOMAIN rs : rs[j].cel = "when"}}

\* What is excluded when every includeWhen is false.
Conditional(rs) ==
    Reachable({rs[i].id : i \in {j \in DOMAIN rs : rs[j].cel = "when"}}, GraphEdges(rs))

-----------------------------------------------------------------------------
(* layoutDAG: order, rows and height                                       *)

\* Kahn's algorithm from the root, the least id first.
Visit(at, edges) ==
    IF at.queue = {} THEN at
    ELSE LET n    == CHOOSE m \in at.queue : \A o \in at.queue : m <= o
             done == Append(at.order, n)
         IN  [order |-> done,
              queue |-> (at.queue \ {n}) \cup
                        {c \in Children(edges, n) : Parents(edges, c) \subseteq ToSet(done)}]

Kahn(count, edges) ==
    LET at[k \in 0..count] ==
            IF k = 0 THEN [order |-> <<>>, queue |-> {Root}] ELSE Visit(at[k - 1], edges)
    IN  at[count].order

\* What it does not reach is appended in the order of the list.
TopoOrder(ids, edges) ==
    LET kahn == Kahn(Len(ids) + 1, edges)
    IN  kahn \o Filter(ids, {i \in DOMAIN ids : ids[i] \notin ToSet(kahn)})

\* Wrong: the row after the first parent visited, not after the lowest.
PlaceFirst(row, n, edges) ==
    [m \in DOMAIN row |-> IF m \in Children(edges, n) /\ row[m] = 0 THEN row[n] + 1 ELSE row[m]]

\* Longest path, in one pass over that order.
Place(row, n, edges) ==
    [m \in DOMAIN row |-> IF m \in Children(edges, n) /\ row[m] <= row[n] THEN row[n] + 1 ELSE row[m]]

Rows(ids, edges) ==
    LET order == TopoOrder(ids, edges)
        row[k \in 0..Len(order)] ==
            IF k = 0 THEN [n \in ToSet(ids) \cup {Root} |-> 0] ELSE Place(row[k - 1], order[k], edges)
    IN  row[Len(order)]

RowCount(row) == 1 + Max({row[n] : n \in DOMAIN row})

\* The height of an empty row is the maximum of nothing, which is -Infinity in
\* JavaScript, and so is every coordinate after it and the height of the graph.
HeightIsFinite(row) == \A r \in 0..(RowCount(row) - 1) : \E n \in DOMAIN row : row[n] = r

ListedIds(rs) == [i \in DOMAIN rs |-> rs[i].id]

buildDAGGraph(rs) ==
    LET edges == GraphEdges(rs)
        cel   == [n \in {rs[i].id : i \in DOMAIN rs} |-> rs[CHOOSE i \in DOMAIN rs : rs[i].id = n].cel]
    IN  [nodes |-> DOMAIN cel \cup {Root}, cel |-> cel, edges |-> edges,
         conditional |-> Conditional(rs), row |-> Rows(ListedIds(rs), edges)]

-----------------------------------------------------------------------------
(* diffDAGGraphs. The root's CEL is empty on both sides.                   *)

\* Wrong: what was there before is not compared.
diffDAGGraphsAdded(a, b) ==
    [node |-> [n \in b.nodes |-> IF n \in a.nodes THEN "unchanged" ELSE "added"],
     edge |-> [e \in b.edges |-> IF e \in a.edges THEN "unchanged" ELSE "added"]]

diffDAGGraphs(a, b) ==
    [node |-> [n \in a.nodes \cup b.nodes |->
                  CASE n \notin a.nodes -> "added"
                    [] n \notin b.nodes -> "removed"
                    [] n \in (a.nodes \cap b.nodes) \ {Root} /\ a.cel[n] # b.cel[n] -> "modified"
                    [] OTHER -> "unchanged"],
     edge |-> [e \in a.edges \cup b.edges |->
                  CASE e \notin a.edges -> "added"
                    [] e \notin b.edges -> "removed"
                    [] OTHER -> "unchanged"]]

\* lib/format.ts: the banner above the graph compares ids alone.
computeRevisionNodeDiff(prior, latest) ==
    [added   |-> latest \ prior, removed |-> prior \ latest]

-----------------------------------------------------------------------------
(* detectCollapseGroups: managed resources of one kind; two of them only   *)
(* when at least 70% of their template keys are common.                    *)

Similar(a, b) ==
    LET union == KeysOf[a] \cup KeysOf[b]
    IN  10 * Cardinality(KeysOf[a] \cap KeysOf[b]) >= 7 * Cardinality(union)

detectCollapseGroups(rs) ==
    LET candidates == {n \in {rs[i].id : i \in DOMAIN rs} : TypeOf[n] = "resource"}
        group(kind) == {n \in candidates : KindOf[n] = kind}
    IN  {g \in {group(KindOf[n]) : n \in candidates} :
            \/ Cardinality(g) >= 3
            \/ Cardinality(g) = 2 /\ \A a, b \in g : Similar(a, b)}

-----------------------------------------------------------------------------
(* The author of the RGD changes it; each change is a revision.            *)

OneRemovedFrom(rs) == {RemoveAt(rs, i) : i \in DOMAIN rs}
OneCelOf(rs)       == {[rs EXCEPT ![i].cel = c] : i \in DOMAIN rs, c \in Cels}

DagInit == resources = <<>>

AddResource ==
    /\ Len(resources) < MaxResources
    /\ \E r \in Resource :
          r.id \notin Declared /\ r.id \notin r.refs /\ resources' = Append(resources, r)

RemoveResource == resources' \in OneRemovedFrom(resources)

ChangeCel == resources' \in OneCelOf(resources)

DagNext == AddResource \/ RemoveResource \/ ChangeCel

DagSpec == DagInit /\ [][DagNext]_dagVars

-----------------------------------------------------------------------------
(* Properties *)

Graph == buildDAGGraph(resources)

Acyclic(edges) == \A n \in Declared : n \notin Reachable(Children(edges, n), edges)

\* However resources refer to each other, every node hangs from the root; and
\* unless they do so in a circle, every edge leads to a lower row, no row is
\* empty, and a node is marked conditional exactly when it has an includeWhen or
\* depends on one that is.
GraphIsDrawn ==
    LET g == Graph IN
    /\ Reachable({Root}, g.edges) = g.nodes
    /\ Acyclic(g.edges) =>
          /\ \A e \in g.edges : g.row[e[1]] < g.row[e[2]]
          /\ HeightIsFinite(g.row)
          /\ \A n \in Declared :
                n \in g.conditional <=>
                    g.cel[n] = "when" \/ Parents(g.edges, n) \cap g.conditional # {}

\* The difference of two revisions says all: it covers both, read backwards it is
\* the difference the other way round, the banner above it names the same nodes,
\* and a change of an edge of the references is seen though both ends are the same.
DiffSaysAll(from, to) ==
    LET a      == buildDAGGraph(from)
        b      == buildDAGGraph(to)
        d      == diffDAGGraphs(a, b)
        back   == diffDAGGraphs(b, a)
        banner == computeRevisionNodeDiff(a.nodes, b.nodes)
        Is(status, f) == {x \in DOMAIN f : f[x] = status}
    IN  /\ Is("added", d.node) = Is("removed", back.node) /\ Is("removed", d.node) = Is("added", back.node)
        /\ Is("modified", d.node) = Is("modified", back.node)
        /\ Is("added", d.node) = banner.added /\ Is("removed", d.node) = banner.removed
        /\ Is("added", d.edge) = Is("removed", back.edge) /\ Is("removed", d.edge) = Is("added", back.edge)
        /\ Is("unchanged", d.edge) \cup Is("added", d.edge) = b.edges
        /\ Is("unchanged", d.edge) \cup Is("removed", d.edge) = a.edges

DiffIsFaithful ==
    \A rs \in OneRemovedFrom(resources) \cup OneCelOf(resources) : DiffSaysAll(rs, resources)

\* A group the advisor proposes is not taken back because the RGD got another
\* resource: the RGD only grows more repetitive.
GroupsGrow ==
    \A i \in DOMAIN resources :
        \A g \in detectCollapseGroups(RemoveAt(resources, i)) :
            \E h \in detectCollapseGroups(resources) : g \subseteq h

\* The graph, the difference of two of them and the advisor's groups are right for
\* every list of resources and every change of it.
DagIsRight == GraphIsDrawn /\ DiffIsFaithful /\ GroupsGrow
=============================================================================
