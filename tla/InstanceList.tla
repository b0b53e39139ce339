---------------------------- MODULE InstanceList ----------------------------
(***************************************************************************)
(* The two lists of instances: pages/Instances.tsx, of all RGDs, and       *)
(* components/InstanceTable.tsx, of one RGD. Both are filtered, sorted and *)
(* cut into pages in the browser; in the one instances are selected for an *)
(* export, in the other two are compared. The items of either list may     *)
(* change under what was chosen: by a retry, by another namespace.         *)
(***************************************************************************)
EXTENDS Naturals, Integers, FiniteSets, Sequences, SequencesExt, FiniteSetsExt, JsArray

CONSTANTS
    Instances,   \* [keys -> [namespace ("" for a cluster-scoped one), health, created, terminating]]
    Searches,    \* [what can be typed -> the keys it matches], "" among them
    PAGE_SIZE

VARIABLES
    listState,   \* "loading", "error" or "shown"
    listed,      \* the instances in the list, in the order of the answer
    view,        \* query, ns, health, terminatingOnly, sortKey, sortDir, page
    urlHealth,   \* the ?health= of the address
    picked,      \* selection mode, the selected keys
    compared     \* which comparison is open, and of which two

instanceListVars == <<listState, listed, view, urlHealth, picked, compared>>

HealthFilters == {"all", "ready", "reconciling", "error", "unknown"}
SortKeys == {"health", "age", "name"}

InstanceListAssumption ==
    /\ PAGE_SIZE \in Nat \ {0} /\ IsFiniteSet(DOMAIN Instances)
    /\ Searches \in [DOMAIN Searches -> SUBSET DOMAIN Instances]
    /\ "" \in DOMAIN Searches /\ Searches[""] = DOMAIN Instances
    /\ \A k \in DOMAIN Instances : Instances[k].health \in HealthFilters \ {"all"}

ASSUME InstanceListAssumption

-----------------------------------------------------------------------------
(* Filter, sort, pages: the same in both                                   *)

HEALTH_PRIORITY == [error |-> 0, reconciling |-> 1, unknown |-> 2, ready |-> 3]

\* Negative when a comes first in ascending order. The newer comes first.
compareItems(a, b) ==
    CASE view.sortKey = "health" -> HEALTH_PRIORITY[Instances[a].health] - HEALTH_PRIORITY[Instances[b].health]
      [] view.sortKey = "age"    -> Instances[b].created - Instances[a].created
      [] OTHER                   -> 0

ComesBefore(a, b) == IF view.sortDir = "asc" THEN compareItems(a, b) < 0 ELSE compareItems(a, b) > 0

InFilter(k) ==
    /\ k \in Searches[view.query]
    /\ view.ns # ""         => Instances[k].namespace = view.ns
    /\ view.health # "all"  => Instances[k].health = view.health
    /\ view.terminatingOnly => Instances[k].terminating

\* The positions in the list of what passes the filters.
FilteredRows == {i \in DOMAIN listed : InFilter(listed[i])}
SortedList   == FilterSort(listed, FilteredRows, ComesBefore)

totalPages == Max({1, (Len(SortedList) + PAGE_SIZE - 1) \div PAGE_SIZE})

\* Wrong: the page is shown as it was chosen, however short the list became.
safePageUnclamped == view.page

safePage == Min({view.page, totalPages - 1})

pageItems == SubSeq(SortedList, safePage * PAGE_SIZE + 1,
                    Min({(safePage + 1) * PAGE_SIZE, Len(SortedList)}))

-----------------------------------------------------------------------------
(* What the two show                                                       *)

Namespaces   == {Instances[listed[i]].namespace : i \in DOMAIN listed}
healthCounts == [h \in HealthFilters |->
                    Cardinality({i \in DOMAIN listed : h \in {"all", Instances[listed[i]].health}})]

\* Cluster-scoped instances are counted under "_".
PillName(namespace) == IF namespace = "" THEN "_" ELSE namespace
namespaceSummary ==
    IF Cardinality(Namespaces \ {""}) <= 1 THEN <<>>
    ELSE [p \in {PillName(n) : n \in Namespaces} |->
             Cardinality({i \in DOMAIN listed : PillName(Instances[listed[i]].namespace) = p})]

visibleKeys == {listed[i] : i \in FilteredRows}

InstancesPageShows ==
    [select   |-> listState = "shown" /\ ~picked.on,
     export   |-> visibleKeys \cap picked.keys,
     nsFilter |-> Cardinality(Namespaces \ {""}) > 1,
     chips    |-> IF listState = "loading" \/ listed = <<>> THEN {}
                  ELSE {h \in HealthFilters : h = "all" \/ healthCounts[h] > 0},
     pills    |-> IF listState = "loading" \/ view.ns # "" THEN {} ELSE DOMAIN namespaceSummary,
     retry    |-> listState = "error",
     rows     |-> IF listState = "shown" THEN pageItems ELSE <<>>,
     empty    |-> listState = "shown" /\ FilteredRows = {}]

InstanceTableShows ==
    [checkboxes |-> Len(listed) > 1,
     compare    |-> Len(listed) > 1 /\ Cardinality(picked.keys) = 2,
     rows       |-> pageItems,
     empty      |-> CASE view.terminatingOnly /\ ~\E i \in DOMAIN listed : Instances[listed[i]].terminating
                            -> "none terminating"
                      [] FilteredRows = {} /\ view.query # "" -> "none matches"
                      [] OTHER -> "table"]

allVisibleSelected == visibleKeys # {} /\ visibleKeys \subseteq picked.keys

-----------------------------------------------------------------------------
(* The list                                                                *)

Listed(keys) == listState' = "shown" /\ listed' = SetToSeq(keys)

ListArrives ==
    /\ listState = "loading"
    /\ \E keys \in SUBSET DOMAIN Instances : Listed(keys)
    /\ UNCHANGED <<view, urlHealth, picked, compared>>

ListFails ==
    /\ listState = "loading"
    /\ listState' = "error"
    /\ UNCHANGED <<listed, view, urlHealth, picked, compared>>

RetryList ==
    /\ InstancesPageShows.retry
    /\ listState' = "loading"
    /\ UNCHANGED <<listed, view, urlHealth, picked, compared>>

\* The table gets other items when the page of its RGD has fetched again.
ItemsReplaced ==
    /\ listState = "shown"
    /\ \E keys \in SUBSET DOMAIN Instances : keys # {} /\ Listed(keys)
    /\ UNCHANGED <<view, urlHealth, picked, compared>>

-----------------------------------------------------------------------------
(* Filters, sorting, paging                                                *)

SetView(v) == view' = v /\ UNCHANGED <<listState, listed, picked, compared>>

SetSearch == \E q \in DOMAIN Searches : SetView([view EXCEPT !.query = q, !.page = 0]) /\ UNCHANGED urlHealth

SetNamespace ==
    /\ InstancesPageShows.nsFilter
    /\ \E n \in Namespaces : SetView([view EXCEPT !.ns = n, !.page = 0])
    /\ UNCHANGED urlHealth

ClickPill ==
    /\ \E p \in InstancesPageShows.pills : SetView([view EXCEPT !.ns = p, !.page = 0])
    /\ UNCHANGED urlHealth

ClickHealthChip ==
    \E h \in InstancesPageShows.chips : SetView([view EXCEPT !.health = h, !.page = 0]) /\ urlHealth' = h

\* The link in the top bar leads to the page that is already there, without the
\* parameter; the page reads the address only when it is mounted.
TopBarLink == urlHealth' = "all" /\ UNCHANGED <<listState, listed, view, picked, compared>>

ToggleTerminatingOnly ==
    SetView([view EXCEPT !.terminatingOnly = ~@, !.page = 0]) /\ UNCHANGED urlHealth

handleSort ==
    /\ \E key \in SortKeys :
          SetView([view EXCEPT !.sortKey = key, !.page = 0,
                       !.sortDir = CASE key = view.sortKey -> IF @ = "asc" THEN "desc" ELSE "asc"
                                     [] key # view.sortKey /\ key = "age" -> "desc"
                                     [] OTHER -> "asc"])
    /\ UNCHANGED urlHealth

PrevPage ==
    /\ safePage # 0
    /\ SetView([view EXCEPT !.page = Max({0, @ - 1})])
    /\ UNCHANGED urlHealth

NextPage ==
    /\ safePage < totalPages - 1
    /\ SetView([view EXCEPT !.page = Min({totalPages - 1, @ + 1})])
    /\ UNCHANGED urlHealth

-----------------------------------------------------------------------------
(* pages/Instances.tsx: selection and export                               *)

Pick(on, keys) ==
    /\ picked' = [on |-> on, keys |-> keys]
    /\ UNCHANGED <<listState, listed, view, urlHealth, compared>>

EnterSelection == InstancesPageShows.select /\ Pick(TRUE, {})
LeaveSelection == picked.on /\ Pick(FALSE, {})

ToggleRow ==
    /\ picked.on
    /\ \E k \in ToSet(InstancesPageShows.rows) :
          Pick(TRUE, IF k \in picked.keys THEN picked.keys \ {k} ELSE picked.keys \cup {k})

handleToggleSelectAll ==
    /\ picked.on
    /\ Pick(TRUE, IF allVisibleSelected THEN {} ELSE visibleKeys)

-----------------------------------------------------------------------------
(* components/InstanceTable.tsx: comparison of two                         *)

\* Wrong: the other comparison stays open.
CompareBeside(kind) == [compared EXCEPT ![kind] = picked.keys]

OpenComparison(kind) == [k \in {"spec", "yaml"} |-> IF k = kind THEN picked.keys ELSE {}]

CheckRow ==
    /\ ~picked.on /\ InstanceTableShows.checkboxes
    /\ \E k \in ToSet(InstanceTableShows.rows) :
          \/ k \in picked.keys /\ Pick(FALSE, picked.keys \ {k})
          \/ k \notin picked.keys /\ Cardinality(picked.keys) < 2 /\ Pick(FALSE, picked.keys \cup {k})

Compare(kind) ==
    /\ ~picked.on /\ InstanceTableShows.compare
    /\ compared' = IF picked.keys \subseteq ToSet(listed) THEN OpenComparison(kind) ELSE compared
    /\ UNCHANGED <<listState, listed, view, urlHealth, picked>>

ClearCompare == ~picked.on /\ picked.keys # {} /\ Pick(FALSE, {})

CloseComparison(kind) ==
    /\ compared[kind] # {}
    /\ compared' = [compared EXCEPT ![kind] = {}]
    /\ picked' = [picked EXCEPT !.keys = {}]
    /\ UNCHANGED <<listState, listed, view, urlHealth>>

-----------------------------------------------------------------------------

InstanceListInit ==
    /\ listState = "loading" /\ listed = <<>>
    /\ urlHealth \in {"all", "error"}
    /\ view = [query |-> "", ns |-> "", health |-> urlHealth, terminatingOnly |-> FALSE,
               sortKey |-> "health", sortDir |-> "asc", page |-> 0]
    /\ picked = [on |-> FALSE, keys |-> {}]
    /\ compared = [k \in {"spec", "yaml"} |-> {}]

Paging == SetSearch \/ handleSort \/ PrevPage \/ NextPage

InstancesPageNext ==
    \/ ListArrives \/ ListFails \/ RetryList
    \/ Paging \/ SetNamespace \/ ClickPill \/ ClickHealthChip \/ TopBarLink
    \/ EnterSelection \/ LeaveSelection \/ ToggleRow \/ handleToggleSelectAll

InstanceTableNext ==
    \/ ListArrives \/ ItemsReplaced
    \/ Paging \/ ToggleTerminatingOnly
    \/ CheckRow \/ ClearCompare
    \/ \E kind \in {"spec", "yaml"} : Compare(kind) \/ CloseComparison(kind)

InstancesPageSpec == InstanceListInit /\ [][InstancesPageNext]_instanceListVars
InstanceTableSpec == InstanceListInit /\ urlHealth = "all" /\ [][InstanceTableNext]_instanceListVars

-----------------------------------------------------------------------------
(* Properties *)

\* However the list shrinks or grows under the page that was chosen, a page with
\* rows is shown whenever a row passes the filters, and the page after the last
\* is not reached: the last one ends with the last row.
PageIsNeverBlank ==
    /\ SortedList # <<>> => pageItems # <<>>
    /\ safePage = totalPages - 1 /\ SortedList # <<>> => Last(pageItems) = Last(SortedList)

\* What is compared are two instances, in one comparison at a time, and what was
\* compared is not changed by selecting others until they are compared.
OneComparison ==
    /\ Cardinality({k \in {"spec", "yaml"} : compared[k] # {}}) <= 1
    /\ \A k \in {"spec", "yaml"} : Cardinality(compared[k]) \in {0, 2}

\* The table shows rows when it has some, and compares two instances or none.
TableIsConsistent == PageIsNeverBlank /\ OneComparison
=============================================================================
