------------------------------ MODULE Catalog ------------------------------
(***************************************************************************)
(* The catalog of RGDs: pages/Catalog.tsx with lib/catalog.ts.             *)
(* The list is fetched once, the number of instances per RGD by a request  *)
(* each; everything else happens in the page. A set of filters can be      *)
(* kept as a preset in localStorage, RGDs can be selected for an export.   *)
(* Keyboard focus and the wording are left out.                            *)
(***************************************************************************)
EXTENDS Naturals, FiniteSets, Sequences, SequencesExt, FiniteSetsExt, JsArray

CONSTANTS
    Rgds,        \* [names -> [kind, uses (kinds), forEach (number), labels, state, created]]
    Queries,     \* [what can be typed -> the names it matches], "" among them
    Sorts, StatusFilters,
    MAX_PRESETS

VARIABLES
    page,        \* "loading", "error", or "shown"
    items,       \* the RGDs in the page
    counts,      \* instanceCounts: "loading", "failed", "known"
    asked,       \* RGDs whose instances were asked for and have not come
    filter,      \* searchQuery, activeLabels, sortOption, statusFilter
    debounced,   \* the query the list is filtered by
    presets,     \* the presets, newest first; localStorage holds the same
    saveForm,    \* is the form for a new preset open
    selection,   \* is selection mode on, and what is selected
    exporting    \* the names an export still has to fetch

catalogVars == <<page, items, counts, asked, filter, debounced, presets, saveForm,
                 selection, exporting>>

CatalogAssumption ==
    /\ IsFiniteSet(DOMAIN Rgds)
    /\ \A n \in DOMAIN Rgds :
          IsFiniteSet(Rgds[n].uses) /\ Rgds[n].forEach \in Nat /\ Rgds[n].created \in Nat
    /\ "" \in DOMAIN Queries /\ Queries[""] = DOMAIN Rgds
    /\ Queries \in [DOMAIN Queries -> SUBSET DOMAIN Rgds]
    /\ {"complexity", "name"} \subseteq Sorts
    /\ "all" \in StatusFilters /\ StatusFilters \subseteq {"all", "ready", "errors"}
    /\ MAX_PRESETS \in Nat

ASSUME CatalogAssumption

listVars   == <<page, items, counts, asked>>
filterVars == <<filter, debounced>>
presetVars == <<presets, saveForm>>
selectVars == <<selection, exporting>>

-----------------------------------------------------------------------------
(* lib/catalog.ts *)

\* Two RGDs may define one kind: the later in the list is the one it leads to.
KindToName(list, kind) ==
    LET owners == {i \in DOMAIN list : Rgds[list[i]].kind = kind}
    IN  IF owners = {} THEN {} ELSE {list[Max(owners)]}

UsedBy(list, name) ==
    {r \in ToSet(list) \ {name} : \E kind \in Rgds[r].uses : name \in KindToName(list, kind)}

computeComplexityScore(list, name) ==
    Cardinality(Rgds[name].uses) + 2 * Cardinality(UsedBy(list, name)) + 3 * Rgds[name].forEach

collectAllLabels(list) == UNION {Rgds[r].labels : r \in ToSet(list)}

\* An RGD whose number of instances is not known comes after all others. By name
\* and by kind is the order of the list here.
SortKey(list, sort, name) ==
    CASE sort = "complexity" -> computeComplexityScore(list, name)
      [] sort = "instances"  -> IF counts[name] = "known" THEN 1 ELSE 0
      [] sort = "resources"  -> Cardinality(Rgds[name].uses)
      [] sort = "newest"     -> Rgds[name].created
      [] OTHER               -> 0

Matches(name) ==
    /\ name \in Queries[debounced]
    /\ filter.labels \subseteq Rgds[name].labels
    /\ filter.status = "ready"  => Rgds[name].state = "ready"
    /\ filter.status = "errors" => Rgds[name].state = "error"

\* The positions in the list of the RGDs that match.
Filtered == {i \in DOMAIN items : Matches(items[i])}
Visible  == {items[i] : i \in Filtered}
sortCatalog ==
    FilterSort(items, Filtered, LAMBDA a, b : SortKey(items, filter.sort, a) > SortKey(items, filter.sort, b))

-----------------------------------------------------------------------------
(* What the page shows *)

NoFilter == [query |-> "", labels |-> {}, sort |-> "complexity", status |-> "all"]

\* The sort order the page starts with is not the one this compares with.
hasFilters ==
    filter.query # "" \/ filter.labels # {} \/ filter.status # "all" \/ filter.sort # "name"

CatalogShows ==
    [skeleton |-> page = "loading",
     retry    |-> page = "error",
     select   |-> page = "shown" /\ ~selection.on,
     save     |-> hasFilters /\ ~saveForm,
     cards    |-> IF page = "shown" THEN sortCatalog ELSE <<>>,
     empty    |-> CASE page # "shown" \/ Filtered # {} -> "none"
                    [] page = "shown" /\ Filtered = {} /\ hasFilters -> "no match, clear filters"
                    [] page = "shown" /\ items = <<>> /\ ~hasFilters   -> "no RGDs"
                    [] OTHER -> "no match"]

CardShows(name) ==
    [shimmer |-> counts[name] = "loading", usedBy |-> UsedBy(items, name),
     labels |-> Rgds[name].labels, checkbox |-> selection.on]

Cards == ToSet(CatalogShows.cards)

allVisible == Visible # {} /\ Visible \subseteq selection.names

-----------------------------------------------------------------------------
(* The list and the numbers of instances *)

ListAnswered ==
    /\ page = "loading"
    /\ page' = "shown"
    /\ \E names \in SUBSET DOMAIN Rgds :
          /\ items' = SetToSeq(names)
          /\ counts' = [n \in names |-> "loading"]
          /\ asked' = names
    /\ UNCHANGED <<filterVars, presetVars, selectVars>>

ListFailed ==
    /\ page = "loading"
    /\ page' = "error"
    /\ UNCHANGED <<items, counts, asked, filterVars, presetVars, selectVars>>

\* Wrong: a request that fails leaves the card as it is.
CountFailedSilent(n) ==
    /\ n \in asked
    /\ asked' = asked \ {n}
    /\ UNCHANGED <<page, items, counts, filterVars, presetVars, selectVars>>

CountFailed(n) ==
    /\ n \in asked
    /\ asked' = asked \ {n}
    /\ counts' = [counts EXCEPT ![n] = "failed"]
    /\ UNCHANGED <<page, items, filterVars, presetVars, selectVars>>

CountAnswered(n) ==
    /\ n \in asked
    /\ asked' = asked \ {n}
    /\ counts' = [counts EXCEPT ![n] = "known"]
    /\ UNCHANGED <<page, items, filterVars, presetVars, selectVars>>

fetchRGDs ==
    /\ CatalogShows.retry
    /\ page' = "loading"
    /\ counts' = <<>>
    /\ UNCHANGED <<items, asked, filterVars, presetVars, selectVars>>

-----------------------------------------------------------------------------
(* Filters *)

SetFilter(f) == filter' = f /\ UNCHANGED <<listVars, debounced, presetVars, selectVars>>

SetQuery  == \E q \in DOMAIN Queries : SetFilter([filter EXCEPT !.query = q])
SetSort   == \E s \in Sorts    : SetFilter([filter EXCEPT !.sort = s])
SetStatus == \E s \in StatusFilters : SetFilter([filter EXCEPT !.status = s])

toggleLabel ==
    \E l \in collectAllLabels(items) :
        SetFilter([filter EXCEPT !.labels = IF l \in @ THEN @ \ {l} ELSE @ \cup {l}])

ClearAllLabels == filter.labels # {} /\ SetFilter([filter EXCEPT !.labels = {}])

onLabelClick ==
    \E n \in Cards : \E l \in CardShows(n).labels :
        SetFilter([filter EXCEPT !.labels = @ \cup {l}])

clearFilters ==
    /\ CatalogShows.empty = "no match, clear filters"
    /\ SetFilter([NoFilter EXCEPT !.sort = filter.sort])

useDebounce ==
    /\ debounced # filter.query
    /\ debounced' = filter.query
    /\ UNCHANGED <<listVars, filter, presetVars, selectVars>>

-----------------------------------------------------------------------------
(* Presets *)

\* Wrong: the button is not disabled when there are as many as there may be.
OpenSaveFormAnyway ==
    /\ CatalogShows.save
    /\ saveForm' = TRUE
    /\ UNCHANGED <<listVars, filterVars, presets, selectVars>>

OpenSaveForm ==
    /\ CatalogShows.save
    /\ Len(presets) < MAX_PRESETS
    /\ saveForm' = TRUE
    /\ UNCHANGED <<listVars, filterVars, presets, selectVars>>

handleSavePreset ==
    /\ saveForm
    /\ saveForm' = FALSE
    /\ LET next == <<filter>> \o presets
       IN  presets' = SubSeq(next, 1, Min({Len(next), MAX_PRESETS}))
    /\ UNCHANGED <<listVars, filterVars, selectVars>>

CancelSaveForm ==
    /\ saveForm
    /\ saveForm' = FALSE
    /\ UNCHANGED <<listVars, filterVars, presets, selectVars>>

handleApplyPreset == \E i \in DOMAIN presets : SetFilter(presets[i])

handleDeletePreset ==
    /\ \E i \in DOMAIN presets : presets' = RemoveAt(presets, i)
    /\ UNCHANGED <<listVars, filterVars, saveForm, selectVars>>

-----------------------------------------------------------------------------
(* Selection and export *)

Select(on, names) ==
    /\ selection' = [on |-> on, names |-> names]
    /\ UNCHANGED <<listVars, filterVars, presetVars, exporting>>

handleEnterSelectionMode == CatalogShows.select /\ Select(TRUE, {})
handleExitSelectionMode  == selection.on /\ Select(FALSE, {})

handleCardToggle ==
    /\ selection.on
    /\ \E n \in Cards :
          Select(TRUE, IF n \in selection.names THEN selection.names \ {n}
                                                ELSE selection.names \cup {n})

\* Checking the box selects what is visible and nothing else; clearing it leaves
\* what the filters hide selected.
handleSelectAll ==
    /\ selection.on
    /\ Select(TRUE, IF allVisible THEN selection.names \ Visible ELSE Visible)

handleExportYAML ==
    /\ selection.on /\ selection.names # {} /\ exporting = {}
    /\ exporting' = selection.names
    /\ UNCHANGED <<listVars, filterVars, presetVars, selection>>

\* One RGD after the other; one that fails is a comment in the file.
ExportNext ==
    /\ \E n \in exporting : exporting' = exporting \ {n}
    /\ UNCHANGED <<listVars, filterVars, presetVars, selection>>

-----------------------------------------------------------------------------

CatalogInit ==
    /\ page = "loading"
    /\ items = <<>> /\ counts = <<>> /\ asked = {}
    /\ filter = NoFilter /\ debounced = ""
    /\ presets = <<>> /\ saveForm = FALSE
    /\ selection = [on |-> FALSE, names |-> {}] /\ exporting = {}

CatalogNext ==
    \/ ListAnswered \/ ListFailed \/ fetchRGDs
    \/ \E n \in DOMAIN Rgds : CountAnswered(n) \/ CountFailed(n)
    \/ SetQuery \/ SetSort \/ SetStatus \/ toggleLabel \/ ClearAllLabels \/ onLabelClick
    \/ clearFilters \/ useDebounce
    \/ OpenSaveForm \/ handleSavePreset \/ CancelSaveForm \/ handleApplyPreset \/ handleDeletePreset
    \/ handleEnterSelectionMode \/ handleExitSelectionMode \/ handleCardToggle \/ handleSelectAll
    \/ handleExportYAML \/ ExportNext

CatalogSpec == CatalogInit /\ [][CatalogNext]_catalogVars

-----------------------------------------------------------------------------
(* Properties *)

\* A card shimmers as long as the answer for its number of instances is due, and
\* not longer, whatever failed before.
ShimmerHasRequest ==
    \A n \in Cards : CardShows(n).shimmer <=> n \in asked

\* The form that saves a preset is not open when there are as many as are kept, so
\* that saving one more never drops the oldest.
NoPresetDropped == saveForm => Len(presets) < MAX_PRESETS

\* The two counters of the catalog keep their promise, through failures, searches,
\* other pages and reloads.
CatalogKeepsCount == ShimmerHasRequest /\ NoPresetDropped
=============================================================================
