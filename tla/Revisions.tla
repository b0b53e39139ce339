----------------------------- MODULE Revisions -----------------------------
(***************************************************************************)
(* The tab with the revisions of an RGD: components/RevisionsTab.tsx with  *)
(* RevisionSelector.tsx, which picks the two that RGDDiffView.tsx draws as *)
(* one graph. Below it two revisions can be checked and compared line by   *)
(* line. A revision is its RGD and its number; the list has the latest     *)
(* first.                                                                  *)
(***************************************************************************)
EXTENDS Naturals, Integers, FiniteSets, Sequences, SequencesExt, FiniteSetsExt, JsArray

CONSTANTS
    RevisedRgds,   \* the RGDs the page is opened for
    MaxRevision,   \* bound on the revisions
    ChangeBlocks   \* [pairs of numbers -> the number of blocks of changes]

VARIABLES
    revisedRgd,    \* the RGD of the page
    revState,      \* "loading", "error" or "shown": isLoading and error
    revisions,     \* the revisions in the list
    selector,      \* nameA and nameB of the two drop-down lists
    diffPair,      \* the two that are drawn, <<>> for none
    checked,       \* the revisions that are checked, in the order of checking
    yamlPair,      \* the two that are compared line by line, <<>> for none
    changeIdx      \* currentChangeIdx of that comparison

revisionVars == <<revisedRgd, revState, revisions, selector, diffPair, checked, yamlPair, changeIdx>>

RevisionsAssumption ==
    /\ MaxRevision \in Nat
    /\ ChangeBlocks \in [(1..MaxRevision) \X (1..MaxRevision) -> Nat]

ASSUME RevisionsAssumption

RevisionsShown == revState = "shown"

LatestFirst(revs) == SortedSeq(revs, LAMBDA a, b : a[2] > b[2])

RevisionsTabShows ==
    [retry    |-> revState = "error",
     empty    |-> RevisionsShown /\ revisions = {},
     graph    |-> RevisionsShown /\ Cardinality(revisions) >= 2,
     compare  |-> RevisionsShown /\ Cardinality(revisions) > 1 /\ Len(checked) = 2,
     yamlDiff |-> RevisionsShown /\ yamlPair # <<>>]

-----------------------------------------------------------------------------
(* The list. The selector is mounted anew with each answer and starts with *)
(* the latest and the one before it.                                       *)

RevisionsArrive ==
    /\ revState = "loading" /\ revState' = "shown"
    /\ revisions' \in SUBSET ({revisedRgd} \X (1..MaxRevision))
    /\ IF Cardinality(revisions') >= 2
       THEN /\ selector' = SubSeq(LatestFirst(revisions'), 1, 2)
            /\ diffPair' = selector'
       ELSE UNCHANGED <<selector, diffPair>>
    /\ UNCHANGED <<revisedRgd, checked, yamlPair, changeIdx>>

RevisionsFail ==
    /\ revState = "loading" /\ revState' = "error"
    /\ UNCHANGED <<revisedRgd, revisions, selector, diffPair, checked, yamlPair, changeIdx>>

\* Retry, or the page is opened for another RGD. What was checked is kept.
FetchRevisions ==
    /\ \/ revState = "error" /\ UNCHANGED revisedRgd
       \/ revisedRgd' \in RevisedRgds \ {revisedRgd}
    /\ revState' = "loading"
    /\ UNCHANGED <<revisions, selector, diffPair, checked, yamlPair, changeIdx>>

-----------------------------------------------------------------------------
(* The graph *)

\* Wrong: the graph of before is kept while one list says nothing new.
ChangePairKept(next) == IF next[1] = next[2] THEN diffPair ELSE next

ChangePair(next) == IF next[1] = next[2] THEN <<>> ELSE next

handleChangeAB ==
    /\ RevisionsTabShows.graph
    /\ \E side \in 1..2, rev \in revisions :
          /\ selector' = [selector EXCEPT ![side] = rev]
          /\ diffPair' = ChangePair(selector')
    /\ UNCHANGED <<revisedRgd, revState, revisions, checked, yamlPair, changeIdx>>

-----------------------------------------------------------------------------
(* The comparison line by line *)

toggleSelect ==
    /\ RevisionsShown /\ Cardinality(revisions) > 1
    /\ \E rev \in revisions :
          \/ rev \in ToSet(checked) /\ checked' = SelectSeq(checked, LAMBDA r : r # rev)
          \/ rev \notin ToSet(checked) /\ Len(checked) < 2 /\ checked' = Append(checked, rev)
    /\ UNCHANGED <<revisedRgd, revState, revisions, selector, diffPair, yamlPair, changeIdx>>

handleCompare ==
    /\ RevisionsTabShows.compare
    /\ yamlPair' = IF ToSet(checked) \subseteq revisions THEN checked ELSE yamlPair
    /\ changeIdx' = IF yamlPair = <<>> THEN 0 ELSE changeIdx
    /\ UNCHANGED <<revisedRgd, revState, revisions, selector, diffPair, checked>>

ClearChecked ==
    /\ RevisionsTabShows.compare \/ RevisionsTabShows.yamlDiff
    /\ checked' = <<>> /\ yamlPair' = <<>> /\ changeIdx' = 0
    /\ UNCHANGED <<revisedRgd, revState, revisions, selector, diffPair>>

\* The panel goes away with the list and comes back with it, at its first change.
PanelRemounted ==
    /\ ~RevisionsShown /\ changeIdx # 0
    /\ changeIdx' = 0
    /\ UNCHANGED <<revisedRgd, revState, revisions, selector, diffPair, checked, yamlPair>>

totalChanges == ChangeBlocks[<<yamlPair[1][2], yamlPair[2][2]>>]

handlePrevNext ==
    /\ RevisionsTabShows.yamlDiff /\ totalChanges > 0
    /\ \/ changeIdx # 0 /\ changeIdx' = changeIdx - 1
       \/ changeIdx # totalChanges - 1 /\ changeIdx' = Min({totalChanges - 1, changeIdx + 1})
    /\ UNCHANGED <<revisedRgd, revState, revisions, selector, diffPair, checked, yamlPair>>

-----------------------------------------------------------------------------

RevisionsInit ==
    /\ revisedRgd \in RevisedRgds
    /\ revState = "loading" /\ revisions = {} /\ selector = <<>> /\ diffPair = <<>>
    /\ checked = <<>> /\ yamlPair = <<>> /\ changeIdx = 0

RevisionsNext ==
    \/ RevisionsArrive \/ RevisionsFail \/ FetchRevisions
    \/ handleChangeAB \/ toggleSelect \/ handleCompare \/ ClearChecked
    \/ PanelRemounted \/ handlePrevNext

RevisionsSpec == RevisionsInit /\ [][RevisionsNext]_revisionVars

-----------------------------------------------------------------------------
(* Properties *)

\* The graph shows the two revisions the lists name, none when they name the same
\* one, and none that is not among the revisions, whatever came and went before.
GraphShowsSelected ==
    RevisionsTabShows.graph =>
        /\ diffPair = (IF selector[1] = selector[2] THEN <<>> ELSE selector)
        /\ ToSet(diffPair) \subseteq revisions
=============================================================================
