------------------------------- MODULE Author -------------------------------
(***************************************************************************)
(* The RGD designer's page, pages/AuthorPage.tsx: the design and its draft *)
(* in localStorage, a design shared in the URL, the checks of its YAML     *)
(* that the server makes, and the imports. A design is a model value, as   *)
(* is its YAML; what a design is made of is in Designer.                   *)
(***************************************************************************)
EXTENDS Naturals, FiniteSets

CONSTANTS
    Designs,         \* designs
    STARTER          \* STARTER_RGD_STATE, one of them

VARIABLES
    rgdState,
    debouncedForSave,
    storedDraft,     \* in localStorage, "" for none
    pendingDraft,    \* the draft that the banner offers, "" for none
    readonly,        \* the design came with ?share=
    staticDue,       \* the timer of the static validation runs
    staticReqs,      \* the designs it was asked for
    staticIssues,    \* the design whose issues are shown, "" for none
    verdicts,        \* per button: [asked, shown], "" for none
    clusterLoad      \* the design that is being loaded from the cluster, "" for none

draftVars  == <<debouncedForSave, storedDraft, pendingDraft, readonly>>
staticVars == <<staticReqs, staticIssues>>
authorVars == <<rgdState, draftVars, staticDue, staticVars, verdicts, clusterLoad>>

Buttons == {"validate", "apply"}
NoVerdict == [asked |-> "", shown |-> ""]

AuthorAssumption == STARTER \in Designs /\ "" \notin Designs

ASSUME AuthorAssumption

-----------------------------------------------------------------------------
(* What is shown *)

AuthorShows ==
    [restore |-> pendingDraft # "",
     edit    |-> readonly,
     form    |-> ~readonly,
     press   |-> {b \in Buttons : verdicts[b].asked = "" /\ (b = "apply" => ~readonly)}]

\* The panels of the imports are there in any mode.
ClusterImportShows == [load |-> clusterLoad = ""]

-----------------------------------------------------------------------------
(* The design *)

\* The effects on the YAML: results of the former one go, a validation is due.
SetRgdState(d) ==
    /\ rgdState' = d
    /\ IF d = rgdState THEN UNCHANGED <<staticDue, verdicts>>
       ELSE /\ staticDue' = TRUE
            /\ verdicts' = [b \in Buttons |-> [verdicts[b] EXCEPT !.shown = ""]]

EditForm(d) ==
    /\ AuthorShows.form /\ d # rgdState
    /\ SetRgdState(d)
    /\ UNCHANGED <<draftVars, staticVars, clusterLoad>>

\* A template of the library, or a YAML that is pasted: neither looks at readonly.
ImportYaml(d) ==
    /\ SetRgdState(d)
    /\ UNCHANGED <<draftVars, staticVars, clusterLoad>>

handleLoad(d) ==
    /\ ClusterImportShows.load
    /\ clusterLoad' = d
    /\ UNCHANGED <<rgdState, draftVars, staticDue, staticVars, verdicts>>

\* The answer takes the place of whatever was edited in between.
LoadAnswered ==
    /\ clusterLoad # "" /\ clusterLoad' = ""
    /\ SetRgdState(clusterLoad) \/ UNCHANGED <<rgdState, staticDue, verdicts>>
    /\ UNCHANGED <<draftVars, staticVars>>

-----------------------------------------------------------------------------
(* The draft *)

\* Wrong: an autosave does not replace a draft.
SaveTimerFiresOnce ==
    /\ debouncedForSave # rgdState
    /\ debouncedForSave' = rgdState
    /\ storedDraft' = IF readonly \/ storedDraft # "" THEN storedDraft ELSE rgdState
    /\ UNCHANGED <<rgdState, pendingDraft, readonly, staticDue, staticVars, verdicts, clusterLoad>>

SaveTimerFires ==
    /\ debouncedForSave # rgdState
    /\ debouncedForSave' = rgdState
    /\ storedDraft' = IF readonly THEN storedDraft ELSE rgdState
    /\ UNCHANGED <<rgdState, pendingDraft, readonly, staticDue, staticVars, verdicts, clusterLoad>>

\* The effect that saves runs when the mode changes as well.
EditShared ==
    /\ AuthorShows.edit
    /\ readonly' = FALSE
    /\ storedDraft' = debouncedForSave
    /\ UNCHANGED <<rgdState, debouncedForSave, pendingDraft, staticDue, staticVars, verdicts, clusterLoad>>

handleRestoreDraft ==
    /\ AuthorShows.restore
    /\ SetRgdState(pendingDraft)
    /\ pendingDraft' = ""
    /\ UNCHANGED <<debouncedForSave, storedDraft, readonly, staticVars, clusterLoad>>

handleDiscardDraft ==
    /\ AuthorShows.restore
    /\ pendingDraft' = "" /\ storedDraft' = ""
    /\ UNCHANGED <<rgdState, debouncedForSave, readonly, staticDue, staticVars, verdicts, clusterLoad>>

\* The page is opened, with or without ?share=. The draft is read, and at once the
\* effect that saves writes the design over it.
resolveInitialState(shared) ==
    LET initial == IF shared = "" THEN STARTER ELSE shared
    IN  /\ rgdState' = initial /\ debouncedForSave' = initial
        /\ readonly' = (shared # "")
        /\ pendingDraft' = IF shared = "" THEN storedDraft ELSE ""
        /\ storedDraft' = IF shared = "" THEN initial ELSE storedDraft
        /\ staticDue' = TRUE /\ staticReqs' = {} /\ staticIssues' = ""
        /\ verdicts' = [b \in Buttons |-> NoVerdict]
        /\ clusterLoad' = ""

-----------------------------------------------------------------------------
(* The checks *)

StaticTimerFires ==
    /\ staticDue /\ staticDue' = FALSE
    /\ staticReqs' = staticReqs \cup {rgdState}
    /\ UNCHANGED <<rgdState, draftVars, staticIssues, verdicts, clusterLoad>>

\* Answers are shown as they come.
StaticAnswered(d) ==
    /\ d \in staticReqs
    /\ staticReqs' = staticReqs \ {d}
    /\ staticIssues' = d
    /\ UNCHANGED <<rgdState, draftVars, staticDue, verdicts, clusterLoad>>

\* handleValidate and handleApply.
PressButton(b) ==
    /\ b \in AuthorShows.press
    /\ verdicts' = [verdicts EXCEPT ![b] = [asked |-> rgdState, shown |-> ""]]
    /\ UNCHANGED <<rgdState, draftVars, staticDue, staticVars, clusterLoad>>

VerdictCame(b) ==
    /\ verdicts[b].asked # ""
    /\ verdicts' = [verdicts EXCEPT ![b] = [asked |-> "", shown |-> verdicts[b].asked]]
    /\ UNCHANGED <<rgdState, draftVars, staticDue, staticVars, clusterLoad>>

-----------------------------------------------------------------------------

\* The first visit.
AuthorInit ==
    /\ rgdState = STARTER /\ debouncedForSave = STARTER
    /\ storedDraft = STARTER /\ pendingDraft = "" /\ readonly = FALSE
    /\ staticDue = TRUE /\ staticReqs = {} /\ staticIssues = ""
    /\ verdicts = [b \in Buttons |-> NoVerdict]
    /\ clusterLoad = ""

AuthorNext ==
    \/ \E d \in Designs : EditForm(d) \/ ImportYaml(d) \/ handleLoad(d) \/ StaticAnswered(d)
    \/ LoadAnswered \/ SaveTimerFires \/ EditShared \/ handleRestoreDraft \/ handleDiscardDraft
    \/ StaticTimerFires
    \/ \E b \in Buttons : PressButton(b) \/ VerdictCame(b)
    \/ \E shared \in Designs \cup {""} : resolveInitialState(shared)

\* The debounce runs out.
AuthorFairness == WF_authorVars(SaveTimerFires)

AuthorSpec == AuthorInit /\ [][AuthorNext]_authorVars /\ AuthorFairness

-----------------------------------------------------------------------------
(* Properties *)

\* Issue #647, O1 and O8: once the design stays as it is, the draft in the browser is
\* that design, unless it was discarded or the design is someone else's; through
\* restores, imports, late answers and visits in any order.
DraftCatchesUp ==
    <>[][rgdState' = rgdState]_authorVars => <>[](readonly \/ storedDraft \in {"", rgdState})

\* "Auto-save: debounced 2s after each change": a draft that waits for the user's
\* answer stays where it is until the design is changed.
DraftWaitsForAnswer == pendingDraft # "" /\ rgdState = STARTER => storedDraft = pendingDraft
=============================================================================
