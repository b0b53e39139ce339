----------------------------- MODULE FleetPage -----------------------------
(***************************************************************************)
(* The fleet page: pages/Fleet.tsx with its cards (ClusterCard.tsx) and    *)
(* its matrix of kinds (FleetMatrix.tsx). A summary per kubeconfig context *)
(* comes first, then the controller metrics of the reachable ones, all     *)
(* together. Contexts of one cluster share a card.                         *)
(***************************************************************************)
EXTENDS Naturals, FiniteSets, Sequences, SequencesExt

CONSTANTS
    FleetContexts,
    ClusterOf,       \* [FleetContexts -> clusters]
    NameLength,      \* [FleetContexts -> Nat]
    ClusterHealth,   \* what handlers/fleet.go may say of a cluster
    FleetKinds       \* kinds of RGDs

VARIABLES
    fleet,           \* the summaries: sequence of [context, health, kinds]
    fleetLoading, fleetError,
    metricsReqs,     \* the second stages under way: sets of contexts
    metricsMap,      \* the contexts with metrics that say something
    fleetSwitch      \* the context a switch is under way to, "" for none

fleetVars == <<fleet, fleetLoading, fleetError, metricsReqs, metricsMap, fleetSwitch>>

ReachableHealth == {"healthy", "degraded"}

FleetAssumption ==
    /\ "" \notin FleetContexts
    /\ DOMAIN ClusterOf = FleetContexts
    /\ NameLength \in [FleetContexts -> Nat]
    /\ IsFiniteSet(FleetContexts)
    /\ ClusterHealth \subseteq {"healthy", "degraded", "unreachable", "kro-not-installed", "auth-failed"}

ASSUME FleetAssumption

-----------------------------------------------------------------------------
(* Contexts with the same cluster become one card, that of the first.      *)

\* Wrong: the name that was there is forgotten when a shorter one takes its place.
JoinCardForgetting(card, c) ==
    IF NameLength[c.context] < NameLength[card.context]
    THEN [card EXCEPT !.context = c.context]
    ELSE [card EXCEPT !.aliases = @ \cup {c.context}]

\* The shorter name is shown, with the data of the first.
JoinCard(card, c) ==
    IF NameLength[c.context] < NameLength[card.context]
    THEN [card EXCEPT !.context = c.context,
                      !.aliases = @ \cup {card.context}]
    ELSE [card EXCEPT !.aliases = @ \cup {c.context}]

AddToCards(cards, c) ==
    LET same == {i \in DOMAIN cards : ClusterOf[cards[i].context] = ClusterOf[c.context]}
    IN  IF same = {}
        THEN Append(cards, [context |-> c.context, health |-> c.health, kinds |-> c.kinds, aliases |-> {}])
        ELSE [i \in DOMAIN cards |-> IF i \in same THEN JoinCard(cards[i], c) ELSE cards[i]]

deduplicateClusters(summaries) ==
    LET cards[n \in 0..Len(summaries)] ==
            IF n = 0 THEN <<>> ELSE AddToCards(cards[n - 1], summaries[n])
    IN  cards[Len(summaries)]

FleetCards == deduplicateClusters(fleet)

-----------------------------------------------------------------------------
(* What is shown *)

\* A card tells figures, and progress, of a cluster that could be asked, and how to
\* go on with credentials that failed.
ClusterCardShows(card) ==
    [switchTo |-> card.context, health |-> card.health,
     figures  |-> card.health \in ReachableHealth,
     hint     |-> card.health = "auth-failed"]

\* A cluster without kinds is not told from one that could not be asked.
getPresence(card, kind) ==
    CASE card.kinds = {} -> "unknown"
      [] kind \in card.kinds -> "present"
      [] OTHER -> "absent"

allKinds == UNION {FleetCards[i].kinds : i \in DOMAIN FleetCards}

FleetMatrixShows ==
    [k \in allKinds |-> [i \in DOMAIN FleetCards |-> getPresence(FleetCards[i], k)]]

\* Nothing is shown both for metrics that did not come and for those that say nothing.
MetricsCellShows(context) == context \in metricsMap

FleetShows ==
    [skeletons |-> fleetLoading /\ fleet = <<>>,
     error     |-> ~fleetLoading /\ fleetError,
     empty     |-> ~fleetLoading /\ ~fleetError /\ FleetCards = <<>>,
     cards     |-> IF fleetError THEN <<>> ELSE [i \in DOMAIN FleetCards |-> ClusterCardShows(FleetCards[i])],
     metrics   |-> IF metricsMap # {}
                   THEN [i \in DOMAIN FleetCards |-> MetricsCellShows(FleetCards[i].context)] ELSE <<>>,
     refresh   |-> ~fleetLoading]

-----------------------------------------------------------------------------
(* What happens *)

\* Refresh, or Retry beside an error.
fetchFleet ==
    /\ FleetShows.refresh
    /\ fleetLoading' = TRUE /\ fleetError' = FALSE
    /\ UNCHANGED <<fleet, metricsReqs, metricsMap, fleetSwitch>>

\* The server answers for every context, in whichever order.
FleetAnswered ==
    /\ fleetLoading /\ fleetLoading' = FALSE
    /\ \E order \in SetToSeqs(FleetContexts), health \in [FleetContexts -> ClusterHealth],
          kinds \in [FleetContexts -> SUBSET FleetKinds] :
          /\ \A c \in FleetContexts : health[c] \notin ReachableHealth => kinds[c] = {}
          /\ fleet' = [i \in DOMAIN order |-> [context |-> order[i], health |-> health[order[i]],
                                               kinds |-> kinds[order[i]]]]
          /\ LET asked == {c \in FleetContexts : health[c] \in ReachableHealth}
             IN  metricsReqs' = metricsReqs \cup ({asked} \ {{}})
    /\ UNCHANGED <<fleetError, metricsMap, fleetSwitch>>

FleetFailed ==
    /\ fleetLoading /\ fleetLoading' = FALSE
    /\ fleetError' = TRUE
    /\ UNCHANGED <<fleet, metricsReqs, metricsMap, fleetSwitch>>

\* Clusters that failed are left out. An earlier stage may come after a later one.
MetricsSettled(asked) ==
    /\ asked \in metricsReqs
    /\ metricsReqs' = metricsReqs \ {asked}
    /\ \E said \in SUBSET asked : metricsMap' = said
    /\ UNCHANGED <<fleet, fleetLoading, fleetError, fleetSwitch>>

\* A click on a card calls off the switch before it, in the browser.
handleFleetSwitch ==
    /\ \E i \in DOMAIN FleetShows.cards : fleetSwitch' = FleetShows.cards[i].switchTo
    /\ UNCHANGED <<fleet, fleetLoading, fleetError, metricsReqs, metricsMap>>

\* Whether it worked or not, the browser goes home. The page is as new when it is
\* opened again; its answers under way are dropped.
LeaveFleet ==
    /\ fleetSwitch # ""
    /\ fleet' = <<>> /\ fleetLoading' = TRUE /\ fleetError' = FALSE
    /\ metricsReqs' = {} /\ metricsMap' = {} /\ fleetSwitch' = ""

-----------------------------------------------------------------------------

FleetInit ==
    /\ fleet = <<>> /\ fleetLoading = TRUE /\ fleetError = FALSE
    /\ metricsReqs = {} /\ metricsMap = {} /\ fleetSwitch = ""

FleetNext ==
    \/ fetchFleet \/ FleetAnswered \/ FleetFailed \/ handleFleetSwitch \/ LeaveFleet
    \/ \E asked \in metricsReqs : MetricsSettled(asked)

FleetSpec == FleetInit /\ [][FleetNext]_fleetVars

-----------------------------------------------------------------------------
(* Properties *)

\* Issue #62: contexts of one cluster share a card, and every context that the server
\* answered for is on exactly one, under its name or among its aliases, in whichever
\* order and with however many shorter names the answer comes.
EveryContextOnOneCard ==
    \A i \in DOMAIN fleet :
        LET names(card) == {card.context} \cup card.aliases
            on == {j \in DOMAIN FleetCards : fleet[i].context \in names(FleetCards[j])}
        IN  /\ Cardinality(on) = 1
            /\ \A j \in on : \A c \in names(FleetCards[j]) : ClusterOf[c] = ClusterOf[fleet[i].context]
=============================================================================
