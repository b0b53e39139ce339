---------------------------- MODULE EventsPage ----------------------------
(***************************************************************************)
(* The event stream: pages/Events.tsx with lib/events.ts. The page polls   *)
(* GET /events for the RGD in the address, every five seconds, and merges  *)
(* what comes into a map by uid; the instance in the address filters in    *)
(* the browser. An event is modelled by its uid; its time is in minutes.   *)
(***************************************************************************)
EXTENDS Naturals, FiniteSets, Sequences, SequencesExt, FiniteSetsExt, JsArray

CONSTANTS
    KubeEvents,    \* [uids -> [rgd, instance, reason, type, time]]
    EventRgds,     \* what ?rgd= may be; "" asks for the events of all
    EventInstances,\* what ?instance= may be, "" for none
    MAX_EVENTS, EVENTS_PAGE,
    STUCK_THRESHOLD, BURST_THRESHOLD

VARIABLES
    eventFilter,   \* rgd and instance in the address
    eventInput,    \* rgd and instance in the two inputs
    eventMap,      \* eventMapRef: uids
    allEvents,     \* uids, newest first
    visibleCount,
    eventsLoading, eventsError,
    eventReqs,     \* the filters of the requests under way
    received       \* the uids that came since the map was emptied

eventVars == <<eventFilter, eventInput, eventMap, allEvents, visibleCount, eventsLoading,
               eventsError, eventReqs, received>>

Uids == DOMAIN KubeEvents

EventsAssumption ==
    /\ "" \in EventRgds /\ "" \in EventInstances
    /\ IsFiniteSet(Uids)
    /\ \A u \in Uids : KubeEvents[u].time \in Nat
    /\ MAX_EVENTS \in Nat \ {0} /\ EVENTS_PAGE \in Nat \ {0}
    /\ STUCK_THRESHOLD \in Nat /\ BURST_THRESHOLD \in Nat

ASSUME EventsAssumption

-----------------------------------------------------------------------------
(* lib/events.ts *)

sortEvents(uids) == SortedSeq(uids, LAMBDA a, b : KubeEvents[a].time > KubeEvents[b].time)

\* By the name of the object alone, whatever its namespace and kind.
groupByInstance(uids) ==
    [i \in {KubeEvents[u].instance : u \in uids} |-> {u \in uids : KubeEvents[u].instance = i}]

CONDITION_REASONS == {"Ready", "Progressing"}

isConditionTransitionEvent(u) ==
    KubeEvents[u].type = "Normal" /\ KubeEvents[u].reason \in CONDITION_REASONS

Within(uids, now, minutes) == {u \in uids : now - KubeEvents[u].time < minutes}

IsStuck(uids, now) ==
    LET recent == Within(uids, now, 10)
    IN  /\ Cardinality({u \in recent : KubeEvents[u].reason = "Progressing"}) > STUCK_THRESHOLD
        /\ \A u \in recent : KubeEvents[u].reason # "Ready"

IsBurst(uids, now) ==
    Cardinality({u \in Within(uids, now, 1) : KubeEvents[u].type = "Warning"}) > BURST_THRESHOLD

detectAnomalies(uids, now) ==
    LET groups == groupByInstance(uids)
    IN  {[type |-> "stuck", instance |-> i] : i \in {j \in DOMAIN groups : IsStuck(groups[j], now)}}
        \cup
        {[type |-> "burst", instance |-> i] : i \in {j \in DOMAIN groups : IsBurst(groups[j], now)}}

-----------------------------------------------------------------------------
(* What the page shows *)

filteredEvents ==
    SelectSeq(allEvents, LAMBDA u : eventFilter.instance \in {"", KubeEvents[u].instance})

visibleEvents == SubSeq(filteredEvents, 1, Min({visibleCount, Len(filteredEvents)}))

Newest(uids) == Max({0} \cup {KubeEvents[u].time : u \in uids})

EventsShows ==
    [clear     |-> eventFilter # [rgd |-> "", instance |-> ""],
     retry     |-> eventsError,
     loading   |-> eventsLoading /\ allEvents = <<>> /\ ~eventsError,
     empty     |-> ~eventsLoading /\ ~eventsError /\ visibleEvents = <<>>,
     loadMore  |-> Len(filteredEvents) > visibleCount /\ visibleEvents # <<>>,
     anomalies |-> detectAnomalies(ToSet(visibleEvents), Newest(ToSet(allEvents)))]

-----------------------------------------------------------------------------
(* The filters *)

\* When the RGD changes the map is emptied and the poll starts anew. What was asked
\* for the RGD of before is not called off.
Commit(filter, input) ==
    /\ filter # eventFilter
    /\ eventFilter' = filter
    /\ eventInput' = input
    /\ IF filter.rgd # eventFilter.rgd
       THEN /\ eventMap' = {} /\ allEvents' = <<>> /\ received' = {}
            /\ eventsLoading' = TRUE /\ eventsError' = FALSE /\ visibleCount' = MAX_EVENTS
            /\ eventReqs' = eventReqs \cup {filter.rgd}
       ELSE UNCHANGED <<eventMap, allEvents, received, eventsLoading, eventsError, visibleCount,
                        eventReqs>>

TypeFilter ==
    /\ \/ \E r \in EventRgds : eventInput' = [eventInput EXCEPT !.rgd = r]
       \/ \E i \in EventInstances : eventInput' = [eventInput EXCEPT !.instance = i]
    /\ UNCHANGED <<eventFilter, eventMap, allEvents, visibleCount, eventsLoading, eventsError,
                   eventReqs, received>>

\* What is typed in the other input stays there until it is committed itself.
commitRgd      == Commit([eventFilter EXCEPT !.rgd = eventInput.rgd], eventInput)
commitInstance == Commit([eventFilter EXCEPT !.instance = eventInput.instance], eventInput)

clearEventFilters ==
    LET none == [rgd |-> "", instance |-> ""] IN EventsShows.clear /\ Commit(none, none)

LoadMore ==
    /\ EventsShows.loadMore
    /\ visibleCount' = visibleCount + EVENTS_PAGE
    /\ UNCHANGED <<eventFilter, eventInput, eventMap, allEvents, eventsLoading, eventsError,
                   eventReqs, received>>

-----------------------------------------------------------------------------
(* The poll. The interval and Retry ask for the RGD in the address.        *)

PollEvents ==
    /\ eventReqs' = eventReqs \cup {eventFilter.rgd}
    /\ UNCHANGED <<eventFilter, eventInput, eventMap, allEvents, visibleCount, eventsLoading,
                   eventsError, received>>

\* Wrong: the map is cut to what was in it first.
TrimmedOldest(uids) ==
    LET sorted == Reverse(sortEvents(uids))
    IN  ToSet(SubSeq(sorted, 1, Min({Len(sorted), MAX_EVENTS * 3})))

Trimmed(uids) ==
    LET sorted == sortEvents(uids)
    IN  ToSet(SubSeq(sorted, 1, Min({Len(sorted), MAX_EVENTS * 3})))

\* The server answers with events of that RGD; toKubeEvent drops incomplete ones.
fetchAndMerge(rgd) ==
    /\ rgd \in eventReqs
    /\ eventReqs' = eventReqs \ {rgd}
    /\ \E incoming \in SUBSET {u \in Uids : rgd \in {"", KubeEvents[u].rgd}} :
          /\ eventMap' = Trimmed(eventMap \cup incoming)
          /\ received' = received \cup incoming
    /\ allEvents' = sortEvents(eventMap')
    /\ eventsError' = FALSE /\ eventsLoading' = FALSE
    /\ UNCHANGED <<eventFilter, eventInput, visibleCount>>

EventsFail(rgd) ==
    /\ rgd \in eventReqs
    /\ eventReqs' = eventReqs \ {rgd}
    /\ eventsError' = TRUE /\ eventsLoading' = FALSE
    /\ UNCHANGED <<eventFilter, eventInput, eventMap, allEvents, visibleCount, received>>

-----------------------------------------------------------------------------

EventsInit ==
    /\ eventFilter = [rgd |-> "", instance |-> ""] /\ eventInput = eventFilter
    /\ eventMap = {} /\ allEvents = <<>> /\ visibleCount = MAX_EVENTS
    /\ eventsLoading = TRUE /\ eventsError = FALSE
    /\ eventReqs = {""} /\ received = {}

EventsNext ==
    \/ TypeFilter \/ commitRgd \/ commitInstance \/ clearEventFilters \/ LoadMore \/ PollEvents
    \/ \E r \in EventRgds : fetchAndMerge(r) \/ EventsFail(r)

EventsSpec == EventsInit /\ [][EventsNext]_eventVars

-----------------------------------------------------------------------------
(* Properties *)

\* What is on the screen is the newest of all that came for the filter: the map loses
\* only events older than every event it keeps, over any number of polls.
NewestAreKept ==
    /\ \A u \in received \ eventMap : \A kept \in eventMap : KubeEvents[u].time <= KubeEvents[kept].time
    /\ Cardinality(eventMap) <= 3 * MAX_EVENTS
=============================================================================
