------------------------------ MODULE Browser ------------------------------
(***************************************************************************)
(* One browser against the server's one active context: Layout.tsx, the    *)
(* ContextSwitcher.tsx in its bar, and the cards of Fleet.tsx, which switch *)
(* the server without a word to the layout. The server is                  *)
(* handlers/contexts.go; another browser may switch it as well.            *)
(* Capabilities are modelled by the name in the bar when they were asked   *)
(* for; which cluster they are of is in CapabilityGate.                    *)
(***************************************************************************)
EXTENDS Naturals, FiniteSets

CONSTANTS
    BrowserContexts,
    MaxSwitches        \* bound on the switches that are asked for

VARIABLES
    serverContext,     \* the context the clients of the server are for
    switchReqs,        \* at the server: [name, awaited by the switcher, done, refused]
    contextsRead,      \* the active one in the answer to listContexts, "" before it was read
    activeContext,     \* of the layout, "" before the contexts came
    switching,         \* the name the switcher waits for, "" for none
    switchError,       \* "", "timed out" or "failed"
    capReqs,           \* of the layout: [asked, live]
    capabilities,      \* of the layout: the name they were asked under, "none" for null
    unreachable,       \* the banner about the cluster: the name it was asked under
    switches,
    untold             \* is the server where a switch led that the layout was not told of

serverVars   == <<serverContext, switchReqs, untold>>
switcherVars == <<switching, switchError, switches>>
layoutVars   == <<activeContext, capReqs, capabilities, unreachable>>
browserVars  == <<serverVars, switcherVars, layoutVars, contextsRead>>

\* The names that the code writes for "no context yet", "the contexts could not be
\* listed" and null are not names of contexts.
BrowserAssumption ==
    /\ BrowserContexts # {}
    /\ \A c \in BrowserContexts : c # "" /\ c # "none" /\ c # "(unavailable)"
    /\ MaxSwitches \in Nat

ASSUME BrowserAssumption

-----------------------------------------------------------------------------
(* The server                                                              *)

\* The handler does not look at whether the browser still waits.
ServerSwitches(q) ==
    /\ q \in switchReqs /\ ~q.done
    /\ \/ /\ serverContext' = q.name
          /\ switchReqs' = (switchReqs \ {q}) \cup (IF q.awaited THEN {[q EXCEPT !.done = TRUE]} ELSE {})
          /\ untold' = ~q.awaited
       \/ /\ switchReqs' = (switchReqs \ {q}) \cup
                               (IF q.awaited THEN {[q EXCEPT !.done = TRUE, !.refused = TRUE]} ELSE {})
          /\ UNCHANGED <<serverContext, untold>>
    /\ UNCHANGED <<switcherVars, layoutVars, contextsRead>>

OtherBrowserSwitches ==
    /\ switches < MaxSwitches
    /\ switches' = switches + 1
    /\ \E n \in BrowserContexts \ {serverContext} : serverContext' = n
    /\ untold' = TRUE
    /\ UNCHANGED <<switchReqs, switching, switchError, layoutVars, contextsRead>>

-----------------------------------------------------------------------------
(* Layout                                                                  *)

\* The effect that runs when activeContext changes: what was asked before is of an
\* earlier generation.
AskCapabilities(name) ==
    capReqs' = {[q EXCEPT !.live = FALSE] : q \in capReqs} \cup {[asked |-> name, live |-> TRUE]}

ContextsRead ==
    /\ activeContext = "" /\ contextsRead = ""
    /\ contextsRead' = serverContext /\ untold' = FALSE
    /\ UNCHANGED <<serverContext, switchReqs, switcherVars, layoutVars>>

ContextsArrive ==
    /\ activeContext = ""
    /\ \/ contextsRead # "" /\ activeContext' = contextsRead
       \/ activeContext' = "(unavailable)"
    /\ AskCapabilities(activeContext')
    /\ UNCHANGED <<serverVars, switcherVars, capabilities, unreachable, contextsRead>>

\* Wrong: without the test of the generation.
CapabilitiesAnsweredAny(q) ==
    /\ q \in capReqs /\ capReqs' = capReqs \ {q}
    /\ capabilities' = q.asked /\ unreachable' = "none"
    /\ UNCHANGED <<serverVars, switcherVars, activeContext, contextsRead>>

CapabilitiesAnswered(q) ==
    /\ q \in capReqs /\ capReqs' = capReqs \ {q}
    /\ IF q.live THEN capabilities' = q.asked /\ unreachable' = "none"
       ELSE UNCHANGED <<capabilities, unreachable>>
    /\ UNCHANGED <<serverVars, switcherVars, activeContext, contextsRead>>

\* Only an error of the network raises the banner.
CapabilitiesFailed(q) ==
    /\ q \in capReqs /\ capReqs' = capReqs \ {q}
    /\ unreachable' \in {unreachable} \cup (IF q.live THEN {q.asked} ELSE {})
    /\ UNCHANGED <<serverVars, switcherVars, activeContext, capabilities, contextsRead>>

handleSwitch(name) ==
    /\ activeContext' = name
    /\ AskCapabilities(name)
    /\ capabilities' = "none" /\ unreachable' = "none"

-----------------------------------------------------------------------------
(* ContextSwitcher and Fleet                                               *)

SendSwitch(name, awaited) ==
    /\ switches < MaxSwitches /\ switches' = switches + 1
    /\ switchReqs' = switchReqs \cup
           {[name |-> name, awaited |-> awaited, done |-> FALSE, refused |-> FALSE]}
    /\ UNCHANGED <<serverContext, untold, contextsRead>>

handleSelect(name) ==
    /\ name # activeContext /\ switching = ""
    /\ activeContext \in BrowserContexts    \* else the list is empty
    /\ switching' = name /\ switchError' = ""
    /\ SendSwitch(name, TRUE)
    /\ UNCHANGED layoutVars

\* A card of the fleet: its answer, or its failure, moves to the overview and changes
\* nothing here. Another click gives it up, in the browser only.
clickFleetCard(name) ==
    /\ SendSwitch(name, FALSE)
    /\ UNCHANGED <<switching, switchError, layoutVars>>

SwitchReplied(q) ==
    /\ q \in switchReqs /\ q.done
    /\ switchReqs' = switchReqs \ {q}
    /\ switching' = ""
    /\ IF q.refused THEN switchError' = "failed" /\ UNCHANGED layoutVars
       ELSE handleSwitch(q.name) /\ UNCHANGED switchError
    /\ UNCHANGED <<serverContext, untold, switches, contextsRead>>

\* The switcher no longer waits. An answer on its way is lost, and a request on its way
\* may be carried out all the same.
GiveUp(why) ==
    /\ switching # ""
    /\ switching' = "" /\ switchError' = why
    /\ switchReqs' = {[q EXCEPT !.awaited = FALSE] : q \in {r \in switchReqs : ~r.done}}
    /\ untold' = (untold \/ \E q \in switchReqs : q.done /\ ~q.refused)
    /\ UNCHANGED <<serverContext, switches, layoutVars, contextsRead>>

\* After ten seconds the request is aborted.
SwitchTimesOut == GiveUp("timed out")

\* The connection breaks.
SwitchBreaks == GiveUp("failed")

-----------------------------------------------------------------------------

BrowserInit ==
    /\ serverContext = CHOOSE c \in BrowserContexts : TRUE
    /\ switchReqs = {} /\ untold = FALSE /\ contextsRead = ""
    /\ activeContext = "" /\ capReqs = {[asked |-> "", live |-> TRUE]}
    /\ capabilities = "none" /\ unreachable = "none"
    /\ switching = "" /\ switchError = "" /\ switches = 0

BrowserNext ==
    \/ OtherBrowserSwitches
    \/ \E q \in switchReqs : ServerSwitches(q) \/ SwitchReplied(q)
    \/ ContextsRead \/ ContextsArrive
    \/ \E q \in capReqs : CapabilitiesAnswered(q) \/ CapabilitiesFailed(q)
    \/ \E n \in BrowserContexts : handleSelect(n) \/ clickFleetCard(n)
    \/ SwitchTimesOut \/ SwitchBreaks

BrowserSpec == BrowserInit /\ [][BrowserNext]_browserVars

-----------------------------------------------------------------------------
(* Properties *)

\* The name in the bar is the context the server works with whenever the switcher is
\* idle, unless the server's last switch was one the layout was not told of: another
\* browser's, a card's of the fleet, or one whose answer was given up or lost. The next
\* switch that the bar hears of makes it right again.
BarNamesServerContext ==
    switching = "" /\ activeContext \in BrowserContexts /\ ~untold => activeContext = serverContext

\* The capabilities in the layout, and the failure its banner tells, were asked for under
\* the name in the bar, or before the first name was there, however late answers come.
CapabilitiesAskedHere == {capabilities, unreachable} \subseteq {"none", "", activeContext}

\* What the layout holds belongs to the context in its bar, and that is the server's.
LayoutFollowsServer == BarNamesServerContext /\ CapabilitiesAskedHere
=============================================================================
