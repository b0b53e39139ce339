---------------------------- MODULE Pages_proofs ----------------------------
(***************************************************************************)
(* Proofs about the parts of the web client whose state outlives the       *)
(* request it waits for: the layout against the server's context, the side *)
(* panel, the page of an RGD, the overview, the nested graphs and the      *)
(* designer's form; and about the graph of an RGD. Each part has its       *)
(* invariant, one lemma per group of steps, and its theorem.               *)
(***************************************************************************)
EXTENDS Browser, NodePanel, RgdPage, Overview, ChainView, Designer, Dag, Data_proofs

(* Browser: the bar, the switcher and the layout against the server.       *)

SwitchRequest == [name : BrowserContexts, awaited : BOOLEAN, done : BOOLEAN, refused : BOOLEAN]

BarNames == BrowserContexts \cup {"", "(unavailable)"}

CapabilityRequest == [asked : BarNames, live : BOOLEAN]

BrowserTypeOK ==
    /\ serverContext \in BrowserContexts
    /\ switchReqs \subseteq SwitchRequest
    /\ contextsRead \in BrowserContexts \cup {""}
    /\ activeContext \in BarNames
    /\ capReqs \subseteq CapabilityRequest
    /\ switching \in BrowserContexts \cup {""}
    /\ untold \in BOOLEAN

\* The switcher waits for one switch at most, the one it names, and only with a context
\* in the bar; an answer is on its way only to a switcher that waits.
OneSwitchAwaited ==
    /\ \A q \in switchReqs : q.awaited => switching = q.name
    /\ \A q, r \in switchReqs : q.awaited /\ r.awaited => q = r
    /\ \A q \in switchReqs : (q.done => q.awaited) /\ (q.refused => q.done)
    /\ switching # "" => activeContext \in BrowserContexts

Taken(q) == q.done /\ ~q.refused

\* As long as the layout is told, the server is where the switch leads whose answer is on
\* its way, else where the bar says, or will say when the contexts arrive.
ServerIsKnown ==
    ~untold =>
        /\ \A q \in switchReqs : Taken(q) => q.name = serverContext
        /\ (\A q \in switchReqs : ~Taken(q)) /\ activeContext \in BrowserContexts =>
               activeContext = serverContext
        /\ activeContext = "" /\ contextsRead # "" => contextsRead = serverContext

\* A question of this generation was asked for the name in the bar, or before there was one.
LiveQuestions == \A q \in capReqs : q.live => q.asked \in {"", activeContext}

BrowserInv ==
    /\ BrowserTypeOK
    /\ OneSwitchAwaited
    /\ ServerIsKnown
    /\ LiveQuestions
    /\ CapabilitiesAskedHere

\* The invariant holds when the browser opens.
LEMMA BrowserInitially == BrowserInit => BrowserInv
<1> SUFFICES ASSUME BrowserInit PROVE BrowserInv
  OBVIOUS
<1> USE BrowserAssumption DEF BrowserAssumption, BrowserInit, SwitchRequest, BarNames,
        CapabilityRequest
<1>1. serverContext \in BrowserContexts
  OBVIOUS
<1> DEFINE first == [asked |-> "", live |-> TRUE]
<1>2. /\ switchReqs = {} /\ switching = "" /\ activeContext = "" /\ untold = FALSE
      /\ contextsRead = "" /\ capReqs = {first}
      /\ capabilities = "none" /\ unreachable = "none"
  BY Zenon
<1>3. first \in CapabilityRequest /\ first.asked = ""
  OBVIOUS
<1> HIDE DEF BrowserInit, first
<1>4. BrowserTypeOK
  BY <1>1, <1>2, <1>3 DEF BrowserTypeOK
<1>5. OneSwitchAwaited /\ ServerIsKnown /\ LiveQuestions /\ CapabilitiesAskedHere
  BY <1>2, <1>3 DEF OneSwitchAwaited, ServerIsKnown, LiveQuestions, CapabilitiesAskedHere
<1>6. QED BY <1>4, <1>5 DEF BrowserInv

\* The server's own steps, which the browser hears of later, if at all.
LEMMA ServerStep ==
  ASSUME BrowserInv, OtherBrowserSwitches \/ \E q \in switchReqs : ServerSwitches(q)
  PROVE  BrowserInv'
<1> USE DEF BrowserInv, BrowserTypeOK, serverVars, switcherVars, layoutVars
<1>1. CASE OtherBrowserSwitches
  BY <1>1 DEF OtherBrowserSwitches, OneSwitchAwaited, ServerIsKnown, LiveQuestions, CapabilitiesAskedHere
<1>2. ASSUME NEW q \in switchReqs, ServerSwitches(q)
      PROVE  BrowserInv'
  <2> DEFINE done    == [q EXCEPT !.done = TRUE]
             refused == [q EXCEPT !.done = TRUE, !.refused = TRUE]
             kept(a) == (switchReqs \ {q}) \cup (IF q.awaited THEN {a} ELSE {})
  <2>1. /\ q \in SwitchRequest /\ ~q.done /\ ~q.refused
        /\ done \in SwitchRequest /\ done.name = q.name /\ done.awaited = q.awaited
        /\ done.done /\ ~done.refused
        /\ refused \in SwitchRequest /\ refused.name = q.name /\ refused.awaited = q.awaited
        /\ refused.done /\ refused.refused
        /\ UNCHANGED <<activeContext, capReqs, capabilities, unreachable, switching, contextsRead>>
    <3>1. q \in SwitchRequest /\ ~q.done /\ ~q.refused
      BY <1>2 DEF ServerSwitches, OneSwitchAwaited
    <3>2. QED BY <1>2, <3>1 DEF SwitchRequest, ServerSwitches
  <2>2. q.awaited => activeContext \in BrowserContexts /\ activeContext # ""
    BY <2>1, BrowserAssumption DEF OneSwitchAwaited, BrowserAssumption, SwitchRequest
  <2>3. CASE serverContext' = q.name /\ switchReqs' = kept(done) /\ untold' = ~q.awaited
    <3> HIDE DEF done
    <3>1. BrowserTypeOK'
      BY <2>1, <2>3 DEF SwitchRequest
    <3>2. OneSwitchAwaited'
      BY <2>1, <2>3 DEF OneSwitchAwaited
    <3>3. ServerIsKnown'
      BY <2>1, <2>2, <2>3 DEF ServerIsKnown, OneSwitchAwaited, Taken
    <3>4. QED BY <2>1, <2>3, <3>1, <3>2, <3>3 DEF LiveQuestions, CapabilitiesAskedHere
  <2>4. CASE switchReqs' = kept(refused) /\ UNCHANGED <<serverContext, untold>>
    <3> HIDE DEF refused
    <3>1. BrowserTypeOK'
      BY <2>1, <2>4 DEF SwitchRequest
    <3>2. OneSwitchAwaited'
      BY <2>1, <2>4 DEF OneSwitchAwaited
    <3>3. ServerIsKnown'
      BY <2>1, <2>4 DEF ServerIsKnown, OneSwitchAwaited, Taken
    <3>4. QED BY <2>1, <2>4, <3>1, <3>2, <3>3 DEF LiveQuestions, CapabilitiesAskedHere
  <2>5. QED BY <1>2, <2>3, <2>4 DEF ServerSwitches
<1>3. QED BY <1>1, <1>2

\* A question of a new generation leaves no other one of it.
LEMMA NewQuestion ==
  ASSUME BrowserTypeOK, NEW name \in BarNames, AskCapabilities(name)
  PROVE  /\ capReqs' \subseteq CapabilityRequest
         /\ \A q \in capReqs' : q.live => q.asked = name
<1> DEFINE new == [asked |-> name, live |-> TRUE]
           off == {[q EXCEPT !.live = FALSE] : q \in capReqs}
<1>1. new \in CapabilityRequest /\ new.asked = name
  BY DEF CapabilityRequest
<1>2. \A q \in off : q \in CapabilityRequest /\ ~q.live
  BY DEF BrowserTypeOK, CapabilityRequest
<1>3. capReqs' = off \cup {new}
  BY DEF AskCapabilities
<1> HIDE DEF new, off
<1>4. QED BY <1>1, <1>2, <1>3

\* A switch is sent, by the switcher or by a card of the fleet.
LEMMA SendStep ==
  ASSUME BrowserInv, NEW n \in BrowserContexts, handleSelect(n) \/ clickFleetCard(n)
  PROVE  BrowserInv'
<1> USE DEF BrowserInv, BrowserTypeOK, layoutVars
<1> DEFINE new(a) == [name |-> n, awaited |-> a, done |-> FALSE, refused |-> FALSE]
<1>1. \A a \in BOOLEAN : new(a) \in SwitchRequest /\ new(a).name = n /\ new(a).awaited = a
                         /\ ~new(a).done /\ ~new(a).refused
  BY DEF SwitchRequest
<1> HIDE DEF new
<1>2. CASE handleSelect(n)
  <2>1. /\ switching = "" /\ switching' = n /\ switchReqs' = switchReqs \cup {new(TRUE)}
        /\ activeContext \in BrowserContexts
        /\ UNCHANGED <<serverContext, activeContext, capReqs, capabilities, unreachable, untold, contextsRead>>
    BY <1>2 DEF handleSelect, SendSwitch, new
  <2>2. \A q \in switchReqs : ~q.awaited
    BY <2>1, BrowserAssumption DEF OneSwitchAwaited, BrowserAssumption, SwitchRequest
  <2>3. BrowserTypeOK'
    BY <1>1, <2>1
  <2>4. OneSwitchAwaited'
    BY <1>1, <2>1, <2>2 DEF OneSwitchAwaited
  <2>5. ServerIsKnown'
    BY <1>1, <2>1 DEF ServerIsKnown, Taken
  <2>6. QED BY <2>1, <2>3, <2>4, <2>5 DEF LiveQuestions, CapabilitiesAskedHere
<1>3. CASE clickFleetCard(n)
  <2>1. /\ switchReqs' = switchReqs \cup {new(FALSE)}
        /\ UNCHANGED <<serverContext, activeContext, capReqs, capabilities, unreachable, untold,
                       contextsRead, switching>>
    BY <1>3 DEF clickFleetCard, SendSwitch, new
  <2>2. BrowserTypeOK'
    BY <1>1, <2>1
  <2>3. OneSwitchAwaited'
    BY <1>1, <2>1 DEF OneSwitchAwaited
  <2>4. ServerIsKnown'
    BY <1>1, <2>1 DEF ServerIsKnown, Taken
  <2>5. QED BY <2>1, <2>2, <2>3, <2>4 DEF LiveQuestions, CapabilitiesAskedHere
<1>4. QED BY <1>2, <1>3

\* The layout is told of the name that the server has switched to.
LEMMA ReplyStep ==
  ASSUME BrowserInv, NEW q \in switchReqs, SwitchReplied(q)
  PROVE  BrowserInv'
<1> USE DEF BrowserInv, BrowserTypeOK, layoutVars
<1>1. /\ q \in SwitchRequest /\ q.done /\ q.awaited
      /\ switchReqs' = switchReqs \ {q} /\ switching' = ""
      /\ UNCHANGED <<serverContext, untold, contextsRead>>
  BY DEF SwitchReplied, OneSwitchAwaited
<1>2. \A r \in switchReqs' : ~r.awaited /\ ~r.done /\ ~r.refused
  BY <1>1 DEF OneSwitchAwaited
<1>3. OneSwitchAwaited'
  BY <1>1, <1>2 DEF OneSwitchAwaited
<1>4. CASE q.refused
  <2>1. UNCHANGED layoutVars
    BY <1>4 DEF SwitchReplied
  <2>2. \A r \in switchReqs : ~Taken(r)
    BY <1>1, <1>2, <1>4 DEF Taken
  <2>3. ServerIsKnown'
    BY <1>1, <1>2, <2>1, <2>2 DEF ServerIsKnown, Taken
  <2>4. QED BY <1>1, <1>3, <2>1, <2>3 DEF LiveQuestions, CapabilitiesAskedHere
<1>5. CASE ~q.refused
  <2>1. /\ activeContext' = q.name /\ AskCapabilities(q.name)
        /\ capabilities' = "none" /\ unreachable' = "none"
    BY <1>5 DEF SwitchReplied, handleSwitch
  <2>2. q.name \in BrowserContexts /\ q.name \in BarNames /\ q.name # ""
    BY <1>1, BrowserAssumption DEF SwitchRequest, BarNames, BrowserAssumption
  <2>3. /\ capReqs' \subseteq CapabilityRequest
        /\ \A r \in capReqs' : r.live => r.asked = q.name
    BY <2>1, <2>2, NewQuestion
  <2>4. BrowserTypeOK'
    BY <1>1, <2>1, <2>2, <2>3
  <2>5. ServerIsKnown'
    BY <1>1, <1>2, <1>5, <2>1, <2>2 DEF ServerIsKnown, Taken
  <2>6. QED BY <1>1, <1>3, <2>1, <2>2, <2>3, <2>4, <2>5 DEF LiveQuestions, CapabilitiesAskedHere
<1>6. QED BY <1>4, <1>5

\* The switcher gives up: the layout is not told of a switch that was taken.
LEMMA GiveUpStep ==
  ASSUME BrowserInv, SwitchTimesOut \/ SwitchBreaks
  PROVE  BrowserInv'
<1> USE DEF BrowserInv, BrowserTypeOK, layoutVars
<1>1. /\ switching' = ""
      /\ switchReqs' = {[q EXCEPT !.awaited = FALSE] : q \in {r \in switchReqs : ~r.done}}
      /\ untold' = (untold \/ \E q \in switchReqs : Taken(q))
      /\ UNCHANGED <<serverContext, activeContext, capReqs, capabilities, unreachable, contextsRead>>
  BY DEF SwitchTimesOut, SwitchBreaks, GiveUp, Taken
<1>2. \A q \in switchReqs' : q \in SwitchRequest /\ ~q.awaited /\ ~q.done /\ ~q.refused
  <2>1. ASSUME NEW r \in switchReqs, ~r.done
        PROVE  LET q == [r EXCEPT !.awaited = FALSE]
               IN  q \in SwitchRequest /\ ~q.awaited /\ ~q.done /\ ~q.refused
    <3>1. r \in SwitchRequest /\ ~r.refused
      BY <2>1 DEF OneSwitchAwaited
    <3>2. QED BY <2>1, <3>1 DEF SwitchRequest
  <2>2. QED BY <1>1, <2>1
<1>3. OneSwitchAwaited'
  BY <1>1, <1>2 DEF OneSwitchAwaited
<1>4. ServerIsKnown'
  BY <1>1, <1>2 DEF ServerIsKnown, Taken
<1>5. BrowserTypeOK'
  BY <1>1, <1>2
<1>6. QED BY <1>1, <1>3, <1>4, <1>5 DEF LiveQuestions, CapabilitiesAskedHere

\* What the layout asks of the server.
LEMMA LayoutStep ==
  ASSUME BrowserInv,
         \/ ContextsRead \/ ContextsArrive
         \/ \E q \in capReqs : CapabilitiesAnswered(q) \/ CapabilitiesFailed(q)
  PROVE  BrowserInv'
<1> USE DEF BrowserInv, BrowserTypeOK, serverVars, switcherVars, layoutVars
<1>1. activeContext = "" => \A q \in switchReqs : ~Taken(q)
  BY BrowserAssumption DEF BrowserAssumption, OneSwitchAwaited, Taken, SwitchRequest
<1>2. CASE ContextsRead
  <2>1. ServerIsKnown'
    BY <1>1, <1>2, BrowserAssumption DEF ContextsRead, ServerIsKnown, Taken, BrowserAssumption
  <2>2. QED BY <1>2, <2>1 DEF ContextsRead, OneSwitchAwaited, LiveQuestions, CapabilitiesAskedHere
<1>3. CASE ContextsArrive
  <2>1. /\ activeContext = "" /\ activeContext' \in BarNames /\ AskCapabilities(activeContext')
        /\ \/ activeContext' = "(unavailable)"
           \/ contextsRead # "" /\ activeContext' = contextsRead
        /\ UNCHANGED <<serverContext, switchReqs, switching, capabilities, unreachable, untold, contextsRead>>
    BY <1>3 DEF ContextsArrive, BarNames
  <2>2. /\ capReqs' \subseteq CapabilityRequest
        /\ \A q \in capReqs' : q.live => q.asked = activeContext'
    BY <2>1, NewQuestion
  <2>3. activeContext' # "" /\ activeContext \notin BrowserContexts /\ "(unavailable)" \notin BrowserContexts
    BY <2>1, BrowserAssumption DEF BrowserAssumption
  <2>4. BrowserTypeOK'
    BY <2>1, <2>2
  <2>5. OneSwitchAwaited'
    BY <2>1, <2>3 DEF OneSwitchAwaited
  <2>6. ServerIsKnown'
    BY <1>1, <2>1, <2>3 DEF ServerIsKnown, Taken
  <2>7. QED BY <2>1, <2>2, <2>4, <2>5, <2>6 DEF LiveQuestions, CapabilitiesAskedHere
<1>4. ASSUME NEW q \in capReqs, CapabilitiesAnswered(q)
      PROVE  BrowserInv'
  BY <1>4 DEF CapabilitiesAnswered, OneSwitchAwaited, ServerIsKnown, LiveQuestions, CapabilitiesAskedHere, Taken
<1>5. ASSUME NEW q \in capReqs, CapabilitiesFailed(q)
      PROVE  BrowserInv'
  BY <1>5 DEF CapabilitiesFailed, OneSwitchAwaited, ServerIsKnown, LiveQuestions, CapabilitiesAskedHere, Taken
<1>6. QED BY <1>2, <1>3, <1>4, <1>5

\* It is about the model's variables only.
LEMMA BrowserStutters == ASSUME BrowserInv, UNCHANGED browserVars PROVE BrowserInv'
BY DEF BrowserInv, BrowserTypeOK, OneSwitchAwaited, ServerIsKnown, LiveQuestions, CapabilitiesAskedHere,
       Taken, browserVars, serverVars, switcherVars, layoutVars

\* Unless the server's last switch was one the layout was not told of, the bar of a browser
\* at rest names the context the server works with; and the capabilities in the layout were
\* asked for under that name: for any contexts and any number of switches, by Layout.tsx,
\* ContextSwitcher.tsx, Fleet.tsx and handlers/contexts.go together.
THEOREM LayoutFollows == BrowserSpec => []LayoutFollowsServer
<1>1. BrowserInv /\ [BrowserNext]_browserVars => BrowserInv'
  BY ServerStep, SendStep, ReplyStep, GiveUpStep, LayoutStep, BrowserStutters DEF BrowserNext
<1>2. BrowserInv => LayoutFollowsServer
  <2> SUFFICES ASSUME BrowserInv, switching = "", activeContext \in BrowserContexts, ~untold
               PROVE  activeContext = serverContext
    BY DEF LayoutFollowsServer, BarNamesServerContext, BrowserInv
  <2>1. \A q \in switchReqs : ~Taken(q)
    BY BrowserAssumption
       DEF BrowserInv, BrowserTypeOK, OneSwitchAwaited, Taken, SwitchRequest, BrowserAssumption
  <2>2. QED BY <2>1 DEF BrowserInv, ServerIsKnown
<1>3. QED BY <1>1, <1>2, BrowserInitially, PTL DEF BrowserSpec

-----------------------------------------------------------------------------
(* NodePanel: the YAML of a node, and of an item of a collection.          *)

ViewOf(what) ==
    [status : {"idle", "loading", "loaded", "timeout", "not-found", "error"},
     of : what \cup {""}, masked : BOOLEAN]

YamlRequest == [of : PanelNodes, timed : BOOLEAN, live : BOOLEAN]
ItemRequest == [of : Items, live : BOOLEAN]

SectionTypeOK ==
    /\ yamlState \in ViewOf(PanelNodes)
    /\ fetchedFor \in PanelNodes \cup {""} /\ rawObj \in PanelNodes \cup {""}
    /\ secretRevealed \in BOOLEAN
    /\ yamlReqs \subseteq YamlRequest

ItemTypeOK ==
    /\ selectedItem \in Items \cup {""}
    /\ viewState \in ViewOf(Items)
    /\ itemReqs \subseteq ItemRequest

\* Only the request of the item in view, and of its last try, is listened to.
LiveItemIsSelected == \A q \in itemReqs : q.live => q.of = selectedItem

\* The object that the button reveals is the one whose YAML is on the screen.
LoadedIsRaw == yamlState.status = "loaded" => rawObj = yamlState.of

ItemInv    == ItemTypeOK /\ LiveItemIsSelected /\ ItemShowsItself
SectionInv == SectionTypeOK /\ LoadedIsRaw
PanelInv   == panelNode \in PanelNodes \cup {""} /\ SectionInv /\ ItemInv

\* A step that leaves the YAML as it is, or masks it.
YamlMasked == UNCHANGED yamlState \/ yamlState'.masked = TRUE

\* A view without YAML is masked and idle.
LEMMA NoYamlView ==
  ASSUME NEW what
  PROVE  LET loading == [NoYaml EXCEPT !.status = "loading"]
         IN  /\ NoYaml \in ViewOf(what) /\ NoYaml.masked = TRUE /\ NoYaml.status = "idle"
             /\ loading \in ViewOf(what) /\ loading.masked = TRUE /\ loading.status = "loading"
BY DEF NoYaml, ViewOf

\* What happens to the requests: their timers are cleared, their section goes, one is added.
LEMMA YamlRequests ==
  ASSUME SectionTypeOK
  PROVE  /\ {[q EXCEPT !.timed = FALSE] : q \in yamlReqs} \subseteq YamlRequest
         /\ Unlive(yamlReqs) \subseteq YamlRequest
         /\ \A n \in PanelNodes : [of |-> n, timed |-> TRUE, live |-> TRUE] \in YamlRequest
<1>1. ASSUME NEW q \in yamlReqs
      PROVE  /\ [q EXCEPT !.timed = FALSE] \in YamlRequest
             /\ [q EXCEPT !.timed = FALSE, !.live = FALSE] \in YamlRequest
  BY DEF SectionTypeOK, YamlRequest
<1>2. QED BY <1>1 DEF Unlive, YamlRequest

\* A render that changes the node asks for its YAML, masked.
LEMMA RenderInv ==
  ASSUME SectionInv, NEW n \in PanelNodes \cup {""}, NEW absent, SectionRenders(n, absent)
  PROVE  SectionInv' /\ YamlMasked
<1>1. HasYaml(n, absent) => n \in PanelNodes
  BY DEF HasYaml
<1>2. CASE UNCHANGED sectionVars /\ yamlReqs' \subseteq YamlRequest
  BY <1>2 DEF sectionVars, SectionInv, SectionTypeOK, LoadedIsRaw, YamlMasked
<1>3. CASE /\ fetchedFor' = n /\ n \in PanelNodes /\ yamlState' = [NoYaml EXCEPT !.status = "loading"]
           /\ rawObj' = "" /\ secretRevealed' = FALSE /\ yamlReqs' \subseteq YamlRequest
  BY <1>3, NoYamlView DEF SectionInv, SectionTypeOK, LoadedIsRaw, YamlMasked
<1>4. CASE SectionUnmounts
  BY <1>4, NoYamlView, YamlRequests
     DEF SectionUnmounts, SectionInv, SectionTypeOK, LoadedIsRaw, YamlMasked
<1>5. ASSUME n \in PanelNodes, YamlEffect(n)
      PROVE  SectionInv' /\ YamlMasked
  <2> DEFINE untimed == {[q EXCEPT !.timed = FALSE] : q \in yamlReqs}
             new     == [of |-> n, timed |-> TRUE, live |-> TRUE]
  <2>1. untimed \subseteq YamlRequest /\ new \in YamlRequest
    BY <1>5, YamlRequests DEF SectionInv
  <2>2. CASE fetchedFor = n
    BY <1>2, <1>5, <2>1, <2>2 DEF YamlEffect
  <2>3. CASE fetchedFor # n
    <3>1. yamlReqs' = untimed \cup {new}
      BY <1>5, <2>3 DEF YamlEffect
    <3> HIDE DEF untimed, new
    <3>2. QED BY <1>3, <1>5, <2>1, <2>3, <3>1 DEF YamlEffect
  <2>4. QED BY <2>2, <2>3
<1>6. ASSUME n \in PanelNodes, SectionMounts(n)
      PROVE  SectionInv' /\ YamlMasked
  <2> DEFINE new == [of |-> n, timed |-> TRUE, live |-> TRUE]
  <2>1. new \in YamlRequest /\ Unlive(yamlReqs) \subseteq YamlRequest
    BY <1>6, YamlRequests DEF SectionInv
  <2>2. yamlReqs' = Unlive(yamlReqs) \cup {new}
    BY <1>6 DEF SectionMounts
  <2> HIDE DEF new
  <2>3. QED BY <1>3, <1>6, <2>1, <2>2 DEF SectionMounts
<1>7. CASE UNCHANGED <<sectionVars, yamlReqs>>
  BY <1>2, <1>7 DEF SectionInv, SectionTypeOK
<1>8. QED BY <1>1, <1>4, <1>5, <1>6, <1>7 DEF SectionRenders

\* Closing the panel hides what was shown.
LEMMA PanelGoesInv == PanelGoes => SectionInv' /\ YamlMasked
BY NoYamlView DEF PanelGoes, SectionInv, SectionTypeOK, LoadedIsRaw, YamlMasked

\* No item is open.
LEMMA NoItemInv == NoItem => ItemInv'
BY NoYamlView DEF NoItem, ItemInv, ItemTypeOK, LiveItemIsSelected, ItemShowsItself

\* Steps of others leave the item alone.
LEMMA ItemStays == ItemInv /\ UNCHANGED itemVars => ItemInv'
BY DEF ItemInv, ItemTypeOK, LiveItemIsSelected, ItemShowsItself, itemVars

\* Steps of others leave the YAML alone.
LEMMA SectionStays == SectionInv /\ UNCHANGED <<sectionVars, yamlReqs>> => SectionInv' /\ YamlMasked
BY DEF SectionInv, SectionTypeOK, LoadedIsRaw, sectionVars, YamlMasked

\* InstanceDetail.tsx: the selection and the polls.
LEMMA SelectionStep ==
  ASSUME PanelInv, handlePanelClose \/ PanelPoll \/ \E n \in PanelNodes : handleNodeClick(n)
  PROVE  PanelInv' /\ YamlMasked
<1>1. CASE handlePanelClose
  BY <1>1, PanelGoesInv, NoItemInv DEF handlePanelClose, PanelInv
<1>2. CASE PanelPoll
  BY <1>2, RenderInv, SectionStays, ItemStays DEF PanelPoll, PanelInv
<1>3. ASSUME NEW n \in PanelNodes, handleNodeClick(n)
      PROVE  PanelInv' /\ YamlMasked
  <2>1. SectionInv' /\ YamlMasked
    BY <1>3, RenderInv, PanelGoesInv DEF handleNodeClick, PanelInv
  <2>2. ItemInv'
    BY <1>3, ItemStays, NoItemInv DEF handleNodeClick, PanelInv
  <2>3. QED BY <1>3, <2>1, <2>2 DEF handleNodeClick, PanelInv
<1>4. QED BY <1>1, <1>2, <1>3

\* YamlSection: an answer, a failure and a timeout tell of their own object, masked.
LEMMA YamlStep ==
  ASSUME PanelInv, NEW q \in yamlReqs, YamlAnswered(q) \/ YamlFails(q) \/ YamlTimesOut(q)
  PROVE  PanelInv' /\ YamlMasked
<1>1. q \in YamlRequest /\ q.of \in PanelNodes
  BY DEF PanelInv, SectionInv, SectionTypeOK, YamlRequest
<1>2. ASSUME NEW s \in {"loaded", "not-found", "error", "timeout"}
      PROVE  LET y == [status |-> s, of |-> q.of, masked |-> TRUE]
             IN  y \in ViewOf(PanelNodes) /\ y.masked = TRUE /\ y.status = s /\ y.of = q.of
  BY <1>1 DEF ViewOf
<1>3. [q EXCEPT !.timed = FALSE] \in YamlRequest
  BY <1>1 DEF YamlRequest
<1> USE DEF PanelInv, SectionInv, SectionTypeOK, LoadedIsRaw, YamlMasked
<1>4. CASE YamlAnswered(q)
  BY <1>1, <1>2, <1>4, ItemStays DEF YamlAnswered
<1>5. CASE YamlFails(q)
  BY <1>1, <1>2, <1>5, ItemStays DEF YamlFails
<1>6. CASE YamlTimesOut(q)
  BY <1>1, <1>2, <1>3, <1>6, ItemStays DEF YamlTimesOut
<1>7. QED BY <1>4, <1>5, <1>6

\* A retry asks again, masked.
LEMMA YamlRetryStep == PanelInv /\ handleYamlRetry => PanelInv' /\ YamlMasked
BY NoYamlView, ItemStays
   DEF PanelInv, SectionInv, SectionTypeOK, LoadedIsRaw, YamlMasked, handleYamlRetry

\* The button turns its own object's YAML over.
LEMMA RevealStep ==
  ASSUME PanelInv, handleToggleReveal
  PROVE  PanelInv' /\ yamlState'.of = yamlState.of
<1>1. yamlState.status = "loaded" /\ rawObj = yamlState.of
  BY DEF handleToggleReveal, YamlShows, PanelInv, SectionInv, LoadedIsRaw
<1>2. /\ yamlState' \in ViewOf(PanelNodes)
      /\ yamlState'.of = rawObj /\ yamlState'.status = "loaded"
  BY <1>1 DEF handleToggleReveal, PanelInv, SectionInv, SectionTypeOK, ViewOf
<1>3. QED
  BY <1>1, <1>2, ItemStays DEF handleToggleReveal, PanelInv, SectionInv, SectionTypeOK, LoadedIsRaw

\* CollectionPanel.tsx: an item's view listens to what was asked for last.
LEMMA ItemStep ==
  ASSUME PanelInv,
         \/ \E i \in Items : SelectItem(i)
         \/ handleBack \/ handleItemRetry \/ ItemTimesOut
         \/ \E q \in itemReqs : ItemAnswered(q)
  PROVE  PanelInv' /\ YamlMasked
<1>1. SectionInv' /\ YamlMasked /\ UNCHANGED panelNode
  BY SectionStays
     DEF PanelInv, SelectItem, handleBack, handleItemRetry, ItemTimesOut, ItemAnswered
<1> DEFINE off == {[q EXCEPT !.live = FALSE] : q \in itemReqs}
<1>2. \A q \in off : q \in ItemRequest /\ q.live = FALSE
  BY DEF PanelInv, ItemInv, ItemTypeOK, ItemRequest
<1>3. ASSUME NEW i \in Items, AskItem(i), selectedItem' = i
      PROVE  ItemInv'
  <2> DEFINE new == [of |-> i, live |-> TRUE]
  <2>1. new \in ItemRequest /\ new.of = i
    BY DEF ItemRequest
  <2>2. itemReqs' = off \cup {new} /\ viewState' = [NoYaml EXCEPT !.status = "loading"]
    BY <1>3 DEF AskItem
  <2> HIDE DEF off, new
  <2>3. QED
    BY <1>2, <1>3, <2>1, <2>2, NoYamlView DEF ItemInv, ItemTypeOK, LiveItemIsSelected, ItemShowsItself
<1>4. ASSUME NEW i \in Items, SelectItem(i)
      PROVE  ItemInv'
  BY <1>3, <1>4 DEF SelectItem
<1>5. ASSUME handleItemRetry PROVE ItemInv'
  <2>1. selectedItem \in Items /\ AskItem(selectedItem) /\ selectedItem' = selectedItem
    BY <1>5 DEF handleItemRetry, ItemViewShows, PanelInv, ItemInv, ItemTypeOK
  <2>2. QED BY <1>3, <2>1
<1>6. ASSUME handleBack PROVE ItemInv'
  <2>1. itemReqs' = off /\ selectedItem' = "" /\ viewState' = NoYaml
    BY <1>6 DEF handleBack
  <2> HIDE DEF off
  <2>2. QED
    BY <1>2, <2>1, NoYamlView DEF ItemInv, ItemTypeOK, LiveItemIsSelected, ItemShowsItself
<1>7. ASSUME ItemTimesOut PROVE ItemInv'
  <2>1. /\ itemReqs' = off /\ UNCHANGED selectedItem
        /\ viewState' = [status |-> "timeout", of |-> selectedItem, masked |-> FALSE]
    BY <1>7 DEF ItemTimesOut
  <2>2. viewState' \in ViewOf(Items) /\ viewState'.of = selectedItem
    BY <2>1 DEF PanelInv, ItemInv, ItemTypeOK, ViewOf
  <2> HIDE DEF off
  <2>3. QED
    BY <1>2, <2>1, <2>2 DEF PanelInv, ItemInv, ItemTypeOK, LiveItemIsSelected, ItemShowsItself
<1>8. ASSUME NEW q \in itemReqs, ItemAnswered(q)
      PROVE  ItemInv'
  <2>1. q \in ItemRequest
    BY DEF PanelInv, ItemInv, ItemTypeOK
  <2>2. /\ itemReqs' = itemReqs \ {q} /\ UNCHANGED selectedItem
        /\ \/ q.live /\ viewState' \in ViewOf(Items) /\ viewState'.of = q.of
           \/ UNCHANGED viewState
    <3>1. ASSUME NEW s \in {"loaded", "not-found", "error"}
          PROVE  LET v == [status |-> s, of |-> q.of, masked |-> FALSE]
                 IN  v \in ViewOf(Items) /\ v.of = q.of
      BY <2>1 DEF ItemRequest, ViewOf
    <3>2. QED BY <1>8, <3>1 DEF ItemAnswered
  <2>3. QED BY <2>2 DEF PanelInv, ItemInv, ItemTypeOK, LiveItemIsSelected, ItemShowsItself
<1>9. QED BY <1>1, <1>4, <1>5, <1>6, <1>7, <1>8 DEF PanelInv

\* Every step keeps the invariant; only the toggle shows secrets, of the same node.
LEMMA PanelStep ==
  ASSUME PanelInv, [PanelNext]_panelVars
  PROVE  PanelInv' /\ (YamlMasked \/ (handleToggleReveal /\ yamlState'.of = yamlState.of))
<1>1. CASE UNCHANGED panelVars
  BY <1>1, SectionStays, ItemStays DEF panelVars, PanelInv
<1>2. CASE PanelNext
  BY <1>2, SelectionStep, YamlStep, YamlRetryStep, RevealStep, ItemStep DEF PanelNext
<1>3. QED BY <1>1, <1>2

\* The inductive invariant of the panels.
LEMMA PanelInvariant == PanelSpec => []PanelInv
<1>1. PanelInit => PanelInv
  BY NoYamlView
     DEF PanelInit, PanelInv, SectionInv, ItemInv, SectionTypeOK, ItemTypeOK, LiveItemIsSelected,
         LoadedIsRaw, ItemShowsItself
<1>2. QED BY <1>1, PanelStep, PTL DEF PanelSpec

\* Issue #238, for any collections: ItemYamlView shows an item only its own answer.
THEOREM OwnItem == PanelSpec => []ItemShowsItself
BY PanelInvariant, PTL DEF PanelInv, ItemInv

\* What a step adds to the Secrets on the screen.
LEMMA ShownSecret ==
  ASSUME PanelInv, [PanelNext]_panelVars, NEW s \in SecretsOnScreen' \ SecretsOnScreen
  PROVE  (handleToggleReveal /\ s = yamlState.of) \/ s = selectedItem'
<1>1. PanelInv' /\ (YamlMasked \/ (handleToggleReveal /\ yamlState'.of = yamlState.of))
  BY PanelStep
<1>2. CASE yamlState'.status = "loaded" /\ ~yamlState'.masked /\ s = yamlState'.of
  <2>1. ~UNCHANGED yamlState
    BY <1>2 DEF SecretsOnScreen
  <2>2. ~YamlMasked
    BY <1>2, <2>1 DEF YamlMasked
  <2>3. QED BY <1>1, <1>2, <2>2
<1>3. CASE viewState'.status = "loaded" /\ s = viewState'.of
  BY <1>1, <1>3 DEF PanelInv, ItemInv, ItemShowsItself
<1>4. QED BY <1>2, <1>3 DEF SecretsOnScreen

\* GH #402, for any nodes and items: a Secret is revealed by the press of its own button,
\* or as the item that was opened, only.
THEOREM SecretsStayMasked == PanelSpec => SecretsShownOnRequest
<1>1. PanelInv /\ [PanelNext]_panelVars =>
        [\A s \in SecretsOnScreen' \ SecretsOnScreen :
            (handleToggleReveal /\ s = yamlState.of) \/ s = selectedItem']_panelVars
  BY ShownSecret
<1>2. QED BY <1>1, PanelInvariant, PTL DEF PanelSpec, SecretsShownOnRequest

-----------------------------------------------------------------------------
(* RgdPage: slots that effects fill, and the address they follow.          *)

Subjects == [rgd : RgdNames \cup {""}, ns : NamespaceNames \cup {""}, name : InstanceNames \cup {""}]
SlotType == [value : Subjects, busy : BOOLEAN, failed : BOOLEAN]
Requests == [slot : Slots, of : Subjects, live : BOOLEAN]
PageType == [slots : [Slots -> SlotType], flight : SUBSET Requests]
Addresses == [rgd : RgdNames, tab : Tabs, ns : NamespaceNames \cup {""}]

Asked(pg, s) == \E q \in pg.flight : q.slot = s

\* A request, named, so that a proof need not look into it.
RequestOf(s, of, live) == [slot |-> s, of |-> of, live |-> live]

\* The fields of a request.
LEMMA RecordFields ==
  ASSUME NEW a, NEW b, NEW c
  PROVE  /\ RequestOf(a, b, c).slot = a /\ RequestOf(a, b, c).of = b /\ RequestOf(a, b, c).live = c
         /\ a \in Slots /\ b \in Subjects /\ c \in BOOLEAN => RequestOf(a, b, c) \in Requests
BY DEF RequestOf, Requests

\* What pg2 has of a slot is what pg had.
SameSlot(pg, pg2, s) ==
    /\ pg2.slots[s] = pg.slots[s]
    /\ \A q \in Requests : q.slot = s => (q \in pg2.flight <=> q \in pg.flight)

Only(pg, pg2, S) == pg2 \in PageType /\ \A t \in Slots \ S : SameSlot(pg, pg2, t)

\* The slots whose fetch is repeated when the RGD is another, and aborted before.
Guarded == {"count", "overlay", "diff"}

\* Where "loading" is on the screen, with this tab and this overlay.
MustEnd(s, tab, k) ==
    \/ s \in {"rgd", "count"}
    \/ s = "instances" /\ tab = "instances"
    \/ s = "overlay" /\ k # ""

SlotOK(pg, s, r, tab, k) ==
    /\ MustEnd(s, tab, k) /\ pg.slots[s].busy => Asked(pg, s)
    /\ s \in Guarded =>
         /\ \A q \in pg.flight : q.slot = s => q.of.rgd = r
         /\ pg.slots[s].value = Nothing \/ pg.slots[s].value.rgd = r \/ Asked(pg, s)

\* Each request of a guarded slot can be aborted.
Abortable(pg) == pg \in PageType /\ \A q \in pg.flight : q.slot \in Guarded => q.live

SlotsOK(pg, D, r, tab, k) == Abortable(pg) /\ \A s \in D : SlotOK(pg, s, r, tab, k)

\* What a request can be about.
LEMMA SubjectsAre ==
  ASSUME NEW r \in RgdNames \cup {""}, NEW n \in NamespaceNames \cup {""}, NEW k \in InstanceNames \cup {""}
  PROVE  Nothing \in Subjects /\ Of(r, n, k) \in Subjects
BY DEF Nothing, Of, Subjects

\* The RGD that a request is about.
LEMMA SubjectRgd == \A r, n, k : Of(r, n, k).rgd = r
BY DEF Of

\* An answer changes its own slot only.
LEMMA PutSlot ==
  ASSUME NEW pg \in PageType, NEW s \in Slots, NEW value \in Subjects, NEW busy \in BOOLEAN,
         NEW failed \in BOOLEAN
  PROVE  Only(pg, Put(pg, s, value, busy, failed), {s})
BY DEF Put, Only, SameSlot, PageType, SlotType

\* A request is in flight once it is sent.
LEMMA AskFlight ==
  ASSUME NEW pg, NEW s, NEW of, NEW live
  PROVE  Ask(pg, s, of, live).flight = pg.flight \cup {RequestOf(s, of, live)}
BY DEF Ask, RequestOf

\* A request changes its own slot only.
LEMMA AskSlot ==
  ASSUME NEW pg \in PageType, NEW s \in Slots, NEW of \in Subjects, NEW live \in BOOLEAN
  PROVE  Only(pg, Ask(pg, s, of, live), {s})
<1> DEFINE new == RequestOf(s, of, live)
           pg2 == Ask(pg, s, of, live)
<1>1. new \in Requests /\ new.slot = s
  BY RecordFields
<1>2. pg2.flight = pg.flight \cup {new}
  BY AskFlight
<1>3. pg2 \in PageType /\ \A t \in Slots \ {s} : pg2.slots[t] = pg.slots[t]
  BY <1>1 DEF Ask, PageType, SlotType, RequestOf
<1> HIDE DEF pg2, new
<1>4. Only(pg, pg2, {s})
  BY <1>1, <1>2, <1>3 DEF Only, SameSlot
<1>5. QED BY <1>4 DEF pg2

\* So does an abort.
LEMMA AbortSlot ==
  ASSUME NEW pg \in PageType, NEW s \in Slots
  PROVE  /\ Only(pg, Abort(pg, s), {s})
         /\ Abort(pg, s).slots = pg.slots
         /\ Abort(pg, s).flight = {q \in pg.flight : q.slot # s \/ ~q.live}
BY DEF Abort, Only, SameSlot, PageType, Requests

\* A slot that no step touched is as right as before.
LEMMA SlotStays ==
  ASSUME NEW pg \in PageType, NEW pg2 \in PageType, NEW s, SameSlot(pg, pg2, s), NEW r, NEW tab, NEW k,
         SlotOK(pg, s, r, tab, k)
  PROVE  SlotOK(pg2, s, r, tab, k)
<1>1. \A q \in Requests : q.slot = s => (q \in pg2.flight <=> q \in pg.flight)
  BY DEF SameSlot
<1>2. pg.flight \subseteq Requests /\ pg2.flight \subseteq Requests
  BY DEF PageType
<1>3. Asked(pg, s) <=> Asked(pg2, s)
  BY <1>1, <1>2 DEF Asked
<1>4. QED BY <1>1, <1>2, <1>3 DEF SlotOK, SameSlot

\* A slot that nothing waits for needs nothing.
LEMMA Unwatched ==
  ASSUME NEW s, s \notin Guarded, NEW tab, NEW k, ~MustEnd(s, tab, k), NEW pg, NEW r
  PROVE  SlotOK(pg, s, r, tab, k)
BY DEF SlotOK

\* A change of one slot leaves the others right.
LEMMA OthersStay ==
  ASSUME NEW pg, NEW D \in SUBSET Slots, NEW r, NEW tab, NEW k, SlotsOK(pg, D, r, tab, k),
         NEW s, NEW pg2, Only(pg, pg2, {s}),
         s \in Guarded => \A q \in pg2.flight : q.slot = s => q.live
  PROVE  SlotsOK(pg2, D \ {s}, r, tab, k)
<1>1. pg \in PageType /\ pg2 \in PageType /\ \A q \in pg.flight : q.slot \in Guarded => q.live
  BY DEF SlotsOK, Abortable, Only
<1>2. ASSUME NEW t \in Slots \ {s}
      PROVE  SameSlot(pg, pg2, t)
  BY <1>2 DEF Only
<1>3. ASSUME NEW t \in D \ {s}
      PROVE  SlotOK(pg2, t, r, tab, k)
  BY <1>1, <1>2, <1>3, SlotStays DEF SlotsOK
<1>4. ASSUME NEW q \in pg2.flight, q.slot \in Guarded
      PROVE  q.live
  <2>1. q \in Requests /\ q.slot \in Slots
    BY <1>1, <1>4 DEF PageType, Requests
  <2>2. QED BY <1>1, <1>2, <1>4, <2>1 DEF SameSlot
<1>5. QED BY <1>1, <1>3, <1>4 DEF SlotsOK, Abortable

\* A fetch that is asked for.
LEMMA AskOK ==
  ASSUME NEW pg, NEW D \in SUBSET Slots, NEW r, NEW tab, NEW k, SlotsOK(pg, D, r, tab, k),
         NEW s \in Slots, NEW of \in Subjects, NEW live \in BOOLEAN,
         s \in Guarded => live /\ of.rgd = r /\ \A q \in pg.flight : q.slot = s => q.of.rgd = r
  PROVE  SlotsOK(Ask(pg, s, of, live), D \cup {s}, r, tab, k)
<1> DEFINE new == RequestOf(s, of, live)
           pg2 == Ask(pg, s, of, live)
<1>1. new.slot = s /\ new.of = of /\ new.live = live
  BY RecordFields
<1>2. Abortable(pg) /\ pg \in PageType
  BY DEF SlotsOK, Abortable
<1>3. Only(pg, pg2, {s}) /\ pg2.flight = pg.flight \cup {new}
  BY <1>2, AskSlot, AskFlight
<1> HIDE DEF new, pg2
<1>4. SlotOK(pg2, s, r, tab, k)
  BY <1>1, <1>3 DEF Asked, SlotOK
<1>5. SlotsOK(pg2, D \ {s}, r, tab, k)
  BY <1>1, <1>2, <1>3, OthersStay DEF Abortable
<1>6. SlotsOK(pg2, D \cup {s}, r, tab, k)
  BY <1>4, <1>5 DEF SlotsOK
<1>7. QED BY <1>6 DEF pg2

\* A slot that is filled or emptied, and what it takes for it to be right.
LEMMA PutOK ==
  ASSUME NEW pg, NEW D \in SUBSET Slots, NEW r, NEW tab, NEW k, SlotsOK(pg, D, r, tab, k),
         NEW s \in Slots, NEW value \in Subjects, NEW busy \in BOOLEAN, NEW failed \in BOOLEAN
  PROVE  /\ SlotsOK(Put(pg, s, value, busy, failed), D \ {s}, r, tab, k)
         /\ /\ MustEnd(s, tab, k) => ~busy
            /\ s \in Guarded => /\ value = Nothing \/ value.rgd = r
                                /\ \A q \in pg.flight : q.slot = s => q.of.rgd = r
            => SlotsOK(Put(pg, s, value, busy, failed), D \cup {s}, r, tab, k)
<1> DEFINE pg2 == Put(pg, s, value, busy, failed)
<1>1. pg \in PageType /\ Abortable(pg)
  BY DEF SlotsOK, Abortable
<1>2. Only(pg, pg2, {s})
  BY <1>1, PutSlot
<1>3. pg2.slots[s].value = value /\ pg2.slots[s].busy = busy /\ pg2.flight = pg.flight
  BY <1>1 DEF Put, PageType
<1> HIDE DEF pg2
<1>4. SlotsOK(pg2, D \ {s}, r, tab, k)
  BY <1>1, <1>2, <1>3, OthersStay DEF Abortable
<1>5. ASSUME MustEnd(s, tab, k) => ~busy,
             s \in Guarded => /\ value = Nothing \/ value.rgd = r
                              /\ \A q \in pg.flight : q.slot = s => q.of.rgd = r
      PROVE  SlotsOK(pg2, D \cup {s}, r, tab, k)
  <2>1. SlotOK(pg2, s, r, tab, k)
    BY <1>3, <1>5 DEF SlotOK
  <2>2. QED BY <1>4, <2>1 DEF SlotsOK
<1>6. QED BY <1>4, <1>5 DEF pg2

\* Nothing is left of what a guarded slot had asked for.
LEMMA AbortOK ==
  ASSUME NEW pg, NEW D \in SUBSET Slots, NEW r, NEW tab, NEW k, SlotsOK(pg, D, r, tab, k),
         NEW s \in Slots
  PROVE  /\ SlotsOK(Abort(pg, s), D \ {s}, r, tab, k)
         /\ Abort(pg, s).slots = pg.slots
         /\ s \in Guarded => \A q \in Abort(pg, s).flight : q.slot # s
<1>1. pg \in PageType /\ Abortable(pg)
  BY DEF SlotsOK, Abortable
<1>2. /\ Only(pg, Abort(pg, s), {s}) /\ Abort(pg, s).slots = pg.slots
      /\ Abort(pg, s).flight = {q \in pg.flight : q.slot # s \/ ~q.live}
  BY <1>1, AbortSlot
<1>3. s \in Guarded => \A q \in Abort(pg, s).flight : q.slot # s
  BY <1>1, <1>2 DEF Abortable
<1>4. SlotsOK(Abort(pg, s), D \ {s}, r, tab, k)
  BY <1>2, <1>3, OthersStay
<1>5. QED BY <1>2, <1>3, <1>4

\* Effects, run one after the other: each makes its slots right and leaves the others so.
LEMMA RgdEffectOK ==
  ASSUME NEW pg, NEW D \in SUBSET Slots, NEW r, NEW tab, NEW k, SlotsOK(pg, D, r, tab, k),
         NEW u \in Addresses
  PROVE  SlotsOK(RgdEffect(pg, u), D \cup {"rgd"}, r, tab, k)
<1>1. "rgd" \in Slots \ Guarded /\ Of(u.rgd, "", "") \in Subjects
  BY SubjectsAre DEF Slots, Guarded, Addresses
<1>2. QED BY <1>1, AskOK DEF RgdEffect

\* The effect of the instance count puts its slot right.
LEMMA CountEffectOK ==
  ASSUME NEW pg, NEW D \in SUBSET Slots, NEW u \in Addresses, NEW tab, NEW k,
         SlotsOK(pg, D, u.rgd, tab, k)
  PROVE  SlotsOK(CountEffect(pg, u), D \cup {"count"}, u.rgd, tab, k)
<1> DEFINE quiet == Abort(pg, "count")
           empty == Put(quiet, "count", Nothing, TRUE, FALSE)
<1>1. /\ "count" \in Slots
      /\ Nothing \in Subjects /\ Of(u.rgd, "", "") \in Subjects
  BY SubjectsAre DEF Slots, Addresses
<1>0. Of(u.rgd, "", "").rgd = u.rgd
  BY SubjectRgd
<1>2. /\ SlotsOK(quiet, D \ {"count"}, u.rgd, tab, k)
      /\ \A q \in quiet.flight : q.slot # "count"
  BY <1>1, AbortOK DEF Guarded
<1> HIDE DEF quiet
<1>3. SlotsOK(empty, (D \ {"count"}) \ {"count"}, u.rgd, tab, k)
  BY <1>1, <1>2, PutOK
<1>9. empty.flight = quiet.flight
  <2>1. quiet \in PageType
    BY <1>2 DEF SlotsOK, Abortable
  <2>2. QED BY <2>1 DEF Put, PageType
<1> HIDE DEF empty
<1>4. SlotsOK(Ask(empty, "count", Of(u.rgd, "", ""), TRUE), ((D \ {"count"}) \ {"count"}) \cup {"count"},
              u.rgd, tab, k)
  BY <1>0, <1>1, <1>2, <1>3, <1>9, AskOK
<1>5. D \cup {"count"} = ((D \ {"count"}) \ {"count"}) \cup {"count"}
  OBVIOUS
<1>6. QED BY <1>4, <1>5 DEF CountEffect, empty, quiet

\* So does that of the revisions' comparison.
LEMMA DiffEffectOK ==
  ASSUME NEW pg, NEW D \in SUBSET Slots, NEW u \in Addresses, NEW tab, NEW k,
         SlotsOK(pg, D, u.rgd, tab, k), NEW revs
  PROVE  SlotsOK(DiffEffect(pg, u, revs), D \cup {"diff"}, u.rgd, tab, k)
<1> DEFINE quiet == Abort(pg, "diff")
<1>1. /\ "diff" \in Slots
      /\ Nothing \in Subjects /\ Of(u.rgd, "", "") \in Subjects
  BY SubjectsAre DEF Slots, Addresses
<1>0. Of(u.rgd, "", "").rgd = u.rgd
  BY SubjectRgd
<1>2. /\ SlotsOK(quiet, D \ {"diff"}, u.rgd, tab, k)
      /\ \A q \in quiet.flight : q.slot # "diff"
  BY <1>1, AbortOK DEF Guarded
<1>3. DiffEffect(pg, u, revs) \in
        {Put(quiet, "diff", Nothing, FALSE, FALSE), Ask(quiet, "diff", Of(u.rgd, "", ""), TRUE)}
  BY DEF DiffEffect
<1> HIDE DEF quiet
<1>4. SlotsOK(Put(quiet, "diff", Nothing, FALSE, FALSE), (D \ {"diff"}) \cup {"diff"}, u.rgd, tab, k)
  BY <1>1, <1>2, PutOK
<1>5. SlotsOK(Ask(quiet, "diff", Of(u.rgd, "", ""), TRUE), (D \ {"diff"}) \cup {"diff"}, u.rgd, tab, k)
  BY <1>0, <1>1, <1>2, AskOK
<1>6. D \cup {"diff"} = (D \ {"diff"}) \cup {"diff"}
  OBVIOUS
<1>7. QED BY <1>3, <1>4, <1>5, <1>6

\* So does that of the instances of the tab.
LEMMA InstancesEffectOK ==
  ASSUME NEW pg, NEW D \in SUBSET Slots, NEW u \in Addresses, NEW revs, NEW k,
         SlotsOK(pg, D, u.rgd, TabOf(u, revs), k)
  PROVE  SlotsOK(InstancesEffect(pg, u, revs), D \cup {"instances", "all"}, u.rgd, TabOf(u, revs), k)
<1> DEFINE tab   == TabOf(u, revs)
           rest  == (D \ {"instances"}) \ {"all"}
           quiet == Abort(Abort(pg, "instances"), "all")
           asked == Ask(quiet, "instances", Of(u.rgd, u.ns, ""), TRUE)
           both  == Ask(asked, "all", Of(u.rgd, "", ""), TRUE)
<1>1. /\ "instances" \in Slots \ Guarded /\ "all" \in Slots \ Guarded
      /\ Of(u.rgd, u.ns, "") \in Subjects /\ Of(u.rgd, "", "") \in Subjects
  BY SubjectsAre DEF Slots, Guarded, Addresses
<1> HIDE DEF tab
<1>2. SlotsOK(quiet, rest, u.rgd, tab, k)
  <2>1. SlotsOK(Abort(pg, "instances"), D \ {"instances"}, u.rgd, tab, k)
    BY <1>1, AbortOK DEF tab
  <2>2. QED BY <1>1, <2>1, AbortOK
<1>3. InstancesEffect(pg, u, revs) \in {asked, both} \/ (InstancesEffect(pg, u, revs) = quiet /\ tab # "instances")
  BY DEF InstancesEffect, tab
<1> HIDE DEF quiet
<1>4. SlotsOK(asked, rest \cup {"instances"}, u.rgd, tab, k)
  BY <1>1, <1>2, AskOK
<1> HIDE DEF asked
<1>5. SlotsOK(both, (rest \cup {"instances"}) \cup {"all"}, u.rgd, tab, k)
  BY <1>1, <1>4, AskOK
<1> HIDE DEF both
<1>6. \A pg2 : SlotOK(pg2, "all", u.rgd, tab, k)
  BY <1>1, Unwatched DEF MustEnd
<1>7. tab # "instances" => \A pg2 : SlotOK(pg2, "instances", u.rgd, tab, k)
  BY <1>1, Unwatched DEF MustEnd
<1>8. SlotsOK(InstancesEffect(pg, u, revs), D \cup {"instances", "all"}, u.rgd, tab, k)
  BY <1>2, <1>3, <1>4, <1>5, <1>6, <1>7 DEF SlotsOK
<1>9. QED BY <1>8 DEF tab

\* So does that of the picker.
LEMMA PickerEffectOK ==
  ASSUME NEW pg, NEW D \in SUBSET Slots, NEW r, NEW tab, NEW k, SlotsOK(pg, D, r, tab, k),
         NEW u \in Addresses, NEW revs
  PROVE  SlotsOK(PickerEffect(pg, u, revs), D \cup {"picker"}, r, tab, k)
<1> DEFINE quiet == Abort(pg, "picker")
           asked == Ask(quiet, "picker", Of(u.rgd, "", ""), TRUE)
<1>1. "picker" \in Slots \ Guarded /\ Of(u.rgd, "", "") \in Subjects
  BY SubjectsAre DEF Slots, Guarded, Addresses
<1>2. SlotsOK(quiet, D \ {"picker"}, r, tab, k)
  BY <1>1, AbortOK
<1>3. PickerEffect(pg, u, revs) \in {quiet, asked}
  BY DEF PickerEffect
<1> HIDE DEF quiet
<1>4. SlotsOK(asked, (D \ {"picker"}) \cup {"picker"}, r, tab, k)
  BY <1>1, <1>2, AskOK
<1> HIDE DEF asked
<1>5. \A pg2 : SlotOK(pg2, "picker", r, tab, k)
  BY <1>1, Unwatched DEF MustEnd
<1>6. QED BY <1>2, <1>3, <1>4, <1>5 DEF SlotsOK

\* So does that of the overlay.
LEMMA OverlayEffectOK ==
  ASSUME NEW pg, NEW D \in SUBSET Slots, NEW u \in Addresses, NEW tab,
         NEW k \in InstanceNames \cup {""}, SlotsOK(pg, D, u.rgd, tab, k)
  PROVE  SlotsOK(OverlayEffect(pg, u, k), D \cup {"overlay"}, u.rgd, tab, k)
<1> DEFINE quiet == Abort(pg, "overlay")
           busy  == pg.slots.overlay.busy
           empty == Put(quiet, "overlay", Nothing, busy, FALSE)
           asked == Ask(empty, "overlay", Of(u.rgd, "", k), TRUE)
<1>1. /\ "overlay" \in Slots
      /\ Nothing \in Subjects /\ Of(u.rgd, "", k) \in Subjects
  BY SubjectsAre DEF Slots, Addresses
<1>0. Of(u.rgd, "", k).rgd = u.rgd
  BY SubjectRgd
<1>2. busy \in BOOLEAN
  BY <1>1 DEF SlotsOK, Abortable, PageType, SlotType
<1>3. /\ SlotsOK(quiet, D \ {"overlay"}, u.rgd, tab, k)
      /\ \A q \in quiet.flight : q.slot # "overlay"
  BY <1>1, AbortOK DEF Guarded
<1>4. OverlayEffect(pg, u, k) = IF k = "" THEN empty ELSE asked
  BY DEF OverlayEffect
<1> HIDE DEF quiet, busy
<1>5. /\ SlotsOK(empty, (D \ {"overlay"}) \ {"overlay"}, u.rgd, tab, k)
      /\ k = "" => SlotsOK(empty, (D \ {"overlay"}) \cup {"overlay"}, u.rgd, tab, k)
  BY <1>1, <1>2, <1>3, PutOK DEF MustEnd
<1>6. empty.flight = quiet.flight
  <2>1. quiet \in PageType
    BY <1>3 DEF SlotsOK, Abortable
  <2>2. QED BY <2>1 DEF Put, PageType
<1> HIDE DEF empty
<1>7. SlotsOK(asked, ((D \ {"overlay"}) \ {"overlay"}) \cup {"overlay"}, u.rgd, tab, k)
  BY <1>0, <1>1, <1>3, <1>5, <1>6, AskOK
<1> HIDE DEF asked
<1>8. D \cup {"overlay"} = ((D \ {"overlay"}) \ {"overlay"}) \cup {"overlay"}
  OBVIOUS
<1>9. D \cup {"overlay"} = (D \ {"overlay"}) \cup {"overlay"}
  OBVIOUS
<1>10. QED BY <1>4, <1>5, <1>7, <1>8, <1>9

\* Fewer slots are right when more are.
LEMMA FewerSlots ==
  ASSUME NEW pg, NEW D, NEW E \in SUBSET D, NEW r, NEW tab, NEW k, SlotsOK(pg, D, r, tab, k)
  PROVE  SlotsOK(pg, E, r, tab, k)
BY DEF SlotsOK

RgdInv ==
    /\ url \in Addresses /\ hasRevisions \in BOOLEAN /\ overlayKey \in InstanceNames \cup {""}
    /\ SlotsOK(Page, Slots, url.rgd, activeTab, overlayKey)

\* Each slot that an address leaves in doubt has an effect that the address runs.
LEMMA EffectsOK ==
  ASSUME RgdInv, NEW u \in Addresses, NEW revs \in BOOLEAN
  PROVE  SlotsOK(Effects(Page, u, revs), Slots, u.rgd, TabOf(u, revs), overlayKey)
<1> DEFINE k == overlayKey
           tab == TabOf(u, revs)
           moved == u.rgd # url.rgd
           tabbed == moved \/ tab # activeTab
           p1 == IF moved THEN CountEffect(RgdEffect(Page, u), u) ELSE Page
           p2 == IF tabbed \/ revs # hasRevisions THEN DiffEffect(p1, u, revs) ELSE p1
           p3 == IF tabbed \/ u.ns # url.ns THEN InstancesEffect(p2, u, revs) ELSE p2
           p4 == IF tabbed THEN PickerEffect(p3, u, revs) ELSE p3
           D0 == {"rgd", "all", "picker"} \cup (IF moved THEN {} ELSE Guarded)
                   \cup (IF tabbed THEN {} ELSE {"instances"})
           D1 == D0 \cup {"count"}
           D2 == D1 \cup {"diff"}
           D3 == D2 \cup {"instances"}
<1>1. /\ k \in InstanceNames \cup {""}
      /\ D0 \in SUBSET Slots /\ D1 \in SUBSET Slots /\ D2 \in SUBSET Slots /\ D3 \in SUBSET Slots
  BY DEF RgdInv, Slots, Guarded
<1>2. SlotsOK(Page, D0, u.rgd, tab, k)
  <2>1. ASSUME NEW s \in D0
        PROVE  SlotOK(Page, s, u.rgd, tab, k)
    <3>1. SlotOK(Page, s, url.rgd, activeTab, k)
      BY <1>1, <2>1 DEF RgdInv, SlotsOK
    <3>2. CASE s \in Guarded
      BY <3>1, <3>2 DEF SlotOK, MustEnd, Guarded
    <3>3. CASE s \notin Guarded
      BY <3>1, <3>3 DEF SlotOK, MustEnd, Guarded
    <3>4. QED BY <3>2, <3>3
  <2>2. QED BY <2>1 DEF RgdInv, SlotsOK
<1>3. Effects(Page, u, revs) = IF moved THEN OverlayEffect(p4, u, k) ELSE p4
  BY DEF Effects
<1>4. ~moved => {"count", "diff", "overlay"} \subseteq D0
  BY DEF Guarded
<1>5. ~tabbed => "instances" \in D0
  OBVIOUS
<1>6. ~tabbed => ~moved
  OBVIOUS
<1> HIDE DEF tab, moved, tabbed
<1>7. SlotsOK(p1, D1, u.rgd, tab, k)
  <2>1. CASE moved
    <3>1. SlotsOK(RgdEffect(Page, u), D0 \cup {"rgd"}, u.rgd, tab, k)
      BY <1>1, <1>2, RgdEffectOK
    <3>2. D0 \cup {"rgd"} = D0
      OBVIOUS
    <3>3. QED BY <1>1, <2>1, <3>1, <3>2, CountEffectOK
  <2>2. CASE ~moved
    <3>1. D1 = D0
      BY <1>4, <2>2
    <3>2. QED BY <1>2, <2>2, <3>1
  <2>3. QED BY <2>1, <2>2
<1> HIDE DEF p1
<1>8. SlotsOK(p2, D2, u.rgd, tab, k)
  <2>1. SlotsOK(DiffEffect(p1, u, revs), D2, u.rgd, tab, k)
    BY <1>1, <1>7, DiffEffectOK
  <2>2. CASE tabbed \/ revs # hasRevisions
    BY <2>1, <2>2
  <2>3. CASE ~(tabbed \/ revs # hasRevisions)
    <3>1. D2 = D1
      BY <1>4, <1>6, <2>3
    <3>2. QED BY <1>7, <2>3, <3>1
  <2>4. QED BY <2>2, <2>3
<1> HIDE DEF p2
<1>9. SlotsOK(p3, D3, u.rgd, tab, k)
  <2>1. SlotsOK(InstancesEffect(p2, u, revs), D2 \cup {"instances", "all"}, u.rgd, tab, k)
    BY <1>1, <1>8, InstancesEffectOK DEF tab
  <2>2. D2 \cup {"instances", "all"} = D3
    OBVIOUS
  <2>3. CASE tabbed \/ u.ns # url.ns
    BY <2>1, <2>2, <2>3
  <2>4. CASE ~(tabbed \/ u.ns # url.ns)
    <3>1. D3 = D2
      BY <1>5, <2>4
    <3>2. QED BY <1>8, <2>4, <3>1
  <2>5. QED BY <2>3, <2>4
<1> HIDE DEF p3
<1>10. SlotsOK(p4, D3, u.rgd, tab, k)
  <2>1. SlotsOK(PickerEffect(p3, u, revs), D3 \cup {"picker"}, u.rgd, tab, k)
    BY <1>1, <1>9, PickerEffectOK
  <2>2. D3 \cup {"picker"} = D3
    OBVIOUS
  <2>3. QED BY <1>9, <2>1, <2>2
<1> HIDE DEF p4
<1>11. SlotsOK(OverlayEffect(p4, u, k), D3 \cup {"overlay"}, u.rgd, tab, k)
  BY <1>1, <1>10, OverlayEffectOK
<1>12. D3 \cup {"overlay"} = Slots /\ (~moved => D3 = Slots)
  BY <1>1, <1>4 DEF Slots
<1>13. QED BY <1>3, <1>10, <1>11, <1>12 DEF tab

\* A request that is answered, or fails, is no longer under way.
LEMMA DoneOK ==
  ASSUME RgdInv, NEW q \in flight
  PROVE  /\ q \in Requests /\ Done(q).slots = slots
         /\ q.slot \in Guarded => q.live /\ q.of.rgd = url.rgd
         /\ SlotsOK(Done(q), Slots \ {q.slot}, url.rgd, activeTab, overlayKey)
         /\ q.slot \in Guarded => \A p \in Done(q).flight : p.slot = q.slot => p.of.rgd = url.rgd
<1>1. /\ Page \in PageType /\ flight \subseteq Requests /\ q \in Requests
      /\ \A p \in flight : p.slot \in Guarded => p.live
      /\ \A s \in Slots : SlotOK(Page, s, url.rgd, activeTab, overlayKey)
  BY DEF RgdInv, SlotsOK, Abortable, Page, PageType
<1>2. Done(q) = [slots |-> slots, flight |-> flight \ {q}] /\ Page = [slots |-> slots, flight |-> flight]
  BY DEF Done, Page
<1>3. q.slot \in Slots
  BY <1>1 DEF Requests
<1>4. \A p \in flight : p.slot \in Guarded => p.of.rgd = url.rgd
  BY <1>1, <1>2 DEF SlotOK, Requests
<1>5. Only(Page, Done(q), {q.slot})
  BY <1>1, <1>2 DEF Only, SameSlot, PageType
<1>6. SlotsOK(Done(q), Slots \ {q.slot}, url.rgd, activeTab, overlayKey)
  BY <1>1, <1>2, <1>5, OthersStay DEF RgdInv
<1>7. QED BY <1>1, <1>2, <1>4, <1>6


\* All slots together are the page.
LEMMA WholePage ==
  ASSUME NEW pg, NEW s \in Slots, NEW r, NEW tab, NEW k
  PROVE  /\ SlotsOK(pg, Slots \cup {s}, r, tab, k) => SlotsOK(pg, Slots, r, tab, k)
         /\ SlotsOK(pg, (Slots \ {s}) \cup {s}, r, tab, k) => SlotsOK(pg, Slots, r, tab, k)
BY DEF SlotsOK

\* The page opens with the invariant.
LEMMA FirstPage == RgdPageInit => RgdInv
<1> SUFFICES ASSUME RgdPageInit PROVE RgdInv
  OBVIOUS
<1>1. /\ url = [rgd |-> CHOOSE r \in RgdNames : TRUE, tab |-> "", ns |-> ""]
      /\ hasRevisions = FALSE /\ overlayKey = ""
      /\ slots = PickerEffect(CountEffect(RgdEffect(NoPage, url), url), url, FALSE).slots
      /\ flight = PickerEffect(CountEffect(RgdEffect(NoPage, url), url), url, FALSE).flight
  BY DEF RgdPageInit
<1>2. (CHOOSE r \in RgdNames : TRUE) \in RgdNames
  BY RgdPageAssumption DEF RgdPageAssumption
<1>3. url \in Addresses
  BY <1>1, <1>2 DEF Addresses, Tabs
<1>4. SlotsOK(NoPage, Slots, url.rgd, activeTab, "")
  <2>1. NoPage \in PageType /\ NoPage.flight = {}
    BY SubjectsAre DEF NoPage, PageType, SlotType
  <2>2. \A s \in Slots : ~NoPage.slots[s].busy /\ NoPage.slots[s].value = Nothing
    BY DEF NoPage
  <2>3. QED BY <2>1, <2>2 DEF SlotsOK, Abortable, SlotOK
<1> DEFINE pg1 == RgdEffect(NoPage, url)
           pg2 == CountEffect(pg1, url)
           pg3 == PickerEffect(pg2, url, FALSE)
<1>5. "rgd" \in Slots /\ "count" \in Slots /\ "picker" \in Slots
  BY DEF Slots
<1>6. SlotsOK(pg1, Slots \cup {"rgd"}, url.rgd, activeTab, "")
  BY <1>3, <1>4, RgdEffectOK
<1> HIDE DEF pg1
<1>7. SlotsOK(pg2, Slots \cup {"count"}, url.rgd, activeTab, "")
  BY <1>3, <1>5, <1>6, WholePage, CountEffectOK
<1> HIDE DEF pg2
<1>8. SlotsOK(pg3, Slots \cup {"picker"}, url.rgd, activeTab, "")
  BY <1>3, <1>5, <1>7, WholePage, PickerEffectOK
<1> HIDE DEF pg3
<1>9. SlotsOK(pg3, Slots, url.rgd, activeTab, "")
  BY <1>5, <1>8, WholePage
<1>10. SlotsOK(Page, Slots, url.rgd, activeTab, "")
  <2>1. Page = pg3
    BY <1>1, <1>9 DEF Page, SlotsOK, Abortable, PageType, pg1, pg2, pg3
  <2>2. QED BY <1>9, <2>1
<1>11. QED BY <1>1, <1>3, <1>10 DEF RgdInv

\* What an action makes of the page is the page.
LEMMA BecomesOK ==
  ASSUME NEW pg, NEW r, NEW tab, NEW k, SlotsOK(pg, Slots, r, tab, k), Becomes(pg)
  PROVE  SlotsOK(Page', Slots, r, tab, k)
<1>1. pg = Page'
  BY DEF Becomes, Page, SlotsOK, Abortable, PageType
<1>2. QED BY <1>1

\* A step that moves nothing and leaves every slot right.
LEMMA UserOK ==
  ASSUME RgdInv, NEW pg, User(pg), SlotsOK(pg, Slots, url.rgd, activeTab, overlayKey)
  PROVE  RgdInv'
<1>1. UNCHANGED <<url, hasRevisions, overlayKey, activeTab>> /\ Becomes(pg)
  BY DEF User, activeTab
<1>2. SlotsOK(Page', Slots, url.rgd, activeTab, overlayKey)
  BY <1>1, BecomesOK
<1>3. QED BY <1>1, <1>2 DEF RgdInv

\* A step that changes the address runs the effects of all slots.
LEMMA MoveOK ==
  ASSUME RgdInv, NEW u \in Addresses, Move(u)
  PROVE  RgdInv'
<1>1. url' = u /\ UNCHANGED <<hasRevisions, overlayKey>> /\ Becomes(Effects(Page, u, hasRevisions))
  BY DEF Move
<1>2. activeTab' = TabOf(u, hasRevisions)
  BY <1>1 DEF activeTab
<1>3. SlotsOK(Page', Slots, u.rgd, TabOf(u, hasRevisions), overlayKey)
  BY <1>1, EffectsOK, BecomesOK DEF RgdInv
<1>4. QED BY <1>1, <1>2, <1>3 DEF RgdInv

\* The address: another RGD, tab or namespace.
LEMMA AddressStep == RgdInv /\ (OpenRgd \/ setTab \/ handleNamespaceChange) => RgdInv'
<1> SUFFICES ASSUME RgdInv, OpenRgd \/ setTab \/ handleNamespaceChange
             PROVE  RgdInv'
  OBVIOUS
<1>1. url \in Addresses
  BY DEF RgdInv
<1>2. CASE OpenRgd
  BY <1>2, MoveOK DEF OpenRgd, Addresses, Tabs
<1>3. CASE setTab
  <2>1. PICK t \in Tabs : Move([url EXCEPT !.tab = t, !.ns = IF t = "" THEN url.ns ELSE ""])
    BY <1>3 DEF setTab
  <2>2. [url EXCEPT !.tab = t, !.ns = IF t = "" THEN url.ns ELSE ""] \in Addresses
    BY <1>1 DEF Addresses
  <2>3. QED BY <2>1, <2>2, MoveOK
<1>4. CASE handleNamespaceChange
  <2>1. PICK n \in NamespaceNames \cup {""} : Move([url EXCEPT !.tab = "instances", !.ns = n])
    BY <1>4 DEF handleNamespaceChange
  <2>2. [url EXCEPT !.tab = "instances", !.ns = n] \in Addresses
    BY <1>1 DEF Addresses, Tabs
  <2>3. QED BY <2>1, <2>2, MoveOK
<1>5. QED BY <1>2, <1>3, <1>4

\* Retries and the choices on the page.
LEMMA RetryStep ==
  ASSUME RgdInv, \/ fetchRGD \/ RetryInstances \/ handlePickerRetry \/ handleOverlaySelect
                 \/ handleOverlayRetry \/ capabilitiesArrive
  PROVE  RgdInv'
<1>1. /\ url \in Addresses /\ overlayKey \in InstanceNames \cup {""}
      /\ SlotsOK(Page, Slots, url.rgd, activeTab, overlayKey)
      /\ {"rgd", "instances", "picker"} \subseteq Slots \ Guarded /\ "overlay" \in Slots
  BY DEF RgdInv, Slots, Guarded
<1>2. /\ Nothing \in Subjects /\ Of(url.rgd, "", "") \in Subjects
      /\ Of(url.rgd, url.ns, "") \in Subjects
  BY <1>1, SubjectsAre DEF Addresses
<1>3. CASE fetchRGD
  <2>1. SlotsOK(RgdEffect(Page, url), Slots \cup {"rgd"}, url.rgd, activeTab, overlayKey)
    BY <1>1, RgdEffectOK
  <2>2. SlotsOK(RgdEffect(Page, url), Slots, url.rgd, activeTab, overlayKey)
    BY <1>1, <2>1, WholePage
  <2>3. QED BY <1>3, <2>2, UserOK DEF fetchRGD
<1>4. CASE RetryInstances
  <2> DEFINE asked == Ask(Page, "instances", Of(url.rgd, url.ns, ""), FALSE)
  <2>1. SlotsOK(asked, Slots \cup {"instances"}, url.rgd, activeTab, overlayKey)
    BY <1>1, <1>2, AskOK
  <2>2. User(asked)
    BY <1>4 DEF RetryInstances
  <2> HIDE DEF asked
  <2>3. QED BY <1>1, <2>1, <2>2, WholePage, UserOK
<1>5. CASE handlePickerRetry
  <2> DEFINE empty == Put(Page, "picker", Nothing, TRUE, FALSE)
  <2>1. SlotsOK(empty, Slots \cup {"picker"}, url.rgd, activeTab, overlayKey)
    BY <1>1, <1>2, PutOK DEF MustEnd
  <2>2. User(Ask(empty, "picker", Of(url.rgd, "", ""), FALSE))
    BY <1>5 DEF handlePickerRetry
  <2> HIDE DEF empty
  <2>3. SlotsOK(empty, Slots, url.rgd, activeTab, overlayKey)
    BY <1>1, <2>1, WholePage
  <2>4. SlotsOK(Ask(empty, "picker", Of(url.rgd, "", ""), FALSE), Slots \cup {"picker"},
                url.rgd, activeTab, overlayKey)
    BY <1>1, <1>2, <2>3, AskOK
  <2>5. QED BY <1>1, <2>2, <2>4, WholePage, UserOK
<1>6. CASE handleOverlaySelect
  <2>1. PICK k \in InstanceNames \cup {""} :
          overlayKey' = k /\ Becomes(OverlayEffect(Page, url, k)) /\ UNCHANGED <<url, hasRevisions>>
    BY <1>6 DEF handleOverlaySelect
  <2>2. SlotsOK(Page, Slots \ {"overlay"}, url.rgd, activeTab, k)
    <3>1. ASSUME NEW s \in Slots \ {"overlay"}
          PROVE  SlotOK(Page, s, url.rgd, activeTab, k)
      BY <1>1 DEF SlotsOK, SlotOK, MustEnd
    <3>2. QED BY <1>1, <3>1 DEF SlotsOK
  <2>3. SlotsOK(OverlayEffect(Page, url, k), Slots, url.rgd, activeTab, k)
    <3>1. SlotsOK(OverlayEffect(Page, url, k), (Slots \ {"overlay"}) \cup {"overlay"}, url.rgd, activeTab, k)
      BY <1>1, <2>2, OverlayEffectOK
    <3>2. QED BY <1>1, <3>1, WholePage
  <2>4. activeTab' = activeTab
    BY <2>1 DEF activeTab
  <2>5. QED BY <2>1, <2>3, <2>4, BecomesOK DEF RgdInv
<1>7. CASE handleOverlayRetry
  <2>1. SlotsOK(OverlayEffect(Page, url, overlayKey), Slots \cup {"overlay"}, url.rgd, activeTab, overlayKey)
    BY <1>1, OverlayEffectOK
  <2>2. SlotsOK(OverlayEffect(Page, url, overlayKey), Slots, url.rgd, activeTab, overlayKey)
    BY <1>1, <2>1, WholePage
  <2>3. QED BY <1>7, <2>2, UserOK DEF handleOverlayRetry
<1>8. CASE capabilitiesArrive
  <2>1. /\ hasRevisions' = TRUE /\ Becomes(Effects(Page, url, TRUE)) /\ UNCHANGED <<url, overlayKey>>
        /\ activeTab' = TabOf(url, TRUE)
    BY <1>8 DEF capabilitiesArrive, activeTab
  <2>2. SlotsOK(Page', Slots, url.rgd, TabOf(url, TRUE), overlayKey)
    BY <1>1, <2>1, EffectsOK, BecomesOK
  <2>3. QED BY <2>1, <2>2 DEF RgdInv
<1>9. QED BY <1>3, <1>4, <1>5, <1>6, <1>7, <1>8

\* An answer, and a failure, fill the slot that asked.
LEMMA FilledOK ==
  ASSUME RgdInv, NEW q \in flight, NEW value \in Subjects, NEW failed \in BOOLEAN,
         q.slot \in Guarded => value = Nothing \/ value.rgd = url.rgd
  PROVE  SlotsOK(Put(Done(q), q.slot, value, FALSE, failed), Slots, url.rgd, activeTab, overlayKey)
<1> DEFINE filled == Put(Done(q), q.slot, value, FALSE, failed)
<1>1. /\ q.slot \in Slots
      /\ SlotsOK(Done(q), Slots \ {q.slot}, url.rgd, activeTab, overlayKey)
      /\ q.slot \in Guarded => \A p \in Done(q).flight : p.slot = q.slot => p.of.rgd = url.rgd
  BY DoneOK DEF Requests
<1>2. SlotsOK(filled, (Slots \ {q.slot}) \cup {q.slot}, url.rgd, activeTab, overlayKey)
  BY <1>1, PutOK
<1> HIDE DEF filled
<1>3. SlotsOK(filled, Slots, url.rgd, activeTab, overlayKey)
  BY <1>1, <1>2, WholePage
<1>4. QED BY <1>3 DEF filled

\* The overlay's effect, once more on a page that is right.
LEMMA OverlayAgain ==
  ASSUME RgdInv, NEW pg, SlotsOK(pg, Slots, url.rgd, activeTab, overlayKey)
  PROVE  SlotsOK(OverlayEffect(pg, url, overlayKey), Slots, url.rgd, activeTab, overlayKey)
<1>1. "overlay" \in Slots
  BY DEF Slots
<1>2. SlotsOK(OverlayEffect(pg, url, overlayKey), Slots \cup {"overlay"}, url.rgd, activeTab, overlayKey)
  BY OverlayEffectOK DEF RgdInv
<1>3. QED BY <1>1, <1>2, WholePage

\* An answer settles the slot that it is for.
LEMMA AnswerStep ==
  ASSUME RgdInv, NEW q \in flight, Answered(q)
  PROVE  RgdInv'
<1> DEFINE got   == Put(Done(q), q.slot, q.of, FALSE, FALSE)
           empty == Put(Done(q), q.slot, Nothing, FALSE, FALSE)
           both  == Put(got, "all", q.of, FALSE, FALSE)
<1>1. /\ q.of \in Subjects /\ Nothing \in Subjects /\ "all" \in Slots \ Guarded
      /\ q.slot \in Guarded => q.of.rgd = url.rgd
  BY DoneOK, SubjectsAre DEF Requests, Slots, Guarded
<1>2. SlotsOK(got, Slots, url.rgd, activeTab, overlayKey)
  BY <1>1, FilledOK
<1>3. SlotsOK(empty, Slots, url.rgd, activeTab, overlayKey)
  BY <1>1, FilledOK
<1>4. User(got) \/ User(empty) \/ User(both) \/ User(OverlayEffect(got, url, overlayKey))
  BY DEF Answered
<1> HIDE DEF got, empty
<1>5. SlotsOK(both, Slots \cup {"all"}, url.rgd, activeTab, overlayKey)
  BY <1>1, <1>2, PutOK
<1>6. SlotsOK(both, Slots, url.rgd, activeTab, overlayKey)
  BY <1>1, <1>5, WholePage
<1> HIDE DEF both
<1>7. SlotsOK(OverlayEffect(got, url, overlayKey), Slots, url.rgd, activeTab, overlayKey)
  BY <1>2, OverlayAgain
<1>8. QED BY <1>2, <1>3, <1>4, <1>6, <1>7, UserOK

\* So does a failure.
LEMMA FailureStep ==
  ASSUME RgdInv, NEW q \in flight, Failed(q)
  PROVE  RgdInv'
<1> DEFINE lost(failed) == Put(Done(q), q.slot, Nothing, FALSE, failed)
           kept(failed) == Put(Done(q), q.slot, slots[q.slot].value, FALSE, failed)
<1>1. /\ q.slot \in Slots /\ (q.slot \in Guarded => q.live)
      /\ slots[q.slot].value \in Subjects /\ Nothing \in Subjects
  BY DoneOK, SubjectsAre DEF Requests, RgdInv, SlotsOK, Abortable, Page, PageType, SlotType
<1>2. \A failed \in BOOLEAN : SlotsOK(lost(failed), Slots, url.rgd, activeTab, overlayKey)
  BY <1>1, FilledOK
<1>3. q.slot \notin Guarded =>
        \A failed \in BOOLEAN : SlotsOK(kept(failed), Slots, url.rgd, activeTab, overlayKey)
  BY <1>1, FilledOK
<1>4. \/ \E failed \in BOOLEAN : User(lost(failed))
      \/ q.slot \notin Guarded /\ \E failed \in BOOLEAN : User(kept(failed))
      \/ User(OverlayEffect(lost(TRUE), url, overlayKey))
  BY <1>1 DEF Failed, Guarded
<1>5. SlotsOK(OverlayEffect(lost(TRUE), url, overlayKey), Slots, url.rgd, activeTab, overlayKey)
  BY <1>2, OverlayAgain
<1> HIDE DEF lost, kept
<1>6. QED BY <1>2, <1>3, <1>4, <1>5, UserOK

\* The inductive invariant of the page.
LEMMA RgdInvariant == RgdPageSpec => []RgdInv
<1>1. RgdInv /\ UNCHANGED rgdPageVars => RgdInv'
  BY DEF RgdInv, rgdPageVars, Page, activeTab
<1>2. RgdInv /\ RgdPageNext => RgdInv'
  BY AddressStep, RetryStep, AnswerStep, FailureStep DEF RgdPageNext
<1>3. QED BY <1>1, <1>2, FirstPage, PTL DEF RgdPageSpec

\* For any RGDs, namespaces and instances, and however often the address changes:
\* nothing on the page loads forever, and what is shown beside an RGD is its own.
THEOREM PageAlwaysSettles == RgdPageSpec => []PageSettles
<1>1. RgdInv => PageSettles
  <2> SUFFICES ASSUME RgdInv PROVE PageSettles
    OBVIOUS
  <2>1. \A s \in Slots : SlotOK(Page, s, url.rgd, activeTab, overlayKey)
    BY DEF RgdInv, SlotsOK
  <2>2. \A s : Asked(Page, s) <=> Waiting(s)
    BY DEF Asked, Waiting, Page
  <2>3. \A s \in Slots : MustEnd(s, activeTab, overlayKey) /\ slots[s].busy => Waiting(s)
    BY <2>1, <2>2 DEF SlotOK, Page
  <2>4. \A s : Section(s) = "loading" => slots[s].busy
    BY DEF Section
  <2>5. LoadingIsAwaited
    BY <2>3, <2>4 DEF LoadingIsAwaited, RgdPageShows, OverlayBarShows, MustEnd, Slots
  <2>6. GuardedSlotsSettle
    BY <2>1, <2>2 DEF GuardedSlotsSettle, SlotOK, Page, Guarded, Slots
  <2>7. QED BY <2>5, <2>6 DEF PageSettles
<1>2. QED BY <1>1, RgdInvariant, PTL

-----------------------------------------------------------------------------
(* Overview: what the header says of the last attempt.                     *)

AttemptIsKnown ==
    homeOn /\ ~isFetching =>
        /\ lastAttemptFailed <=> Fails(WidgetNames)
        /\ updated \/ lastAttemptFailed

HomeInv ==
    /\ homeOn \in BOOLEAN /\ isFetching \in BOOLEAN
    /\ lastAttemptFailed \in BOOLEAN /\ updated \in BOOLEAN
    /\ AttemptIsKnown

\* Five answers settle the attempt.
LEMMA SettledStep ==
  ASSUME HomeInv, NEW outcome \in Outcomes, AllSettled(outcome)
  PROVE  HomeInv'
<1>1. /\ homeOn' = TRUE /\ isFetching' = FALSE
      /\ lastAttemptFailed' = anyFailed(outcome)
      /\ updated' = (updated \/ ~anyFailed(outcome))
      /\ widgets' = [w \in WidgetNames |-> WidgetAfter(w, outcome)]
  BY DEF AllSettled, HomeInv
<1>2. Fails(WidgetNames)' <=> anyFailed(outcome)
  BY <1>1 DEF Fails, anyFailed, WidgetAfter
<1>3. anyFailed(outcome) \in BOOLEAN
  BY DEF anyFailed
<1>4. QED BY <1>1, <1>2, <1>3 DEF HomeInv, AttemptIsKnown

\* The inductive invariant of the Overview.
LEMMA HomeInvariant == OverviewSpec => []HomeInv
<1>1. OverviewInit => HomeInv
  BY DEF OverviewInit, HomeInv, AttemptIsKnown
<1>2. HomeInv /\ [OverviewNext]_overviewVars => HomeInv'
  <2> SUFFICES ASSUME HomeInv, [OverviewNext]_overviewVars PROVE HomeInv'
    OBVIOUS
  <2>1. CASE HomeMounts
    BY <2>1 DEF HomeMounts, HomeInv, AttemptIsKnown
  <2>2. CASE HomeUnmounts
    BY <2>2 DEF HomeUnmounts, HomeInv, AttemptIsKnown
  <2>3. CASE fetchAll
    BY <2>3 DEF fetchAll, HomeInv, AttemptIsKnown
  <2>4. CASE HomeAnswered
    BY <2>4, SettledStep DEF HomeAnswered
  <2>5. CASE toggleSubscription
    BY <2>5 DEF toggleSubscription, homeVars, HomeInv, AttemptIsKnown, Fails
  <2>6. CASE UNCHANGED overviewVars
    BY <2>6 DEF overviewVars, HomeInv, AttemptIsKnown, Fails
  <2>7. QED BY <2>1, <2>2, <2>3, <2>4, <2>5, <2>6 DEF OverviewNext
<1>3. QED BY <1>1, <1>2, PTL DEF OverviewSpec

\* For any instances and whatever fails, the header tells of the last attempt as the
\* widgets do.
THEOREM HeaderTellsTheAttempt == OverviewSpec => []StalenessIsTold
<1>1. HomeInv => StalenessIsTold
  BY DEF HomeInv, AttemptIsKnown, StalenessIsTold, HomeShows
<1>2. QED BY <1>1, HomeInvariant, PTL

-----------------------------------------------------------------------------
(* ChainView: RGDs nested in RGDs.                                         *)

Rgds == DOMAIN Chains \cup Missing

ChainTypeOK ==
    /\ path \in Seq(Rgds) /\ Len(path) > 0
    /\ panel \in [Panels -> [open : BOOLEAN, content : {"idle", "loading", "data", "error"}]]
    /\ loads \in [Panels -> Nat]

ChainInv == ChainTypeOK /\ UnfoldingEnds

\* A nested graph that opens is one level deeper, and in no cycle.
LEMMA ExpandStep ==
  ASSUME ChainInv, NEW level \in DOMAIN path, Expand(level)
  PROVE  ChainInv'
<1>1. PICK rgd \in ChainedFrom(path[level]) :
        ChainNodeShows(level, rgd).toggle /\ path' = SubSeq(path, 1, level) \o <<rgd>>
  BY DEF Expand
<1>2. /\ level \in 1..Len(path) /\ path \in Seq(Rgds) /\ Len(path) \in Nat
      /\ \A i \in 1..Len(path) : path[i] \in Rgds
  BY DEF ChainInv, ChainTypeOK
<1>3. rgd \in Rgds
  BY <1>1, <1>2, ChainAssumption DEF ChainedFrom, ChainAssumption, Rgds
<1>4. rgd \notin Ancestors(level) /\ level - 1 < MAX_DEPTH
  <2>1. ~(rgd \in Ancestors(level)) /\ ~(level - 1 >= MAX_DEPTH)
    BY <1>1 DEF ChainNodeShows
  <2>2. QED BY <1>2, <2>1 DEF MAX_DEPTH
<1>5. /\ path' \in Seq(Rgds) /\ Len(path') = level + 1 /\ path'[level + 1] = rgd
      /\ \A i \in 1..level : path'[i] = path[i]
  <2>1. /\ SubSeq(path, 1, level) \in Seq(Rgds) /\ Len(SubSeq(path, 1, level)) = level
        /\ \A i \in 1..level : SubSeq(path, 1, level)[i] = path[i]
    BY <1>2
  <2>2. <<rgd>> \in Seq(Rgds) /\ Len(<<rgd>>) = 1 /\ <<rgd>>[1] = rgd
    BY <1>3
  <2> DEFINE front == SubSeq(path, 1, level)
             last == <<rgd>>
  <2> HIDE DEF front, last
  <2>3. QED BY <1>1, <1>2, <2>1, <2>2 DEF front, last
<1>6. CyclesAreCut'
  <2>1. Len(path') <= MAX_DEPTH + 1
    BY <1>2, <1>4, <1>5 DEF MAX_DEPTH
  <2>2. ASSUME NEW i \in 1..(level + 1), NEW j \in 1..(level + 1), i < j, path'[i] = path'[j]
        PROVE  i > 1 /\ j = i + 1
    <3>1. CASE j <= level
      BY <1>2, <1>5, <2>2, <3>1 DEF ChainInv, UnfoldingEnds, CyclesAreCut
    <3>2. CASE j = level + 1
      <4>1. path[i] = rgd /\ i \in 1..level
        BY <1>2, <1>5, <2>2, <3>2
      <4>2. level # 1 /\ i \notin 1..(level - 1)
        BY <1>2, <1>4, <4>1 DEF Ancestors
      <4>3. QED BY <1>2, <3>2, <4>1, <4>2
    <3>3. QED BY <1>2, <2>2, <3>1, <3>2
  <2>3. DOMAIN path' = 1..(level + 1)
    BY <1>2, <1>5
  <2>4. QED BY <2>1, <2>2, <2>3 DEF CyclesAreCut
<1>7. UNCHANGED <<panel, loads>>
  BY DEF Expand
<1>8. QED BY <1>2, <1>5, <1>6, <1>7 DEF ChainInv, ChainTypeOK, UnfoldingEnds, LoadingPanelHasLoad

\* One that closes takes those inside with it.
LEMMA CollapseStep ==
  ASSUME ChainInv, NEW level \in DOMAIN path, Collapse(level)
  PROVE  ChainInv'
<1>1. /\ path' = SubSeq(path, 1, level) /\ level \in 1..Len(path) /\ path \in Seq(Rgds)
      /\ UNCHANGED <<panel, loads>>
  BY DEF Collapse, ChainInv, ChainTypeOK
<1>2. /\ path' \in Seq(Rgds) /\ Len(path') = level
      /\ \A i \in 1..level : path'[i] = path[i]
  BY <1>1
<1>3. CyclesAreCut'
  BY <1>1, <1>2 DEF ChainInv, UnfoldingEnds, CyclesAreCut, MAX_DEPTH
<1>4. QED BY <1>1, <1>2, <1>3 DEF ChainInv, ChainTypeOK, UnfoldingEnds, LoadingPanelHasLoad

\* A panel that is opened closes its siblings and leaves what they hold.
LEMMA NestedStep ==
  ASSUME ChainInv, NEW n \in Panels,
         \/ ClosePanel(n) \/ ReopenPanel(n) \/ OpenUncreated(n) \/ LoadPanel(n)
         \/ PanelLoaded(n) \/ RetryPanel(n) \/ ChildListed(n) \/ ChildGone(n)
  PROVE  ChainInv'
<1>1. UNCHANGED path
  BY DEF ClosePanel, ReopenPanel, OpenUncreated, LoadPanel, PanelLoaded, RetryPanel, ChildListed, ChildGone
<1>2. /\ panel \in [Panels -> [open : BOOLEAN, content : {"idle", "loading", "data", "error"}]]
      /\ loads \in [Panels -> Nat] /\ LoadingPanelHasLoad
  BY DEF ChainInv, ChainTypeOK, UnfoldingEnds
<1>3. \A m \in Panels : Closed(panel[m]) \in [open : BOOLEAN, content : {"idle", "loading", "data", "error"}]
                        /\ Closed(panel[m]).content = panel[m].content
  BY <1>2 DEF Closed
<1>4. \A c \in {"idle", "loading", "data", "error"} :
        Holds(c) \in [open : BOOLEAN, content : {"idle", "loading", "data", "error"}] /\ Holds(c).content = c
  BY DEF Holds
<1> SUFFICES ChainTypeOK' /\ LoadingPanelHasLoad'
  BY <1>1 DEF ChainInv, UnfoldingEnds, CyclesAreCut
<1>5. Len(path') > 0 /\ path' \in Seq(Rgds)
  BY <1>1 DEF ChainInv, ChainTypeOK
<1> USE DEF ChainTypeOK, LoadingPanelHasLoad
<1>6. CASE ClosePanel(n) \/ RetryPanel(n)
  BY <1>2, <1>3, <1>5, <1>6 DEF ClosePanel, RetryPanel
<1>7. CASE ReopenPanel(n) \/ OpenUncreated(n)
  <2>1. UNCHANGED loads /\ \E c \in {"data", "error"} : panel' = OpenAlone(n, Holds(c))
    BY <1>7 DEF ReopenPanel, OpenUncreated
  <2>2. PICK c \in {"data", "error"} : panel' = OpenAlone(n, Holds(c))
    BY <2>1
  <2>3. panel' = [m \in Panels |-> IF m = n THEN Holds(c) ELSE Closed(panel[m])]
    BY <2>2 DEF OpenAlone
  <2>4. panel' \in [Panels -> [open : BOOLEAN, content : {"idle", "loading", "data", "error"}]]
    BY <1>3, <1>4, <2>3
  <2>5. \A m \in Panels : panel'[m].content = IF m = n THEN c ELSE panel[m].content
    BY <1>3, <1>4, <2>3
  <2>6. QED BY <1>2, <1>5, <2>1, <2>4, <2>5
<1>8. CASE LoadPanel(n)
  BY <1>2, <1>3, <1>4, <1>5, <1>8 DEF LoadPanel, OpenAlone
<1>9. CASE PanelLoaded(n)
  <2>1. PICK c \in {"data", "error"} : panel' = [panel EXCEPT ![n] = Holds(c)]
    BY <1>9 DEF PanelLoaded
  <2>2. loads' = [loads EXCEPT ![n] = @ - 1] /\ loads[n] > 0
    BY <1>9 DEF PanelLoaded
  <2>3. panel'[n].content = c /\ \A m \in Panels \ {n} : panel'[m] = panel[m] /\ loads'[m] = loads[m]
    BY <1>2, <1>4, <2>1, <2>2
  <2>4. QED BY <1>2, <1>4, <1>5, <2>1, <2>2, <2>3
<1>10. CASE ChildListed(n) \/ ChildGone(n)
  BY <1>2, <1>5, <1>10 DEF ChildListed, ChildGone
<1>11. QED BY <1>6, <1>7, <1>8, <1>9, <1>10

\* The inductive invariant of the nested graphs.
LEMMA ChainInvariant == ChainSpec => []ChainInv
<1>1. ChainInit => ChainInv
  BY ChainAssumption
     DEF ChainInit, ChainInv, ChainTypeOK, UnfoldingEnds, CyclesAreCut, LoadingPanelHasLoad, MAX_DEPTH,
         ChainAssumption, Rgds
<1>2. ChainInv /\ UNCHANGED chainVars => ChainInv'
  BY DEF ChainInv, ChainTypeOK, UnfoldingEnds, CyclesAreCut, LoadingPanelHasLoad, chainVars
<1>3. ChainInv /\ ChainNext => ChainInv'
  BY ExpandStep, CollapseStep, NestedStep DEF ChainNext
<1>4. QED BY <1>1, <1>2, <1>3, PTL DEF ChainSpec

\* For any RGDs, chained to each other in any way, and any panels.
THEOREM UnfoldingAlwaysEnds == ChainSpec => []UnfoldingEnds
BY ChainInvariant, PTL DEF ChainInv

(* Designer: a design, its YAML, and the design that is read from it.      *)

Texts == IdTexts \cup BodyTexts \cup RowTexts \cup RefTexts \cup Exprs
         \cup {"", "unquoted", "resource", "web", "field", "named", "named spec"}

SpecField   == [name : Texts, required : BOOLEAN, default : Texts]
StatusField == [name : Texts, expression : Texts]

ResourceForm ==
    [id : Texts, type : {"managed", "forEach", "externalRef"}, body : Texts, includeWhen : Texts,
     readyWhen : Seq(Texts), iterators : Seq(Texts), refName : Texts, labels : Seq(Texts)]

Designs == [specFields : Seq(SpecField), statusFields : Seq(StatusField), resources : Seq(ResourceForm)]

DesignTypeOK == design \in Designs

\* A row of a list, as it is imported.
ResourceBlock ==
    [id : Texts, section : {"externalRef", "template"}, body : Texts, forEach : Seq(Texts),
     includeWhen : Texts, readyWhen : Seq(Texts), name : Texts,
     selector : {<<>>} \cup {<<l>> : l \in Seq(Texts)}]

NoBlanks(rows) == \A i \in DOMAIN rows : rows[i] # ""

\* No row is empty where there is none.
LEMMA NothingIsBlank == NoBlanks(<<>>)
<1>1. <<>> \in Seq(Texts) /\ NoBlanks(<<>>)
    BY DEF NoBlanks
<1> QED BY <1>1

\* The rows that are generated have something typed in.
LEMMA RowsTyped ==
    ASSUME NEW rows \in Seq(Texts)
    PROVE  NonEmpty(rows) \in Seq(Texts) /\ NoBlanks(NonEmpty(rows))
<1> DEFINE kept == {i \in DOMAIN rows : rows[i] # ""}
<1>1. kept \in SUBSET DOMAIN rows
    OBVIOUS
<1>2. NonEmpty(rows) = Filter(rows, kept)
    BY DEF NonEmpty
<1>3. \A i \in kept : rows[i] # ""
    OBVIOUS
<1> HIDE DEF kept
<1>4. /\ Filter(rows, kept) \in Seq(Texts)
      /\ \A r \in DOMAIN Filter(rows, kept) : \E i \in kept : Filter(rows, kept)[r] = rows[i]
    BY <1>1, FilterPicks
<1> QED BY <1>2, <1>3, <1>4 DEF NoBlanks

\* Where all rows are filled in, all are generated.
LEMMA NoBlanksStay ==
    ASSUME NEW rows \in Seq(Texts), NoBlanks(rows)
    PROVE  NonEmpty(rows) = rows
<1>1. {i \in DOMAIN rows : rows[i] # ""} = DOMAIN rows
    BY DEF NoBlanks
<1>2. Filter(rows, DOMAIN rows) = rows
    BY FilterOfAll
<1> QED BY <1>1, <1>2 DEF NonEmpty

\* Without its quotes a text is empty only when it was.
LEMMA UnquotedText ==
    ASSUME NEW t \in Texts
    PROVE  Unquoted(t) \in Texts /\ (Unquoted(t) = "" <=> t = "")
BY DesignerAssumption DEF DesignerAssumption, Unquoted, Texts

\* The same for the rows of a list.
LEMMA UnquotedRowsTyped ==
    ASSUME NEW rows \in Seq(Texts)
    PROVE  UnquotedRows(rows) \in Seq(Texts) /\ (NoBlanks(rows) => NoBlanks(UnquotedRows(rows)))
<1>1. DOMAIN rows = 1..Len(rows) /\ Len(rows) \in Nat /\ \A i \in DOMAIN rows : rows[i] \in Texts
    OBVIOUS
<1>2. UnquotedRows(rows) = [i \in 1..Len(rows) |-> Unquoted(rows[i])]
    BY <1>1 DEF UnquotedRows
<1>3. \A i \in 1..Len(rows) : Unquoted(rows[i]) \in Texts /\ (Unquoted(rows[i]) = "" <=> rows[i] = "")
    BY <1>1, UnquotedText
<1>4. UnquotedRows(rows) \in [1..Len(rows) -> Texts]
    BY <1>2, <1>3
<1>5. UnquotedRows(rows) \in Seq(Texts)
    BY <1>1, <1>4
<1> QED BY <1>1, <1>2, <1>3, <1>5 DEF NoBlanks

\* What is generated for a resource.
LEMMA BlockTyped ==
    ASSUME NEW r \in ResourceForm
    PROVE  Block(r) \in ResourceBlock
<1>1. /\ OrElse(r.id, "resource") \in Texts /\ TemplateBody(r.body) \in Texts /\ r.includeWhen \in Texts
      /\ r.refName \in Texts /\ "" \in Texts
    BY DEF ResourceForm, Texts, OrElse, TemplateBody
<1>2. /\ NonEmpty(r.labels) \in Seq(Texts) /\ NonEmpty(r.iterators) \in Seq(Texts)
      /\ NonEmpty(r.readyWhen) \in Seq(Texts)
    BY RowsTyped DEF ResourceForm
<1>3. <<>> \in Seq(Texts)
    OBVIOUS
<1>4. ExternalRefBlock(r) \in ResourceBlock
    <2> DEFINE sel == IF BySelector(r) THEN <<NonEmpty(r.labels)>> ELSE <<>>
    <2>1. sel \in {<<>>} \cup {<<l>> : l \in Seq(Texts)}
        BY <1>2
    <2> HIDE DEF sel
    <2>2. [id |-> OrElse(r.id, "resource"), section |-> "externalRef", body |-> "",
           forEach |-> <<>>, includeWhen |-> "", readyWhen |-> <<>>, name |-> r.refName,
           selector |-> sel] \in ResourceBlock
        BY <1>1, <1>3, <2>1 DEF ResourceBlock
    <2> QED BY <2>2 DEF ExternalRefBlock, sel
<1>5. TemplateBlock(r) \in ResourceBlock
    <2> DEFINE each == IF r.type = "forEach" THEN NonEmpty(r.iterators) ELSE <<>>
    <2>1. each \in Seq(Texts)
        BY <1>2, <1>3
    <2> HIDE DEF each
    <2>2. [id |-> OrElse(r.id, "resource"), section |-> "template", body |-> TemplateBody(r.body),
           forEach |-> each, includeWhen |-> r.includeWhen, readyWhen |-> NonEmpty(r.readyWhen),
           name |-> "", selector |-> <<>>] \in ResourceBlock
        BY <1>1, <1>2, <2>1 DEF ResourceBlock
    <2> QED BY <2>2 DEF TemplateBlock, each
<1> QED BY <1>4, <1>5 DEF Block

\* What is read back from a block.
LEMMA ParsedTyped ==
    ASSUME NEW b \in ResourceBlock
    PROVE  ParsedResource(b) \in ResourceForm
<1>1. /\ b.id \in Texts /\ b.body \in Texts /\ b.name \in Texts /\ b.forEach \in Seq(Texts)
      /\ b.readyWhen \in Seq(Texts) /\ b.includeWhen \in Texts
      /\ b.selector \in {<<>>} \cup {<<l>> : l \in Seq(Texts)}
    BY DEF ResourceBlock
<1>2. Unquoted(b.includeWhen) \in Texts /\ UnquotedRows(b.readyWhen) \in Seq(Texts)
    BY <1>1, UnquotedText, UnquotedRowsTyped
<1>3. ResourceTypeOf(b) \in {"managed", "forEach", "externalRef"}
    BY DEF ResourceTypeOf
<1> DEFINE its == IF ResourceTypeOf(b) = "forEach" THEN b.forEach ELSE <<"">>
           labs == IF b.selector = <<>> THEN <<>> ELSE b.selector[1]
<1>4. its \in Seq(Texts)
    <2>1. <<"">> \in Seq(Texts)
        BY DEF Texts
    <2> QED BY <2>1, <1>1
<1>5. labs \in Seq(Texts)
    <2>1. CASE b.selector = <<>>
        BY <2>1
    <2>2. ASSUME b.selector # <<>> PROVE b.selector[1] \in Seq(Texts)
        <3>1. PICK l \in Seq(Texts) : b.selector = <<l>>
            BY <1>1, <2>2
        <3> QED BY <3>1
    <2> QED BY <2>1, <2>2
<1> HIDE DEF its, labs
<1>6. [id |-> b.id, type |-> ResourceTypeOf(b), body |-> b.body,
       includeWhen |-> Unquoted(b.includeWhen), readyWhen |-> UnquotedRows(b.readyWhen),
       iterators |-> its, refName |-> b.name, labels |-> labs] \in ResourceForm
    BY <1>1, <1>2, <1>3, <1>4, <1>5 DEF ResourceForm
<1> QED BY <1>6 DEF ParsedResource, its, labs

\* A selector without labels is dropped.
KeptSelector(se) == IF se = <<<<>>>> THEN <<>> ELSE se

SameFields(b, c) ==
    /\ b.id = c.id /\ b.section = c.section /\ b.body = c.body /\ b.forEach = c.forEach
    /\ b.includeWhen = c.includeWhen /\ b.readyWhen = c.readyWhen /\ b.name = c.name
    /\ b.selector = c.selector

\* Two blocks with the same fields are the same.
LEMMA SameBlock ==
    ASSUME NEW b \in ResourceBlock, NEW c \in ResourceBlock, SameFields(b, c)
    PROVE  b = c
BY DEF ResourceBlock, SameFields

\* The fields of a block without its quotes and its empty selector.
LEMMA NormalFields ==
    ASSUME NEW b \in ResourceBlock
    PROVE  /\ NormalBlock(b) \in ResourceBlock
           /\ NormalBlock(b).id = b.id /\ NormalBlock(b).section = b.section
           /\ NormalBlock(b).body = b.body /\ NormalBlock(b).forEach = b.forEach
           /\ NormalBlock(b).includeWhen = Unquoted(b.includeWhen)
           /\ NormalBlock(b).readyWhen = UnquotedRows(b.readyWhen)
           /\ NormalBlock(b).name = b.name
           /\ NormalBlock(b).selector = KeptSelector(b.selector)
<1> DEFINE w  == Unquoted(b.includeWhen)
           rw == UnquotedRows(b.readyWhen)
           se == KeptSelector(b.selector)
           c == [b EXCEPT !.includeWhen = w]
           d == [c EXCEPT !.readyWhen = rw]
           e == [d EXCEPT !.selector = se]
<1>1. w \in Texts /\ rw \in Seq(Texts) /\ se \in {<<>>} \cup {<<l>> : l \in Seq(Texts)}
    <2>1. b.includeWhen \in Texts /\ b.readyWhen \in Seq(Texts)
          /\ b.selector \in {<<>>} \cup {<<l>> : l \in Seq(Texts)}
        BY DEF ResourceBlock
    <2> QED BY <2>1, UnquotedText, UnquotedRowsTyped DEF KeptSelector
<1>2. NormalBlock(b) = [b EXCEPT !.includeWhen = w, !.readyWhen = rw, !.selector = se]
    BY DEF NormalBlock, KeptSelector
<1> HIDE DEF w, rw, se
<1>3. [b EXCEPT !.includeWhen = w, !.readyWhen = rw, !.selector = se] = e
    BY Zenon
<1>4. c \in ResourceBlock /\ c.id = b.id /\ c.section = b.section /\ c.body = b.body
      /\ c.forEach = b.forEach /\ c.includeWhen = w /\ c.readyWhen = b.readyWhen
      /\ c.name = b.name /\ c.selector = b.selector
    BY <1>1 DEF ResourceBlock
<1> HIDE DEF c
<1>5. d \in ResourceBlock /\ d.id = c.id /\ d.section = c.section /\ d.body = c.body
      /\ d.forEach = c.forEach /\ d.includeWhen = c.includeWhen /\ d.readyWhen = rw
      /\ d.name = c.name /\ d.selector = c.selector
    BY <1>1, <1>4 DEF ResourceBlock
<1> HIDE DEF d
<1>6. e \in ResourceBlock /\ e.id = d.id /\ e.section = d.section /\ e.body = d.body
      /\ e.forEach = d.forEach /\ e.includeWhen = d.includeWhen /\ e.readyWhen = d.readyWhen
      /\ e.name = d.name /\ e.selector = se
    BY <1>1, <1>5 DEF ResourceBlock
<1> HIDE DEF e
<1> QED BY <1>2, <1>3, <1>4, <1>5, <1>6 DEF w, rw, se

\* A template is read back to a resource that generates it again: its type is guessed
\* from the iterators that it has.
LEMMA TemplateSurvives ==
    ASSUME NEW r \in ResourceForm, r.type # "externalRef"
    PROVE  Block(ParsedResource(TemplateBlock(r))) = NormalBlock(TemplateBlock(r))
<1>0. r.type # "externalRef"
    OBVIOUS
<1> DEFINE each == IF r.type = "forEach" THEN NonEmpty(r.iterators) ELSE <<>>
           ready == NonEmpty(r.readyWhen)
           b == TemplateBlock(r)
           p == ParsedResource(b)
<1>1. /\ b.id = OrElse(r.id, "resource") /\ b.section = "template" /\ b.body = TemplateBody(r.body)
      /\ b.forEach = each /\ b.includeWhen = r.includeWhen /\ b.readyWhen = ready
      /\ b.name = "" /\ b.selector = <<>>
    BY DEF TemplateBlock
<1>2. /\ ready \in Seq(Texts) /\ NoBlanks(ready)
      /\ each \in Seq(Texts) /\ NoBlanks(each)
    <2>1. /\ NonEmpty(r.readyWhen) \in Seq(Texts) /\ NoBlanks(NonEmpty(r.readyWhen))
          /\ NonEmpty(r.iterators) \in Seq(Texts) /\ NoBlanks(NonEmpty(r.iterators))
        BY RowsTyped DEF ResourceForm
    <2>2. <<>> \in Seq(Texts) /\ NoBlanks(<<>>)
        BY DEF NoBlanks
    <2> QED BY <2>1, <2>2
<1>3. ResourceTypeOf(b) = IF each # <<>> THEN "forEach" ELSE "managed"
    BY <1>1 DEF ResourceTypeOf
<1>4. /\ p.id = b.id /\ p.type = ResourceTypeOf(b) /\ p.body = b.body
      /\ p.includeWhen = Unquoted(r.includeWhen) /\ p.readyWhen = UnquotedRows(ready)
      /\ p.iterators = IF ResourceTypeOf(b) = "forEach" THEN b.forEach ELSE <<"">>
    BY <1>1 DEF ParsedResource
<1>5. OrElse(p.id, "resource") = b.id
    BY <1>1, <1>4 DEF OrElse
<1>6. TemplateBody(p.body) = b.body
    BY <1>1, <1>4 DEF TemplateBody
<1>7. NonEmpty(p.readyWhen) = UnquotedRows(ready)
    <2>1. UnquotedRows(ready) \in Seq(Texts) /\ NoBlanks(UnquotedRows(ready))
        BY <1>2, UnquotedRowsTyped
    <2> QED BY <2>1, <1>4, NoBlanksStay
<1>8. (IF p.type = "forEach" THEN NonEmpty(p.iterators) ELSE <<>>) = each
    <2>1. NonEmpty(each) = each
        BY <1>2, NoBlanksStay
    <2> QED BY <2>1, <1>1, <1>3, <1>4
<1>9. Block(p) = TemplateBlock(p)
    BY <1>3, <1>4 DEF Block
<1>10. /\ TemplateBlock(p).id = b.id /\ TemplateBlock(p).section = "template"
       /\ TemplateBlock(p).body = b.body /\ TemplateBlock(p).forEach = each
       /\ TemplateBlock(p).includeWhen = Unquoted(r.includeWhen)
       /\ TemplateBlock(p).readyWhen = UnquotedRows(ready)
       /\ TemplateBlock(p).name = "" /\ TemplateBlock(p).selector = <<>>
    BY <1>4, <1>5, <1>6, <1>7, <1>8 DEF TemplateBlock
<1>11. b = Block(r)
    BY <1>0 DEF Block
<1>12. b \in ResourceBlock /\ Block(p) \in ResourceBlock
    BY <1>11, BlockTyped, ParsedTyped
<1>13. KeptSelector(<<>>) = <<>>
    BY DEF KeptSelector
<1> HIDE DEF b, p, each, ready
<1> DEFINE c == Block(p)
           n == NormalBlock(b)
<1>14. /\ n \in ResourceBlock
       /\ n.id = b.id /\ n.section = b.section /\ n.body = b.body /\ n.forEach = b.forEach
       /\ n.includeWhen = Unquoted(b.includeWhen) /\ n.readyWhen = UnquotedRows(b.readyWhen)
       /\ n.name = b.name /\ n.selector = KeptSelector(b.selector)
    BY <1>12, NormalFields
<1>15. /\ c \in ResourceBlock
       /\ c.id = b.id /\ c.section = "template" /\ c.body = b.body /\ c.forEach = each
       /\ c.includeWhen = Unquoted(r.includeWhen) /\ c.readyWhen = UnquotedRows(ready)
       /\ c.name = "" /\ c.selector = <<>>
    BY <1>9, <1>10, <1>12
<1> HIDE DEF c, n
<1>16. SameFields(c, n)
    BY <1>1, <1>13, <1>14, <1>15 DEF SameFields
<1>17. c = n
    BY <1>14, <1>15, <1>16, SameBlock
<1> QED BY <1>17 DEF b, p, c, n

\* A reference has no condition that could be quoted.
LEMMA NothingToUnquote ==
    Unquoted("") = "" /\ UnquotedRows(<<>>) = <<>>
<1>1. "" \in Texts
    BY DEF Texts
<1>2. Unquoted("") = ""
    BY <1>1, UnquotedText
<1>3. UnquotedRows(<<>>) = [i \in {} |-> Unquoted(<<>>[i])]
    BY DEF UnquotedRows
<1>4. [i \in {} |-> Unquoted(<<>>[i])] = <<>>
    OBVIOUS
<1> QED BY <1>2, <1>3, <1>4

\* A reference by name, or by a selector with labels, is read back; a selector whose rows
\* are all empty comes back as a reference without a name.
LEMMA ReferenceSurvives ==
    ASSUME NEW r \in ResourceForm, r.type = "externalRef"
    PROVE  Block(ParsedResource(ExternalRefBlock(r))) = NormalBlock(ExternalRefBlock(r))
<1>0. r.type = "externalRef"
    OBVIOUS
<1> DEFINE sel == IF BySelector(r) THEN <<NonEmpty(r.labels)>> ELSE <<>>
           b == ExternalRefBlock(r)
           p == ParsedResource(b)
           kept == KeptSelector(sel)
<1>1. /\ b.id = OrElse(r.id, "resource") /\ b.section = "externalRef"
      /\ b.includeWhen = "" /\ b.readyWhen = <<>>
      /\ b.name = r.refName /\ b.selector = sel
    BY DEF ExternalRefBlock
<1>2. NonEmpty(r.labels) \in Seq(Texts) /\ NoBlanks(NonEmpty(r.labels))
    BY RowsTyped DEF ResourceForm
<1>3. ResourceTypeOf(b) = "externalRef"
    BY <1>1 DEF ResourceTypeOf
<1>4. /\ p.id = b.id /\ p.type = "externalRef" /\ p.refName = r.refName
      /\ p.labels = IF b.selector = <<>> THEN <<>> ELSE b.selector[1]
    BY <1>1, <1>3 DEF ParsedResource
<1>5. OrElse(p.id, "resource") = b.id
    BY <1>1, <1>4 DEF OrElse
<1>6. (IF BySelector(p) THEN <<NonEmpty(p.labels)>> ELSE <<>>) = kept
    <2>1. CASE BySelector(r)
        <3>1. sel = <<NonEmpty(r.labels)>> /\ p.labels = NonEmpty(r.labels) /\ p.refName = ""
            <4> DEFINE l == NonEmpty(r.labels)
            <4>1. sel = <<l>> /\ b.selector = <<l>>
                BY <1>1, <2>1
            <4>2. <<l>> # <<>> /\ <<l>>[1] = l
                OBVIOUS
            <4>3. r.refName = ""
                BY <2>1 DEF BySelector
            <4> HIDE DEF l, sel, b, p
            <4> QED BY <1>4, <4>1, <4>2, <4>3 DEF l
        <3>2. NonEmpty(p.labels) = p.labels
            BY <1>2, <3>1, NoBlanksStay
        <3>3. CASE NonEmpty(r.labels) = <<>>
            BY <3>1, <3>3 DEF BySelector, KeptSelector
        <3>4. CASE NonEmpty(r.labels) # <<>>
            <4>1. sel # <<<<>>>>
                BY <3>1, <3>4
            <4> QED BY <3>1, <3>2, <3>4, <4>1 DEF BySelector, KeptSelector
        <3> QED BY <3>3, <3>4
    <2>2. CASE ~BySelector(r)
        <3>1. sel = <<>> /\ p.labels = <<>>
            BY <1>1, <1>4, <2>2
        <3> QED BY <3>1 DEF BySelector, KeptSelector
    <2> QED BY <2>1, <2>2
<1>7. Block(p) = ExternalRefBlock(p)
    BY <1>4 DEF Block
<1>8. /\ ExternalRefBlock(p).id = b.id /\ ExternalRefBlock(p).section = "externalRef"
      /\ ExternalRefBlock(p).body = "" /\ ExternalRefBlock(p).forEach = <<>>
      /\ ExternalRefBlock(p).includeWhen = "" /\ ExternalRefBlock(p).readyWhen = <<>>
      /\ ExternalRefBlock(p).name = r.refName /\ ExternalRefBlock(p).selector = kept
    BY <1>4, <1>5, <1>6 DEF ExternalRefBlock
<1>9. b.body = "" /\ b.forEach = <<>>
    BY DEF ExternalRefBlock
<1>10. Unquoted("") = "" /\ UnquotedRows(<<>>) = <<>>
    BY NothingToUnquote
<1>11. b = Block(r)
    BY <1>0 DEF Block
<1>12. b \in ResourceBlock /\ Block(p) \in ResourceBlock
    BY <1>11, BlockTyped, ParsedTyped
<1> HIDE DEF b, p, sel
<1> DEFINE c == Block(p)
           n == NormalBlock(b)
<1>13. /\ n \in ResourceBlock
       /\ n.id = b.id /\ n.section = b.section /\ n.body = b.body /\ n.forEach = b.forEach
       /\ n.includeWhen = Unquoted(b.includeWhen) /\ n.readyWhen = UnquotedRows(b.readyWhen)
       /\ n.name = b.name /\ n.selector = KeptSelector(b.selector)
    BY <1>12, NormalFields
<1>14. /\ c \in ResourceBlock
       /\ c.id = b.id /\ c.section = "externalRef" /\ c.body = "" /\ c.forEach = <<>>
       /\ c.includeWhen = "" /\ c.readyWhen = <<>> /\ c.name = r.refName
       /\ c.selector = KeptSelector(sel)
    BY <1>7, <1>8, <1>12
<1> HIDE DEF c, n
<1>15. SameFields(c, n)
    BY <1>1, <1>9, <1>10, <1>13, <1>14 DEF SameFields
<1>16. c = n
    BY <1>13, <1>14, <1>15, SameBlock
<1> QED BY <1>16 DEF b, p, c, n

\* What is generated for a resource is read back to one that generates the same, up to
\* quotes and an empty selector.
LEMMA BlockSurvives ==
    ASSUME NEW r \in ResourceForm
    PROVE  Block(ParsedResource(Block(r))) = NormalBlock(Block(r))
BY TemplateSurvives, ReferenceSurvives DEF Block

\* What can be typed into an input is a text.
LEMMA TypedTexts ==
    /\ IdTexts \cup {""} \subseteq Texts /\ BodyTexts \cup {""} \subseteq Texts
    /\ RowTexts \cup {""} \subseteq Texts /\ RefTexts \cup {""} \subseteq Texts
    /\ Exprs \cup {""} \subseteq Texts /\ "" \in Texts /\ "resource" \in Texts /\ "web" \in Texts
BY DEF Texts

\* The rows a list starts with, and a list with another empty row.
LEMMA RowLists ==
    /\ <<"">> \in Seq(Texts) /\ <<>> \in Seq(Texts)
    /\ \A rows \in Seq(Texts) : Append(rows, "") \in Seq(Texts)
<1> DEFINE blank == ""
<1>1. blank \in Texts
    BY TypedTexts
<1> HIDE DEF blank
<1>2. <<blank>> \in Seq(Texts) /\ <<>> \in Seq(Texts)
    BY <1>1
<1>3. \A rows \in Seq(Texts) : Append(rows, blank) \in Seq(Texts)
    BY <1>1
<1> QED BY <1>2, <1>3 DEF blank

\* What the parser sees of a block that comes from the cluster.
LEMMA SeenFields ==
    ASSUME NEW b \in ResourceBlock
    PROVE  LET c == SeenOfSorted(b)
           IN  /\ c \in ResourceBlock
               /\ c.id = b.id /\ c.section = "template" /\ c.body = b.body /\ c.forEach = <<>>
               /\ c.includeWhen = b.includeWhen /\ c.readyWhen = b.readyWhen
               /\ c.name = "" /\ c.selector = <<>>
<1> DEFINE c == [b EXCEPT !.section = "template"]
           d == [c EXCEPT !.forEach = <<>>]
           e == [d EXCEPT !.name = ""]
           g == [e EXCEPT !.selector = <<>>]
<1>1. "" \in Texts /\ <<>> \in Seq(Texts)
    BY RowLists, TypedTexts
<1>2. SeenOfSorted(b) = g
    BY Zenon DEF SeenOfSorted
<1>3. /\ c \in ResourceBlock /\ c.section = "template"
      /\ c.id = b.id /\ c.body = b.body /\ c.includeWhen = b.includeWhen /\ c.readyWhen = b.readyWhen
    BY DEF ResourceBlock
<1> HIDE DEF c
<1>4. /\ d \in ResourceBlock /\ d.section = c.section /\ d.forEach = <<>>
      /\ d.id = c.id /\ d.body = c.body /\ d.includeWhen = c.includeWhen /\ d.readyWhen = c.readyWhen
    BY <1>1, <1>3 DEF ResourceBlock
<1> HIDE DEF d
<1>5. /\ e \in ResourceBlock /\ e.section = d.section /\ e.forEach = d.forEach /\ e.name = ""
      /\ e.id = d.id /\ e.body = d.body /\ e.includeWhen = d.includeWhen /\ e.readyWhen = d.readyWhen
    BY <1>1, <1>4 DEF ResourceBlock
<1> HIDE DEF e
<1>6. /\ g \in ResourceBlock /\ g.section = e.section /\ g.forEach = e.forEach /\ g.name = e.name
      /\ g.selector = <<>> /\ g.id = e.id /\ g.body = e.body
      /\ g.includeWhen = e.includeWhen /\ g.readyWhen = e.readyWhen
    BY <1>5 DEF ResourceBlock
<1> HIDE DEF g
<1> QED BY <1>2, <1>3, <1>4, <1>5, <1>6

\* A resource that comes from the cluster is managed, and has what was kept.
LEMMA ClusterKeeps ==
    ASSUME NEW r \in ResourceForm
    PROVE  /\ ParsedResource(SeenOfSorted(Block(r))) \in ResourceForm
           /\ KeptFromCluster(Block(r))
<1> DEFINE b == Block(r)
           c == SeenOfSorted(b)
           p == ParsedResource(c)
           back == Block(p)
<1>1. b \in ResourceBlock
    BY BlockTyped
<1>2. /\ b.id # "" /\ NoBlanks(b.readyWhen)
      /\ b.section = "template" =>
            /\ b.body = TemplateBody(r.body) /\ b.name = "" /\ b.selector = <<>>
    <2>1. CASE r.type = "externalRef"
        <3>1. /\ b.id = OrElse(r.id, "resource") /\ b.readyWhen = <<>> /\ b.section = "externalRef"
            BY <2>1 DEF Block, ExternalRefBlock
        <3> HIDE DEF b
        <3>2. NoBlanks(<<>>)
            BY NothingIsBlank
        <3>3. OrElse(r.id, "resource") # "" /\ "externalRef" # "template"
            BY DEF OrElse
        <3> QED BY <3>1, <3>2, <3>3
    <2>2. CASE r.type # "externalRef"
        <3>1. /\ b.id = OrElse(r.id, "resource") /\ b.readyWhen = NonEmpty(r.readyWhen)
              /\ b.body = TemplateBody(r.body) /\ b.name = "" /\ b.selector = <<>>
            BY <2>2 DEF Block, TemplateBlock
        <3>2. NoBlanks(NonEmpty(r.readyWhen))
            BY RowsTyped DEF ResourceForm
        <3> HIDE DEF b
        <3> QED BY <3>1, <3>2 DEF OrElse
    <2> QED BY <2>1, <2>2
<1> HIDE DEF b
<1>3. /\ c \in ResourceBlock
      /\ c.id = b.id /\ c.section = "template" /\ c.body = b.body /\ c.forEach = <<>>
      /\ c.includeWhen = b.includeWhen /\ c.readyWhen = b.readyWhen
      /\ c.name = "" /\ c.selector = <<>>
    BY <1>1, SeenFields
<1> HIDE DEF c
<1>4. p \in ResourceForm
    BY <1>3, ParsedTyped
<1>5. /\ p.id = b.id /\ p.type = "managed" /\ p.body = b.body
      /\ p.includeWhen = Unquoted(b.includeWhen) /\ p.readyWhen = UnquotedRows(b.readyWhen)
    BY <1>3 DEF ParsedResource, ResourceTypeOf
<1> HIDE DEF p
<1>6. OrElse(p.id, "resource") = b.id
    BY <1>2, <1>5 DEF OrElse
<1>7. NonEmpty(p.readyWhen) = UnquotedRows(b.readyWhen)
    <2>1. b.readyWhen \in Seq(Texts)
        BY <1>1 DEF ResourceBlock
    <2>2. UnquotedRows(b.readyWhen) \in Seq(Texts) /\ NoBlanks(UnquotedRows(b.readyWhen))
        BY <1>2, <2>1, UnquotedRowsTyped
    <2> QED BY <1>5, <2>2, NoBlanksStay
<1>8. /\ back.id = b.id /\ back.section = "template" /\ back.body = TemplateBody(b.body)
      /\ back.forEach = <<>> /\ back.includeWhen = Unquoted(b.includeWhen)
      /\ back.readyWhen = UnquotedRows(b.readyWhen) /\ back.name = "" /\ back.selector = <<>>
    BY <1>5, <1>6, <1>7 DEF Block, TemplateBlock
<1>9. back \in ResourceBlock
    BY <1>4, BlockTyped
<1> HIDE DEF back
<1>10. b.section = "template" => back.body = b.body
    BY <1>2, <1>8 DEF TemplateBody
<1>11. ASSUME b.section = "template", b.forEach = <<>> PROVE back = NormalBlock(b)
    <2> DEFINE n == NormalBlock(b)
    <2>1. /\ n \in ResourceBlock
          /\ n.id = b.id /\ n.section = b.section /\ n.body = b.body /\ n.forEach = b.forEach
          /\ n.includeWhen = Unquoted(b.includeWhen) /\ n.readyWhen = UnquotedRows(b.readyWhen)
          /\ n.name = b.name /\ n.selector = KeptSelector(b.selector)
        BY <1>1, NormalFields
    <2> HIDE DEF n
    <2>2. n.name = "" /\ n.selector = <<>>
        BY <1>2, <1>11, <2>1 DEF KeptSelector
    <2>3. SameFields(back, n)
        BY <1>8, <1>10, <1>11, <2>1, <2>2 DEF SameFields
    <2>4. back = n
        BY <1>9, <2>1, <2>3, SameBlock
    <2> QED BY <2>4 DEF n
<1>12. KeptFromCluster(b)
    <2>1. back = Block(ParsedResource(SeenOfSorted(b)))
        BY DEF back, p, c
    <2> QED BY <1>8, <1>10, <1>11, <2>1 DEF KeptFromCluster
<1> QED BY <1>4, <1>12 DEF p, c, b

EntryFields == {"id", "section", "forEach", "includeWhen", "readyWhen", "name", "selector"}

\* The labels of a selector as the graph has them.
ShownLabels(se) == IF se # <<>> THEN <<OneOfEachKey(se[1])>> ELSE se

\* The fields of a block, and of an entry of the preview.
LEMMA EntryHasFields ==
    ASSUME NEW b \in ResourceBlock,
           NEW e, e = [f \in EntryFields |-> e[f]],
           /\ e.id = b.id /\ e.section = b.section /\ e.forEach = b.forEach
           /\ e.includeWhen = b.includeWhen /\ e.readyWhen = b.readyWhen /\ e.name = b.name
           /\ e.selector = ShownLabels(b.selector)
    PROVE  e = ShownOfBlock(b)
<1> DEFINE shown(f) == IF f = "selector" /\ b.selector # <<>>
                       THEN <<OneOfEachKey(b.selector[1])>> ELSE b[f]
<1>1. DOMAIN b \ {"body"} = EntryFields
    BY DEF ResourceBlock, EntryFields
<1>2. ASSUME NEW f \in EntryFields PROVE e[f] = shown(f)
    <2>1. CASE f = "selector"
        BY <2>1 DEF ShownLabels
    <2>2. CASE f # "selector"
        <3>1. e[f] = b[f]
            BY <2>2 DEF EntryFields
        <3> QED BY <2>2, <3>1
    <2> QED BY <2>1, <2>2
<1>3. [f \in EntryFields |-> e[f]] = [f \in EntryFields |-> shown(f)]
    BY <1>2
<1>4. ShownOfBlock(b) = [f \in DOMAIN b \ {"body"} |-> shown(f)]
    BY Zenon DEF ShownOfBlock
<1> HIDE DEF shown
<1> QED BY <1>1, <1>3, <1>4, Zenon

\* The preview's entry of a resource with an id is what the graph shows of its block.
LEMMA EntryIsBlock ==
    ASSUME NEW r \in ResourceForm, r.id # ""
    PROVE  PreviewEntry(r) = ShownOfBlock(Block(r))
<1> DEFINE e == PreviewEntry(r)
           b == Block(r)
           sel == IF BySelector(r) THEN <<NonEmpty(r.labels)>> ELSE <<>>
           merged == IF BySelector(r) THEN <<OneOfEachKey(NonEmpty(r.labels))>> ELSE <<>>
           each == IF r.type = "forEach" THEN NonEmpty(r.iterators) ELSE <<>>
           ready == NonEmpty(r.readyWhen)
<1>1. OrElse(r.id, "resource") = r.id
    BY DEF OrElse
<1>2. b \in ResourceBlock
    BY BlockTyped
<1>3. e = [f \in EntryFields |-> e[f]]
    BY DEF PreviewEntry, EntryFields
<1>4. /\ e.id = b.id /\ e.section = b.section /\ e.forEach = b.forEach
      /\ e.includeWhen = b.includeWhen /\ e.readyWhen = b.readyWhen /\ e.name = b.name
      /\ e.selector = ShownLabels(b.selector)
    <2>0. merged = ShownLabels(sel)
        <3>1. CASE BySelector(r)
            <4> DEFINE l == NonEmpty(r.labels)
            <4>1. sel = <<l>> /\ merged = <<OneOfEachKey(l)>>
                BY <3>1
            <4> HIDE DEF l, sel, merged
            <4>2. sel # <<>> /\ sel[1] = l
                BY <4>1
            <4> QED BY <4>1, <4>2 DEF ShownLabels
        <3>2. CASE ~BySelector(r)
            BY <3>2 DEF ShownLabels
        <3> QED BY <3>1, <3>2
    <2>3. ShownLabels(<<>>) = <<>>
        BY DEF ShownLabels
    <2>1. CASE r.type = "externalRef"
        <3>1. e = [id |-> r.id, section |-> "externalRef", forEach |-> <<>>, includeWhen |-> "",
                   readyWhen |-> <<>>, name |-> r.refName, selector |-> merged]
            BY <2>1, Zenon DEF PreviewEntry
        <3>2. b = [id |-> r.id, section |-> "externalRef", body |-> "", forEach |-> <<>>,
                   includeWhen |-> "", readyWhen |-> <<>>, name |-> r.refName, selector |-> sel]
            BY <1>1, <2>1, Zenon DEF Block, ExternalRefBlock
        <3> HIDE DEF e, b, sel, merged
        <3> QED BY <2>0, <3>1, <3>2
    <2>2. CASE r.type # "externalRef"
        <3>1. e = [id |-> r.id, section |-> "template", forEach |-> each,
                   includeWhen |-> r.includeWhen, readyWhen |-> ready, name |-> "",
                   selector |-> <<>>]
            BY <2>2, Zenon DEF PreviewEntry
        <3>2. b = [id |-> r.id, section |-> "template", body |-> TemplateBody(r.body),
                   forEach |-> each, includeWhen |-> r.includeWhen, readyWhen |-> ready,
                   name |-> "", selector |-> <<>>]
            BY <1>1, <2>2, Zenon DEF Block, TemplateBlock
        <3> HIDE DEF e, b, each, ready
        <3> QED BY <2>3, <3>1, <3>2
    <2> QED BY <2>1, <2>2
<1> HIDE DEF e, b
<1>5. e = ShownOfBlock(b)
    BY <1>2, <1>3, <1>4, EntryHasFields
<1> QED BY <1>5 DEF e, b

SpecEntry(f) == [name |-> OrElse(f.name, "field"), type |-> buildSimpleSchemaStr(f)]

\* A field of the spec, through its YAML and back.
LEMMA FieldSurvives ==
    ASSUME NEW f \in SpecField
    PROVE  /\ parseSimpleSchemaStr(SpecEntry(f).name, SpecEntry(f).type) \in SpecField
           /\ SpecEntry(parseSimpleSchemaStr(SpecEntry(f).name, SpecEntry(f).type)) = SpecEntry(f)
<1> DEFINE e == SpecEntry(f)
           g == parseSimpleSchemaStr(e.name, e.type)
<1>1. e.name = OrElse(f.name, "field") /\ e.type.required = f.required
      /\ e.type.default = IF f.required THEN "" ELSE f.default
    BY DEF SpecEntry, buildSimpleSchemaStr
<1> DEFINE n == e.name
           dflt == IF f.required THEN "" ELSE f.default
<1>2. g = [name |-> n, required |-> f.required, default |-> dflt]
    BY <1>1 DEF parseSimpleSchemaStr
<1>3. n \in Texts /\ f.required \in BOOLEAN /\ dflt \in Texts
    BY <1>1 DEF SpecField, Texts, OrElse
<1>4. OrElse(n, "field") = n
    BY <1>1 DEF OrElse
<1>5. dflt = IF f.required THEN "" ELSE dflt
    OBVIOUS
<1>6. e = [name |-> n, type |-> [required |-> f.required, default |-> dflt]]
    BY DEF SpecEntry, buildSimpleSchemaStr
<1> HIDE DEF n, dflt, g, e
<1>7. g.name = n /\ g.required = f.required /\ g.default = dflt
    BY <1>2
<1>8. g \in SpecField
    BY <1>2, <1>3, Zenon DEF SpecField
<1>9. buildSimpleSchemaStr(g) = [required |-> f.required, default |-> dflt]
    BY <1>5, <1>7, Zenon DEF buildSimpleSchemaStr
<1>10. SpecEntry(g) = e
    BY <1>4, <1>6, <1>7, <1>9, Zenon DEF SpecEntry
<1> QED BY <1>8, <1>10 DEF g, e

\* All of them.
LEMMA SpecSurvives ==
    ASSUME NEW fs \in Seq(SpecField)
    PROVE  LET es == [i \in DOMAIN fs |-> SpecEntry(fs[i])]
               gs == [i \in DOMAIN es |-> parseSimpleSchemaStr(es[i].name, es[i].type)]
           IN  /\ gs \in Seq(SpecField)
               /\ [i \in DOMAIN gs |-> SpecEntry(gs[i])] = es
<1> DEFINE es == [i \in DOMAIN fs |-> SpecEntry(fs[i])]
           gs == [i \in DOMAIN es |-> parseSimpleSchemaStr(es[i].name, es[i].type)]
<1>1. DOMAIN fs = 1..Len(fs) /\ Len(fs) \in Nat /\ \A i \in DOMAIN fs : fs[i] \in SpecField
    OBVIOUS
<1>2. \A i \in 1..Len(fs) : gs[i] \in SpecField /\ SpecEntry(gs[i]) = es[i]
    BY <1>1, FieldSurvives
<1>3. DOMAIN es = 1..Len(fs) /\ DOMAIN gs = 1..Len(fs) /\ es = [i \in 1..Len(fs) |-> es[i]]
      /\ gs = [i \in 1..Len(fs) |-> gs[i]]
    BY <1>1
<1> HIDE DEF es, gs
<1>4. gs \in Seq(SpecField)
    <2>1. gs \in [1..Len(fs) -> SpecField]
        BY <1>2, <1>3
    <2> QED BY <1>1, <2>1
<1>5. [i \in DOMAIN gs |-> SpecEntry(gs[i])] = es
    BY <1>2, <1>3
<1> QED BY <1>4, <1>5 DEF es, gs

UnquotedField(f) == [f EXCEPT !.expression = Unquoted(@)]
CompleteOnly(fs) == \A i \in DOMAIN fs : fs[i].name # "" /\ fs[i].expression # ""

\* The status fields that are generated are complete.
LEMMA StatusKept ==
    ASSUME NEW fs \in Seq(StatusField)
    PROVE  /\ Filter(fs, Complete(fs)) \in Seq(StatusField)
           /\ CompleteOnly(Filter(fs, Complete(fs)))
<1> DEFINE kept == Complete(fs)
<1>1. kept \in SUBSET DOMAIN fs
    BY DEF Complete
<1>2. \A i \in kept : fs[i].name # "" /\ fs[i].expression # ""
    BY DEF Complete
<1> HIDE DEF kept
<1>3. /\ Filter(fs, kept) \in Seq(StatusField)
      /\ \A r \in DOMAIN Filter(fs, kept) : \E i \in kept : Filter(fs, kept)[r] = fs[i]
    <2> HIDE DEF StatusField
    <2> QED BY <1>1, FilterPicks
<1> QED BY <1>2, <1>3 DEF CompleteOnly, kept

\* Without its quotes an expression is still there: the next YAML drops no status field.
LEMMA StatusSurvives ==
    ASSUME NEW fs \in Seq(StatusField), CompleteOnly(fs)
    PROVE  LET gs == [i \in DOMAIN fs |-> UnquotedField(fs[i])]
           IN  /\ gs \in Seq(StatusField)
               /\ Filter(gs, Complete(gs)) = gs
<1> DEFINE gs == [i \in DOMAIN fs |-> UnquotedField(fs[i])]
<1>1. DOMAIN fs = 1..Len(fs) /\ Len(fs) \in Nat /\ \A i \in DOMAIN fs : fs[i] \in StatusField
    OBVIOUS
<1>2. ASSUME NEW f \in StatusField
      PROVE  /\ UnquotedField(f) \in StatusField /\ UnquotedField(f).name = f.name
             /\ UnquotedField(f).expression = "" <=> f.expression = ""
    <2>1. f.expression \in Texts /\ f.name \in Texts
        BY DEF StatusField
    <2>2. Unquoted(f.expression) \in Texts /\ (Unquoted(f.expression) = "" <=> f.expression = "")
        BY <2>1, UnquotedText
    <2> QED BY <2>1, <2>2 DEF UnquotedField, StatusField
<1>3. \A i \in 1..Len(fs) : gs[i] \in StatusField /\ gs[i].name # "" /\ gs[i].expression # ""
    BY <1>1, <1>2 DEF CompleteOnly
<1>4. DOMAIN gs = 1..Len(fs) /\ gs = [i \in 1..Len(fs) |-> gs[i]]
    BY <1>1
<1> HIDE DEF gs
<1>5. gs \in Seq(StatusField)
    <2>1. gs \in [1..Len(fs) -> StatusField]
        BY <1>3, <1>4
    <2> QED BY <1>1, <2>1
<1>6. Complete(gs) = DOMAIN gs
    BY <1>3, <1>4 DEF Complete
<1>7. Filter(gs, DOMAIN gs) = gs
    BY <1>5, FilterOfAll
<1> QED BY <1>5, <1>6, <1>7 DEF gs

\* Every resource, through its YAML and back.
LEMMA ResourcesSurvive ==
    ASSUME NEW rs \in Seq(ResourceForm)
    PROVE  LET bs == [i \in DOMAIN rs |-> Block(rs[i])]
               ps == [i \in DOMAIN bs |-> ParsedResource(bs[i])]
           IN  /\ ps \in Seq(ResourceForm)
               /\ [i \in DOMAIN ps |-> Block(ps[i])] = [i \in DOMAIN bs |-> NormalBlock(bs[i])]
<1> DEFINE bs == [i \in DOMAIN rs |-> Block(rs[i])]
           ps == [i \in DOMAIN bs |-> ParsedResource(bs[i])]
<1>1. DOMAIN rs = 1..Len(rs) /\ Len(rs) \in Nat /\ \A i \in DOMAIN rs : rs[i] \in ResourceForm
    OBVIOUS
<1>2. \A i \in 1..Len(rs) : ps[i] \in ResourceForm /\ Block(ps[i]) = NormalBlock(bs[i])
    BY <1>1, BlockTyped, ParsedTyped, BlockSurvives
<1>3. DOMAIN bs = 1..Len(rs) /\ DOMAIN ps = 1..Len(rs) /\ ps = [i \in 1..Len(rs) |-> ps[i]]
    BY <1>1
<1> HIDE DEF bs, ps
<1>4. ps \in Seq(ResourceForm)
    <2>1. ps \in [1..Len(rs) -> ResourceForm]
        BY <1>2, <1>3
    <2> QED BY <1>1, <2>1
<1>5. [i \in DOMAIN ps |-> Block(ps[i])] = [i \in DOMAIN bs |-> NormalBlock(bs[i])]
    BY <1>2, <1>3
<1> QED BY <1>4, <1>5 DEF bs, ps

\* Every design survives its YAML.
LEMMA DesignSurvives ==
    ASSUME NEW d \in Designs
    PROVE  /\ parseRGDYAML(generateRGDYAML(d)) \in Designs
           /\ generateRGDYAML(parseRGDYAML(generateRGDYAML(d))) = Normal(generateRGDYAML(d))
<1> DEFINE es == [i \in DOMAIN d.specFields |-> SpecEntry(d.specFields[i])]
           gs == [i \in DOMAIN es |-> parseSimpleSchemaStr(es[i].name, es[i].type)]
           ss == Filter(d.statusFields, Complete(d.statusFields))
           us == [i \in DOMAIN ss |-> UnquotedField(ss[i])]
           bs == [i \in DOMAIN d.resources |-> Block(d.resources[i])]
           ps == [i \in DOMAIN bs |-> ParsedResource(bs[i])]
           y == generateRGDYAML(d)
           q == parseRGDYAML(y)
<1>1. y = [spec |-> es, status |-> ss, resources |-> bs]
    BY DEF generateRGDYAML, SpecEntry
<1>2. gs \in Seq(SpecField) /\ [i \in DOMAIN gs |-> SpecEntry(gs[i])] = es
    BY SpecSurvives DEF Designs
<1>3. us \in Seq(StatusField) /\ Filter(us, Complete(us)) = us
    <2>1. ss \in Seq(StatusField) /\ CompleteOnly(ss)
        BY StatusKept DEF Designs
    <2> HIDE DEF ss
    <2> QED BY <2>1, StatusSurvives
<1>4. ps \in Seq(ResourceForm)
      /\ [i \in DOMAIN ps |-> Block(ps[i])] = [i \in DOMAIN bs |-> NormalBlock(bs[i])]
    BY ResourcesSurvive DEF Designs
<1> HIDE DEF es, ss, bs, y
<1>5. q = [specFields |-> gs, statusFields |-> us, resources |-> ps]
    BY <1>1 DEF parseRGDYAML, UnquotedField
<1>6. Normal(y) = [spec |-> es, status |-> us, resources |-> [i \in DOMAIN bs |-> NormalBlock(bs[i])]]
    BY <1>1 DEF Normal, UnquotedField
<1> HIDE DEF gs, us, ps, q
<1>7. q \in Designs
    BY <1>2, <1>3, <1>4, <1>5 DEF Designs
<1>8. generateRGDYAML(q) = [spec |-> es, status |-> us,
                            resources |-> [i \in DOMAIN bs |-> NormalBlock(bs[i])]]
    BY <1>2, <1>3, <1>4, <1>5 DEF generateRGDYAML, SpecEntry
<1> QED BY <1>6, <1>7, <1>8 DEF q, y

\* An order of entries holds each of them.
LEMMA OrderedEntries ==
    ASSUME NEW T, NEW es \in Seq(T), NEW s \in OrdersOf(es)
    PROVE  /\ s \in Seq(T) /\ DOMAIN s = DOMAIN es
           /\ \A i \in DOMAIN s : \E j \in DOMAIN es : s[i] = es[j]
<1>1. DOMAIN es = 1..Len(es) /\ Len(es) \in Nat /\ \A i \in DOMAIN es : es[i] \in T
    OBVIOUS
<1>2. s \in [DOMAIN es -> ToSet(es)] /\ ToSet(es) = {es[j] : j \in DOMAIN es}
    BY DEF OrdersOf, ToSet
<1>3. s \in [1..Len(es) -> T]
    BY <1>1, <1>2
<1>4. s \in Seq(T)
    BY <1>1, <1>3
<1> QED BY <1>2, <1>4

\* What is loaded from the cluster is a design, and has what is kept.
LEMMA ClusterDesign ==
    ASSUME NEW d \in Designs
    PROVE  /\ \A seen \in RePrints(generateRGDYAML(d)) : parseRGDYAML(seen) \in Designs
           /\ \A i \in DOMAIN generateRGDYAML(d).resources :
                 KeptFromCluster(generateRGDYAML(d).resources[i])
<1> DEFINE fs == d.specFields
           rs == d.resources
           es == [i \in DOMAIN fs |-> SpecEntry(fs[i])]
           ss == Filter(d.statusFields, Complete(d.statusFields))
           bs == [i \in DOMAIN rs |-> Block(rs[i])]
           cs == [i \in DOMAIN bs |-> SeenOfSorted(bs[i])]
           ps == [i \in DOMAIN cs |-> ParsedResource(cs[i])]
           y == generateRGDYAML(d)
<1>1. y = [spec |-> es, status |-> ss, resources |-> bs]
    BY DEF generateRGDYAML, SpecEntry
<1>2. /\ fs \in Seq(SpecField) /\ rs \in Seq(ResourceForm)
      /\ ss \in Seq(StatusField) /\ CompleteOnly(ss)
    BY StatusKept DEF Designs
<1>3. /\ DOMAIN fs = 1..Len(fs) /\ Len(fs) \in Nat /\ \A i \in DOMAIN fs : fs[i] \in SpecField
      /\ DOMAIN rs = 1..Len(rs) /\ Len(rs) \in Nat /\ \A i \in DOMAIN rs : rs[i] \in ResourceForm
    BY <1>2
<1> HIDE DEF fs, rs, ss, y
<1>4. ps \in Seq(ResourceForm)
    <2>1. \A i \in 1..Len(rs) : ps[i] \in ResourceForm
        BY <1>3, ClusterKeeps
    <2>2. DOMAIN ps = 1..Len(rs) /\ ps = [i \in 1..Len(rs) |-> ps[i]]
        BY <1>3
    <2> HIDE DEF ps
    <2>3. ps \in [1..Len(rs) -> ResourceForm]
        BY <2>1, <2>2
    <2> QED BY <1>3, <2>3
<1>5. \A i \in DOMAIN bs : KeptFromCluster(bs[i])
    BY <1>3, ClusterKeeps
<1>6. es \in Seq({SpecEntry(f) : f \in SpecField})
    <2>1. es \in [1..Len(fs) -> {SpecEntry(f) : f \in SpecField}]
        BY <1>3
    <2> QED BY <1>3, <2>1
<1> HIDE DEF es, bs, ps
<1>7. ASSUME NEW spec \in OrdersOf(es), NEW status \in OrdersOf(ss)
      PROVE  parseRGDYAML([spec |-> spec, status |-> status, resources |-> cs]) \in Designs
    <2> DEFINE gs == [i \in DOMAIN spec |-> parseSimpleSchemaStr(spec[i].name, spec[i].type)]
               us == [i \in DOMAIN status |-> UnquotedField(status[i])]
    <2>1. gs \in Seq(SpecField)
        <3>1. spec \in Seq({SpecEntry(f) : f \in SpecField})
            BY <1>6, OrderedEntries
        <3>2. DOMAIN spec = 1..Len(spec) /\ Len(spec) \in Nat
              /\ \A i \in DOMAIN spec : \E f \in SpecField : spec[i] = SpecEntry(f)
            BY <3>1
        <3>3. \A i \in 1..Len(spec) : parseSimpleSchemaStr(spec[i].name, spec[i].type) \in SpecField
            BY <3>2, FieldSurvives
        <3>4. gs \in [1..Len(spec) -> SpecField]
            BY <3>2, <3>3
        <3> QED BY <3>2, <3>4
    <2>2. us \in Seq(StatusField)
        <3>1. /\ status \in Seq(StatusField) /\ DOMAIN status = DOMAIN ss
              /\ \A i \in DOMAIN status : \E j \in DOMAIN ss : status[i] = ss[j]
            BY <1>2, OrderedEntries
        <3>2. CompleteOnly(status)
            BY <1>2, <3>1 DEF CompleteOnly
        <3> QED BY <3>1, <3>2, StatusSurvives
    <2> HIDE DEF gs, us
    <2>3. parseRGDYAML([spec |-> spec, status |-> status, resources |-> cs])
             = [specFields |-> gs, statusFields |-> us, resources |-> ps]
        <3> HIDE DEF cs
        <3> QED BY DEF parseRGDYAML, UnquotedField, gs, us, ps
    <2>4. [specFields |-> gs, statusFields |-> us, resources |-> ps] \in Designs
        BY <1>4, <2>1, <2>2 DEF Designs
    <2> QED BY <2>3, <2>4
<1>8. RePrints(y) = {[spec |-> spec, status |-> status, resources |-> cs] :
                        spec \in OrdersOf(es), status \in OrdersOf(ss)}
    BY <1>1 DEF RePrints
<1> HIDE DEF cs
<1>9. \A seen \in RePrints(y) : parseRGDYAML(seen) \in Designs
    BY <1>7, <1>8
<1>10. \A i \in DOMAIN y.resources : KeptFromCluster(y.resources[i])
    BY <1>1, <1>5
<1> QED BY <1>9, <1>10 DEF y

\* The preview shows the resources of the YAML that have an id.
LEMMA PreviewIsYaml ==
    ASSUME NEW d \in Designs
    PROVE  LET named == WithId(d.resources)
           IN  rgdAuthoringStateToSpec(d) = [i \in DOMAIN named |-> ShownOfBlock(Block(named[i]))]
<1> DEFINE rs == d.resources
           kept == {i \in DOMAIN rs : rs[i].id # ""}
           named == WithId(rs)
<1>1. rs \in Seq(ResourceForm)
    BY DEF Designs
<1>2. kept \in SUBSET DOMAIN rs
    OBVIOUS
<1>3. \A i \in kept : rs[i].id # ""
    OBVIOUS
<1>4. named = Filter(rs, kept)
    BY DEF WithId
<1> HIDE DEF rs, kept, named
<1>5. /\ Filter(rs, kept) \in Seq(ResourceForm)
      /\ \A r \in DOMAIN Filter(rs, kept) : \E i \in kept : Filter(rs, kept)[r] = rs[i]
    BY <1>1, <1>2, FilterPicks
<1>6. ASSUME NEW r \in DOMAIN named
      PROVE  PreviewEntry(named[r]) = ShownOfBlock(Block(named[r]))
    <2>1. PICK i \in kept : named[r] = rs[i]
        BY <1>4, <1>5
    <2>2. rs[i] \in ResourceForm
        <3>1. i \in DOMAIN rs
            BY <1>2
        <3> QED BY <3>1, <1>1
    <2>3. named[r] \in ResourceForm /\ named[r].id # ""
        BY <1>3, <2>1, <2>2
    <2> QED BY <2>3, EntryIsBlock
<1>7. [i \in DOMAIN named |-> PreviewEntry(named[i])] = [i \in DOMAIN named |-> ShownOfBlock(Block(named[i]))]
    BY <1>6
<1> QED BY <1>7 DEF rgdAuthoringStateToSpec, named, rs

\* A list with an element replaced.
LEMMA WithAnother ==
    ASSUME NEW T, NEW s \in Seq(T), NEW i \in DOMAIN s, NEW t \in T
    PROVE  [s EXCEPT ![i] = t] \in Seq(T)
OBVIOUS

\* A design with other spec fields is a design.
LEMMA FieldsReplaced ==
    ASSUME NEW d \in Designs, NEW fs \in Seq(SpecField)
    PROVE  [d EXCEPT !.specFields = fs] \in Designs
BY DEF Designs

\* The same for the status.
LEMMA StatusReplaced ==
    ASSUME NEW d \in Designs, NEW fs \in Seq(StatusField)
    PROVE  [d EXCEPT !.statusFields = fs] \in Designs
BY DEF Designs

\* The same for the resources.
LEMMA ResourcesReplaced ==
    ASSUME NEW d \in Designs, NEW rs \in Seq(ResourceForm)
    PROVE  [d EXCEPT !.resources = rs] \in Designs
BY DEF Designs

\* What the Add button adds.
LEMMA NewResourceTyped ==
    /\ makeNewResource \in ResourceForm
    /\ [makeNewResource EXCEPT !.id = "web"] \in ResourceForm
<1>1. <<"">> \in Seq(Texts) /\ <<>> \in Seq(Texts)
    BY RowLists
<1> QED BY <1>1, TypedTexts DEF makeNewResource, ResourceForm

\* The handlers of the spec fields.
LEMMA SpecFieldsStep ==
    ASSUME design \in Designs, addField \/ updateField \/ removeField
    PROVE  design' \in Designs
<1> DEFINE fs == design.specFields
<1>1. fs \in Seq(SpecField)
    BY DEF Designs
<1>2. CASE addField
    <2> DEFINE new == [name |-> "", required |-> FALSE, default |-> ""]
    <2>1. new \in SpecField
        BY TypedTexts DEF SpecField
    <2>2. design' = [design EXCEPT !.specFields = Append(fs, new)]
        BY <1>2 DEF addField
    <2> HIDE DEF new, fs
    <2>3. Append(fs, new) \in Seq(SpecField)
        BY <1>1, <2>1
    <2> QED BY <2>2, <2>3, FieldsReplaced
<1>3. CASE updateField
    <2>1. PICK i \in DOMAIN fs :
              \/ \E n \in IdTexts \cup {""} : design' = [design EXCEPT !.specFields[i].name = n]
              \/ design' = [design EXCEPT !.specFields[i].required = ~@]
              \/ \E t \in RowTexts \cup {""} : design' = [design EXCEPT !.specFields[i].default = t]
        BY <1>3 DEF updateField
    <2>2. fs[i] \in SpecField
        BY <1>1
    <2>3. ASSUME NEW f \in SpecField, design' = [design EXCEPT !.specFields = [fs EXCEPT ![i] = f]]
          PROVE  design' \in Designs
        <3>1. [fs EXCEPT ![i] = f] \in Seq(SpecField)
            BY <1>1, WithAnother
        <3> HIDE DEF fs
        <3> QED BY <2>3, <3>1, FieldsReplaced
    <2>4. ASSUME NEW n \in IdTexts \cup {""}, design' = [design EXCEPT !.specFields[i].name = n]
          PROVE  design' \in Designs
        <3>1. [fs[i] EXCEPT !.name = n] \in SpecField
            BY <2>2, TypedTexts DEF SpecField
        <3> QED BY <2>3, <2>4, <3>1
    <2>5. ASSUME design' = [design EXCEPT !.specFields[i].required = ~@]
          PROVE  design' \in Designs
        <3>1. [fs[i] EXCEPT !.required = ~@] \in SpecField
            BY <2>2 DEF SpecField
        <3> QED BY <2>3, <2>5, <3>1
    <2>6. ASSUME NEW t \in RowTexts \cup {""}, design' = [design EXCEPT !.specFields[i].default = t]
          PROVE  design' \in Designs
        <3>1. [fs[i] EXCEPT !.default = t] \in SpecField
            BY <2>2, TypedTexts DEF SpecField
        <3> QED BY <2>3, <2>6, <3>1
    <2> QED BY <2>1, <2>4, <2>5, <2>6
<1>4. CASE removeField
    <2>1. PICK i \in DOMAIN fs : design' = [design EXCEPT !.specFields = RemoveAt(fs, i)]
        BY <1>4 DEF removeField
    <2>2. RemoveAt(fs, i) \in Seq(SpecField)
        BY <1>1, OneRemoved
    <2> QED BY <2>1, <2>2, FieldsReplaced
<1> QED BY <1>2, <1>3, <1>4

\* The handlers of the status fields.
LEMMA StatusFieldsStep ==
    ASSUME design \in Designs, addStatusField \/ updateStatusField \/ removeStatusField
    PROVE  design' \in Designs
<1> DEFINE fs == design.statusFields
<1>1. fs \in Seq(StatusField)
    BY DEF Designs
<1>2. CASE addStatusField
    <2> DEFINE new == [name |-> "", expression |-> ""]
    <2>1. new \in StatusField
        BY TypedTexts DEF StatusField
    <2>2. design' = [design EXCEPT !.statusFields = Append(fs, new)]
        BY <1>2 DEF addStatusField
    <2> HIDE DEF new, fs
    <2>3. Append(fs, new) \in Seq(StatusField)
        BY <1>1, <2>1
    <2> QED BY <2>2, <2>3, StatusReplaced
<1>3. CASE updateStatusField
    <2>1. PICK i \in DOMAIN fs :
              \/ \E n \in IdTexts \cup {""} : design' = [design EXCEPT !.statusFields[i].name = n]
              \/ \E e \in Exprs \cup {""} : design' = [design EXCEPT !.statusFields[i].expression = e]
        BY <1>3 DEF updateStatusField
    <2>2. fs[i] \in StatusField
        BY <1>1
    <2>3. ASSUME NEW f \in StatusField, design' = [design EXCEPT !.statusFields = [fs EXCEPT ![i] = f]]
          PROVE  design' \in Designs
        <3>1. [fs EXCEPT ![i] = f] \in Seq(StatusField)
            BY <1>1, WithAnother
        <3> HIDE DEF fs
        <3> QED BY <2>3, <3>1, StatusReplaced
    <2>4. ASSUME NEW n \in IdTexts \cup {""}, design' = [design EXCEPT !.statusFields[i].name = n]
          PROVE  design' \in Designs
        <3>1. [fs[i] EXCEPT !.name = n] \in StatusField
            BY <2>2, TypedTexts DEF StatusField
        <3> QED BY <2>3, <2>4, <3>1
    <2>5. ASSUME NEW e \in Exprs \cup {""}, design' = [design EXCEPT !.statusFields[i].expression = e]
          PROVE  design' \in Designs
        <3>1. [fs[i] EXCEPT !.expression = e] \in StatusField
            BY <2>2, TypedTexts DEF StatusField
        <3> QED BY <2>3, <2>5, <3>1
    <2> QED BY <2>1, <2>4, <2>5
<1>4. CASE removeStatusField
    <2>1. PICK i \in DOMAIN fs : design' = [design EXCEPT !.statusFields = RemoveAt(fs, i)]
        BY <1>4 DEF removeStatusField
    <2>2. RemoveAt(fs, i) \in Seq(StatusField)
        BY <1>1, OneRemoved
    <2> QED BY <2>1, <2>2, StatusReplaced
<1> QED BY <1>2, <1>3, <1>4

\* A list of rows in which a row was added, typed into or taken away.
LEMMA RowsEdited ==
    ASSUME NEW rows \in Seq(Texts)
    PROVE  /\ Append(rows, "") \in Seq(Texts)
           /\ \A k \in DOMAIN rows, t \in Texts : [rows EXCEPT ![k] = t] \in Seq(Texts)
           /\ \A k \in DOMAIN rows : RemoveAt(rows, k) \in Seq(Texts)
<1>1. Append(rows, "") \in Seq(Texts)
    BY RowLists
<1>2. \A k \in DOMAIN rows, t \in Texts : [rows EXCEPT ![k] = t] \in Seq(Texts)
    BY WithAnother
<1>3. \A k \in DOMAIN rows : RemoveAt(rows, k) \in Seq(Texts)
    BY OneRemoved
<1> QED BY <1>1, <1>2, <1>3

\* A resource with one of its inputs changed.
LEMMA ResourceEdited ==
    ASSUME NEW r \in ResourceForm
    PROVE  /\ \A t \in Texts : /\ [r EXCEPT !.id = t] \in ResourceForm
                               /\ [r EXCEPT !.body = t] \in ResourceForm
                               /\ [r EXCEPT !.includeWhen = t] \in ResourceForm
                               /\ [r EXCEPT !.refName = t] \in ResourceForm
           /\ \A rows \in Seq(Texts) : /\ [r EXCEPT !.readyWhen = rows] \in ResourceForm
                                       /\ [r EXCEPT !.iterators = rows] \in ResourceForm
                                       /\ [r EXCEPT !.labels = rows] \in ResourceForm
           /\ \A rows \in Seq(Texts) : [r EXCEPT !.refName = "", !.labels = rows] \in ResourceForm
           /\ \A t \in {"managed", "forEach", "externalRef"} :
                 [r EXCEPT !.type = t, !.iterators = <<"">>, !.refName = "", !.labels = <<>>] \in ResourceForm
<1>1. \A t \in Texts : /\ [r EXCEPT !.id = t] \in ResourceForm
                       /\ [r EXCEPT !.body = t] \in ResourceForm
                       /\ [r EXCEPT !.includeWhen = t] \in ResourceForm
                       /\ [r EXCEPT !.refName = t] \in ResourceForm
    BY DEF ResourceForm
<1>2. \A rows \in Seq(Texts) : /\ [r EXCEPT !.readyWhen = rows] \in ResourceForm
                               /\ [r EXCEPT !.iterators = rows] \in ResourceForm
                               /\ [r EXCEPT !.labels = rows] \in ResourceForm
    BY DEF ResourceForm
<1>3. \A rows \in Seq(Texts) : [r EXCEPT !.refName = "", !.labels = rows] \in ResourceForm
    BY TypedTexts DEF ResourceForm
<1>4. \A t \in {"managed", "forEach", "externalRef"} :
         [r EXCEPT !.type = t, !.iterators = <<"">>, !.refName = "", !.labels = <<>>] \in ResourceForm
    <2>1. <<"">> \in Seq(Texts) /\ <<>> \in Seq(Texts)
        BY RowLists
    <2> QED BY <2>1, TypedTexts DEF ResourceForm
<1> QED BY <1>1, <1>2, <1>3, <1>4

\* A design with another resource in the place of one.
LEMMA BecomesTyped ==
    ASSUME design \in Designs, NEW i \in DOMAIN design.resources, NEW r \in ResourceForm,
           BecomesResource(i, r)
    PROVE  design' \in Designs
<1> DEFINE rs == design.resources
<1>1. rs \in Seq(ResourceForm)
    BY DEF Designs
<1>2. design' = [design EXCEPT !.resources = [rs EXCEPT ![i] = r]]
    BY DEF BecomesResource
<1>3. [rs EXCEPT ![i] = r] \in Seq(ResourceForm)
    BY <1>1, WithAnother
<1> HIDE DEF rs
<1> QED BY <1>2, <1>3, ResourcesReplaced

\* The inputs, the type selector and the switch of a reference.
LEMMA InputsStep ==
    ASSUME design \in Designs, NEW i \in DOMAIN design.resources, NEW r \in ResourceForm,
           updateResource(i, r) \/ changeResourceType(i, r) \/ SwitchReference(i, r)
    PROVE  design' \in Designs
<1>1. CASE updateResource(i, r)
    <2>1. PICK q :
             /\ BecomesResource(i, q)
             /\ \E t \in Texts : \/ q = [r EXCEPT !.id = t]
                                 \/ q = [r EXCEPT !.body = t]
                                 \/ q = [r EXCEPT !.includeWhen = t]
                                 \/ q = [r EXCEPT !.refName = t]
        BY <1>1, TypedTexts, Zenon DEF updateResource
    <2>2. q \in ResourceForm
        BY <2>1, ResourceEdited
    <2> QED BY <2>1, <2>2, BecomesTyped
<1>2. CASE changeResourceType(i, r)
    <2>1. PICK t \in {"managed", "forEach", "externalRef"} :
             BecomesResource(i, [r EXCEPT !.type = t, !.iterators = <<"">>, !.refName = "", !.labels = <<>>])
        BY <1>2 DEF changeResourceType
    <2>2. [r EXCEPT !.type = t, !.iterators = <<"">>, !.refName = "", !.labels = <<>>] \in ResourceForm
        BY ResourceEdited, Zenon
    <2> QED BY <2>1, <2>2, BecomesTyped, Zenon
<1>3. CASE SwitchReference(i, r)
    <2> DEFINE labs == IF r.labels = <<>> THEN <<"">> ELSE r.labels
    <2>1. <<>> \in Seq(Texts) /\ labs \in Seq(Texts)
        BY RowLists DEF ResourceForm
    <2>2. \/ BecomesResource(i, [r EXCEPT !.labels = <<>>])
          \/ BecomesResource(i, [r EXCEPT !.refName = "", !.labels = labs])
        BY <1>3 DEF SwitchReference
    <2> HIDE DEF labs
    <2>3. /\ [r EXCEPT !.labels = <<>>] \in ResourceForm
          /\ [r EXCEPT !.refName = "", !.labels = labs] \in ResourceForm
        BY <2>1, ResourceEdited, Zenon
    <2> QED BY <2>2, <2>3, BecomesTyped, Zenon
<1> QED BY <1>1, <1>2, <1>3

\* The handlers of the iterators.
LEMMA IteratorsStep ==
    ASSUME design \in Designs, NEW i \in DOMAIN design.resources, NEW r \in ResourceForm,
           addForEachIterator(i, r) \/ updateForEachIterator(i, r) \/ removeForEachIterator(i, r)
    PROVE  design' \in Designs
<1> DEFINE rows == r.iterators
<1>1. rows \in Seq(Texts)
    BY DEF ResourceForm
<1>2. IteratorsShow(r).rows \subseteq DOMAIN rows
    BY DEF IteratorsShow
<1>3. \E new \in Seq(Texts) : BecomesResource(i, [r EXCEPT !.iterators = new])
    <2>1. CASE addForEachIterator(i, r)
        <3>1. BecomesResource(i, [r EXCEPT !.iterators = Append(rows, "")])
            BY <2>1 DEF addForEachIterator
        <3> QED BY <3>1, <1>1, RowsEdited, Zenon
    <2>2. CASE updateForEachIterator(i, r)
        <3>1. PICK k \in DOMAIN rows, t \in Texts : BecomesResource(i, [r EXCEPT !.iterators[k] = t])
            BY <2>2, <1>2, TypedTexts, Zenon DEF updateForEachIterator
        <3>2. [rows EXCEPT ![k] = t] \in Seq(Texts)
            BY <1>1, RowsEdited, Zenon
        <3>3. BecomesResource(i, [r EXCEPT !.iterators = [rows EXCEPT ![k] = t]])
            BY <3>1
        <3> QED BY <3>2, <3>3, Zenon
    <2>3. CASE removeForEachIterator(i, r)
        <3>1. PICK k \in DOMAIN rows : BecomesResource(i, [r EXCEPT !.iterators = RemoveAt(rows, k)])
            BY <2>3, <1>2 DEF removeForEachIterator
        <3>2. RemoveAt(rows, k) \in Seq(Texts)
            BY <1>1, RowsEdited, Zenon
        <3> QED BY <3>1, <3>2, Zenon
    <2> QED BY <2>1, <2>2, <2>3
<1>4. PICK new \in Seq(Texts) : BecomesResource(i, [r EXCEPT !.iterators = new])
    BY <1>3
<1>5. [r EXCEPT !.iterators = new] \in ResourceForm
    BY ResourceEdited, Zenon
<1> QED BY <1>4, <1>5, BecomesTyped, Zenon

\* The handlers of the readiness conditions.
LEMMA ReadyWhenStep ==
    ASSUME design \in Designs, NEW i \in DOMAIN design.resources, NEW r \in ResourceForm,
           addReadyWhen(i, r) \/ updateReadyWhen(i, r) \/ removeReadyWhen(i, r)
    PROVE  design' \in Designs
<1> DEFINE rows == r.readyWhen
<1>1. rows \in Seq(Texts)
    BY DEF ResourceForm
<1>2. \E new \in Seq(Texts) : BecomesResource(i, [r EXCEPT !.readyWhen = new])
    <2>1. CASE addReadyWhen(i, r)
        <3>1. BecomesResource(i, [r EXCEPT !.readyWhen = Append(rows, "")])
            BY <2>1 DEF addReadyWhen
        <3> QED BY <3>1, <1>1, RowsEdited, Zenon
    <2>2. CASE updateReadyWhen(i, r)
        <3>1. PICK k \in DOMAIN rows, t \in Texts : BecomesResource(i, [r EXCEPT !.readyWhen[k] = t])
            BY <2>2, TypedTexts, Zenon DEF updateReadyWhen
        <3>2. [rows EXCEPT ![k] = t] \in Seq(Texts)
            BY <1>1, RowsEdited, Zenon
        <3>3. BecomesResource(i, [r EXCEPT !.readyWhen = [rows EXCEPT ![k] = t]])
            BY <3>1
        <3> QED BY <3>2, <3>3, Zenon
    <2>3. CASE removeReadyWhen(i, r)
        <3>1. PICK k \in DOMAIN rows : BecomesResource(i, [r EXCEPT !.readyWhen = RemoveAt(rows, k)])
            BY <2>3 DEF removeReadyWhen
        <3>2. RemoveAt(rows, k) \in Seq(Texts)
            BY <1>1, RowsEdited, Zenon
        <3> QED BY <3>1, <3>2, Zenon
    <2> QED BY <2>1, <2>2, <2>3
<1>3. PICK new \in Seq(Texts) : BecomesResource(i, [r EXCEPT !.readyWhen = new])
    BY <1>2
<1>4. [r EXCEPT !.readyWhen = new] \in ResourceForm
    BY ResourceEdited, Zenon
<1> QED BY <1>3, <1>4, BecomesTyped, Zenon

\* The handlers of the labels of a selector.
LEMMA LabelsStep ==
    ASSUME design \in Designs, NEW i \in DOMAIN design.resources, NEW r \in ResourceForm,
           addSelectorLabel(i, r) \/ updateSelectorLabel(i, r) \/ removeSelectorLabel(i, r)
    PROVE  design' \in Designs
<1> DEFINE rows == r.labels
<1>1. rows \in Seq(Texts)
    BY DEF ResourceForm
<1>2. ExternalRefShows(r).labels \subseteq DOMAIN rows
    BY DEF ExternalRefShows
<1>3. \E new \in Seq(Texts) : BecomesResource(i, [r EXCEPT !.labels = new])
    <2>1. CASE addSelectorLabel(i, r)
        <3>1. BecomesResource(i, [r EXCEPT !.labels = Append(rows, "")])
            BY <2>1 DEF addSelectorLabel
        <3> QED BY <3>1, <1>1, RowsEdited, Zenon
    <2>2. CASE updateSelectorLabel(i, r)
        <3>1. PICK k \in DOMAIN rows, t \in Texts : BecomesResource(i, [r EXCEPT !.labels[k] = t])
            BY <2>2, <1>2, TypedTexts, Zenon DEF updateSelectorLabel
        <3>2. [rows EXCEPT ![k] = t] \in Seq(Texts)
            BY <1>1, RowsEdited, Zenon
        <3>3. BecomesResource(i, [r EXCEPT !.labels = [rows EXCEPT ![k] = t]])
            BY <3>1
        <3> QED BY <3>2, <3>3, Zenon
    <2>3. CASE removeSelectorLabel(i, r)
        <3>1. PICK k \in DOMAIN rows : BecomesResource(i, [r EXCEPT !.labels = RemoveAt(rows, k)])
            BY <2>3, <1>2 DEF removeSelectorLabel
        <3>2. RemoveAt(rows, k) \in Seq(Texts)
            BY <1>1, RowsEdited, Zenon
        <3> QED BY <3>1, <3>2, Zenon
    <2> QED BY <2>1, <2>2, <2>3
<1>4. PICK new \in Seq(Texts) : BecomesResource(i, [r EXCEPT !.labels = new])
    BY <1>3
<1>5. [r EXCEPT !.labels = new] \in ResourceForm
    BY ResourceEdited, Zenon
<1> QED BY <1>4, <1>5, BecomesTyped, Zenon

\* Every step of the designer leaves a design.
LEMMA DesignerStep ==
    ASSUME design \in Designs, [DesignerNext]_design
    PROVE  design' \in Designs
<1> DEFINE rs == design.resources
<1>1. rs \in Seq(ResourceForm)
    BY DEF Designs
<1>2. CASE addField \/ updateField \/ removeField
    BY <1>2, SpecFieldsStep
<1>3. CASE addStatusField \/ updateStatusField \/ removeStatusField
    BY <1>3, StatusFieldsStep
<1>4. CASE addResource
    <2>1. design' = [design EXCEPT !.resources = Append(rs, makeNewResource)]
        BY <1>4 DEF addResource
    <2> HIDE DEF rs
    <2>2. Append(rs, makeNewResource) \in Seq(ResourceForm)
        BY <1>1, NewResourceTyped
    <2> QED BY <2>1, <2>2, ResourcesReplaced
<1>5. CASE ImportOwnYaml
    BY <1>5, DesignSurvives DEF ImportOwnYaml
<1>9. CASE ImportFromCluster
    <2>1. PICK seen \in RePrints(generateRGDYAML(design)) : design' = parseRGDYAML(seen)
        BY <1>9 DEF ImportFromCluster
    <2> QED BY <2>1, ClusterDesign
<1>6. ASSUME NEW i \in DOMAIN rs, removeResource(i)
      PROVE  design' \in Designs
    <2>1. design' = [design EXCEPT !.resources = RemoveAt(rs, i)]
        BY <1>6 DEF removeResource
    <2>2. RemoveAt(rs, i) \in Seq(ResourceForm)
        BY <1>1, OneRemoved
    <2> HIDE DEF rs
    <2> QED BY <2>1, <2>2, ResourcesReplaced
<1>7. ASSUME NEW i \in DOMAIN rs,
             \/ updateResource(i, rs[i]) \/ changeResourceType(i, rs[i])
             \/ addForEachIterator(i, rs[i]) \/ updateForEachIterator(i, rs[i])
             \/ removeForEachIterator(i, rs[i])
             \/ addReadyWhen(i, rs[i]) \/ updateReadyWhen(i, rs[i]) \/ removeReadyWhen(i, rs[i])
             \/ SwitchReference(i, rs[i])
             \/ addSelectorLabel(i, rs[i]) \/ updateSelectorLabel(i, rs[i])
             \/ removeSelectorLabel(i, rs[i])
      PROVE  design' \in Designs
    <2>1. rs[i] \in ResourceForm
        BY <1>1
    <2> QED BY <1>7, <2>1, InputsStep, IteratorsStep, ReadyWhenStep, LabelsStep, Zenon
<1>8. CASE UNCHANGED design
    BY <1>8
<1> QED BY <1>2, <1>3, <1>4, <1>5, <1>6, <1>7, <1>8, <1>9, Zenon DEF DesignerNext

\* For any texts and numbers of rows: whatever was built with the designer's handlers, its
\* YAML is read back to a design that generates the same YAML, up to quotes around
\* expressions and a selector without labels; loaded from the cluster it keeps what does
\* not iterate and refers to nothing; and the graph shows the resources of the YAML.
THEOREM DesignAlwaysSurvives == DesignerSpec => []ImportKeepsDesign
<1>1. DesignerInit => DesignTypeOK
    <2> DEFINE web == [makeNewResource EXCEPT !.id = "web"]
    <2>1. web \in ResourceForm
        BY NewResourceTyped
    <2> HIDE DEF web
    <2>2. <<web>> \in Seq(ResourceForm) /\ <<>> \in Seq(SpecField) /\ <<>> \in Seq(StatusField)
        BY <2>1
    <2>3. [specFields |-> <<>>, statusFields |-> <<>>, resources |-> <<web>>] \in Designs
        BY <2>2 DEF Designs
    <2> QED BY <2>3 DEF DesignerInit, STARTER_RGD_STATE, web, DesignTypeOK
<1>2. DesignTypeOK /\ [DesignerNext]_design => DesignTypeOK'
    BY DesignerStep DEF DesignTypeOK
<1>3. DesignTypeOK => ImportKeepsDesign
    BY DesignSurvives, ClusterDesign, PreviewIsYaml DEF ImportKeepsDesign, DesignTypeOK
<1> QED
    BY <1>1, <1>2, <1>3, PTL DEF DesignerSpec

-----------------------------------------------------------------------------
(* Dag: a list of resources without repeated ids makes a graph that hangs  *)
(* from its root. Without a circle every set of nodes has one whose        *)
(* parents are outside it, the one with most descendants: so Kahn's        *)
(* algorithm ends with all nodes, parents first, and one pass over that    *)
(* order puts every node below all its parents.                            *)

\* Where edges lead.
Heads(edges) == {e[2] : e \in edges}

\* There are no more of those than edges.
LEMMA HeadsAreFew ==
    ASSUME NEW edges, IsFiniteSet(edges)
    PROVE  IsFiniteSet(Heads(edges)) /\ Cardinality(Heads(edges)) <= Cardinality(edges)
<1> DEFINE f == [e \in edges |-> e[2]]
<1>1. f = [e \in edges |-> f[e]]
    OBVIOUS
<1>2. Heads(edges) = {f[e] : e \in edges}
    BY DEF Heads
<1> HIDE DEF f
<1> QED BY <1>1, <1>2, ImageIsFinite

ClosedUnder(edges, S) == \A e \in edges : e[1] \in S => e[2] \in S

\* The rounds of Reachable.
Search(from, edges, n, seen) ==
    seen = [round \in 0..n |-> IF round = 0 THEN from ELSE WithChildren(edges, seen[round - 1])]

\* The recursive definition of the search has a solution.
LEMMA SearchExists ==
    ASSUME NEW edges, NEW from, NEW n \in Nat
    PROVE  \E seen : Search(from, edges, n, seen)
<1> DEFINE S == SUBSET (from \cup Heads(edges))
           step == [i \in 1..n |-> [x \in S |-> WithChildren(edges, x)]]
<1>1. from \in S
    OBVIOUS
<1>2. \A x \in S : WithChildren(edges, x) \in S
    BY DEF WithChildren, Heads
<1>3. Steps(step, n, S)
    <2> HIDE DEF S
    <2> QED BY <1>2 DEF Steps
<1>4. PICK f : Iterates(f, step, n, from, S)
    <2> HIDE DEF S, step
    <2> QED BY <1>1, <1>3, IterationExists
<1>5. ASSUME NEW k \in 0..n
      PROVE  f[k] = IF k = 0 THEN from ELSE WithChildren(edges, f[k - 1])
    <2>1. CASE k = 0
        BY <2>1, <1>4 DEF Iterates
    <2>2. CASE k # 0
        <3>1. k \in 1..n /\ k - 1 \in 0..n
            BY <2>2
        <3>2. f[k - 1] \in S /\ f[k] = step[k][f[k - 1]]
            <4> HIDE DEF S, step
            <4> QED BY <3>1, <1>4 DEF Iterates
        <3> HIDE DEF S
        <3> QED BY <3>1, <3>2, <2>2
    <2> QED BY <2>1, <2>2
<1>6. f = [k \in 0..n |-> f[k]]
    <2> HIDE DEF S, step
    <2> QED BY <1>4 DEF Iterates
<1> HIDE DEF S, step
<1> QED BY <1>5, <1>6 DEF Search

\* Every round of the search finds a node more or was the last to find any.
LEMMA RoundsFind ==
    ASSUME NEW edges, IsFiniteSet(edges), NEW from, NEW n \in Nat, NEW seen,
           Search(from, edges, n, seen)
    PROVE  \A k \in 0..n :
              /\ from \subseteq seen[k] /\ seen[k] \subseteq from \cup Heads(edges)
              /\ ClosedUnder(edges, seen[k]) \/ Cardinality(seen[k] \ from) >= k
<1> DEFINE Found(k) ==
              /\ from \subseteq seen[k] /\ seen[k] \subseteq from \cup Heads(edges)
              /\ ClosedUnder(edges, seen[k]) \/ Cardinality(seen[k] \ from) >= k
           S == {k \in 0..n : Found(k)}
<1>1. seen[0] = from /\ \A k \in 0..(n - 1) : seen[k + 1] = WithChildren(edges, seen[k])
    <2>1. \A k \in 0..n : seen[k] = IF k = 0 THEN from ELSE WithChildren(edges, seen[k - 1])
        BY DEF Search
    <2>2. ASSUME NEW k \in 0..(n - 1) PROVE seen[k + 1] = WithChildren(edges, seen[k])
        <3>1. k + 1 \in 0..n /\ k + 1 # 0 /\ (k + 1) - 1 = k
            OBVIOUS
        <3> QED BY <2>1, <3>1
    <2>3. 0 \in 0..n
        OBVIOUS
    <2> QED BY <2>1, <2>2, <2>3
<1>2. IsFiniteSet(Heads(edges))
    BY HeadsAreFew
<1>3. 0 \in S
    <2>1. seen[0] \ from = {} /\ Cardinality({}) = 0
        BY <1>1, FS_EmptySet
    <2> QED BY <1>1, <2>1
<1>4. ASSUME NEW k \in 0..(n - 1), k \in S
      PROVE  k + 1 \in S
    <2>1. Found(k)
        BY <1>4
    <2> DEFINE new == seen[k + 1]
               old == seen[k]
    <2>2. new = old \cup {e[2] : e \in {f \in edges : f[1] \in old}}
        BY <1>1 DEF WithChildren
    <2>3. from \subseteq new /\ new \subseteq from \cup Heads(edges) /\ old \subseteq new
        BY <2>1, <2>2 DEF Heads
    <2>4. CASE ClosedUnder(edges, old)
        <3>1. new = old
            BY <2>2, <2>4 DEF ClosedUnder
        <3> QED BY <3>1, <2>3, <2>4
    <2>5. CASE ~ClosedUnder(edges, old)
        <3>1. PICK x \in new : x \notin old
            BY <2>2, <2>5 DEF ClosedUnder
        <3>2. IsFiniteSet(new \ from)
            <4>1. new \ from \subseteq Heads(edges)
                BY <2>3
            <4> QED BY <4>1, <1>2, FS_Subset
        <3>3. old \ from \subseteq new \ from /\ x \in new \ from /\ x \notin old \ from
            BY <2>1, <2>3, <3>1
        <3>4. /\ IsFiniteSet(old \ from)
              /\ Cardinality(old \ from) < Cardinality(new \ from)
              /\ Cardinality(old \ from) \in Nat /\ Cardinality(new \ from) \in Nat
            <4> HIDE DEF old, new
            <4> QED BY <3>2, <3>3, StrictSubset
        <3>5. Cardinality(old \ from) >= k
            BY <2>1, <2>5
        <3>6. Cardinality(new \ from) >= k + 1
            <4> HIDE DEF old, new
            <4> QED BY <3>4, <3>5
        <3> QED BY <3>6, <2>3
    <2> QED BY <2>4, <2>5
<1>5. 0..n \subseteq S
    <2> HIDE DEF S
    <2> QED BY <1>3, <1>4, UpTo
<1> QED BY <1>5

\* What the search reaches is the least set that holds its start and all children.
LEMMA ReachableIs ==
    ASSUME NEW edges, IsFiniteSet(edges), NEW from
    PROVE  /\ from \subseteq Reachable(from, edges)
           /\ ClosedUnder(edges, Reachable(from, edges))
           /\ \A S : from \subseteq S /\ ClosedUnder(edges, S) => Reachable(from, edges) \subseteq S
<1> DEFINE n == Cardinality(edges)
           seen == CHOOSE f : Search(from, edges, n, f)
<1>1. n \in Nat
    BY FS_CardinalityType
<1>2. Search(from, edges, n, seen)
    BY <1>1, SearchExists
<1>3. Reachable(from, edges) = seen[n]
    BY DEF Reachable, Search
<1> HIDE DEF seen
<1>4. n \in 0..n
    BY <1>1
<1>5. /\ from \subseteq seen[n] /\ seen[n] \subseteq from \cup Heads(edges)
      /\ ClosedUnder(edges, seen[n]) \/ Cardinality(seen[n] \ from) >= n
    BY <1>1, <1>2, <1>4, RoundsFind
<1>6. ClosedUnder(edges, seen[n])
    <2> SUFFICES ASSUME Cardinality(seen[n] \ from) >= n PROVE ClosedUnder(edges, seen[n])
        BY <1>5
    <2>1. IsFiniteSet(Heads(edges)) /\ Cardinality(Heads(edges)) <= n
        BY HeadsAreFew
    <2>2. seen[n] \ from \subseteq Heads(edges)
        BY <1>5
    <2>3. Cardinality(Heads(edges)) \in Nat /\ Cardinality(seen[n] \ from) \in Nat
        BY <2>1, <2>2, FS_CardinalityType, FS_Subset
    <2>4. Heads(edges) = seen[n] \ from
        <3> SUFFICES ASSUME Heads(edges) # seen[n] \ from PROVE FALSE
            OBVIOUS
        <3>1. Cardinality(seen[n] \ from) < Cardinality(Heads(edges))
            BY <2>1, <2>2, StrictSubset
        <3> QED BY <3>1, <2>1, <2>3, <1>1
    <2> QED BY <2>4 DEF ClosedUnder, Heads
<1>7. ASSUME NEW S, from \subseteq S, ClosedUnder(edges, S)
      PROVE  seen[n] \subseteq S
    <2> DEFINE T == {k \in 0..n : seen[k] \subseteq S}
    <2>1. seen[0] = from
        <3>1. 0 \in 0..n
            BY <1>1
        <3> QED BY <3>1, <1>2 DEF Search
    <2>2. 0 \in T
        BY <2>1, <1>7, <1>1
    <2>3. ASSUME NEW k \in 0..(n - 1), k \in T
          PROVE  k + 1 \in T
        <3>1. k + 1 \in 0..n /\ k + 1 # 0 /\ (k + 1) - 1 = k
            BY <1>1
        <3>2. seen[k + 1] = WithChildren(edges, seen[k])
            BY <1>2, <3>1 DEF Search
        <3>3. seen[k] \subseteq S
            BY <2>3
        <3>4. WithChildren(edges, seen[k]) \subseteq S
            BY <3>3, <1>7 DEF WithChildren, ClosedUnder
        <3> QED BY <3>1, <3>2, <3>4
    <2>4. 0..n \subseteq T
        <3> HIDE DEF T, n
        <3> QED BY <1>1, <2>2, <2>3, UpTo
    <2> QED BY <2>4, <1>4
<1> QED BY <1>3, <1>5, <1>6, <1>7

\* A graph whose nodes all have a parent, but for the root.
Rooted(N, E) ==
    /\ N \subseteq Nat /\ IsFiniteSet(N) /\ Root \in N
    /\ E \subseteq N \X N /\ IsFiniteSet(E)
    /\ \A e \in E : e[1] # e[2] /\ e[2] # Root
    /\ \A n \in N \ {Root} : \E e \in E : e[2] = n

NoCircle(N, E) == \A n \in N \ {Root} : n \notin Reachable(Children(E, n), E)

\* Who comes from a node comes from its parents, which do not come from themselves.
LEMMA FewerFollow ==
    ASSUME NEW N, NEW E, Rooted(N, E), NoCircle(N, E), NEW n \in N \ {Root}, NEW p \in Parents(E, n)
    PROVE  LET D(m) == Reachable(Children(E, m), E)
           IN  /\ D(p) \subseteq N /\ D(n) \subseteq D(p) /\ n \in D(p) /\ n \notin D(n)
<1> DEFINE D(m) == Reachable(Children(E, m), E)
<1>1. IsFiniteSet(E)
    BY DEF Rooted
<1>2. \A m : /\ Children(E, m) \subseteq D(m) /\ ClosedUnder(E, D(m))
             /\ \A S : Children(E, m) \subseteq S /\ ClosedUnder(E, S) => D(m) \subseteq S
    BY <1>1, ReachableIs
<1>3. n \in Children(E, p)
    BY DEF Children, Parents
<1>4. Children(E, p) \subseteq N /\ ClosedUnder(E, N)
    BY DEF Children, ClosedUnder, Rooted
<1>5. n \in D(p)
    BY <1>2, <1>3
<1>6. Children(E, n) \subseteq D(p)
    <2>1. \A c \in Children(E, n) : \E e \in E : e[1] = n /\ e[2] = c
        BY DEF Children
    <2>2. ClosedUnder(E, D(p))
        BY <1>2
    <2> HIDE DEF D
    <2> QED BY <2>1, <2>2, <1>5 DEF ClosedUnder
<1>7. n \notin D(n)
    BY DEF NoCircle
<1> HIDE DEF D
<1>8. D(p) \subseteq N /\ D(n) \subseteq D(p)
    BY <1>2, <1>4, <1>6
<1> QED BY <1>5, <1>7, <1>8 DEF D

\* Among any nodes but the root one has none of them for a parent: the one from which
\* most nodes come.
LEMMA SourceExists ==
    ASSUME NEW N, NEW E, Rooted(N, E), NoCircle(N, E), NEW U, U \subseteq N \ {Root}, U # {}
    PROVE  \E n \in U : Parents(E, n) \cap U = {}
<1> DEFINE D(m) == Reachable(Children(E, m), E)
           size(m) == Cardinality(D(m))
<1> SUFFICES ASSUME \A n \in U : \E p \in U : p \in Parents(E, n) PROVE FALSE
    OBVIOUS
<1>1. ASSUME NEW n \in U, NEW p \in U, p \in Parents(E, n)
      PROVE  /\ size(n) \in Nat /\ size(p) \in Nat /\ size(n) < size(p)
             /\ size(p) <= Cardinality(N)
    <2>1. /\ D(p) \subseteq N /\ D(n) \subseteq D(p) /\ n \in D(p) /\ n \notin D(n)
        BY <1>1, FewerFollow
    <2> HIDE DEF D
    <2>2. IsFiniteSet(N)
        BY DEF Rooted
    <2>3. IsFiniteSet(D(p)) /\ Cardinality(D(p)) <= Cardinality(N)
        BY <2>1, <2>2, FS_Subset
    <2> QED BY <2>1, <2>3, StrictSubset
<1>2. Cardinality(N) \in Nat
    BY FS_CardinalityType DEF Rooted
<1> HIDE DEF size
<1> DEFINE Rest == {Cardinality(N) - size(n) : n \in {p \in U : size(p) \in Nat /\ size(p) <= Cardinality(N)}}
<1>3. Rest \subseteq Nat /\ Rest # {}
    <2>1. Rest \subseteq Nat
        BY <1>2
    <2>2. PICK n \in U, p \in U : p \in Parents(E, n)
        OBVIOUS
    <2>3. size(p) \in Nat /\ size(p) <= Cardinality(N)
        BY <1>1, <2>2
    <2>4. Cardinality(N) - size(p) \in Rest
        BY <2>3
    <2> QED BY <2>1, <2>4
<1>4. PICK m \in Rest : \A k \in Rest : m <= k
    <2> HIDE DEF Rest
    <2> QED BY <1>3, LeastNumber
<1>5. PICK n \in U : m = Cardinality(N) - size(n)
    OBVIOUS
<1>6. PICK p \in U : p \in Parents(E, n)
    OBVIOUS
<1>7. size(n) \in Nat /\ size(p) \in Nat /\ size(n) < size(p) /\ size(p) <= Cardinality(N)
    BY <1>1, <1>6
<1>8. Cardinality(N) - size(p) \in Rest
    BY <1>7
<1>9. m <= Cardinality(N) - size(p)
    BY <1>4, <1>8
<1> QED BY <1>2, <1>5, <1>7, <1>9

\* Nodes in an order in which all parents of a node come before it.
ParentsFirst(N, E, order) ==
    /\ order \in Seq(N)
    /\ \A i, j \in DOMAIN order : order[i] = order[j] => i = j
    /\ \A i \in DOMAIN order : \A p \in Parents(E, order[i]) :
          \E j \in DOMAIN order : j < i /\ order[j] = p

Free(N, E, done) == {n \in N \ done : Parents(E, n) \subseteq done}
VisitsOK(N, E, at) == ParentsFirst(N, E, at.order) /\ at.queue = Free(N, E, ToSet(at.order))

\* A node all of whose parents are in the order follows them.
LEMMA AppendedNode ==
    ASSUME NEW N, NEW E, Rooted(N, E), NEW order, ParentsFirst(N, E, order),
           NEW n \in Free(N, E, ToSet(order))
    PROVE  /\ ParentsFirst(N, E, Append(order, n))
           /\ ToSet(Append(order, n)) = ToSet(order) \cup {n}
           /\ Len(Append(order, n)) = Len(order) + 1
<1> DEFINE next == Append(order, n)
<1>1. /\ order \in Seq(N) /\ n \in N /\ n \notin ToSet(order) /\ Parents(E, n) \subseteq ToSet(order)
      /\ \A i, j \in DOMAIN order : order[i] = order[j] => i = j
    BY DEF ParentsFirst, Free
<1>2. /\ next \in Seq(N) /\ Len(next) = Len(order) + 1 /\ Len(order) \in Nat
      /\ DOMAIN order = 1..Len(order) /\ DOMAIN next = 1..(Len(order) + 1)
      /\ \A i \in DOMAIN order : next[i] = order[i]
      /\ next[Len(order) + 1] = n
    BY <1>1
<1> HIDE DEF next
<1>3. ToSet(next) = ToSet(order) \cup {n}
    BY <1>2 DEF ToSet
<1>4. ASSUME NEW i \in DOMAIN next, NEW j \in DOMAIN next, next[i] = next[j]
      PROVE  i = j
    <2>1. \A k \in DOMAIN order : order[k] # n
        BY <1>1 DEF ToSet
    <2>2. i \in DOMAIN order \/ i = Len(order) + 1
        BY <1>2
    <2>3. j \in DOMAIN order \/ j = Len(order) + 1
        BY <1>2
    <2> QED BY <2>1, <2>2, <2>3, <1>1, <1>2, <1>4
<1>5. ASSUME NEW i \in DOMAIN next, NEW p \in Parents(E, next[i])
      PROVE  \E j \in DOMAIN next : j < i /\ next[j] = p
    <2>1. CASE i \in DOMAIN order
        <3>1. PICK j \in DOMAIN order : j < i /\ order[j] = p
            BY <2>1, <1>2 DEF ParentsFirst
        <3> QED BY <3>1, <1>2
    <2>2. CASE i = Len(order) + 1
        <3>1. PICK j \in DOMAIN order : order[j] = p
            BY <2>2, <1>1, <1>2 DEF ToSet
        <3>2. j < i /\ j \in DOMAIN next
            BY <2>2, <1>2
        <3> QED BY <3>1, <3>2, <1>2
    <2> QED BY <2>1, <2>2, <1>2
<1> QED BY <1>2, <1>3, <1>4, <1>5 DEF ParentsFirst, next

\* A visit appends a node and frees those that waited for it alone.
LEMMA VisitAppends ==
    ASSUME NEW N, NEW E, Rooted(N, E), NEW at, VisitsOK(N, E, at), at.queue # {}
    PROVE  /\ VisitsOK(N, E, Visit(at, E))
           /\ Len(Visit(at, E).order) = Len(at.order) + 1
<1> DEFINE n == CHOOSE m \in at.queue : \A o \in at.queue : m <= o
           order == at.order
           done == Append(order, n)
           kids == {c \in Children(E, n) : Parents(E, c) \subseteq ToSet(done)}
<1>1. at.queue = Free(N, E, ToSet(order)) /\ ParentsFirst(N, E, order)
    BY DEF VisitsOK
<1>2. n \in at.queue
    <2>1. at.queue \subseteq Nat
        BY <1>1 DEF Free, Rooted
    <2>2. \E m \in at.queue : \A o \in at.queue : m <= o
        BY <2>1, LeastNumber
    <2> QED BY <2>2
<1>3. Visit(at, E) = [order |-> done, queue |-> (at.queue \ {n}) \cup kids]
    BY DEF Visit
<1> HIDE DEF n
<1>4. /\ ParentsFirst(N, E, done)
      /\ ToSet(done) = ToSet(order) \cup {n}
      /\ Len(done) = Len(order) + 1
    BY <1>1, <1>2, AppendedNode
<1>5. (at.queue \ {n}) \cup kids = Free(N, E, ToSet(done))
    <2> HIDE DEF done, order
    <2>1. ASSUME NEW c \in Free(N, E, ToSet(done))
          PROVE  c \in (at.queue \ {n}) \cup kids
        BY <2>1, <1>1, <1>4 DEF Free, Children, Parents
    <2>2. ASSUME NEW c \in at.queue, c # n
          PROVE  c \in Free(N, E, ToSet(done))
        BY <2>2, <1>1, <1>4 DEF Free
    <2>3. ASSUME NEW c \in kids
          PROVE  c \in Free(N, E, ToSet(done))
        <3>1. <<n, c>> \in E /\ c \in N /\ c # n /\ n \in Parents(E, c)
            <4>1. PICK e \in E : e[1] = n /\ e[2] = c
                BY DEF Children
            <4>2. e = <<n, c>> /\ c # n /\ c \in N
                BY <4>1 DEF Rooted
            <4> QED BY <4>1, <4>2 DEF Parents
        <3>2. c \notin ToSet(order)
            <4> SUFFICES ASSUME NEW i \in DOMAIN order, order[i] = c PROVE FALSE
                BY DEF ToSet
            <4>1. PICK j \in DOMAIN order : order[j] = n
                BY <3>1, <1>1 DEF ParentsFirst
            <4>2. n \in ToSet(order)
                BY <4>1 DEF ToSet
            <4> QED BY <4>2, <1>1, <1>2 DEF Free
        <3> QED BY <3>1, <3>2, <1>4, <2>3 DEF Free
    <2> QED BY <2>1, <2>2, <2>3
<1> HIDE DEF done, kids
<1>6. Visit(at, E).order = done /\ Visit(at, E).queue = Free(N, E, ToSet(done))
    BY <1>3, <1>5
<1> QED BY <1>4, <1>6 DEF VisitsOK, order

\* The visits of Kahn.
KahnRun(E, n, at) ==
    at = [k \in 0..n |-> IF k = 0 THEN [order |-> <<>>, queue |-> {Root}] ELSE Visit(at[k - 1], E)]

\* The recursive definition of Kahn's algorithm has a solution.
LEMMA KahnExists ==
    ASSUME NEW N, NEW E, Rooted(N, E), NEW n \in Nat
    PROVE  \E at : KahnRun(E, n, at)
<1> DEFINE S == [order : Seq(N), queue : SUBSET N]
           z == [order |-> <<>>, queue |-> {Root}]
           step == [i \in 1..n |-> [a \in S |-> Visit(a, E)]]
<1>1. z \in S
    BY DEF Rooted
<1>2. ASSUME NEW a \in S PROVE Visit(a, E) \in S
    <2>1. CASE a.queue = {}
        BY <2>1 DEF Visit
    <2>2. CASE a.queue # {}
        <3> DEFINE m == CHOOSE o \in a.queue : \A p \in a.queue : o <= p
                   done == Append(a.order, m)
                   next == (a.queue \ {m}) \cup
                           {c \in Children(E, m) : Parents(E, c) \subseteq ToSet(done)}
        <3>1. m \in a.queue
            <4>1. a.queue \subseteq Nat
                BY DEF Rooted
            <4>2. \E o \in a.queue : \A p \in a.queue : o <= p
                BY <2>2, <4>1, LeastNumber
            <4> QED BY <4>2
        <3>2. Visit(a, E) = [order |-> done, queue |-> next]
            BY <2>2 DEF Visit
        <3> HIDE DEF m
        <3>3. done \in Seq(N)
            BY <3>1
        <3>4. next \in SUBSET N
            BY DEF Children, Rooted
        <3> HIDE DEF done, next
        <3> QED BY <3>2, <3>3, <3>4
    <2> QED BY <2>1, <2>2
<1>3. Steps(step, n, S)
    <2> HIDE DEF S
    <2> QED BY <1>2 DEF Steps
<1>4. PICK f : Iterates(f, step, n, z, S)
    <2> HIDE DEF S, step, z
    <2> QED BY <1>1, <1>3, IterationExists
<1>5. ASSUME NEW k \in 0..n
      PROVE  f[k] = IF k = 0 THEN z ELSE Visit(f[k - 1], E)
    <2> HIDE DEF z
    <2>1. CASE k = 0
        BY <2>1, <1>4 DEF Iterates
    <2>2. CASE k # 0
        <3>1. k \in 1..n /\ k - 1 \in 0..n
            BY <2>2
        <3>2. f[k - 1] \in S /\ f[k] = step[k][f[k - 1]]
            <4> HIDE DEF S, step
            <4> QED BY <3>1, <1>4 DEF Iterates
        <3> HIDE DEF S
        <3> QED BY <3>1, <3>2, <2>2
    <2> QED BY <2>1, <2>2
<1>6. f = [k \in 0..n |-> f[k]]
    <2> HIDE DEF S, step, z
    <2> QED BY <1>4 DEF Iterates
<1> HIDE DEF S, step
<1> QED BY <1>5, <1>6 DEF KahnRun

\* As long as a node is missing the algorithm visits another.
LEMMA KahnGoesOn ==
    ASSUME NEW N, NEW E, Rooted(N, E), NoCircle(N, E), NEW at, VisitsOK(N, E, at),
           at.queue = {}
    PROVE  ToSet(at.order) = N
<1> DEFINE done == ToSet(at.order)
           U == N \ done
<1>1. done \subseteq N
    BY DEF VisitsOK, ParentsFirst, ToSet
<1> SUFFICES ASSUME U # {} PROVE FALSE
    BY <1>1
<1>2. Root \in done
    <2>1. Parents(E, Root) = {}
        BY DEF Parents, Rooted
    <2>2. Root \in N
        BY DEF Rooted
    <2> QED BY <2>1, <2>2 DEF VisitsOK, Free
<1>3. U \subseteq N \ {Root}
    BY <1>2
<1> HIDE DEF U
<1>4. PICK n \in U : Parents(E, n) \cap U = {}
    BY <1>3, SourceExists
<1>5. Parents(E, n) \subseteq N
    BY DEF Parents, Rooted
<1>6. Parents(E, n) \subseteq done
    BY <1>4, <1>5 DEF U
<1>7. n \in Free(N, E, done)
    BY <1>4, <1>6 DEF Free, U
<1> QED BY <1>7 DEF VisitsOK

\* With a step for each node, Kahn's algorithm orders all nodes of a graph without circle.
LEMMA KahnOrdersAll ==
    ASSUME NEW N, NEW E, Rooted(N, E), NoCircle(N, E)
    PROVE  LET order == Kahn(Cardinality(N), E)
           IN  ParentsFirst(N, E, order) /\ ToSet(order) = N
<1> DEFINE n == Cardinality(N)
           at == CHOOSE f : KahnRun(E, n, f)
<1>1. IsFiniteSet(N) /\ n \in Nat
    BY FS_CardinalityType DEF Rooted
<1>2. KahnRun(E, n, at)
    BY <1>1, KahnExists
<1>3. Kahn(n, E) = at[n].order
    BY DEF Kahn, KahnRun
<1> HIDE DEF at, n
<1>4. /\ at[0] = [order |-> <<>>, queue |-> {Root}]
      /\ \A k \in 0..(n - 1) : at[k + 1] = Visit(at[k], E)
    <2>1. \A k \in 0..n : at[k] = IF k = 0 THEN [order |-> <<>>, queue |-> {Root}]
                                  ELSE Visit(at[k - 1], E)
        BY <1>2 DEF KahnRun
    <2>2. ASSUME NEW k \in 0..(n - 1) PROVE at[k + 1] = Visit(at[k], E)
        <3>1. k + 1 \in 0..n /\ k + 1 # 0 /\ (k + 1) - 1 = k
            BY <1>1
        <3> QED BY <2>1, <3>1
    <2>3. 0 \in 0..n
        BY <1>1
    <2> QED BY <2>1, <2>2, <2>3
<1> DEFINE S == {k \in 0..n : VisitsOK(N, E, at[k]) /\ Len(at[k].order) = k}
<1>5. 0 \in S
    <2> DEFINE none == <<>>
    <2>1. none \in Seq(N) /\ DOMAIN none = {} /\ Len(none) = 0 /\ ToSet(none) = {}
        BY DEF ToSet
    <2> HIDE DEF none
    <2>2. ParentsFirst(N, E, none)
        BY <2>1 DEF ParentsFirst
    <2>3. Free(N, E, {}) = {Root}
        <3>1. Parents(E, Root) = {} /\ Root \in N
            BY DEF Parents, Rooted
        <3>2. ASSUME NEW m \in N, m # Root PROVE Parents(E, m) # {}
            BY <3>2 DEF Parents, Rooted
        <3> QED BY <3>1, <3>2 DEF Free
    <2>4. at[0].order = none /\ at[0].queue = {Root}
        BY <1>4 DEF none
    <2>5. VisitsOK(N, E, at[0])
        BY <2>1, <2>2, <2>3, <2>4 DEF VisitsOK
    <2>6. Len(at[0].order) = 0
        BY <2>1, <2>4
    <2> QED BY <2>5, <2>6, <1>1
<1>6. ASSUME NEW k \in 0..(n - 1), k \in S
      PROVE  k + 1 \in S
    <2>1. VisitsOK(N, E, at[k]) /\ Len(at[k].order) = k
        BY <1>6
    <2>2. Cardinality(ToSet(at[k].order)) = k
        BY <2>1, LengthOfOrder DEF VisitsOK, ParentsFirst
    <2>3. ToSet(at[k].order) # N
        <3>1. k # n
            BY <1>1
        <3> QED BY <3>1, <2>2 DEF n
    <2>4. at[k].queue # {}
        BY <2>1, <2>3, KahnGoesOn
    <2>5. VisitsOK(N, E, Visit(at[k], E)) /\ Len(Visit(at[k], E).order) = k + 1
        BY <2>1, <2>4, VisitAppends
    <2>6. k + 1 \in 0..n
        BY <1>1
    <2> QED BY <2>5, <2>6, <1>4
<1>7. n \in S
    <2>1. 0..n \subseteq S
        <3> HIDE DEF S
        <3> QED BY <1>1, <1>5, <1>6, UpTo
    <2> QED BY <2>1, <1>1
<1> DEFINE order == at[n].order
<1>8. ParentsFirst(N, E, order) /\ Len(order) = n
    BY <1>7 DEF VisitsOK
<1>9. ToSet(order) \subseteq N /\ Cardinality(ToSet(order)) = n
    <2> HIDE DEF order
    <2>1. /\ order \in Seq(N)
          /\ \A i, j \in DOMAIN order : order[i] = order[j] => i = j
        BY <1>8 DEF ParentsFirst
    <2>2. ToSet(order) \subseteq N
        BY <2>1 DEF ToSet
    <2> QED BY <2>1, <2>2, <1>8, LengthOfOrder
<1>10. ToSet(order) = N
    BY <1>1, <1>9, FS_Subset DEF n
<1> QED BY <1>3, <1>8, <1>10 DEF n

\* What is left over for the end of the order is nothing.
LEMMA TopoOrderIs ==
    ASSUME NEW N, NEW E, Rooted(N, E), NoCircle(N, E), NEW ids \in Seq(N), Len(ids) + 1 = Cardinality(N)
    PROVE  ParentsFirst(N, E, TopoOrder(ids, E)) /\ ToSet(TopoOrder(ids, E)) = N
<1> DEFINE kahn == Kahn(Len(ids) + 1, E)
           left == {i \in DOMAIN ids : ids[i] \notin ToSet(kahn)}
<1>1. ParentsFirst(N, E, kahn) /\ ToSet(kahn) = N
    BY KahnOrdersAll
<1>2. left = {}
    BY <1>1 DEF ToSet
<1> DEFINE tail == Filter(ids, {})
<1>3. tail \in Seq(N) /\ DOMAIN tail = {}
    <2>1. {} \in SUBSET DOMAIN ids /\ Cardinality({}) = 0 /\ 1..0 = {}
        BY FS_EmptySet
    <2>2. Filter(ids, {}) \in Seq(N)
        BY <2>1, FilterPicks
    <2>3. DOMAIN Filter(ids, {}) = {}
        BY <2>1 DEF Filter
    <2> QED BY <2>2, <2>3
<1>4. TopoOrder(ids, E) = kahn \o tail
    BY <1>2 DEF TopoOrder
<1> HIDE DEF kahn, tail
<1>5. kahn \in Seq(N)
    BY <1>1 DEF ParentsFirst
<1>6. kahn \o tail = kahn
    BY <1>3, <1>5
<1> QED BY <1>1, <1>4, <1>6

\* The placements of Rows.
RowsRun(E, N, order, row) ==
    row = [k \in 0..Len(order) |->
              IF k = 0 THEN [n \in N |-> 0] ELSE Place(row[k - 1], order[k], E)]

\* The rows after the first k nodes: their children are lower, and whoever has been moved
\* is right below one of them.
RowsOK(N, E, order, k, row) ==
    /\ row \in [N -> Nat]
    /\ \A i \in 1..k : \A c \in Children(E, order[i]) : row[order[i]] < row[c]
    /\ \A n \in N : row[n] = 0 \/ \E i \in 1..k : row[order[i]] = row[n] - 1

\* The recursive definition of the rows has a solution.
LEMMA RowsExist ==
    ASSUME NEW N, NEW E, NEW order \in Seq(N)
    PROVE  \E row : RowsRun(E, N, order, row)
<1> DEFINE n == Len(order)
           S == [N -> Nat]
           z == [m \in N |-> 0]
           step == [i \in 1..n |-> [r \in S |-> Place(r, order[i], E)]]
<1>0. n \in Nat /\ DOMAIN order = 1..n /\ \A i \in 1..n : order[i] \in N
    OBVIOUS
<1>1. z \in S
    OBVIOUS
<1>2. ASSUME NEW r \in S, NEW m \in N PROVE Place(r, m, E) \in S
    BY DEF Place
<1>3. Steps(step, n, S)
    <2> HIDE DEF S, n
    <2> QED BY <1>0, <1>2 DEF Steps
<1>4. PICK f : Iterates(f, step, n, z, S)
    <2> HIDE DEF S, step, z, n
    <2> QED BY <1>0, <1>1, <1>3, IterationExists
<1>5. ASSUME NEW k \in 0..n
      PROVE  f[k] = IF k = 0 THEN z ELSE Place(f[k - 1], order[k], E)
    <2> HIDE DEF z, n
    <2>1. CASE k = 0
        BY <2>1, <1>4 DEF Iterates
    <2>2. CASE k # 0
        <3>1. k \in 1..n /\ k - 1 \in 0..n
            BY <2>2, <1>0
        <3>2. f[k - 1] \in S /\ f[k] = step[k][f[k - 1]]
            <4> HIDE DEF S, step
            <4> QED BY <3>1, <1>4 DEF Iterates
        <3> HIDE DEF S
        <3> QED BY <3>1, <3>2, <2>2
    <2> QED BY <2>1, <2>2
<1>6. f = [k \in 0..n |-> f[k]]
    <2> HIDE DEF S, step, z, n
    <2> QED BY <1>4 DEF Iterates
<1> HIDE DEF S, step
<1> QED BY <1>5, <1>6 DEF RowsRun

\* Placing the children of the next node leaves those before it, and itself, alone.
LEMMA PlaceNext ==
    ASSUME NEW N, NEW E, Rooted(N, E), NEW order, ParentsFirst(N, E, order),
           NEW k \in 0..(Len(order) - 1), NEW row, RowsOK(N, E, order, k, row)
    PROVE  RowsOK(N, E, order, k + 1, Place(row, order[k + 1], E))
<1> DEFINE m == order[k + 1]
           new == Place(row, m, E)
<1>1. /\ order \in Seq(N) /\ Len(order) \in Nat /\ DOMAIN order = 1..Len(order)
      /\ k \in Nat /\ k + 1 \in DOMAIN order /\ 1..k \subseteq DOMAIN order
      /\ \A i \in DOMAIN order : order[i] \in N
    BY DEF ParentsFirst
<1>2. m \in N
    BY <1>1
<1>3. row \in [N -> Nat]
    BY DEF RowsOK
<1>4. /\ new \in [N -> Nat]
      /\ \A n \in N : row[n] <= new[n]
      /\ \A n \in N \ Children(E, m) : new[n] = row[n]
      /\ \A n \in N \cap Children(E, m) : row[m] < new[n]
      /\ \A n \in N : new[n] = row[n] \/ new[n] = row[m] + 1
    <2> HIDE DEF m
    <2>1. new = [n \in N |-> IF n \in Children(E, m) /\ row[n] <= row[m] THEN row[m] + 1 ELSE row[n]]
        BY <1>3 DEF Place
    <2> HIDE DEF new
    <2>2. row[m] \in Nat /\ \A n \in N : row[n] \in Nat
        BY <1>2, <1>3
    <2> QED BY <2>1, <2>2
<1>5. ASSUME NEW i \in 1..(k + 1)
      PROVE  order[i] \in N /\ new[order[i]] = row[order[i]]
    <2>1. i \in DOMAIN order /\ i <= k + 1
        BY <1>1
    <2>2. ASSUME order[i] \in Children(E, m) PROVE FALSE
        <3>1. m \in Parents(E, order[i])
            BY <2>2 DEF Children, Parents
        <3>2. PICK j \in DOMAIN order : j < i /\ order[j] = m
            BY <3>1, <2>1 DEF ParentsFirst
        <3>3. j = k + 1
            BY <3>2, <1>1 DEF ParentsFirst
        <3> QED BY <3>2, <3>3, <2>1, <1>1
    <2> HIDE DEF new, m
    <2> QED BY <2>1, <2>2, <1>1, <1>4
<1>6. \A c \in Children(E, m) : c \in N
    BY DEF Children, Rooted
<1> HIDE DEF new
<1>7. ASSUME NEW i \in 1..(k + 1), NEW c \in Children(E, order[i])
      PROVE  new[order[i]] < new[c]
    <2>1. CASE i = k + 1
        <3>1. row[m] < new[c] /\ new[m] = row[m]
            BY <2>1, <1>4, <1>5, <1>6
        <3> QED BY <2>1, <3>1
    <2>2. CASE i # k + 1
        <3>1. i \in 1..k
            BY <2>2, <1>1
        <3>2. row[order[i]] < row[c]
            BY <3>1 DEF RowsOK
        <3>3. c \in N
            BY DEF Children, Rooted
        <3>4. row[c] <= new[c] /\ new[order[i]] = row[order[i]] /\ order[i] \in N
            BY <1>4, <1>5, <3>3
        <3> QED BY <3>2, <3>3, <3>4, <1>3, <1>4
    <2> QED BY <2>1, <2>2
<1>8. ASSUME NEW n \in N, new[n] # 0
      PROVE  \E i \in 1..(k + 1) : new[order[i]] = new[n] - 1
    <2>1. CASE new[n] = row[n]
        <3>1. PICK i \in 1..k : row[order[i]] = row[n] - 1
            BY <2>1, <1>8 DEF RowsOK
        <3>2. i \in 1..(k + 1) /\ new[order[i]] = row[order[i]]
            BY <1>1, <1>5
        <3> QED BY <2>1, <3>1, <3>2
    <2>2. CASE new[n] = row[m] + 1
        <3>1. k + 1 \in 1..(k + 1)
            BY <1>1
        <3>2. new[m] = row[m] /\ row[m] \in Nat
            BY <3>1, <1>2, <1>3, <1>5
        <3> QED BY <2>2, <3>1, <3>2
    <2> QED BY <2>1, <2>2, <1>4
<1> QED BY <1>4, <1>7, <1>8 DEF RowsOK, new

\* Every edge leads down, and above every row but the first there is another.
LEMMA RowsAre ==
    ASSUME NEW N, NEW E, Rooted(N, E), NoCircle(N, E), NEW ids \in Seq(N),
           ToSet(ids) \cup {Root} = N, Len(ids) + 1 = Cardinality(N)
    PROVE  LET row == Rows(ids, E)
           IN  /\ row \in [N -> Nat]
               /\ \A e \in E : row[e[1]] < row[e[2]]
               /\ \A n \in N : row[n] = 0 \/ \E m \in N : row[m] = row[n] - 1
<1> DEFINE order == TopoOrder(ids, E)
           n == Len(order)
           row == CHOOSE f : RowsRun(E, N, order, f)
<1>1. ParentsFirst(N, E, order) /\ ToSet(order) = N
    BY TopoOrderIs
<1> HIDE DEF order
<1>2. order \in Seq(N) /\ n \in Nat /\ DOMAIN order = 1..n
    BY <1>1 DEF ParentsFirst
<1>3. RowsRun(E, N, order, row)
    BY <1>2, RowsExist
<1>4. Rows(ids, E) = row[n]
    BY DEF Rows, RowsRun, order
<1> HIDE DEF row
<1>5. /\ row[0] = [m \in N |-> 0]
      /\ \A k \in 0..(n - 1) : row[k + 1] = Place(row[k], order[k + 1], E)
    <2>1. \A k \in 0..n : row[k] = IF k = 0 THEN [m \in N |-> 0] ELSE Place(row[k - 1], order[k], E)
        BY <1>3 DEF RowsRun
    <2>2. ASSUME NEW k \in 0..(n - 1) PROVE row[k + 1] = Place(row[k], order[k + 1], E)
        <3>1. k + 1 \in 0..n /\ k + 1 # 0 /\ (k + 1) - 1 = k
            BY <1>2
        <3> QED BY <2>1, <3>1
    <2>3. 0 \in 0..n
        BY <1>2
    <2> QED BY <2>1, <2>2, <2>3
<1> DEFINE S == {k \in 0..n : RowsOK(N, E, order, k, row[k])}
<1>6. 0 \in S
    <2>1. 1..0 = {} /\ 0 \in 0..n
        BY <1>2
    <2> QED BY <2>1, <1>5 DEF RowsOK
<1>7. ASSUME NEW k \in 0..(n - 1), k \in S
      PROVE  k + 1 \in S
    <2>1. RowsOK(N, E, order, k, row[k]) /\ k + 1 \in 0..n
        BY <1>2, <1>7
    <2>2. RowsOK(N, E, order, k + 1, Place(row[k], order[k + 1], E))
        BY <2>1, <1>1, PlaceNext
    <2> QED BY <2>1, <2>2, <1>5
<1>8. n \in S
    <2>1. 0..n \subseteq S
        <3> HIDE DEF S
        <3> QED BY <1>2, <1>6, <1>7, UpTo
    <2> QED BY <2>1, <1>2
<1>9. RowsOK(N, E, order, n, row[n])
    BY <1>8
<1>10. \A m \in N : \E i \in 1..n : order[i] = m
    BY <1>1, <1>2 DEF ToSet
<1> DEFINE last == row[n]
<1>11. last \in [N -> Nat]
    BY <1>9 DEF RowsOK
<1>12. ASSUME NEW e \in E PROVE last[e[1]] < last[e[2]]
    <2>1. e[1] \in N /\ e[2] \in Children(E, e[1])
        BY DEF Rooted, Children
    <2>2. PICK i \in 1..n : order[i] = e[1]
        BY <2>1, <1>10
    <2> QED BY <2>1, <2>2, <1>9 DEF RowsOK
<1>13. ASSUME NEW m \in N, last[m] # 0 PROVE \E p \in N : last[p] = last[m] - 1
    <2>1. PICK i \in 1..n : last[order[i]] = last[m] - 1
        BY <1>9, <1>13 DEF RowsOK
    <2>2. order[i] \in N
        BY <1>2
    <2> QED BY <2>1, <2>2
<1> QED BY <1>4, <1>11, <1>12, <1>13

\* So no row is empty.
LEMMA NoRowIsEmpty ==
    ASSUME NEW N, NEW row \in [N -> Nat], IsFiniteSet(N), N # {},
           \A n \in N : row[n] = 0 \/ \E m \in N : row[m] = row[n] - 1
    PROVE  HeightIsFinite(row)
<1> DEFINE V == {row[n] : n \in N}
           top == Max(V)
<1>1. V \subseteq Nat /\ V # {} /\ IsFiniteSet(V)
    <2>1. row = [n \in N |-> row[n]]
        OBVIOUS
    <2>2. IsFiniteSet(V)
        BY <2>1, ImageIsFinite
    <2> QED BY <2>2
<1>2. top \in V
    <2> HIDE DEF V
    <2> QED BY <1>1, MaxIs
<1>3. RowCount(row) = 1 + top
    BY DEF RowCount
<1> HIDE DEF top
<1>4. ASSUME NEW r \in 0..top
      PROVE  \E n \in N : row[n] = r
    <2> SUFFICES ASSUME r \notin V PROVE FALSE
        OBVIOUS
    <2> DEFINE Above == {v \in V : v > r}
    <2>1. top \in Above /\ Above \subseteq Nat
        BY <1>1, <1>2
    <2>2. PICK v \in Above : \A w \in Above : v <= w
        <3> HIDE DEF Above
        <3> QED BY <2>1, LeastNumber
    <2>3. v \in Nat /\ v > r /\ r \in Nat
        BY <1>1, <1>2, <2>2
    <2>4. PICK n \in N : row[n] = v
        BY <2>2
    <2>5. v - 1 \in V
        BY <2>3, <2>4
    <2>6. v - 1 \in Above
        BY <2>3, <2>5
    <2>7. v <= v - 1
        <3> HIDE DEF Above
        <3> QED BY <2>2, <2>6
    <2> QED BY <2>3, <2>7
<1>5. DOMAIN row = N /\ RowCount(row) - 1 = top
    BY <1>1, <1>2, <1>3
<1> QED BY <1>4, <1>5 DEF HeightIsFinite

IdsOf(rs)   == {rs[i].id : i \in DOMAIN rs}
NodesOf(rs) == IdsOf(rs) \cup {Root}

\* An RGD has no two resources of one id.
ResourceLists ==
    {rs \in Seq(Resource) : \A i, j \in DOMAIN rs : rs[i].id = rs[j].id => i = j}

\* What is in a list of resources.
LEMMA ListIs ==
    ASSUME NEW rs \in ResourceLists
    PROVE  /\ DOMAIN rs = 1..Len(rs) /\ Len(rs) \in Nat
           /\ \A i \in DOMAIN rs : rs[i].id \in Ids /\ rs[i].id \in Nat /\ rs[i].id # Root
           /\ \A i, j \in DOMAIN rs : rs[i].id = rs[j].id => i = j
           /\ Root \notin IdsOf(rs) /\ NodesOf(rs) \subseteq Nat
<1>1. /\ DOMAIN rs = 1..Len(rs) /\ Len(rs) \in Nat
      /\ \A i \in DOMAIN rs : rs[i] \in Resource
      /\ \A i, j \in DOMAIN rs : rs[i].id = rs[j].id => i = j
    BY DEF ResourceLists
<1>2. \A i \in DOMAIN rs : rs[i].id \in Ids
    BY <1>1 DEF Resource
<1>3. \A i \in DOMAIN rs : rs[i].id \in Nat /\ rs[i].id # Root
    BY <1>2, DagAssumption DEF DagAssumption, Root
<1>4. Root \notin IdsOf(rs) /\ NodesOf(rs) \subseteq Nat
    BY <1>3 DEF IdsOf, NodesOf, Root
<1> QED BY <1>1, <1>2, <1>3, <1>4

\* The ids of a list, and how many nodes they make.
LEMMA ListedIdsAre ==
    ASSUME NEW rs \in ResourceLists
    PROVE  /\ ListedIds(rs) \in Seq(NodesOf(rs)) /\ ToSet(ListedIds(rs)) = IdsOf(rs)
           /\ IsFiniteSet(NodesOf(rs)) /\ Len(ListedIds(rs)) + 1 = Cardinality(NodesOf(rs))
<1> DEFINE ids == ListedIds(rs)
<1>1. /\ DOMAIN rs = 1..Len(rs) /\ Len(rs) \in Nat
      /\ \A i, j \in DOMAIN rs : rs[i].id = rs[j].id => i = j
      /\ Root \notin IdsOf(rs)
    BY ListIs
<1>2. ids = [i \in 1..Len(rs) |-> rs[i].id]
    BY <1>1 DEF ListedIds
<1>3. \A i \in 1..Len(rs) : rs[i].id \in NodesOf(rs)
    BY <1>1 DEF NodesOf, IdsOf
<1> HIDE DEF ids
<1>4. ids \in Seq(NodesOf(rs)) /\ Len(ids) = Len(rs) /\ DOMAIN ids = 1..Len(rs)
    BY <1>1, <1>2, <1>3
<1>5. ToSet(ids) = IdsOf(rs)
    BY <1>1, <1>2, <1>4 DEF ToSet, IdsOf
<1>6. \A i, j \in DOMAIN ids : ids[i] = ids[j] => i = j
    BY <1>1, <1>2, <1>4
<1>7. IsFiniteSet(IdsOf(rs)) /\ Cardinality(IdsOf(rs)) = Len(rs)
    BY <1>4, <1>5, <1>6, LengthOfOrder
<1>8. IsFiniteSet(NodesOf(rs)) /\ Cardinality(NodesOf(rs)) = Len(rs) + 1
    BY <1>1, <1>7, FS_AddElement DEF NodesOf
<1> QED BY <1>4, <1>5, <1>8 DEF ids

\* Where the edges of the references lead.
LEMMA ReferencesAre ==
    ASSUME NEW rs \in ResourceLists
    PROVE  \A e \in ReferenceEdges(rs) : e \in NodesOf(rs) \X IdsOf(rs) /\ e[1] # e[2]
<1> DEFINE names == IdsOf(rs) \cup {Root}
           of(i) == {<<ref, rs[i].id>> : ref \in (rs[i].refs \cap names) \ {rs[i].id}}
<1>1. ReferenceEdges(rs) = UNION {of(i) : i \in DOMAIN rs}
    BY DEF ReferenceEdges, IdsOf
<1>2. ASSUME NEW i \in DOMAIN rs, NEW e \in of(i)
      PROVE  e \in NodesOf(rs) \X IdsOf(rs) /\ e[1] # e[2]
    <2>1. PICK ref \in (rs[i].refs \cap names) \ {rs[i].id} : e = <<ref, rs[i].id>>
        OBVIOUS
    <2>2. ref \in NodesOf(rs) /\ rs[i].id \in IdsOf(rs) /\ ref # rs[i].id
        BY DEF NodesOf, IdsOf
    <2> QED BY <2>1, <2>2
<1> HIDE DEF of
<1> QED BY <1>1, <1>2

\* The edges make a graph that hangs from its root.
LEMMA GraphIsRooted ==
    ASSUME NEW rs \in ResourceLists
    PROVE  /\ Rooted(NodesOf(rs), GraphEdges(rs))
           /\ Reachable({Root}, GraphEdges(rs)) = NodesOf(rs)
<1> DEFINE N == NodesOf(rs)
           refs == ReferenceEdges(rs)
           R0 == Reachable({Root}, refs)
           E == GraphEdges(rs)
           R == Reachable({Root}, E)
<1>1. N \subseteq Nat /\ Root \notin IdsOf(rs)
    BY ListIs
<1>2. IsFiniteSet(N) /\ Root \in N /\ N = IdsOf(rs) \cup {Root}
    BY ListedIdsAre DEF NodesOf
<1>3. \A e \in refs : e \in N \X IdsOf(rs) /\ e[1] # e[2]
    BY ReferencesAre
<1>4. E = refs \cup {<<Root, n>> : n \in IdsOf(rs) \ R0}
    BY DEF GraphEdges, IdsOf
<1> HIDE DEF N, refs, E, R0
<1>5. \A e \in E : e \in N \X IdsOf(rs) /\ e[1] # e[2]
    BY <1>1, <1>2, <1>3, <1>4
<1>6. E \subseteq N \X N
    BY <1>2, <1>5
<1>7. IsFiniteSet(E) /\ IsFiniteSet(refs)
    <2>1. IsFiniteSet(N \X N)
        BY <1>2, FS_Product
    <2>2. refs \subseteq E
        BY <1>4
    <2> QED BY <2>1, <2>2, <1>6, FS_Subset
<1>8. /\ Root \in R0 /\ ClosedUnder(refs, R0)
      /\ \A S : {Root} \subseteq S /\ ClosedUnder(refs, S) => R0 \subseteq S
    BY <1>7, ReachableIs DEF R0
<1>9. /\ Root \in R /\ ClosedUnder(E, R)
      /\ \A S : {Root} \subseteq S /\ ClosedUnder(E, S) => R \subseteq S
    BY <1>7, ReachableIs
<1> HIDE DEF R
<1>10. ASSUME NEW n \in N \ {Root}
       PROVE  \E e \in E : e[2] = n
    <2>1. CASE n \notin R0
        <3>1. <<Root, n>> \in E
            BY <2>1, <1>2, <1>4
        <3> QED BY <3>1
    <2>2. CASE n \in R0
        <3> SUFFICES ASSUME \A e \in refs : e[2] # n PROVE FALSE
            BY <1>4
        <3>1. ClosedUnder(refs, R0 \ {n})
            BY <1>8 DEF ClosedUnder
        <3>2. {Root} \subseteq R0 \ {n}
            BY <1>8
        <3> QED BY <3>1, <3>2, <1>8, <2>2
    <2> QED BY <2>1, <2>2
<1>11. Rooted(N, E)
    BY <1>1, <1>2, <1>5, <1>6, <1>7, <1>10 DEF Rooted
<1>12. R \subseteq N
    <2>1. ClosedUnder(E, N)
        BY <1>6 DEF ClosedUnder
    <2> QED BY <2>1, <1>2, <1>9
<1>13. R0 \subseteq R
    <2>1. ClosedUnder(refs, R)
        BY <1>4, <1>9 DEF ClosedUnder
    <2> QED BY <2>1, <1>8, <1>9
<1>14. \A n \in IdsOf(rs) \ R0 : n \in R
    <2>1. \A n \in IdsOf(rs) \ R0 : <<Root, n>> \in E
        BY <1>4
    <2> QED BY <2>1, <1>9 DEF ClosedUnder
<1>15. N \subseteq R
    BY <1>2, <1>9, <1>13, <1>14
<1> QED BY <1>11, <1>12, <1>15 DEF R, N, E

\* The graph of a list.
LEMMA GraphOf ==
    ASSUME NEW rs \in ResourceLists
    PROVE  LET g == buildDAGGraph(rs)
           IN  /\ g.nodes = NodesOf(rs) /\ g.edges = GraphEdges(rs)
               /\ g.row = Rows(ListedIds(rs), GraphEdges(rs))
               /\ g.conditional = Conditional(rs)
               /\ DOMAIN g.cel = IdsOf(rs)
               /\ \A i \in DOMAIN rs : g.cel[rs[i].id] = rs[i].cel
<1> DEFINE cel == [n \in IdsOf(rs) |-> rs[CHOOSE i \in DOMAIN rs : rs[i].id = n].cel]
<1>1. buildDAGGraph(rs) =
         [nodes |-> DOMAIN cel \cup {Root}, cel |-> cel, edges |-> GraphEdges(rs),
          conditional |-> Conditional(rs), row |-> Rows(ListedIds(rs), GraphEdges(rs))]
    BY DEF buildDAGGraph, IdsOf
<1>2. ASSUME NEW i \in DOMAIN rs
      PROVE  cel[rs[i].id] = rs[i].cel
    <2>1. \A j \in DOMAIN rs : rs[j].id = rs[i].id => j = i
        BY ListIs
    <2>2. (CHOOSE j \in DOMAIN rs : rs[j].id = rs[i].id) = i
        BY <2>1
    <2> QED BY <2>2 DEF IdsOf
<1>3. DOMAIN cel = IdsOf(rs)
    OBVIOUS
<1> HIDE DEF cel
<1> QED BY <1>1, <1>2, <1>3 DEF NodesOf

\* A node is marked when it has a condition, or a parent that is marked.
LEMMA MarkedNodes ==
    ASSUME NEW rs \in ResourceLists, NEW n \in IdsOf(rs)
    PROVE  LET g == buildDAGGraph(rs)
           IN  n \in g.conditional <=>
                  g.cel[n] = "when" \/ Parents(g.edges, n) \cap g.conditional # {}
<1> DEFINE g == buildDAGGraph(rs)
           E == GraphEdges(rs)
           W == {rs[i].id : i \in {j \in DOMAIN rs : rs[j].cel = "when"}}
           C == Reachable(W, E)
<1>1. /\ g.edges = E /\ g.conditional = C
      /\ \A i \in DOMAIN rs : g.cel[rs[i].id] = rs[i].cel
    BY GraphOf DEF Conditional
<1>2. IsFiniteSet(E)
    BY GraphIsRooted DEF Rooted
<1>3. /\ W \subseteq C /\ ClosedUnder(E, C)
      /\ \A S : W \subseteq S /\ ClosedUnder(E, S) => C \subseteq S
    BY <1>2, ReachableIs
<1>4. PICK i \in DOMAIN rs : rs[i].id = n
    BY DEF IdsOf
<1>5. \A j \in DOMAIN rs : rs[j].id = n => j = i
    BY <1>4, ListIs
<1>6. n \in W <=> g.cel[n] = "when"
    BY <1>1, <1>4, <1>5
<1> HIDE DEF g, W, C, E
<1>7. ASSUME n \in W \/ Parents(E, n) \cap C # {} PROVE n \in C
    BY <1>3, <1>7 DEF Parents, ClosedUnder
<1>8. ASSUME n \in C, n \notin W, Parents(E, n) \cap C = {} PROVE FALSE
    <2>1. ClosedUnder(E, C \ {n})
        BY <1>3, <1>8 DEF Parents, ClosedUnder
    <2> QED BY <2>1, <1>3, <1>8
<1> QED BY <1>1, <1>6, <1>7, <1>8 DEF g

\* The graph of the current resources is drawn right.
LEMMA GraphDrawn ==
    ASSUME resources \in ResourceLists
    PROVE  GraphIsDrawn
<1> DEFINE g == buildDAGGraph(resources)
           N == NodesOf(resources)
           E == GraphEdges(resources)
           ids == ListedIds(resources)
           row == Rows(ids, E)
<1>1. /\ g.nodes = N /\ g.edges = E /\ g.row = row
    BY GraphOf
<1>2. Rooted(N, E) /\ Reachable({Root}, E) = N
    BY GraphIsRooted
<1>3. ids \in Seq(N) /\ ToSet(ids) = IdsOf(resources) /\ Len(ids) + 1 = Cardinality(N) /\ IsFiniteSet(N)
    BY ListedIdsAre
<1>4. ToSet(ids) \cup {Root} = N /\ N # {} /\ N \ {Root} = IdsOf(resources)
    BY <1>3, ListIs DEF NodesOf
<1>5. Declared = IdsOf(resources)
    BY DEF Declared, IdsOf
<1>6. \A n \in Declared :
         n \in g.conditional <=> g.cel[n] = "when" \/ Parents(g.edges, n) \cap g.conditional # {}
    BY <1>5, MarkedNodes
<1> HIDE DEF g, N, E, ids, row
<1>7. ASSUME Acyclic(E)
      PROVE  (\A e \in E : row[e[1]] < row[e[2]]) /\ HeightIsFinite(row)
    <2>1. NoCircle(N, E)
        BY <1>4, <1>5, <1>7 DEF NoCircle, Acyclic
    <2>2. /\ row \in [N -> Nat]
          /\ \A e \in E : row[e[1]] < row[e[2]]
          /\ \A n \in N : row[n] = 0 \/ \E m \in N : row[m] = row[n] - 1
        BY <1>2, <1>3, <1>4, <2>1, RowsAre DEF row
    <2> QED BY <1>3, <1>4, <2>2, NoRowIsEmpty
<1>8. Reachable({Root}, g.edges) = g.nodes
    BY <1>1, <1>2
<1>9. Acyclic(g.edges) => (\A e \in g.edges : g.row[e[1]] < g.row[e[2]]) /\ HeightIsFinite(g.row)
    BY <1>1, <1>7
<1>10. Graph = g
    BY DEF Graph, g
<1> QED BY <1>6, <1>8, <1>9, <1>10 DEF GraphIsDrawn

\* The difference of any two graphs says all.
LEMMA AnyDiffSaysAll ==
    ASSUME NEW from, NEW to
    PROVE  DiffSaysAll(from, to)
<1> DEFINE a      == buildDAGGraph(from)
           b      == buildDAGGraph(to)
           d      == diffDAGGraphs(a, b)
           back   == diffDAGGraphs(b, a)
           banner == computeRevisionNodeDiff(a.nodes, b.nodes)
           Is(status, f) == {x \in DOMAIN f : f[x] = status}
           nodes(g, h) ==
               [n \in g.nodes \cup h.nodes |->
                  CASE n \notin g.nodes -> "added"
                    [] n \notin h.nodes -> "removed"
                    [] n \in (g.nodes \cap h.nodes) \ {Root} /\ g.cel[n] # h.cel[n] -> "modified"
                    [] OTHER -> "unchanged"]
           edges(g, h) ==
               [e \in g.edges \cup h.edges |->
                  CASE e \notin g.edges -> "added"
                    [] e \notin h.edges -> "removed"
                    [] OTHER -> "unchanged"]
<1>1. ASSUME NEW g, NEW h
      PROVE  diffDAGGraphs(g, h).node = nodes(g, h) /\ diffDAGGraphs(g, h).edge = edges(g, h)
    BY DEF diffDAGGraphs
<1> HIDE DEF a, b, nodes, edges
<1>2. d.node = nodes(a, b) /\ back.node = nodes(b, a)
      /\ d.edge = edges(a, b) /\ back.edge = edges(b, a)
    BY <1>1
<1>3. banner.added = b.nodes \ a.nodes /\ banner.removed = a.nodes \ b.nodes
    BY DEF computeRevisionNodeDiff
<1> HIDE DEF d, back, banner
<1> USE DEF nodes, edges
<1>4. ASSUME NEW g, NEW h
      PROVE  /\ Is("added", nodes(g, h)) = h.nodes \ g.nodes
             /\ Is("removed", nodes(g, h)) = g.nodes \ h.nodes
             /\ Is("modified", nodes(g, h)) =
                   {n \in (g.nodes \cap h.nodes) \ {Root} : g.cel[n] # h.cel[n]}
             /\ Is("added", edges(g, h)) = h.edges \ g.edges
             /\ Is("removed", edges(g, h)) = g.edges \ h.edges
             /\ Is("unchanged", edges(g, h)) = g.edges \cap h.edges
    <2>1. DOMAIN nodes(g, h) = g.nodes \cup h.nodes /\ DOMAIN edges(g, h) = g.edges \cup h.edges
        OBVIOUS
    <2>2. \A n \in g.nodes \cup h.nodes :
             /\ nodes(g, h)[n] = "added" <=> n \notin g.nodes
             /\ nodes(g, h)[n] = "removed" <=> n \in g.nodes /\ n \notin h.nodes
             /\ nodes(g, h)[n] = "modified" <=>
                   n \in (g.nodes \cap h.nodes) \ {Root} /\ g.cel[n] # h.cel[n]
        OBVIOUS
    <2>3. \A e \in g.edges \cup h.edges :
             /\ edges(g, h)[e] = "added" <=> e \notin g.edges
             /\ edges(g, h)[e] = "removed" <=> e \in g.edges /\ e \notin h.edges
             /\ edges(g, h)[e] = "unchanged" <=> e \in g.edges \cap h.edges
        OBVIOUS
    <2> HIDE DEF nodes, edges
    <2> QED BY <2>1, <2>2, <2>3
<1> HIDE DEF nodes, edges
<1>5. /\ Is("added", d.node) = Is("removed", back.node) /\ Is("removed", d.node) = Is("added", back.node)
      /\ Is("added", d.node) = banner.added /\ Is("removed", d.node) = banner.removed
    BY <1>2, <1>3, <1>4
<1>6. Is("modified", d.node) = Is("modified", back.node)
    BY <1>2, <1>4
<1>7. Is("added", d.edge) = Is("removed", back.edge) /\ Is("removed", d.edge) = Is("added", back.edge)
    BY <1>2, <1>4
<1>8. /\ Is("unchanged", d.edge) \cup Is("added", d.edge) = b.edges
      /\ Is("unchanged", d.edge) \cup Is("removed", d.edge) = a.edges
    BY <1>2, <1>4
<1> QED BY <1>5, <1>6, <1>7, <1>8 DEF DiffSaysAll, a, b, d, back, banner

\* An RGD with a resource less has no other ids, and none of them twice.
LEMMA FewerResources ==
    ASSUME NEW rs \in ResourceLists, NEW i \in DOMAIN rs
    PROVE  RemoveAt(rs, i) \in ResourceLists /\ IdsOf(RemoveAt(rs, i)) \subseteq IdsOf(rs)
<1> DEFINE less == RemoveAt(rs, i)
           from(k) == IF k < i THEN k ELSE k + 1
<1>1. rs \in Seq(Resource) /\ \A j, k \in DOMAIN rs : rs[j].id = rs[k].id => j = k
    BY DEF ResourceLists
<1>2. /\ less \in Seq(Resource) /\ Len(less) = Len(rs) - 1
      /\ \A k \in DOMAIN less : less[k] = rs[from(k)]
    BY <1>1, OneRemoved
<1>3. i \in 1..Len(rs) /\ Len(rs) \in Nat
    BY <1>1
<1> HIDE DEF less
<1>4. \A k \in DOMAIN less : k \in 1..(Len(rs) - 1)
    BY <1>2
<1>5. /\ \A k \in DOMAIN less : from(k) \in DOMAIN rs
      /\ \A j, k \in DOMAIN less : from(j) = from(k) => j = k
    BY <1>1, <1>3, <1>4
<1> HIDE DEF from
<1>6. \A j, k \in DOMAIN less : less[j].id = less[k].id => j = k
    BY <1>1, <1>2, <1>5
<1>7. IdsOf(less) \subseteq IdsOf(rs)
    BY <1>2, <1>5 DEF IdsOf
<1> QED BY <1>2, <1>6, <1>7 DEF ResourceLists, less

\* The groups of a list are among the larger groups of a list with more ids.
LEMMA GroupsOfMore ==
    ASSUME NEW rs \in ResourceLists, NEW less \in ResourceLists, IdsOf(less) \subseteq IdsOf(rs),
           NEW g \in detectCollapseGroups(less)
    PROVE  \E h \in detectCollapseGroups(rs) : g \subseteq h
<1> DEFINE candidates(l) == {n \in IdsOf(l) : TypeOf[n] = "resource"}
           group(l, kind) == {n \in candidates(l) : KindOf[n] = kind}
           Repeats(s) == \/ Cardinality(s) >= 3
                         \/ Cardinality(s) = 2 /\ \A a, b \in s : Similar(a, b)
<1>1. ASSUME NEW l
      PROVE  detectCollapseGroups(l) = {s \in {group(l, KindOf[n]) : n \in candidates(l)} : Repeats(s)}
    BY Zenon DEF detectCollapseGroups, IdsOf
<1>2. candidates(less) \subseteq candidates(rs)
    OBVIOUS
<1>3. \A kind : group(less, kind) \subseteq group(rs, kind) /\ group(rs, kind) \subseteq IdsOf(rs)
    OBVIOUS
<1>4. IsFiniteSet(IdsOf(rs))
    BY ListedIdsAre, FS_Subset DEF NodesOf
<1> HIDE DEF candidates, group
<1>5. PICK n \in candidates(less) : g = group(less, KindOf[n])
    BY <1>1
<1>6. Repeats(g)
    BY <1>1
<1> DEFINE h == group(rs, KindOf[n])
<1>7. g \subseteq h /\ h \subseteq IdsOf(rs)
    BY <1>3, <1>5
<1> HIDE DEF h
<1>8. /\ IsFiniteSet(g) /\ IsFiniteSet(h) /\ Cardinality(g) <= Cardinality(h)
      /\ Cardinality(g) \in Nat /\ Cardinality(h) \in Nat
    BY <1>4, <1>7, FS_Subset, FS_CardinalityType
<1>9. Repeats(h)
    <2>1. CASE g = h
        BY <2>1, <1>6
    <2>2. CASE g # h
        <3>1. Cardinality(g) < Cardinality(h)
            BY <2>2, <1>7, <1>8, StrictSubset
        <3> QED BY <3>1, <1>6, <1>8
    <2> QED BY <2>1, <2>2
<1>10. h \in {group(rs, KindOf[m]) : m \in candidates(rs)}
    BY <1>2 DEF h
<1> HIDE DEF Repeats
<1> QED BY <1>1, <1>7, <1>9, <1>10

\* The advisor's groups grow with the RGD.
LEMMA AdvisorKeepsGroups ==
    ASSUME resources \in ResourceLists
    PROVE  GroupsGrow
<1>1. ASSUME NEW i \in DOMAIN resources, NEW g \in detectCollapseGroups(RemoveAt(resources, i))
      PROVE  \E h \in detectCollapseGroups(resources) : g \subseteq h
    BY FewerResources, GroupsOfMore
<1> QED BY <1>1 DEF GroupsGrow

\* The author's changes keep ids apart.
LEMMA AuthorStep ==
    ASSUME resources \in ResourceLists, DagNext
    PROVE  resources' \in ResourceLists
<1>1. resources \in Seq(Resource) /\ \A j, k \in DOMAIN resources : resources[j].id = resources[k].id => j = k
    BY DEF ResourceLists
<1>2. CASE AddResource
    <2>1. PICK r \in Resource : r.id \notin Declared /\ resources' = Append(resources, r)
        BY <1>2 DEF AddResource
    <2> DEFINE rs == Append(resources, r)
    <2>2. /\ rs \in Seq(Resource) /\ DOMAIN rs = DOMAIN resources \cup {Len(resources) + 1}
          /\ \A j \in DOMAIN resources : rs[j] = resources[j]
          /\ rs[Len(resources) + 1] = r
        BY <1>1
    <2>3. \A j \in DOMAIN resources : resources[j].id # r.id
        BY <2>1 DEF Declared
    <2> HIDE DEF rs
    <2>4. \A j, k \in DOMAIN rs : rs[j].id = rs[k].id => j = k
        BY <2>2, <2>3, <1>1
    <2>5. rs \in ResourceLists
        BY <2>2, <2>4 DEF ResourceLists
    <2> QED BY <2>1, <2>5 DEF rs
<1>3. CASE RemoveResource
    BY <1>3, FewerResources DEF RemoveResource, OneRemovedFrom
<1>4. CASE ChangeCel
    <2>1. PICK i \in DOMAIN resources, c \in Cels : resources' = [resources EXCEPT ![i].cel = c]
        BY <1>4 DEF ChangeCel, OneCelOf
    <2> DEFINE r == [resources[i] EXCEPT !.cel = c]
               rs == [resources EXCEPT ![i] = r]
    <2>2. resources[i] \in Resource
        BY <1>1
    <2>3. r \in Resource /\ r.id = resources[i].id
        BY <2>2 DEF Resource
    <2> HIDE DEF r
    <2>4. /\ rs \in Seq(Resource) /\ DOMAIN rs = DOMAIN resources
          /\ \A j \in DOMAIN resources : rs[j] = IF j = i THEN r ELSE resources[j]
        BY <1>1, <2>3
    <2> HIDE DEF rs
    <2>5. \A j \in DOMAIN resources : rs[j].id = resources[j].id
        BY <2>3, <2>4
    <2>6. rs \in ResourceLists
        BY <2>4, <2>5, <1>1 DEF ResourceLists
    <2>7. resources' = rs
        BY <2>1 DEF rs, r
    <2> QED BY <2>6, <2>7
<1> QED BY <1>2, <1>3, <1>4 DEF DagNext

\* For any ids, kinds, templates and number of resources: the graph is drawn right, the
\* difference to any revision says all, and the advisor's groups only grow.
THEOREM GraphAlwaysRight == DagSpec => []DagIsRight
<1> DEFINE IdsAreApart == resources \in ResourceLists
<1>1. DagInit => IdsAreApart
    BY DEF DagInit, ResourceLists
<1>2. IdsAreApart /\ [DagNext]_dagVars => IdsAreApart'
    BY AuthorStep DEF dagVars
<1>3. IdsAreApart => DagIsRight
    BY GraphDrawn, AnyDiffSaysAll, AdvisorKeepsGroups DEF DagIsRight, DiffIsFaithful
<1> QED BY <1>1, <1>2, <1>3, PTL DEF DagSpec
=============================================================================
