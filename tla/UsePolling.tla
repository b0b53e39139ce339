----------------------------- MODULE UsePolling -----------------------------
(***************************************************************************)
(* The polling hook of web/src/hooks/usePolling.ts in a page whose route   *)
(* names what it polls.  The options are those of its one caller: enabled, *)
(* pausing on a hidden tab, an interval of five seconds.                   *)
(*                                                                         *)
(* One event of the browser, a click, a navigation, a timer, an answer, is *)
(* one step together with the render and the effects it causes: React runs *)
(* them before it handles the next event that reads their state.           *)
(*                                                                         *)
(* What was fetched is told apart only by whose it is.  Requests in flight *)
(* for one route are interchangeable, so they are counted.                 *)
(***************************************************************************)
EXTENDS Naturals, FiniteSets

CONSTANTS
  Routes,       (* The values of the dependencies: routes the page can show. *)
  NoRoute,      (* No route: the page is not mounted, or there is no data. *)
  MaxInFlight   (* Bound: fetches in flight for one route.                  *)

ASSUME PollingAssumption ==
  /\ NoRoute \notin Routes
  /\ MaxInFlight \in Nat \ {0}

VARIABLES
  route,      (* The route shown, NoRoute when the page is not mounted.    *)
  visible,    (* document.visibilityState is "visible".                    *)
  paused,     (* The manual pause.                                         *)
  timerRef,   (* 1 when timerRef.current holds an interval, otherwise 0.   *)
  live,       (* How many intervals of the hook the browser still runs.    *)
  inFlight,   (* Per route: the fetches in flight for it.                  *)
  data,       (* Whose data is shown, NoRoute for null.                    *)
  error,      (* "none", "notFound" or "other".                            *)
  loading     (* The first fetch since the last reset has not ended.       *)

resultVars == <<data, error, loading>>
pollingVars == <<route, visible, paused, timerRef, live, inFlight, resultVars>>

Errors == {"none", "notFound", "other"}

PollingTypeOK ==
  /\ route \in Routes \union {NoRoute}
  /\ visible \in BOOLEAN
  /\ paused \in BOOLEAN
  /\ timerRef \in 0..1
  /\ live \in Nat
  /\ inFlight \in [Routes -> 0..MaxInFlight]
  /\ data \in Routes \union {NoRoute}
  /\ error \in Errors
  /\ loading \in BOOLEAN

NoneInFlight == [r \in Routes |-> 0]

(* A page that is not mounted; the tab may be in the background.           *)
PollingInit ==
  /\ route = NoRoute
  /\ visible \in BOOLEAN
  /\ paused = FALSE
  /\ timerRef = 0
  /\ live = 0
  /\ inFlight = NoneInFlight
  /\ data = NoRoute
  /\ error = "none"
  /\ loading = TRUE
-----------------------------------------------------------------------------
(* clearInterval of the interval in timerRef, if there is one.             *)
StopInterval ==
  /\ live' = live - timerRef
  /\ timerRef' = 0

(* A wrong startInterval, to test the properties: it forgets the interval  *)
(* that runs already.                                                      *)
StartAnother ==
  /\ live' = live + 1
  /\ timerRef' = 1

StartInterval ==
  /\ live' = live - timerRef + 1
  /\ timerRef' = 1

(* A wrong fetch, to test the properties: its callback captured the        *)
(* fetcher of some earlier render.                                         *)
FetchEarlier(r) ==
  \E q \in Routes :
    /\ inFlight[q] < MaxInFlight
    /\ inFlight' = [inFlight EXCEPT ![q] = @ + 1]

(* A fetch goes out for the route r of the latest render.                  *)
Fetch(r) ==
  /\ inFlight[r] < MaxInFlight
  /\ inFlight' = [inFlight EXCEPT ![r] = @ + 1]

(* The main effect, run anew for route r: it blanks what was shown.        *)
RestartPolling(r) ==
  /\ data' = NoRoute
  /\ error' = "none"
  /\ loading' = TRUE
  /\ Fetch(r)
  /\ StartInterval

(* The page is opened on route r, in a tab that may be hidden.             *)
PollingMounts(r) ==
  /\ route = NoRoute
  /\ route' = r
  /\ RestartPolling(r)
  /\ UNCHANGED <<visible, paused>>

(* A mounted page is taken to route r.  Under a manual pause the effect    *)
(* returns early: nothing is blanked and nothing fetched.                  *)
PollingNavigates(r) ==
  /\ route \notin {r, NoRoute}
  /\ route' = r
  /\ \/ ~paused /\ RestartPolling(r)
     \/ /\ paused
        /\ StopInterval
        /\ UNCHANGED <<inFlight, resultVars>>
  /\ UNCHANGED <<visible, paused>>

(* The page is left.  Its requests end without effect.                     *)
PollingUnmounts ==
  /\ route # NoRoute
  /\ route' = NoRoute
  /\ paused' = FALSE
  /\ StopInterval
  /\ inFlight' = NoneInFlight
  /\ data' = NoRoute
  /\ error' = "none"
  /\ loading' = TRUE
  /\ UNCHANGED visible

(* pause()                                                                 *)
Pause ==
  /\ route # NoRoute
  /\ ~paused
  /\ paused' = TRUE
  /\ StopInterval
  /\ UNCHANGED <<route, visible, inFlight, resultVars>>

(* resume()                                                                *)
Resume ==
  /\ route # NoRoute
  /\ paused
  /\ paused' = FALSE
  /\ RestartPolling(route)
  /\ UNCHANGED <<route, visible>>

(* The tab goes to the background.                                         *)
TabHidden ==
  /\ visible
  /\ visible' = FALSE
  /\ StopInterval
  /\ UNCHANGED <<route, paused, inFlight, resultVars>>

(* The tab comes back: only a page that is not paused polls again.         *)
TabShown ==
  /\ ~visible
  /\ visible' = TRUE
  /\ \/ /\ route # NoRoute /\ ~paused
        /\ Fetch(route)
        /\ StartInterval
     \/ /\ route = NoRoute \/ paused
        /\ UNCHANGED <<inFlight, timerRef, live>>
  /\ UNCHANGED <<route, paused, resultVars>>

(* An interval fires, whether or not the last fetch has ended; or the      *)
(* refresh button is pressed.                                              *)
IntervalFires ==
  /\ live > 0
  /\ route # NoRoute
  /\ Fetch(route)
  /\ UNCHANGED <<route, visible, paused, timerRef, live, resultVars>>

Refresh ==
  /\ route # NoRoute
  /\ Fetch(route)
  /\ UNCHANGED <<route, visible, paused, timerRef, live, resultVars>>

(* A fetch for r ends.  Whichever ends last is shown, whatever the route.  *)
Ended(r) ==
  /\ inFlight[r] > 0
  /\ inFlight' = [inFlight EXCEPT ![r] = @ - 1]
  /\ UNCHANGED <<route, visible, paused, timerRef, live>>

FetchOk(r) ==
  /\ Ended(r)
  /\ data' = r
  /\ error' = "none"
  /\ loading' = FALSE

(* A wrong catch, to test the properties: the spinner is not put out.      *)
FetchFailedLoading(r, e) ==
  /\ Ended(r)
  /\ error' = e
  /\ UNCHANGED <<data, loading>>

FetchFailed(r, e) ==
  /\ Ended(r)
  /\ error' = e
  /\ loading' = FALSE
  /\ UNCHANGED data
-----------------------------------------------------------------------------
(* Properties of the hook.  The page that uses it adds its own.            *)

(* The page polls exactly when it should: an interval is lost to no        *)
(* sequence of pauses, navigations and tab changes, and none runs beside   *)
(* another, or on after a pause or after the page was left.  On a visible  *)
(* page that is not paused one runs.                                       *)
OneInterval ==
  /\ live = timerRef
  /\ route = NoRoute \/ paused => live = 0
  /\ route # NoRoute /\ ~paused /\ visible => live = 1

(* The page never waits for nothing: as long as it says that it is         *)
(* loading, a fetch is in flight that will end that, however navigations   *)
(* and pauses fall.                                                        *)
LoadingHasFetch ==
  route # NoRoute /\ loading => \E r \in Routes : inFlight[r] > 0

=============================================================================
