--------------------------- MODULE InstanceDetail ---------------------------
(***************************************************************************)
(* The live page of one instance, web/src/pages/InstanceDetail.tsx, on the *)
(* polling hook.  Beside the hook's poll of the instance and its events it *)
(* polls the children on an interval of its own, fetches the RGD once per  *)
(* name, and latches "instance not found" in a ref.                        *)
(*                                                                         *)
(* The router keeps the page mounted when the path changes from one        *)
(* instance to another (a jump in the history), so what the page holds in  *)
(* states and refs outlives the navigation unless an effect resets it.     *)
(***************************************************************************)
EXTENDS UsePolling

CONSTANTS
  RGDs,    (* Names of RGDs.                                               *)
  RgdOf,   (* Per route: the name of its RGD.                              *)
  NoRGD,   (* Stands for null.                                             *)
  MaxSide  (* Bound: requests for one route's children, or one RGD, in flight. *)

ASSUME PageAssumption ==
  /\ RgdOf \in [Routes -> RGDs]
  /\ NoRGD \notin RGDs
  /\ MaxSide \in Nat \ {0}

VARIABLES
  children,          (* Whose children are shown, NoRoute for none yet.    *)
  childrenInFlight,  (* Per route: the requests for children in flight.    *)
  rgd,               (* Whose RGD is shown, NoRGD for none.                *)
  rgdInFlight,       (* Per RGD: the requests for it in flight.            *)
  goneRef,           (* instanceGoneRef.current.                           *)
  banner             (* The last render showed "Instance not found".       *)

renderVars == <<goneRef, banner>>
pageVars == <<children, childrenInFlight, rgd, rgdInFlight, renderVars>>
vars == <<pollingVars, pageVars>>

TypeOK ==
  /\ PollingTypeOK
  /\ children \in Routes \union {NoRoute}
  /\ childrenInFlight \in [Routes -> 0..MaxSide]
  /\ rgd \in RGDs \union {NoRGD}
  /\ rgdInFlight \in [RGDs -> 0..MaxSide]
  /\ goneRef \in BOOLEAN
  /\ banner \in BOOLEAN

NoRGDInFlight == [g \in RGDs |-> 0]

Init ==
  /\ PollingInit
  /\ children = NoRoute
  /\ childrenInFlight = NoneInFlight
  /\ rgd = NoRGD
  /\ rgdInFlight = NoRGDInFlight
  /\ goneRef = FALSE
  /\ banner = FALSE
-----------------------------------------------------------------------------
(* A wrong effect, to test the properties: it latches nothing.             *)
RenderedNoLatch ==
  /\ banner' = goneRef
  /\ UNCHANGED goneRef

(* The page is rendered: the banner is taken from the ref as it is, and    *)
(* only then the effect latches an error that says "not found".            *)
Rendered ==
  /\ banner' = goneRef
  /\ goneRef' = (goneRef \/ error' = "notFound")

(* A set of states that changes none of them renders nothing.              *)
RenderedIf(changed) ==
  \/ changed /\ Rendered
  \/ ~changed /\ UNCHANGED renderVars

FetchChildren(r) ==
  /\ childrenInFlight[r] < MaxSide
  /\ childrenInFlight' = [childrenInFlight EXCEPT ![r] = @ + 1]

(* getRGD, when the name of the RGD has changed.                           *)
FetchRGD(r) ==
  IF route # NoRoute /\ RgdOf[route] = RgdOf[r]
  THEN UNCHANGED rgdInFlight
  ELSE /\ rgdInFlight[RgdOf[r]] < MaxSide
       /\ rgdInFlight' = [rgdInFlight EXCEPT ![RgdOf[r]] = @ + 1]

Open(r) ==
  /\ PollingMounts(r)
  /\ FetchChildren(r)
  /\ FetchRGD(r)
  /\ UNCHANGED <<children, rgd, renderVars>>

Navigate(r) ==
  /\ PollingNavigates(r)
  /\ FetchChildren(r)
  /\ FetchRGD(r)
  /\ Rendered
  /\ UNCHANGED <<children, rgd>>

Leave ==
  /\ PollingUnmounts
  /\ children' = NoRoute
  /\ childrenInFlight' = NoneInFlight
  /\ rgd' = NoRGD
  /\ rgdInFlight' = NoRGDInFlight
  /\ goneRef' = FALSE
  /\ banner' = FALSE

PressPause == Pause /\ Rendered /\ UNCHANGED <<children, childrenInFlight, rgd, rgdInFlight>>

PressResume == Resume /\ Rendered /\ UNCHANGED <<children, childrenInFlight, rgd, rgdInFlight>>

(* The tab's visibility is no state of the page: nothing is rendered.      *)
Hide == TabHidden /\ UNCHANGED pageVars

Show == TabShown /\ UNCHANGED pageVars

Poll == IntervalFires /\ UNCHANGED pageVars

PressRefresh == Refresh /\ UNCHANGED pageVars

(* A click on a node: the page is rendered for a reason of its own.        *)
Click ==
  /\ route # NoRoute
  /\ UNCHANGED <<pollingVars, children, childrenInFlight, rgd, rgdInFlight>>
  /\ Rendered

Polled(r) ==
  /\ FetchOk(r)
  /\ Rendered
  /\ UNCHANGED <<children, childrenInFlight, rgd, rgdInFlight>>

PollFailed(r, e) ==
  /\ FetchFailed(r, e)
  /\ RenderedIf(<<error, loading>>' # <<error, loading>>)
  /\ UNCHANGED <<children, childrenInFlight, rgd, rgdInFlight>>
-----------------------------------------------------------------------------
(* The interval of the children runs as long as the page is mounted; the   *)
(* pause and the hidden tab do not stop it.                                *)
ChildrenIntervalFires ==
  /\ route # NoRoute
  /\ FetchChildren(route)
  /\ UNCHANGED <<pollingVars, children, rgd, rgdInFlight, renderVars>>

ChildrenEnded(r) ==
  /\ childrenInFlight[r] > 0
  /\ childrenInFlight' = [childrenInFlight EXCEPT ![r] = @ - 1]
  /\ UNCHANGED <<pollingVars, rgd, rgdInFlight>>

(* A new array: the page is rendered in any case.                          *)
ChildrenOk(r) ==
  /\ ChildrenEnded(r)
  /\ children' = r
  /\ Rendered

(* Only the first failure changes childrenLoading.                         *)
ChildrenFailed(r) ==
  /\ ChildrenEnded(r)
  /\ UNCHANGED children
  /\ Rendered \/ UNCHANGED renderVars

RgdEnded(g) ==
  /\ rgdInFlight[g] > 0
  /\ rgdInFlight' = [rgdInFlight EXCEPT ![g] = @ - 1]
  /\ UNCHANGED <<pollingVars, children, childrenInFlight>>

(* Whichever ends last is kept; nothing fetches the RGD again.             *)
RgdOk(g) ==
  /\ RgdEnded(g)
  /\ rgd' = g
  /\ Rendered

RgdFailed(g) ==
  /\ RgdEnded(g)
  /\ UNCHANGED rgd
  /\ Rendered \/ UNCHANGED renderVars
-----------------------------------------------------------------------------
Next ==
  \/ \E r \in Routes :
       \/ Open(r) \/ Navigate(r)
       \/ Polled(r) \/ \E e \in Errors \ {"none"} : PollFailed(r, e)
       \/ ChildrenOk(r) \/ ChildrenFailed(r)
  \/ \E g \in RGDs : RgdOk(g) \/ RgdFailed(g)
  \/ Leave \/ PressPause \/ PressResume \/ Hide \/ Show \/ PressRefresh \/ Click
  \/ Poll \/ ChildrenIntervalFires

Spec == Init /\ [][Next]_vars

(* Every request ends: api.ts aborts it after 30 s.                        *)
PollEnds(r) == Polled(r) \/ \E e \in Errors \ {"none"} : PollFailed(r, e)
ChildrenEnds(r) == ChildrenOk(r) \/ ChildrenFailed(r)

FairSpec ==
  /\ Spec
  /\ \A r \in Routes : WF_vars(PollEnds(r)) /\ WF_vars(ChildrenEnds(r))
-----------------------------------------------------------------------------
(***************************************************************************)
(* Properties.                                                             *)
(***************************************************************************)

(* Everything on the page is of the route shown, and nothing is in flight  *)
(* that could change that.                                                 *)
Settled ==
  /\ data \in {route, NoRoute}
  /\ children \in {route, NoRoute}
  /\ route # NoRoute => rgd \in {RgdOf[route], NoRGD}
  /\ \A r \in Routes \ {route} : inFlight[r] = 0 /\ childrenInFlight[r] = 0
  /\ \A g \in RGDs : rgdInFlight[g] > 0 => route # NoRoute /\ g = RgdOf[route]

(* A settled page is unsettled by a navigation only: no interval, refresh, *)
(* pause, tab change or answer, in whatever order, brings another          *)
(* instance's data, children or RGD in.                                    *)
OnlyNavigationUnsettles == [][Settled /\ route' \in {route, NoRoute} => Settled']_vars

(* The answers of an earlier route do not win for good: if the page stays  *)
(* on a route, is not paused, and the route's own polls keep succeeding,   *)
(* the data shown is in the end that route's.  The same holds for the      *)
(* children, even under a pause.  (It does not hold for the RGD.)          *)
SettlesOnRoute ==
  \A r \in Routes :
    /\ <>[](route = r /\ ~paused) /\ []<><<Polled(r)>>_vars => <>[](data = r)
    /\ <>[](route = r) /\ []<><<ChildrenOk(r)>>_vars => <>[](children = r)

(* "Not found" is told: the effect that latches it renders nothing itself, *)
(* but the next answer with children shows the banner, unless the error    *)
(* is gone before.                                                         *)
NotFoundIsTold ==
  (\A r \in Routes : []<>(route = r) => []<><<ChildrenOk(r)>>_vars)
    => (error = "notFound" ~> banner \/ error # "notFound")
-----------------------------------------------------------------------------
(* What makes them inductive.                                              *)
(* A page that is not mounted holds nothing.                               *)
UnmountedIsBlank ==
  route = NoRoute =>
    /\ ~paused /\ data = NoRoute /\ children = NoRoute /\ rgd = NoRGD
    /\ inFlight = NoneInFlight
    /\ childrenInFlight = NoneInFlight
    /\ rgdInFlight = NoRGDInFlight

PollingInv ==
  /\ TypeOK
  /\ OneInterval
  /\ LoadingHasFetch
  /\ UnmountedIsBlank
-----------------------------------------------------------------------------
(***************************************************************************)
(* What comments and labels of the code say, and the code does not do.     *)
(***************************************************************************)

(* usePolling.ts resets its data when the route changes, since "without    *)
(* this reset, the previous resource's data is briefly shown for the new   *)
(* route while the first fetch is in-flight".                              *)
ShowsItsRoute == data \in {route, NoRoute}

=============================================================================
