------------------------ MODULE InstanceDetail_proofs ------------------------
(***************************************************************************)
(* Proofs about InstanceDetail, for every set of routes and RGDs and every *)
(* number of requests in flight.                                           *)
(***************************************************************************)
EXTENDS InstanceDetail, TLAPS

(* Counting a request of one key in or out keeps the counters' type.       *)
LEMMA CountIn ==
  ASSUME NEW S, NEW n \in Nat, NEW f \in [S -> 0..n], NEW x \in S, f[x] < n
  PROVE  /\ [f EXCEPT ![x] = @ + 1] \in [S -> 0..n]
         /\ [f EXCEPT ![x] = @ + 1][x] > 0
         /\ \A y \in S \ {x} : [f EXCEPT ![x] = @ + 1][y] = f[y]
         /\ \A y \in S : f[y] > 0 => [f EXCEPT ![x] = @ + 1][y] > 0
OBVIOUS

\* One fetch fewer is counted out.
LEMMA CountOut ==
  ASSUME NEW S, NEW n \in Nat, NEW f \in [S -> 0..n], NEW x \in S, f[x] > 0
  PROVE  /\ [f EXCEPT ![x] = @ - 1] \in [S -> 0..n]
         /\ \A y \in S : [f EXCEPT ![x] = @ - 1][y] > 0 => f[y] > 0
OBVIOUS

(* A fetch of the hook keeps the type, and leaves a fetch in flight.       *)
LEMMA FetchCounts ==
  ASSUME PollingTypeOK, NEW r \in Routes, Fetch(r)
  PROVE  /\ inFlight' \in [Routes -> 0..MaxInFlight]
         /\ inFlight'[r] > 0
         /\ \A q \in Routes \ {r} : inFlight'[q] = inFlight[q]
         /\ \A q \in Routes : inFlight[q] > 0 => inFlight'[q] > 0
BY CountIn, PollingAssumption DEF PollingTypeOK, Fetch

\* A fetch that ends is counted out.
LEMMA EndedCounts ==
  ASSUME PollingTypeOK, NEW r \in Routes, Ended(r)
  PROVE  /\ inFlight' \in [Routes -> 0..MaxInFlight]
         /\ \A q \in Routes : inFlight'[q] > 0 => inFlight[q] > 0
BY CountOut, PollingAssumption DEF PollingTypeOK, Ended

(* The hook's part of a step, by what it does.                             *)
PollingStep ==
  \/ \E r \in Routes : PollingMounts(r) \/ PollingNavigates(r) \/ FetchOk(r)
                       \/ \E e \in Errors \ {"none"} : FetchFailed(r, e)
  \/ PollingUnmounts \/ Pause \/ Resume \/ TabHidden \/ TabShown
  \/ IntervalFires \/ Refresh
  \/ UNCHANGED pollingVars

\* Every action of the page is, for the hook, one of its own steps.
LEMMA StepIsPollingStep == [Next]_vars => PollingStep
BY DEF Next, vars, PollingStep, Open, Navigate, Polled, PollFailed, ChildrenOk,
       ChildrenFailed, ChildrenEnded, RgdOk, RgdFailed, RgdEnded, Leave, PressPause,
       PressResume, Hide, Show, PressRefresh, Click, Poll, ChildrenIntervalFires

(* What the hook's invariants say, and what they rest on.                  *)
HookInv == PollingTypeOK /\ OneInterval /\ LoadingHasFetch /\ (route = NoRoute => ~paused)

\* A restart leaves exactly one interval.
LEMMA Restarted ==
  ASSUME HookInv, NEW r \in Routes, RestartPolling(r)
  PROVE  /\ inFlight' \in [Routes -> 0..MaxInFlight]
         /\ inFlight'[r] > 0
         /\ timerRef' \in 0..1 /\ live' \in Nat /\ live' = 1 /\ timerRef' = 1
         /\ data' \in Routes \union {NoRoute} /\ error' \in Errors /\ loading' \in BOOLEAN
<1>1. PollingTypeOK /\ Fetch(r) /\ live = timerRef
  BY DEF HookInv, OneInterval, RestartPolling
<1>2. timerRef \in 0..1 /\ live \in Nat
  BY <1>1 DEF PollingTypeOK
<1>3. timerRef' = 1 /\ live' = 1
  BY <1>1, <1>2 DEF RestartPolling, StartInterval
<1>4. inFlight' \in [Routes -> 0..MaxInFlight] /\ inFlight'[r] > 0
  BY <1>1, FetchCounts
<1> QED
  BY <1>3, <1>4 DEF RestartPolling, Errors

\* A stop leaves none.
LEMMA Stopped ==
  ASSUME HookInv, StopInterval
  PROVE  timerRef' = 0 /\ live' = 0
<1>1. live = timerRef /\ timerRef \in 0..1
  BY DEF HookInv, OneInterval, PollingTypeOK
<1> QED
  BY <1>1 DEF StopInterval

(* Every step of the hook keeps its invariants.                            *)
LEMMA HookStep == HookInv /\ PollingStep => HookInv'
<1> SUFFICES ASSUME HookInv, PollingStep
             PROVE  HookInv'
  OBVIOUS
<1> USE DEF HookInv, PollingTypeOK, OneInterval, LoadingHasFetch
<1>1. ASSUME NEW r \in Routes, PollingMounts(r)
      PROVE  HookInv'
  <2>1. RestartPolling(r) /\ route' = r /\ paused' = paused /\ visible' = visible
    BY <1>1 DEF PollingMounts
  <2>2. r # NoRoute
    BY PollingAssumption
  <2> QED
    BY <2>1, <2>2, Restarted, <1>1 DEF PollingMounts
<1>2. ASSUME NEW r \in Routes, PollingNavigates(r)
      PROVE  HookInv'
  <2>1. r # NoRoute /\ route' = r /\ UNCHANGED <<visible, paused>>
    BY <1>2, PollingAssumption DEF PollingNavigates
  <2>2. CASE ~paused /\ RestartPolling(r)
    BY <2>1, <2>2, Restarted
  <2>3. CASE paused /\ StopInterval /\ UNCHANGED <<inFlight, resultVars>>
    <3>1. timerRef' = 0 /\ live' = 0
      BY <2>3, Stopped
    <3>2. loading' => \E q \in Routes : inFlight'[q] > 0
      BY <1>2, <2>3 DEF PollingNavigates, resultVars
    <3> QED
      BY <2>1, <2>3, <3>1, <3>2 DEF resultVars
  <2> QED
    BY <1>2, <2>2, <2>3 DEF PollingNavigates
<1>3. ASSUME NEW r \in Routes, FetchOk(r) \/ \E e \in Errors \ {"none"} : FetchFailed(r, e)
      PROVE  HookInv'
  <2>1. Ended(r) /\ loading' = FALSE
    BY <1>3 DEF FetchOk, FetchFailed
  <2>2. inFlight' \in [Routes -> 0..MaxInFlight]
    BY <2>1, EndedCounts
  <2>3. data' \in Routes \union {NoRoute} /\ error' \in Errors
    BY <1>3 DEF FetchOk, FetchFailed, Errors
  <2> QED
    BY <2>1, <2>2, <2>3 DEF Ended
<1>4. CASE PollingUnmounts
  <2>1. timerRef' = 0 /\ live' = 0
    BY <1>4, Stopped DEF PollingUnmounts
  <2>2. inFlight' \in [Routes -> 0..MaxInFlight]
    BY <1>4, PollingAssumption DEF PollingUnmounts, NoneInFlight
  <2>3. PollingTypeOK'
    <3>1. timerRef' \in 0..1 /\ live' \in Nat
      BY <2>1
    <3>2. paused' \in BOOLEAN /\ visible' \in BOOLEAN /\ loading' \in BOOLEAN
      BY <1>4 DEF PollingUnmounts
    <3>3. route' = NoRoute /\ data' = NoRoute /\ error' \in Errors
      BY <1>4 DEF PollingUnmounts, Errors
    <3> QED
      BY <2>2, <3>1, <3>2, <3>3
  <2> QED
    BY <1>4, <2>1, <2>3 DEF PollingUnmounts
<1>5. CASE Pause
  <2>1. timerRef' = 0 /\ live' = 0
    BY <1>5, Stopped DEF Pause
  <2> QED
    BY <1>5, <2>1 DEF Pause, resultVars
<1>6. CASE Resume
  <2>1. route \in Routes /\ route' = route /\ paused' = FALSE /\ visible' = visible
    BY <1>6 DEF Resume
  <2> QED
    BY <1>6, <2>1, Restarted DEF Resume
<1>7. CASE TabHidden
  <2>1. timerRef' = 0 /\ live' = 0
    BY <1>7, Stopped DEF TabHidden
  <2>2. visible' = FALSE /\ UNCHANGED <<route, paused, inFlight, data, error, loading>>
    BY <1>7 DEF TabHidden, resultVars
  <2>3. PollingTypeOK'
    <3>1. visible' \in BOOLEAN
      BY <2>2
    <3>2. timerRef' \in 0..1 /\ live' \in Nat
      BY <2>1
    <3> QED
      BY <2>2, <3>1, <3>2
  <2>4. OneInterval'
    BY <2>1, <2>2
  <2>5. LoadingHasFetch'
    BY <2>2
  <2> QED
    BY <2>2, <2>3, <2>4, <2>5
<1>8. CASE TabShown
  <2>1. CASE route # NoRoute /\ ~paused /\ Fetch(route) /\ StartInterval
    <3>1. route \in Routes
      BY <2>1
    <3>2. live' = 1 /\ timerRef' = 1
      BY <2>1 DEF StartInterval
    <3>3. inFlight' \in [Routes -> 0..MaxInFlight] /\ inFlight'[route] > 0
      BY <2>1, <3>1, FetchCounts
    <3> QED
      BY <1>8, <2>1, <3>1, <3>2, <3>3 DEF TabShown, resultVars
  <2>2. CASE (route = NoRoute \/ paused) /\ UNCHANGED <<inFlight, timerRef, live>>
    BY <1>8, <2>2 DEF TabShown, resultVars
  <2> QED
    BY <1>8, <2>1, <2>2 DEF TabShown
<1>9. CASE IntervalFires \/ Refresh
  <2>1. route \in Routes /\ Fetch(route)
    BY <1>9 DEF IntervalFires, Refresh
  <2>2. inFlight' \in [Routes -> 0..MaxInFlight] /\ inFlight'[route] > 0
    BY <2>1, FetchCounts
  <2> QED
    BY <1>9, <2>1, <2>2 DEF IntervalFires, Refresh, resultVars
<1>10. CASE UNCHANGED pollingVars
  BY <1>10 DEF pollingVars, resultVars
<1> QED
  BY <1>1, <1>2, <1>3, <1>4, <1>5, <1>6, <1>7, <1>8, <1>9, <1>10 DEF PollingStep

(* The types of the page's own state are kept.                             *)
PageTypeOK ==
  /\ children \in Routes \union {NoRoute}
  /\ childrenInFlight \in [Routes -> 0..MaxSide]
  /\ rgd \in RGDs \union {NoRGD}
  /\ rgdInFlight \in [RGDs -> 0..MaxSide]
  /\ goneRef \in BOOLEAN
  /\ banner \in BOOLEAN

\* A render keeps the types of the banner.
LEMMA RenderType ==
  ASSUME PageTypeOK, Rendered \/ UNCHANGED renderVars
  PROVE  goneRef' \in BOOLEAN /\ banner' \in BOOLEAN
BY DEF PageTypeOK, Rendered, renderVars

\* The fetches of children and RGD change their own slots.
LEMMA SideFetches ==
  ASSUME PageTypeOK, NEW r \in Routes
  PROVE  /\ FetchChildren(r) =>
              /\ childrenInFlight' \in [Routes -> 0..MaxSide]
              /\ \A q \in Routes \ {r} : childrenInFlight'[q] = childrenInFlight[q]
         /\ FetchRGD(r) => rgdInFlight' \in [RGDs -> 0..MaxSide]
<1>1. MaxSide \in Nat /\ RgdOf[r] \in RGDs
  BY PageAssumption
<1>2. FetchChildren(r) =>
        /\ childrenInFlight' \in [Routes -> 0..MaxSide]
        /\ \A q \in Routes \ {r} : childrenInFlight'[q] = childrenInFlight[q]
  BY <1>1, CountIn DEF PageTypeOK, FetchChildren
<1>3. FetchRGD(r) => rgdInFlight' \in [RGDs -> 0..MaxSide]
  BY <1>1, CountIn DEF PageTypeOK, FetchRGD
<1> QED
  BY <1>2, <1>3

\* So do their ends.
LEMMA SideEnds ==
  ASSUME PageTypeOK
  PROVE  /\ \A r \in Routes : ChildrenEnded(r) =>
              /\ childrenInFlight' \in [Routes -> 0..MaxSide]
              /\ \A q \in Routes : childrenInFlight'[q] > 0 => childrenInFlight[q] > 0
         /\ \A g \in RGDs : RgdEnded(g) =>
              /\ rgdInFlight' \in [RGDs -> 0..MaxSide]
              /\ \A h \in RGDs : rgdInFlight'[h] > 0 => rgdInFlight[h] > 0
<1>1. MaxSide \in Nat
  BY PageAssumption
<1>2. ASSUME NEW r \in Routes, ChildrenEnded(r)
      PROVE  /\ childrenInFlight' \in [Routes -> 0..MaxSide]
             /\ \A q \in Routes : childrenInFlight'[q] > 0 => childrenInFlight[q] > 0
  BY <1>1, <1>2, CountOut DEF PageTypeOK, ChildrenEnded
<1>3. ASSUME NEW g \in RGDs, RgdEnded(g)
      PROVE  /\ rgdInFlight' \in [RGDs -> 0..MaxSide]
             /\ \A h \in RGDs : rgdInFlight'[h] > 0 => rgdInFlight[h] > 0
  BY <1>1, <1>3, CountOut DEF PageTypeOK, RgdEnded
<1> QED
  BY <1>2, <1>3

\* Every step keeps the types, and the page blank while unmounted.
LEMMA PageStep ==
  PollingTypeOK /\ PageTypeOK /\ UnmountedIsBlank /\ [Next]_vars
    => PageTypeOK' /\ UnmountedIsBlank'
<1> SUFFICES ASSUME PollingTypeOK, PageTypeOK, UnmountedIsBlank, [Next]_vars
             PROVE  PageTypeOK' /\ UnmountedIsBlank'
  OBVIOUS
<1>1. ASSUME NEW r \in Routes, Open(r) \/ Navigate(r)
      PROVE  PageTypeOK' /\ UnmountedIsBlank'
  <2>1. childrenInFlight' \in [Routes -> 0..MaxSide] /\ rgdInFlight' \in [RGDs -> 0..MaxSide]
    BY <1>1, SideFetches DEF Open, Navigate
  <2>2. goneRef' \in BOOLEAN /\ banner' \in BOOLEAN
    BY <1>1, RenderType DEF Open, Navigate
  <2>3. route' # NoRoute
    BY <1>1, PollingAssumption DEF Open, Navigate, PollingMounts, PollingNavigates
  <2> QED
    BY <1>1, <2>1, <2>2, <2>3 DEF Open, Navigate, PageTypeOK, UnmountedIsBlank
<1>2. CASE Leave
  <2>1. childrenInFlight' \in [Routes -> 0..MaxSide] /\ rgdInFlight' \in [RGDs -> 0..MaxSide]
    BY <1>2, PageAssumption DEF Leave, NoneInFlight, NoRGDInFlight
  <2> QED
    BY <1>2, <2>1 DEF Leave, PollingUnmounts, PageTypeOK, UnmountedIsBlank, NoneInFlight
<1>3. ASSUME \/ PressPause \/ PressResume \/ Click
             \/ \E r \in Routes : Polled(r) \/ \E e \in Errors \ {"none"} : PollFailed(r, e)
      PROVE  PageTypeOK' /\ UnmountedIsBlank'
  <2>1. goneRef' \in BOOLEAN /\ banner' \in BOOLEAN
    BY <1>3, RenderType DEF PressPause, PressResume, Click, Polled, PollFailed, RenderedIf
  <2>2. UNCHANGED <<children, childrenInFlight, rgd, rgdInFlight>>
    BY <1>3 DEF PressPause, PressResume, Click, Polled, PollFailed
  <2>3. route # NoRoute /\ route' = route
    <3>1. ASSUME NEW r \in Routes, Ended(r)
          PROVE  route # NoRoute /\ route' = route
      BY <3>1 DEF Ended, UnmountedIsBlank, NoneInFlight
    <3> QED
      BY <1>3, <3>1 DEF PressPause, PressResume, Click, Pause, Resume, Polled, PollFailed,
                        FetchOk, FetchFailed, pollingVars
  <2> QED
    BY <2>1, <2>2, <2>3 DEF PageTypeOK, UnmountedIsBlank
<1>4. CASE Hide \/ Show \/ Poll \/ PressRefresh \/ UNCHANGED vars
  <2>1. UNCHANGED <<children, childrenInFlight, rgd, rgdInFlight, goneRef, banner, route, paused>>
    BY <1>4 DEF Hide, Show, Poll, PressRefresh, TabHidden, TabShown, IntervalFires, Refresh,
                vars, pageVars, renderVars, pollingVars
  <2>2. route = NoRoute => UNCHANGED <<data, inFlight>>
    BY <1>4 DEF Hide, Show, Poll, PressRefresh, TabHidden, TabShown, IntervalFires, Refresh,
                vars, pollingVars, resultVars
  <2> QED
    BY <2>1, <2>2 DEF PageTypeOK, UnmountedIsBlank
<1>5. ASSUME ChildrenIntervalFires
      PROVE  PageTypeOK' /\ UnmountedIsBlank'
  <2>1. route # NoRoute /\ UNCHANGED <<route, children, rgd, rgdInFlight, goneRef, banner>>
    BY <1>5 DEF ChildrenIntervalFires, pollingVars, renderVars
  <2>2. route \in Routes /\ FetchChildren(route)
    BY <1>5, <2>1 DEF ChildrenIntervalFires, PollingTypeOK
  <2>3. childrenInFlight' \in [Routes -> 0..MaxSide]
    BY <2>2, SideFetches
  <2> QED
    BY <2>1, <2>3 DEF PageTypeOK, UnmountedIsBlank
<1>6. ASSUME NEW r \in Routes, ChildrenOk(r) \/ ChildrenFailed(r)
      PROVE  PageTypeOK' /\ UnmountedIsBlank'
  <2>1. ChildrenEnded(r) /\ route' = route /\ UNCHANGED <<rgd, rgdInFlight>>
    BY <1>6 DEF ChildrenOk, ChildrenFailed, ChildrenEnded, pollingVars
  <2>2. route # NoRoute
    BY <2>1 DEF ChildrenEnded, UnmountedIsBlank, NoneInFlight
  <2>3. goneRef' \in BOOLEAN /\ banner' \in BOOLEAN /\ children' \in Routes \union {NoRoute}
    BY <1>6, RenderType DEF ChildrenOk, ChildrenFailed, PageTypeOK
  <2>4. childrenInFlight' \in [Routes -> 0..MaxSide]
    BY <2>1, SideEnds
  <2> QED
    BY <2>1, <2>2, <2>3, <2>4 DEF PageTypeOK, UnmountedIsBlank
<1>7. ASSUME NEW g \in RGDs, RgdOk(g) \/ RgdFailed(g)
      PROVE  PageTypeOK' /\ UnmountedIsBlank'
  <2>1. RgdEnded(g) /\ route' = route /\ UNCHANGED <<children, childrenInFlight>>
    BY <1>7 DEF RgdOk, RgdFailed, RgdEnded, pollingVars
  <2>2. route # NoRoute
    BY <2>1 DEF RgdEnded, UnmountedIsBlank, NoRGDInFlight
  <2>3. goneRef' \in BOOLEAN /\ banner' \in BOOLEAN /\ rgd' \in RGDs \union {NoRGD}
    BY <1>7, RenderType DEF RgdOk, RgdFailed, PageTypeOK
  <2>4. rgdInFlight' \in [RGDs -> 0..MaxSide]
    BY <2>1, SideEnds
  <2> QED
    BY <2>1, <2>2, <2>3, <2>4 DEF PageTypeOK, UnmountedIsBlank
<1> QED
  BY <1>1, <1>2, <1>3, <1>4, <1>5, <1>6, <1>7 DEF Next

(* The types, the hook's interval, what loading means and the blank page   *)
(* are kept by every step.                                                 *)
THEOREM Inductive == Spec => []PollingInv
<1>1. Init => PollingInv
  <2> SUFFICES ASSUME Init
               PROVE  PollingInv
    OBVIOUS
  <2>1. PollingTypeOK
    <3>1. timerRef \in 0..1 /\ live \in Nat /\ inFlight \in [Routes -> 0..MaxInFlight]
      BY PollingAssumption DEF Init, PollingInit, NoneInFlight
    <3>2. paused \in BOOLEAN /\ visible \in BOOLEAN /\ loading \in BOOLEAN
      BY DEF Init, PollingInit
    <3> QED
      BY <3>1, <3>2 DEF Init, PollingInit, PollingTypeOK, Errors
  <2>2. PageTypeOK
    <3>1. NoneInFlight \in [Routes -> 0..MaxSide] /\ NoRGDInFlight \in [RGDs -> 0..MaxSide]
      BY PageAssumption DEF NoneInFlight, NoRGDInFlight
    <3> QED
      BY <3>1 DEF Init, PageTypeOK
  <2>3. OneInterval /\ LoadingHasFetch /\ UnmountedIsBlank
    BY DEF Init, PollingInit, OneInterval, LoadingHasFetch, UnmountedIsBlank
  <2> QED
    BY <2>1, <2>2, <2>3 DEF PollingInv, TypeOK, PageTypeOK
<1>2. PollingInv /\ [Next]_vars => PollingInv'
  <2> SUFFICES ASSUME PollingInv, [Next]_vars
               PROVE  PollingInv'
    OBVIOUS
  <2>1. HookInv /\ PageTypeOK
    BY DEF PollingInv, HookInv, PageTypeOK, TypeOK, UnmountedIsBlank
  <2>2. HookInv'
    BY <2>1, StepIsPollingStep, HookStep
  <2>3. PageTypeOK' /\ UnmountedIsBlank'
    BY <2>1, PageStep DEF PollingInv, HookInv
  <2> QED
    BY <2>2, <2>3 DEF PollingInv, HookInv, PageTypeOK, TypeOK
<1> QED
  BY <1>1, <1>2, PTL DEF Spec

(* A page polls when it should: no order of pauses, navigations and tab    *)
(* changes loses its interval, doubles it, or leaves it running.           *)
THEOREM Intervals == Spec => []OneInterval
<1>1. PollingInv => OneInterval
  BY DEF PollingInv
<1> QED
  BY <1>1, Inductive, PTL

(* A page that says it is loading has a fetch in flight.                   *)
THEOREM Loading == Spec => []LoadingHasFetch
<1>1. PollingInv => LoadingHasFetch
  BY DEF PollingInv
<1> QED
  BY <1>1, Inductive, PTL

(* On a settled page, whatever is in flight is for the route shown: what   *)
(* ends brings in nothing else, and what goes out is for the same route.   *)
THEOREM SettledStays == Spec => OnlyNavigationUnsettles
<1> DEFINE Stays == Settled /\ route' \in {route, NoRoute} => Settled'
<1>1. ASSUME PollingInv, [Next]_vars
      PROVE  Stays
  <2> SUFFICES ASSUME Settled, route' \in {route, NoRoute}
               PROVE  Settled'
    OBVIOUS
  <2>t. PollingTypeOK /\ PageTypeOK
    BY <1>1 DEF PollingInv, TypeOK, PageTypeOK
  <2>1. ASSUME NEW r \in Routes, Open(r) \/ Navigate(r)
        PROVE  FALSE
    BY <2>1, PollingAssumption DEF Open, Navigate, PollingMounts, PollingNavigates
  <2>2. CASE Leave
    BY <2>2, PollingAssumption DEF Leave, PollingUnmounts, Settled, NoneInFlight, NoRGDInFlight
  <2>3. CASE PressPause \/ Hide \/ Click \/ UNCHANGED vars
    <3>1. UNCHANGED <<route, data, children, rgd, inFlight, childrenInFlight, rgdInFlight>>
      BY <2>3 DEF PressPause, Pause, Hide, TabHidden, Click, vars, pageVars, pollingVars,
                  resultVars
    <3> QED
      BY <3>1 DEF Settled
  <2>4. CASE PressResume \/ Show \/ Poll \/ PressRefresh
    <3>1. UNCHANGED <<route, children, rgd, childrenInFlight, rgdInFlight>>
      BY <2>4 DEF PressResume, Resume, Show, TabShown, Poll, IntervalFires, PressRefresh,
                  Refresh, pageVars
    <3>2. data' \in {data, NoRoute}
      BY <2>4 DEF PressResume, Resume, RestartPolling, Show, TabShown, Poll, IntervalFires,
                  PressRefresh, Refresh, resultVars
    <3>3. UNCHANGED inFlight \/ (route # NoRoute /\ Fetch(route))
      BY <2>4 DEF PressResume, Resume, RestartPolling, Show, TabShown, Poll, IntervalFires,
                  PressRefresh, Refresh
    <3>4. \A q \in Routes \ {route} : inFlight'[q] = inFlight[q]
      BY <2>t, <3>3, FetchCounts DEF PollingTypeOK
    <3> QED
      BY <3>1, <3>2, <3>4 DEF Settled
  <2>5. ASSUME NEW r \in Routes, Polled(r) \/ \E e \in Errors \ {"none"} : PollFailed(r, e)
        PROVE  Settled'
    <3>1. Ended(r) /\ data' \in {r, data}
      BY <2>5 DEF Polled, PollFailed, FetchOk, FetchFailed
    <3>2. UNCHANGED <<route, children, rgd, childrenInFlight, rgdInFlight>>
      BY <2>5, <3>1 DEF Polled, PollFailed, Ended
    <3>3. r = route
      BY <3>1 DEF Ended, Settled
    <3>4. \A q \in Routes \ {route} : inFlight'[q] = inFlight[q]
      BY <2>t, <3>1, <3>3 DEF Ended, PollingTypeOK
    <3> QED
      BY <3>1, <3>2, <3>3, <3>4 DEF Settled
  <2>6. CASE ChildrenIntervalFires
    <3>1. UNCHANGED <<route, data, children, rgd, inFlight, rgdInFlight>>
      BY <2>6 DEF ChildrenIntervalFires, pollingVars, resultVars
    <3>2. route \in Routes /\ FetchChildren(route)
      BY <2>6, <2>t DEF ChildrenIntervalFires, PollingTypeOK
    <3>3. \A q \in Routes \ {route} : childrenInFlight'[q] = childrenInFlight[q]
      BY <2>t, <3>2, SideFetches
    <3> QED
      BY <3>1, <3>3 DEF Settled
  <2>7. ASSUME NEW r \in Routes, ChildrenOk(r) \/ ChildrenFailed(r)
        PROVE  Settled'
    <3>1. ChildrenEnded(r) /\ children' \in {r, children}
      BY <2>7 DEF ChildrenOk, ChildrenFailed
    <3>2. UNCHANGED <<route, data, rgd, inFlight, rgdInFlight>>
      BY <3>1 DEF ChildrenEnded, pollingVars, resultVars
    <3>3. r = route
      BY <3>1 DEF ChildrenEnded, Settled
    <3>4. \A q \in Routes \ {route} : childrenInFlight'[q] = childrenInFlight[q]
      BY <2>t, <3>1, <3>3 DEF ChildrenEnded, PageTypeOK
    <3> QED
      BY <3>1, <3>2, <3>3, <3>4 DEF Settled
  <2>8. ASSUME NEW g \in RGDs, RgdOk(g) \/ RgdFailed(g)
        PROVE  Settled'
    <3>1. RgdEnded(g) /\ rgd' \in {g, rgd}
      BY <2>8 DEF RgdOk, RgdFailed
    <3>2. UNCHANGED <<route, data, children, inFlight, childrenInFlight>>
      BY <3>1 DEF RgdEnded, pollingVars, resultVars
    <3>3. route # NoRoute /\ g = RgdOf[route]
      BY <3>1 DEF RgdEnded, Settled
    <3>4. \A h \in RGDs : rgdInFlight'[h] > 0 => rgdInFlight[h] > 0
      BY <2>t, <3>1, SideEnds
    <3> QED
      BY <3>1, <3>2, <3>3, <3>4 DEF Settled
  <2> QED
    BY <1>1, <2>1, <2>2, <2>3, <2>4, <2>5, <2>6, <2>7, <2>8 DEF Next
<1>2. PollingInv /\ [Next]_vars => [Stays]_vars
  BY <1>1
<1> QED
  BY <1>2, Inductive, PTL DEF Spec, OnlyNavigationUnsettles

=============================================================================
