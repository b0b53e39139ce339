---------------------------- MODULE Views_proofs ----------------------------
(***************************************************************************)
(* Proofs about what the views of the web client derive from the lists     *)
(* they were given: the window of the virtual grid, the matrix of the      *)
(* Access tab, the health of an instance, the pages of the lists, the      *)
(* cards of the fleet and the comparison of two documents.  Each part has  *)
(* its invariant, lemmas about the operators, and its theorem.             *)
(***************************************************************************)
EXTENDS VirtualGrid, AccessCheck, InstanceHealth, Revisions, EventsPage, InstanceList,
        Catalog, FleetPage, LineDiff, Data_proofs

(* VirtualGrid: the rows that are drawn.                                   *)

\* Math.ceil of a quotient covers all of it.
LEMMA RoundedUp ==
  ASSUME NEW a \in Nat, NEW b \in Nat \ {0}
  PROVE  CeilDiv(a, b) \in Nat /\ a <= CeilDiv(a, b) * b
<1>1. a + b - 1 \in Nat
  OBVIOUS
<1>2. CeilDiv(a, b) \in Nat /\ a + b - 1 < (CeilDiv(a, b) + 1) * b
  BY <1>1, Quotient DEF CeilDiv
<1>3. QED BY <1>2

\* The spacer above, the window and the spacer below fill the height.
LEMMA SumOfRows ==
  ASSUME NEW a \in Int, NEW b \in Int, NEW c \in Int, NEW s \in Int
  PROVE  a * s + (b - a + 1) * s + (c - 1 - b) * s = c * s
OBVIOUS

GridTypeOK ==
    /\ grid \in [itemCount : 0..MaxItems, cols : 1..MaxCols, height : Heights \cup {0}]
    /\ scrollTop \in Nat /\ seenTop \in Nat

\* What the code divides by is positive, and its sizes are numbers.
LEMMA GridSizes ==
  ASSUME NEW g \in [itemCount : 0..MaxItems, cols : 1..MaxCols, height : Heights \cup {0}]
  PROVE  /\ Stride \in Nat \ {0} /\ Stride >= ItemHeight /\ RowGap \in Nat
         /\ Overscan \in Nat
         /\ g.height \in Nat /\ TotalRows(g) \in Nat /\ MaxScroll(g) \in Nat
<1>1. /\ Stride \in Nat \ {0} /\ Stride >= ItemHeight /\ RowGap \in Nat /\ Overscan \in Nat
      /\ MaxCols \in Nat /\ MaxItems \in Nat /\ Heights \subseteq Nat
  BY GridAssumption DEF GridAssumption, Stride
<1>2. g.itemCount \in Nat /\ g.cols \in Nat \ {0} /\ g.height \in Nat
  <2>1. g.itemCount \in Nat
    BY <1>1
  <2>2. g.cols \in Nat \ {0}
    BY <1>1
  <2>3. g.height \in Heights \cup {0}
    OBVIOUS
  <2>4. Heights \cup {0} \subseteq Nat
    BY <1>1
  <2>5. g.height \in Nat
    BY <2>3, <2>4
  <2>6. QED BY <2>1, <2>2, <2>5
<1>3. TotalRows(g) \in Nat
  BY <1>2, RoundedUp DEF TotalRows
<1>4. TotalHeight(g) \in Int
  BY <1>1, <1>3 DEF TotalHeight
<1>5. TotalHeight(g) - g.height \in Int
  BY <1>2, <1>4
<1>6. MaxScroll(g) \in Nat
  BY <1>5, LargerOfTwo DEF MaxScroll
<1>7. QED BY <1>1, <1>2, <1>3, <1>6

\* Scrolling and resizing keep the types of the grid.
LEMMA GridInvariant == GridSpec => []GridTypeOK
<1>1. GridInit => GridTypeOK
  BY GridAssumption DEF GridInit, GridTypeOK, GridAssumption
<1>2. GridTypeOK /\ [GridNext]_gridVars => GridTypeOK'
  <2> SUFFICES ASSUME GridTypeOK, [GridNext]_gridVars PROVE GridTypeOK'
    OBVIOUS
  <2> USE DEF GridTypeOK
  <2>1. CASE Resize
    <3>1. grid' \in [itemCount : 0..MaxItems, cols : 1..MaxCols, height : Heights \cup {0}]
      BY <2>1 DEF Resize
    <3>2. MaxScroll(grid') \in Nat /\ scrollTop \in Nat
      BY <3>1, GridSizes
    <3>3. Min({scrollTop, MaxScroll(grid')}) \in Nat
      BY <3>2, SmallerOfTwo
    <3>4. QED BY <2>1, <3>1, <3>3 DEF Resize
  <2>2. CASE ItemsChange
    BY <2>2 DEF ItemsChange
  <2>3. CASE UserScrolls
    BY <2>3, GridSizes DEF UserScrolls
  <2>4. CASE handleScroll
    BY <2>4 DEF handleScroll
  <2>5. CASE UNCHANGED gridVars
    BY <2>5 DEF gridVars
  <2>6. QED BY <2>1, <2>2, <2>3, <2>4, <2>5 DEF GridNext
<1>3. QED BY <1>1, <1>2, PTL DEF GridSpec

\* The rows of the hook, without Min and Max.
LEMMA WindowIs ==
  ASSUME NEW g \in [itemCount : 0..MaxItems, cols : 1..MaxCols, height : Heights \cup {0}],
         NEW top \in Nat
  PROVE  LET d == useVirtualGrid(g, top)
             k == top \div Stride
             c == CeilDiv(g.height, Stride)
         IN  /\ k \in Nat /\ c \in Nat /\ d.firstRow \in 0..k
             /\ d.lastRow \in Int /\ d.lastRow <= TotalRows(g) - 1
             /\ d.lastRow = TotalRows(g) - 1 \/ d.lastRow >= k + c
             /\ d.offsetTop = d.firstRow * Stride
             /\ d.offsetBottom = (TotalRows(g) - 1 - d.lastRow) * Stride
<1> DEFINE k     == top \div Stride
           c     == CeilDiv(g.height, Stride)
           first == Max({0, k - Overscan})
           last  == Min({TotalRows(g) - 1, k + c + Overscan})
<1>1. /\ Stride \in Nat \ {0} /\ Overscan \in Nat /\ TotalRows(g) \in Nat
      /\ k \in Nat /\ c \in Nat
  BY GridSizes, Quotient, RoundedUp
<1>2. useVirtualGrid(g, top) =
        [firstRow |-> first, lastRow |-> last, offsetTop |-> first * Stride,
         offsetBottom |-> Max({0, TotalRows(g) - 1 - last}) * Stride]
  BY DEF useVirtualGrid
<1> HIDE DEF k, c
<1>3. first \in 0..k
  <2>1. k - Overscan \in Int /\ 0 \in Int
    BY <1>1
  <2>2. first = IF 0 >= k - Overscan THEN 0 ELSE k - Overscan
    BY <2>1, LargerOfTwo
  <2> HIDE DEF first
  <2>3. QED BY <1>1, <2>2
<1>4. last \in Int /\ last <= TotalRows(g) - 1 /\ (last = TotalRows(g) - 1 \/ last >= k + c)
  <2>1. TotalRows(g) - 1 \in Int /\ k + c + Overscan \in Int
    BY <1>1
  <2>2. last = IF TotalRows(g) - 1 <= k + c + Overscan THEN TotalRows(g) - 1 ELSE k + c + Overscan
    BY <2>1, SmallerOfTwo
  <2> HIDE DEF last
  <2>3. QED BY <1>1, <2>2
<1> HIDE DEF first, last
<1>5. Max({0, TotalRows(g) - 1 - last}) = TotalRows(g) - 1 - last
  <2>1. TotalRows(g) - 1 - last \in Int /\ TotalRows(g) - 1 - last >= 0 /\ 0 \in Int
    BY <1>1, <1>4
  <2> DEFINE below == TotalRows(g) - 1 - last
  <2> HIDE DEF below
  <2>2. Max({0, below}) = IF 0 >= below THEN 0 ELSE below
    BY <2>1, LargerOfTwo DEF below
  <2>3. QED BY <2>1, <2>2 DEF below
<1>6. QED BY <1>1, <1>2, <1>3, <1>4, <1>5 DEF k, c

\* For any number of cards and columns and any heights: no row in view is left out, and
\* the rows and the spacers fill the container.
THEOREM NoRowIsMissed == GridSpec => []WindowCoversView
<1> DEFINE d == Drawn(grid, seenTop)
           rows == TotalRows(grid)
<1>1. ASSUME GridTypeOK, grid.itemCount > 0, seenTop = scrollTop
      PROVE  /\ \A row \in 0..(rows - 1) :
                   row * Stride + ItemHeight > scrollTop /\ row * Stride < scrollTop + grid.height
                   => row \in d.firstRow..d.lastRow
             /\ d.offsetTop + (d.lastRow - d.firstRow + 1) * Stride - RowGap + d.offsetBottom
                  = TotalHeight(grid)
  <2>1. /\ Stride \in Nat \ {0} /\ Stride >= ItemHeight /\ RowGap \in Nat /\ ItemHeight \in Nat
        /\ grid.height \in Nat /\ rows \in Nat /\ scrollTop \in Nat
        /\ TotalHeight(grid) = rows * Stride - RowGap
    BY <1>1, GridSizes, GridAssumption DEF GridTypeOK, TotalHeight, GridAssumption
  <2>2. CASE grid.height = 0
    <3>1. d.firstRow = 0 /\ d.lastRow = rows - 1 /\ d.offsetTop = 0 /\ d.offsetBottom = 0
      BY <2>2 DEF Drawn
    <3> HIDE DEF d, rows
    <3>2. QED BY <2>1, <3>1
  <2>3. CASE grid.height # 0
    <3> DEFINE k == scrollTop \div Stride
               c == CeilDiv(grid.height, Stride)
    <3>1. /\ k \in Nat /\ c \in Nat /\ d.firstRow \in 0..k
          /\ d.lastRow \in Int /\ d.lastRow <= rows - 1
          /\ d.lastRow = rows - 1 \/ d.lastRow >= k + c
          /\ d.offsetTop = d.firstRow * Stride
          /\ d.offsetBottom = (rows - 1 - d.lastRow) * Stride
      BY <1>1, <2>1, <2>3, WindowIs DEF Drawn, GridTypeOK
    <3>2. k * Stride <= scrollTop /\ scrollTop < (k + 1) * Stride /\ grid.height <= c * Stride
      BY <2>1, Quotient, RoundedUp
    <3> HIDE DEF d, rows, k, c
    <3>3. ASSUME NEW row \in 0..(rows - 1),
                 row * Stride + ItemHeight > scrollTop, row * Stride < scrollTop + grid.height
          PROVE  row \in d.firstRow..d.lastRow
      <4>1. k * Stride < (row + 1) * Stride
        BY <2>1, <3>1, <3>2, <3>3
      <4>2. row * Stride < (k + 1 + c) * Stride
        BY <2>1, <3>1, <3>2, <3>3
      <4>3. k < row + 1 /\ row < k + 1 + c
        BY <2>1, <3>1, <3>3, <4>1, <4>2, SmallerFactor
      <4>4. QED BY <2>1, <3>1, <3>3, <4>3
    <3>4. d.firstRow * Stride + (d.lastRow - d.firstRow + 1) * Stride + (rows - 1 - d.lastRow) * Stride
            = rows * Stride
      <4> DEFINE first == d.firstRow
                 last == d.lastRow
      <4>1. first \in Int /\ last \in Int /\ rows \in Int /\ Stride \in Int
        BY <2>1, <3>1
      <4> HIDE DEF first, last
      <4>2. first * Stride + (last - first + 1) * Stride + (rows - 1 - last) * Stride = rows * Stride
        BY <4>1, SumOfRows
      <4>3. QED BY <4>2 DEF first, last
    <3>5. d.offsetTop + (d.lastRow - d.firstRow + 1) * Stride - RowGap + d.offsetBottom = TotalHeight(grid)
      <4>1. /\ d.firstRow * Stride \in Int /\ (rows - 1 - d.lastRow) * Stride \in Int
            /\ (d.lastRow - d.firstRow + 1) * Stride \in Int /\ rows * Stride \in Int
        BY <2>1, <3>1
      <4>2. QED BY <2>1, <3>1, <3>4, <4>1
    <3>6. QED BY <3>3, <3>5
  <2>4. QED BY <2>2, <2>3
<1>2. GridTypeOK => WindowCoversView
  BY <1>1 DEF WindowCoversView
<1>3. QED BY <1>2, GridInvariant, PTL

-----------------------------------------------------------------------------
(* AccessCheck: the gaps of the matrix.                                    *)

AccessTypeOK ==
    /\ rgdResources \in Seq(RgdEntry)
    /\ bindings \subseteq Binding

\* The author, the administrator and what fails keep the types.
LEMMA AccessInvariant == AccessSpec => []AccessTypeOK
<1>1. AccessInit => AccessTypeOK
  BY DEF AccessInit, AccessTypeOK
<1>2. AccessTypeOK /\ [AccessNext]_accessVars => AccessTypeOK'
  <2> SUFFICES ASSUME AccessTypeOK, [AccessNext]_accessVars PROVE AccessTypeOK'
    OBVIOUS
  <2> USE DEF AccessTypeOK
  <2>1. CASE AuthorAddsResource
    <3>1. PICK r \in RgdEntry : rgdResources' = Append(rgdResources, r)
      BY <2>1 DEF AuthorAddsResource
    <3>2. rgdResources' \in Seq(RgdEntry)
      BY <3>1
    <3>3. QED BY <2>1, <3>2 DEF AuthorAddsResource
  <2>2. CASE AdminBinds
    BY <2>2 DEF AdminBinds
  <2>3. CASE ControllerAggregates \/ ReadFails \/ UNCHANGED accessVars
    BY <2>3 DEF ControllerAggregates, ReadFails, accessVars
  <2>4. QED BY <2>1, <2>2, <2>3 DEF AccessNext
<1>3. QED BY <1>1, <1>2, PTL DEF AccessSpec

\* A guessed plural is none that a rule names, and no two kinds share one.
LEMMA Plurals ==
  ASSUME NEW k, NEW l
  PROVE  /\ <<k, "naive">> # <<l>>
         /\ DiscoverPlural(k) = DiscoverPlural(l) => k = l
         /\ discoveryUp => DiscoverPlural(k) = <<k>>
<1>1. <<k, "naive">> # <<l>>
  OBVIOUS
<1>2. <<k>> = <<l>> => k = l
  OBVIOUS
<1>3. <<k, "naive">> = <<l, "naive">> => k = l
  OBVIOUS
<1>4. <<l, "naive">> # <<k>>
  OBVIOUS
<1>5. QED BY <1>1, <1>2, <1>3, <1>4 DEF DiscoverPlural

\* A rule that grants the guessed plural grants everything.
LEMMA GuessIsWildcard ==
  ASSUME NEW rule, NamesResources(rule), NEW k \in Kinds, matchesResource(rule, DiscoverPlural(k))
  PROVE  matchesResource(rule, <<k>>)
<1>1. CASE DiscoverPlural(k) = <<k>>
  BY <1>1
<1>2. CASE DiscoverPlural(k) = <<k, "naive">>
  <2>1. \A l : <<k, "naive">> # <<l>>
    BY Plurals
  <2>2. <<k, "naive">> \notin {AnyResource} \cup {<<l>> : l \in Kinds}
    BY <2>1 DEF AnyResource
  <2>3. <<k, "naive">> \notin rule.resources
    BY <2>2 DEF NamesResources
  <2>4. AnyResource \in rule.resources
    BY <1>2, <2>3 DEF matchesResource
  <2>5. QED BY <2>4 DEF matchesResource
<1>3. QED BY <1>1, <1>2 DEF DiscoverPlural

\* Rules are written for roles, and what a role holds was written for some.
LEMMA RulesName ==
  ASSUME NEW r \in Roles, NEW rule \in Rules(r)
  PROVE  NamesResources(rule)
<1>1. CASE rule \in RoleRules[r]
  BY <1>1, AccessAssumption DEF AccessAssumption
<1>2. CASE rule \in UNION {RoleRules[q] : q \in Aggregates[r]}
  <2>1. PICK q \in Aggregates[r] : rule \in RoleRules[q]
    BY <1>2
  <2>2. q \in Roles
    BY <2>1, AccessAssumption DEF AccessAssumption
  <2>3. QED BY <2>1, <2>2, AccessAssumption DEF AccessAssumption
<1>3. QED BY <1>1, <1>2 DEF Rules

\* Once the controller has written them, the selectors find no rule that a role lacks.
LEMMA SelectorsAddNothing ==
  ASSUME NEW r \in Roles, aggregated, NEW rule \in fetchClusterRoleRules(r)
  PROVE  rule \in Rules(r)
<1>1. CASE rule \in Rules(r)
  BY <1>1
<1>2. CASE \E q \in Aggregates[r] : rule \in Rules(q)
  <2>1. PICK q \in Aggregates[r] : rule \in Rules(q)
    BY <1>2
  <2>2. q \in Roles /\ Aggregates[q] = {}
    BY <2>1, AccessAssumption DEF AccessAssumption
  <2>3. rule \in RoleRules[q]
    BY <2>1, <2>2 DEF Rules
  <2>4. rule \in UNION {RoleRules[p] : p \in Aggregates[r]}
    BY <2>1, <2>3
  <2>5. QED BY <2>1, <2>4 DEF Rules
<1>3. QED BY <1>1, <1>2 DEF fetchClusterRoleRules

\* A binding that is read brings all rules of its role, and any binding brings no other.
LEMMA RulesAre ==
  ASSUME AccessTypeOK, NEW b \in bindings
  PROVE  /\ b.role \in Roles
         /\ WasRead(b) => Rules(b.role) \subseteq RulesOf(b)
         /\ RulesOf(b) # {} => bindingMatchesSA(b)
         /\ aggregated => RulesOf(b) \subseteq Rules(b.role)
<1>1. b.role \in Roles /\ b.roleKind \in {"ClusterRole", "Role"}
  BY DEF AccessTypeOK, Binding
<1>2. Rules(b.role) \subseteq fetchClusterRoleRules(b.role)
  BY DEF fetchClusterRoleRules
<1>3. aggregated => fetchClusterRoleRules(b.role) \subseteq Rules(b.role)
  BY <1>1, SelectorsAddNothing
<1>4. CASE ~WasRead(b)
  <2>1. RulesOf(b) = {}
    BY <1>4 DEF RulesOf
  <2>2. QED BY <1>1, <1>4, <2>1
<1>5. CASE WasRead(b)
  <2>1. bindingMatchesSA(b)
    BY <1>5 DEF WasRead
  <2>2. b.roleKind = "ClusterRole" => RulesOf(b) = fetchClusterRoleRules(b.role)
    BY <1>5 DEF RulesOf
  <2>3. b.roleKind = "Role" => RulesOf(b) = Rules(b.role)
    BY <1>5 DEF RulesOf
  <2>4. QED BY <1>1, <1>2, <1>3, <2>1, <2>2, <2>3
<1>6. QED BY <1>4, <1>5

\* Every resource of the RGD has a kind and is created or only read.
LEMMA Entries == AccessTypeOK => \A i \in DOMAIN rgdResources : rgdResources[i] \in RgdEntry
BY DEF AccessTypeOK

\* The entry that decides for a kind is the first of its kind.
LEMMA FirstOfKind ==
  ASSUME AccessTypeOK, NEW i \in DOMAIN rgdResources
  PROVE  \E f \in DOMAIN rgdResources :
            /\ rgdResources[f].kind = rgdResources[i].kind
            /\ \A j \in 1..(f - 1) : DiscoverPlural(rgdResources[j].kind) # DiscoverPlural(rgdResources[f].kind)
<1> DEFINE S == {j \in DOMAIN rgdResources : rgdResources[j].kind = rgdResources[i].kind}
<1>1. S \subseteq Nat /\ S # {} /\ DOMAIN rgdResources = 1..Len(rgdResources) /\ Len(rgdResources) \in Nat
  BY DEF AccessTypeOK
<1>2. PICK f \in S : \A j \in S : f <= j
  BY <1>1, LeastNumber
<1>3. ASSUME NEW j \in 1..(f - 1) PROVE rgdResources[j].kind # rgdResources[f].kind
  BY <1>1, <1>2
<1>4. QED BY <1>2, <1>3, Plurals

\* What extractRGDGVRs has of the first entry of a kind.
LEMMA FirstIsChecked ==
  ASSUME AccessTypeOK, NEW f \in DOMAIN rgdResources,
         \A j \in 1..(f - 1) : DiscoverPlural(rgdResources[j].kind) # DiscoverPlural(rgdResources[f].kind)
  PROVE  LET r == rgdResources[f]
         IN  \E p \in ComputeAccessResult :
               p.kind = r.kind /\ p.granted = CheckPermissions(FetchEffectiveRules, DiscoverPlural(r.kind), Needs(r))
<1> DEFINE r == rgdResources[f]
           g == [resource |-> DiscoverPlural(r.kind), kind |-> r.kind, readOnly |-> r.externalRef]
           p == [kind |-> g.kind,
                 granted |-> CheckPermissions(FetchEffectiveRules, g.resource, Required(g))]
<1>1. g \in extractRGDGVRs
  BY DEF extractRGDGVRs
<1>2. p \in ComputeAccessResult
  BY <1>1 DEF ComputeAccessResult
<1>3. g.resource = DiscoverPlural(r.kind) /\ g.kind = r.kind /\ g.readOnly = r.externalRef
  OBVIOUS
<1>4. Required(g) = Needs(r)
  BY <1>3 DEF Required, Needs
<1>5. p.kind = r.kind
      /\ p.granted = CheckPermissions(FetchEffectiveRules, DiscoverPlural(r.kind), Needs(r))
  BY <1>3, <1>4
<1>6. QED BY <1>2, <1>5

\* Without a gap the service account may do what each kind needs.
LEMMA NoGapIsAllowed ==
  ASSUME AccessTypeOK, ~HasGaps, aggregated,
         NEW i \in DOMAIN rgdResources, ~MixedUse(rgdResources[i].kind),
         NEW v \in Needs(rgdResources[i])
  PROVE  LET kind == rgdResources[i].kind
         IN  MaySomewhere(kind, v) /\ (NoPartialGrant => MayEverywhere(kind, v))
<1> DEFINE kind == rgdResources[i].kind
<1>1. PICK f \in DOMAIN rgdResources :
        /\ rgdResources[f].kind = kind
        /\ \A j \in 1..(f - 1) : DiscoverPlural(rgdResources[j].kind) # DiscoverPlural(rgdResources[f].kind)
  BY FirstOfKind
<1>2. rgdResources[f].externalRef = rgdResources[i].externalRef
  <2> DEFINE uses == {rgdResources[j].externalRef : j \in {l \in DOMAIN rgdResources : rgdResources[l].kind = kind}}
  <2>1. rgdResources[f].externalRef \in uses /\ rgdResources[i].externalRef \in uses
    BY <1>1
  <2>2. \A j \in DOMAIN rgdResources : rgdResources[j].externalRef \in BOOLEAN
    BY Entries DEF RgdEntry
  <2>3. uses # BOOLEAN
    BY DEF MixedUse
  <2>4. uses \subseteq BOOLEAN
    BY <2>2
  <2> HIDE DEF uses
  <2>5. TRUE \notin uses \/ FALSE \notin uses
    BY <2>3, <2>4
  <2>6. QED BY <2>1, <2>2, <2>5
<1>3. Needs(rgdResources[f]) = Needs(rgdResources[i])
  BY <1>2 DEF Needs
<1>4. PICK p \in ComputeAccessResult :
        p.granted = CheckPermissions(FetchEffectiveRules, DiscoverPlural(kind), Needs(rgdResources[i]))
  BY <1>1, <1>3, FirstIsChecked
<1>5. v \in DOMAIN p.granted /\ p.granted[v]
  BY <1>4 DEF HasGaps, HasGap, CheckPermissions
<1>6. PICK rule \in FetchEffectiveRules : matchesResource(rule, DiscoverPlural(kind)) /\ matchesVerb(rule, v)
  BY <1>4, <1>5 DEF CheckPermissions
<1>7. PICK b \in bindings : rule \in RulesOf(b)
  BY <1>6 DEF FetchEffectiveRules
<1>8. b.role \in Roles /\ bindingMatchesSA(b) /\ rule \in Rules(b.role) /\ NamesResources(rule)
  BY <1>7, RulesAre, RulesName
<1>9. kind \in Kinds
  BY Entries DEF RgdEntry
<1>10. /\ rule.resources \cap {AnyResource, <<kind>>} # {}
       /\ rule.verbs \cap {AnyVerb, v} # {}
  <2>1. matchesResource(rule, <<kind>>)
    BY <1>6, <1>8, <1>9, GuessIsWildcard
  <2>2. QED BY <1>6, <2>1 DEF matchesResource, matchesVerb
<1>11. MaySomewhere(kind, v)
  BY <1>8, <1>10 DEF MaySomewhere, Grants
<1>12. ASSUME NoPartialGrant PROVE MayEverywhere(kind, v)
  <2>1. b.scope = "cluster" /\ ~rule.named
    BY <1>8, <1>12 DEF NoPartialGrant
  <2>2. QED BY <1>8, <1>10, <2>1 DEF MayEverywhere, GrantsAll
<1>13. QED BY <1>11, <1>12

\* A verb that is shown as missing is granted by no binding whose role was read.
LEMMA GapIsRefused ==
  ASSUME AccessTypeOK, discoveryUp, NEW p \in ComputeAccessResult,
         NEW v \in DOMAIN p.granted, ~p.granted[v],
         NEW b \in bindings, WasRead(b)
  PROVE  ~Grants(b, p.kind, v)
<1>1. PICK g \in extractRGDGVRs :
        p = [kind |-> g.kind,
             granted |-> CheckPermissions(FetchEffectiveRules, g.resource, Required(g))]
  BY DEF ComputeAccessResult
<1>2. g.resource = DiscoverPlural(g.kind)
  BY DEF extractRGDGVRs
<1>3. p.kind = g.kind /\ p.granted = CheckPermissions(FetchEffectiveRules, <<g.kind>>, Required(g))
  BY <1>1, <1>2, Plurals
<1>4. \A rule \in FetchEffectiveRules : ~(matchesResource(rule, <<g.kind>>) /\ matchesVerb(rule, v))
  BY <1>3 DEF CheckPermissions
<1>5. ASSUME NEW rule \in Rules(b.role)
      PROVE  rule \in FetchEffectiveRules
  BY <1>5, RulesAre DEF FetchEffectiveRules
<1>6. QED BY <1>3, <1>4, <1>5 DEF Grants, matchesResource, matchesVerb

\* For any roles, rules and bindings and any RGD: the matrix says what RBAC decides.
THEOREM MatrixIsRight == AccessSpec => []GapsAreReal
<1>1. AccessTypeOK => NoGapMeansAllowed
  BY NoGapIsAllowed DEF NoGapMeansAllowed
<1>2. AccessTypeOK => GapMeansRefused
  BY GapIsRefused DEF GapMeansRefused
<1>3. QED BY <1>1, <1>2, AccessInvariant, PTL DEF GapsAreReal

-----------------------------------------------------------------------------
(* InstanceHealth: what the views say of one instance.                     *)

HealthTypeOK == instance \in InstanceStatus /\ children \in Seq(Child)

\* Controllers and users keep the types of the instance and its children.
LEMMA HealthInvariant == HealthSpec => []HealthTypeOK
<1>1. HealthInit => HealthTypeOK
  <2>1. [t \in ConditionTypes |-> "absent"] \in [ConditionTypes -> ConditionStatus]
    BY DEF ConditionStatus
  <2>2. NoStatus \in InstanceStatus
    BY <2>1 DEF NoStatus, InstanceStatus
  <2>3. <<>> \in Seq(Child)
    OBVIOUS
  <2>4. QED BY <2>2, <2>3 DEF HealthInit, HealthTypeOK
<1>2. HealthTypeOK /\ [HealthNext]_healthVars => HealthTypeOK'
  <2> SUFFICES ASSUME HealthTypeOK, [HealthNext]_healthVars PROVE HealthTypeOK'
    OBVIOUS
  <2>1. CASE KroUpdatesStatus
    BY <2>1, HealthAssumption DEF KroUpdatesStatus, HealthTypeOK, HealthAssumption
  <2>2. CASE KroAddsChild
    <3>1. PICK c \in [node : Nodes \cup {Unlabelled}, status : ChildStatuses] :
            children' = Append(children, c) /\ UNCHANGED instance
      BY <2>2 DEF KroAddsChild
    <3>2. c \in Child
      BY HealthAssumption DEF HealthAssumption, Child
    <3>3. QED BY <3>1, <3>2 DEF HealthTypeOK
  <2>3. CASE KroRemovesChild
    BY <2>3 DEF KroRemovesChild, HealthTypeOK
  <2>4. CASE UNCHANGED healthVars
    BY <2>4 DEF healthVars, HealthTypeOK
  <2>5. QED BY <2>1, <2>2, <2>3, <2>4 DEF HealthNext
<1>3. QED BY <1>1, <1>2, PTL DEF HealthSpec

\* The fields of an instance's status.
LEMMA StatusIs ==
  ASSUME NEW o \in InstanceStatus
  PROVE  /\ o.state \in {"", "ACTIVE", "IN_PROGRESS"} /\ o.waiting \in BOOLEAN
         /\ DOMAIN o.conds = ConditionTypes
         /\ \A t \in ConditionTypes : o.conds[t] \in {"True", "False", "Unknown", "absent"}
         /\ "Ready" \in ConditionTypes
         /\ o.conds["Ready"] # "absent" => "Ready" \in Present(o)
BY DEF InstanceStatus, ConditionStatus, ConditionTypes, Present

\* The health of a row of a list, by the state and the Ready condition.
LEMMA SummaryHealth ==
  ASSUME NEW o \in InstanceStatus
  PROVE  healthFromSummary(Summary(o)) =
           IF o.state = "IN_PROGRESS" THEN "reconciling"
           ELSE IF o.conds["Ready"] = "True" THEN "ready"
           ELSE IF o.conds["Ready"] = "False" THEN "error" ELSE "unknown"
<1>1. /\ Summary(o).state = o.state
      /\ Summary(o).ready = IF o.conds["Ready"] = "absent" THEN "Unknown" ELSE o.conds["Ready"]
  BY DEF Summary
<1>2. QED BY <1>1, StatusIs DEF healthFromSummary

\* fleet.go and instances_all.go with format.ts.
LEMMA FleetAgrees == HealthTypeOK => FleetAgreesWithOverview
BY SummaryHealth DEF HealthTypeOK, FleetAgreesWithOverview, isInstanceDegraded, isInstanceReconciling

\* The health on the page of the instance, as far as the list knows it too.
LEMMA DetailHealth ==
  ASSUME NEW o \in InstanceStatus
  PROVE  /\ extractInstanceHealth(o) \in {"reconciling", "ready", "error", "pending", "unknown"}
         /\ o.state = "IN_PROGRESS" => extractInstanceHealth(o) = "reconciling"
         /\ o.state # "IN_PROGRESS" /\ ~IsProgressing(o) =>
              /\ o.conds["Ready"] = "True" => extractInstanceHealth(o) = "ready"
              /\ o.conds["Ready"] = "False" => extractInstanceHealth(o) = "error"
         /\ o.state # "IN_PROGRESS" /\ o.conds["Ready"] \notin {"True", "False"} /\ ~IsProgressing(o) =>
              extractInstanceHealth(o) \in {"error", "pending", "unknown"}
         /\ IsProgressing(o) => extractInstanceHealth(o) \in {"reconciling", "unknown"}
         /\ IsProgressing(o) => Present(o) # {}
<1>1. IsProgressing(o) => Present(o) # {}
  BY DEF IsProgressing, Present, InstanceStatus, ConditionTypes
<1>2. QED BY <1>1, StatusIs DEF extractInstanceHealth

\* The page of an instance against the overview.
LEMMA DetailAgrees == HealthTypeOK => DetailAgreesWithOverview
<1> SUFFICES ASSUME HealthTypeOK PROVE DetailAgreesWithOverview
  OBVIOUS
<1> DEFINE own == extractInstanceHealth(instance)
           onPage == PageHealth(instance, children)
           inList == healthFromSummary(Summary(instance))
<1>1. instance \in InstanceStatus
  BY DEF HealthTypeOK
<1>2. onPage = own \/ (own = "ready" /\ onPage = "degraded")
  BY DEF PageHealth, applyDegradedState
<1>3. IsProgressing(instance) /\ instance.state # "IN_PROGRESS" => own = "reconciling"
  BY <1>1, DetailHealth DEF extractInstanceHealth
<1>4. inList =
        IF instance.state = "IN_PROGRESS" THEN "reconciling"
        ELSE IF instance.conds["Ready"] = "True" THEN "ready"
        ELSE IF instance.conds["Ready"] = "False" THEN "error" ELSE "unknown"
  BY <1>1, SummaryHealth
<1>5. /\ instance.state = "IN_PROGRESS" => own = "reconciling"
      /\ instance.state # "IN_PROGRESS" /\ ~IsProgressing(instance) =>
           /\ instance.conds["Ready"] = "True" => own = "ready"
           /\ instance.conds["Ready"] = "False" => own = "error"
      /\ instance.state # "IN_PROGRESS" /\ instance.conds["Ready"] \notin {"True", "False"}
         /\ ~IsProgressing(instance) => own \in {"error", "pending", "unknown"}
  BY <1>1, DetailHealth
<1> HIDE DEF own, onPage, inList
<1>6. inList # onPage =>
        \/ IsProgressing(instance) /\ onPage = "reconciling"
        \/ inList = "ready" /\ onPage = "degraded"
        \/ inList = "unknown" /\ onPage \in {"error", "pending"}
  BY <1>2, <1>3, <1>4, <1>5
<1>7. QED BY <1>6 DEF DetailAgreesWithOverview, onPage, inList

\* The graph against the page.
LEMMA GraphAgrees == HealthTypeOK => GraphAgreesWithPage
<1> SUFFICES ASSUME HealthTypeOK PROVE GraphAgreesWithPage
  OBVIOUS
<1> DEFINE map == buildNodeStateMap(instance, children)
           inGraph == {n \in Nodes : NodeType[n] \notin {"instance", "state"}}
           seen == ObservedNodes(children)
<1>1. /\ DOMAIN map = seen \cup inGraph
      /\ \A n \in seen : map[n] = ObservedState(instance, FirstChild(children, n).status)
      /\ \A n \in inGraph \ seen : map[n] = AbsentState(instance, n)
  BY DEF buildNodeStateMap
<1>2. PageHealth(instance, children) = "ready" => ~countHealthyChildren(map).hasError
  BY DEF PageHealth, applyDegradedState
<1> HIDE DEF map, seen, inGraph
<1>3. countHealthyChildren(map).hasError <=> \E n \in DOMAIN map : map[n] = "error"
  BY DEF countHealthyChildren
<1>4. isInstanceDegraded(instance) /\ ~IsProgressing(instance) /\ ~instance.waiting
      => GlobalState(instance) = "error"
  BY DEF isInstanceDegraded, GlobalState
<1>5. GlobalState(instance) = "error" => \A n \in seen : map[n] = "error"
  BY <1>1 DEF ObservedState
<1>6. \A n \in DOMAIN map \ seen : map[n] = "alive" => NodeType[n] \in {"external", "externalCollection"}
  BY <1>1 DEF AbsentState
<1>7. QED BY <1>2, <1>3, <1>4, <1>5, <1>6 DEF GraphAgreesWithPage, map, seen

\* The badge of a collection against its graph.
LEMMA BadgeAgrees == HealthTypeOK => BadgeAgreesWithGraph
<1>1. ASSUME NEW c \in ChildStatus, deriveChildState(c) = "error", c.phase # "Running"
      PROVE  ~isItemReady(c)
  <2>1. /\ c.conds["Available"] # "True" /\ c.conds["Ready"] # "True"
        /\ c.conds["Available"] = "False" \/ c.conds["Ready"] = "False"
    BY <1>1 DEF deriveChildState
  <2>2. c.listedFirst \in {"Ready", "Available"}
    BY DEF ChildStatus
  <2>3. QED BY <1>1, <2>1, <2>2 DEF isItemReady
<1>2. HealthTypeOK => \A i \in DOMAIN children : children[i].status \in ChildStatus
  <2>1. HealthTypeOK => \A i \in DOMAIN children : children[i] \in Child
    BY DEF HealthTypeOK
  <2>2. QED BY <2>1 DEF Child
<1>3. QED BY <1>1, <1>2 DEF BadgeAgreesWithGraph

\* The list of conditions, and their counter, against the page.
LEMMA ConditionsAgree == HealthTypeOK => ConditionsAgreeWithPage
<1> SUFFICES ASSUME HealthTypeOK, extractInstanceHealth(instance) = "error" PROVE ConditionsAgreeWithPage
  BY DEF ConditionsAgreeWithPage
<1> DEFINE failed == {t \in Present(instance) : conditionStatusLabel(t, instance.conds[t]) = "Failed"}
           counted == {t \in Present(instance) \ {"Ready"} : instance.conds[t] \in {"False", "Unknown"}}
<1>1. instance \in InstanceStatus
  BY DEF HealthTypeOK
<1>2. \A t \in Present(instance) :
        /\ t \in ConditionTypes /\ instance.conds[t] \in {"True", "False", "Unknown"}
        /\ t \in failed <=> instance.conds[t] # "Unknown" /\ ~isHealthyCondition(t, instance.conds[t])
  BY <1>1, StatusIs DEF Present, conditionStatusLabel
<1>3. failed # {}
  <2>1. instance.conds["Ready"] = "False" \/ UnhealthyOther(instance)
    BY DEF extractInstanceHealth
  <2>2. CASE instance.conds["Ready"] = "False"
    <3>1. "Ready" \in Present(instance)
      BY <1>1, <2>2, StatusIs
    <3>2. "Ready" \in failed
      BY <1>2, <2>2, <3>1 DEF isHealthyCondition, NEGATION_POLARITY_CONDITIONS
    <3>3. QED BY <3>2
  <2>3. CASE UnhealthyOther(instance)
    BY <1>2, <2>3 DEF UnhealthyOther
  <2>4. QED BY <2>1, <2>2, <2>3
<1>4. ASSUME countFailedConditions(instance) = 0, NEW t \in failed
      PROVE  t \in {"Ready", "ReconciliationSuspended"}
  <2>1. counted \subseteq ConditionTypes /\ IsFiniteSet(ConditionTypes)
    <3>1. IsFiniteSet({} \cup {"Ready"})
      BY FS_EmptySet, FS_AddElement
    <3>2. IsFiniteSet(({} \cup {"Ready"}) \cup {"Progressing"})
      BY <3>1, FS_AddElement
    <3>3. IsFiniteSet((({} \cup {"Ready"}) \cup {"Progressing"}) \cup {"GraphProgressing"})
      BY <3>2, FS_AddElement
    <3>4. IsFiniteSet(((({} \cup {"Ready"}) \cup {"Progressing"}) \cup {"GraphProgressing"}) \cup {"ResourcesReady"})
      BY <3>3, FS_AddElement
    <3>5. IsFiniteSet((((({} \cup {"Ready"}) \cup {"Progressing"}) \cup {"GraphProgressing"})
                        \cup {"ResourcesReady"}) \cup {"ReconciliationSuspended"})
      BY <3>4, FS_AddElement
    <3>6. ConditionTypes = (((({} \cup {"Ready"}) \cup {"Progressing"}) \cup {"GraphProgressing"})
                             \cup {"ResourcesReady"}) \cup {"ReconciliationSuspended"}
      BY DEF ConditionTypes
    <3>7. QED BY <1>2, <3>5, <3>6
  <2>2. counted = {}
    BY <1>4, <2>1, FS_Subset, FS_EmptySet DEF countFailedConditions
  <2>3. QED BY <1>2, <2>2 DEF isHealthyCondition, NEGATION_POLARITY_CONDITIONS
<1>5. QED BY <1>3, <1>4 DEF ConditionsAgreeWithPage

\* For any graph, any statuses and any children: the six classifications agree.
THEOREM HealthAlwaysAgrees == HealthSpec => []HealthAgrees
<1>1. HealthTypeOK => HealthAgrees
  BY FleetAgrees, DetailAgrees, GraphAgrees, BadgeAgrees, ConditionsAgree DEF HealthAgrees
<1>2. QED BY <1>1, HealthInvariant, PTL

-----------------------------------------------------------------------------
(* Revisions: the two that the graph shows.                                *)

\* The first two of the sorted revisions are two different revisions.
LEMMA LatestFirstIs ==
    ASSUME NEW S, IsFiniteSet(S), NEW X, S \subseteq X \X Nat, Cardinality(S) >= 2
    PROVE  /\ SubSeq(LatestFirst(S), 1, 2) \in [1..2 -> S]
           /\ SubSeq(LatestFirst(S), 1, 2)[1] # SubSeq(LatestFirst(S), 1, 2)[2]
<1> DEFINE s == SetToSeq(S)
           K == 1..Cardinality(S)
           key == [i \in K |-> s[i][2]]
           E == [i \in K |-> {j \in K : key[j] > key[i] \/ (~(key[i] > key[j]) /\ j < i)}]
           Chosen(r) == CHOOSE i \in K : Cardinality(
                            {j \in K : s[j][2] > s[i][2] \/ (~(s[i][2] > s[j][2]) /\ j < i)}) = r - 1
<1>1. /\ Cardinality(S) \in Nat
      /\ s \in [K -> S]
      /\ DOMAIN s = K
      /\ \A i, j \in K : s[i] = s[j] => i = j
    BY SetInOrder
<1>2. K \subseteq Nat /\ IsFiniteSet(K) /\ Cardinality(K) = Cardinality(S)
    BY <1>1, FS_Interval
<1>3. key \in [K -> Int]
    <2> HIDE DEF s
    <2> SUFFICES ASSUME NEW i \in K PROVE s[i][2] \in Int
        OBVIOUS
    <2>1. s[i] \in X \X Nat
        BY <1>1
    <2> QED BY <2>1
<1>4. LatestFirst(S) = [r \in 1..Cardinality(K) |-> s[Chosen(r)]]
    BY <1>1 DEF LatestFirst, SortedSeq, FilterSort
<1>5. \A i \in K : E[i] = {j \in K : s[j][2] > s[i][2] \/ (~(s[i][2] > s[j][2]) /\ j < i)}
    OBVIOUS
<1>6. IsOrder(K, E)
    <2>1. LargestFirst(K, key, E)
        BY DEF LargestFirst
    <2> HIDE DEF E, key, K
    <2> QED BY <1>2, <1>3, <2>1, LargestFirstIsOrder
<1>7. ASSUME NEW r \in 1..Cardinality(K)
      PROVE  Chosen(r) \in K /\ Cardinality(E[Chosen(r)]) = r - 1
    <2>1. \E i \in K : Cardinality(E[i]) = r - 1
        <3> HIDE DEF E, K, key, s
        <3> QED BY <1>2, <1>6, RankExists
    <2>2. \E i \in K : Cardinality({j \in K : s[j][2] > s[i][2] \/ (~(s[i][2] > s[j][2]) /\ j < i)}) = r - 1
        <3> HIDE DEF E, K, s
        <3> QED BY <2>1, <1>5
    <2>3. /\ Chosen(r) \in K
          /\ Cardinality({j \in K : s[j][2] > s[Chosen(r)][2] \/ (~(s[Chosen(r)][2] > s[j][2]) /\ j < Chosen(r))})
                = r - 1
        <3> HIDE DEF K, s, E
        <3> QED BY <2>2
    <2> HIDE DEF E, Chosen, K, s
    <2> QED BY <2>3, <1>5
<1> HIDE DEF Chosen, E, K, s, key
<1>8. 1 \in 1..Cardinality(K) /\ 2 \in 1..Cardinality(K) /\ Cardinality(K) \in Nat
    BY <1>1, <1>2
<1>9. Chosen(1) # Chosen(2)
    BY <1>7, <1>8
<1>10. SubSeq(LatestFirst(S), 1, 2) = [k \in 1..2 |-> s[Chosen(k)]]
    <2>1. LatestFirst(S) \in Seq(S) /\ Len(LatestFirst(S)) = Cardinality(K)
        <3>1. \A r \in 1..Cardinality(K) : s[Chosen(r)] \in S
            BY <1>1, <1>7
        <3> QED BY <1>4, <1>8, <3>1
    <2>2. \A k \in 1..2 : LatestFirst(S)[k] = s[Chosen(k)]
        BY <1>4, <1>8
    <2> QED BY <2>1, <2>2, <1>8
<1>11. \A k \in 1..2 : s[Chosen(k)] \in S
    BY <1>1, <1>7, <1>8
<1>12. s[Chosen(1)] # s[Chosen(2)]
    BY <1>1, <1>7, <1>8, <1>9
<1>13. 1 \in 1..2 /\ 2 \in 1..2
    OBVIOUS
<1> DEFINE two == SubSeq(LatestFirst(S), 1, 2)
<1>14. two \in [1..2 -> S]
    BY <1>10, <1>11
<1>15. two[1] = s[Chosen(1)] /\ two[2] = s[Chosen(2)]
    BY <1>10, <1>13, Zenon
<1> QED BY <1>12, <1>14, <1>15

RevisionsInv ==
    /\ revisedRgd \in RevisedRgds
    /\ revisions \subseteq RevisedRgds \X (1..MaxRevision)
    /\ RevisionsTabShows.graph =>
          /\ selector \in [1..2 -> revisions]
          /\ diffPair = IF selector[1] = selector[2] THEN <<>> ELSE selector

\* When the comparison is drawn.
LEMMA GraphIsShown ==
    RevisionsTabShows.graph <=> revState = "shown" /\ Cardinality(revisions) >= 2
BY DEF RevisionsTabShows, RevisionsShown

\* The same, after a step.
LEMMA GraphWillBeShown ==
    RevisionsTabShows'.graph <=> revState' = "shown" /\ Cardinality(revisions') >= 2
BY DEF RevisionsTabShows, RevisionsShown

\* When the list arrives, its two latest revisions are selected and compared.
LEMMA ArrivalSelectsTwo == RevisionsInv /\ RevisionsArrive => RevisionsInv'
<1> SUFFICES ASSUME RevisionsInv, RevisionsArrive PROVE RevisionsInv'
    OBVIOUS
<1>1. /\ revisions' \subseteq {revisedRgd} \X (1..MaxRevision)
      /\ Cardinality(revisions') >= 2 =>
            selector' = SubSeq(LatestFirst(revisions'), 1, 2) /\ diffPair' = selector'
      /\ revisedRgd' = revisedRgd
    BY DEF RevisionsArrive
<1>2. IsFiniteSet(revisions')
    <2>1. IsFiniteSet({revisedRgd}) /\ IsFiniteSet(1..MaxRevision)
        <3>1. 1 \in Int /\ MaxRevision \in Int
            BY RevisionsAssumption DEF RevisionsAssumption
        <3>2. IsFiniteSet(1..MaxRevision)
            BY <3>1, FS_Interval
        <3> QED BY <3>2, FS_Singleton
    <2>2. IsFiniteSet({revisedRgd} \X (1..MaxRevision))
        BY <2>1, FS_Product
    <2> QED BY <1>1, <2>2, FS_Subset
<1>3. revisions' \subseteq {revisedRgd} \X Nat
    BY <1>1, RevisionsAssumption DEF RevisionsAssumption
<1>4. revisedRgd' \in RevisedRgds /\ revisions' \subseteq RevisedRgds \X (1..MaxRevision)
    BY <1>1 DEF RevisionsInv
<1>5. ASSUME Cardinality(revisions') >= 2
      PROVE  /\ selector' \in [1..2 -> revisions']
             /\ diffPair' = IF selector'[1] = selector'[2] THEN <<>> ELSE selector'
    BY <1>1, <1>2, <1>3, <1>5, LatestFirstIs
<1> QED BY <1>4, <1>5, GraphWillBeShown DEF RevisionsInv

\* Another choice in a selector is compared at once.
LEMMA ChangeSelects == RevisionsInv /\ handleChangeAB => RevisionsInv'
<1> SUFFICES ASSUME RevisionsInv, handleChangeAB PROVE RevisionsInv'
    OBVIOUS
<1>1. /\ RevisionsTabShows.graph
      /\ UNCHANGED <<revisedRgd, revState, revisions>>
    BY DEF handleChangeAB
<1>2. PICK side \in 1..2, rev \in revisions :
          selector' = [selector EXCEPT ![side] = rev] /\ diffPair' = ChangePair(selector')
    BY DEF handleChangeAB
<1>3. selector \in [1..2 -> revisions]
    BY <1>1 DEF RevisionsInv
<1>4. selector' \in [1..2 -> revisions']
    BY <1>1, <1>2, <1>3
<1>5. diffPair' = IF selector'[1] = selector'[2] THEN <<>> ELSE selector'
    BY <1>2 DEF ChangePair
<1> QED BY <1>1, <1>4, <1>5 DEF RevisionsInv

\* Nothing else draws a comparison without its selection.
LEMMA OthersKeepGraph ==
    ASSUME RevisionsInv,
           \/ RevisionsFail \/ FetchRevisions \/ toggleSelect \/ handleCompare \/ ClearChecked
           \/ PanelRemounted \/ handlePrevNext \/ UNCHANGED revisionVars
    PROVE  RevisionsInv'
<1>1. CASE RevisionsFail \/ FetchRevisions
    <2>1. revState' # "shown" /\ revisedRgd' \in RevisedRgds /\ revisions' = revisions
        BY <1>1 DEF RevisionsFail, FetchRevisions, RevisionsInv
    <2> QED BY <2>1, GraphWillBeShown DEF RevisionsInv
<1>2. CASE UNCHANGED <<revisedRgd, revState, revisions, selector, diffPair>>
    BY <1>2, GraphIsShown, GraphWillBeShown DEF RevisionsInv
<1>3. ASSUME toggleSelect \/ handleCompare \/ ClearChecked \/ PanelRemounted \/ handlePrevNext
             \/ UNCHANGED revisionVars
      PROVE  UNCHANGED <<revisedRgd, revState, revisions, selector, diffPair>>
    BY <1>3 DEF toggleSelect, handleCompare, ClearChecked, PanelRemounted, handlePrevNext, revisionVars
<1> QED BY <1>1, <1>2, <1>3

\* The invariant is stronger than the property.
LEMMA InvShowsSelected == RevisionsInv => GraphShowsSelected
<1> SUFFICES ASSUME RevisionsInv, RevisionsTabShows.graph
             PROVE  /\ diffPair = (IF selector[1] = selector[2] THEN <<>> ELSE selector)
                    /\ ToSet(diffPair) \subseteq revisions
    BY DEF GraphShowsSelected
<1>1. /\ selector \in [1..2 -> revisions]
      /\ diffPair = IF selector[1] = selector[2] THEN <<>> ELSE selector
    BY DEF RevisionsInv
<1>2. \A i \in DOMAIN diffPair : diffPair[i] \in revisions
    <2>1. CASE diffPair = <<>>
        BY <2>1
    <2>2. CASE diffPair = selector
        BY <2>2, <1>1
    <2> QED BY <1>1, <2>1, <2>2
<1> QED BY <1>1, <1>2 DEF ToSet

\* The graph of the revisions tab shows the two revisions that its lists name, and
\* only revisions of the list there is, after any fetches and choices.
THEOREM SelectedIsShown == RevisionsSpec => []GraphShowsSelected
<1>1. RevisionsInit => RevisionsInv
    BY GraphIsShown DEF RevisionsInit, RevisionsInv
<1>2. RevisionsInv /\ [RevisionsNext]_revisionVars => RevisionsInv'
    BY ArrivalSelectsTwo, ChangeSelects, OthersKeepGraph DEF RevisionsNext
<1> QED BY <1>1, <1>2, InvShowsSelected, PTL DEF RevisionsSpec

-----------------------------------------------------------------------------
(* EventsPage: the newest events are kept.                                 *)

\* The facts about the constants that the proofs need.
LEMMA EventsConstants ==
    /\ IsFiniteSet(Uids) /\ MAX_EVENTS \in Nat
    /\ \A u \in Uids : KubeEvents[u].time \in Nat
<1>1. IsFiniteSet(Uids) /\ MAX_EVENTS \in Nat \ {0} /\ \A u \in Uids : KubeEvents[u].time \in Nat
    BY EventsAssumption, Zenon DEF EventsAssumption
<1> QED BY <1>1

SortedByTime(S, Order) ==
    /\ Order \in [1..Cardinality(S) -> S]
    /\ \A x \in S : \E r \in 1..Cardinality(S) : Order[r] = x
    /\ \A q, r \in 1..Cardinality(S) :
          q < r => Order[q] # Order[r] /\ KubeEvents[Order[q]].time >= KubeEvents[Order[r]].time

\* sortEvents puts the newest events first and loses none.
LEMMA SortEventsSorts ==
    ASSUME NEW S, IsFiniteSet(S), S \subseteq Uids
    PROVE  SortedByTime(S, sortEvents(S))
<1> DEFINE s == SetToSeq(S)
           K == 1..Cardinality(S)
           key == [i \in K |-> KubeEvents[s[i]].time]
           Before(i) == {j \in K : KubeEvents[s[j]].time > KubeEvents[s[i]].time
                                   \/ (~(KubeEvents[s[i]].time > KubeEvents[s[j]].time) /\ j < i)}
           E == [i \in K |-> Before(i)]
           Chosen(r) == CHOOSE i \in K : Cardinality(Before(i)) = r - 1
<1>1. /\ Cardinality(S) \in Nat
      /\ s \in [K -> S]
      /\ DOMAIN s = K
      /\ \A x \in S : \E i \in K : s[i] = x
      /\ \A i, j \in K : s[i] = s[j] => i = j
    BY SetInOrder
<1>2. K \subseteq Nat /\ IsFiniteSet(K) /\ Cardinality(K) = Cardinality(S)
    BY <1>1, FS_Interval
<1>3. key \in [K -> Int]
    <2> HIDE DEF s, K
    <2>1. \A u \in Uids : KubeEvents[u].time \in Int
        BY EventsConstants
    <2> QED BY <1>1, <2>1
<1>4. sortEvents(S) = [r \in 1..Cardinality(K) |-> s[Chosen(r)]]
    BY <1>1 DEF sortEvents, SortedSeq, FilterSort
<1>5. \A i \in K : E[i] = Before(i)
    OBVIOUS
<1>6. LargestFirst(K, key, E)
    <2> HIDE DEF K, s
    <2> QED BY DEF LargestFirst
<1> HIDE DEF Before, s, K, key
<1>7. IsOrder(K, E)
    <2> HIDE DEF E
    <2> QED BY <1>2, <1>3, <1>6, LargestFirstIsOrder
<1>8. \A r \in 1..Cardinality(K) : \E i \in K : Cardinality(E[i]) = r - 1
    <2> HIDE DEF E
    <2> QED BY <1>2, <1>7, RankExists
<1>9. ASSUME NEW r \in 1..Cardinality(K)
      PROVE  Chosen(r) \in K /\ Cardinality(E[Chosen(r)]) = r - 1
    <2>1. \E i \in K : Cardinality(Before(i)) = r - 1
        BY <1>5, <1>8
    <2>2. Chosen(r) \in K /\ Cardinality(Before(Chosen(r))) = r - 1
        BY <2>1
    <2> HIDE DEF Chosen
    <2> QED BY <2>2, <1>5
<1> HIDE DEF E, Chosen
<1>10. ASSUME NEW x \in S
       PROVE  \E r \in 1..Cardinality(K) : s[Chosen(r)] = x
    <2>1. PICK i \in K : s[i] = x
        BY <1>1
    <2> DEFINE r == Cardinality(E[i]) + 1
    <2>2. /\ Cardinality(E[i]) \in Nat
          /\ r \in 1..Cardinality(K)
          /\ \A j \in K : Cardinality(E[j]) = Cardinality(E[i]) => j = i
        BY <1>2, <1>7, RankIsTaken
    <2>3. Chosen(r) \in K /\ Cardinality(E[Chosen(r)]) = Cardinality(E[i])
        BY <1>9, <2>2
    <2> QED BY <2>1, <2>2, <2>3
<1>11. ASSUME NEW q \in 1..Cardinality(K), NEW r \in 1..Cardinality(K), q < r
       PROVE  /\ s[Chosen(q)] # s[Chosen(r)]
              /\ KubeEvents[s[Chosen(q)]].time >= KubeEvents[s[Chosen(r)]].time
    <2>1. Chosen(q) \in E[Chosen(r)] /\ Chosen(q) # Chosen(r)
        BY <1>2, <1>7, <1>9, <1>11, RankOrders
    <2>2. ~(key[Chosen(r)] > key[Chosen(q)])
        BY <2>1, <1>6, <1>9, <1>3 DEF LargestFirst
    <2>3. s[Chosen(q)] # s[Chosen(r)]
        BY <2>1, <1>1, <1>9
    <2>4. key[Chosen(q)] >= key[Chosen(r)]
        BY <2>2, <1>9, <1>3
    <2> QED BY <2>3, <2>4, <1>9 DEF key
<1>12. \A r \in 1..Cardinality(K) : s[Chosen(r)] \in S
    BY <1>1, <1>9
<1> QED BY <1>2, <1>4, <1>10, <1>11, <1>12 DEF SortedByTime
(* What is kept is bounded, and newer than all that was dropped.             *)

\* The cap drops events only where it is reached, and only the oldest.
LEMMA TrimmedKeepsNewest ==
    ASSUME NEW S, IsFiniteSet(S), S \subseteq Uids
    PROVE  /\ Trimmed(S) \subseteq S
           /\ IsFiniteSet(Trimmed(S))
           /\ Cardinality(Trimmed(S)) <= 3 * MAX_EVENTS
           /\ Trimmed(S) # S => Cardinality(Trimmed(S)) = 3 * MAX_EVENTS
           /\ \A u \in S \ Trimmed(S), kept \in Trimmed(S) :
                 KubeEvents[u].time <= KubeEvents[kept].time
<1> DEFINE sorted == sortEvents(S)
           n == Cardinality(S)
           m == Min({Len(sorted), MAX_EVENTS * 3})
<1>1. SortedByTime(S, sorted)
    BY SortEventsSorts
<1>2. n \in Nat
    BY FS_CardinalityType
<1>3. /\ sorted \in [1..n -> S]
      /\ \A x \in S : \E r \in 1..n : sorted[r] = x
      /\ \A q, r \in 1..n :
            q < r => sorted[q] # sorted[r] /\ KubeEvents[sorted[q]].time >= KubeEvents[sorted[r]].time
    BY <1>1 DEF SortedByTime
<1> HIDE DEF sorted, n
<1>4. sorted \in Seq(S) /\ Len(sorted) = n
    BY <1>2, <1>3
<1>5. MAX_EVENTS * 3 \in Nat /\ MAX_EVENTS * 3 = 3 * MAX_EVENTS
    BY EventsConstants
<1>6. m \in 0..n /\ m <= 3 * MAX_EVENTS /\ (m = n \/ m = 3 * MAX_EVENTS)
    BY <1>2, <1>4, <1>5, SmallerOfTwo
<1> HIDE DEF m
<1>7. SubSeq(sorted, 1, m) = [r \in 1..m |-> sorted[r]]
    BY <1>2, <1>4, <1>6
<1>8. Trimmed(S) = {sorted[r] : r \in 1..m}
    BY <1>7 DEF Trimmed, ToSet, sorted, m
<1>9. Trimmed(S) \subseteq S
    BY <1>2, <1>3, <1>6, <1>8
<1> DEFINE f == [r \in 1..m |-> sorted[r]]
<1>10. IsFiniteSet(Trimmed(S)) /\ Cardinality(Trimmed(S)) = m
    <2>1. f \in Surjection(1..m, Trimmed(S))
        BY <1>8 DEF Surjection
    <2>2. IsFiniteSet(1..m) /\ Cardinality(1..m) = m
        BY <1>2, <1>6, FS_Interval
    <2>3. ASSUME NEW q \in 1..m, NEW r \in 1..m, f[q] = f[r]
          PROVE  q = r
        <3>1. q \in 1..n /\ r \in 1..n /\ sorted[q] = sorted[r]
            BY <1>2, <1>6, <2>3
        <3> QED BY <3>1, <1>2, <1>3
    <2>4. f \in Injection(1..m, Trimmed(S))
        BY <2>1, <2>3 DEF Injection, IsInjective, Surjection
    <2> HIDE DEF f
    <2> QED BY <2>1, <2>2, <2>4, FS_Surjection
<1>11. ASSUME NEW u \in S \ Trimmed(S), NEW kept \in Trimmed(S)
       PROVE  KubeEvents[u].time <= KubeEvents[kept].time
    <2>1. PICK q \in 1..m : sorted[q] = kept
        BY <1>8
    <2>2. PICK r \in 1..n : sorted[r] = u
        BY <1>3
    <2>3. r \notin 1..m
        BY <1>8, <2>2
    <2>4. q < r /\ q \in 1..n
        BY <1>2, <1>6, <2>1, <2>2, <2>3
    <2>5. KubeEvents[kept].time >= KubeEvents[u].time
        BY <1>3, <2>1, <2>2, <2>4
    <2> QED BY <2>5, <1>9, EventsConstants
<1>12. Trimmed(S) # S => m # n
    BY <1>2, <1>3, <1>6, <1>8
<1> QED BY <1>6, <1>9, <1>10, <1>11, <1>12

EventsInv ==
    /\ IsFiniteSet(eventMap) /\ IsFiniteSet(received)
    /\ eventMap \subseteq received /\ received \subseteq Uids
    /\ eventMap # received => Cardinality(eventMap) = 3 * MAX_EVENTS
    /\ NewestAreKept

\* A poll that is merged into the map keeps the invariant.
LEMMA MergeKeepsNewest == EventsInv /\ (\E r \in EventRgds : fetchAndMerge(r)) => EventsInv'
<1> SUFFICES ASSUME EventsInv, NEW rgd \in EventRgds, fetchAndMerge(rgd) PROVE EventsInv'
    OBVIOUS
<1>1. PICK incoming \in SUBSET Uids :
          eventMap' = Trimmed(eventMap \cup incoming) /\ received' = received \cup incoming
    BY DEF fetchAndMerge
<1>2. IsFiniteSet(incoming)
    BY EventsConstants, FS_Subset
<1>3. IsFiniteSet(eventMap \cup incoming) /\ IsFiniteSet(received')
    BY <1>1, <1>2, FS_Union DEF EventsInv
<1> DEFINE all == eventMap \cup incoming
<1>4. all \subseteq Uids
    BY <1>1 DEF EventsInv
<1>5. /\ eventMap' \subseteq all
      /\ IsFiniteSet(eventMap')
      /\ Cardinality(eventMap') <= 3 * MAX_EVENTS
      /\ eventMap' # all => Cardinality(eventMap') = 3 * MAX_EVENTS
      /\ \A u \in all \ eventMap', kept \in eventMap' : KubeEvents[u].time <= KubeEvents[kept].time
    <2>1. IsFiniteSet(all) /\ all \subseteq Uids /\ eventMap' = Trimmed(all)
        BY <1>1, <1>3, <1>4
    <2> HIDE DEF all
    <2> QED BY <2>1, TrimmedKeepsNewest
<1>6. eventMap' \subseteq received' /\ received' \subseteq Uids
    BY <1>1, <1>5 DEF EventsInv
<1>7. 3 * MAX_EVENTS \in Nat /\ Cardinality(eventMap) \in Nat /\ Cardinality(all) \in Nat
    BY <1>3, FS_CardinalityType, EventsConstants DEF EventsInv
<1>8. CASE eventMap = received
    <2>1. received' = all
        BY <1>1, <1>8
    <2> QED BY <2>1, <1>3, <1>5, <1>6 DEF EventsInv, NewestAreKept
<1>9. CASE eventMap # received
    <2>1. Cardinality(eventMap) = 3 * MAX_EVENTS
        BY <1>9 DEF EventsInv
    <2>2. Cardinality(eventMap') = 3 * MAX_EVENTS
        <3>1. CASE eventMap' = all
            <4>1. Cardinality(eventMap) <= Cardinality(all)
                BY <1>3, FS_Subset
            <4> QED BY <4>1, <3>1, <2>1, <1>5, <1>7
        <3> QED BY <3>1, <1>5
    <2>3. ASSUME NEW u \in received' \ eventMap', NEW kept \in eventMap'
          PROVE  KubeEvents[u].time <= KubeEvents[kept].time
        <3>1. CASE u \in all
            BY <3>1, <1>5
        <3>2. CASE u \notin all
            <4>1. u \in received \ eventMap
                BY <3>2, <1>1
            <4>2. \A o \in eventMap : KubeEvents[u].time <= KubeEvents[o].time
                BY <4>1 DEF EventsInv, NewestAreKept
            <4>3. CASE kept \in eventMap
                BY <4>2, <4>3
            <4>4. CASE kept \notin eventMap
                <5>1. ~(eventMap \subseteq eventMap')
                    BY <4>4, <1>5, <2>1, <2>2, FS_Subset
                <5>2. PICK o \in eventMap : o \notin eventMap'
                    BY <5>1
                <5>3. KubeEvents[o].time <= KubeEvents[kept].time
                    BY <5>2, <1>5
                <5>4. KubeEvents[u].time <= KubeEvents[o].time
                    BY <4>2
                <5>5. u \in Uids /\ o \in Uids /\ kept \in Uids
                    BY <1>6, <4>1, <1>4 DEF EventsInv
                <5>6. \A x \in Uids : KubeEvents[x].time \in Nat
                    BY EventsConstants
                <5> QED BY <5>3, <5>4, <5>5, <5>6
            <4> QED BY <4>3, <4>4
        <3> QED BY <3>1, <3>2
    <2> QED BY <2>2, <2>3, <1>3, <1>5, <1>6 DEF EventsInv, NewestAreKept
<1> QED BY <1>8, <1>9

\* Searching and clearing the filters keep it: the map is emptied as a whole.
LEMMA CommitKeepsNewest ==
    ASSUME EventsInv, NEW f, NEW input, Commit(f, input)
    PROVE  EventsInv'
<1>1. CASE UNCHANGED <<eventMap, received>>
    BY <1>1 DEF EventsInv, NewestAreKept
<1>2. CASE eventMap' = {} /\ received' = {}
    <2>1. 0 <= 3 * MAX_EVENTS
        BY EventsConstants
    <2> QED BY <1>2, <2>1, FS_EmptySet DEF EventsInv, NewestAreKept
<1> QED BY <1>1, <1>2 DEF Commit

\* Whatever the filters were and however many polls have come, the map of the event
\* stream holds the newest of what came for the filter, and no more than it may.
THEOREM OnlyOldEventsGo == EventsSpec => []NewestAreKept
<1>1. EventsInit => EventsInv
    <2>1. 0 <= 3 * MAX_EVENTS
        BY EventsConstants
    <2> QED BY <2>1, FS_EmptySet DEF EventsInit, EventsInv, NewestAreKept
<1>2. EventsInv /\ [EventsNext]_eventVars => EventsInv'
    <2> SUFFICES ASSUME EventsInv, [EventsNext]_eventVars PROVE EventsInv'
        OBVIOUS
    <2>1. CASE commitRgd \/ commitInstance \/ clearEventFilters
        BY <2>1, CommitKeepsNewest DEF commitRgd, commitInstance, clearEventFilters
    <2>2. CASE \E r \in EventRgds : fetchAndMerge(r)
        BY <2>2, MergeKeepsNewest
    <2>3. CASE UNCHANGED <<eventMap, received>>
        BY <2>3 DEF EventsInv, NewestAreKept
    <2>4. ASSUME TypeFilter \/ LoadMore \/ PollEvents \/ (\E r \in EventRgds : EventsFail(r))
                 \/ UNCHANGED eventVars
          PROVE  UNCHANGED <<eventMap, received>>
        BY <2>4 DEF TypeFilter, LoadMore, PollEvents, EventsFail, eventVars
    <2> QED BY <2>1, <2>2, <2>3, <2>4 DEF EventsNext
<1>3. EventsInv => NewestAreKept
    BY DEF EventsInv
<1> QED BY <1>1, <1>2, <1>3, PTL DEF EventsSpec

-----------------------------------------------------------------------------
(* InstanceList: pages, and the comparison of two.                         *)

PageOK(v) == "page" \in DOMAIN v /\ v.page \in Nat

ComparedOK(c) ==
    /\ DOMAIN c = {"spec", "yaml"}
    /\ c["spec"] = {} \/ c["yaml"] = {}
    /\ \A k \in {"spec", "yaml"} : c[k] = {} \/ Cardinality(c[k]) = 2

ListInv ==
    /\ \E n \in Nat : DOMAIN listed = 1..n
    /\ PageOK(view)
    /\ ComparedOK(compared)

\* A page has room for a row.
LEMMA PageSizeIs == PAGE_SIZE \in Nat /\ PAGE_SIZE > 0
<1>1. PAGE_SIZE \in Nat \ {0}
    BY InstanceListAssumption, Zenon DEF InstanceListAssumption
<1> QED BY <1>1

\* The filtered and sorted list is a sequence.
LEMMA SortedListIs ==
    ASSUME ListInv
    PROVE  /\ Len(SortedList) \in Nat
           /\ SortedList \in Seq({SortedList[r] : r \in DOMAIN SortedList})
<1>1. PICK n \in Nat : DOMAIN listed = 1..n
    BY DEF ListInv
<1>2. IsFiniteSet(FilteredRows)
    <2>1. FilteredRows \subseteq 1..n
        BY <1>1 DEF FilteredRows
    <2>2. IsFiniteSet(1..n)
        BY FS_Interval
    <2> QED BY <2>1, <2>2, FS_Subset
<1>3. Cardinality(FilteredRows) \in Nat
    BY <1>2, FS_CardinalityType
<1>4. DOMAIN SortedList = 1..Cardinality(FilteredRows) /\ SortedList = [r \in DOMAIN SortedList |-> SortedList[r]]
    BY DEF SortedList, FilterSort
<1> HIDE DEF SortedList
<1> QED BY <1>3, <1>4

PagesFor(n, P) == Max({1, (n + P - 1) \div P})
PageIn(chosen, total) == Min({chosen, total - 1})

\* The pages: as many as the rows need, and the one that is shown is one of them.
LEMMA PageNumbers ==
    ASSUME NEW n \in Nat, NEW P \in Nat, P > 0, NEW chosen \in Nat,
           NEW total, total = PagesFor(n, P), NEW safe, safe = PageIn(chosen, total)
    PROVE  /\ total \in Nat /\ total > 0
           /\ safe \in Nat
           /\ n > 0 => safe * P < n
           /\ safe = total - 1 => n <= (safe + 1) * P
<1> DEFINE q == (n + P - 1) \div P
<1>1. n + P - 1 \in Nat /\ P \in Nat \ {0}
    OBVIOUS
<1>2. q \in Nat /\ q * P <= n + P - 1 /\ n + P - 1 < (q + 1) * P
    BY <1>1, Quotient
<1> HIDE DEF q
<1>3. (q + 1) * P = q * P + P
    BY <1>1, <1>2
<1>4. total = IF 1 >= q THEN 1 ELSE q
    BY <1>2, LargerOfTwo DEF q, PagesFor
<1>5. total \in Nat /\ total > 0 /\ total >= q
    BY <1>2, <1>4
<1>6. safe = IF chosen <= total - 1 THEN chosen ELSE total - 1
    BY <1>5, SmallerOfTwo DEF PageIn
<1>7. safe \in Nat /\ safe <= total - 1
    BY <1>5, <1>6
<1>8. n <= q * P
    BY <1>2, <1>3
<1>9. ASSUME n > 0 PROVE safe * P < n
    <2>1. q > 0
        <3> SUFFICES ASSUME q = 0 PROVE FALSE
            BY <1>2
        <3> QED BY <1>8, <1>9
    <2>2. total = q
        BY <2>1, <1>2, <1>4
    <2>3. (q - 1) * P = q * P - P
        BY <1>1, <1>2
    <2>4. safe * P <= (q - 1) * P
        BY <2>2, <1>1, <1>2, <1>7, SmallerFactor
    <2>5. safe * P \in Int /\ q * P \in Int
        BY <1>2, <1>7
    <2> QED BY <2>3, <2>4, <2>5, <1>2
<1>10. ASSUME safe = total - 1 PROVE n <= (safe + 1) * P
    <2>1. safe + 1 = total
        BY <1>5, <1>10
    <2>2. q * P <= total * P
        BY <1>1, <1>2, <1>5, SmallerFactor
    <2>3. q * P \in Int /\ total * P \in Int
        BY <1>2, <1>5
    <2> QED BY <2>1, <2>2, <2>3, <1>8
<1> QED BY <1>5, <1>7, <1>9, <1>10

\* The page that is shown is one of the list's pages.
LEMMA SafePageIs ==
    ASSUME ListInv
    PROVE  /\ totalPages \in Nat /\ totalPages > 0
           /\ safePage \in Nat
           /\ Len(SortedList) > 0 => safePage * PAGE_SIZE < Len(SortedList)
           /\ safePage = totalPages - 1 => Len(SortedList) <= (safePage + 1) * PAGE_SIZE
<1>1. Len(SortedList) \in Nat /\ view.page \in Nat
    BY SortedListIs DEF ListInv, PageOK
<1>2. /\ totalPages = PagesFor(Len(SortedList), PAGE_SIZE)
      /\ safePage = PageIn(view.page, totalPages)
    BY DEF totalPages, safePage, PagesFor, PageIn
<1> QED BY <1>1, <1>2, PageSizeIs, PageNumbers

\* A page with matching rows shows some.
LEMMA RowsAreShown == ListInv => PageIsNeverBlank
<1> SUFFICES ASSUME ListInv, SortedList # <<>>
             PROVE  /\ pageItems # <<>>
                    /\ safePage = totalPages - 1 => Last(pageItems) = Last(SortedList)
    BY DEF PageIsNeverBlank
<1> DEFINE n == Len(SortedList)
           first == safePage * PAGE_SIZE
           next == (safePage + 1) * PAGE_SIZE
           last == Min({next, n})
<1>1. PICK X : SortedList \in Seq(X)
    BY SortedListIs
<1>2. n \in Nat /\ n > 0
    BY <1>1
<1>3. safePage \in Nat /\ first < n /\ (safePage = totalPages - 1 => n <= next)
    BY <1>2, SafePageIs
<1>4. first \in Nat /\ next \in Nat /\ next = first + PAGE_SIZE
    BY <1>3, PageSizeIs
<1>5. pageItems = SubSeq(SortedList, first + 1, last)
    BY DEF pageItems
<1> HIDE DEF first, next
<1>6. last = IF next <= n THEN next ELSE n
    BY <1>2, <1>4, SmallerOfTwo
<1> HIDE DEF n, last
<1>7. last \in Nat /\ first + 1 <= last /\ last <= n
    BY <1>2, <1>3, <1>4, <1>6, PageSizeIs
<1>8. /\ pageItems \in Seq(X) /\ Len(pageItems) = last - first
      /\ pageItems[last - first] = SortedList[last]
    BY <1>1, <1>4, <1>5, <1>7 DEF n
<1>9. pageItems # <<>>
    BY <1>4, <1>7, <1>8
<1>10. ASSUME safePage = totalPages - 1 PROVE Last(pageItems) = Last(SortedList)
    <2>1. last = n
        BY <1>2, <1>3, <1>4, <1>6, <1>10
    <2> QED BY <2>1, <1>8 DEF Last, n
<1> QED BY <1>9, <1>10

-----------------------------------------------------------------------------
(* The list and the view *)

\* The names of finitely many instances are a sequence.
LEMMA ListIsSequence ==
    ASSUME NEW keys \in SUBSET DOMAIN Instances
    PROVE  \E n \in Nat : DOMAIN SetToSeq(keys) = 1..n
<1>1. IsFiniteSet(DOMAIN Instances)
    BY InstanceListAssumption, Zenon DEF InstanceListAssumption
<1>2. IsFiniteSet(keys)
    BY <1>1, FS_Subset
<1> QED BY <1>2, SetInOrder

\* Lists that arrive or fail, and the link in the top bar.
LEMMA ListStepOK ==
    ListInv /\ (ListArrives \/ ItemsReplaced \/ ListFails \/ RetryList \/ TopBarLink) => ListInv'
<1> SUFFICES ASSUME ListInv, ListArrives \/ ItemsReplaced \/ ListFails \/ RetryList \/ TopBarLink
             PROVE  ListInv'
    OBVIOUS
<1>1. view' = view /\ compared' = compared
    BY DEF ListArrives, ItemsReplaced, ListFails, RetryList, TopBarLink
<1>2. PageOK(view') /\ ComparedOK(compared')
    BY <1>1 DEF ListInv
<1>3. CASE ListArrives \/ ItemsReplaced
    <2>1. PICK keys \in SUBSET DOMAIN Instances : listed' = SetToSeq(keys)
        BY <1>3 DEF ListArrives, ItemsReplaced, Listed
    <2> QED BY <2>1, <1>2, ListIsSequence DEF ListInv
<1>4. CASE ListFails \/ RetryList \/ TopBarLink
    <2>1. listed' = listed
        BY <1>4 DEF ListFails, RetryList, TopBarLink
    <2> QED BY <2>1, <1>2 DEF ListInv
<1> QED BY <1>3, <1>4

\* A change of the view that sets a page number.
LEMMA ViewStepOK ==
    ASSUME ListInv, NEW v, SetView(v), PageOK(v)
    PROVE  ListInv'
BY DEF SetView, ListInv

\* Every filter goes back to the first page.
LEMMA FiltersOK ==
    ListInv /\ (SetSearch \/ SetNamespace \/ ClickPill \/ ClickHealthChip \/ ToggleTerminatingOnly)
        => ListInv'
<1> SUFFICES ASSUME ListInv,
                    SetSearch \/ SetNamespace \/ ClickPill \/ ClickHealthChip \/ ToggleTerminatingOnly
             PROVE  ListInv'
    OBVIOUS
<1>1. PageOK(view)
    BY DEF ListInv
<1>2. CASE SetSearch
    <2>1. PICK q \in DOMAIN Searches : SetView([view EXCEPT !.query = q, !.page = 0])
        BY <1>2 DEF SetSearch
    <2>2. PageOK([view EXCEPT !.query = q, !.page = 0])
        BY <1>1 DEF PageOK
    <2> QED BY <2>1, <2>2, ViewStepOK
<1>3. CASE SetNamespace \/ ClickPill
    <2>1. PICK n : SetView([view EXCEPT !.ns = n, !.page = 0])
        BY <1>3 DEF SetNamespace, ClickPill
    <2>2. PageOK([view EXCEPT !.ns = n, !.page = 0])
        BY <1>1 DEF PageOK
    <2> QED BY <2>1, <2>2, ViewStepOK
<1>4. CASE ClickHealthChip
    <2>1. PICK h : SetView([view EXCEPT !.health = h, !.page = 0])
        BY <1>4 DEF ClickHealthChip
    <2>2. PageOK([view EXCEPT !.health = h, !.page = 0])
        BY <1>1 DEF PageOK
    <2> QED BY <2>1, <2>2, ViewStepOK
<1>5. CASE ToggleTerminatingOnly
    <2>1. SetView([view EXCEPT !.terminatingOnly = ~@, !.page = 0])
        BY <1>5 DEF ToggleTerminatingOnly
    <2>2. PageOK([view EXCEPT !.terminatingOnly = ~@, !.page = 0])
        BY <1>1 DEF PageOK
    <2> QED BY <2>1, <2>2, ViewStepOK
<1> QED BY <1>2, <1>3, <1>4, <1>5

\* Sorting and paging keep a page number.
LEMMA PagingOK == ListInv /\ (handleSort \/ PrevPage \/ NextPage) => ListInv'
<1> SUFFICES ASSUME ListInv, handleSort \/ PrevPage \/ NextPage PROVE ListInv'
    OBVIOUS
<1>1. PageOK(view) /\ view.page \in Nat
    BY DEF ListInv, PageOK
<1>2. CASE handleSort
    <2>1. PICK key, dir : SetView([view EXCEPT !.sortKey = key, !.page = 0, !.sortDir = dir])
        BY <1>2 DEF handleSort
    <2>2. PageOK([view EXCEPT !.sortKey = key, !.page = 0, !.sortDir = dir])
        BY <1>1 DEF PageOK
    <2> QED BY <2>1, <2>2, ViewStepOK
<1>3. ASSUME NEW p \in Nat, SetView([view EXCEPT !.page = p]) PROVE ListInv'
    <2>1. PageOK([view EXCEPT !.page = p])
        BY <1>1 DEF PageOK
    <2> QED BY <2>1, <1>3, ViewStepOK
<1>4. CASE PrevPage
    <2>1. SetView([view EXCEPT !.page = Max({0, view.page - 1})])
        BY <1>4 DEF PrevPage
    <2>2. Max({0, view.page - 1}) \in Nat
        <3>1. view.page - 1 \in Int /\ 0 \in Int
            BY <1>1
        <3>2. Max({0, view.page - 1}) = IF 0 >= view.page - 1 THEN 0 ELSE view.page - 1
            BY <3>1, LargerOfTwo
        <3> QED BY <1>1, <3>2
    <2> QED BY <2>1, <2>2, <1>3
<1>5. CASE NextPage
    <2>1. SetView([view EXCEPT !.page = Min({totalPages - 1, view.page + 1})])
        BY <1>5 DEF NextPage
    <2>2. Min({totalPages - 1, view.page + 1}) \in Nat
        <3>1. totalPages - 1 \in Nat /\ view.page + 1 \in Nat
            BY <1>1, SafePageIs
        <3>2. Min({totalPages - 1, view.page + 1})
                = IF totalPages - 1 <= view.page + 1 THEN totalPages - 1 ELSE view.page + 1
            BY <3>1, SmallerOfTwo
        <3> QED BY <3>1, <3>2
    <2> QED BY <2>1, <2>2, <1>3
<1> QED BY <1>2, <1>4, <1>5

\* Picking rows changes neither the list nor a comparison.
LEMMA PickOK ==
    ASSUME ListInv, NEW on, NEW keys, Pick(on, keys)
    PROVE  ListInv'
BY DEF Pick, ListInv

\* Every step of the selection is such a pick.
LEMMA SelectionOK ==
    ListInv /\ (\/ EnterSelection \/ LeaveSelection \/ ToggleRow \/ handleToggleSelectAll
                \/ CheckRow \/ ClearCompare \/ UNCHANGED instanceListVars) => ListInv'
<1>1. ListInv /\ UNCHANGED instanceListVars => ListInv'
    BY DEF instanceListVars, ListInv
<1> QED BY <1>1, PickOK DEF EnterSelection, LeaveSelection, ToggleRow, handleToggleSelectAll,
                            CheckRow, ClearCompare

-----------------------------------------------------------------------------
(* The comparison of two *)

\* At most one comparison is open.
LEMMA OneIsOpen == ComparedOK(compared) => OneComparison
<1> SUFFICES ASSUME ComparedOK(compared) PROVE OneComparison
    OBVIOUS
<1> DEFINE open == {k \in {"spec", "yaml"} : compared[k] # {}}
<1>1. PICK k : open \subseteq {k}
    BY DEF ComparedOK
<1>2. IsFiniteSet({k}) /\ Cardinality({k}) = 1
    BY FS_Singleton
<1>3. Cardinality(open) <= 1
    <2> HIDE DEF open
    <2> QED BY <1>1, <1>2, FS_Subset
<1>4. \A j \in {"spec", "yaml"} : Cardinality(compared[j]) \in {0, 2}
    BY FS_EmptySet DEF ComparedOK
<1> QED BY <1>3, <1>4 DEF OneComparison

\* A comparison opens with the two that are picked, and closes the other.
LEMMA CompareOK ==
    ASSUME ListInv, NEW kind \in {"spec", "yaml"}, Compare(kind)
    PROVE  ListInv'
<1>1. /\ Cardinality(picked.keys) = 2
      /\ compared' = IF picked.keys \subseteq ToSet(listed) THEN OpenComparison(kind) ELSE compared
      /\ UNCHANGED <<listed, view>>
    BY DEF Compare, InstanceTableShows
<1>2. ComparedOK(compared')
    <2>1. CASE compared' = compared
        BY <2>1 DEF ListInv
    <2>2. CASE picked.keys \subseteq ToSet(listed) /\ compared' = OpenComparison(kind)
        BY <1>1, <2>2 DEF OpenComparison, ComparedOK
    <2> QED BY <1>1, <2>1, <2>2
<1> QED BY <1>1, <1>2 DEF ListInv

\* Closing one keeps the invariant.
LEMMA CloseOK ==
    ASSUME ListInv, NEW kind \in {"spec", "yaml"}, CloseComparison(kind)
    PROVE  ListInv'
<1>1. compared' = [compared EXCEPT ![kind] = {}] /\ UNCHANGED <<listed, view>>
    BY DEF CloseComparison
<1>2. ComparedOK(compared')
    BY <1>1 DEF ListInv, ComparedOK
<1> QED BY <1>1, <1>2 DEF ListInv

\* The page opens with the invariant.
LEMMA ListStarts == InstanceListInit => ListInv
<1> SUFFICES ASSUME InstanceListInit PROVE ListInv
    OBVIOUS
<1>1. DOMAIN listed = 1..0
    <2>1. listed = <<>>
        BY DEF InstanceListInit
    <2>2. <<>> \in Seq({}) /\ Len(<<>>) = 0
        OBVIOUS
    <2> QED BY <2>1, <2>2
<1>2. PageOK(view)
    BY DEF InstanceListInit, PageOK
<1>3. ComparedOK(compared)
    BY DEF InstanceListInit, ComparedOK
<1> QED BY <1>1, <1>2, <1>3 DEF ListInv

\* The invariant is stronger than the property.
LEMMA InvIsConsistent == ListInv => TableIsConsistent
BY RowsAreShown, OneIsOpen DEF ListInv, TableIsConsistent

\* The page of all instances shows rows whenever some pass its filters, and its last
\* page ends with the last of them, however the list and the filters change.
THEOREM InstancesPageIsConsistent == InstancesPageSpec => []TableIsConsistent
<1>1. ListInv /\ [InstancesPageNext]_instanceListVars => ListInv'
    BY ListStepOK, FiltersOK, PagingOK, SelectionOK DEF InstancesPageNext, Paging
<1> QED BY <1>1, ListStarts, InvIsConsistent, PTL DEF InstancesPageSpec

\* So does the table of one RGD, whose items are replaced under it; and it compares two
\* instances or none, in one comparison at a time.
THEOREM InstanceTableIsConsistent == InstanceTableSpec => []TableIsConsistent
<1>1. ListInv /\ [InstanceTableNext]_instanceListVars => ListInv'
    BY ListStepOK, FiltersOK, PagingOK, SelectionOK, CompareOK, CloseOK DEF InstanceTableNext, Paging
<1> QED BY <1>1, ListStarts, InvIsConsistent, PTL DEF InstanceTableSpec

-----------------------------------------------------------------------------
(* Catalog: numbers of instances, and presets.                             *)

CatalogInv ==
    /\ items \in Seq(DOMAIN Rgds)
    /\ page = "shown" => \A i \in DOMAIN items :
                            /\ items[i] \in DOMAIN counts
                            /\ counts[items[i]] = "loading" <=> items[i] \in asked
    /\ \E X : presets \in Seq(X)
    /\ NoPresetDropped

\* The facts about the constants that the proofs need.
LEMMA CatalogConstants ==
    /\ IsFiniteSet(DOMAIN Rgds) /\ MAX_PRESETS \in Nat
    /\ \A n \in DOMAIN Rgds :
          IsFiniteSet(Rgds[n].uses) /\ Rgds[n].forEach \in Nat /\ Rgds[n].created \in Nat
BY CatalogAssumption, Zenon DEF CatalogAssumption

\* Every sort of the catalog compares numbers.
LEMMA SortKeyIsNumber ==
    ASSUME NEW list \in Seq(DOMAIN Rgds), NEW sort, NEW n \in DOMAIN Rgds
    PROVE  SortKey(list, sort, n) \in Int
<1>1. Cardinality(Rgds[n].uses) \in Nat /\ Rgds[n].forEach \in Nat /\ Rgds[n].created \in Nat
    BY CatalogConstants, FS_CardinalityType
<1>2. Cardinality(UsedBy(list, n)) \in Nat
    <2>1. UsedBy(list, n) \subseteq DOMAIN Rgds
        BY DEF UsedBy, ToSet
    <2> QED BY <2>1, CatalogConstants, FS_Subset, FS_CardinalityType
<1>3. computeComplexityScore(list, n) \in Nat
    BY <1>1, <1>2 DEF computeComplexityScore
<1> QED BY <1>1, <1>3 DEF SortKey

\* A card is an RGD of the list that was received.
LEMMA CardsAreListed ==
    ASSUME items \in Seq(DOMAIN Rgds), NEW n \in Cards
    PROVE  page = "shown" /\ \E i \in DOMAIN items : items[i] = n
<1> DEFINE sort == filter.sort
           K == Filtered
           Key(i) == SortKey(items, sort, items[i])
           key == [i \in K |-> Key(i)]
           Before(i) == {j \in K : Key(j) > Key(i) \/ (~(Key(i) > Key(j)) /\ j < i)}
           E == [i \in K |-> Before(i)]
           Chosen(r) == CHOOSE i \in K : Cardinality(Before(i)) = r - 1
<1>1. page = "shown" /\ n \in ToSet(sortCatalog)
    <2>1. Cards = IF page = "shown" THEN ToSet(sortCatalog) ELSE ToSet(<<>>)
        BY DEF Cards, CatalogShows
    <2>2. ToSet(<<>>) = {}
        BY DEF ToSet
    <2> QED BY <2>1, <2>2
<1>2. sortCatalog = [r \in 1..Cardinality(K) |-> items[Chosen(r)]]
    BY DEF sortCatalog, FilterSort
<1>3. PICK r \in 1..Cardinality(K) : n = items[Chosen(r)]
    <2> HIDE DEF K, Chosen
    <2> QED BY <1>1, <1>2 DEF ToSet
<1>4. K \subseteq DOMAIN items /\ K \subseteq Nat /\ IsFiniteSet(K)
    <2>1. K \subseteq DOMAIN items
        BY DEF Filtered
    <2>2. DOMAIN items = 1..Len(items) /\ Len(items) \in Nat
        OBVIOUS
    <2>3. IsFiniteSet(1..Len(items))
        BY <2>2, FS_Interval
    <2> HIDE DEF K
    <2> QED BY <2>1, <2>2, <2>3, FS_Subset
<1>5. key \in [K -> Int]
    <2> HIDE DEF K
    <2>1. \A i \in K : items[i] \in DOMAIN Rgds
        BY <1>4
    <2> QED BY <2>1, SortKeyIsNumber
<1>6. LargestFirst(K, key, E)
    <2> HIDE DEF K, Key
    <2> QED BY DEF LargestFirst
<1>7. \A i \in K : E[i] = Before(i)
    OBVIOUS
<1> HIDE DEF K, Key, key, Before
<1>8. IsOrder(K, E)
    <2> HIDE DEF E
    <2> QED BY <1>4, <1>5, <1>6, LargestFirstIsOrder
<1>9. \E i \in K : Cardinality(E[i]) = r - 1
    <2> HIDE DEF E
    <2> QED BY <1>4, <1>8, RankExists
<1>10. \E i \in K : Cardinality(Before(i)) = r - 1
    <2> HIDE DEF E
    <2> QED BY <1>7, <1>9
<1>11. Chosen(r) \in K
    BY <1>10
<1> HIDE DEF Chosen
<1> QED BY <1>1, <1>3, <1>4, <1>11

\* A card waits for its number exactly while its request is out.
LEMMA CardsShimmer == CatalogInv => ShimmerHasRequest
<1> SUFFICES ASSUME CatalogInv, NEW n \in Cards
             PROVE  counts[n] = "loading" <=> n \in asked
    BY DEF ShimmerHasRequest, CardShows
<1>1. items \in Seq(DOMAIN Rgds)
    BY DEF CatalogInv
<1>2. page = "shown" /\ \E i \in DOMAIN items : items[i] = n
    BY <1>1, CardsAreListed
<1> QED BY <1>2, Zenon DEF CatalogInv

-----------------------------------------------------------------------------
(* The list and the numbers *)

\* Steps that leave the list and the numbers alone, and drop no preset.
LEMMA SameNumbers ==
    ASSUME CatalogInv, UNCHANGED <<page, items, counts, asked>>, NEW X, presets' \in Seq(X), NoPresetDropped'
    PROVE  CatalogInv'
BY DEF CatalogInv

\* A list that arrives asks for the number of every card.
LEMMA AnswerOK == CatalogInv /\ ListAnswered => CatalogInv'
<1> SUFFICES ASSUME CatalogInv, ListAnswered PROVE CatalogInv'
    OBVIOUS
<1>1. PICK names \in SUBSET DOMAIN Rgds :
          items' = SetToSeq(names) /\ counts' = [n \in names |-> "loading"] /\ asked' = names
    BY DEF ListAnswered
<1>2. IsFiniteSet(names)
    BY CatalogConstants, FS_Subset
<1>3. /\ Cardinality(names) \in Nat
      /\ SetToSeq(names) \in [1..Cardinality(names) -> names]
    BY <1>2, SetInOrder
<1>4. items' \in Seq(DOMAIN Rgds)
    BY <1>1, <1>3
<1>5. ASSUME NEW i \in DOMAIN items'
      PROVE  /\ items'[i] \in DOMAIN counts'
             /\ counts'[items'[i]] = "loading" <=> items'[i] \in asked'
    BY <1>1, <1>3
<1>6. presets' = presets /\ saveForm' = saveForm
    BY DEF ListAnswered, presetVars
<1> QED BY <1>4, <1>5, <1>6 DEF CatalogInv, NoPresetDropped

\* Asking again, or failing, forgets cards and requests together.
LEMMA NoListOK == CatalogInv /\ (ListFailed \/ fetchRGDs) => CatalogInv'
<1> SUFFICES ASSUME CatalogInv, ListFailed \/ fetchRGDs PROVE CatalogInv'
    OBVIOUS
<1>1. page' # "shown" /\ items' = items /\ presets' = presets /\ saveForm' = saveForm
    BY DEF ListFailed, fetchRGDs, presetVars
<1> QED BY <1>1 DEF CatalogInv, NoPresetDropped

\* A number that arrives, or fails to, ends its request and the waiting of its card.
LEMMA NumberOK ==
    CatalogInv /\ (\E n \in DOMAIN Rgds : CountAnswered(n) \/ CountFailed(n)) => CatalogInv'
<1> SUFFICES ASSUME CatalogInv, NEW n \in DOMAIN Rgds, CountAnswered(n) \/ CountFailed(n)
             PROVE  CatalogInv'
    OBVIOUS
<1>1. PICK said \in {"known", "failed"} : counts' = [counts EXCEPT ![n] = said]
    BY DEF CountAnswered, CountFailed
<1>2. /\ page' = page /\ items' = items /\ presets' = presets /\ saveForm' = saveForm
      /\ asked' = asked \ {n}
    BY DEF CountAnswered, CountFailed, presetVars
<1>3. ASSUME page = "shown", NEW i \in DOMAIN items
      PROVE  /\ items[i] \in DOMAIN counts'
             /\ counts'[items[i]] = "loading" <=> items[i] \in asked'
    <2>1. items[i] \in DOMAIN counts /\ (counts[items[i]] = "loading" <=> items[i] \in asked)
        BY <1>3 DEF CatalogInv
    <2> QED BY <2>1, <1>1, <1>2
<1> QED BY <1>2, <1>3 DEF CatalogInv, NoPresetDropped

-----------------------------------------------------------------------------
(* The presets *)

\* The form and the deletion of presets keep every preset that was not deleted.
LEMMA PresetOK ==
    CatalogInv /\ (OpenSaveForm \/ handleSavePreset \/ CancelSaveForm \/ handleDeletePreset)
        => CatalogInv'
<1> SUFFICES ASSUME CatalogInv,
                    OpenSaveForm \/ handleSavePreset \/ CancelSaveForm \/ handleDeletePreset
             PROVE  CatalogInv'
    OBVIOUS
<1>1. UNCHANGED <<page, items, counts, asked>>
    BY DEF OpenSaveForm, handleSavePreset, CancelSaveForm, handleDeletePreset, listVars
<1>2. PICK X : presets \in Seq(X)
    BY DEF CatalogInv
<1>3. CASE OpenSaveForm
    BY <1>1, <1>2, <1>3, SameNumbers DEF OpenSaveForm, NoPresetDropped
<1>4. CASE handleSavePreset
    <2> DEFINE next == <<filter>> \o presets
               kept == Min({Len(next), MAX_PRESETS})
    <2>1. next \in Seq(X \cup {filter})
        <3>1. presets \in Seq(X \cup {filter})
            BY <1>2
        <3>2. <<filter>> \in Seq(X \cup {filter})
            OBVIOUS
        <3> QED BY <3>1, <3>2
    <2>2. presets' = SubSeq(next, 1, kept) /\ saveForm' = FALSE
        BY <1>4 DEF handleSavePreset
    <2> HIDE DEF next
    <2>3. Len(next) \in Nat
        BY <2>1
    <2>4. kept \in 0..Len(next)
        BY <2>3, CatalogConstants, SmallerOfTwo
    <2> HIDE DEF kept
    <2>5. presets' \in Seq(X \cup {filter})
        BY <2>1, <2>2, <2>3, <2>4
    <2> QED BY <2>2, <2>5, <1>1, SameNumbers DEF NoPresetDropped
<1>5. CASE CancelSaveForm
    BY <1>1, <1>2, <1>5, SameNumbers DEF CancelSaveForm, NoPresetDropped
<1>6. CASE handleDeletePreset
    <2>1. PICK i \in DOMAIN presets : presets' = RemoveAt(presets, i)
        BY <1>6 DEF handleDeletePreset
    <2> DEFINE before == SubSeq(presets, 1, i - 1)
               after == SubSeq(presets, i + 1, Len(presets))
    <2>2. presets' = before \o after
        BY <2>1 DEF RemoveAt
    <2>3. i \in 1..Len(presets) /\ Len(presets) \in Nat
        BY <1>2
    <2>4. before \in Seq(X) /\ Len(before) = i - 1
        BY <1>2, <2>3
    <2>5. after \in Seq(X) /\ Len(after) = Len(presets) - i
        BY <1>2, <2>3
    <2>6. presets' \in Seq(X) /\ Len(presets') = Len(presets) - 1
        <3> HIDE DEF before, after
        <3> QED BY <2>2, <2>3, <2>4, <2>5
    <2>7. saveForm' = saveForm
        BY <1>6 DEF handleDeletePreset
    <2>8. NoPresetDropped'
        BY <2>3, <2>6, <2>7, CatalogConstants DEF CatalogInv, NoPresetDropped
    <2> QED BY <2>6, <2>8, <1>1, SameNumbers
<1> QED BY <1>3, <1>4, <1>5, <1>6

\* Filters, the selection and the export leave the numbers alone.
LEMMA OtherCatalogOK ==
    ASSUME CatalogInv,
           \/ SetQuery \/ SetSort \/ SetStatus \/ toggleLabel \/ ClearAllLabels \/ onLabelClick
           \/ clearFilters \/ useDebounce \/ handleApplyPreset
           \/ handleEnterSelectionMode \/ handleExitSelectionMode \/ handleCardToggle
           \/ handleSelectAll \/ handleExportYAML \/ ExportNext \/ UNCHANGED catalogVars
    PROVE  CatalogInv'
<1>1. UNCHANGED <<page, items, counts, asked, presets, saveForm>>
    BY DEF SetQuery, SetSort, SetStatus, toggleLabel, ClearAllLabels, onLabelClick, clearFilters,
           useDebounce, handleApplyPreset, handleEnterSelectionMode, handleExitSelectionMode,
           handleCardToggle, handleSelectAll, handleExportYAML, ExportNext, SetFilter, Select,
           catalogVars, listVars, presetVars
<1> QED BY <1>1 DEF CatalogInv, NoPresetDropped

\* In the catalog a card shimmers exactly as long as its number is asked for, after any
\* failures and reloads, and saving a preset never drops one.
THEOREM CatalogAlwaysKeepsCount == CatalogSpec => []CatalogKeepsCount
<1>1. CatalogInit => CatalogInv
    <2> SUFFICES ASSUME CatalogInit PROVE CatalogInv
        OBVIOUS
    <2>1. /\ page = "loading" /\ items = <<>> /\ presets = <<>> /\ saveForm = FALSE
        BY DEF CatalogInit
    <2>2. items \in Seq(DOMAIN Rgds) /\ presets \in Seq({})
        BY <2>1
    <2> QED BY <2>1, <2>2 DEF CatalogInv, NoPresetDropped
<1>2. CatalogInv /\ [CatalogNext]_catalogVars => CatalogInv'
    BY AnswerOK, NoListOK, NumberOK, PresetOK, OtherCatalogOK DEF CatalogNext
<1>3. CatalogInv => CatalogKeepsCount
    BY CardsShimmer DEF CatalogInv, CatalogKeepsCount
<1> QED BY <1>1, <1>2, <1>3, PTL DEF CatalogSpec

-----------------------------------------------------------------------------
(* FleetPage: contexts that share a cluster share a card.                  *)

ClusterSummary == [context : FleetContexts, health : ClusterHealth, kinds : SUBSET FleetKinds]
Card == [context : FleetContexts, health : ClusterHealth, kinds : SUBSET FleetKinds,
         aliases : SUBSET FleetContexts]

Names(card) == {card.context} \cup card.aliases

\* The cards of the first n summaries: one cluster has one card, and all are on one.
CardsOK(cards, summaries, n) ==
    /\ cards \in Seq(Card)
    /\ \A j \in DOMAIN cards : \A c \in Names(cards[j]) : ClusterOf[c] = ClusterOf[cards[j].context]
    /\ \A i, j \in DOMAIN cards :
          ClusterOf[cards[i].context] = ClusterOf[cards[j].context] => i = j
    /\ \A k \in 1..n : \E j \in DOMAIN cards : summaries[k].context \in Names(cards[j])

\* A cluster not seen before gets a card with its own name.
LEMMA NewCard ==
    ASSUME NEW c \in ClusterSummary, NEW card,
           card = [context |-> c.context, health |-> c.health, kinds |-> c.kinds, aliases |-> {}]
    PROVE  card \in Card /\ card.context = c.context /\ Names(card) = {c.context}
BY DEF ClusterSummary, Card, Names

\* A further name joins the card, as its title or as an alias.
LEMMA JoinedCard ==
    ASSUME NEW card \in Card, NEW c \in ClusterSummary
    PROVE  /\ JoinCard(card, c) \in Card
           /\ JoinCard(card, c).context \in {card.context, c.context}
           /\ \A x : x \in Names(JoinCard(card, c)) <=> x \in Names(card) \/ x = c.context
<1>1. CASE NameLength[c.context] < NameLength[card.context]
    <2>1. JoinCard(card, c) = [card EXCEPT !.context = c.context, !.aliases = card.aliases \cup {card.context}]
        BY <1>1 DEF JoinCard
    <2>2. /\ JoinCard(card, c) \in Card
          /\ JoinCard(card, c).context = c.context
          /\ JoinCard(card, c).aliases = card.aliases \cup {card.context}
        BY <2>1 DEF Card, ClusterSummary
    <2> QED BY <2>2 DEF Names
<1>2. CASE ~(NameLength[c.context] < NameLength[card.context])
    <2>1. JoinCard(card, c) = [card EXCEPT !.aliases = card.aliases \cup {c.context}]
        BY <1>2 DEF JoinCard
    <2>2. /\ JoinCard(card, c) \in Card
          /\ JoinCard(card, c).context = card.context
          /\ JoinCard(card, c).aliases = card.aliases \cup {c.context}
        BY <2>1 DEF Card, ClusterSummary
    <2> QED BY <2>2 DEF Names
<1> QED BY <1>1, <1>2

\* A further summary keeps one card per cluster and every context on a card.
LEMMA CardIsAdded ==
    ASSUME NEW cards, NEW summaries \in Seq(ClusterSummary), NEW n \in Nat, n + 1 \in DOMAIN summaries,
           CardsOK(cards, summaries, n)
    PROVE  CardsOK(AddToCards(cards, summaries[n + 1]), summaries, n + 1)
<1> DEFINE c == summaries[n + 1]
           same == {i \in DOMAIN cards : ClusterOf[cards[i].context] = ClusterOf[c.context]}
           new == AddToCards(cards, c)
<1>1. c \in ClusterSummary /\ c.context \in FleetContexts
    <2>1. c \in ClusterSummary
        OBVIOUS
    <2> HIDE DEF c
    <2> QED BY <2>1 DEF ClusterSummary
<1>2. /\ cards \in Seq(Card)
      /\ \A j \in DOMAIN cards : \A x \in Names(cards[j]) : ClusterOf[x] = ClusterOf[cards[j].context]
      /\ \A i, j \in DOMAIN cards :
            ClusterOf[cards[i].context] = ClusterOf[cards[j].context] => i = j
      /\ \A k \in 1..n : \E j \in DOMAIN cards : summaries[k].context \in Names(cards[j])
    BY DEF CardsOK
<1> HIDE DEF c
<1>3. CASE same = {}
    <2> DEFINE card == [context |-> c.context, health |-> c.health, kinds |-> c.kinds, aliases |-> {}]
    <2>1. new = Append(cards, card)
        BY <1>3 DEF AddToCards
    <2>2. card \in Card /\ card.context = c.context /\ Names(card) = {c.context}
        BY <1>1, NewCard
    <2> HIDE DEF card, new
    <2> DEFINE m == Len(cards)
    <2>3. /\ new \in Seq(Card) /\ m \in Nat
          /\ DOMAIN cards = 1..m /\ DOMAIN new = 1..(m + 1)
          /\ new[m + 1] = card
          /\ \A j \in 1..m : new[j] = cards[j]
        BY <2>1, <2>2, <1>2
    <2> HIDE DEF m
    <2>4. ASSUME NEW j \in DOMAIN new, NEW x \in Names(new[j])
          PROVE  ClusterOf[x] = ClusterOf[new[j].context]
        <3>1. CASE j = m + 1
            BY <3>1, <2>2, <2>3, <2>4
        <3>2. CASE j \in 1..m
            BY <3>2, <1>2, <2>3, <2>4
        <3> QED BY <2>3, <3>1, <3>2
    <2>5. ASSUME NEW j \in 1..m
          PROVE  ClusterOf[cards[j].context] # ClusterOf[card.context]
        BY <1>3, <2>2, <2>3, <2>5
    <2>6. ASSUME NEW i \in DOMAIN new, NEW j \in DOMAIN new,
                 ClusterOf[new[i].context] = ClusterOf[new[j].context]
          PROVE  i = j
        <3>1. CASE i \in 1..m /\ j \in 1..m
            BY <3>1, <1>2, <2>3, <2>6
        <3>2. CASE i = m + 1 /\ j \in 1..m
            BY <3>2, <2>3, <2>5, <2>6
        <3>3. CASE i \in 1..m /\ j = m + 1
            BY <3>3, <2>3, <2>5, <2>6
        <3> QED BY <2>3, <3>1, <3>2, <3>3
    <2>7. ASSUME NEW k \in 1..(n + 1)
          PROVE  \E j \in DOMAIN new : summaries[k].context \in Names(new[j])
        <3>1. CASE k = n + 1
            <4>1. m + 1 \in DOMAIN new /\ summaries[k].context \in Names(new[m + 1])
                BY <3>1, <2>2, <2>3 DEF c
            <4> QED BY <4>1
        <3>2. CASE k \in 1..n
            <4>1. PICK j \in 1..m : summaries[k].context \in Names(cards[j])
                BY <3>2, <1>2, <2>3
            <4>2. j \in DOMAIN new /\ new[j] = cards[j]
                BY <2>3
            <4> QED BY <4>1, <4>2
        <3> QED BY <3>1, <3>2
    <2> QED BY <2>3, <2>4, <2>6, <2>7 DEF CardsOK, new, c
<1>4. CASE same # {}
    <2>1. PICK s \in DOMAIN cards : ClusterOf[cards[s].context] = ClusterOf[c.context]
        BY <1>4
    <2>2. \A i \in DOMAIN cards : i \in same <=> i = s
        BY <1>2, <2>1
    <2>3. new = [i \in DOMAIN cards |-> IF i \in same THEN JoinCard(cards[i], c) ELSE cards[i]]
        BY <1>4 DEF AddToCards
    <2> HIDE DEF new, same
    <2>4. /\ DOMAIN new = DOMAIN cards
          /\ new[s] = JoinCard(cards[s], c)
          /\ \A j \in DOMAIN cards \ {s} : new[j] = cards[j]
        BY <2>2, <2>3
    <2>5. cards[s] \in Card
        BY <1>2
    <2>6. /\ new[s] \in Card
          /\ new[s].context \in {cards[s].context, c.context}
          /\ \A x : x \in Names(new[s]) <=> x \in Names(cards[s]) \/ x = c.context
        BY <1>1, <2>4, <2>5, JoinedCard
    <2>7. ClusterOf[new[s].context] = ClusterOf[cards[s].context]
        BY <2>1, <2>6
    <2>8. new \in Seq(Card)
        <3>1. \A j \in DOMAIN cards : new[j] \in Card
            BY <1>2, <2>4, <2>6
        <3>2. DOMAIN cards = 1..Len(cards) /\ Len(cards) \in Nat
            BY <1>2
        <3>3. new = [j \in 1..Len(cards) |-> new[j]]
            BY <2>3, <3>2
        <3> QED BY <3>1, <3>2, <3>3
    <2>9. \A j \in DOMAIN cards : ClusterOf[new[j].context] = ClusterOf[cards[j].context]
        BY <2>4, <2>7
    <2>10. ASSUME NEW j \in DOMAIN new, NEW x \in Names(new[j])
           PROVE  ClusterOf[x] = ClusterOf[new[j].context]
        <3>1. CASE j = s
            BY <3>1, <1>2, <2>1, <2>6, <2>7, <2>10
        <3>2. CASE j # s
            BY <3>2, <1>2, <2>4, <2>10
        <3> QED BY <3>1, <3>2
    <2>11. \A i, j \in DOMAIN new :
               ClusterOf[new[i].context] = ClusterOf[new[j].context] => i = j
        BY <1>2, <2>4, <2>9
    <2>12. ASSUME NEW k \in 1..(n + 1)
           PROVE  \E j \in DOMAIN new : summaries[k].context \in Names(new[j])
        <3>1. CASE k = n + 1
            BY <3>1, <2>4, <2>6 DEF c
        <3>2. CASE k \in 1..n
            <4>1. PICK j \in DOMAIN cards : summaries[k].context \in Names(cards[j])
                BY <3>2, <1>2
            <4>2. summaries[k].context \in Names(new[j])
                BY <4>1, <2>4, <2>6
            <4> QED BY <4>1, <4>2, <2>4
        <3> QED BY <3>1, <3>2
    <2> QED BY <2>8, <2>10, <2>11, <2>12 DEF CardsOK, new, c
<1> QED BY <1>3, <1>4

-----------------------------------------------------------------------------
(* The cards of all summaries, one summary after the other                 *)

CardsUpTo(f, summaries, n) ==
    f = [k \in 0..n |-> IF k = 0 THEN <<>> ELSE AddToCards(f[k - 1], summaries[k])]

\* The recursive definition of the cards has a solution.
LEMMA CardsExist ==
    ASSUME NEW summaries, NEW N \in Nat
    PROVE  \E f : CardsUpTo(f, summaries, N)
<1> DEFINE Without == {n \in Nat : ~\E f : CardsUpTo(f, summaries, n)}
<1> SUFFICES ASSUME Without # {} PROVE FALSE
    OBVIOUS
<1>1. PICK n \in Without : \A k \in Without : n <= k
    <2> HIDE DEF Without
    <2>1. Without \subseteq Nat
        BY DEF Without
    <2> QED BY <2>1, LeastNumber
<1>2. CASE n = 0
    <2> DEFINE f == [k \in 0..0 |-> <<>>]
    <2>1. f = [k \in 0..0 |-> IF k = 0 THEN <<>> ELSE AddToCards(f[k - 1], summaries[k])]
        OBVIOUS
    <2>2. CardsUpTo(f, summaries, n)
        BY <1>2, <2>1 DEF CardsUpTo
    <2> QED BY <2>2
<1>3. CASE n # 0
    <2>1. n - 1 \in Nat /\ n - 1 \notin Without
        BY <1>1, <1>3
    <2>2. PICK g : CardsUpTo(g, summaries, n - 1)
        BY <2>1
    <2>3. \A k \in 0..(n - 1) : g[k] = IF k = 0 THEN <<>> ELSE AddToCards(g[k - 1], summaries[k])
        BY <2>2 DEF CardsUpTo
    <2> DEFINE f == [k \in 0..n |-> IF k = n THEN AddToCards(g[n - 1], summaries[n]) ELSE g[k]]
    <2>4. ASSUME NEW k \in 0..n
          PROVE  f[k] = IF k = 0 THEN <<>> ELSE AddToCards(f[k - 1], summaries[k])
        <3>1. CASE k = n
            <4>1. f[k] = AddToCards(g[n - 1], summaries[n])
                BY <3>1
            <4>2. f[k - 1] = g[n - 1]
                BY <3>1, <2>1
            <4> QED BY <4>1, <4>2, <3>1, <1>3
        <3>2. CASE k # n
            <4>1. k \in 0..(n - 1) /\ f[k] = g[k]
                BY <3>2, <2>1
            <4>2. k # 0 => f[k - 1] = g[k - 1]
                BY <3>2, <2>1
            <4> HIDE DEF f
            <4> QED BY <4>1, <4>2, <2>3
        <3> QED BY <3>1, <3>2
    <2>5. f = [k \in 0..n |-> f[k]]
        OBVIOUS
    <2> HIDE DEF f
    <2>6. CardsUpTo(f, summaries, n)
        BY <2>4, <2>5 DEF CardsUpTo
    <2> QED BY <2>6
<1> QED BY <1>2, <1>3

\* So the cards of all summaries are one per cluster.
LEMMA CardsAreDeduplicated ==
    ASSUME NEW summaries \in Seq(ClusterSummary)
    PROVE  CardsOK(deduplicateClusters(summaries), summaries, Len(summaries))
<1> DEFINE N == Len(summaries)
           cards == CHOOSE f : f = [n \in 0..N |-> IF n = 0 THEN <<>> ELSE AddToCards(f[n - 1], summaries[n])]
<1>1. N \in Nat /\ DOMAIN summaries = 1..N
    OBVIOUS
<1>2. deduplicateClusters(summaries) = cards[N]
    BY DEF deduplicateClusters
<1>3. cards = [n \in 0..N |-> IF n = 0 THEN <<>> ELSE AddToCards(cards[n - 1], summaries[n])]
    <2>1. \E f : f = [n \in 0..N |-> IF n = 0 THEN <<>> ELSE AddToCards(f[n - 1], summaries[n])]
        BY <1>1, CardsExist DEF CardsUpTo
    <2> QED BY <2>1, Zenon
<1> HIDE DEF cards, N
<1>4. cards[0] = <<>> /\ \A n \in 1..N : cards[n] = AddToCards(cards[n - 1], summaries[n])
    <2>1. \A n \in 0..N : cards[n] = IF n = 0 THEN <<>> ELSE AddToCards(cards[n - 1], summaries[n])
        BY <1>3
    <2> QED BY <2>1, <1>1
<1>5. CardsOK(<<>>, summaries, 0)
    BY DEF CardsOK
<1> DEFINE Bad == {n \in 0..N : ~CardsOK(cards[n], summaries, n)}
<1> SUFFICES ASSUME Bad # {} PROVE FALSE
    BY <1>1, <1>2 DEF N
<1>6. PICK n \in Bad : \A k \in Bad : n <= k
    <2>1. Bad \subseteq Nat
        BY <1>1
    <2> HIDE DEF Bad
    <2> QED BY <2>1, LeastNumber
<1>7. n # 0 /\ n \in 1..N
    BY <1>1, <1>4, <1>5, <1>6
<1>8. n - 1 \in Nat /\ n - 1 \in 0..N /\ (n - 1) + 1 = n /\ n - 1 \notin Bad
    BY <1>1, <1>6, <1>7
<1>9. CardsOK(cards[n - 1], summaries, n - 1)
    BY <1>8
<1>10. CardsOK(AddToCards(cards[n - 1], summaries[n]), summaries, n)
    BY <1>1, <1>7, <1>8, <1>9, CardIsAdded
<1> QED BY <1>4, <1>6, <1>7, <1>10

-----------------------------------------------------------------------------
(* The page *)

FleetTypeOK == fleet \in Seq(ClusterSummary)

\* The summaries that arrive are a sequence of finitely many clusters.
LEMMA AnswerIsSequence == FleetTypeOK /\ FleetAnswered => FleetTypeOK'
<1> SUFFICES ASSUME FleetTypeOK, FleetAnswered PROVE FleetTypeOK'
    OBVIOUS
<1>1. PICK order \in SetToSeqs(FleetContexts), health \in [FleetContexts -> ClusterHealth],
           kinds \in [FleetContexts -> SUBSET FleetKinds] :
          fleet' = [i \in DOMAIN order |-> [context |-> order[i], health |-> health[order[i]],
                                            kinds |-> kinds[order[i]]]]
    BY DEF FleetAnswered
<1>2. Cardinality(FleetContexts) \in Nat
    BY FleetAssumption, FS_CardinalityType DEF FleetAssumption
<1>3. order \in [1..Cardinality(FleetContexts) -> FleetContexts]
    BY DEF SetToSeqs
<1>4. ASSUME NEW i \in DOMAIN order
      PROVE  [context |-> order[i], health |-> health[order[i]], kinds |-> kinds[order[i]]] \in ClusterSummary
    <2>1. order[i] \in FleetContexts
        BY <1>3
    <2> QED BY <2>1 DEF ClusterSummary
<1> QED BY <1>1, <1>2, <1>3, <1>4 DEF FleetTypeOK

\* Every step keeps the types of the page.
LEMMA FleetStepOK == FleetTypeOK /\ [FleetNext]_fleetVars => FleetTypeOK'
<1> SUFFICES ASSUME FleetTypeOK, [FleetNext]_fleetVars PROVE FleetTypeOK'
    OBVIOUS
<1>1. CASE FleetAnswered
    BY <1>1, AnswerIsSequence
<1>2. CASE LeaveFleet
    <2>1. <<>> \in Seq(ClusterSummary)
        OBVIOUS
    <2> QED BY <1>2, <2>1 DEF LeaveFleet, FleetTypeOK
<1>3. ASSUME fetchFleet \/ FleetFailed \/ handleFleetSwitch \/ (\E stage \in metricsReqs : MetricsSettled(stage))
             \/ UNCHANGED fleetVars
      PROVE  fleet' = fleet
    BY <1>3 DEF fetchFleet, FleetFailed, handleFleetSwitch, MetricsSettled, fleetVars
<1> QED BY <1>1, <1>2, <1>3 DEF FleetNext, FleetTypeOK

\* The types are all that the property needs.
LEMMA CardsOfFleet == FleetTypeOK => EveryContextOnOneCard
<1> SUFFICES ASSUME FleetTypeOK, NEW i \in DOMAIN fleet
             PROVE  LET names(card) == {card.context} \cup card.aliases
                        on == {j \in DOMAIN FleetCards : fleet[i].context \in names(FleetCards[j])}
                    IN  /\ Cardinality(on) = 1
                        /\ \A j \in on : \A c \in names(FleetCards[j]) : ClusterOf[c] = ClusterOf[fleet[i].context]
    BY DEF EveryContextOnOneCard
<1> DEFINE cards == FleetCards
           on == {j \in DOMAIN cards : fleet[i].context \in Names(cards[j])}
<1>1. CardsOK(cards, fleet, Len(fleet))
    BY CardsAreDeduplicated DEF FleetTypeOK, FleetCards
<1>2. i \in 1..Len(fleet)
    BY DEF FleetTypeOK
<1> HIDE DEF cards
<1>3. PICK j \in on : TRUE
    BY <1>1, <1>2 DEF CardsOK
<1>4. ASSUME NEW k \in on
      PROVE  \A c \in Names(cards[k]) : ClusterOf[c] = ClusterOf[fleet[i].context]
    BY <1>1 DEF CardsOK
<1>5. on = {j}
    <2>1. ASSUME NEW k \in on PROVE ClusterOf[cards[k].context] = ClusterOf[fleet[i].context]
        BY <1>1 DEF CardsOK
    <2>2. \A k \in on : k = j
        BY <1>1, <1>3, <2>1 DEF CardsOK
    <2> QED BY <1>3, <2>2
<1>6. Cardinality(on) = 1
    <2> HIDE DEF on
    <2> QED BY <1>5, FS_Singleton
<1> QED BY <1>4, <1>6 DEF cards, Names

\* In whichever order the server answers and however long the names are, every context
\* of the fleet is on exactly one card, that of its cluster.
THEOREM EveryContextHasItsCard == FleetSpec => []EveryContextOnOneCard
<1>1. FleetInit => FleetTypeOK
    <2>1. <<>> \in Seq(ClusterSummary)
        OBVIOUS
    <2> QED BY <2>1 DEF FleetInit, FleetTypeOK
<1> QED BY <1>1, FleetStepOK, CardsOfFleet, PTL DEF FleetSpec

-----------------------------------------------------------------------------
(* LineDiff: the comparison line by line.                                  *)

IsTable(a, b, dp) ==
    \A i \in 0..Len(a), j \in 0..Len(b) :
        /\ dp[i][j] \in Nat
        /\ dp[i][j] = IF i = 0 \/ j = 0 THEN 0
                      ELSE IF a[i] = b[j] THEN dp[i - 1][j - 1] + 1
                      ELSE IF dp[i - 1][j] >= dp[i][j - 1] THEN dp[i - 1][j] ELSE dp[i][j - 1]

\* The recursive definition of the table has a solution, of natural numbers.
LEMMA TableExists ==
    ASSUME NEW a \in Seq(Lines), NEW b \in Seq(Lines)
    PROVE  IsTable(a, b, lcsTable(a, b))
<1> DEFINE n == Len(a)
           m == Len(b)
           S == [0..m -> Nat]
           IsRow(i, p, r) ==
              /\ r[0] = 0
              /\ \A j \in 1..m : r[j] = IF a[i] = b[j] THEN p[j - 1] + 1 ELSE Max({p[j], r[j - 1]})
           row == [j \in 0..m |-> 0]
<1>1. n \in Nat /\ m \in Nat
    OBVIOUS
<1> HIDE DEF n, m
<1>2. ASSUME NEW i \in 1..n, NEW p \in S
      PROVE  \E r \in S : IsRow(i, p, r)
    <2> DEFINE step == [j \in 1..m |-> [v \in Nat |-> IF a[i] = b[j] THEN p[j - 1] + 1 ELSE Max({p[j], v})]]
    <2>1. step \in [1..m -> [Nat -> Nat]]
        <3>1. ASSUME NEW j \in 1..m, NEW v \in Nat
              PROVE  (IF a[i] = b[j] THEN p[j - 1] + 1 ELSE Max({p[j], v})) \in Nat
            <4>1. p[j] \in Nat /\ p[j - 1] \in Nat /\ p[j] \in Int /\ v \in Int
                BY <1>1
            <4>2. Max({p[j], v}) \in Nat
                BY <4>1, LargerOfTwo
            <4> QED BY <4>1, <4>2
        <3> QED BY <3>1
    <2>2. PICK r \in S : r[0] = 0 /\ \A j \in 1..m : r[j] = step[j][r[j - 1]]
        <3>1. 0 \in Nat /\ Steps(step, m, Nat)
            BY <2>1 DEF Steps
        <3> HIDE DEF step
        <3>2. \E r : Iterates(r, step, m, 0, Nat)
            BY <1>1, <3>1, IterationExists
        <3> QED BY <3>2 DEF Iterates
    <2>3. ASSUME NEW j \in 1..m
          PROVE  r[j] = IF a[i] = b[j] THEN p[j - 1] + 1 ELSE Max({p[j], r[j - 1]})
        <3>1. r[j - 1] \in Nat
            BY <1>1
        <3> QED BY <2>2, <3>1
    <2> QED BY <2>2, <2>3
<1>3. PICK f \in [0..n -> S] : f[0] = row /\ \A i \in 1..n : IsRow(i, f[i - 1], f[i])
    <2> DEFINE step == [i \in 1..n |-> [p \in S |-> CHOOSE r \in S : IsRow(i, p, r)]]
    <2>1. \A i \in 1..n : \A p \in S : step[i][p] \in S /\ IsRow(i, p, step[i][p])
        <3> HIDE DEF IsRow, S
        <3> QED BY <1>2
    <2>2. step \in [1..n -> [S -> S]]
        <3> HIDE DEF IsRow, S
        <3> QED BY <1>2
    <2>3. row \in S
        OBVIOUS
    <2> HIDE DEF IsRow, S, step, row
    <2>4. PICK f \in [0..n -> S] : f[0] = row /\ \A i \in 1..n : f[i] = step[i][f[i - 1]]
        <3>1. Steps(step, n, S)
            BY <2>2 DEF Steps
        <3>2. \E f : Iterates(f, step, n, row, S)
            BY <1>1, <2>3, <3>1, IterationExists
        <3> QED BY <3>2 DEF Iterates
    <2>5. \A i \in 1..n : f[i - 1] \in S
        BY <1>1
    <2> QED BY <2>1, <2>4, <2>5
<1> DEFINE table(dp) ==
              [i \in 0..n |-> [j \in 0..m |->
                  IF i = 0 \/ j = 0 THEN 0
                  ELSE IF a[i] = b[j] THEN dp[i - 1][j - 1] + 1
                  ELSE Max({dp[i - 1][j], dp[i][j - 1]})]]
<1>4. f = table(f)
    <2>1. ASSUME NEW i \in 0..n
          PROVE  f[i] = table(f)[i]
        <3>1. CASE i = 0
            <4>1. f[i] = row /\ table(f)[i] = row
                BY <1>3, <3>1
            <4> QED BY <4>1
        <3>2. CASE i # 0
            <4>1. i \in 1..n /\ f[i] \in S
                BY <3>2
            <4>2. IsRow(i, f[i - 1], f[i])
                BY <1>3, <4>1
            <4>3. f[i] = [j \in 0..m |-> f[i][j]]
                BY <4>1
            <4>4. ASSUME NEW j \in 0..m
                  PROVE  f[i][j] = table(f)[i][j]
                <5>1. CASE j = 0
                    BY <4>1, <4>2, <5>1
                <5>2. CASE j # 0
                    <6>1. j \in 1..m
                        BY <5>2
                    <6>2. f[i][j] = IF a[i] = b[j] THEN f[i - 1][j - 1] + 1
                                    ELSE Max({f[i - 1][j], f[i][j - 1]})
                        BY <4>2, <6>1
                    <6> QED BY <3>2, <5>2, <6>2
                <5> QED BY <5>1, <5>2
            <4> QED BY <4>3, <4>4
        <3> QED BY <3>1, <3>2
    <2> QED BY <2>1
<1>5. lcsTable(a, b) = table(lcsTable(a, b))
    <2>1. lcsTable(a, b) = CHOOSE dp : dp = table(dp)
        BY DEF lcsTable, n, m
    <2> HIDE DEF table
    <2> QED BY <1>4, <2>1, Zenon
<1> DEFINE dp == lcsTable(a, b)
<1>6. ASSUME NEW g, g = table(g) PROVE IsTable(a, b, g)
    <2>1. ASSUME NEW i \in 0..n, NEW j \in 0..m
          PROVE  g[i][j] = IF i = 0 \/ j = 0 THEN 0
                           ELSE IF a[i] = b[j] THEN g[i - 1][j - 1] + 1
                           ELSE Max({g[i - 1][j], g[i][j - 1]})
        BY <1>6
    <2>2. ASSUME NEW i \in 0..n, NEW j \in 0..m, i # 0, j # 0,
                 g[i - 1][j - 1] \in Nat, g[i - 1][j] \in Nat, g[i][j - 1] \in Nat
          PROVE  /\ g[i][j] \in Nat
                 /\ g[i][j] = IF a[i] = b[j] THEN g[i - 1][j - 1] + 1
                              ELSE IF g[i - 1][j] >= g[i][j - 1] THEN g[i - 1][j] ELSE g[i][j - 1]
        <3> DEFINE up == g[i - 1][j]
                   back == g[i][j - 1]
        <3>1. up \in Int /\ back \in Int /\ up \in Nat /\ back \in Nat
            BY <2>2
        <3>2. g[i][j] = IF a[i] = b[j] THEN g[i - 1][j - 1] + 1 ELSE Max({up, back})
            BY <2>1, <2>2
        <3> HIDE DEF up, back
        <3>3. Max({up, back}) = IF up >= back THEN up ELSE back
            BY <3>1, LargerOfTwo
        <3>4. g[i][j] = IF a[i] = b[j] THEN g[i - 1][j - 1] + 1 ELSE IF up >= back THEN up ELSE back
            BY <3>2, <3>3
        <3>5. g[i][j] \in Nat
            BY <2>2, <3>1, <3>4
        <3> QED BY <3>4, <3>5 DEF up, back
    <2> DEFINE good == [i \in 0..n |-> {j \in 0..m : g[i][j] \in Nat}]
    <2>3. ASSUME NEW i \in 0..n, NEW j \in 0..m,
                 i > 0 => j \in good[i - 1],
                 j > 0 => j - 1 \in good[i],
                 i > 0 /\ j > 0 => j - 1 \in good[i - 1]
          PROVE  j \in good[i]
        <3>1. CASE i = 0 \/ j = 0
            <4>1. g[i][j] = 0
                BY <2>1, <3>1
            <4> QED BY <4>1
        <3>2. CASE i # 0 /\ j # 0
            <4>1. i - 1 \in 0..n /\ j - 1 \in 0..m /\ i > 0 /\ j > 0
                BY <1>1, <3>2
            <4>2. g[i - 1][j - 1] \in Nat /\ g[i - 1][j] \in Nat /\ g[i][j - 1] \in Nat
                BY <2>3, <4>1
            <4>3. g[i][j] \in Nat
                BY <2>2, <3>2, <4>2
            <4> QED BY <4>3
        <3> QED BY <3>1, <3>2
    <2>4. \A i \in 0..n, j \in 0..m : g[i][j] \in Nat
        <3> HIDE DEF good
        <3>1. \A i \in 0..n, j \in 0..m : j \in good[i]
            BY <1>1, <2>3, GridInduction
        <3> QED BY <3>1 DEF good
    <2>5. ASSUME NEW i \in 0..n, NEW j \in 0..m
          PROVE  /\ g[i][j] \in Nat
                 /\ g[i][j] = IF i = 0 \/ j = 0 THEN 0
                              ELSE IF a[i] = b[j] THEN g[i - 1][j - 1] + 1
                              ELSE IF g[i - 1][j] >= g[i][j - 1] THEN g[i - 1][j] ELSE g[i][j - 1]
        <3>1. CASE i = 0 \/ j = 0
            <4>1. g[i][j] = 0
                BY <2>1, <3>1
            <4> QED BY <3>1, <4>1
        <3>2. CASE i # 0 /\ j # 0
            <4>1. i - 1 \in 0..n /\ j - 1 \in 0..m
                BY <1>1, <3>2
            <4>2. g[i - 1][j - 1] \in Nat /\ g[i - 1][j] \in Nat /\ g[i][j - 1] \in Nat
                BY <2>4, <4>1
            <4> QED BY <2>2, <3>2, <4>2
        <3> QED BY <3>1, <3>2
    <2> QED BY <2>5 DEF IsTable, n, m
<1> QED BY <1>5, <1>6

\* The largest of some numbers.
LEMMA Largest ==
    ASSUME NEW n \in Nat, NEW s, s \subseteq 1..n, s # {}
    PROVE  \E p \in s : \A x \in s : x <= p
<1> DEFINE bounds == {k \in Nat : \A x \in s : x <= k}
<1>1. n \in bounds
    OBVIOUS
<1>2. PICK p \in bounds : \A k \in bounds : p <= k
    <2>1. bounds \subseteq Nat
        OBVIOUS
    <2> HIDE DEF bounds
    <2> QED BY <1>1, <2>1, LeastNumber
<1>3. p \in s
    <2> SUFFICES ASSUME p \notin s PROVE FALSE
        OBVIOUS
    <2>1. p \in Nat /\ \A x \in s : x <= p /\ x # p /\ x \in 1..n
        OBVIOUS
    <2>2. \A x \in s : x <= p - 1
        BY <2>1
    <2>3. p - 1 \in Nat
        <3>1. PICK x \in s : TRUE
            OBVIOUS
        <3> QED BY <2>1
    <2>4. p - 1 \in bounds
        BY <2>2, <2>3
    <2> HIDE DEF bounds
    <2> QED BY <1>2, <2>1, <2>4
<1> QED BY <1>3

\* A line after all others is matched last and changes no rank.
LEMMA AddLargest ==
    ASSUME NEW i \in Nat, NEW s, s \subseteq 1..(i - 1)
    PROVE  /\ IsFiniteSet(s) /\ Cardinality(s) \in Nat
           /\ Cardinality(s \cup {i}) = Cardinality(s) + 1
           /\ Rank(s \cup {i}, i) = Cardinality(s)
           /\ \A x \in s : /\ Rank(s \cup {i}, x) = Rank(s, x)
                          /\ Rank(s, x) \in Nat /\ Rank(s, x) < Cardinality(s)
<1>1. IsFiniteSet(s)
    <2>1. IsFiniteSet(1..(i - 1))
        BY FS_Interval
    <2> QED BY <2>1, FS_Subset
<1>2. Cardinality(s) \in Nat
    BY <1>1, FS_CardinalityType
<1>3. i \notin s
    OBVIOUS
<1>4. Cardinality(s \cup {i}) = Cardinality(s) + 1
    BY <1>1, <1>3, FS_AddElement
<1>5. {x \in s \cup {i} : x < i} = s
    <2>1. \A x \in s : x < i
        OBVIOUS
    <2>2. ~(i < i)
        OBVIOUS
    <2> QED BY <2>1, <2>2, Zenon
<1>6. ASSUME NEW x \in s
      PROVE  /\ Rank(s \cup {i}, x) = Rank(s, x)
             /\ Rank(s, x) \in Nat /\ Rank(s, x) < Cardinality(s)
    <2>1. {y \in s \cup {i} : y < x} = {y \in s : y < x}
        OBVIOUS
    <2> DEFINE A == {y \in s : y < x}
    <2>2. A \subseteq s /\ x \notin A
        OBVIOUS
    <2> HIDE DEF A
    <2>3. Cardinality(A) \in Nat /\ Cardinality(A) < Cardinality(s)
        BY <1>1, <2>2, StrictSubset
    <2> QED BY <2>1, <2>3 DEF Rank, A
<1> QED BY <1>1, <1>2, <1>4, <1>5, <1>6 DEF Rank

Below(s, i) == s \subseteq 1..(i - 1)
MatchedUpTo(a, b, i, j, s, t) == Matched(a, b, s \cup {i}, t \cup {j})
EndsInPair(a, b, x, y, s, t) ==
    \E p \in 1..x, q \in 1..y : \E s1 \in SUBSET (1..(p - 1)), t1 \in SUBSET (1..(q - 1)) :
        /\ s = s1 \cup {p} /\ t = t1 \cup {q}
        /\ Matched(a, b, s1, t1) /\ a[p] = b[q]
        /\ Cardinality(s1) \in Nat /\ Cardinality(s) = Cardinality(s1) + 1
MatchedBefore(a, b, i, j, s, t) == Matched(a, b, s, t) /\ a[i] = b[j]

\* A line of each document, after all those matched so far, can be matched exactly
\* when they are the same.
LEMMA MatchOneMore ==
    ASSUME NEW a, NEW b, NEW i \in Nat, NEW j \in Nat,
           NEW s, Below(s, i), NEW t, Below(t, j)
    PROVE  Matched(a, b, s \cup {i}, t \cup {j}) <=> Matched(a, b, s, t) /\ a[i] = b[j]
<1> DEFINE S == s \cup {i}
           T == t \cup {j}
<1>1. /\ Cardinality(s) \in Nat /\ Cardinality(S) = Cardinality(s) + 1
      /\ Rank(S, i) = Cardinality(s)
      /\ \A x \in s : Rank(S, x) = Rank(s, x) /\ Rank(s, x) \in Nat /\ Rank(s, x) < Cardinality(s)
    BY AddLargest DEF Below
<1>2. /\ Cardinality(t) \in Nat /\ Cardinality(T) = Cardinality(t) + 1
      /\ Rank(T, j) = Cardinality(t)
      /\ \A x \in t : Rank(T, x) = Rank(t, x) /\ Rank(t, x) \in Nat /\ Rank(t, x) < Cardinality(t)
    BY AddLargest DEF Below
<1>3. /\ \A x : x \in S <=> x \in s \/ x = i
      /\ \A x : x \in T <=> x \in t \/ x = j
    OBVIOUS
<1> HIDE DEF S, T
<1>4. Cardinality(S) = Cardinality(T) <=> Cardinality(s) = Cardinality(t)
    BY <1>1, <1>2
<1>5. ASSUME Cardinality(s) = Cardinality(t)
      PROVE  (\A p \in S, q \in T : Rank(S, p) = Rank(T, q) => a[p] = b[q])
             <=> /\ \A p \in s, q \in t : Rank(s, p) = Rank(t, q) => a[p] = b[q]
                 /\ a[i] = b[j]
    <2>1. ASSUME \A p \in S, q \in T : Rank(S, p) = Rank(T, q) => a[p] = b[q]
          PROVE  /\ \A p \in s, q \in t : Rank(s, p) = Rank(t, q) => a[p] = b[q]
                 /\ a[i] = b[j]
        BY <1>1, <1>2, <1>3, <1>5, <2>1
    <2>2. ASSUME \A p \in s, q \in t : Rank(s, p) = Rank(t, q) => a[p] = b[q], a[i] = b[j],
                 NEW p \in S, NEW q \in T, Rank(S, p) = Rank(T, q)
          PROVE  a[p] = b[q]
        <3>1. CASE p = i /\ q = j
            BY <2>2, <3>1
        <3>2. CASE p \in s /\ q \in t
            BY <1>1, <1>2, <2>2, <3>2
        <3>3. CASE p = i /\ q \in t
            BY <1>1, <1>2, <1>5, <2>2, <3>3
        <3>4. CASE p \in s /\ q = j
            BY <1>1, <1>2, <1>5, <2>2, <3>4
        <3> QED BY <1>3, <3>1, <3>2, <3>3, <3>4
    <2> QED BY <2>1, <2>2
<1> QED BY <1>4, <1>5 DEF Matched, S, T

\* The same in one direction.
LEMMA MatchOneFewer ==
    ASSUME NEW a, NEW b, NEW i, i \in Nat, NEW j, j \in Nat,
           NEW s, Below(s, i), NEW t, Below(t, j), MatchedUpTo(a, b, i, j, s, t)
    PROVE  MatchedBefore(a, b, i, j, s, t)
<1>1. Matched(a, b, s \cup {i}, t \cup {j})
    BY DEF MatchedUpTo
<1>2. Matched(a, b, s \cup {i}, t \cup {j}) <=> Matched(a, b, s, t) /\ a[i] = b[j]
    BY MatchOneMore
<1> QED BY <1>1, <1>2 DEF MatchedBefore

\* The last of the lines matched, and those before it.
LEMMA LastMatched ==
    ASSUME NEW a, NEW b, NEW x \in Nat, NEW y \in Nat,
           NEW s \in SUBSET (1..x), NEW t \in SUBSET (1..y), s # {}, Matched(a, b, s, t)
    PROVE  EndsInPair(a, b, x, y, s, t)
<1>1. t # {}
    <2>1. IsFiniteSet(1..x) /\ IsFiniteSet(1..y)
        BY FS_Interval
    <2>2. IsFiniteSet(s) /\ IsFiniteSet(t)
        BY <2>1, FS_Subset
    <2> QED BY <2>2, FS_EmptySet DEF Matched
<1>2. PICK p \in s : \A z \in s : z <= p
    BY Largest
<1>3. PICK q \in t : \A z \in t : z <= q
    BY <1>1, Largest
<1> DEFINE s1 == s \ {p}
           t1 == t \ {q}
<1>4. p \in 1..x /\ q \in 1..y /\ p \in Nat /\ q \in Nat
    OBVIOUS
<1>5. s1 \subseteq 1..(p - 1) /\ s = s1 \cup {p}
    <2>1. \A z \in s1 : z \in 1..x /\ z <= p /\ z # p
        BY <1>2
    <2>2. \A z \in s1 : z \in 1..(p - 1)
        BY <1>4, <2>1
    <2> QED BY <1>4, <2>2
<1>6. t1 \subseteq 1..(q - 1) /\ t = t1 \cup {q}
    <2>1. \A z \in t1 : z \in 1..y /\ z <= q /\ z # q
        BY <1>3
    <2>2. \A z \in t1 : z \in 1..(q - 1)
        BY <1>4, <2>1
    <2> QED BY <1>4, <2>2
<1> HIDE DEF s1, t1
<1>7. Matched(a, b, s1, t1) /\ a[p] = b[q]
    <2>1. Matched(a, b, s1 \cup {p}, t1 \cup {q})
        BY <1>5, <1>6, Zenon
    <2>2. Below(s1, p) /\ Below(t1, q)
        BY <1>5, <1>6 DEF Below
    <2>3. MatchedBefore(a, b, p, q, s1, t1)
        <3>1. MatchedUpTo(a, b, p, q, s1, t1)
            BY <2>1 DEF MatchedUpTo
        <3> QED BY <1>4, <2>2, <3>1, MatchOneFewer
    <2> QED BY <2>3 DEF MatchedBefore
<1>8. Cardinality(s1) \in Nat /\ Cardinality(s) = Cardinality(s1) + 1
    BY <1>4, <1>5, AddLargest
<1> QED BY <1>4, <1>5, <1>6, <1>7, <1>8 DEF EndsInPair

\* No common subsequence is longer than the table says.
LEMMA NoneIsLonger ==
    ASSUME NEW a \in Seq(Lines), NEW b \in Seq(Lines), NEW dp, IsTable(a, b, dp),
           NEW i \in 0..Len(a), NEW j \in 0..Len(b),
           NEW s \in SUBSET (1..i), NEW t \in SUBSET (1..j), Matched(a, b, s, t)
    PROVE  Cardinality(s) <= dp[i][j]
<1> DEFINE n == Len(a)
           m == Len(b)
           Bounded(x, y) == \A u \in SUBSET (1..x), v \in SUBSET (1..y) :
                               Matched(a, b, u, v) => Cardinality(u) <= dp[x][y]
           good == [x \in 0..n |-> {y \in 0..m : Bounded(x, y)}]
<1>1. n \in Nat /\ m \in Nat
    OBVIOUS
<1>2. \A x \in 0..n, y \in 0..m :
          /\ dp[x][y] \in Nat
          /\ dp[x][y] = IF x = 0 \/ y = 0 THEN 0
                        ELSE IF a[x] = b[y] THEN dp[x - 1][y - 1] + 1
                        ELSE IF dp[x - 1][y] >= dp[x][y - 1] THEN dp[x - 1][y] ELSE dp[x][y - 1]
    BY DEF IsTable
<1>3. \A x \in 0..n, y \in 0..m : y \in good[x] <=> Bounded(x, y)
    OBVIOUS
<1> HIDE DEF n, m, good
<1>4. ASSUME NEW x \in 0..n, NEW y \in 0..m,
             x > 0 => y \in good[x - 1],
             y > 0 => y - 1 \in good[x],
             x > 0 /\ y > 0 => y - 1 \in good[x - 1]
      PROVE  y \in good[x]
    <2>1. ASSUME NEW u \in SUBSET (1..x), NEW v \in SUBSET (1..y), Matched(a, b, u, v)
          PROVE  Cardinality(u) <= dp[x][y]
        <3>1. CASE u = {}
            <4>1. Cardinality(u) = 0
                BY <3>1, FS_EmptySet
            <4> QED BY <1>2, <4>1
        <3>2. CASE u # {}
            <4>3. x \in Nat /\ y \in Nat
                BY <1>1
            <4>2. PICK p \in 1..x, q \in 1..y :
                      \E u1 \in SUBSET (1..(p - 1)), v1 \in SUBSET (1..(q - 1)) :
                          /\ u = u1 \cup {p} /\ v = v1 \cup {q}
                          /\ Matched(a, b, u1, v1) /\ a[p] = b[q]
                          /\ Cardinality(u1) \in Nat /\ Cardinality(u) = Cardinality(u1) + 1
                <5>1. EndsInPair(a, b, x, y, u, v)
                    BY <2>1, <3>2, <4>3, LastMatched
                <5> QED BY <5>1 DEF EndsInPair
            <4>4. PICK u1 \in SUBSET (1..(p - 1)), v1 \in SUBSET (1..(q - 1)) :
                      /\ u = u1 \cup {p} /\ v = v1 \cup {q}
                      /\ Matched(a, b, u1, v1) /\ a[p] = b[q]
                      /\ Cardinality(u1) \in Nat /\ Cardinality(u) = Cardinality(u1) + 1
                BY <4>2
            <4>6. p \in 1..x /\ q \in 1..y
                OBVIOUS
            <4>11. x > 0 /\ y > 0 /\ x - 1 \in 0..n /\ y - 1 \in 0..m
                BY <1>1, <4>6
            <4>12. CASE a[x] = b[y]
                <5>1. Bounded(x - 1, y - 1)
                    BY <1>3, <1>4, <4>11
                <5>2. u1 \in SUBSET (1..(x - 1)) /\ v1 \in SUBSET (1..(y - 1))
                    <6>1. \A k : (k \in 1..(p - 1) => k \in 1..(x - 1)) /\ (k \in 1..(q - 1) => k \in 1..(y - 1))
                        BY <4>3, <4>6
                    <6> QED BY <6>1
                <5>3. Cardinality(u1) <= dp[x - 1][y - 1]
                    BY <4>4, <5>1, <5>2
                <5>4. dp[x][y] = dp[x - 1][y - 1] + 1 /\ dp[x - 1][y - 1] \in Nat
                    BY <1>2, <4>11, <4>12
                <5> QED BY <4>4, <5>3, <5>4
            <4>13. CASE a[x] # b[y]
                <5>1. /\ dp[x - 1][y] \in Nat /\ dp[x][y - 1] \in Nat
                      /\ dp[x - 1][y] <= dp[x][y] /\ dp[x][y - 1] <= dp[x][y] /\ dp[x][y] \in Nat
                    BY <1>2, <4>11, <4>13
                <5>2. CASE p # x
                    <6>1. u \in SUBSET (1..(x - 1))
                        <7>1. \A z \in u : z \in 1..(p - 1) \/ z = p
                            BY <4>4
                        <7>2. \A z \in u : z \in 1..(x - 1)
                            BY <4>3, <4>6, <5>2, <7>1
                        <7> QED BY <7>2
                    <6>2. Bounded(x - 1, y)
                        BY <1>3, <1>4, <4>11
                    <6>3. Cardinality(u) <= dp[x - 1][y]
                        BY <2>1, <6>1, <6>2
                    <6> QED BY <4>4, <5>1, <6>3
                <5>3. CASE q # y
                    <6>1. v \in SUBSET (1..(y - 1))
                        <7>1. \A z \in v : z \in 1..(q - 1) \/ z = q
                            BY <4>4
                        <7>2. \A z \in v : z \in 1..(y - 1)
                            BY <4>3, <4>6, <5>3, <7>1
                        <7> QED BY <7>2
                    <6>2. Bounded(x, y - 1)
                        BY <1>3, <1>4, <4>11
                    <6>3. Cardinality(u) <= dp[x][y - 1]
                        BY <2>1, <6>1, <6>2
                    <6> QED BY <4>4, <5>1, <6>3
                <5> QED BY <4>4, <4>13, <5>2, <5>3
            <4> QED BY <4>12, <4>13
        <3> QED BY <3>1, <3>2
    <2> QED BY <1>3, <2>1
<1>5. \A x \in 0..n, y \in 0..m : y \in good[x]
    BY <1>1, <1>4, GridInduction
<1> QED BY <1>3, <1>5 DEF n, m

\* One common subsequence is as long as the table says.
LEMMA OneIsAsLong ==
    ASSUME NEW a \in Seq(Lines), NEW b \in Seq(Lines), NEW dp, IsTable(a, b, dp),
           NEW i \in 0..Len(a), NEW j \in 0..Len(b)
    PROVE  \E s \in SUBSET (1..i), t \in SUBSET (1..j) :
              Matched(a, b, s, t) /\ Cardinality(s) = dp[i][j]
<1> DEFINE n == Len(a)
           m == Len(b)
           Reached(x, y) == \E u \in SUBSET (1..x), v \in SUBSET (1..y) :
                               Matched(a, b, u, v) /\ Cardinality(u) = dp[x][y]
           good == [x \in 0..n |-> {y \in 0..m : Reached(x, y)}]
<1>1. n \in Nat /\ m \in Nat
    OBVIOUS
<1>2. \A x \in 0..n, y \in 0..m :
          /\ dp[x][y] \in Nat
          /\ dp[x][y] = IF x = 0 \/ y = 0 THEN 0
                        ELSE IF a[x] = b[y] THEN dp[x - 1][y - 1] + 1
                        ELSE IF dp[x - 1][y] >= dp[x][y - 1] THEN dp[x - 1][y] ELSE dp[x][y - 1]
    BY DEF IsTable
<1>3. \A x \in 0..n, y \in 0..m : y \in good[x] <=> Reached(x, y)
    OBVIOUS
<1> HIDE DEF n, m, good
<1>4. ASSUME NEW x \in 0..n, NEW y \in 0..m,
             x > 0 => y \in good[x - 1],
             y > 0 => y - 1 \in good[x],
             x > 0 /\ y > 0 => y - 1 \in good[x - 1]
      PROVE  y \in good[x]
    <2>1. CASE x = 0 \/ y = 0
        <3>1. Matched(a, b, {}, {})
            BY DEF Matched
        <3>2. Cardinality({}) = 0 /\ dp[x][y] = 0
            BY <1>2, <2>1, FS_EmptySet
        <3>3. {} \in SUBSET (1..x) /\ {} \in SUBSET (1..y)
            OBVIOUS
        <3>4. Reached(x, y)
            BY <3>1, <3>2, <3>3
        <3> QED BY <1>3, <3>4
    <2>2. CASE x > 0 /\ y > 0
        <3>1. x \in Nat /\ y \in Nat /\ x - 1 \in 0..n /\ y - 1 \in 0..m
            BY <1>1, <2>2
        <3>2. CASE a[x] = b[y]
            <4>1. Reached(x - 1, y - 1)
                BY <1>3, <1>4, <2>2, <3>1
            <4>2. PICK u \in SUBSET (1..(x - 1)), v \in SUBSET (1..(y - 1)) :
                      Matched(a, b, u, v) /\ Cardinality(u) = dp[x - 1][y - 1]
                BY <4>1
            <4>3. Matched(a, b, u \cup {x}, v \cup {y})
                <5>1. Below(u, x) /\ Below(v, y)
                    BY DEF Below
                <5> QED BY <3>1, <3>2, <4>2, <5>1, MatchOneMore
            <4>4. Cardinality(u \cup {x}) = Cardinality(u) + 1
                BY <3>1, AddLargest
            <4>5. dp[x][y] = dp[x - 1][y - 1] + 1
                BY <1>2, <2>2, <3>2
            <4>6. u \cup {x} \in SUBSET (1..x) /\ v \cup {y} \in SUBSET (1..y)
                <5>1. /\ \A k : (k \in 1..(x - 1) => k \in 1..x) /\ (k \in 1..(y - 1) => k \in 1..y)
                      /\ x \in 1..x /\ y \in 1..y
                    BY <2>2, <3>1
                <5> QED BY <5>1
            <4>7. Reached(x, y)
                BY <4>2, <4>3, <4>4, <4>5, <4>6
            <4> QED BY <1>3, <4>7
        <3>3. CASE a[x] # b[y]
            <4>1. dp[x][y] = dp[x - 1][y] \/ dp[x][y] = dp[x][y - 1]
                BY <1>2, <2>2, <3>3
            <4>2. \A k : (k \in 1..(x - 1) => k \in 1..x) /\ (k \in 1..(y - 1) => k \in 1..y)
                BY <3>1
            <4>3. CASE dp[x][y] = dp[x - 1][y]
                <5>1. Reached(x - 1, y)
                    BY <1>3, <1>4, <2>2, <3>1
                <5>2. PICK u \in SUBSET (1..(x - 1)), v \in SUBSET (1..y) :
                          Matched(a, b, u, v) /\ Cardinality(u) = dp[x - 1][y]
                    BY <5>1
                <5>3. u \in SUBSET (1..x)
                    BY <4>2
                <5>4. Reached(x, y)
                    BY <4>3, <5>2, <5>3
                <5> QED BY <1>3, <5>4
            <4>4. CASE dp[x][y] = dp[x][y - 1]
                <5>1. Reached(x, y - 1)
                    BY <1>3, <1>4, <2>2, <3>1
                <5>2. PICK u \in SUBSET (1..x), v \in SUBSET (1..(y - 1)) :
                          Matched(a, b, u, v) /\ Cardinality(u) = dp[x][y - 1]
                    BY <5>1
                <5>3. v \in SUBSET (1..y)
                    BY <4>2
                <5>4. Reached(x, y)
                    BY <4>4, <5>2, <5>3
                <5> QED BY <1>3, <5>4
            <4> QED BY <4>1, <4>3, <4>4
        <3> QED BY <3>2, <3>3
    <2>3. x \in Nat /\ y \in Nat
        BY <1>1
    <2> QED BY <2>1, <2>2, <2>3
<1>5. \A x \in 0..n, y \in 0..m : y \in good[x]
    BY <1>1, <1>4, GridInduction
<1>6. Reached(i, j)
    BY <1>3, <1>5 DEF n, m
<1> QED BY <1>6

\* The last entry of the table is the length of the longest common subsequence.
LEMMA TableIsLongest ==
    ASSUME NEW a \in Seq(Lines), NEW b \in Seq(Lines), NEW dp, IsTable(a, b, dp)
    PROVE  dp[Len(a)][Len(b)] = Max({Cardinality(s) : s \in CommonSubsequences(a, b)})
<1> DEFINE n == Len(a)
           m == Len(b)
           lengths == {Cardinality(s) : s \in CommonSubsequences(a, b)}
<1>1. n \in Nat /\ m \in Nat /\ n \in 0..n /\ m \in 0..m
    OBVIOUS
<1>2. dp[n][m] \in Nat
    BY <1>1 DEF IsTable
<1>3. dp[n][m] \in lengths
    <2>1. PICK s \in SUBSET (1..n), t \in SUBSET (1..m) : Matched(a, b, s, t) /\ Cardinality(s) = dp[n][m]
        BY <1>1, OneIsAsLong
    <2>2. s \in CommonSubsequences(a, b)
        BY <2>1 DEF CommonSubsequences
    <2> QED BY <2>1, <2>2
<1>4. ASSUME NEW s \in CommonSubsequences(a, b) PROVE Cardinality(s) <= dp[n][m] /\ Cardinality(s) \in Nat
    <2>1. PICK t \in SUBSET (1..m) : s \in SUBSET (1..n) /\ Matched(a, b, s, t)
        BY DEF CommonSubsequences
    <2>2. Cardinality(s) <= dp[n][m]
        BY <1>1, <2>1, NoneIsLonger
    <2>3. Cardinality(s) \in Nat
        <3>1. IsFiniteSet(1..n)
            BY <1>1, FS_Interval
        <3> QED BY <2>1, <3>1, FS_Subset, FS_CardinalityType
    <2> QED BY <2>2, <2>3
<1>5. \A x \in lengths : x \in Nat /\ dp[n][m] >= x
    BY <1>2, <1>4
<1> HIDE DEF lengths
<1>6. Max(lengths) \in lengths /\ \A x \in lengths : Max(lengths) >= x
    BY <1>3, <1>5 DEF Max
<1>7. dp[n][m] = Max(lengths)
    BY <1>2, <1>3, <1>5, <1>6
<1> QED BY <1>7 DEF lengths

AnyRow == [status : {"same", "added", "removed"}, aIndex : Nat, bIndex : Nat]

\* The fields of a row.
LEMMA RowFields ==
    ASSUME NEW st \in {"same", "added", "removed"}, NEW x \in Nat, NEW y \in Nat
    PROVE  /\ Row(st, x, y) \in AnyRow
           /\ Row(st, x, y).status = st
           /\ Row(st, x, y).aIndex = x
           /\ Row(st, x, y).bIndex = y
BY DEF Row, AnyRow

IsScript(a, b, dp, rows) ==
    \A i \in 0..Len(a), j \in 0..Len(b) :
        rows[i][j] =
            IF i = 0 /\ j = 0 THEN <<>>
            ELSE IF i > 0 /\ j > 0 /\ a[i] = b[j]
                 THEN Append(rows[i - 1][j - 1], Row("same", i, j))
            ELSE IF j > 0 /\ (i = 0 \/ dp[i][j - 1] >= dp[i - 1][j])
                 THEN Append(rows[i][j - 1], Row("added", 0, j))
            ELSE Append(rows[i - 1][j], Row("removed", i, 0))

\* The recursive definition of the rows has a solution, and the comparison is its
\* last entry.
LEMMA ScriptExists ==
    ASSUME NEW a \in Seq(Lines), NEW b \in Seq(Lines)
    PROVE  \E rows : /\ IsScript(a, b, lcsTable(a, b), rows)
                     /\ computeLineDiff(a, b) = rows[Len(a)][Len(b)]
<1> DEFINE n == Len(a)
           m == Len(b)
           dp == lcsTable(a, b)
           Script == Seq(AnyRow)
           S == [0..m -> Script]
           First(i, p) == IF i = 0 THEN <<>> ELSE Append(p[0], Row("removed", i, 0))
           Then(i, j, p, v) ==
               IF i > 0 /\ a[i] = b[j] THEN Append(p[j - 1], Row("same", i, j))
               ELSE IF i = 0 \/ dp[i][j - 1] >= dp[i - 1][j] THEN Append(v, Row("added", 0, j))
               ELSE Append(p[j], Row("removed", i, 0))
           IsRow(i, p, r) == r[0] = First(i, p) /\ \A j \in 1..m : r[j] = Then(i, j, p, r[j - 1])
<1>1. n \in Nat /\ m \in Nat
    OBVIOUS
<1> HIDE DEF n, m, dp
<1>2. /\ <<>> \in Script
      /\ \A s \in Script, x \in AnyRow : Append(s, x) \in Script
    OBVIOUS
<1>3. \A x, y \in Nat : /\ Row("same", x, y) \in AnyRow
                        /\ Row("added", x, y) \in AnyRow
                        /\ Row("removed", x, y) \in AnyRow
    <2>1. "removed" \in {"same", "added", "removed"} /\ 0 \in Nat
        OBVIOUS
    <2> QED BY <2>1, RowFields
<1> HIDE DEF Script
<1>4. ASSUME NEW i \in 0..n, NEW p \in S
      PROVE  /\ First(i, p) \in Script
             /\ \A j \in 1..m, v \in Script : Then(i, j, p, v) \in Script
    <2>1. i \in Nat /\ 0 \in Nat /\ 0 \in 0..m
        BY <1>1
    <2>2. First(i, p) \in Script
        BY <1>2, <1>3, <2>1
    <2>3. ASSUME NEW j \in 1..m, NEW v \in Script
          PROVE  Then(i, j, p, v) \in Script
        <3>1. j \in Nat /\ p[j] \in Script /\ p[j - 1] \in Script
            BY <1>1
        <3>2. /\ Append(p[j - 1], Row("same", i, j)) \in Script
              /\ Append(v, Row("added", 0, j)) \in Script
              /\ Append(p[j], Row("removed", i, 0)) \in Script
            BY <1>2, <1>3, <2>1, <3>1
        <3> QED BY <3>2
    <2> QED BY <2>2, <2>3
<1> HIDE DEF First, Then
<1>5. ASSUME NEW i \in 0..n, NEW p \in S
      PROVE  \E r \in S : IsRow(i, p, r)
    <2> DEFINE step == [j \in 1..m |-> [v \in Script |-> Then(i, j, p, v)]]
    <2>1. step \in [1..m -> [Script -> Script]]
        BY <1>4
    <2>2. Steps(step, m, Script) /\ First(i, p) \in Script
        BY <1>4, <2>1 DEF Steps
    <2> HIDE DEF step
    <2>3. PICK r : Iterates(r, step, m, First(i, p), Script)
        BY <1>1, <2>2, IterationExists
    <2>4. r \in S /\ r[0] = First(i, p) /\ \A j \in 1..m : r[j] = step[j][r[j - 1]]
        BY <2>3 DEF Iterates
    <2>5. ASSUME NEW j \in 1..m
          PROVE  r[j] = Then(i, j, p, r[j - 1])
        <3>1. r[j - 1] \in Script
            BY <1>1, <2>4
        <3> QED BY <2>4, <3>1 DEF step
    <2> QED BY <2>4, <2>5
<1>6. PICK f \in [0..n -> S] : \A i \in 0..n : \E p \in S : IsRow(i, p, f[i]) /\ (i > 0 => p = f[i - 1])
    <2> DEFINE none == [j \in 0..m |-> <<>>]
               first == CHOOSE r \in S : IsRow(0, none, r)
               step == [i \in 1..n |-> [p \in S |-> CHOOSE r \in S : IsRow(i, p, r)]]
    <2>1. none \in S
        BY <1>2
    <2> HIDE DEF none, S, IsRow
    <2>2. 0 \in 0..n /\ \A i \in 1..n : i \in 0..n
        BY <1>1
    <2>3. first \in S /\ IsRow(0, none, first)
        BY <1>5, <2>1, <2>2
    <2>4. \A i \in 1..n : \A p \in S : step[i][p] \in S /\ IsRow(i, p, step[i][p])
        BY <1>5, <2>2
    <2>5. step \in [1..n -> [S -> S]]
        BY <1>5, <2>2
    <2>6. Steps(step, n, S)
        BY <2>5 DEF Steps
    <2> HIDE DEF first, step
    <2>7. PICK f : Iterates(f, step, n, first, S)
        BY <1>1, <2>3, <2>6, IterationExists
    <2>8. f \in [0..n -> S] /\ f[0] = first /\ \A i \in 1..n : f[i] = step[i][f[i - 1]]
        BY <2>7 DEF Iterates
    <2>9. ASSUME NEW i \in 0..n
          PROVE  \E p \in S : IsRow(i, p, f[i]) /\ (i > 0 => p = f[i - 1])
        <3>1. CASE i = 0
            BY <3>1, <2>1, <2>3, <2>8
        <3>2. CASE i > 0
            <4>1. i \in 1..n /\ f[i - 1] \in S
                BY <1>1, <3>2, <2>8
            <4> QED BY <4>1, <2>4, <2>8
        <3> QED BY <1>1, <3>1, <3>2
    <2> QED BY <2>8, <2>9
<1> DEFINE Entry(rows, i, j) ==
              IF i = 0 /\ j = 0 THEN <<>>
              ELSE IF i > 0 /\ j > 0 /\ a[i] = b[j]
                   THEN Append(rows[i - 1][j - 1], Row("same", i, j))
              ELSE IF j > 0 /\ (i = 0 \/ dp[i][j - 1] >= dp[i - 1][j])
                   THEN Append(rows[i][j - 1], Row("added", 0, j))
              ELSE Append(rows[i - 1][j], Row("removed", i, 0))
           table(rows) == [i \in 0..n |-> [j \in 0..m |-> Entry(rows, i, j)]]
<1>7. ASSUME NEW i \in 0..n, NEW j \in 0..m
      PROVE  f[i][j] = Entry(f, i, j)
    <2>1. PICK p \in S : IsRow(i, p, f[i]) /\ (i > 0 => p = f[i - 1])
        BY <1>6
    <2>2. CASE j = 0
        <3>1. f[i][0] = First(i, p)
            BY <2>1
        <3>2. CASE i = 0
            BY <2>2, <3>1, <3>2 DEF First
        <3>3. CASE i > 0
            <4>1. f[i][0] = First(i, f[i - 1])
                BY <2>1, <3>1, <3>3
            <4>2. First(i, f[i - 1]) = Append(f[i - 1][0], Row("removed", i, 0))
                BY <3>3 DEF First
            <4>3. Entry(f, i, j) = Append(f[i - 1][0], Row("removed", i, 0))
                BY <2>2, <3>3
            <4> QED BY <2>2, <4>1, <4>2, <4>3
        <3> QED BY <1>1, <3>2, <3>3
    <2>3. CASE j > 0
        <3>1. j \in 1..m
            BY <1>1, <2>3
        <3>2. f[i][j] = Then(i, j, p, f[i][j - 1])
            BY <2>1, <3>1
        <3>3. CASE i = 0
            BY <2>3, <3>2, <3>3 DEF Then
        <3>4. CASE i > 0
            <4>1. f[i][j] = Then(i, j, f[i - 1], f[i][j - 1])
                BY <2>1, <3>2, <3>4
            <4>2. Then(i, j, f[i - 1], f[i][j - 1]) = Entry(f, i, j)
                BY <2>3, <3>4 DEF Then
            <4> QED BY <4>1, <4>2
        <3> QED BY <1>1, <3>3, <3>4
    <2> QED BY <1>1, <2>2, <2>3
<1> HIDE DEF Entry
<1>8. f = table(f)
    <2>1. ASSUME NEW i \in 0..n
          PROVE  f[i] = table(f)[i]
        <3>1. f[i] \in S
            OBVIOUS
        <3>2. f[i] = [j \in 0..m |-> f[i][j]]
            BY <3>1
        <3> QED BY <1>7, <3>2
    <2> QED BY <2>1
<1>9. PICK rows : rows = table(rows) /\ computeLineDiff(a, b) = rows[n][m]
    <2> DEFINE rows == CHOOSE g : g = table(g)
    <2>1. computeLineDiff(a, b) = rows[n][m]
        BY DEF computeLineDiff, Entry, n, m, dp
    <2>2. rows = table(rows)
        <3> HIDE DEF table
        <3> QED BY <1>8, Zenon
    <2> QED BY <2>1, <2>2
<1>10. ASSUME NEW i \in 0..n, NEW j \in 0..m
       PROVE  rows[i][j] = Entry(rows, i, j)
    <2>1. table(rows)[i][j] = Entry(rows, i, j)
        OBVIOUS
    <2> HIDE DEF table
    <2> QED BY <1>9, <2>1
<1>11. IsScript(a, b, dp, rows)
    BY <1>10 DEF IsScript, Entry, n, m
<1> QED BY <1>9, <1>11 DEF n, m, dp

ALines(R) == [k \in DOMAIN R |-> R[k].aIndex]
BLines(R) == [k \in DOMAIN R |-> R[k].bIndex]

\* A column shows the lines from 1 to x in order.
ReadsUpTo(column, line, x) ==
    /\ \A k \in column : line[k] \in 1..x
    /\ \A y \in 1..x : \E k \in column : line[k] = y
    /\ \A k, l \in column : k < l => line[k] < line[l]

RowAfter(c, d, size) == c \subseteq 1..size /\ d = c \cup {size + 1}
LineAfter(c, size, v, w, x) == (\A k \in c : w[k] = v[k]) /\ w[size + 1] = x /\ x > 0

\* A column that shows one line more, on the next row.
LEMMA ReadsOn ==
    ASSUME NEW c, NEW d, NEW size \in Nat, RowAfter(c, d, size), NEW v, NEW w, NEW x \in Nat,
           ReadsUpTo(c, v, x - 1), LineAfter(c, size, v, w, x)
    PROVE  ReadsUpTo(d, w, x)
<1>1. /\ \A k \in c : k \in 1..size /\ w[k] \in 1..(x - 1)
      /\ \A y \in 1..(x - 1) : \E k \in c : w[k] = y
      /\ \A k, l \in c : k < l => w[k] < w[l]
      /\ w[size + 1] = x /\ x > 0
    BY DEF ReadsUpTo, RowAfter, LineAfter
<1>2. \A k \in c \cup {size + 1} : w[k] \in 1..x
    BY <1>1
<1>3. ASSUME NEW y \in 1..x PROVE \E k \in c \cup {size + 1} : w[k] = y
    <2>1. y \in 1..(x - 1) \/ y = x
        OBVIOUS
    <2> QED BY <1>1, <2>1
<1>4. ASSUME NEW k \in c \cup {size + 1}, NEW l \in c \cup {size + 1}, k < l
      PROVE  w[k] < w[l]
    <2>1. k \in c
        BY <1>1, <1>4
    <2>2. CASE l \in c
        BY <1>1, <1>4, <2>1, <2>2
    <2>3. CASE l = size + 1
        BY <1>1, <2>1, <2>3
    <2> QED BY <2>2, <2>3
<1> QED BY <1>2, <1>3, <1>4 DEF ReadsUpTo, RowAfter, LineAfter

\* A column that shows none on the next row.
LEMMA ReadsStill ==
    ASSUME NEW c, NEW v, NEW w, NEW x, ReadsUpTo(c, v, x), \A k \in c : w[k] = v[k]
    PROVE  ReadsUpTo(c, w, x)
BY DEF ReadsUpTo

RowAdded(R, r, T) ==
    /\ T \in Seq(AnyRow) /\ Len(R) \in Nat
    /\ DOMAIN R = 1..Len(R) /\ DOMAIN T = DOMAIN R \cup {Len(R) + 1}
    /\ Len(R) + 1 \notin DOMAIN R
    /\ T[Len(R) + 1] = r /\ \A k \in DOMAIN R : T[k] = R[k]
    /\ countChangedLines(R) \in Nat
    /\ countChangedLines(T) =
          IF r.status = "same" THEN countChangedLines(R) ELSE countChangedLines(R) + 1
    /\ ColumnA(R) \subseteq 1..Len(R) /\ ColumnB(R) \subseteq 1..Len(R)
    /\ ColumnA(T) = IF r.status = "added" THEN ColumnA(R) ELSE ColumnA(R) \cup {Len(R) + 1}
    /\ ColumnB(T) = IF r.status = "removed" THEN ColumnB(R) ELSE ColumnB(R) \cup {Len(R) + 1}

\* What a further row adds to the columns and to the changed lines.
LEMMA AppendedRow ==
    ASSUME NEW R \in Seq(AnyRow), NEW r \in AnyRow, NEW T, T = Append(R, r)
    PROVE  RowAdded(R, r, T)
<1> DEFINE z == Len(R) + 1
           Changed(Q) == {k \in DOMAIN Q : Q[k].status # "same"}
<1>1. /\ T \in Seq(AnyRow) /\ Len(R) \in Nat
      /\ DOMAIN R = 1..Len(R) /\ DOMAIN T = DOMAIN R \cup {z}
      /\ z \notin DOMAIN R
      /\ T[z] = r /\ \A k \in DOMAIN R : T[k] = R[k]
    OBVIOUS
<1> HIDE DEF z
<1>2. Changed(T) = IF r.status = "same" THEN Changed(R) ELSE Changed(R) \cup {z}
    BY <1>1
<1>3. IsFiniteSet(Changed(R)) /\ z \notin Changed(R)
    <2>1. IsFiniteSet(1..Len(R))
        BY <1>1, FS_Interval
    <2>2. Changed(R) \subseteq 1..Len(R)
        BY <1>1
    <2> QED BY <1>1, <2>1, <2>2, FS_Subset
<1>4. Cardinality(Changed(R)) \in Nat /\ Cardinality(Changed(R) \cup {z}) = Cardinality(Changed(R)) + 1
    <2> HIDE DEF Changed
    <2> QED BY <1>3, FS_CardinalityType, FS_AddElement
<1>5. /\ countChangedLines(R) \in Nat
      /\ countChangedLines(T) =
            IF r.status = "same" THEN countChangedLines(R) ELSE countChangedLines(R) + 1
    BY <1>2, <1>4 DEF countChangedLines
<1>6. /\ ColumnA(R) \subseteq 1..Len(R) /\ ColumnB(R) \subseteq 1..Len(R)
      /\ ColumnA(T) = IF r.status = "added" THEN ColumnA(R) ELSE ColumnA(R) \cup {z}
      /\ ColumnB(T) = IF r.status = "removed" THEN ColumnB(R) ELSE ColumnB(R) \cup {z}
    BY <1>1 DEF ColumnA, ColumnB
<1> QED BY <1>1, <1>5, <1>6 DEF z, RowAdded

\* The rows compare the first x lines of a with the first y lines of b.
Compares(R, a, b, dp, x, y) ==
    /\ R \in Seq(AnyRow)
    /\ ReadsUpTo(ColumnA(R), ALines(R), x)
    /\ ReadsUpTo(ColumnB(R), BLines(R), y)
    /\ \A k \in DOMAIN R : R[k].status = "same" => a[R[k].aIndex] = b[R[k].bIndex]
    /\ countChangedLines(R) + 2 * dp[x][y] = x + y
    /\ (\A k \in DOMAIN R : R[k].status = "same") <=> (x = y /\ \A k \in 1..x : a[k] = b[k])

\* A line that both documents have adds nothing to the changed rows c and one to the
\* common lines d.
LEMMA BothCounted ==
    ASSUME NEW c \in Nat, NEW d \in Nat, NEW x \in Nat, NEW y \in Nat,
           c + 2 * d = (x - 1) + (y - 1)
    PROVE  c + 2 * (d + 1) = x + y
OBVIOUS

\* A line that one of them has adds one changed row.
LEMMA OneCounted ==
    ASSUME NEW c \in Nat, NEW d \in Nat, NEW x \in Nat, NEW y \in Nat,
           c + 2 * d = x + (y - 1) \/ c + 2 * d = (x - 1) + y
    PROVE  (c + 1) + 2 * d = x + y
OBVIOUS

\* An unchanged row.
LEMMA SameRow ==
    ASSUME NEW a, NEW b, NEW dp, NEW x \in Nat, NEW y \in Nat, x > 0, y > 0,
           NEW R, Compares(R, a, b, dp, x - 1, y - 1),
           a[x] = b[y], dp[x - 1][y - 1] \in Nat, dp[x][y] = dp[x - 1][y - 1] + 1
    PROVE  Compares(Append(R, Row("same", x, y)), a, b, dp, x, y)
<1> DEFINE r == Row("same", x, y)
           T == Append(R, r)
           z == Len(R) + 1
<1>1. r \in AnyRow /\ r.status = "same" /\ r.aIndex = x /\ r.bIndex = y
    <2>1. "same" \in {"same", "added", "removed"} /\ 0 \in Nat
        OBVIOUS
    <2> QED BY <2>1, RowFields
<1>2. /\ R \in Seq(AnyRow)
      /\ ReadsUpTo(ColumnA(R), ALines(R), x - 1)
      /\ ReadsUpTo(ColumnB(R), BLines(R), y - 1)
      /\ \A k \in DOMAIN R : R[k].status = "same" => a[R[k].aIndex] = b[R[k].bIndex]
      /\ countChangedLines(R) + 2 * dp[x - 1][y - 1] = (x - 1) + (y - 1)
      /\ (\A k \in DOMAIN R : R[k].status = "same")
            <=> (x - 1 = y - 1 /\ \A k \in 1..(x - 1) : a[k] = b[k])
    BY DEF Compares
<1> HIDE DEF r, T
<1>3. /\ T \in Seq(AnyRow) /\ Len(R) \in Nat
      /\ DOMAIN T = DOMAIN R \cup {z} /\ z \notin DOMAIN R /\ DOMAIN R = 1..Len(R)
      /\ T[z] = r /\ \A k \in DOMAIN R : T[k] = R[k]
      /\ countChangedLines(R) \in Nat /\ countChangedLines(T) = countChangedLines(R)
      /\ ColumnA(R) \subseteq 1..Len(R) /\ ColumnB(R) \subseteq 1..Len(R)
      /\ ColumnA(T) = ColumnA(R) \cup {z}
      /\ ColumnB(T) = ColumnB(R) \cup {z}
    <2>1. T = Append(R, r)
        BY DEF T
    <2>2. RowAdded(R, r, T)
        BY <1>1, <1>2, <2>1, AppendedRow
    <2> QED BY <1>1, <2>2 DEF RowAdded
<1>4. ReadsUpTo(ColumnA(T), ALines(T), x)
    <2>1. ALines(T)[z] = x /\ \A k \in ColumnA(R) : ALines(T)[k] = ALines(R)[k]
        BY <1>1, <1>3 DEF ALines
    <2>2. RowAfter(ColumnA(R), ColumnA(T), Len(R)) /\ Len(R) \in Nat
        BY <1>3 DEF RowAfter
    <2>3. LineAfter(ColumnA(R), Len(R), ALines(R), ALines(T), x)
        BY <2>1 DEF LineAfter
    <2> QED BY <1>2, <2>2, <2>3, ReadsOn
<1>5. ReadsUpTo(ColumnB(T), BLines(T), y)
    <2>1. BLines(T)[z] = y /\ \A k \in ColumnB(R) : BLines(T)[k] = BLines(R)[k]
        BY <1>1, <1>3 DEF BLines
    <2>2. RowAfter(ColumnB(R), ColumnB(T), Len(R)) /\ Len(R) \in Nat
        BY <1>3 DEF RowAfter
    <2>3. LineAfter(ColumnB(R), Len(R), BLines(R), BLines(T), y)
        BY <2>1 DEF LineAfter
    <2> QED BY <1>2, <2>2, <2>3, ReadsOn
<1>6. \A k \in DOMAIN T : T[k].status = "same" => a[T[k].aIndex] = b[T[k].bIndex]
    BY <1>1, <1>2, <1>3
<1>7. countChangedLines(T) + 2 * dp[x][y] = x + y
    <2> DEFINE c == countChangedLines(R)
               d == dp[x - 1][y - 1]
    <2>1. c \in Nat /\ d \in Nat /\ c + 2 * d = (x - 1) + (y - 1)
        BY <1>2, <1>3
    <2>2. countChangedLines(T) = c /\ dp[x][y] = d + 1
        BY <1>3
    <2> HIDE DEF c, d
    <2>3. (c) + 2 * (d + 1) = x + y
        BY <2>1, BothCounted
    <2> QED BY <2>2, <2>3
<1>8. (\A k \in DOMAIN T : T[k].status = "same") <=> (\A k \in DOMAIN R : R[k].status = "same")
    BY <1>1, <1>3
<1>9. (x - 1 = y - 1 /\ \A k \in 1..(x - 1) : a[k] = b[k]) <=> (x = y /\ \A k \in 1..x : a[k] = b[k])
    <2>1. \A k \in 1..x : k \in 1..(x - 1) \/ k = x
        OBVIOUS
    <2>2. \A k \in 1..(x - 1) : k \in 1..x
        OBVIOUS
    <2>3. x - 1 = y - 1 <=> x = y
        OBVIOUS
    <2> QED BY <2>1, <2>2, <2>3
<1> QED BY <1>2, <1>3, <1>4, <1>5, <1>6, <1>7, <1>8, <1>9 DEF Compares, T, r

\* A row for a line that only the second document has.
LEMMA AddedRow ==
    ASSUME NEW a, NEW b, NEW dp, NEW x \in Nat, NEW y \in Nat, y > 0,
           NEW R, Compares(R, a, b, dp, x, y - 1),
           x = y => a[x] # b[y], dp[x][y - 1] \in Nat, dp[x][y] = dp[x][y - 1]
    PROVE  Compares(Append(R, Row("added", 0, y)), a, b, dp, x, y)
<1> DEFINE r == Row("added", 0, y)
           T == Append(R, r)
           z == Len(R) + 1
<1>1. r \in AnyRow /\ r.status = "added" /\ r.bIndex = y
    <2>1. Row("added", 0, y) \in AnyRow
        BY DEF Row, AnyRow
    <2>2. Row("added", 0, y).status = "added" /\ Row("added", 0, y).bIndex = y
        BY DEF Row
    <2> QED BY <2>1, <2>2
<1>2. /\ R \in Seq(AnyRow)
      /\ ReadsUpTo(ColumnA(R), ALines(R), x)
      /\ ReadsUpTo(ColumnB(R), BLines(R), y - 1)
      /\ \A k \in DOMAIN R : R[k].status = "same" => a[R[k].aIndex] = b[R[k].bIndex]
      /\ countChangedLines(R) + 2 * dp[x][y - 1] = x + (y - 1)
    BY DEF Compares
<1> HIDE DEF r, T
<1>3. /\ T \in Seq(AnyRow) /\ Len(R) \in Nat
      /\ DOMAIN T = DOMAIN R \cup {z} /\ z \notin DOMAIN R /\ DOMAIN R = 1..Len(R)
      /\ T[z] = r /\ \A k \in DOMAIN R : T[k] = R[k]
      /\ countChangedLines(R) \in Nat /\ countChangedLines(T) = countChangedLines(R) + 1
      /\ ColumnA(R) \subseteq 1..Len(R) /\ ColumnB(R) \subseteq 1..Len(R)
      /\ ColumnA(T) = ColumnA(R)
      /\ ColumnB(T) = ColumnB(R) \cup {z}
    <2>1. T = Append(R, r)
        BY DEF T
    <2>2. RowAdded(R, r, T)
        BY <1>1, <1>2, <2>1, AppendedRow
    <2> QED BY <1>1, <2>2 DEF RowAdded
<1>4. ReadsUpTo(ColumnA(T), ALines(T), x)
    <2>1. \A k \in ColumnA(R) : ALines(T)[k] = ALines(R)[k]
        BY <1>1, <1>3 DEF ALines
    <2> QED BY <1>2, <1>3, <2>1, ReadsStill
<1>5. ReadsUpTo(ColumnB(T), BLines(T), y)
    <2>1. BLines(T)[z] = y /\ \A k \in ColumnB(R) : BLines(T)[k] = BLines(R)[k]
        BY <1>1, <1>3 DEF BLines
    <2>2. RowAfter(ColumnB(R), ColumnB(T), Len(R)) /\ Len(R) \in Nat
        BY <1>3 DEF RowAfter
    <2>3. LineAfter(ColumnB(R), Len(R), BLines(R), BLines(T), y)
        BY <2>1 DEF LineAfter
    <2> QED BY <1>2, <2>2, <2>3, ReadsOn
<1>6. \A k \in DOMAIN T : T[k].status = "same" => a[T[k].aIndex] = b[T[k].bIndex]
    BY <1>1, <1>2, <1>3
<1>7. countChangedLines(T) + 2 * dp[x][y] = x + y
    <2> DEFINE c == countChangedLines(R)
               d == dp[x][y - 1]
    <2>1. c \in Nat /\ d \in Nat /\ c + 2 * d = x + (y - 1)
        BY <1>2, <1>3
    <2>2. countChangedLines(T) = c + 1 /\ dp[x][y] = d
        BY <1>3
    <2> HIDE DEF c, d
    <2>3. (c + 1) + 2 * (d) = x + y
        BY <2>1, OneCounted
    <2> QED BY <2>2, <2>3
<1>8. ~(\A k \in DOMAIN T : T[k].status = "same")
    BY <1>1, <1>3
<1>9. ~(x = y /\ \A k \in 1..x : a[k] = b[k])
    OBVIOUS
<1> QED BY <1>3, <1>4, <1>5, <1>6, <1>7, <1>8, <1>9 DEF Compares, T, r

\* A row for a line that only the first document has.
LEMMA RemovedRow ==
    ASSUME NEW a, NEW b, NEW dp, NEW x \in Nat, NEW y \in Nat, x > 0,
           NEW R, Compares(R, a, b, dp, x - 1, y),
           x = y => a[x] # b[y], dp[x - 1][y] \in Nat, dp[x][y] = dp[x - 1][y]
    PROVE  Compares(Append(R, Row("removed", x, 0)), a, b, dp, x, y)
<1> DEFINE r == Row("removed", x, 0)
           T == Append(R, r)
           z == Len(R) + 1
<1>1. r \in AnyRow /\ r.status = "removed" /\ r.aIndex = x
    <2>1. "removed" \in {"same", "added", "removed"} /\ 0 \in Nat
        OBVIOUS
    <2> QED BY <2>1, RowFields
<1>2. /\ R \in Seq(AnyRow)
      /\ ReadsUpTo(ColumnA(R), ALines(R), x - 1)
      /\ ReadsUpTo(ColumnB(R), BLines(R), y)
      /\ \A k \in DOMAIN R : R[k].status = "same" => a[R[k].aIndex] = b[R[k].bIndex]
      /\ countChangedLines(R) + 2 * dp[x - 1][y] = (x - 1) + y
    BY DEF Compares
<1> HIDE DEF r, T
<1>3. /\ T \in Seq(AnyRow) /\ Len(R) \in Nat
      /\ DOMAIN T = DOMAIN R \cup {z} /\ z \notin DOMAIN R /\ DOMAIN R = 1..Len(R)
      /\ T[z] = r /\ \A k \in DOMAIN R : T[k] = R[k]
      /\ countChangedLines(R) \in Nat /\ countChangedLines(T) = countChangedLines(R) + 1
      /\ ColumnA(R) \subseteq 1..Len(R) /\ ColumnB(R) \subseteq 1..Len(R)
      /\ ColumnA(T) = ColumnA(R) \cup {z}
      /\ ColumnB(T) = ColumnB(R)
    <2>1. T = Append(R, r)
        BY DEF T
    <2>2. RowAdded(R, r, T)
        BY <1>1, <1>2, <2>1, AppendedRow
    <2> QED BY <1>1, <2>2 DEF RowAdded
<1>4. ReadsUpTo(ColumnA(T), ALines(T), x)
    <2>1. ALines(T)[z] = x /\ \A k \in ColumnA(R) : ALines(T)[k] = ALines(R)[k]
        BY <1>1, <1>3 DEF ALines
    <2>2. RowAfter(ColumnA(R), ColumnA(T), Len(R)) /\ Len(R) \in Nat
        BY <1>3 DEF RowAfter
    <2>3. LineAfter(ColumnA(R), Len(R), ALines(R), ALines(T), x)
        BY <2>1 DEF LineAfter
    <2> QED BY <1>2, <2>2, <2>3, ReadsOn
<1>5. ReadsUpTo(ColumnB(T), BLines(T), y)
    <2>1. \A k \in ColumnB(R) : BLines(T)[k] = BLines(R)[k]
        BY <1>1, <1>3 DEF BLines
    <2> QED BY <1>2, <1>3, <2>1, ReadsStill
<1>6. \A k \in DOMAIN T : T[k].status = "same" => a[T[k].aIndex] = b[T[k].bIndex]
    BY <1>1, <1>2, <1>3
<1>7. countChangedLines(T) + 2 * dp[x][y] = x + y
    <2> DEFINE c == countChangedLines(R)
               d == dp[x - 1][y]
    <2>1. c \in Nat /\ d \in Nat /\ c + 2 * d = (x - 1) + y
        BY <1>2, <1>3
    <2>2. countChangedLines(T) = c + 1 /\ dp[x][y] = d
        BY <1>3
    <2> HIDE DEF c, d
    <2>3. (c + 1) + 2 * (d) = x + y
        BY <2>1, OneCounted
    <2> QED BY <2>2, <2>3
<1>8. ~(\A k \in DOMAIN T : T[k].status = "same")
    BY <1>1, <1>3
<1>9. ~(x = y /\ \A k \in 1..x : a[k] = b[k])
    OBVIOUS
<1> QED BY <1>3, <1>4, <1>5, <1>6, <1>7, <1>8, <1>9 DEF Compares, T, r

\* Every entry of the rows compares the prefixes it is of.
LEMMA ScriptCompares ==
    ASSUME NEW a \in Seq(Lines), NEW b \in Seq(Lines), NEW dp, IsTable(a, b, dp),
           NEW rows, IsScript(a, b, dp, rows),
           NEW i \in 0..Len(a), NEW j \in 0..Len(b)
    PROVE  Compares(rows[i][j], a, b, dp, i, j)
<1> DEFINE n == Len(a)
           m == Len(b)
           good == [x \in 0..n |-> {y \in 0..m : Compares(rows[x][y], a, b, dp, x, y)}]
<1>1. n \in Nat /\ m \in Nat
    OBVIOUS
<1>2. \A x \in 0..n, y \in 0..m :
          /\ dp[x][y] \in Nat
          /\ dp[x][y] = IF x = 0 \/ y = 0 THEN 0
                        ELSE IF a[x] = b[y] THEN dp[x - 1][y - 1] + 1
                        ELSE IF dp[x - 1][y] >= dp[x][y - 1] THEN dp[x - 1][y] ELSE dp[x][y - 1]
    BY DEF IsTable
<1>3. \A x \in 0..n, y \in 0..m : y \in good[x] <=> Compares(rows[x][y], a, b, dp, x, y)
    OBVIOUS
<1>4. \A x \in 0..n, y \in 0..m :
          rows[x][y] =
              IF x = 0 /\ y = 0 THEN <<>>
              ELSE IF x > 0 /\ y > 0 /\ a[x] = b[y]
                   THEN Append(rows[x - 1][y - 1], Row("same", x, y))
              ELSE IF y > 0 /\ (x = 0 \/ dp[x][y - 1] >= dp[x - 1][y])
                   THEN Append(rows[x][y - 1], Row("added", 0, y))
              ELSE Append(rows[x - 1][y], Row("removed", x, 0))
    BY DEF IsScript
<1> HIDE DEF n, m, good
<1>5. ASSUME NEW x \in 0..n, NEW y \in 0..m,
             x > 0 => y \in good[x - 1],
             y > 0 => y - 1 \in good[x],
             x > 0 /\ y > 0 => y - 1 \in good[x - 1]
      PROVE  y \in good[x]
    <2>1. x \in Nat /\ y \in Nat
        BY <1>1
    <2> DEFINE same == Append(rows[x - 1][y - 1], Row("same", x, y))
               added == Append(rows[x][y - 1], Row("added", 0, y))
               removed == Append(rows[x - 1][y], Row("removed", x, 0))
    <2>6. rows[x][y] = IF x = 0 /\ y = 0 THEN <<>>
                       ELSE IF x > 0 /\ y > 0 /\ a[x] = b[y] THEN same
                       ELSE IF y > 0 /\ (x = 0 \/ dp[x][y - 1] >= dp[x - 1][y]) THEN added
                       ELSE removed
        BY <1>4
    <2> HIDE DEF same, added, removed
    <2>2. CASE x = 0 /\ y = 0
        <3>1. rows[x][y] = <<>> /\ dp[x][y] = 0
            BY <1>2, <1>4, <2>2
        <3>2. <<>> \in Seq(AnyRow) /\ DOMAIN <<>> = {}
            OBVIOUS
        <3>3. ColumnA(<<>>) = {} /\ ColumnB(<<>>) = {} /\ countChangedLines(<<>>) = 0
            BY <3>2, FS_EmptySet DEF ColumnA, ColumnB, countChangedLines
        <3>4. ReadsUpTo({}, ALines(<<>>), 0) /\ ReadsUpTo({}, BLines(<<>>), 0)
            BY DEF ReadsUpTo
        <3>5. Compares(<<>>, a, b, dp, 0, 0)
            <4>1. 1..0 = {} /\ dp[0][0] = 0
                BY <2>2, <3>1
            <4>2. 0 + 2 * dp[0][0] = 0 + 0
                BY <4>1
            <4> QED BY <3>2, <3>3, <3>4, <4>1, <4>2, Zenon DEF Compares
        <3> QED BY <1>3, <2>2, <3>1, <3>5
    <2>3. CASE x > 0 /\ y > 0 /\ a[x] = b[y]
        <3>1. x - 1 \in 0..n /\ y - 1 \in 0..m
            BY <1>1, <2>3
        <3>2. Compares(rows[x - 1][y - 1], a, b, dp, x - 1, y - 1)
            BY <1>3, <1>5, <2>3, <3>1
        <3>3. dp[x - 1][y - 1] \in Nat /\ dp[x][y] = dp[x - 1][y - 1] + 1
            BY <1>2, <2>1, <2>3, <3>1
        <3>4. rows[x][y] = Append(rows[x - 1][y - 1], Row("same", x, y))
            <4>1. x # 0
                BY <2>1, <2>3
            <4> QED BY <2>3, <2>6, <4>1, Zenon DEF same
        <3>5. Compares(Append(rows[x - 1][y - 1], Row("same", x, y)), a, b, dp, x, y)
            BY <2>1, <2>3, <3>2, <3>3, SameRow
        <3> QED BY <1>3, <3>4, <3>5
    <2>4. CASE ~(x > 0 /\ y > 0 /\ a[x] = b[y]) /\ y > 0 /\ (x = 0 \/ dp[x][y - 1] >= dp[x - 1][y])
        <3>1. y - 1 \in 0..m
            BY <1>1, <2>4
        <3>2. Compares(rows[x][y - 1], a, b, dp, x, y - 1)
            BY <1>3, <1>5, <2>4, <3>1
        <3>3. dp[x][y - 1] \in Nat /\ dp[x][y] = dp[x][y - 1]
            <4>1. CASE x = 0
                BY <1>2, <3>1, <4>1
            <4>2. CASE x > 0
                <5>1. x - 1 \in 0..n
                    BY <1>1, <4>2
                <5>2. dp[x][y - 1] \in Nat /\ dp[x - 1][y] \in Nat
                    BY <1>2, <3>1, <5>1
                <5>3. dp[x][y] = IF dp[x - 1][y] >= dp[x][y - 1] THEN dp[x - 1][y] ELSE dp[x][y - 1]
                    BY <1>2, <2>4, <4>2
                <5> QED BY <2>4, <4>2, <5>2, <5>3
            <4> QED BY <2>1, <4>1, <4>2
        <3>4. rows[x][y] = Append(rows[x][y - 1], Row("added", 0, y))
            <4>1. y # 0
                BY <2>1, <2>4
            <4> QED BY <2>4, <2>6, <4>1, Zenon DEF added
        <3>5. Compares(Append(rows[x][y - 1], Row("added", 0, y)), a, b, dp, x, y)
            <4>1. x = y => a[x] # b[y]
                BY <2>4
            <4> QED BY <2>1, <2>4, <3>2, <3>3, <4>1, AddedRow
        <3> QED BY <1>3, <3>4, <3>5
    <2>5. CASE /\ ~(x = 0 /\ y = 0) /\ ~(x > 0 /\ y > 0 /\ a[x] = b[y])
               /\ ~(y > 0 /\ (x = 0 \/ dp[x][y - 1] >= dp[x - 1][y]))
        <3>1. x > 0 /\ x - 1 \in 0..n
            BY <1>1, <2>1, <2>5
        <3>2. Compares(rows[x - 1][y], a, b, dp, x - 1, y)
            BY <1>3, <1>5, <3>1
        <3>3. dp[x - 1][y] \in Nat /\ dp[x][y] = dp[x - 1][y]
            <4>1. CASE y = 0
                BY <1>2, <3>1, <4>1
            <4>2. CASE y > 0
                <5>1. y - 1 \in 0..m
                    BY <1>1, <4>2
                <5>2. dp[x][y - 1] \in Nat /\ dp[x - 1][y] \in Nat
                    BY <1>2, <3>1, <5>1
                <5>3. dp[x][y] = IF dp[x - 1][y] >= dp[x][y - 1] THEN dp[x - 1][y] ELSE dp[x][y - 1]
                    BY <1>2, <2>5, <3>1, <4>2
                <5> QED BY <2>5, <4>2, <5>2, <5>3
            <4> QED BY <2>1, <4>1, <4>2
        <3>4. rows[x][y] = Append(rows[x - 1][y], Row("removed", x, 0))
            BY <2>5, <2>6, Zenon DEF removed
        <3>5. Compares(Append(rows[x - 1][y], Row("removed", x, 0)), a, b, dp, x, y)
            <4>1. x = y => a[x] # b[y]
                BY <2>5, <3>1
            <4> QED BY <2>1, <3>1, <3>2, <3>3, <4>1, RemovedRow
        <3> QED BY <1>3, <3>4, <3>5
    <2> QED BY <2>2, <2>3, <2>4, <2>5
<1>6. \A x \in 0..n, y \in 0..m : y \in good[x]
    BY <1>1, <1>5, GridInduction
<1> QED BY <1>3, <1>6 DEF n, m

\* What the code computes for two documents is what is claimed.
LEMMA ComparisonIsMinimal ==
    ASSUME left \in Seq(Lines), right \in Seq(Lines)
    PROVE  DiffIsMinimal
<1> DEFINE n == Len(left)
           m == Len(right)
           dp == lcsTable(left, right)
           R == computeLineDiff(left, right)
           longest == Max({Cardinality(s) : s \in CommonSubsequences(left, right)})
<1>1. n \in Nat /\ m \in Nat /\ n \in 0..n /\ m \in 0..m
      /\ DOMAIN left = 1..n /\ DOMAIN right = 1..m
    OBVIOUS
<1>2. IsTable(left, right, dp)
    BY TableExists
<1>3. Compares(R, left, right, dp, n, m)
    <2>1. PICK rows : IsScript(left, right, dp, rows) /\ R = rows[n][m]
        BY ScriptExists
    <2> HIDE DEF dp, R
    <2> QED BY <1>1, <1>2, <2>1, ScriptCompares
<1>4. dp[n][m] \in Nat
    BY <1>1, <1>2 DEF IsTable
<1>5. dp[n][m] = longest
    <2> HIDE DEF dp
    <2> QED BY <1>2, TableIsLongest
<1> HIDE DEF n, m, dp, R, longest
<1>6. /\ R \in Seq(AnyRow)
      /\ ReadsUpTo(ColumnA(R), ALines(R), n)
      /\ ReadsUpTo(ColumnB(R), BLines(R), m)
      /\ \A k \in DOMAIN R : R[k].status = "same" => left[R[k].aIndex] = right[R[k].bIndex]
      /\ countChangedLines(R) + 2 * dp[n][m] = n + m
      /\ (\A k \in DOMAIN R : R[k].status = "same") <=> (n = m /\ \A k \in 1..n : left[k] = right[k])
    BY <1>3 DEF Compares
<1>7. Reads(left, ColumnA(R), LAMBDA i : R[i].aIndex)
    <2>1. \A k \in ColumnA(R) : ALines(R)[k] = R[k].aIndex
        BY DEF ALines, ColumnA
    <2>2. /\ \A k \in ColumnA(R) : R[k].aIndex \in 1..n
          /\ \A y \in 1..n : \E k \in ColumnA(R) : R[k].aIndex = y
          /\ \A k, l \in ColumnA(R) : k < l => R[k].aIndex < R[l].aIndex
        <3>1. /\ \A k \in ColumnA(R) : ALines(R)[k] \in 1..n
              /\ \A y \in 1..n : \E k \in ColumnA(R) : ALines(R)[k] = y
              /\ \A k, l \in ColumnA(R) : k < l => ALines(R)[k] < ALines(R)[l]
            BY <1>6 DEF ReadsUpTo
        <3> QED BY <2>1, <3>1
    <2>3. {R[i].aIndex : i \in ColumnA(R)} = 1..n
        BY <2>2
    <2> QED BY <1>1, <2>2, <2>3 DEF Reads
<1>8. Reads(right, ColumnB(R), LAMBDA i : R[i].bIndex)
    <2>1. \A k \in ColumnB(R) : BLines(R)[k] = R[k].bIndex
        BY DEF BLines, ColumnB
    <2>2. /\ \A k \in ColumnB(R) : R[k].bIndex \in 1..m
          /\ \A y \in 1..m : \E k \in ColumnB(R) : R[k].bIndex = y
          /\ \A k, l \in ColumnB(R) : k < l => R[k].bIndex < R[l].bIndex
        <3>1. /\ \A k \in ColumnB(R) : BLines(R)[k] \in 1..m
              /\ \A y \in 1..m : \E k \in ColumnB(R) : BLines(R)[k] = y
              /\ \A k, l \in ColumnB(R) : k < l => BLines(R)[k] < BLines(R)[l]
            BY <1>6 DEF ReadsUpTo
        <3> QED BY <2>1, <3>1
    <2>3. {R[i].bIndex : i \in ColumnB(R)} = 1..m
        BY <2>2
    <2> QED BY <1>1, <2>2, <2>3 DEF Reads
<1>9. countChangedLines(R) = n + m - 2 * longest
    <2> DEFINE c == countChangedLines(R)
    <2>1. c \in Nat
        <3>0. Len(R) \in Nat /\ DOMAIN R = 1..Len(R)
            BY <1>6
        <3>1. IsFiniteSet(1..Len(R)) /\ DOMAIN R = 1..Len(R)
            BY <3>0, FS_Interval
        <3>2. IsFiniteSet({k \in DOMAIN R : R[k].status # "same"})
            BY <3>1, FS_Subset
        <3> QED BY <3>2, FS_CardinalityType DEF countChangedLines
    <2>2. c + 2 * longest = n + m /\ longest \in Nat
        BY <1>4, <1>5, <1>6
    <2> HIDE DEF c
    <2>3. c = n + m - 2 * longest
        BY <1>1, <2>1, <2>2
    <2> QED BY <2>3 DEF c
<1>10. left = right <=> (n = m /\ \A k \in 1..n : left[k] = right[k])
    <2>1. left = [k \in 1..n |-> left[k]] /\ right = [k \in 1..m |-> right[k]]
        BY <1>1
    <2>2. left = right => n = m
        BY DEF n, m
    <2>3. ASSUME n = m, \A k \in 1..n : left[k] = right[k]
          PROVE  left = right
        BY <2>1, <2>3
    <2> QED BY <2>2, <2>3
<1>11. changeIndices(R) = {} <=> \A k \in DOMAIN R : R[k].status = "same"
    <2>1. ASSUME \A k \in DOMAIN R : R[k].status = "same"
          PROVE  changeIndices(R) = {}
        BY <2>1 DEF changeIndices
    <2>2. ASSUME ~(\A k \in DOMAIN R : R[k].status = "same")
          PROVE  changeIndices(R) # {}
        <3> DEFINE C == {k \in DOMAIN R : R[k].status # "same"}
        <3>1. C \subseteq Nat /\ C # {} /\ DOMAIN R = 1..Len(R) /\ Len(R) \in Nat
            BY <1>6, <2>2
        <3>2. PICK k \in C : \A l \in C : k <= l
            <4> HIDE DEF C
            <4> QED BY <3>1, LeastNumber
        <3>3. k \in DOMAIN R /\ R[k].status # "same"
            OBVIOUS
        <3>4. k > 1 => R[k - 1].status = "same"
            <4>1. k > 1 => k - 1 \in DOMAIN R /\ ~(k <= k - 1)
                BY <3>1, <3>3
            <4>2. k > 1 => k - 1 \notin C
                <5> HIDE DEF C
                <5> QED BY <3>2, <4>1
            <4> QED BY <4>1, <4>2
        <3> QED BY <3>3, <3>4 DEF changeIndices
    <2> QED BY <2>1, <2>2
<1> QED BY <1>6, <1>7, <1>8, <1>9, <1>10, <1>11 DEF DiffIsMinimal, n, m, R, longest

\* Whatever the two documents, their comparison reads as both of them, and none
\* has fewer changed lines.
THEOREM EveryDiffIsMinimal == LineDiffSpec => []DiffIsMinimal
<1> DEFINE Documents == left \in Seq(Lines) /\ right \in Seq(Lines)
<1>1. LineDiffInit => Documents
    BY DEF LineDiffInit
<1>2. Documents /\ [LineDiffNext]_lineDiffVars => Documents'
    <2> SUFFICES ASSUME Documents, [LineDiffNext]_lineDiffVars PROVE Documents'
        OBVIOUS
    <2>1. CASE LineDiffNext
        <3>1. PICK line \in Lines :
                  \/ left' = Append(left, line) /\ UNCHANGED right
                  \/ right' = Append(right, line) /\ UNCHANGED left
            BY <2>1 DEF LineDiffNext
        <3>2. Append(left, line) \in Seq(Lines) /\ Append(right, line) \in Seq(Lines)
            OBVIOUS
        <3> QED BY <3>1, <3>2
    <2>2. CASE UNCHANGED lineDiffVars
        BY <2>2 DEF lineDiffVars
    <2> QED BY <2>1, <2>2
<1>3. Documents => DiffIsMinimal
    BY ComparisonIsMinimal
<1> QED BY <1>1, <1>2, <1>3, PTL DEF LineDiffSpec
=============================================================================
