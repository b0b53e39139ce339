---------------------------- MODULE VirtualGrid ----------------------------
(***************************************************************************)
(* The grid of cards of the catalog: components/VirtualGrid.tsx draws only *)
(* the rows that hooks/useVirtualGrid.ts computes from the scroll position *)
(* it has seen, with spacers in the place of the others.                   *)
(* Lengths are in units in which the numbers stay small.                   *)
(***************************************************************************)
EXTENDS Integers, FiniteSetsExt

CONSTANTS
    MaxItems,    \* bound on the number of cards
    MaxCols,     \* bound on the columns that the width allows
    Heights,     \* the heights a container can be measured at; 0: not yet measured
    ItemHeight, RowGap, Overscan

VARIABLES
    grid,        \* itemCount, cols, height
    scrollTop,   \* where the browser's container is scrolled to
    seenTop      \* where the component believes it is

gridVars == <<grid, scrollTop, seenTop>>

GridAssumption ==
    /\ MaxItems \in Nat /\ MaxCols \in Nat \ {0} /\ Heights \subseteq Nat
    /\ ItemHeight \in Nat \ {0} /\ RowGap \in Nat /\ Overscan \in Nat

ASSUME GridAssumption

Stride == ItemHeight + RowGap

CeilDiv(a, b) == (a + b - 1) \div b

TotalRows(g) == CeilDiv(g.itemCount, g.cols)
TotalHeight(g) == IF g.itemCount = 0 THEN 0 ELSE TotalRows(g) * Stride - RowGap

\* Wrong: the rows that fit, counted from the first row, without the one cut off.
useVirtualGridTight(g, top) ==
    LET firstVisible == top \div Stride
        lastRow      == Min({TotalRows(g) - 1, firstVisible + g.height \div Stride - 1})
    IN  [firstRow |-> firstVisible, lastRow |-> lastRow,
         offsetTop |-> firstVisible * Stride, offsetBottom |-> (TotalRows(g) - 1 - lastRow) * Stride]

useVirtualGrid(g, top) ==
    LET firstVisible == top \div Stride
        firstRow     == Max({0, firstVisible - Overscan})
        lastRow      == Min({TotalRows(g) - 1,
                             firstVisible + CeilDiv(g.height, Stride) + Overscan})
    IN  [firstRow |-> firstRow, lastRow |-> lastRow,
         offsetTop |-> firstRow * Stride, offsetBottom |-> Max({0, TotalRows(g) - 1 - lastRow}) * Stride]

\* What is drawn: everything as long as the container has no height.
Drawn(g, top) ==
    IF g.height = 0
    THEN [firstRow |-> 0, lastRow |-> TotalRows(g) - 1, offsetTop |-> 0, offsetBottom |-> 0]
    ELSE useVirtualGrid(g, top)

MaxScroll(g) == Max({0, TotalHeight(g) - g.height})

-----------------------------------------------------------------------------

GridInit ==
    /\ grid \in [itemCount : 0..MaxItems, cols : {1}, height : {0}]
    /\ scrollTop = 0
    /\ seenTop = 0

\* ResizeObserver. The browser moves a container that is scrolled too far.
Resize ==
    /\ \E cols \in 1..MaxCols, height \in Heights :
           grid' = [grid EXCEPT !.cols = cols, !.height = height]
    /\ scrollTop' = Min({scrollTop, MaxScroll(grid')})
    /\ UNCHANGED seenTop

\* Another filter or another answer; a list that shrank is shown from its top.
ItemsChange ==
    /\ \E n \in 0..MaxItems : grid' = [grid EXCEPT !.itemCount = n]
    /\ IF grid'.itemCount < grid.itemCount
       THEN scrollTop' = 0 /\ seenTop' = 0
       ELSE UNCHANGED <<scrollTop, seenTop>>

UserScrolls ==
    /\ scrollTop' \in 0..MaxScroll(grid)
    /\ UNCHANGED <<grid, seenTop>>

handleScroll ==
    /\ grid.itemCount > 0
    /\ seenTop' = scrollTop
    /\ UNCHANGED <<grid, scrollTop>>

GridNext == Resize \/ ItemsChange \/ UserScrolls \/ handleScroll

GridSpec == GridInit /\ [][GridNext]_gridVars

-----------------------------------------------------------------------------
(* Properties *)

\* Once the scroll event has been handled, every row that is in view, if only in
\* part, is drawn, and rows and spacers are as high as all rows together, so that
\* the scroll bar does not jump.
WindowCoversView ==
    LET d == Drawn(grid, seenTop) IN
    grid.itemCount > 0 /\ seenTop = scrollTop =>
        /\ \A row \in 0..(TotalRows(grid) - 1) :
              /\ row * Stride + ItemHeight > scrollTop
              /\ row * Stride < scrollTop + grid.height
              => row \in d.firstRow..d.lastRow
        /\ d.offsetTop + (d.lastRow - d.firstRow + 1) * Stride - RowGap + d.offsetBottom
               = TotalHeight(grid)
=============================================================================
