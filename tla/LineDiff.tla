------------------------------ MODULE LineDiff ------------------------------
(***************************************************************************)
(* The line-by-line comparison of two YAML documents, lib/diff.ts, as the  *)
(* comparisons of instances and of revisions show it side by side.         *)
(***************************************************************************)
EXTENDS Naturals, Sequences, SequencesExt, FiniteSets, FiniteSetsExt

CONSTANTS
    Lines,      \* the lines a document is made of
    MaxLines    \* bound on the length of a document; the code compares 3000 lines

VARIABLES left, right    \* the documents compared

lineDiffVars == <<left, right>>

LineDiffAssumption == MaxLines \in Nat

ASSUME LineDiffAssumption

\* dp[i][j] of the code: the longest common subsequence of the first i lines and
\* the first j lines.
lcsTable(a, b) ==
    LET dp[i \in 0..Len(a)] ==
            [j \in 0..Len(b) |->
                IF i = 0 \/ j = 0 THEN 0
                ELSE IF a[i] = b[j] THEN dp[i - 1][j - 1] + 1
                ELSE Max({dp[i - 1][j], dp[i][j - 1]})]
    IN  dp

Row(status, a, b) == [status |-> status, aIndex |-> a, bIndex |-> b]

\* Wrong: where the lines differ both go forward.
computeLineDiffPaired(a, b) ==
    [i \in 1..Max({Len(a), Len(b)}) |->
        CASE i > Len(a) -> Row("added", 0, i)
          [] i > Len(b) -> Row("removed", i, 0)
          [] OTHER -> Row(IF a[i] = b[i] THEN "same" ELSE "removed", i, IF a[i] = b[i] THEN i ELSE 0)]

\* backtrack: from the ends of both documents to their beginnings. A line that
\* is absent on a side has no index there, 0 here.
computeLineDiff(a, b) ==
    LET dp == lcsTable(a, b)
        rows[i \in 0..Len(a)] ==
            [j \in 0..Len(b) |->
                IF i = 0 /\ j = 0 THEN <<>>
                ELSE IF i > 0 /\ j > 0 /\ a[i] = b[j]
                     THEN Append(rows[i - 1][j - 1], Row("same", i, j))
                ELSE IF j > 0 /\ (i = 0 \/ dp[i][j - 1] >= dp[i - 1][j])
                     THEN Append(rows[i][j - 1], Row("added", 0, j))
                ELSE Append(rows[i - 1][j], Row("removed", i, 0))]
    IN  rows[Len(a)][Len(b)]

countChangedLines(rows) == Cardinality({i \in DOMAIN rows : rows[i].status # "same"})

\* The first row of each block of changes: where the buttons of the comparison of
\* revisions stop.
changeIndices(rows) ==
    {i \in DOMAIN rows : rows[i].status # "same" /\ (i > 1 => rows[i - 1].status = "same")}

\* The two columns: a row that a side does not have is blank there.
ColumnA(rows) == {i \in DOMAIN rows : rows[i].status # "added"}
ColumnB(rows) == {i \in DOMAIN rows : rows[i].status # "removed"}

-----------------------------------------------------------------------------

LineDiffInit == left = <<>> /\ right = <<>>

LineDiffNext ==
    \E line \in Lines :
        \/ Len(left) < MaxLines /\ left' = Append(left, line) /\ UNCHANGED right
        \/ Len(right) < MaxLines /\ right' = Append(right, line) /\ UNCHANGED left

LineDiffSpec == LineDiffInit /\ [][LineDiffNext]_lineDiffVars

-----------------------------------------------------------------------------
(* Properties *)

\* How many elements of s come before p.
Rank(s, p) == Cardinality({x \in s : x < p})

\* The lines s of a and t of b are the same, line by line.
Matched(a, b, s, t) ==
    /\ Cardinality(s) = Cardinality(t)
    /\ \A p \in s, q \in t : Rank(s, p) = Rank(t, q) => a[p] = b[q]

CommonSubsequences(a, b) ==
    {s \in SUBSET (1..Len(a)) : \E t \in SUBSET (1..Len(b)) : Matched(a, b, s, t)}

\* The lines that a column shows, line(i) in row i, are those of the document, in order.
Reads(doc, column, line(_)) ==
    /\ {line(i) : i \in column} = DOMAIN doc
    /\ \A i, j \in column : i < j => line(i) < line(j)

\* The two columns read as the two documents, a row is unchanged only where they
\* agree, and no comparison with fewer changed lines exists.
DiffIsMinimal ==
    LET rows == computeLineDiff(left, right)
    IN  /\ Reads(left, ColumnA(rows), LAMBDA i : rows[i].aIndex)
        /\ Reads(right, ColumnB(rows), LAMBDA i : rows[i].bIndex)
        /\ \A i \in DOMAIN rows : rows[i].status = "same" => left[rows[i].aIndex] = right[rows[i].bIndex]
        /\ countChangedLines(rows) =
              Len(left) + Len(right)
              - 2 * Max({Cardinality(s) : s \in CommonSubsequences(left, right)})
        /\ changeIndices(rows) = {} <=> left = right
=============================================================================
