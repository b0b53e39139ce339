---------------------------- MODULE Data_proofs ----------------------------
(***************************************************************************)
(* What the proofs about the algorithms of the web client keep needing:    *)
(* arithmetic of bounds and quotients, functions defined by recursion      *)
(* along a range of numbers, and the sorted sequences of JsArray.          *)
(* The argument under all of them is the least number of a set, which the  *)
(* strict subsets of a finite range supply.                                *)
(***************************************************************************)
EXTENDS JsArray, FiniteSetsExt, FunctionTheorems, FiniteSetTheorems, TLAPS

\* Math.max of two numbers.
LEMMA LargerOfTwo ==
  ASSUME NEW a \in Int, NEW b \in Int
  PROVE  Max({a, b}) = IF a >= b THEN a ELSE b
<1>1. \E m \in {a, b} : \A x \in {a, b} : m >= x
  OBVIOUS
<1>2. Max({a, b}) \in {a, b} /\ \A x \in {a, b} : Max({a, b}) >= x
  BY <1>1 DEF Max
<1>3. QED BY <1>2

\* Math.min of two numbers.
LEMMA SmallerOfTwo ==
  ASSUME NEW a \in Int, NEW b \in Int
  PROVE  Min({a, b}) = IF a <= b THEN a ELSE b
<1>1. \E m \in {a, b} : \A x \in {a, b} : m <= x
  OBVIOUS
<1>2. Min({a, b}) \in {a, b} /\ \A x \in {a, b} : Min({a, b}) <= x
  BY <1>1 DEF Min
<1>3. QED BY <1>2

\* What the integer division rounds to.
LEMMA Quotient ==
  ASSUME NEW a \in Nat, NEW b \in Nat \ {0}
  PROVE  a \div b \in Nat /\ (a \div b) * b <= a /\ a < (a \div b + 1) * b
OBVIOUS

\* Multiplying by the same positive number keeps an order.
LEMMA SmallerFactor ==
  ASSUME NEW a \in Int, NEW b \in Int, NEW s \in Nat \ {0}
  PROVE  /\ a <= b => a * s <= b * s
         /\ a * s < b * s => a < b
OBVIOUS

\* Every nonempty set of naturals has a least element: the induction of these proofs.
\* It follows from the well-foundedness of the strict subsets of finite sets.
LEMMA LeastNumber ==
  ASSUME NEW S, S \subseteq Nat, S # {}
  PROVE  \E m \in S : \A k \in S : m <= k
<1>1. PICK n \in S : TRUE
  OBVIOUS
<1> DEFINE F == {0..k : k \in S}
<1>2. F \subseteq FiniteSubsetsOf(Nat)
  <2>1. ASSUME NEW k \in S PROVE IsFiniteSet(0..k)
    BY FS_Interval
  <2>2. QED BY <2>1 DEF FiniteSubsetsOf
<1>3. F # {}
  BY <1>1
<1>4. PICK x \in F : \A y \in F : ~(<<y, x>> \in StrictSubsetOrdering(Nat))
  <2> HIDE DEF F
  <2> QED BY <1>2, <1>3, FS_StrictSubsetOrderingWellFounded, WFMin
<1>5. PICK m \in S : x = 0..m
  OBVIOUS
<1>6. ASSUME NEW k \in S PROVE m <= k
  <2> SUFFICES ASSUME k < m PROVE FALSE
    OBVIOUS
  <2>1. 0..k \subseteq 0..m /\ 0..k # 0..m
    <3>1. m \in 0..m /\ m \notin 0..k
      OBVIOUS
    <3>2. QED BY <3>1
  <2>2. <<0..k, 0..m>> \in StrictSubsetOrdering(Nat)
    BY <2>1 DEF StrictSubsetOrdering
  <2>3. QED BY <2>2, <1>4, <1>5
<1>7. QED BY <1>6

\* A recursive definition along 0..n: what each number does to the value of the one
\* before, and the values it gives.
Steps(step, n, S) == step \in [1..n -> [S -> S]]
Iterates(f, step, n, z, S) ==
    f \in [0..n -> S] /\ f[0] = z /\ \A i \in 1..n : f[i] = step[i][f[i - 1]]

\* Such a definition defines something: were k the first number without values, the
\* values up to k - 1 would extend to it.
LEMMA IterationExists ==
    ASSUME NEW n \in Nat, NEW S, NEW z \in S, NEW step, Steps(step, n, S)
    PROVE  \E f : Iterates(f, step, n, z, S)
<1>0. step \in [1..n -> [S -> S]]
    BY DEF Steps
<1> DEFINE Defined(k) == \E f \in [0..k -> S] : f[0] = z /\ \A i \in 1..k : f[i] = step[i][f[i - 1]]
           Undefined == {k \in 0..n : ~Defined(k)}
<1>1. Defined(0)
    <2>1. [i \in 0..0 |-> z] \in [0..0 -> S] /\ [i \in 0..0 |-> z][0] = z
        OBVIOUS
    <2>2. 1..0 = {}
        OBVIOUS
    <2> QED BY <2>1, <2>2
<1>2. ASSUME NEW k \in 1..n, Defined(k - 1)
      PROVE  Defined(k)
    <2>1. PICK f \in [0..(k - 1) -> S] :
              f[0] = z /\ \A i \in 1..(k - 1) : f[i] = step[i][f[i - 1]]
        BY <1>2
    <2> DEFINE g == [i \in 0..k |-> IF i = k THEN step[k][f[k - 1]] ELSE f[i]]
    <2>2. k - 1 \in 0..(k - 1) /\ f[k - 1] \in S /\ step[k][f[k - 1]] \in S
        BY <1>0
    <2>3. g \in [0..k -> S]
        <3>1. ASSUME NEW i \in 0..k PROVE g[i] \in S
            <4>1. CASE i = k
                BY <4>1, <2>2
            <4>2. CASE i # k
                <5>1. i \in 0..(k - 1)
                    BY <4>2
                <5> QED BY <4>2, <5>1
            <4> QED BY <4>1, <4>2
        <3> QED BY <3>1
    <2>4. g[0] = z
        BY <2>1
    <2>5. ASSUME NEW i \in 1..k PROVE g[i] = step[i][g[i - 1]]
        <3>1. i - 1 \in 0..k /\ i - 1 # k /\ g[i - 1] = f[i - 1]
            OBVIOUS
        <3>2. CASE i = k
            BY <3>1, <3>2
        <3>3. CASE i # k
            <4>1. i \in 1..(k - 1) /\ g[i] = f[i]
                BY <3>3
            <4> QED BY <4>1, <3>1, <2>1
        <3> QED BY <3>2, <3>3
    <2> HIDE DEF g
    <2> QED BY <2>3, <2>4, <2>5
<1> HIDE DEF Defined
<1>3. Undefined = {}
    <2> SUFFICES ASSUME Undefined # {} PROVE FALSE
        OBVIOUS
    <2>1. PICK k \in Undefined : \A x \in Undefined : k <= x
        <3>1. Undefined \subseteq Nat
            OBVIOUS
        <3> HIDE DEF Undefined
        <3> QED BY <3>1, LeastNumber
    <2>2. k \in 1..n
        BY <1>1
    <2>3. Defined(k - 1)
        BY <2>1, <2>2
    <2> QED BY <2>2, <2>3, <1>2
<1>4. Defined(n)
    BY <1>3
<1> QED BY <1>4 DEF Defined, Iterates

\* What holds in a cell of a table when it holds above, before and between holds in
\* the whole table; good[i] is the cells of row i that it holds in.
LEMMA GridInduction ==
    ASSUME NEW n \in Nat, NEW m \in Nat, NEW good,
           \A i \in 0..n, j \in 0..m :
              /\ i > 0 => j \in good[i - 1]
              /\ j > 0 => j - 1 \in good[i]
              /\ i > 0 /\ j > 0 => j - 1 \in good[i - 1]
              => j \in good[i]
    PROVE  \A i \in 0..n, j \in 0..m : j \in good[i]
<1> DEFINE bad == {k \in Nat : \E i \in 0..n, j \in 0..m : i + j = k /\ j \notin good[i]}
<1>1. bad = {}
    <2> SUFFICES ASSUME bad # {} PROVE FALSE
        OBVIOUS
    <2>1. PICK k \in bad : \A x \in bad : k <= x
        <3>1. bad \subseteq Nat
            OBVIOUS
        <3> HIDE DEF bad
        <3> QED BY <3>1, LeastNumber
    <2>2. PICK i \in 0..n, j \in 0..m : i + j = k /\ j \notin good[i]
        OBVIOUS
    <2>3. ASSUME NEW x \in 0..n, NEW y \in 0..m, x + y < i + j
          PROVE  y \in good[x]
        <3>1. x + y \in Nat
            OBVIOUS
        <3>2. x + y \notin bad
            <4> HIDE DEF bad
            <4> QED BY <2>1, <2>2, <2>3
        <3> QED BY <3>1, <3>2
    <2>4. i > 0 => j \in good[i - 1]
        <3>1. i > 0 => i - 1 \in 0..n /\ (i - 1) + j < i + j
            OBVIOUS
        <3> QED BY <2>3, <3>1
    <2>5. j > 0 => j - 1 \in good[i]
        <3>1. j > 0 => j - 1 \in 0..m /\ i + (j - 1) < i + j
            OBVIOUS
        <3> QED BY <2>3, <3>1
    <2>6. i > 0 /\ j > 0 => j - 1 \in good[i - 1]
        <3>1. i > 0 /\ j > 0 => i - 1 \in 0..n /\ j - 1 \in 0..m /\ (i - 1) + (j - 1) < i + j
            OBVIOUS
        <3> QED BY <2>3, <3>1
    <2> QED BY <2>2, <2>4, <2>5, <2>6
<1>2. ASSUME NEW i \in 0..n, NEW j \in 0..m
      PROVE  j \in good[i]
    <2>1. i + j \in Nat
        OBVIOUS
    <2> QED BY <1>1, <2>1
<1> QED BY <1>2

\* A part that lacks an element has fewer of them.
LEMMA StrictSubset ==
    ASSUME NEW A, NEW B, IsFiniteSet(B), A \subseteq B, NEW x \in B, x \notin A
    PROVE  IsFiniteSet(A) /\ Cardinality(A) \in Nat /\ Cardinality(B) \in Nat
           /\ Cardinality(A) < Cardinality(B)
<1>1. IsFiniteSet(A) /\ Cardinality(A) <= Cardinality(B) /\ (Cardinality(B) = Cardinality(A) => B = A)
    BY FS_Subset
<1>2. Cardinality(A) \in Nat /\ Cardinality(B) \in Nat
    BY <1>1, FS_CardinalityType
<1> QED BY <1>1, <1>2

\* E[i] is what comes before i in an order of K in which any two are comparable.
IsOrder(K, E) ==
    /\ E \in [K -> SUBSET K]
    /\ \A i \in K : i \notin E[i]
    /\ \A i, j \in K : i \in E[j] => E[i] \subseteq E[j]
    /\ \A i, j \in K : i # j => i \in E[j] \/ j \in E[i]

\* What comes before each element, for an order in which any two elements are
\* comparable, counts the elements off.
LEMMA RankSmaller ==
    ASSUME NEW K, IsFiniteSet(K), NEW E \in [K -> SUBSET K],
           NEW i \in K, NEW j \in K,
           i \in E[j], i \notin E[i], E[i] \subseteq E[j]
    PROVE  /\ Cardinality(E[i]) \in Nat /\ Cardinality(E[j]) \in Nat
           /\ Cardinality(E[i]) < Cardinality(E[j])
<1>1. IsFiniteSet(E[j])
    <2>1. E[j] \in SUBSET K
        OBVIOUS
    <2> QED BY <2>1, FS_Subset
<1> QED BY <1>1, StrictSubset

\* Every rank is some element's.
LEMMA RankExists ==
    ASSUME NEW K, IsFiniteSet(K), NEW E, IsOrder(K, E),
           NEW r \in 1..Cardinality(K)
    PROVE  \E i \in K : Cardinality(E[i]) = r - 1
<1> USE DEF IsOrder
<1>1. Cardinality(K) \in Nat
    BY FS_CardinalityType
<1> DEFINE n == Cardinality(K)
           f == [i \in K |-> Cardinality(E[i]) + 1]
<1>2. ASSUME NEW i \in K
      PROVE  Cardinality(E[i]) \in Nat /\ Cardinality(E[i]) < n
    <2>1. E[i] \subseteq K /\ i \notin E[i]
        OBVIOUS
    <2> QED BY <2>1, StrictSubset
<1>3. f \in [K -> 1..n]
    BY <1>1, <1>2
<1>4. ASSUME NEW i \in K, NEW j \in K, f[i] = f[j]
      PROVE  i = j
    <2>1. CASE i \in E[j]
        BY <2>1, <1>4, RankSmaller
    <2>2. CASE j \in E[i]
        BY <2>2, <1>4, RankSmaller
    <2> QED BY <2>1, <2>2
<1>5. f \in Injection(K, 1..n)
    BY <1>3, <1>4 DEF Injection, IsInjective
<1>6. IsFiniteSet(1..n) /\ Cardinality(1..n) = n
    BY <1>1, FS_Interval
<1>7. f \in Surjection(K, 1..n)
    BY <1>5, <1>6, FS_Injection
<1>8. PICK i \in K : f[i] = r
    BY <1>7 DEF Surjection
<1> QED BY <1>2, <1>8

\* Who has the smaller rank comes before.
LEMMA RankOrders ==
    ASSUME NEW K, IsFiniteSet(K), NEW E, IsOrder(K, E),
           NEW i \in K, NEW j \in K, Cardinality(E[i]) < Cardinality(E[j])
    PROVE  i \in E[j] /\ i # j
<1> USE DEF IsOrder
<1>1. Cardinality(E[i]) \in Nat
    <2>1. E[i] \in SUBSET K
        OBVIOUS
    <2> QED BY <2>1, FS_Subset, FS_CardinalityType
<1>2. i # j
    BY <1>1
<1>3. j \notin E[i]
    BY <1>1, RankSmaller
<1> QED BY <1>2, <1>3

\* Who takes for each rank an element of that rank takes every element.
LEMMA RankIsTaken ==
    ASSUME NEW K, IsFiniteSet(K), NEW E, IsOrder(K, E), NEW i \in K
    PROVE  /\ Cardinality(E[i]) \in Nat
           /\ Cardinality(E[i]) + 1 \in 1..Cardinality(K)
           /\ \A j \in K : Cardinality(E[j]) = Cardinality(E[i]) => j = i
<1>1. E[i] \subseteq K /\ i \notin E[i]
    BY DEF IsOrder
<1>2. /\ Cardinality(E[i]) \in Nat /\ Cardinality(K) \in Nat
      /\ Cardinality(E[i]) < Cardinality(K)
    BY <1>1, StrictSubset
<1>3. ASSUME NEW j \in K, Cardinality(E[j]) = Cardinality(E[i]), j # i
      PROVE  FALSE
    <2>1. j \in E[i] \/ i \in E[j]
        BY <1>3 DEF IsOrder
    <2>2. CASE j \in E[i]
        BY <2>2, <1>3, RankSmaller DEF IsOrder
    <2>3. CASE i \in E[j]
        BY <2>3, <1>3, RankSmaller DEF IsOrder
    <2> QED BY <2>1, <2>2, <2>3
<1> QED BY <1>2, <1>3

\* The order of a stable sort by a number, the largest first.
LargestFirst(K, key, E) ==
    /\ E \in [K -> SUBSET K]
    /\ \A i, j \in K : i \in E[j] <=> key[i] > key[j] \/ (~(key[j] > key[i]) /\ i < j)

\* Sorting by a number, ties by position, is an order of all positions.
LEMMA LargestFirstIsOrder ==
    ASSUME NEW K, K \subseteq Nat, NEW key \in [K -> Int], NEW E, LargestFirst(K, key, E)
    PROVE  IsOrder(K, E)
<1>1. E \in [K -> SUBSET K]
    BY DEF LargestFirst
<1>2. ASSUME NEW i \in K, NEW j \in K
      PROVE  /\ key[i] \in Int /\ i \in Int
             /\ i \in E[j] <=> key[i] > key[j] \/ (~(key[j] > key[i]) /\ i < j)
    BY DEF LargestFirst
<1>3. ASSUME NEW i \in K, NEW j \in K, NEW k \in K, k \in E[i], i \in E[j]
      PROVE  k \in E[j]
    BY <1>2, <1>3
<1>4. \A i, j \in K : i \in E[j] => E[i] \subseteq E[j]
    BY <1>1, <1>3
<1>5. \A i \in K : i \notin E[i]
    BY <1>2
<1>6. \A i, j \in K : i # j => i \in E[j] \/ j \in E[i]
    BY <1>2
<1> QED BY <1>1, <1>4, <1>5, <1>6 DEF IsOrder

\* The order SetToSeq puts a finite set in names every element, each once.
LEMMA SetInOrder ==
    ASSUME NEW S, IsFiniteSet(S)
    PROVE  /\ Cardinality(S) \in Nat
           /\ SetToSeq(S) \in [1..Cardinality(S) -> S]
           /\ DOMAIN SetToSeq(S) = 1..Cardinality(S)
           /\ \A x \in S : \E i \in 1..Cardinality(S) : SetToSeq(S)[i] = x
           /\ \A i, j \in 1..Cardinality(S) : SetToSeq(S)[i] = SetToSeq(S)[j] => i = j
<1>1. Cardinality(S) \in Nat /\ ExistsBijection(1..Cardinality(S), S)
    BY FS_CardinalityType
<1> DEFINE D == 1..Cardinality(S)
<1>2. PICK f \in [D -> S] : IsInjective(f)
    BY <1>1 DEF ExistsBijection, Bijection, Injection, IsInjective
<1>3. SetToSeq(S) \in [D -> S] /\ IsInjective(SetToSeq(S))
    BY <1>2 DEF SetToSeq
<1>4. SetToSeq(S) \in Injection(D, S)
    BY <1>3 DEF Injection, IsInjective
<1>5. IsFiniteSet(D) /\ Cardinality(D) = Cardinality(S)
    BY <1>1, FS_Interval
<1>6. SetToSeq(S) \in Surjection(D, S)
    BY <1>4, <1>5, FS_Injection
<1>7. \A x \in S : \E i \in D : SetToSeq(S)[i] = x
    BY <1>6 DEF Surjection
<1>8. \A i, j \in D : SetToSeq(S)[i] = SetToSeq(S)[j] => i = j
    BY <1>3 DEF IsInjective
<1> QED BY <1>1, <1>3, <1>7, <1>8

\* The elements that are picked from a sequence are a sequence of elements of it.
LEMMA FilterPicks ==
    ASSUME NEW T, NEW s \in Seq(T), NEW kept \in SUBSET DOMAIN s
    PROVE  /\ Filter(s, kept) \in Seq(T)
           /\ \A r \in DOMAIN Filter(s, kept) : \E i \in kept : Filter(s, kept)[r] = s[i]
<1>1. IsFiniteSet(kept) /\ Cardinality(kept) \in Nat
    <2>1. DOMAIN s = 1..Len(s) /\ Len(s) \in Nat
        OBVIOUS
    <2>2. IsFiniteSet(1..Len(s))
        BY <2>1, FS_Interval
    <2> QED BY <2>1, <2>2, FS_Subset, FS_CardinalityType
<1>2. kept \subseteq Nat
    OBVIOUS
<1> DEFINE E == [i \in kept |-> {j \in kept : j < i}]
           at(r) == CHOOSE i \in kept : Cardinality({j \in kept : j < i}) = r - 1
<1>3. IsOrder(kept, E)
    BY <1>2 DEF IsOrder
<1>4. ASSUME NEW r \in 1..Cardinality(kept)
      PROVE  at(r) \in kept
    <2>1. \E i \in kept : Cardinality(E[i]) = r - 1
        <3> HIDE DEF E
        <3> QED BY <1>1, <1>3, RankExists
    <2>2. \E i \in kept : Cardinality({j \in kept : j < i}) = r - 1
        BY <2>1
    <2> QED BY <2>2
<1>5. Filter(s, kept) = [r \in 1..Cardinality(kept) |-> s[at(r)]]
    BY DEF Filter
<1> HIDE DEF at
<1>6. \A i \in kept : s[i] \in T
    OBVIOUS
<1>7. Filter(s, kept) \in [1..Cardinality(kept) -> T]
    BY <1>4, <1>5, <1>6
<1>8. Filter(s, kept) \in Seq(T)
    BY <1>1, <1>7
<1> QED BY <1>4, <1>5, <1>8

\* Picking every position changes nothing.
LEMMA FilterOfAll ==
    ASSUME NEW T, NEW s \in Seq(T)
    PROVE  Filter(s, DOMAIN s) = s
<1>1. DOMAIN s = 1..Len(s) /\ Len(s) \in Nat
    OBVIOUS
<1>2. Cardinality(DOMAIN s) = Len(s)
    BY <1>1, FS_Interval
<1>3. ASSUME NEW i \in DOMAIN s
      PROVE  Cardinality({j \in DOMAIN s : j < i}) = i - 1
    <2>1. {j \in DOMAIN s : j < i} = 1..(i - 1) /\ i - 1 \in Nat
        BY <1>1
    <2>2. Cardinality(1..(i - 1)) = i - 1
        BY <2>1, FS_Interval
    <2> QED BY <2>1, <2>2
<1>4. ASSUME NEW r \in 1..Len(s)
      PROVE  (CHOOSE i \in DOMAIN s : Cardinality({j \in DOMAIN s : j < i}) = r - 1) = r
    <2>1. r \in DOMAIN s /\ Cardinality({j \in DOMAIN s : j < r}) = r - 1
        BY <1>1, <1>3
    <2>2. ASSUME NEW i \in DOMAIN s, Cardinality({j \in DOMAIN s : j < i}) = r - 1
          PROVE  i = r
        BY <1>1, <1>3, <2>2
    <2> QED BY <2>1, <2>2
<1> DEFINE at(r) == CHOOSE i \in DOMAIN s : Cardinality({j \in DOMAIN s : j < i}) = r - 1
<1>5. Filter(s, DOMAIN s) = [r \in 1..Len(s) |-> s[r]]
    <2>1. Filter(s, DOMAIN s) = [r \in 1..Len(s) |-> s[at(r)]]
        BY <1>2 DEF Filter
    <2>2. \A r \in 1..Len(s) : at(r) = r
        BY <1>4
    <2> HIDE DEF at
    <2> QED BY <2>1, <2>2
<1> QED BY <1>1, <1>5

\* Induction up to a number.
LEMMA UpTo ==
    ASSUME NEW n \in Nat, NEW S, 0 \in S, \A k \in 0..(n - 1) : k \in S => k + 1 \in S
    PROVE  0..n \subseteq S
<1> DEFINE Missing == (0..n) \ S
<1> SUFFICES ASSUME Missing # {} PROVE FALSE
    OBVIOUS
<1>1. PICK m \in Missing : \A k \in Missing : m <= k
    <2>1. Missing \subseteq Nat
        OBVIOUS
    <2> HIDE DEF Missing
    <2> QED BY <2>1, LeastNumber
<1>2. m # 0 /\ m \in 0..n
    OBVIOUS
<1>3. m - 1 \in 0..(n - 1) /\ m - 1 \in 0..n
    BY <1>2
<1>4. m - 1 \in S
    BY <1>1, <1>3
<1> QED BY <1>1, <1>3, <1>4

\* The values of a function are no more than its arguments.
LEMMA ImageIsFinite ==
    ASSUME NEW S, IsFiniteSet(S), NEW f, f = [x \in S |-> f[x]]
    PROVE  LET T == {f[x] : x \in S}
           IN  IsFiniteSet(T) /\ Cardinality(T) <= Cardinality(S) /\ Cardinality(T) \in Nat
<1> DEFINE T == {f[x] : x \in S}
<1>1. f \in Surjection(S, T)
    BY DEF Surjection
<1> HIDE DEF T
<1>2. IsFiniteSet(T) /\ Cardinality(T) <= Cardinality(S)
    BY <1>1, FS_Surjection
<1>3. Cardinality(T) \in Nat
    BY <1>2, FS_CardinalityType
<1> QED BY <1>2, <1>3 DEF T

\* An order without repetition is as long as it has nodes.
LEMMA LengthOfOrder ==
    ASSUME NEW N, NEW order \in Seq(N), \A i, j \in DOMAIN order : order[i] = order[j] => i = j
    PROVE  IsFiniteSet(ToSet(order)) /\ Cardinality(ToSet(order)) = Len(order)
<1>1. DOMAIN order = 1..Len(order) /\ Len(order) \in Nat
    OBVIOUS
<1>2. order \in Surjection(1..Len(order), ToSet(order))
    BY <1>1 DEF Surjection, ToSet
<1>3. order \in Injection(1..Len(order), ToSet(order))
    BY <1>1, <1>2 DEF Injection, IsInjective, Surjection
<1>4. IsFiniteSet(1..Len(order)) /\ Cardinality(1..Len(order)) = Len(order)
    BY <1>1, FS_Interval
<1> QED BY <1>2, <1>3, <1>4, FS_Surjection

\* The largest of finitely many numbers: the one that the fewest exceed.
LEMMA MaxIs ==
    ASSUME NEW S, S \subseteq Nat, IsFiniteSet(S), S # {}
    PROVE  Max(S) \in S /\ \A x \in S : x <= Max(S)
<1> DEFINE above(n) == {x \in S : x > n}
           Sizes == {Cardinality(above(n)) : n \in S}
<1>1. \A n \in S : IsFiniteSet(above(n)) /\ Cardinality(above(n)) \in Nat
    BY FS_Subset, FS_CardinalityType
<1>2. Sizes \subseteq Nat /\ Sizes # {}
    BY <1>1
<1>3. PICK n \in S : \A y \in S : Cardinality(above(n)) <= Cardinality(above(y))
    <2>1. PICK m \in Sizes : \A k \in Sizes : m <= k
        <3> HIDE DEF Sizes
        <3> QED BY <1>2, LeastNumber
    <2> QED BY <2>1
<1>4. ASSUME NEW y \in S, y > n
      PROVE  FALSE
    <2>0. n \in Nat /\ y \in Nat /\ \A x \in S : x \in Nat
        BY <1>4
    <2>1. above(y) \subseteq above(n) /\ y \in above(n) /\ y \notin above(y)
        <3>1. \A x \in S : x > y => x > n
            BY <1>4, <2>0
        <3>2. ~(y > y)
            BY <2>0
        <3>3. above(y) \subseteq above(n)
            BY <3>1, Zenon
        <3> QED BY <1>4, <3>2, <3>3, Zenon
    <2>2. IsFiniteSet(above(n)) /\ Cardinality(above(n)) <= Cardinality(above(y))
        BY <1>1, <1>3
    <2> HIDE DEF above
    <2>3. /\ Cardinality(above(y)) < Cardinality(above(n))
          /\ Cardinality(above(y)) \in Nat /\ Cardinality(above(n)) \in Nat
        BY <2>1, <2>2, StrictSubset
    <2> QED BY <2>2, <2>3
<1>5. \A x \in S : n >= x
    BY <1>4
<1> QED BY <1>5 DEF Max

\* What is left of a list when an element is taken out.
LEMMA OneRemoved ==
    ASSUME NEW T, NEW s \in Seq(T), NEW i \in DOMAIN s
    PROVE  /\ RemoveAt(s, i) \in Seq(T) /\ Len(RemoveAt(s, i)) = Len(s) - 1
           /\ \A k \in DOMAIN RemoveAt(s, i) :
                 RemoveAt(s, i)[k] = s[IF k < i THEN k ELSE k + 1]
<1> DEFINE a == SubSeq(s, 1, i - 1)
           b == SubSeq(s, i + 1, Len(s))
<1>1. i \in 1..Len(s) /\ Len(s) \in Nat
    OBVIOUS
<1>2. a \in Seq(T) /\ Len(a) = i - 1 /\ \A k \in 1..(i - 1) : a[k] = s[k]
    BY <1>1
<1>3. b \in Seq(T) /\ Len(b) = Len(s) - i /\ \A k \in 1..(Len(s) - i) : b[k] = s[k + i]
    BY <1>1
<1>4. RemoveAt(s, i) = a \o b
    BY DEF RemoveAt
<1> HIDE DEF a, b
<1>5. a \o b \in Seq(T) /\ Len(a \o b) = Len(s) - 1
    BY <1>1, <1>2, <1>3
<1>6. \A k \in 1..(Len(s) - 1) : (a \o b)[k] = IF k <= i - 1 THEN a[k] ELSE b[k - (i - 1)]
    BY <1>1, <1>2, <1>3
<1>7. ASSUME NEW k \in 1..(Len(s) - 1)
      PROVE  (a \o b)[k] = s[IF k < i THEN k ELSE k + 1]
    <2>1. CASE k < i
        BY <2>1, <1>1, <1>2, <1>6
    <2>2. CASE ~(k < i)
        <3>1. k - (i - 1) \in 1..(Len(s) - i) /\ (k - (i - 1)) + i = k + 1
            BY <2>2, <1>1
        <3>2. b[k - (i - 1)] = s[k + 1]
            BY <3>1, <1>3
        <3>3. (a \o b)[k] = b[k - (i - 1)]
            <4>1. ~(k <= i - 1)
                BY <2>2, <1>1
            <4> QED BY <4>1, <1>6, Zenon
        <3> QED BY <3>2, <3>3, <2>2
    <2> QED BY <2>1, <2>2
<1>8. DOMAIN (a \o b) = 1..(Len(s) - 1)
    BY <1>1, <1>5
<1> QED BY <1>4, <1>5, <1>7, <1>8
=============================================================================
