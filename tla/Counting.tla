------------------------------- MODULE Counting -------------------------------
(***************************************************************************)
(* What the proofs of several modules need to know of finite sets: least   *)
(* numbers, the places a strict order gives the elements of a set (every   *)
(* ORDER BY and sort.Slice of the code), and sums.                         *)
(***************************************************************************)
EXTENDS SequencesExt, FiniteSetTheorems, FunctionTheorems, SequenceTheorems, TLAPS

\* A nonempty set of natural numbers has a least one.
LEMMA LeastNat ==
  ASSUME NEW S \in SUBSET Nat, S # {}
  PROVE  Min(S) \in S /\ \A y \in S : Min(S) <= y
<1>1. PICK m \in S : \A y \in S : <<y, m>> \notin OpToRel(<, Nat)
  BY WFMin, NatLessThanWellFounded, Zenon
<1>2. \A y \in S : ~(y < m)
  BY <1>1 DEF OpToRel
<1>3. \A y \in S : m =< y
  BY <1>2
<1>4. QED
  BY <1>3, Zenon DEF Min

-----------------------------------------------------------------------------
(* Sorting.  before[x] are the elements that come before x.                *)

StrictOrder(S, before) ==
  /\ before \in [S -> SUBSET S]
  /\ \A x \in S : x \notin before[x]
  /\ \A x, y \in S : x \in before[y] => before[x] \subseteq before[y]
  /\ \A x, y \in S : x # y => x \in before[y] \/ y \in before[x]

\* The element before which there are k - 1.
Place(S, before, k) == {x \in S : Cardinality(before[x]) = k - 1}

\* Fewer elements come before the one that comes first.
LEMMA FewerBefore ==
  ASSUME NEW S, IsFiniteSet(S), NEW before, StrictOrder(S, before), NEW x \in S, NEW y \in S
  PROVE  /\ Cardinality(before[x]) \in 0..(Cardinality(S) - 1)
         /\ x \in before[y] <=> Cardinality(before[x]) < Cardinality(before[y])
<1> DEFINE size(z) == Cardinality(before[z])
<1>1. \A z \in S : /\ before[z] \subseteq S /\ IsFiniteSet(before[z])
                   /\ size(z) \in Nat /\ size(z) < Cardinality(S)
  <2> TAKE z \in S
  <2>1. before[z] \in SUBSET S /\ before[z] # S
    BY DEF StrictOrder
  <2> QED BY <2>1, FS_Subset, FS_CardinalityType
<1>2. ASSUME NEW a \in S, NEW b \in S, a \in before[b] PROVE size(a) < size(b)
  <2>1. before[a] \subseteq before[b] /\ before[a] # before[b]
    BY <1>2 DEF StrictOrder
  <2>2. size(a) <= size(b) /\ size(a) # size(b)
    BY <1>1, <2>1, FS_Subset
  <2> QED BY <1>1, <2>2
<1>3. Cardinality(S) \in Nat
  BY FS_CardinalityType
<1>4. ASSUME size(x) < size(y) PROVE x \in before[y]
  <2>1. x # y
    BY <1>1, <1>4
  <2>2. y \notin before[x]
    BY <1>1, <1>2, <1>4
  <2> QED BY <2>1, <2>2 DEF StrictOrder
<1> QED BY <1>1, <1>2, <1>3, <1>4

\* Every place is taken, and by one element.
LEMMA EveryPlace ==
  ASSUME NEW S, IsFiniteSet(S), NEW before, StrictOrder(S, before),
         NEW k \in 1..Cardinality(S)
  PROVE  \E x \in S : Place(S, before, k) = {x}
<1> DEFINE n == Cardinality(S)
           place == [x \in S |-> Cardinality(before[x]) + 1]
<1>1. n \in Nat /\ IsFiniteSet(1..n) /\ Cardinality(1..n) = n
  BY FS_CardinalityType, FS_Interval
<1>2. \A x \in S : Cardinality(before[x]) \in 0..(n - 1)
  BY FewerBefore
<1>3. \A x, y \in S : x # y => place[x] # place[y]
  <2> TAKE x, y \in S
  <2>1. x # y => Cardinality(before[x]) < Cardinality(before[y]) \/ Cardinality(before[y]) < Cardinality(before[x])
    BY FewerBefore DEF StrictOrder
  <2> QED BY <1>2, <2>1
<1>4. place \in [S -> 1..n]
  BY <1>1, <1>2
<1> HIDE DEF place
<1>5. place \in Injection(S, 1..n)
  BY <1>3, <1>4, Fun_IsInj
<1>6. place \in Surjection(S, 1..n)
  BY <1>1, <1>5, FS_Injection
<1>7. PICK x \in S : place[x] = k
  BY <1>6, Zenon DEF Surjection
<1>8. \A y \in S : Cardinality(before[y]) = k - 1 <=> place[y] = k
  BY <1>2 DEF place
<1> QED BY <1>3, <1>7, <1>8 DEF Place
-----------------------------------------------------------------------------
(* Sums of natural numbers, counted as one would on an abacus.             *)

Beads(S, v) == {b \in S \X Nat : b[2] < v[b[1]]}

\* The sum of no numbers, and what one number adds.
LEMMA BeadsAdd ==
  ASSUME NEW S, NEW v, \A x \in S : v[x] \in Nat, NEW T \in SUBSET S, IsFiniteSet(T)
  PROVE  /\ IsFiniteSet(Beads(T, v)) /\ Cardinality(Beads(T, v)) \in Nat
         /\ Beads({}, v) = {}
         /\ \A x \in T : Cardinality(Beads(T, v)) = v[x] + Cardinality(Beads(T \ {x}, v))
<1>1. ASSUME NEW x \in S
      PROVE  IsFiniteSet(Beads({x}, v)) /\ Cardinality(Beads({x}, v)) = v[x]
  <2> DEFINE column == 0..(v[x] - 1)
  <2>1. Beads({x}, v) = {x} \X column
    BY DEF Beads
  <2>2. IsFiniteSet(column) /\ Cardinality(column) = v[x]
    BY FS_Interval
  <2>3. IsFiniteSet({x}) /\ Cardinality({x}) = 1
    BY FS_Singleton
  <2> HIDE DEF column
  <2>4. /\ IsFiniteSet({x} \X column)
        /\ Cardinality({x} \X column) = 1 * v[x]
    BY <2>2, <2>3, FS_Product
  <2>5. 1 * v[x] = v[x]
    OBVIOUS
  <2> QED BY <2>1, <2>4, <2>5, Zenon
<1>2. ASSUME NEW U \in SUBSET T PROVE IsFiniteSet(Beads(U, v))
  <2> DEFINE of == [x \in U |-> Beads({x}, v)]
             rows == {of[x] : x \in U}
  <2>1. IsFiniteSet(U)
    BY FS_Subset
  <2>2. of \in Surjection(U, rows)
    BY DEF Surjection
  <2>3. IsFiniteSet(rows)
    BY <2>1, <2>2, FS_Surjection
  <2>4. \A row \in rows : IsFiniteSet(row)
    BY <1>1
  <2>5. Beads(U, v) = UNION rows
    BY DEF Beads
  <2> QED BY <2>3, <2>4, <2>5, FS_UNION
<1>3. ASSUME NEW x \in T
      PROVE  Cardinality(Beads(T, v)) = v[x] + Cardinality(Beads(T \ {x}, v))
  <2>1. /\ Beads(T, v) = Beads({x}, v) \cup Beads(T \ {x}, v)
        /\ Beads({x}, v) \cap Beads(T \ {x}, v) = {}
    BY DEF Beads
  <2>2. IsFiniteSet(Beads({x}, v)) /\ IsFiniteSet(Beads(T \ {x}, v))
    BY <1>1, <1>2
  <2>3. Cardinality(Beads(T \ {x}, v)) \in Nat /\ v[x] \in Nat
    BY <2>2, FS_CardinalityType
  <2> DEFINE one  == Beads({x}, v)
             rest == Beads(T \ {x}, v)
  <2> HIDE DEF one, rest
  <2>4. Cardinality(Beads(T, v)) = Cardinality(one) + Cardinality(rest) - Cardinality({})
    <3>1. /\ Beads(T, v) = one \cup rest /\ one \cap rest = {}
          /\ IsFiniteSet(one) /\ IsFiniteSet(rest)
      BY <2>1, <2>2 DEF one, rest
    <3> QED BY <3>1, FS_Union
  <2> QED BY <1>1, <2>3, <2>4, FS_EmptySet DEF one, rest
<1> QED BY <1>2, <1>3, FS_CardinalityType DEF Beads

\* A fold over a finite set adds up the numbers, in whatever order it takes them.
LEMMA SumIsCount ==
  ASSUME NEW S, IsFiniteSet(S), NEW v, \A x \in S : v[x] \in Nat
  PROVE  SumFunctionOnSet(v, S) = Cardinality(Beads(S, v))
<1> DEFINE some(s) == CHOOSE x \in s : TRUE
           Sums(g) == g = [s \in SUBSET S |-> IF s = {} THEN 0 ELSE v[some(s)] + g[s \ {some(s)}]]
           count == [s \in SUBSET S |-> Cardinality(Beads(s, v))]
           sum == CHOOSE g : Sums(g)
<1>1. \A s \in SUBSET S : s # {} => some(s) \in s
  OBVIOUS
<1>2. \A s \in SUBSET S : IsFiniteSet(s)
  BY FS_Subset
<1>3. Sums(count)
  <2>1. Beads({}, v) = {} /\ Cardinality({}) = 0
    BY FS_EmptySet DEF Beads
  <2>2. ASSUME NEW s \in SUBSET S, s # {}
        PROVE  count[s] = v[some(s)] + count[s \ {some(s)}]
    <3>1. some(s) \in s /\ IsFiniteSet(s)
      BY <1>1, <1>2, <2>2
    <3> HIDE DEF some
    <3>2. Cardinality(Beads(s, v)) = v[some(s)] + Cardinality(Beads(s \ {some(s)}, v))
      BY <3>1, BeadsAdd
    <3> QED BY <3>2
  <2>3. ASSUME NEW s \in SUBSET S
        PROVE  count[s] = IF s = {} THEN 0 ELSE v[some(s)] + count[s \ {some(s)}]
    BY <2>1, <2>2
  <2> HIDE DEF some
  <2>4. count = [s \in SUBSET S |-> count[s]]
    OBVIOUS
  <2> QED BY <2>3, <2>4
<1>4. Sums(sum)
  <2> HIDE DEF Sums, count
  <2> QED BY <1>3
<1>5. SumFunctionOnSet(v, S) = sum[S]
  BY Zenon DEF SumFunctionOnSet, FoldFunctionOnSet, MapThenFoldSet
<1> HIDE DEF sum
<1>6. \A s \in SUBSET S : sum[s] = IF s = {} THEN 0 ELSE v[some(s)] + sum[s \ {some(s)}]
  <2> HIDE DEF some
  <2> QED BY <1>4
<1>7. \A s \in SUBSET S : count[s] = IF s = {} THEN 0 ELSE v[some(s)] + count[s \ {some(s)}]
  <2> HIDE DEF some, count
  <2> QED BY <1>3
<1> HIDE DEF Sums, count
<1>8. \A s \in SUBSET S : sum[s] = count[s]
  <2> DEFINE differ == {s \in SUBSET S : sum[s] # count[s]}
  <2>1. SUFFICES ASSUME differ # {} PROVE FALSE
    OBVIOUS
  <2>2. IsWellFoundedOn(StrictSubsetOrdering(S), SUBSET S)
    BY FS_StrictSubsetOrderingWellFounded, FS_FiniteSubsetsOfFinite
  <2>3. PICK s \in differ : \A u \in differ : <<u, s>> \notin StrictSubsetOrdering(S)
    <3> HIDE DEF differ
    <3>1. differ \subseteq SUBSET S
      BY DEF differ
    <3> QED BY <2>1, <2>2, <3>1, WFMin, Zenon
  <2>4. s # {}
    BY <1>6, <1>7
  <2> DEFINE u == s \ {some(s)}
  <2>5. some(s) \in s /\ s \in SUBSET S
    BY <1>1, <2>4
  <2> HIDE DEF some
  <2>6. u \in SUBSET S /\ u \subseteq s /\ u # s
    BY <2>5
  <2>7. <<u, s>> \in StrictSubsetOrdering(S)
    BY <2>5, <2>6 DEF StrictSubsetOrdering
  <2>8. sum[u] = count[u]
    BY <2>3, <2>6, <2>7
  <2> QED BY <1>6, <1>7, <2>3, <2>4, <2>8
<1> QED BY <1>5, <1>8 DEF count

\* What a sum is: natural, nothing for no number, and one number more.
LEMMA SumOfNaturals ==
  ASSUME NEW S, IsFiniteSet(S), NEW v, \A x \in S : v[x] \in Nat
  PROVE  /\ SumFunctionOnSet(v, S) \in Nat
         /\ SumFunctionOnSet(v, {}) = 0
         /\ \A x \in S : SumFunctionOnSet(v, S) = v[x] + SumFunctionOnSet(v, S \ {x})
<1>1. \A T \in SUBSET S : IsFiniteSet(T) /\ SumFunctionOnSet(v, T) = Cardinality(Beads(T, v))
  <2> TAKE T \in SUBSET S
  <2> QED BY FS_Subset, SumIsCount
<1>2. /\ Cardinality(Beads(S, v)) \in Nat /\ Cardinality(Beads({}, v)) = 0
      /\ \A x \in S : Cardinality(Beads(S, v)) = v[x] + Cardinality(Beads(S \ {x}, v))
  <2>1. S \in SUBSET S
    OBVIOUS
  <2>2. /\ Cardinality(Beads(S, v)) \in Nat /\ Beads({}, v) = {}
        /\ \A x \in S : Cardinality(Beads(S, v)) = v[x] + Cardinality(Beads(S \ {x}, v))
    BY <2>1, BeadsAdd
  <2> QED BY <2>2, FS_EmptySet
<1> QED BY <1>1, <1>2
===============================================================================
