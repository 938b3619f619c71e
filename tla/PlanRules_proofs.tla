--------------------------- MODULE PlanRules_proofs ---------------------------
(***************************************************************************)
(* What the preflight makes of any submitted plan: the order its layers    *)
(* are stored in, and what is true of a plan it lets through.              *)
(***************************************************************************)
EXTENDS PlanRules, Counting

-----------------------------------------------------------------------------
(* Sorting the layers.                                                     *)

\* An order of the layers in which none comes after one it is before.
Sorts(f, layers) ==
  /\ f \in Bijection(DOMAIN layers, DOMAIN layers)
  /\ \A i, j \in DOMAIN layers : i < j => ~LayerBefore(layers[f[j]], layers[f[i]])

\* Layers that tie may stay in the order they were typed.
LEMMA OrderExists ==
  ASSUME NEW layers \in Seq(Layer)
  PROVE  \E f : Sorts(f, layers)
<1> DEFINE K == 1..Len(layers)
           first(x, y) == LayerBefore(layers[x], layers[y])
           before == [y \in K |-> {x \in K : first(x, y) \/ (~first(y, x) /\ x < y)}]
           f == [k \in K |-> CHOOSE x : Place(K, before, k) = {x}]
<1>1. Len(layers) \in Nat
  OBVIOUS
<1>2. DOMAIN layers = K /\ \A x \in K : layers[x] \in Layer /\ x \in Int
  OBVIOUS
<1>3. IsFiniteSet(K) /\ Cardinality(K) = Len(layers)
  BY <1>1, FS_Interval
<1>4. \A x \in K : layers[x].seq \in Int /\ layers[x].from \in Int /\ layers[x].to \in Int
  BY <1>2 DEF Layer
<1> HIDE DEF K
<1>5. \A x, y, z \in K :
        /\ ~first(x, x)
        /\ first(x, y) => ~first(y, x)
        /\ first(x, y) /\ first(y, z) => first(x, z)
        /\ first(x, z) => first(x, y) \/ first(y, z)
  <2> TAKE x, y, z \in K
  <2>1. ~first(x, x)
    BY <1>4 DEF LayerBefore
  <2>2. first(x, y) => ~first(y, x)
    BY <1>4 DEF LayerBefore
  <2>3. first(x, y) /\ first(y, z) => first(x, z)
    BY <1>4 DEF LayerBefore
  <2>4. first(x, z) => first(x, y) \/ first(y, z)
    BY <1>4 DEF LayerBefore
  <2> HIDE DEF first
  <2> QED BY <2>1, <2>2, <2>3, <2>4
<1> HIDE DEF first
<1>6. StrictOrder(K, before)
  <2>1. \A x, y, z \in K :
          /\ ~(first(x, x) \/ (~first(x, x) /\ x < x))
          /\ (first(x, y) \/ (~first(y, x) /\ x < y)) /\ (first(y, z) \/ (~first(z, y) /\ y < z))
               => (first(x, z) \/ (~first(z, x) /\ x < z))
          /\ x # y => (first(x, y) \/ (~first(y, x) /\ x < y)) \/ (first(y, x) \/ (~first(x, y) /\ y < x))
    BY <1>2, <1>5
  <2> QED BY <2>1 DEF StrictOrder
<1>7. \A x, y \in K : x \in before[y] => ~first(y, x)
  BY <1>5
<1> HIDE DEF before, f
<1>8. ASSUME NEW k \in K PROVE Place(K, before, k) = {f[k]}
  <2>1. k \in 1..Cardinality(K)
    BY <1>3 DEF K
  <2>2. \E x \in K : Place(K, before, k) = {x}
    BY <1>3, <1>6, <2>1, EveryPlace
  <2> QED BY <2>2, Zenon DEF f
<1>9. \A k \in K : f[k] \in K /\ Cardinality(before[f[k]]) = k - 1
  BY <1>8 DEF Place
<1>10. \A i, j \in K : i # j => f[i] # f[j]
  BY <1>2, <1>9
<1>11. f \in Bijection(K, K)
  <2>1. f \in [K -> K]
    BY <1>9 DEF f
  <2>2. f \in Injection(K, K)
    BY <1>10, <2>1, Fun_IsInj
  <2>3. f \in Surjection(K, K)
    BY <1>3, <2>2, FS_Injection
  <2> QED BY <2>2, <2>3, Fun_IsBij
<1>12. ASSUME NEW i \in K, NEW j \in K, i < j PROVE ~first(f[j], f[i])
  <2>1. Cardinality(before[f[i]]) < Cardinality(before[f[j]])
    BY <1>2, <1>9, <1>12
  <2>2. f[i] \in before[f[j]]
    BY <1>3, <1>6, <1>9, <2>1, FewerBefore
  <2> QED BY <1>7, <1>9, <2>2
<1> QED BY <1>2, <1>11, <1>12 DEF Sorts, first

\* The stored layers are the typed ones in such an order.
LEMMA LayersSorted ==
  ASSUME NEW layers \in Seq(Layer)
  PROVE  \E f : Sorts(f, layers) /\ SortedLayers(layers) = [k \in DOMAIN layers |-> layers[f[k]]]
<1> DEFINE K == DOMAIN layers
           Order(f) == /\ \A j \in K : \E i \in K : f[i] = j
                       /\ \A i, j \in K : i < j => ~LayerBefore(layers[f[j]], layers[f[i]])
           order == CHOOSE f \in [K -> K] : Order(f)
<1>1. SortedLayers(layers) = [k \in K |-> layers[order[k]]]
  BY Zenon DEF SortedLayers
<1>2. order \in [K -> K] /\ Order(order)
  <2>1. PICK f : Sorts(f, layers)
    BY OrderExists
  <2>2. f \in [K -> K] /\ Order(f)
    BY <2>1, Fun_BijectionProperties DEF Sorts
  <2> HIDE DEF Order
  <2> QED BY <2>2, Zenon
<1> HIDE DEF order
<1>3. order \in Bijection(K, K)
  <2>1. IsFiniteSet(K)
    <3>1. Len(layers) \in Nat /\ K = 1..Len(layers)
      OBVIOUS
    <3> QED BY <3>1, FS_Interval
  <2> HIDE DEF K
  <2>2. order \in Surjection(K, K)
    BY <1>2, Fun_IsSurj
  <2>3. order \in Injection(K, K)
    BY <2>1, <2>2, FS_SurjSameCardinalityImpliesInj
  <2> QED BY <2>2, <2>3, Fun_IsBij
<1> QED BY <1>1, <1>2, <1>3 DEF Sorts


-----------------------------------------------------------------------------
(* Numbered layers.                                                        *)

\* Every number from 1 to the number of layers is given to one layer.
Numbered(layers) ==
  /\ \A k \in DOMAIN layers : layers[k].seq \in DOMAIN layers
  /\ \A j, k \in DOMAIN layers : layers[j].seq = layers[k].seq => j = k

\* A list of layers is finite.
LEMMA ListIsFinite ==
  ASSUME NEW layers \in Seq(Layer)
  PROVE  /\ Len(layers) \in Nat /\ DOMAIN layers = 1..Len(layers)
         /\ IsFiniteSet(DOMAIN layers) /\ Cardinality(DOMAIN layers) = Len(layers)
<1>1. Len(layers) \in Nat /\ DOMAIN layers = 1..Len(layers)
  OBVIOUS
<1>2. IsFiniteSet(1..Len(layers)) /\ Cardinality(1..Len(layers)) = Len(layers)
  BY <1>1, FS_Interval
<1> QED BY <1>1, <1>2

\* Numbered layers are stored at the place of their number.
LEMMA NumberedSorted ==
  ASSUME NEW layers \in Seq(Layer), Numbered(layers)
  PROVE  \A k \in DOMAIN layers : SortedLayers(layers)[layers[k].seq] = layers[k]
<1> DEFINE K == DOMAIN layers
<1>1. PICK f : Sorts(f, layers) /\ SortedLayers(layers) = [k \in K |-> layers[f[k]]]
  BY LayersSorted
<1> DEFINE s == [k \in K |-> layers[f[k]].seq]
<1>2. Len(layers) \in Nat /\ K = 1..Len(layers) /\ IsFiniteSet(K)
  BY ListIsFinite
<1>3. /\ f \in [K -> K] /\ \A i, j \in K : f[i] = f[j] => i = j
      /\ \A j \in K : \E i \in K : f[i] = j
  BY <1>1, Fun_BijectionProperties DEF Sorts
<1>4. \A k \in K : layers[k] \in Layer
  OBVIOUS
<1> HIDE DEF K
<1>5. s \in [K -> K] /\ \A i, j \in K : s[i] = s[j] => i = j
  <2>1. \A j \in K : layers[j].seq \in K
    BY DEF Numbered, K
  <2>2. \A j, k \in K : layers[j].seq = layers[k].seq => j = k
    BY DEF Numbered, K
  <2>3. \A k \in K : f[k] \in K /\ s[k] = layers[f[k]].seq
    BY <1>3
  <2>4. \A i, j \in K : s[i] = s[j] => i = j
    BY <1>3, <2>2, <2>3
  <2> QED BY <2>1, <2>3, <2>4
<1>6. \A i, j \in K : i < j => s[i] < s[j]
  <2> TAKE i, j \in K
  <2> HAVE i < j
  <2>1. ~LayerBefore(layers[f[j]], layers[f[i]])
    BY <1>1 DEF Sorts, K
  <2>2. s[i] \in Int /\ s[j] \in Int /\ s[i] # s[j]
    BY <1>2, <1>5
  <2> QED BY <2>1, <2>2 DEF LayerBefore
<1>7. \A j \in K : \E i \in K : s[i] = j
  <2> HIDE DEF s
  <2>1. s \in Injection(K, K)
    BY <1>5, Fun_IsInj
  <2>2. s \in Surjection(K, K)
    BY <1>2, <2>1, FS_Injection
  <2> QED BY <2>2, Fun_SurjectionProperties
<1> HIDE DEF s
<1>8. \A k \in K : s[k] = k
  <2> DEFINE wrong == {k \in K : s[k] # k}
             m == Min(wrong)
  <2>1. SUFFICES ASSUME wrong # {} PROVE FALSE
    OBVIOUS
  <2>2. m \in wrong /\ \A y \in wrong : m <= y
    <3>1. wrong \in SUBSET Nat
      BY <1>2
    <3> HIDE DEF wrong
    <3> QED BY <2>1, <3>1, LeastNat
  <2> HIDE DEF m
  <2>3. m \in K /\ s[m] # m /\ \A k \in K : k < m => s[k] = k
    BY <1>2, <2>2
  <2> HIDE DEF wrong
  <2>4. s[m] \in K /\ \A k \in K : k \in Nat
    BY <1>2, <1>5, <2>3
  <2>5. CASE s[m] < m
    BY <1>5, <2>3, <2>4, <2>5
  <2>6. CASE s[m] > m
    <3>1. PICK i \in K : s[i] = m
      BY <1>7, <2>3
    <3>2. i < m => s[i] = i
      BY <2>3
    <3>3. m < i => s[m] < s[i]
      BY <1>6, <2>3
    <3> QED BY <2>3, <2>4, <2>6, <3>1, <3>2, <3>3
  <2> QED BY <2>3, <2>4, <2>5, <2>6
<1>9. ASSUME NEW k \in K PROVE SortedLayers(layers)[layers[k].seq] = layers[k]
  <2>1. PICK i \in K : f[i] = k
    BY <1>3
  <2>2. layers[k].seq = i
    BY <1>8, <2>1 DEF s
  <2> QED BY <1>1, <2>1, <2>2
<1> QED BY <1>9 DEF K

\* Layers that are numbered by their places once sorted were numbered before.
LEMMA SortedNumbered ==
  ASSUME NEW layers \in Seq(Layer),
         \A k \in DOMAIN layers : SortedLayers(layers)[k].seq = k
  PROVE  Numbered(layers)
<1> DEFINE K == DOMAIN layers
<1>1. PICK f : Sorts(f, layers) /\ SortedLayers(layers) = [k \in K |-> layers[f[k]]]
  BY LayersSorted
<1>2. f \in [K -> K] /\ \A j \in K : \E i \in K : f[i] = j
  BY <1>1, Fun_BijectionProperties DEF Sorts
<1> HIDE DEF K
<1>3. \A j \in K : layers[j].seq \in K /\ f[layers[j].seq] = j
  BY <1>1, <1>2 DEF K
<1> QED BY <1>3 DEF Numbered, K


-----------------------------------------------------------------------------
(* The normalised plan.                                                    *)

\* What normalising makes of a layer.
LEMMA LayerNormalized ==
  ASSUME NEW layer \in Layer
  PROVE  NormalizedLayer(layer) =
           [seq |-> layer.seq, from |-> layer.from, to |-> layer.to, stage |-> Trim[layer.stage],
            lot |-> Trim[layer.lot], target |-> layer.target,
            evidence |-> {Trim[e] : e \in layer.evidence}]
<1>1. PICK one : one = [layer EXCEPT !.lot = Trim[@]]
  OBVIOUS
<1>2. PICK two : two = [one EXCEPT !.stage = Trim[@]]
  OBVIOUS
<1>3. NormalizedLayer(layer) = [two EXCEPT !.evidence = {Trim[e] : e \in @}]
  BY <1>1, <1>2 DEF NormalizedLayer
<1>4. one = [seq |-> layer.seq, from |-> layer.from, to |-> layer.to, stage |-> layer.stage,
             lot |-> Trim[layer.lot], target |-> layer.target, evidence |-> layer.evidence]
  BY <1>1 DEF Layer
<1>5. two = [seq |-> layer.seq, from |-> layer.from, to |-> layer.to, stage |-> Trim[layer.stage],
             lot |-> Trim[layer.lot], target |-> layer.target, evidence |-> layer.evidence]
  BY <1>2, <1>4
<1> QED BY <1>3, <1>5

\* The layers as normalised, in the order they were typed.
Typed(input) == [k \in DOMAIN input.layers |-> NormalizedLayer(input.layers[k])]

\* Normalised layers are layers.
LEMMA TypedLayers ==
  ASSUME NEW input \in SubmittedPlan
  PROVE  /\ input.layers \in Seq(Layer) /\ Typed(input) \in Seq(Layer)
         /\ DOMAIN Typed(input) = DOMAIN input.layers /\ Len(Typed(input)) = Len(input.layers)
         /\ \A k \in DOMAIN input.layers :
              Typed(input)[k] =
                [seq |-> input.layers[k].seq, from |-> input.layers[k].from, to |-> input.layers[k].to,
                 stage |-> Trim[input.layers[k].stage], lot |-> Trim[input.layers[k].lot],
                 target |-> input.layers[k].target,
                 evidence |-> {Trim[e] : e \in input.layers[k].evidence}]
         /\ \A k \in DOMAIN input.layers :
              /\ Typed(input)[k].seq = input.layers[k].seq
              /\ Typed(input)[k].from = input.layers[k].from
              /\ Typed(input)[k].to = input.layers[k].to
              /\ Typed(input)[k].stage = Trim[input.layers[k].stage]
              /\ Typed(input)[k].lot = Trim[input.layers[k].lot]
              /\ Typed(input)[k].target = input.layers[k].target
<1> DEFINE K == DOMAIN input.layers
<1>1. input.layers \in Seq(Layer) /\ Len(input.layers) \in Nat /\ K = 1..Len(input.layers)
  BY DEF SubmittedPlan
<1>2. \A k \in K : input.layers[k] \in Layer
  BY <1>1
<1>3. \A k \in K : Typed(input)[k] = NormalizedLayer(input.layers[k])
  BY DEF Typed
<1>4. ASSUME NEW k \in K PROVE NormalizedLayer(input.layers[k]) \in Layer
  <2> DEFINE l == input.layers[k]
  <2>1. l \in Layer
    BY <1>2
  <2> HIDE DEF l
  <2>2. Trim[l.stage] \in Text /\ Trim[l.lot] \in Text /\ {Trim[e] : e \in l.evidence} \subseteq Text
    BY <2>1, TrimAssumption DEF Layer
  <2>3. NormalizedLayer(l) \in Layer
    BY <2>1, <2>2, LayerNormalized DEF Layer
  <2> QED BY <2>3 DEF l
<1>5. Typed(input) \in Seq(Layer) /\ DOMAIN Typed(input) = K /\ Len(Typed(input)) = Len(input.layers)
  BY <1>1, <1>4 DEF Typed
<1>6. ASSUME NEW k \in K
      PROVE  Typed(input)[k] =
                [seq |-> input.layers[k].seq, from |-> input.layers[k].from, to |-> input.layers[k].to,
                 stage |-> Trim[input.layers[k].stage], lot |-> Trim[input.layers[k].lot],
                 target |-> input.layers[k].target,
                 evidence |-> {Trim[e] : e \in input.layers[k].evidence}]
  BY <1>2, <1>3, LayerNormalized
<1>7. ASSUME NEW k \in K
      PROVE  /\ Typed(input)[k].seq = input.layers[k].seq
             /\ Typed(input)[k].from = input.layers[k].from
             /\ Typed(input)[k].to = input.layers[k].to
             /\ Typed(input)[k].stage = Trim[input.layers[k].stage]
             /\ Typed(input)[k].lot = Trim[input.layers[k].lot]
             /\ Typed(input)[k].target = input.layers[k].target
  <2>1. PICK evidence :
          Typed(input)[k] =
            [seq |-> input.layers[k].seq, from |-> input.layers[k].from, to |-> input.layers[k].to,
             stage |-> Trim[input.layers[k].stage], lot |-> Trim[input.layers[k].lot],
             target |-> input.layers[k].target, evidence |-> evidence]
    BY <1>6
  <2> QED BY <2>1
<1> QED BY <1>1, <1>5, <1>6, <1>7

\* The fields of a normalised plan; its layers are those typed, in some order.
LEMMA PlanNormalized ==
  ASSUME NEW input \in SubmittedPlan
  PROVE  /\ NormalizedPlan(input) =
              [layers |-> SortedLayers(Typed(input)), lots |-> Trimmed(input.lots),
               evidence |-> Trimmed(input.evidence), tolerance |-> input.tolerance,
               preparedBy |-> Trim[input.preparedBy], reviewedBy |-> Trim[input.reviewedBy]]
         /\ SortedLayers(Typed(input)) \in Seq(Layer)
         /\ DOMAIN SortedLayers(Typed(input)) = DOMAIN input.layers
         /\ Len(SortedLayers(Typed(input))) = Len(input.layers)
<1>1. PICK f : /\ Sorts(f, Typed(input))
               /\ SortedLayers(Typed(input)) = [k \in DOMAIN Typed(input) |-> Typed(input)[f[k]]]
  BY TypedLayers, LayersSorted
<1>2. f \in [DOMAIN Typed(input) -> DOMAIN Typed(input)]
  BY <1>1, Fun_BijectionProperties DEF Sorts
<1> DEFINE N == Typed(input)
<1>3. N \in Seq(Layer) /\ DOMAIN N = DOMAIN input.layers /\ Len(N) = Len(input.layers)
  BY TypedLayers
<1>4. NormalizedPlan(input) =
        [layers |-> SortedLayers(Typed(input)), lots |-> Trimmed(input.lots),
         evidence |-> Trimmed(input.evidence), tolerance |-> input.tolerance,
         preparedBy |-> Trim[input.preparedBy], reviewedBy |-> Trim[input.reviewedBy]]
  BY Zenon DEF NormalizedPlan, Typed
<1> HIDE DEF N
<1>5. Len(N) \in Nat /\ DOMAIN N = 1..Len(N) /\ \A k \in DOMAIN N : N[k] \in Layer
  BY <1>3
<1>6. [k \in DOMAIN N |-> N[f[k]]] \in Seq(Layer) /\ Len([k \in DOMAIN N |-> N[f[k]]]) = Len(N)
  BY <1>2, <1>5 DEF N
<1> QED BY <1>1, <1>3, <1>4, <1>5, <1>6 DEF N

-----------------------------------------------------------------------------
(* What is true of a plan without issues.                                  *)

\* Layers numbered by place that stand on each other from bottom to surface.
Stacked(depth, layers) ==
  /\ layers # << >>
  /\ \A k \in DOMAIN layers : layers[k].seq = k
  /\ \A k \in DOMAIN layers :
       0 <= layers[k].from /\ layers[k].from < layers[k].to /\ layers[k].to <= depth
  /\ \A k \in DOMAIN layers : k > 1 => layers[k-1].to = layers[k].from
  /\ layers[1].from = 0 /\ layers[Len(layers)].to = depth

\* Every layer has a stage, a volume and a registered lot; no lot is idle.
Stocked(p) ==
  /\ \A k \in DOMAIN p.layers : ~IsBlank(p.layers[k].stage)
  /\ \A k \in DOMAIN p.layers : p.layers[k].target > 0
  /\ \A k \in DOMAIN p.layers : p.layers[k].lot \in p.lots \ {Blank}
  /\ \A m \in p.lots \ {Blank} : VolumeOfLot(p.layers, m) # 0

\* Lots and evidence are listed once each, and two people answer for the plan.
Headed(p, input) ==
  /\ p.preparedBy # Blank /\ p.reviewedBy # Blank /\ p.preparedBy # p.reviewedBy
  /\ p.tolerance \in 0..(50 * Percent)
  /\ Blank \notin p.lots /\ \A k \in DOMAIN input.lots : ~RepeatsEarlier(input.lots, k)
  /\ Blank \notin p.evidence /\ \A k \in DOMAIN input.evidence : ~RepeatsEarlier(input.evidence, k)
  /\ p.evidence \ {Blank} # {}

\* A plan can be locked if none of the issues is raised.
LEMMA NoIssue ==
  ASSUME NEW depth, NEW input
  PROVE  CanLock(depth, input) <=>
           \A i \in HeaderIssues(NormalizedPlan(input), input) \cup LayerIssues(depth, NormalizedPlan(input)) :
             ~i.raised
BY Zenon DEF CanLock, PlanIssues


\* What no issue of the header means.
LEMMA CleanHeader ==
  ASSUME NEW p, NEW input
  PROVE  (\A i \in HeaderIssues(p, input) : ~i.raised) <=> (Headed(p, input) /\ p.layers # << >>)
<1> DEFINE a == p.preparedBy = Blank
           b == p.reviewedBy = Blank
           c == p.preparedBy # Blank /\ p.preparedBy = p.reviewedBy
           d == p.tolerance \notin 0..(50 * Percent)
           e == p.layers = << >>
           f == Blank \in p.lots
           g == \E k \in DOMAIN input.lots : RepeatsEarlier(input.lots, k)
           h == Blank \in p.evidence
           l == \E k \in DOMAIN input.evidence : RepeatsEarlier(input.evidence, k)
           m == p.evidence \ {Blank} = {}
<1>1. HeaderIssues(p, input) = {
        [code |-> "prepared_by_required",    raised |-> a],
        [code |-> "reviewed_by_required",    raised |-> b],
        [code |-> "role_separation",         raised |-> c],
        [code |-> "tolerance_invalid",       raised |-> d],
        [code |-> "layers_required",         raised |-> e],
        [code |-> "material_lot_empty",      raised |-> f],
        [code |-> "material_lot_duplicate",  raised |-> g],
        [code |-> "evidence_type_empty",     raised |-> h],
        [code |-> "evidence_type_duplicate", raised |-> l],
        [code |-> "evidence_required",       raised |-> m] }
  BY Zenon DEF HeaderIssues
<1>2. Headed(p, input) /\ p.layers # << >> <=> ~a /\ ~b /\ ~c /\ ~d /\ ~e /\ ~f /\ ~g /\ ~h /\ ~l /\ ~m
  BY DEF Headed
<1> HIDE DEF a, b, c, d, e, f, g, h, l, m
<1>3. (\A i \in HeaderIssues(p, input) : ~i.raised)
        <=> ~a /\ ~b /\ ~c /\ ~d /\ ~e /\ ~f /\ ~g /\ ~h /\ ~l /\ ~m
  BY <1>1
<1> QED BY <1>2, <1>3

\* What no issue of the layers means, where there is a layer.
LEMMA CleanLayers ==
  ASSUME NEW depth \in Int, NEW p, p.layers \in Seq(Layer), p.layers # << >>
  PROVE  (\A i \in LayerIssues(depth, p) : ~i.raised) <=> (Stacked(depth, p.layers) /\ Stocked(p))
<1> DEFINE L    == p.layers
           K    == DOMAIN L
           lots == p.lots \ {Blank}
           a == \E k \in K : L[k].seq # k
           b == \E k \in K : L[k].from < 0 \/ L[k].to <= L[k].from \/ L[k].to > depth
           c == \E k \in K : k > 1 /\ L[k-1].to # L[k].from
           d == \E k \in K : IsBlank(L[k].stage)
           e == \E k \in K : L[k].target <= 0
           f == \E k \in K : L[k].lot \notin lots
           g == K # {} /\ (L[1].from # 0 \/ L[Len(L)].to # depth)
           h == \E m \in lots : VolumeOfLot(L, m) = 0
<1>1. LayerIssues(depth, p) = {
        [code |-> "sequence_discontinuous",    raised |-> a],
        [code |-> "depth_invalid",             raised |-> b],
        [code |-> "depth_gap",                 raised |-> c],
        [code |-> "stage_required",            raised |-> d],
        [code |-> "target_volume_invalid",     raised |-> e],
        [code |-> "material_lot_unregistered", raised |-> f],
        [code |-> "coverage_incomplete",       raised |-> g],
        [code |-> "material_lot_unused",       raised |-> h] }
  BY Zenon DEF LayerIssues
<1>2. \A k \in K : L[k] \in Layer
  OBVIOUS
<1>3. \A k \in K : L[k].from \in Int /\ L[k].to \in Int /\ L[k].target \in Int
  BY <1>2 DEF Layer
<1>4. K # {}
  <2>1. Len(L) \in Nat /\ K = 1..Len(L) /\ Len(L) # 0
    BY ListIsFinite, EmptySeq
  <2> QED BY <2>1
<1>5. Stacked(depth, L) <=> ~a /\ ~b /\ ~c /\ ~g
  <2> HIDE DEF K
  <2>1. ~b <=> \A k \in K : 0 <= L[k].from /\ L[k].from < L[k].to /\ L[k].to <= depth
    BY <1>3
  <2>2. ~g <=> L[1].from = 0 /\ L[Len(L)].to = depth
    BY <1>4
  <2>3. (~a <=> \A k \in K : L[k].seq = k) /\ (~c <=> \A k \in K : k > 1 => L[k-1].to = L[k].from)
    OBVIOUS
  <2> HIDE DEF a, b, c, g
  <2> QED BY <2>1, <2>2, <2>3 DEF Stacked, K
<1>6. Stocked(p) <=> ~d /\ ~e /\ ~f /\ ~h
  <2>1. ~e <=> \A k \in K : L[k].target > 0
    BY <1>3
  <2> HIDE DEF e
  <2> QED BY <2>1 DEF Stocked
<1> HIDE DEF a, b, c, d, e, f, g, h
<1>7. (\A i \in LayerIssues(depth, p) : ~i.raised)
        <=> ~a /\ ~b /\ ~c /\ ~d /\ ~e /\ ~f /\ ~g /\ ~h
  BY <1>1
<1> QED BY <1>5, <1>6, <1>7

\* Preflight lets a plan through if it has a sound header and its layers are
\* stacked and stocked.
LEMMA CleanPlan ==
  ASSUME NEW depth \in Int, NEW input \in SubmittedPlan
  PROVE  CanLock(depth, input) <=>
           /\ Headed(NormalizedPlan(input), input)
           /\ Stacked(depth, NormalizedPlan(input).layers)
           /\ Stocked(NormalizedPlan(input))
<1> DEFINE p == NormalizedPlan(input)
<1>1. p.layers \in Seq(Layer)
  BY PlanNormalized
<1>2. CanLock(depth, input) <=>
        (\A i \in HeaderIssues(p, input) : ~i.raised) /\ (\A i \in LayerIssues(depth, p) : ~i.raised)
  BY NoIssue
<1> HIDE DEF p
<1>3. CASE p.layers = << >>
  <2>1. ~(\A i \in HeaderIssues(p, input) : ~i.raised)
    BY <1>3, CleanHeader
  <2> QED BY <1>2, <1>3, <2>1 DEF p, Stacked
<1>4. CASE p.layers # << >>
  BY <1>1, <1>2, <1>4, CleanHeader, CleanLayers DEF p
<1> QED BY <1>3, <1>4


-----------------------------------------------------------------------------
(* One plan, one digest.                                                   *)

\* Numbered layers have every number.
LEMMA EveryNumber ==
  ASSUME NEW layers \in Seq(Layer), Numbered(layers)
  PROVE  \A j \in DOMAIN layers : \E k \in DOMAIN layers : layers[k].seq = j
<1> DEFINE K == DOMAIN layers
           s == [k \in K |-> layers[k].seq]
<1>1. IsFiniteSet(K)
  BY ListIsFinite
<1>2. s \in [K -> K] /\ \A i, j \in K : s[i] = s[j] => i = j
  BY DEF Numbered
<1>3. \A k \in K : s[k] = layers[k].seq
  OBVIOUS
<1> HIDE DEF K, s
<1>4. s \in Injection(K, K)
  BY <1>2, Fun_IsInj
<1>5. s \in Surjection(K, K)
  BY <1>1, <1>4, FS_Injection
<1>6. \A j \in K : \E k \in K : s[k] = j
  BY <1>5, Fun_SurjectionProperties
<1> QED BY <1>3, <1>6 DEF K

\* Sorting keeps the number of layers.
LEMMA SortedDomain ==
  ASSUME NEW layers \in Seq(Layer)
  PROVE  SortedLayers(layers) = [k \in DOMAIN layers |-> SortedLayers(layers)[k]]
<1>1. PICK f : SortedLayers(layers) = [k \in DOMAIN layers |-> layers[f[k]]]
  BY LayersSorted
<1> QED BY <1>1

\* The order numbered layers are typed in makes no difference to what is stored.
LEMMA OrderOfTypingIrrelevant ==
  ASSUME NEW a \in Seq(Layer), NEW b \in Seq(Layer), DOMAIN a = DOMAIN b,
         Numbered(a), Numbered(b), \A k \in DOMAIN a : \E j \in DOMAIN b : a[k] = b[j]
  PROVE  SortedLayers(a) = SortedLayers(b)
<1>1. ASSUME NEW n \in DOMAIN a PROVE SortedLayers(a)[n] = SortedLayers(b)[n]
  <2>1. PICK k \in DOMAIN a : a[k].seq = n
    BY EveryNumber
  <2>2. PICK j \in DOMAIN b : a[k] = b[j]
    OBVIOUS
  <2>3. SortedLayers(a)[n] = a[k]
    BY <2>1, NumberedSorted
  <2>4. SortedLayers(b)[n] = b[j]
    BY <2>1, <2>2, NumberedSorted
  <2> QED BY <2>2, <2>3, <2>4
<1> DEFINE sa == SortedLayers(a)
           sb == SortedLayers(b)
<1>2. sa = [k \in DOMAIN a |-> sa[k]] /\ sb = [k \in DOMAIN a |-> sb[k]]
  BY SortedDomain
<1> HIDE DEF sa, sb
<1>3. \A k \in DOMAIN a : sa[k] = sb[k]
  BY <1>1 DEF sa, sb
<1>4. sa = sb
  BY <1>2, <1>3
<1> QED BY <1>4 DEF sa, sb

\* Layers that stand in the order of their numbers stay so.
LEMMA SortedTwice ==
  ASSUME NEW layers \in Seq(Layer), \A k \in DOMAIN layers : layers[k].seq = k
  PROVE  SortedLayers(layers) = layers
<1> DEFINE s == SortedLayers(layers)
<1>1. Numbered(layers)
  BY DEF Numbered
<1>2. \A k \in DOMAIN layers : s[k] = layers[k]
  BY <1>1, NumberedSorted
<1>3. s = [k \in DOMAIN layers |-> s[k]]
  BY SortedDomain
<1> HIDE DEF s
<1>4. [k \in DOMAIN layers |-> s[k]] = [k \in DOMAIN layers |-> layers[k]]
  BY <1>2
<1>5. layers = [k \in DOMAIN layers |-> layers[k]]
  OBVIOUS
<1>6. s = layers
  BY <1>3, <1>4, <1>5
<1> QED BY <1>6 DEF s

\* A normalised layer is normal.
LEMMA LayerNormal ==
  ASSUME NEW layer \in Layer
  PROVE  NormalizedLayer(NormalizedLayer(layer)) = NormalizedLayer(layer)
<1>1. /\ layer.stage \in Text /\ layer.lot \in Text /\ \A e \in layer.evidence : e \in Text
      /\ layer.seq \in Int /\ layer.from \in Int /\ layer.to \in Int /\ layer.target \in Int
  BY DEF Layer
<1> DEFINE once == {Trim[e] : e \in layer.evidence}
           l == [seq |-> layer.seq, from |-> layer.from, to |-> layer.to, stage |-> Trim[layer.stage],
                 lot |-> Trim[layer.lot], target |-> layer.target, evidence |-> once]
<1>2. \A t \in Text : Trim[t] \in Text /\ Trim[Trim[t]] = Trim[t]
  BY TrimAssumption
<1>3. once \subseteq Text /\ {Trim[e] : e \in once} = once
  BY <1>1, <1>2
<1>4. NormalizedLayer(layer) = l
  BY LayerNormalized
<1> HIDE DEF once
<1>5. l \in Layer
  BY <1>1, <1>2, <1>3 DEF Layer
<1>6. NormalizedLayer(l) =
        [seq |-> l.seq, from |-> l.from, to |-> l.to, stage |-> Trim[l.stage],
         lot |-> Trim[l.lot], target |-> l.target, evidence |-> {Trim[e] : e \in l.evidence}]
  BY <1>5, LayerNormalized
<1>7. NormalizedLayer(l) = l
  BY <1>1, <1>2, <1>3, <1>6
<1> QED BY <1>4, <1>7

\* The layers of a normalised plan are normal.
LEMMA StoredLayersNormal ==
  ASSUME NEW input \in SubmittedPlan
  PROVE  \A k \in DOMAIN input.layers :
           NormalizedLayer(SortedLayers(Typed(input))[k]) = SortedLayers(Typed(input))[k]
<1> DEFINE N == Typed(input)
<1>1. PICK f : Sorts(f, N) /\ SortedLayers(N) = [k \in DOMAIN N |-> N[f[k]]]
  BY TypedLayers, LayersSorted
<1>2. f \in [DOMAIN N -> DOMAIN N]
  BY <1>1, Fun_BijectionProperties DEF Sorts
<1>3. input.layers \in Seq(Layer) /\ DOMAIN N = DOMAIN input.layers
  BY TypedLayers
<1>4. \A k \in DOMAIN input.layers : N[k] = NormalizedLayer(input.layers[k]) /\ input.layers[k] \in Layer
  BY <1>3 DEF Typed
<1>5. \A k \in DOMAIN input.layers : NormalizedLayer(N[k]) = N[k]
  BY <1>4, LayerNormal
<1> HIDE DEF N
<1> QED BY <1>1, <1>2, <1>3, <1>5 DEF N


-----------------------------------------------------------------------------
(* The layers stored are those typed.                                      *)

\* Sorting neither loses nor invents a layer.
LEMMA SameLayersStored ==
  ASSUME NEW input \in SubmittedPlan
  PROVE  /\ \A k \in DOMAIN input.layers : \E j \in DOMAIN input.layers :
              SortedLayers(Typed(input))[k] = Typed(input)[j]
         /\ \A j \in DOMAIN input.layers : \E k \in DOMAIN input.layers :
              SortedLayers(Typed(input))[k] = Typed(input)[j]
<1> DEFINE N == Typed(input)
<1>1. PICK f : Sorts(f, N) /\ SortedLayers(N) = [k \in DOMAIN N |-> N[f[k]]]
  BY TypedLayers, LayersSorted
<1>2. f \in [DOMAIN N -> DOMAIN N] /\ \A j \in DOMAIN N : \E k \in DOMAIN N : f[k] = j
  BY <1>1, Fun_BijectionProperties DEF Sorts
<1>3. DOMAIN N = DOMAIN input.layers
  BY TypedLayers
<1> HIDE DEF N
<1> QED BY <1>1, <1>2, <1>3 DEF N

\* Where every layer takes some volume, a lot without volume is one no layer uses.
LEMMA VolumeUsed ==
  ASSUME NEW layers \in Seq(Layer), \A k \in DOMAIN layers : layers[k].target > 0, NEW lot
  PROVE  VolumeOfLot(layers, lot) # 0 <=> \E k \in DOMAIN layers : layers[k].lot = lot
<1> DEFINE K == DOMAIN layers
           v == [k \in K |-> layers[k].target]
           S == {k \in K : layers[k].lot = lot}
<1>1. VolumeOfLot(layers, lot) = SumFunctionOnSet(v, S)
  BY Zenon DEF VolumeOfLot
<1>2. IsFiniteSet(K)
  BY ListIsFinite
<1>3. S \in SUBSET K
  OBVIOUS
<1>4. \A k \in K : layers[k] \in Layer
  OBVIOUS
<1>5. \A k \in K : v[k] \in Nat /\ v[k] > 0
  BY <1>4 DEF Layer
<1> HIDE DEF K, v, S
<1>6. ASSUME NEW T \in SUBSET K
      PROVE  /\ SumFunctionOnSet(v, T) \in Nat /\ SumFunctionOnSet(v, {}) = 0
             /\ \A x \in T : SumFunctionOnSet(v, T) = v[x] + SumFunctionOnSet(v, T \ {x})
  <2>1. IsFiniteSet(T) /\ \A x \in T : v[x] \in Nat
    BY <1>2, <1>5, FS_Subset
  <2> QED BY <2>1, SumOfNaturals
<1>7. CASE S = {}
  BY <1>1, <1>3, <1>6, <1>7 DEF S, K
<1>8. ASSUME NEW x \in S PROVE SumFunctionOnSet(v, S) # 0
  <2>1. S \ {x} \in SUBSET K /\ x \in K
    BY <1>3
  <2>2. /\ SumFunctionOnSet(v, S) = v[x] + SumFunctionOnSet(v, S \ {x})
        /\ SumFunctionOnSet(v, S \ {x}) \in Nat
    BY <1>3, <1>6, <2>1
  <2> QED BY <1>5, <2>1, <2>2
<1>9. CASE S # {}
  BY <1>1, <1>8, <1>9 DEF S, K
<1> QED BY <1>7, <1>9
===============================================================================
