------------------------------ MODULE PlanRules ------------------------------
(***************************************************************************)
(* Normalisation and preflight of a sealing plan: every blocking issue a   *)
(* submitted plan has against the case's locked baseline, and the plan     *)
(* that is stored when it has none.  A submitted plan has the fields of a  *)
(* plan of SealRules, with `lots' and `evidence' the sequences typed by    *)
(* the client; the stored one has sets in their place (sorted, unique).    *)
(***************************************************************************)
EXTENDS SealRules

Layer ==
  [seq : Int, from : Int, to : Int, stage : Text, lot : Text, target : Int,
   evidence : SUBSET Text]

SubmittedPlan ==
  [layers : Seq(Layer), lots : Seq(Text), evidence : Seq(Text), tolerance : Int,
   preparedBy : Text, reviewedBy : Text]

Trimmed(texts) == {Trim[texts[k]] : k \in DOMAIN texts}

NormalizedLayer(layer) ==
  [layer EXCEPT !.lot = Trim[@], !.stage = Trim[@], !.evidence = {Trim[e] : e \in @}]

LayerBefore(a, b) ==
  \/ a.seq < b.seq
  \/ a.seq = b.seq /\ a.from < b.from
  \/ a.seq = b.seq /\ a.from = b.from /\ a.to < b.to

\* Fault variant: the layers stay in the order they were typed in.
UnsortedLayers(layers) == layers

\* sort.Slice: layers that tie come in an order left open.
SortedLayers(layers) ==
  LET K     == DOMAIN layers
      order == CHOOSE f \in [K -> K] :
                 /\ \A j \in K : \E i \in K : f[i] = j
                 /\ \A i, j \in K : i < j => ~LayerBefore(layers[f[j]], layers[f[i]])
  IN  [k \in K |-> layers[order[k]]]

NormalizedPlan(input) ==
  [layers     |-> SortedLayers([k \in DOMAIN input.layers |-> NormalizedLayer(input.layers[k])]),
   lots       |-> Trimmed(input.lots),
   evidence   |-> Trimmed(input.evidence),
   tolerance  |-> input.tolerance,
   preparedBy |-> Trim[input.preparedBy],
   reviewedBy |-> Trim[input.reviewedBy]]

\* The digest covers the normalised plan without its id and time of locking.
PlanDigest(input) == NormalizedPlan(input)

\* Fault variant: entries are compared as they were typed.
RepeatsEarlierUntrimmed(texts, k) == \E j \in DOMAIN texts : j < k /\ texts[j] = texts[k]

RepeatsEarlier(texts, k) ==
  /\ Trim[texts[k]] # Blank
  /\ \E j \in DOMAIN texts : j < k /\ Trim[texts[j]] = Trim[texts[k]]

VolumeOfLot(layers, lot) ==
  SumFunctionOnSet([k \in DOMAIN layers |-> layers[k].target],
                   {k \in DOMAIN layers : layers[k].lot = lot})

HeaderIssues(p, input) == {
  [code |-> "prepared_by_required",    raised |-> p.preparedBy = Blank],
  [code |-> "reviewed_by_required",    raised |-> p.reviewedBy = Blank],
  [code |-> "role_separation",
     raised |-> p.preparedBy # Blank /\ p.preparedBy = p.reviewedBy],
  [code |-> "tolerance_invalid",       raised |-> p.tolerance \notin 0..(50 * Percent)],
  [code |-> "layers_required",         raised |-> p.layers = << >>],
  [code |-> "material_lot_empty",      raised |-> Blank \in p.lots],
  [code |-> "material_lot_duplicate",
     raised |-> \E k \in DOMAIN input.lots : RepeatsEarlier(input.lots, k)],
  [code |-> "evidence_type_empty",     raised |-> Blank \in p.evidence],
  [code |-> "evidence_type_duplicate",
     raised |-> \E k \in DOMAIN input.evidence : RepeatsEarlier(input.evidence, k)],
  [code |-> "evidence_required",       raised |-> p.evidence \ {Blank} = {}] }

LayerIssues(depth, p) ==
  LET L    == p.layers
      K    == DOMAIN L
      lots == p.lots \ {Blank}
  IN {
  [code |-> "sequence_discontinuous",  raised |-> \E k \in K : L[k].seq # k],
  [code |-> "depth_invalid",
     raised |-> \E k \in K : L[k].from < 0 \/ L[k].to <= L[k].from \/ L[k].to > depth],
  [code |-> "depth_gap",               raised |-> \E k \in K : k > 1 /\ L[k-1].to # L[k].from],
  [code |-> "stage_required",          raised |-> \E k \in K : IsBlank(L[k].stage)],
  [code |-> "target_volume_invalid",   raised |-> \E k \in K : L[k].target <= 0],
  [code |-> "material_lot_unregistered", raised |-> \E k \in K : L[k].lot \notin lots],
  [code |-> "coverage_incomplete",
     raised |-> K # {} /\ (L[1].from # 0 \/ L[Len(L)].to # depth)],
  [code |-> "material_lot_unused",     raised |-> \E m \in lots : VolumeOfLot(L, m) = 0] }

\* The codes of the issues found; every one of them blocks locking.
PlanIssues(depth, input) ==
  LET p == NormalizedPlan(input)
  IN  {t.code : t \in {i \in HeaderIssues(p, input) \cup LayerIssues(depth, p) : i.raised}}

CanLock(depth, input) == PlanIssues(depth, input) = {}

\* How SetPlan answers: a gate refusal outranks a list of invalid fields.
PlanVerdict(depth, input) ==
  LET issues == PlanIssues(depth, input)
      gates  == {"role_separation", "depth_gap", "coverage_incomplete"}
  IN  IF issues = {} THEN "locked" ELSE IF issues \cap gates # {} THEN "gate" ELSE "invalid"
=============================================================================
