----------------------------- MODULE SealPromise -----------------------------
(***************************************************************************)
(* What a sealing case promises whoever reads its state: layers are sealed *)
(* from the surface down and stay sealed; construction pauses and resumes; *)
(* nothing is submitted for witnessing before every layer is sealed; a     *)
(* return goes through a hold; and an archived case never moves again.     *)
(* How layers are recorded, corrected, verified and disputed is left open. *)
(***************************************************************************)
EXTENDS Naturals

VARIABLES
  phase,    \* the state the case is in
  layers,   \* the layers its plan asks for
  sealed    \* the layers sealed so far

Init == phase = "draft" /\ layers = {} /\ sealed = {}

Step(from, to) == phase = from /\ phase' = to

FreezeBaseline == Step("draft", "baseline_locked") /\ UNCHANGED <<layers, sealed>>

AdoptPlan ==
  /\ phase = "baseline_locked"
  /\ layers' \subseteq Nat
  /\ UNCHANGED <<phase, sealed>>

Start == Step("baseline_locked", "sealing") /\ UNCHANGED <<layers, sealed>>

\* The layers sealed are always the top ones: none is skipped.
SealDown ==
  /\ phase = "sealing"
  /\ sealed \subseteq sealed' /\ sealed' \subseteq layers
  /\ \A n \in sealed', m \in layers : m < n => m \in sealed'
  /\ UNCHANGED <<phase, layers>>

Pause  == Step("sealing", "held") /\ UNCHANGED <<layers, sealed>>
Resume == Step("held", "sealing") /\ UNCHANGED <<layers, sealed>>

Submit ==
  /\ sealed = layers
  /\ Step("sealing", "verification")
  /\ UNCHANGED <<layers, sealed>>

Return  == Step("verification", "held") /\ UNCHANGED <<layers, sealed>>
Release == Step("verification", "released") /\ UNCHANGED <<layers, sealed>>
Archive == Step("released", "archived") /\ UNCHANGED <<layers, sealed>>

Next == FreezeBaseline \/ AdoptPlan \/ Start \/ SealDown \/ Pause \/ Resume
        \/ Submit \/ Return \/ Release \/ Archive

Spec == Init /\ [][Next]_<<phase, layers, sealed>>
=============================================================================
