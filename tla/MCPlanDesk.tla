----------------------------- MODULE MCPlanDesk -----------------------------
(***************************************************************************)
(* All pairs of layers over a well of depth 2, in either order, with the   *)
(* header fields varied one at a time.                                     *)
(***************************************************************************)
EXTENDS PlanDesk

MCText == {"", " ", "ana", "ana ", "bo", "lot", "lot ", "other", "clay", "clay ", "photo", "photo "}
MCTrim == [t \in MCText |-> CASE t = " " -> "" [] t = "ana " -> "ana" [] t = "lot " -> "lot"
                              [] t = "clay " -> "clay" [] t = "photo " -> "photo"
                              [] OTHER -> t]

MCLayer(seq, from, to) ==
  [seq |-> seq, from |-> from, to |-> to, stage |-> "clay ", lot |-> "lot ", target |-> 5,
   evidence |-> {"photo "}]

MCLayers == {MCLayer(seq, from, to) : seq \in 0..2, from \in -1..2, to \in 0..3}

Top    == MCLayer(1, 0, 1)
Bottom == MCLayer(2, 1, 2)

Form(layers, lots, evidence, tolerance, prepared, reviewed) ==
  [layers |-> layers, lots |-> lots, evidence |-> evidence, tolerance |-> tolerance,
   preparedBy |-> prepared, reviewedBy |-> reviewed]

Layout(layers) == Form(layers, <<"lot">>, <<"photo">>, 10 * Percent, "ana", "bo")
Header(lots, evidence, tolerance, prepared, reviewed) ==
  Form(<<Bottom, Top>>, lots, evidence, tolerance, prepared, reviewed)

MCPlanInput ==
  {Layout(layers) : layers \in BoundedSeq(MCLayers, 2)}
  \cup {Layout(<<Bottom, [Top EXCEPT !.target = 0]>>), Layout(<<Bottom, [Top EXCEPT !.stage = " "]>>),
        Layout(<<Bottom, [Top EXCEPT !.lot = "other"]>>), Layout(<<Bottom, [Top EXCEPT !.evidence = {}]>>)}
  \cup {Header(lots, <<"photo">>, 10 * Percent, "ana", "bo") :
          lots \in {<< >>, <<"lot", "lot ">>, <<"lot", "other">>, <<"lot", " ">>}}
  \cup {Header(<<"lot">>, evidence, 10 * Percent, "ana", "bo") :
          evidence \in {<< >>, <<" ">>, <<"photo", "photo ">>, <<"photo", "clay">>}}
  \cup {Header(<<"lot">>, <<"photo">>, t, "ana", "bo") : t \in {-1, 0, 50 * Percent, 50 * Percent + 1}}
  \cup {Header(<<"lot">>, <<"photo">>, 10 * Percent, p, r) :
          p \in {"ana", "ana ", " "}, r \in {"ana", "bo", ""}}
=============================================================================
