---------------------------- MODULE MCLinxBlock ----------------------------
(* Constants of the model-checking runs of LinxBlock. *)
EXTENDS LinxBlockClaims

(* One scalar block type; every transfer kind, with and without a label. *)
ScalarForms == {f \in AllForms : f.type = STD}

(* One marker for each header contract. *)
HeaderForms ==
  {FallThrough(3, 1), FallThrough(8, 2), FallThrough(10, 3), FallThrough(15, 4), FallThrough(15, 5), FallThrough(11, 6), NoLabel("fall", STD)}

(* The 32-bit ICALL marker. *)
IcallForms == {f \in AllForms : f.type = STD /\ f.mnem = "icall" /\ f \in WordForms}

(* Two kinds of states are explored for headers, which need different parts *)
(* of the state: every order of descriptors with the first loop bounds, and *)
(* every loop bound and group of a vector header without operands.  What    *)
(* decides the transfer of a block stays as it is.                          *)
HeadersOrGroups ==
  /\ ~barg.tgtRegValid /\ barg.carg = 0
  /\ \/ loop = [lb |-> [i \in 0 .. 2 |-> 0], lc1 |-> 0, dr |-> FALSE]
     \/ barg.type \in {0, 3} /\ seen \subseteq {"dim", "text"} /\ ri = <<>>
=============================================================================
