----------------------------- MODULE MCLinxAcr -----------------------------
(* Constants of the model-checking runs of LinxAcr. *)
EXTENDS LinxAcrClaims

(* One conditional block with a label. *)
CondForm == {WithLabel("cond", STD)}

(* One block that falls through. *)
FallForm == {NoLabel("fall", STD)}

(* Software moves between rings 0 and 1. *)
TwoRings == {[acr |-> a, bi |-> FALSE, rest |-> 0] : a \in {0, 1}}

(* Software may also name a ring that has no bank. *)
UnbankedRing == {[acr |-> a, bi |-> FALSE, rest |-> 0] : a \in {1, 3}}

(* Software runs in rings 0 and 2. *)
UserRing == {[acr |-> a, bi |-> FALSE, rest |-> 0] : a \in {0, 2}}

NoCalls == {}

OneEntry == {<<1, 0>>}
=============================================================================
