---------------------------- MODULE MCGateReport ----------------------------
(* Constants of the model-checking runs of GateReport: two runs of the pin  *)
(* lane and one of the external lane; gates that run, a gate skipped by      *)
(* policy and the glibc gate, which may be waived.                          *)
EXTENDS GateReportClaims

TwoLanes == {[lane |-> "pin", id |-> 1], [lane |-> "pin", id |-> 2],
             [lane |-> "external", id |-> 1]}

GateOf(gate, required, kind) == [gate |-> gate, required |-> required, kind |-> kind]

TwoGates == << GateOf("opcode sync", TRUE, "run"), GateOf("perf floor", FALSE, "skip") >>

OneRunEach == {[lane |-> "pin", id |-> 1], [lane |-> "external", id |-> 1]}

DevGates == << GateOf("glibc G1b", TRUE, "g1b") >>
=============================================================================
