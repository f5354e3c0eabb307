---------------------------- MODULE MCLinxMemory ----------------------------
(* The parts of the Sail model that use memory in several steps or from      *)
(* several actors: vector queues, frame and bulk templates, atomic           *)
(* operations.  They share no state: a behaviour is one of them, and the     *)
(* others wait.                                                              *)
EXTENDS VecQueue, LinxTemplates, LinxAtomics

VARIABLE part

memoryVars == <<part, queueVars, templateVars, atomicVars>>

CONSTANTS ring0, ring1      \* the two rings

Ring(h, t, c) == [head |-> h, tail |-> t, cap |-> c]

(* One ring of two elements, once prepared with words beyond its capacity   *)
(* that wrap; and one of one element, of none, and without a capacity.      *)
Rings ==
  {[r \in Queue |-> IF r = ring0 THEN a ELSE b] :
     a \in {Ring(4, 7, 3), Ring(0, 5, 3)}, b \in {Ring(0, 1, 2), Ring(3, 3, 1), Ring(1, 0, 0)}}

(* A plain range, one with zero and sp in it, and an empty one. *)
Ranges == {<<2, 3>>, <<0, 2>>, <<3, 2>>}

(* Two counters in lines of their own, and a lock in the line of the first. *)
Lines == [c \in Cell |-> IF c = "far" THEN "line1" ELSE "line0"]

(* Outside its part, a component has one of its initial states. *)
QueuesWait == ring = [r \in Queue |-> [head |-> 0, tail |-> 0, cap |-> 0, data |-> <<>>]]
              /\ lb0 = 0 /\ dst = [i \in 0 .. VLEN - 1 |-> 0]
TemplatesWait == \A r \in 2 .. NumRegs - 1 : gpr[r] = 62

MemoryInit ==
  /\ part \in {"queues", "templates", "atomics"}
  /\ IF part = "queues" THEN QueueInit ELSE QueuesWait
  /\ TemplateInit /\ (part # "templates" => TemplatesWait)
  /\ AtomicInit

QueuePart == part = "queues" /\ QueueNext /\ UNCHANGED <<part, templateVars, atomicVars>>
TemplatePart == part = "templates" /\ TemplateNext /\ UNCHANGED <<part, queueVars, atomicVars>>
AtomicPart == part = "atomics" /\ AtomicNext /\ UNCHANGED <<part, queueVars, templateVars>>

MemoryNext == QueuePart \/ TemplatePart \/ AtomicPart

MemorySpec == MemoryInit /\ [][MemoryNext]_memoryVars

(* The types of the rings, of registers and memory (sp where the frames say *)
(* it is), and of contexts and cells.                                       *)
MemoryTypeOK == QueueTypeOK /\ TemplateTypeOK /\ AtomicTypeOK
=============================================================================
