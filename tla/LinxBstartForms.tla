-------------------------- MODULE LinxBstartForms --------------------------
(***************************************************************************)
(* The block start markers of the instruction set, as the decoder           *)
(* (isa/sail/model/decode/decode.sail) presents them to exec_bstart.  Every *)
(* decoder arm sets four shadow registers: the target (the decoded label or *)
(* the marker's own pc), the block type, the transfer kind and the header   *)
(* contract.  A form is the record of those four values and of the transfer *)
(* kind in its assembler syntax ("mnem", from the arm's comment).           *)
(***************************************************************************)
EXTENDS Integers, Sequences

Form(mnem, xfer, tgt, type, contract) ==
  [mnem |-> mnem, xfer |-> xfer, tgt |-> tgt, type |-> type, contract |-> contract]

(* A form whose four shadows follow its assembler syntax. *)
WithLabel(xfer, type) == Form(xfer, xfer, "label", type, 0)
NoLabel(xfer, type)   == Form(xfer, xfer, "pc", type, 0)
FallThrough(type, contract) == Form("fall", "fall", "pc", type, contract)

XferKind == {"fall", "direct", "cond", "call", "ind", "icall", "ret"}

(* The BrType field of C.BSTART.FP and C.BSTART.STD. *)
DecodeBrType == <<"fall", "direct", "cond", "call", "ind", "icall", "ret">>

(* Block types, as the decoder numbers them. *)
STD == 0
SYS == 1
FP  == 2

(* 16-bit markers: the vector and system fall-through forms, and the forms *)
(* whose transfer kind is the BrType field (none of them carries a label). *)
CompressedForms ==
  {FallThrough(type, 1) : type \in 3 .. 6} \cup {FallThrough(SYS, 0)}
    \cup {NoLabel(DecodeBrType[b], type) : b \in 1 .. 7, type \in {STD, FP}}

(* C.BSTART COND and C.BSTART DIRECT. *)
CompressedLabelForms == {WithLabel("cond", STD), WithLabel("direct", STD)}

(* BSTART.MPAR, MSEQ, VPAR and VSEQ. *)
VectorForms == {FallThrough(type, 1) : type \in 3 .. 6}

(* BSTART.ACCCVT, TLOAD, TMATMUL(.ACC), TMOV and TSTORE. *)
TileForms ==
  {FallThrough(15, 5), FallThrough(8, 2), FallThrough(15, 4), FallThrough(10, 3), FallThrough(9, 2)}

(* BSTART.CUBE, FIXP and TMA with a function the tile forms leave free. *)
EngineForms == {FallThrough(type, 6) : type \in {11, 14, 12}}

(* BSTART.PAR; the arm of BSTART.TEPL below it tests the same bits and is   *)
(* never reached.                                                          *)
ParForms == {FallThrough(7, 6)}

(* BSTART.CALL with a return label, BSTART.FP, BSTART.STD and BSTART.SYS.   *)
(* The two ICALL arms store the transfer kind of a call.                   *)
WordForms ==
  {WithLabel(xfer, type) : xfer \in {"cond", "direct", "call", "fall"}, type \in {STD, FP}}
    \cup {NoLabel(xfer, type) : xfer \in {"ret", "ind"}, type \in {STD, FP}}
    \cup {Form("icall", "call", "pc", type, 0) : type \in {STD, FP}}
    \cup {WithLabel("fall", SYS)}

(* BSTART DIRECT and BSTART COND with a 25-bit label. *)
LongLabelForms == {WithLabel("direct", STD), WithLabel("cond", STD)}

(* HL.BSTART.FP, HL.BSTART.STD and HL.BSTART.SYS. *)
HlForms ==
  {WithLabel(xfer, type) : xfer \in {"cond", "fall", "call", "direct"}, type \in {STD, FP}}
    \cup {WithLabel("fall", SYS)}

(* HL.BSTART.CALL. *)
HlCallForms == {WithLabel("call", STD)}

AllForms ==
  CompressedForms \cup CompressedLabelForms \cup VectorForms \cup TileForms
    \cup EngineForms \cup ParForms \cup WordForms \cup LongLabelForms
    \cup HlForms \cup HlCallForms
=============================================================================
