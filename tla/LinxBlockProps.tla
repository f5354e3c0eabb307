--------------------------- MODULE LinxBlockProps ---------------------------
(***************************************************************************)
(* What block control must guarantee, and how it implements BlockStream.    *)
(***************************************************************************)
EXTENDS LinxBlock

Markers == IF MarkerStrict THEN MarkerTable ELSE {a \in Addr : a % 2 = 0}

(* The open block will never send control to a label that is no block start *)
(* marker: exec_bstart checks the label before it stores it, and nothing    *)
(* that happens before the commit can replace it.                           *)
NextTargetIsMarker == barg.valid => barg.bpcTgt \in Markers

(* A commit of a DIRECT, CALL or taken COND block lands on a block start    *)
(* marker, whichever instruction commits it and whatever the block executed *)
(* in between (SETC.TGT included).                                         *)
TransfersLandOnMarkers ==
  [][seqno' # seqno /\ TakesTarget /\ barg.xfer \in {"direct", "cond", "call"}
       => pc' \in Markers]_vars

(* The mandatory descriptor families of each header contract, and the order *)
(* in which a missing one is reported, as the ISA manual lists them         *)
(* (08_tile_blocks.adoc and 10_system_and_privilege.adoc).                  *)
Mandatory(kind) ==
  CASE kind = 1 -> {"dim", "text"}
    [] kind = 2 -> {"arg", "ior", "iot"}
    [] kind = 3 -> {"iot"}
    [] kind = 4 -> {"dim", "iot", "arg"}
    [] kind = 5 -> {"dim", "iot", "arg", "ior"}
    [] OTHER    -> {}

Priority == [arg |-> 1, text |-> 2, iot |-> 3, ior |-> 4, dim |-> 5]

(* BSTOP reports exactly the mandatory family of highest priority that the  *)
(* header lacks, an illegal B.TEXT before any missing family, and nothing   *)
(* when the header is complete.                                            *)
HeaderVerdict ==
  [][BStop =>
       LET missing == Mandatory(contract) \ seen
           first   == CHOOSE f \in missing : \A g \in missing : Priority[f] <= Priority[g]
       IN  IF contract \in 2 .. 6 /\ "text" \in seen
           THEN trap' = TrapBlockFmt("text", "illegal")
           ELSE IF missing # {} THEN trap' = TrapBlockFmt(first, "missing")
           ELSE trap' = trap]_vars

(* When a complete vector header ends, the lane mask enables exactly the    *)
(* lanes whose iteration exists: with DR the iterations of group LC1 of the *)
(* whole iteration space, without DR the first LB0 lanes.  Bounds and LC1   *)
(* are the low 32 bits of what B.DIM and SSRSET stored: a register that     *)
(* holds 2^32 is no bound of 2^32 iterations but one of none.  Groups       *)
(* beyond the iteration space are not dispatched.                           *)
MaskCoversGroup ==
  [][BStop /\ contract = 1 /\ {"dim", "text"} \subseteq seen =>
       LET bound  == [d \in 0 .. 2 |-> loop.lb[d] % DimMod]
           start  == (loop.lc1 % DimMod) * VecLength
           total  == bound[0] * AtLeast1(bound[1]) * AtLeast1(bound[2])
           wanted == IF loop.dr THEN {i \in Lanes : start + i < total}
                                ELSE {i \in Lanes : i < bound[0]}
       IN  (~loop.dr \/ start < total) => vecP' = wanted]_vars

-----------------------------------------------------------------------------
(* The registers that describe the open block, read as the block they       *)
(* describe; when no block is open their contents mean nothing.             *)
BlockOfRegisters ==
  IF barg.valid
  THEN [at |-> barg.bpcCur, kind |-> barg.xfer, label |-> barg.bpcTgt,
        cond |-> barg.carg # 0,
        sel |-> IF barg.tgtRegValid THEN barg.tgtReg ELSE -1,
        header |-> seen, imports |-> ri]
  ELSE [at |-> -1]

Stream == INSTANCE BlockStream WITH
  Marker <- Markers, Reg <- Gpr, Family <- Families,
  MaxImport <- MaxRi, RetireMod <- SeqMod,
  regs <- gpr, block <- BlockOfRegisters, retired <- seqno

(* Block control implements the block stream: nothing a block sets outlives *)
(* it, every opened block is retired once, and the registers of a closed    *)
(* block have no effect.                                                   *)
RefinesBlockStream == Stream!Spec
=============================================================================
