-------------------------- MODULE LinxBlockClaims --------------------------
(***************************************************************************)
(* What the ISA manual and the comments of the Sail model say of block      *)
(* control and the code does not do.  README, section 8, has the            *)
(* configuration that shows each of them violated.                          *)
(***************************************************************************)
EXTENDS LinxBlockProps

(* "if the condition is true: branch to label, otherwise: fall through to   *)
(* the next sequential block": a taken transfer leaves no block open, since *)
(* the next block is the one at the target.  The code opens the sequential  *)
(* BSTART's block all the same, at the target's address.                   *)
TakenTransferSkipsTheSequentialBlock ==
  [][seqno' # seqno /\ TakesTarget /\ CommitTarget # pc => ~barg'.valid]_vars

(* Every control-flow target, an indirect one included, must be a block     *)
(* start marker.  The code checks labels, never a register's value.        *)
EveryTransferLandsOnMarker ==
  [][seqno' # seqno /\ TakesTarget => pc' \in Markers]_vars

(* In a program whose markers are all ICALL, SETC.TGT selects the target.   *)
(* The 32-bit ICALL forms are decoded as CALL, which ignores the register.  *)
IcallUsesSelectedRegister ==
  [][seqno' # seqno /\ barg.tgtRegValid => pc' = ReadReg(barg.tgtReg)]_vars

(* A header is validated at BSTOP or at the next BSTART, whichever ends the *)
(* block.  Only BSTOP does it.                                             *)
EveryCommitValidatesHeader ==
  [][seqno' # seqno /\ HeaderTrap(contract, seen) # NoTrap
       => trap' = HeaderTrap(contract, seen)]_vars

(* A block-format trap is precise: the block has no effect.  BSTOP commits  *)
(* the block after it has recorded the trap.                               *)
BadHeaderDoesNotCommit ==
  [][BStop /\ HeaderTrap(contract, seen) # NoTrap => UNCHANGED <<flow, barg>>]_vars

(* A control-flow trap is precise: a refused marker leaves the open block   *)
(* as it was.  The decoder has replaced its header contract by then.       *)
RefusedMarkerKeepsContract ==
  [][barg.valid /\ trap' # trap /\ trap'.kind = "cfi" => contract' = contract]_vars

(* A B.IOR descriptor binds its registers in the order of its fields.  The  *)
(* code binds RegSrc1 first.                                               *)
ImportsInFieldOrder ==
  [][\A src0, src1, src2 \in Gpr \cup {0} :
       BIor(src0, src1, src2) => ri' = Bind(Bind(Bind(ri, src0), src1), src2)]_vars

(* Block metadata is reset at block start.  The attributes of B.CATR are    *)
(* not: a block without a B.CATR runs with those of an earlier block.      *)
MetadataResetAtStart ==
  [][barg.valid /\ BStart /\ trap' = trap => ~loop'.dr]_vars
=============================================================================
