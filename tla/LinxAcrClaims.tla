--------------------------- MODULE LinxAcrClaims ---------------------------
(***************************************************************************)
(* What the ISA manual and the comments of the Sail model say of the access *)
(* control rings and the code does not do.  README, section 8, has the      *)
(* configuration that shows each of them violated.                          *)
(***************************************************************************)
EXTENDS LinxAcrProps

(* A context switch preserves the block registers: the block that returns   *)
(* from its request has the condition it had.  Only the addresses are kept. *)
ReturnRestoresCondition ==
  [][cstate.acr \in Acr /\ asked[cstate.acr] # Nothing /\ Acre(0)
       => barg'.carg = asked[cstate.acr].context.carg]_histVars

(* ACRC saves the snapshot in the bank of the ring that will serve it: a    *)
(* system call of ACR2 in the bank of ACR1.  The code saves it in the       *)
(* caller's own bank.                                                      *)
RequestFillsManagingBank ==
  [][cstate.acr = 2 /\ Acrc(1)
       => bank'[1].cur = barg.bpcCur /\ bank'[1].tgt = barg.bpcTgt]_histVars

(* ACRC saves the address of the instruction that follows it.  The code     *)
(* saves tpc, which only commits and restores move.                        *)
RequestSavesFollowingPc ==
  [][\A type \in RequestTypes : Acrc(type) /\ cstate.acr \in Acr
       => bank'[cstate.acr].tpc > pc]_histVars

(* A bank register's identifier names the ring: 0x1F41 is ACR1's, also when *)
(* ACR0 writes it.  The code writes the bank of the current ring.           *)
IdentifierNamesBank ==
  [][cstate.acr = 0 /\ SsrSetBank(1, "cur") => bank'[0] = bank[0]]_histVars

(* The second operand of ESAVE is the length and the third the kind.  The   *)
(* code takes them the other way round.                                    *)
EsaveOperandOrder ==
  [][\A src0 \in ExtBase, len, kind \in ExtLen :
       Esave(src0, len, kind) /\ cstate.acr \in Acr
         => bank'[cstate.acr].len = MetaLen(len)]_histVars

(* A call that the permission rule refuses is not dispatched. *)
RefusedCallIsNotDispatched ==
  [][dispatch' # dispatch => trap' = trap]_histVars

(* An ACR-ID that names no ring is an illegal encoding.  The code looks at  *)
(* its low nibble only, so that 16 calls ACR0.                             *)
UnknownRingIsRefused ==
  [][\A id \in XbIds, cid \in 0 .. 1 :
       Xb(id, cid) /\ id \notin Acr => UNCHANGED dispatch]_histVars
=============================================================================
