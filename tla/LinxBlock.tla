----------------------------- MODULE LinxBlock -----------------------------
(***************************************************************************)
(* Block control of the LinxISA Sail model: the BARG registers that describe *)
(* the open block, the descriptors of its header, and the instructions that *)
(* open, describe and commit a block (isa/sail/model/state/state.sail and   *)
(* isa/sail/model/execute/execute.sail).                                    *)
(*                                                                          *)
(* A program is whatever sequence of instructions the fetch stream delivers: *)
(* Next may execute any instruction at any time, inside a block or between  *)
(* two.  Raising a trap only records it (raise_trap), so the sequence goes  *)
(* on after a trap exactly as the model's code does.                        *)
(***************************************************************************)
EXTENDS LinxBstartForms, Sequences

CONSTANTS
  Addr,           \* instruction addresses
  MarkerStrict,   \* block_marker_strict
  MarkerTable,    \* the addresses in the valid block_markerN_pc registers
  Gpr,            \* numbers of the general registers that hold a value
  Forms,          \* the block start markers that occur in the program
  Descs,          \* the descriptors and loop-register writes in the program
  Dims,           \* values a B.DIM may give a loop bound
  DimMod,         \* loop bounds and LC1 are read modulo this, 2^32 in the code
  VecLength,      \* lanes of a group (vec_length_from_lcfr), 64 in the code
  MaxRi,          \* ri bindings of a header, 32 in the code
  SeqMod          \* barg_commit_seqno counts modulo this, 2^64 in the code

Families == {"dim", "text", "arg", "ior", "iot"}

ASSUME AddrAssumption    == Addr \subseteq Nat /\ 0 \in Addr
ASSUME MarkerAssumption  == MarkerStrict \in BOOLEAN /\ MarkerTable \subseteq Addr
ASSUME GprAssumption     == Gpr \subseteq Nat \ {0}
ASSUME FormsAssumption   == Forms \subseteq AllForms
ASSUME DescsAssumption   == Descs \subseteq Families \cup {"catr", "lc1"}
ASSUME DimsAssumption    == Dims \subseteq Nat
ASSUME BoundsAssumption  == /\ DimMod \in Nat \ {0}
                            /\ VecLength \in Nat \ {0}
                            /\ MaxRi \in Nat
                            /\ SeqMod \in Nat \ {0}

VARIABLES
  pc, tpc,
  gpr,            \* gpr1 .. gpr31
  barg,           \* barg_valid, barg_xfer_kind_cur, barg_bpc_cur, barg_bpc_tgt, ...
  last,           \* barg_last_committed_bpc, barg_last_committed_target
  seqno,          \* barg_commit_seqno
  contract,       \* decoded_block_contract_kind_shadow
  seen,           \* the families whose bdesc_seen_* is set
  ri,             \* the ri_select registers bound so far, in order
  loop,           \* ssr_lb0 .. ssr_lb2, ssr_lc1 and the DR bit of bcatr_raw
  vecP,           \* vec_p: the set of active lanes
  trap            \* the last trap recorded

vars == <<pc, tpc, gpr, barg, last, seqno, contract, seen, ri, loop, vecP, trap>>

header == <<seen, ri>>
flow   == <<pc, tpc, last, seqno>>

Lanes == 0 .. VecLength - 1

NoTrap == [kind |-> "none"]
TrapCfi(src) == [kind |-> "cfi", arg |-> src]
TrapBlockFmt(family, detail) == [kind |-> "blockfmt", family |-> family, detail |-> detail]

Traps ==
  {NoTrap} \cup {TrapCfi(a) : a \in Addr}
    \cup {TrapBlockFmt(f, d) : f \in Families, d \in {"missing", "illegal"}}

TypeOK ==
  /\ pc \in Addr /\ tpc \in Addr
  /\ gpr \in [Gpr -> Addr]
  /\ barg \in [valid : BOOLEAN, type : 0 .. 15, xfer : XferKind,
               bpcCur : Addr, bpcTgt : Addr, carg : {0, 1},
               tgtRegValid : BOOLEAN, tgtReg : Gpr \cup {0}]
  /\ last \in [from : Addr, to : Addr]
  /\ seqno \in 0 .. SeqMod - 1
  /\ contract \in 0 .. 6
  /\ seen \subseteq Families
  /\ ri \in Seq(Gpr) /\ Len(ri) <= MaxRi
  /\ loop \in [lb : [0 .. 2 -> Nat], lc1 : Nat, dr : BOOLEAN]
  /\ vecP \subseteq Lanes
  /\ trap \in Traps

-----------------------------------------------------------------------------
(* Registers and markers *)

ReadReg(r) == IF r = 0 THEN 0 ELSE gpr[r]

(* Mutant: the marker table is not consulted. *)
IsBlockStartMarker_NeverStrict(a) == a % 2 = 0

IsBlockStartMarker(a) == IF MarkerStrict THEN a \in MarkerTable ELSE a % 2 = 0

-----------------------------------------------------------------------------
(* Commit boundary *)

(* Mutant: the condition of the previous block survives. *)
BargAtStart_KeepsArgument(at, form, target) ==
  [barg EXCEPT !.valid = TRUE, !.type = form.type, !.xfer = form.xfer,
   !.bpcCur = at, !.bpcTgt = target, !.tgtRegValid = FALSE, !.tgtReg = 0]

(* barg_reset_at_block_start, followed by the three stores of exec_bstart   *)
(* that fill in the new block's type, transfer kind and target.             *)
BargAtStart(at, form, target) ==
  [valid |-> TRUE, type |-> form.type, xfer |-> form.xfer,
   bpcCur |-> at, bpcTgt |-> target, carg |-> 0,
   tgtRegValid |-> FALSE, tgtReg |-> 0]

TakesTarget ==
  \/ barg.xfer \in {"direct", "call"}
  \/ barg.xfer = "cond" /\ barg.carg # 0
  \/ barg.xfer \in {"ind", "icall", "ret"} /\ barg.tgtRegValid

(* Mutant: a selected register overrides the label of any block. *)
CommitTarget_PrefersRegister ==
  IF barg.tgtRegValid THEN ReadReg(barg.tgtReg) ELSE barg.bpcTgt

CommitTarget ==
  IF barg.xfer \in {"ind", "icall", "ret"} THEN ReadReg(barg.tgtReg) ELSE barg.bpcTgt

(* block_commit_boundary; its last store, barg_valid = false, is made by    *)
(* the two instructions that call it.                                       *)
CommitBoundary ==
  IF barg.valid
  THEN /\ last' = [from |-> barg.bpcCur,
                   to   |-> IF TakesTarget THEN CommitTarget ELSE barg.bpcCur]
       /\ seqno' = (seqno + 1) % SeqMod
       /\ IF TakesTarget THEN pc' = CommitTarget /\ tpc' = CommitTarget
                         ELSE UNCHANGED <<pc, tpc>>
  ELSE UNCHANGED flow

-----------------------------------------------------------------------------
(* Header validation *)

(* What a header needs, and in which order the code looks for it. *)
CheckOrder(kind) ==
  CASE kind = 1 -> <<"text", "dim">>
    [] kind = 2 -> <<"arg", "iot", "ior">>
    [] kind = 3 -> <<"iot">>
    [] kind = 4 -> <<"arg", "iot", "dim">>
    [] kind = 5 -> <<"arg", "iot", "ior", "dim">>
    [] OTHER    -> <<>>

TextIsIllegal(kind) == kind \in 2 .. 6

(* Mutant: the checks run in the opposite order. *)
FirstMissing_Last(order, present) ==
  LET absent == {i \in 1 .. Len(order) : order[i] \notin present}
  IN  order[CHOOSE i \in absent : \A j \in absent : i >= j]

FirstMissing(order, present) ==
  LET absent == {i \in 1 .. Len(order) : order[i] \notin present}
  IN  order[CHOOSE i \in absent : \A j \in absent : i <= j]

HeaderTrap(kind, present) ==
  IF TextIsIllegal(kind) /\ "text" \in present THEN TrapBlockFmt("text", "illegal")
  ELSE IF \A i \in 1 .. Len(CheckOrder(kind)) : CheckOrder(kind)[i] \in present THEN NoTrap
  ELSE TrapBlockFmt(FirstMissing(CheckOrder(kind), present), "missing")

(* vec_init_p_for_group: the lanes of a group that have an iteration to run. *)
AtLeast1(n) == IF n = 0 THEN 1 ELSE n

(* Mutant: all 64 bits count. *)
Low_Whole(n) == n

(* B.DIM stores all 64 bits of a register; what counts are its low 32.      *)
Low(n) == n % DimMod

Iterations(lb) == Low(lb[0]) * AtLeast1(Low(lb[1])) * AtLeast1(Low(lb[2]))

(* Mutant: the number of groups is rounded down. *)
VecMask_RoundsDown(lb, dr, lc1) ==
  LET rem == Iterations(lb) % VecLength
  IN  IF ~dr THEN {i \in Lanes : i < Low(lb[0])}
      ELSE IF Low(lc1) = Iterations(lb) \div VecLength - 1 /\ rem # 0 THEN 0 .. rem - 1
      ELSE Lanes

VecMask(lb, dr, lc1) ==
  LET groups == (Iterations(lb) + VecLength - 1) \div VecLength
      rem    == Iterations(lb) % VecLength
  IN  IF ~dr THEN {i \in Lanes : i < Low(lb[0])}
      ELSE IF Low(lc1) = groups - 1 /\ rem # 0 THEN 0 .. rem - 1
      ELSE Lanes

ValidateHeader ==
  LET verdict == HeaderTrap(contract, seen)
  IN  /\ trap' = IF verdict = NoTrap THEN trap ELSE verdict
      /\ vecP' = IF contract = 1 /\ verdict = NoTrap
                 THEN VecMask(loop.lb, loop.dr, loop.lc1) ELSE vecP

-----------------------------------------------------------------------------
(* Instructions *)

Init ==
  /\ pc = 0 /\ tpc = 0
  /\ gpr = [r \in Gpr |-> 0]
  /\ barg = [valid |-> FALSE, type |-> 0, xfer |-> "fall", bpcCur |-> 0, bpcTgt |-> 0,
             carg |-> 0, tgtRegValid |-> FALSE, tgtReg |-> 0]
  /\ last = [from |-> 0, to |-> 0]
  /\ seqno = 0
  /\ contract = 0
  /\ seen = {}
  /\ ri = <<>>
  /\ loop = [lb |-> [i \in 0 .. 2 |-> 0], lc1 |-> 0, dr |-> FALSE]
  /\ vecP = Lanes
  /\ trap = NoTrap

(* A label is a halfword offset from the pc of the marker. *)
Targets(form) ==
  IF form.tgt = "pc" THEN {pc} ELSE {a \in Addr : (a - pc) % 2 = 0}

BdescReset == seen' = {} /\ ri' = <<>>

(* A marker whose target is no block start is refused; the decoder has      *)
(* stored the marker's shadows by then.                                     *)
RefuseBStart(form, target) ==
  /\ ~IsBlockStartMarker(target)
  /\ contract' = form.contract
  /\ trap' = TrapCfi(pc)
  /\ UNCHANGED <<flow, gpr, barg, header, loop, vecP>>

(* A marker commits the open block and opens the next one, at the pc the    *)
(* commit has left.                                                         *)
AcceptBStart(form, target) ==
  /\ IsBlockStartMarker(target)
  /\ CommitBoundary
  /\ barg' = BargAtStart(pc', form, target)
  /\ contract' = form.contract
  /\ BdescReset
  /\ UNCHANGED <<gpr, loop, vecP, trap>>

BStart ==
  \E form \in Forms : \E target \in Targets(form) :
    RefuseBStart(form, target) \/ AcceptBStart(form, target)

BStop ==
  /\ ValidateHeader
  /\ CommitBoundary
  /\ barg' = [barg EXCEPT !.valid = FALSE]
  /\ UNCHANGED <<gpr, contract, header, loop>>

SetC ==
  /\ \E v \in {0, 1} : barg' = [barg EXCEPT !.carg = v]
  /\ UNCHANGED <<flow, gpr, contract, header, loop, vecP, trap>>

SetCTgt ==
  /\ \E r \in Gpr \cup {0} : barg' = [barg EXCEPT !.tgtRegValid = TRUE, !.tgtReg = r]
  /\ UNCHANGED <<flow, gpr, contract, header, loop, vecP, trap>>

(* B.DIM gives one loop bound its value; index 3 names none of them. *)
BDim ==
  /\ "dim" \in Descs
  /\ \E idx \in 0 .. 3, v \in Dims :
       loop' = IF idx = 3 THEN loop ELSE [loop EXCEPT !.lb[idx] = v]
  /\ seen' = seen \cup {"dim"}
  /\ UNCHANGED <<flow, gpr, barg, contract, ri, vecP, trap>>

(* B.TEXT, B.ARG and B.IOT mark their family and do nothing else. *)
BMark ==
  /\ \E family \in {"text", "arg", "iot"} \cap Descs : seen' = seen \cup {family}
  /\ UNCHANGED <<flow, gpr, barg, contract, ri, loop, vecP, trap>>

(* Mutant: the binding count has no limit. *)
Bind_Unlimited(bound, r) == IF r = 0 THEN bound ELSE Append(bound, r)

(* allocate_ri_binding, for a register that is not zero. *)
Bind(bound, r) == IF r = 0 \/ Len(bound) = MaxRi THEN bound ELSE Append(bound, r)

BIor(src0, src1, src2) ==
  /\ "ior" \in Descs
  /\ ri' = Bind(Bind(Bind(ri, src1), src0), src2)
  /\ seen' = seen \cup {"ior"}
  /\ UNCHANGED <<flow, gpr, barg, contract, loop, vecP, trap>>

BCatr ==
  /\ "catr" \in Descs
  /\ \E d \in BOOLEAN : loop' = [loop EXCEPT !.dr = d]
  /\ UNCHANGED <<flow, gpr, barg, contract, header, vecP, trap>>

(* SSRSET to LC1, the number of the group that is dispatched next. *)
SsrSetLc1 ==
  /\ "lc1" \in Descs
  /\ \E v \in Dims : loop' = [loop EXCEPT !.lc1 = v]
  /\ UNCHANGED <<flow, gpr, barg, contract, header, vecP, trap>>

(* A payload instruction that writes a general register. *)
WriteReg ==
  /\ \E r \in Gpr, v \in Addr : gpr' = [gpr EXCEPT ![r] = v]
  /\ UNCHANGED <<flow, barg, contract, header, loop, vecP, trap>>

(* The fetch machinery around the model advances pc to the next instruction. *)
Fetch ==
  /\ pc' \in Addr
  /\ UNCHANGED <<tpc, gpr, barg, last, seqno, contract, header, loop, vecP, trap>>

Next ==
  \/ BStart \/ BStop \/ SetC \/ SetCTgt
  \/ BDim \/ BMark \/ BCatr \/ SsrSetLc1
  \/ \E src0, src1, src2 \in Gpr \cup {0} : BIor(src0, src1, src2)
  \/ WriteReg \/ Fetch

Spec == Init /\ [][Next]_vars
=============================================================================
