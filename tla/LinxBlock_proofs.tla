-------------------------- MODULE LinxBlock_proofs --------------------------
(***************************************************************************)
(* Block control, for every set of addresses, markers, registers and forms: *)
(* type correctness, transfers that land on markers, the verdict on a header, *)
(* the lanes of a group, and the implementation of BlockStream.             *)
(***************************************************************************)
EXTENDS LinxBlockProps, TLAPS

(* Every form the decoder produces is well typed. *)
LEMMA FormTypes ==
  \A f \in Forms : /\ f.xfer \in XferKind
                   /\ f.tgt \in {"pc", "label"}
                   /\ f.type \in 0 .. 15
                   /\ f.contract \in 0 .. 6
<1>1. \A b \in 1 .. 7 : DecodeBrType[b] \in XferKind
  BY DEF DecodeBrType, XferKind
<1>. DEFINE Typed(f) == /\ f.xfer \in XferKind
                        /\ f.tgt \in {"pc", "label"}
                        /\ f.type \in 0 .. 15
                        /\ f.contract \in 0 .. 6
<1>2. \A f \in CompressedForms : Typed(f)
  BY <1>1 DEF CompressedForms, FallThrough, NoLabel, Form, SYS, STD, FP, XferKind
<1>3. \A f \in CompressedLabelForms \cup LongLabelForms \cup HlCallForms : Typed(f)
  BY DEF CompressedLabelForms, LongLabelForms, HlCallForms, WithLabel, Form, STD, XferKind
<1>4. \A f \in VectorForms \cup TileForms \cup EngineForms \cup ParForms : Typed(f)
  BY DEF VectorForms, TileForms, EngineForms, ParForms, FallThrough, Form, XferKind
<1>5. \A f \in WordForms \cup HlForms : Typed(f)
  BY DEF WordForms, HlForms, WithLabel, NoLabel, Form, SYS, STD, FP, XferKind
<1>. QED
  BY <1>2, <1>3, <1>4, <1>5, FormsAssumption DEF AllForms

(* A marker of the strict table, or an even address. *)
LEMMA MarkerIsMarker == \A a \in Addr : IsBlockStartMarker(a) <=> a \in Markers
BY MarkerAssumption DEF IsBlockStartMarker, Markers

LEMMA MarkersAreAddresses == Markers \subseteq Addr
BY MarkerAssumption DEF Markers

(* A nonempty set of positions has a first one. *)
LEMMA FirstPosition ==
  ASSUME NEW S \in SUBSET (1 .. 4), S # {}
  PROVE  \E i \in S : \A j \in S : i <= j
<1>1. CASE 1 \in S
  BY <1>1
<1>2. CASE 1 \notin S /\ 2 \in S
  BY <1>2
<1>3. CASE 1 \notin S /\ 2 \notin S /\ 3 \in S
  BY <1>3
<1>4. CASE 1 \notin S /\ 2 \notin S /\ 3 \notin S
  <2>1. \A i \in S : i = 4
    BY <1>4
  <2>2. 4 \in S
    BY <2>1
  <2>. QED
    BY <2>1, <2>2
<1>. QED
  BY <1>1, <1>2, <1>3, <1>4

(* Each contract checks at most four families. *)
LEMMA CheckOrderType ==
  ASSUME NEW kind \in 0 .. 6
  PROVE  /\ CheckOrder(kind) \in Seq(Families)
         /\ Len(CheckOrder(kind)) \in 0 .. 4
<1>1. CASE kind = 1
  BY <1>1 DEF CheckOrder, Families
<1>2. CASE kind = 2
  BY <1>2 DEF CheckOrder, Families
<1>3. CASE kind = 3
  BY <1>3 DEF CheckOrder, Families
<1>4. CASE kind = 4
  BY <1>4 DEF CheckOrder, Families
<1>5. CASE kind = 5
  <2>1. CheckOrder(kind) = <<"arg", "iot", "ior", "dim">>
    BY <1>5 DEF CheckOrder
  <2>. QED
    BY <2>1 DEF Families
<1>6. CASE kind \in {0, 6}
  BY <1>6 DEF CheckOrder, Families
<1>. QED
  BY <1>1, <1>2, <1>3, <1>4, <1>5, <1>6

(* The verdict on a header is a trap, or none. *)
LEMMA HeaderTrapType ==
  ASSUME NEW kind \in 0 .. 6, NEW present
  PROVE  HeaderTrap(kind, present) \in Traps
<1>. DEFINE order == CheckOrder(kind)
            absent == {i \in 1 .. Len(order) : order[i] \notin present}
<1>1. order \in Seq(Families) /\ Len(order) \in 0 .. 4
  BY CheckOrderType
<1>2. ASSUME absent # {}
      PROVE  FirstMissing(order, present) \in Families
  <2>1. absent \in SUBSET (1 .. 4)
    BY <1>1
  <2>2. \E i \in absent : \A j \in absent : i <= j
    BY <2>1, <1>2, FirstPosition
  <2>. DEFINE first == CHOOSE i \in absent : \A j \in absent : i <= j
  <2>3. first \in absent
    BY <2>2
  <2>4. order[first] \in Families
    BY <2>3, <1>1
  <2>. QED
    BY <2>4 DEF FirstMissing
<1>3. CASE \A i \in 1 .. Len(order) : order[i] \in present
  BY <1>3 DEF HeaderTrap, Traps, TrapBlockFmt, Families
<1>4. CASE absent # {}
  <2>1. FirstMissing(order, present) \in Families
    BY <1>4, <1>2
  <2>. QED
    BY <2>1, <1>4 DEF HeaderTrap, Traps, TrapBlockFmt, Families
<1>. QED
  BY <1>3, <1>4

(* The low bits of a number are a number. *)
LEMMA LowType ==
  ASSUME NEW n \in Nat
  PROVE  Low(n) \in Nat
BY BoundsAssumption DEF Low

LEMMA IterationsType ==
  ASSUME NEW lb \in [0 .. 2 -> Nat]
  PROVE  Low(lb[0]) \in Nat /\ Iterations(lb) \in Nat
<1>1. \A i \in 0 .. 2 : Low(lb[i]) \in Nat /\ AtLeast1(Low(lb[i])) \in Nat
  BY LowType DEF AtLeast1
<1>2. Low(lb[0]) \in Nat /\ AtLeast1(Low(lb[1])) \in Nat /\ AtLeast1(Low(lb[2])) \in Nat
  BY <1>1
<1>3. Low(lb[0]) * AtLeast1(Low(lb[1])) \in Nat
  BY <1>2
<1>. QED
  BY <1>2, <1>3 DEF Iterations

(* The lane mask is a set of lanes. *)
LEMMA VecMaskType ==
  ASSUME NEW lb \in [0 .. 2 -> Nat], NEW dr, NEW lc1
  PROVE  VecMask(lb, dr, lc1) \subseteq Lanes
<1>. DEFINE rem == Iterations(lb) % VecLength
<1>1. rem \in 0 .. VecLength - 1
  BY IterationsType, BoundsAssumption
<1>2. 0 .. rem - 1 \subseteq Lanes
  <2>. HIDE DEF rem
  <2>. QED
    BY <1>1, BoundsAssumption DEF Lanes
<1>. QED
  BY <1>2 DEF VecMask

(* What a commit leaves in pc, tpc, last and seqno. *)
LEMMA CommitType ==
  ASSUME TypeOK, CommitBoundary
  PROVE  pc' \in Addr /\ tpc' \in Addr /\ last' \in [from : Addr, to : Addr]
         /\ seqno' \in 0 .. SeqMod - 1
<1>1. CommitTarget \in Addr
  BY AddrAssumption DEF TypeOK, CommitTarget, ReadReg
<1>2. (seqno + 1) % SeqMod \in 0 .. SeqMod - 1
  BY BoundsAssumption DEF TypeOK
<1>. QED
  BY <1>1, <1>2 DEF CommitBoundary, TypeOK, flow

(* Binding a register keeps the bindings within their bound. *)
LEMMA BindType ==
  ASSUME NEW s \in Seq(Gpr), Len(s) <= MaxRi, NEW r \in Gpr \cup {0}
  PROVE  Bind(s, r) \in Seq(Gpr) /\ Len(Bind(s, r)) <= MaxRi
BY BoundsAssumption DEF Bind

(* The inductive invariant: types, and the label of the open block. *)
IInv == TypeOK /\ NextTargetIsMarker

LEMMA InitIInv == Init => IInv
<1>1. Init => TypeOK
  BY AddrAssumption, BoundsAssumption
  DEF Init, TypeOK, XferKind, Families, Lanes, Traps
<1>2. Init => NextTargetIsMarker
  BY DEF Init, NextTargetIsMarker
<1>. QED
  BY <1>1, <1>2 DEF IInv

LEMMA BStartIInv == IInv /\ BStart => IInv'
<1>. SUFFICES ASSUME IInv, NEW form \in Forms, NEW target \in Targets(form),
                     RefuseBStart(form, target) \/ AcceptBStart(form, target)
              PROVE  IInv'
  BY DEF BStart
<1>. USE DEF IInv
<1>1. target \in Addr
  BY DEF Targets, TypeOK
<1>2. /\ form.xfer \in XferKind
      /\ form.type \in 0 .. 15
      /\ form.contract \in 0 .. 6
  BY FormTypes
<1>3. CASE RefuseBStart(form, target)
  <2>1. TypeOK'
    BY <1>2, <1>3 DEF RefuseBStart, TypeOK, flow, header, Traps, TrapCfi
  <2>2. NextTargetIsMarker'
    BY <1>3 DEF RefuseBStart, NextTargetIsMarker, Markers
  <2>. QED
    BY <2>1, <2>2
<1>4. CASE AcceptBStart(form, target)
  <2>. USE <1>4 DEF AcceptBStart
  <2>1. /\ pc' \in Addr /\ tpc' \in Addr /\ last' \in [from : Addr, to : Addr]
        /\ seqno' \in 0 .. SeqMod - 1
    BY CommitType
  <2>2. barg' = [valid |-> TRUE, type |-> form.type, xfer |-> form.xfer,
                 bpcCur |-> pc', bpcTgt |-> target, carg |-> 0,
                 tgtRegValid |-> FALSE, tgtReg |-> 0]
    BY DEF BargAtStart
  <2>3. TypeOK'
    BY <1>1, <1>2, <2>1, <2>2, BoundsAssumption DEF TypeOK, BdescReset, Traps
  <2>4. NextTargetIsMarker'
    BY <1>1, <2>2, MarkerIsMarker DEF NextTargetIsMarker, Markers
  <2>. QED
    BY <2>3, <2>4
<1>. QED
  BY <1>3, <1>4

LEMMA BStopIInv == IInv /\ BStop => IInv'
<1>. SUFFICES ASSUME IInv, BStop
              PROVE  IInv'
  OBVIOUS
<1>. USE DEF IInv, BStop
<1>1. /\ pc' \in Addr /\ tpc' \in Addr /\ last' \in [from : Addr, to : Addr]
      /\ seqno' \in 0 .. SeqMod - 1
  BY CommitType
<1>2. trap' \in Traps
  BY HeaderTrapType DEF ValidateHeader, TypeOK
<1>3. vecP' \subseteq Lanes
  BY VecMaskType DEF ValidateHeader, TypeOK
<1>4. TypeOK'
  BY <1>1, <1>2, <1>3 DEF TypeOK, header
<1>5. NextTargetIsMarker'
  BY DEF NextTargetIsMarker, TypeOK
<1>. QED
  BY <1>4, <1>5

LEMMA NextIInv == IInv /\ [Next]_vars => IInv'
<1>. SUFFICES ASSUME IInv, [Next]_vars
              PROVE  IInv'
  OBVIOUS
<1>. USE DEF IInv
<1>1. CASE BStart
  BY <1>1, BStartIInv
<1>2. CASE BStop
  BY <1>2, BStopIInv
<1>3. CASE SetC
  <2>1. /\ barg' \in [valid : BOOLEAN, type : 0 .. 15, xfer : XferKind,
                      bpcCur : Addr, bpcTgt : Addr, carg : {0, 1},
                      tgtRegValid : BOOLEAN, tgtReg : Gpr \cup {0}]
        /\ barg'.valid = barg.valid /\ barg'.bpcTgt = barg.bpcTgt
    BY <1>3 DEF SetC, TypeOK
  <2>. QED
    BY <1>3, <2>1 DEF SetC, TypeOK, NextTargetIsMarker, Markers, flow, header, Traps
<1>4. CASE SetCTgt
  <2>1. /\ barg' \in [valid : BOOLEAN, type : 0 .. 15, xfer : XferKind,
                      bpcCur : Addr, bpcTgt : Addr, carg : {0, 1},
                      tgtRegValid : BOOLEAN, tgtReg : Gpr \cup {0}]
        /\ barg'.valid = barg.valid /\ barg'.bpcTgt = barg.bpcTgt
    BY <1>4 DEF SetCTgt, TypeOK
  <2>. QED
    BY <1>4, <2>1 DEF SetCTgt, TypeOK, NextTargetIsMarker, Markers, flow, header, Traps
<1>5. CASE BDim
  <2>1. loop' \in [lb : [0 .. 2 -> Nat], lc1 : Nat, dr : BOOLEAN]
    BY <1>5, DimsAssumption DEF BDim, TypeOK
  <2>. QED
    BY <1>5, <2>1 DEF BDim, TypeOK, NextTargetIsMarker, Markers, flow, Families, Traps
<1>6. CASE BMark
  BY <1>6 DEF BMark, TypeOK, NextTargetIsMarker, Markers, flow, Families, Traps
<1>7. ASSUME NEW src0 \in Gpr \cup {0}, NEW src1 \in Gpr \cup {0},
             NEW src2 \in Gpr \cup {0}, BIor(src0, src1, src2)
      PROVE  IInv'
  <2>1. ri' \in Seq(Gpr) /\ Len(ri') <= MaxRi
    <3>1. Bind(ri, src1) \in Seq(Gpr) /\ Len(Bind(ri, src1)) <= MaxRi
      BY BindType DEF TypeOK
    <3>2. /\ Bind(Bind(ri, src1), src0) \in Seq(Gpr)
          /\ Len(Bind(Bind(ri, src1), src0)) <= MaxRi
      BY <3>1, BindType
    <3>. QED
      BY <1>7, <3>2, BindType DEF BIor
  <2>. QED
    BY <1>7, <2>1 DEF BIor, TypeOK, NextTargetIsMarker, Markers, flow, Families, Traps
<1>8. CASE BCatr
  BY <1>8 DEF BCatr, TypeOK, NextTargetIsMarker, Markers, flow, header, Traps
<1>9. CASE SsrSetLc1
  BY <1>9, DimsAssumption
  DEF SsrSetLc1, TypeOK, NextTargetIsMarker, Markers, flow, header, Traps
<1>10. CASE WriteReg
  BY <1>10 DEF WriteReg, TypeOK, NextTargetIsMarker, Markers, flow, header, Traps
<1>11. CASE Fetch
  BY <1>11 DEF Fetch, TypeOK, NextTargetIsMarker, Markers, header, Traps
<1>12. CASE UNCHANGED vars
  BY <1>12 DEF vars, TypeOK, NextTargetIsMarker, Markers, Traps
<1>. QED
  BY <1>1, <1>2, <1>3, <1>4, <1>5, <1>6, <1>7, <1>8, <1>9, <1>10, <1>11, <1>12 DEF Next

(* Every reachable state is well typed, and the label of an open block is a *)
(* block start marker: exec_bstart's check is never undone.                 *)
THEOREM Invariance == Spec => []IInv
<1>. QED
  BY InitIInv, NextIInv, PTL DEF Spec

THEOREM TypeCorrect == Spec => []TypeOK
<1>1. IInv => TypeOK
  BY DEF IInv
<1>. QED
  BY <1>1, Invariance, PTL

THEOREM OpenBlocksTargetMarkers == Spec => []NextTargetIsMarker
<1>1. IInv => NextTargetIsMarker
  BY DEF IInv
<1>. QED
  BY <1>1, Invariance, PTL

(* A commit that follows a label moves pc to the label of the open block.   *)
LEMMA CommitFollowsLabel ==
  ASSUME IInv, CommitBoundary, barg.valid, TakesTarget,
         barg.xfer \in {"direct", "cond", "call"}
  PROVE  pc' \in Markers
BY DEF CommitBoundary, CommitTarget, IInv, NextTargetIsMarker

(* The instructions that commit nothing leave the counter alone.            *)
LEMMA OnlyCommitsCount ==
  ASSUME [Next]_vars, seqno' # seqno
  PROVE  CommitBoundary /\ barg.valid
BY DEF Next, vars, BStart, RefuseBStart, AcceptBStart, BStop, SetC, SetCTgt, BDim, BMark,
       BIor, BCatr, SsrSetLc1, WriteReg, Fetch, flow, CommitBoundary

(* No DIRECT, CALL or taken COND block ever sends control to an address     *)
(* that is not a block start marker.                                       *)
THEOREM TransfersAreSafe == Spec => TransfersLandOnMarkers
<1>1. IInv /\ [Next]_vars =>
        [seqno' # seqno /\ TakesTarget /\ barg.xfer \in {"direct", "cond", "call"}
           => pc' \in Markers]_vars
  BY CommitFollowsLabel, OnlyCommitsCount
<1>. QED
  BY <1>1, Invariance, PTL DEF Spec, TransfersLandOnMarkers

-----------------------------------------------------------------------------
(* Verdicts on headers *)

(* The order in which a contract's families are looked for lists what it    *)
(* must have, and goes by priority.                                        *)
LEMMA CheckOrderIsPriority ==
  ASSUME NEW kind \in 0 .. 6
  PROVE  /\ \A i \in 1 .. Len(CheckOrder(kind)) : CheckOrder(kind)[i] \in Mandatory(kind)
         /\ \A f \in Mandatory(kind) : \E i \in 1 .. Len(CheckOrder(kind)) : f = CheckOrder(kind)[i]
         /\ \A i, j \in 1 .. Len(CheckOrder(kind)) :
              i < j => Priority[CheckOrder(kind)[i]] < Priority[CheckOrder(kind)[j]]
         /\ Mandatory(kind) \subseteq Families
         /\ \A i \in 1 .. Len(CheckOrder(kind)) : Priority[CheckOrder(kind)[i]] \in Int
<1>. DEFINE order == CheckOrder(kind)
            Good(s, m) == /\ \A i \in 1 .. Len(s) : s[i] \in m
                          /\ \A f \in m : \E i \in 1 .. Len(s) : f = s[i]
                          /\ \A i, j \in 1 .. Len(s) : i < j => Priority[s[i]] < Priority[s[j]]
                          /\ m \subseteq Families
                          /\ \A i \in 1 .. Len(s) : Priority[s[i]] \in Int
<1>0. /\ Priority["arg"] = 1 /\ Priority["text"] = 2 /\ Priority["iot"] = 3
      /\ Priority["ior"] = 4 /\ Priority["dim"] = 5
  BY DEF Priority
<1>1. CASE kind = 1
  <2>1. Good(<<"text", "dim">>, {"dim", "text"})
    BY <1>0 DEF Families
  <2>. QED
    BY <1>1, <2>1 DEF CheckOrder, Mandatory
<1>2. CASE kind = 2
  <2>1. Good(<<"arg", "iot", "ior">>, {"arg", "ior", "iot"})
    BY <1>0 DEF Families
  <2>. QED
    BY <1>2, <2>1 DEF CheckOrder, Mandatory
<1>3. CASE kind = 3
  <2>1. Good(<<"iot">>, {"iot"})
    BY <1>0 DEF Families
  <2>. QED
    BY <1>3, <2>1 DEF CheckOrder, Mandatory
<1>4. CASE kind = 4
  <2>1. Good(<<"arg", "iot", "dim">>, {"dim", "iot", "arg"})
    BY <1>0 DEF Families
  <2>. QED
    BY <1>4, <2>1 DEF CheckOrder, Mandatory
<1>5. CASE kind = 5
  <2>1. Good(<<"arg", "iot", "ior", "dim">>, {"dim", "iot", "arg", "ior"})
    BY <1>0 DEF Families
  <2>. QED
    BY <1>5, <2>1 DEF CheckOrder, Mandatory
<1>6. CASE kind \in {0, 6}
  BY <1>6 DEF CheckOrder, Mandatory
<1>. QED
  BY <1>1, <1>2, <1>3, <1>4, <1>5, <1>6

(* The first position that is missing is that of the missing family with    *)
(* the highest priority.                                                   *)
LEMMA FirstMissingHasPriority ==
  ASSUME NEW kind \in 0 .. 6, NEW present, Mandatory(kind) \ present # {}
  PROVE  LET missing == Mandatory(kind) \ present
         IN  FirstMissing(CheckOrder(kind), present)
               = CHOOSE f \in missing : \A g \in missing : Priority[f] <= Priority[g]
<1>. DEFINE order == CheckOrder(kind)
            missing == Mandatory(kind) \ present
            absent == {i \in 1 .. Len(order) : order[i] \notin present}
            at == CHOOSE i \in absent : \A j \in absent : i <= j
            First(f) == \A g \in missing : Priority[f] <= Priority[g]
<1>1. Len(order) \in 0 .. 4
  BY CheckOrderType
<1>2. /\ \A i \in 1 .. Len(order) : order[i] \in Mandatory(kind)
      /\ \A f \in Mandatory(kind) : \E i \in 1 .. Len(order) : f = order[i]
      /\ \A i, j \in 1 .. Len(order) : i < j => Priority[order[i]] < Priority[order[j]]
      /\ \A i \in 1 .. Len(order) : Priority[order[i]] \in Int
  BY CheckOrderIsPriority
<1>. HIDE DEF order
<1>3. \A f \in missing : \E i \in absent : f = order[i]
  BY <1>2
<1>4. \A i \in absent : order[i] \in missing
  BY <1>2
<1>5. \E i \in absent : \A j \in absent : i <= j
  <2>1. absent \in SUBSET (1 .. 4)
    BY <1>1
  <2>2. absent # {}
    BY <1>3
  <2>. QED
    BY <2>1, <2>2, FirstPosition
<1>6. at \in absent /\ \A j \in absent : at <= j
  BY <1>5
<1>. HIDE DEF at
<1>7. \A i, j \in absent : i < j => Priority[order[i]] < Priority[order[j]]
  BY <1>2
<1>8. \A i \in absent : i \in Int /\ Priority[order[i]] \in Int
  BY <1>1, <1>2
<1>. HIDE DEF absent, missing
<1>9. order[at] \in missing /\ First(order[at])
  <2>1. ASSUME NEW g \in missing PROVE Priority[order[at]] <= Priority[g]
    <3>1. PICK j \in absent : g = order[j]
      BY <1>3
    <3>2. at <= j
      BY <1>6
    <3>. QED
      BY <1>6, <1>7, <1>8, <3>1, <3>2
  <2>. QED
    BY <1>4, <1>6, <2>1
<1>10. ASSUME NEW f \in missing, First(f) PROVE f = order[at]
  <2>1. PICK k \in absent : f = order[k]
    BY <1>3
  <2>2. Priority[f] <= Priority[order[at]]
    BY <1>9, <1>10
  <2>3. ~(at < k)
    BY <1>6, <1>7, <1>8, <2>1, <2>2
  <2>4. at <= k
    BY <1>6
  <2>5. k = at
    BY <1>6, <1>8, <2>3, <2>4
  <2>. QED
    BY <2>1, <2>5
<1>. DEFINE first == CHOOSE f \in missing : First(f)
<1>11. first \in missing /\ First(first)
  BY <1>9
<1>. HIDE DEF first
<1>12. first = order[at]
  BY <1>10, <1>11
<1>. QED
  BY <1>12 DEF FirstMissing, first, at, order, absent, missing

LEMMA StopVerdict ==
  ASSUME TypeOK, BStop
  PROVE  LET missing == Mandatory(contract) \ seen
             first   == CHOOSE f \in missing : \A g \in missing : Priority[f] <= Priority[g]
         IN  IF contract \in 2 .. 6 /\ "text" \in seen
             THEN trap' = TrapBlockFmt("text", "illegal")
             ELSE IF missing # {} THEN trap' = TrapBlockFmt(first, "missing")
             ELSE trap' = trap
<1>. DEFINE missing == Mandatory(contract) \ seen
            first == CHOOSE f \in missing : \A g \in missing : Priority[f] <= Priority[g]
            order == CheckOrder(contract)
            verdict == HeaderTrap(contract, seen)
<1>1. contract \in 0 .. 6
  BY DEF TypeOK
<1>2. trap' = IF verdict = NoTrap THEN trap ELSE verdict
  BY DEF BStop, ValidateHeader
<1>3. \A f, d : TrapBlockFmt(f, d) # NoTrap
  BY DEF TrapBlockFmt, NoTrap
<1>4. (\A i \in 1 .. Len(order) : order[i] \in seen) <=> missing = {}
  BY <1>1, CheckOrderIsPriority
<1>5. missing # {} => FirstMissing(order, seen) = first
  BY <1>1, FirstMissingHasPriority
<1>6. verdict = IF contract \in 2 .. 6 /\ "text" \in seen THEN TrapBlockFmt("text", "illegal")
                ELSE IF \A i \in 1 .. Len(order) : order[i] \in seen THEN NoTrap
                ELSE TrapBlockFmt(FirstMissing(order, seen), "missing")
  BY DEF HeaderTrap, TextIsIllegal
<1>. HIDE DEF missing, first, order, verdict
<1>7. IF contract \in 2 .. 6 /\ "text" \in seen
      THEN trap' = TrapBlockFmt("text", "illegal")
      ELSE IF missing # {} THEN trap' = TrapBlockFmt(first, "missing")
      ELSE trap' = trap
  BY <1>2, <1>3, <1>4, <1>5, <1>6
<1>. QED
  BY <1>7 DEF missing, first

(* BSTOP reports an illegal B.TEXT first, then the missing family of the    *)
(* highest priority, and nothing of a complete header, for each contract    *)
(* and every set of descriptors seen.                                      *)
THEOREM VerdictsFollowPriority == Spec => HeaderVerdict
<1>1. TypeOK => [BStop =>
       LET missing == Mandatory(contract) \ seen
           first   == CHOOSE f \in missing : \A g \in missing : Priority[f] <= Priority[g]
       IN  IF contract \in 2 .. 6 /\ "text" \in seen
           THEN trap' = TrapBlockFmt("text", "illegal")
           ELSE IF missing # {} THEN trap' = TrapBlockFmt(first, "missing")
           ELSE trap' = trap]_vars
  BY StopVerdict
<1>. QED
  BY <1>1, TypeCorrect, PTL DEF HeaderVerdict

-----------------------------------------------------------------------------
(* Division by the length of a vector. *)

LEMMA MultiplesAreApart ==
  ASSUME NEW m \in Nat \ {0}, NEW a \in Int, NEW b \in Int, a < b
  PROVE  m * a + m <= m * b
<1>1. PICK d \in Nat : b = a + 1 + d
  <2>1. b - a - 1 \in Nat /\ b = a + 1 + (b - a - 1)
    OBVIOUS
  <2>. QED
    BY <2>1
<1>2. m * b = m * a + m + m * d /\ m * d \in Nat /\ m * a \in Int
  BY <1>1
<1>. QED
  BY <1>2

LEMMA Division ==
  ASSUME NEW m \in Nat \ {0}, NEW n \in Nat
  PROVE  /\ n \div m \in Nat /\ n % m \in 0 .. m - 1
         /\ m * (n \div m) \in Nat /\ n = m * (n \div m) + (n % m)
OBVIOUS

LEMMA Quotient ==
  ASSUME NEW m \in Nat \ {0}, NEW n \in Nat
  PROVE  \E d \in Int, s \in 0 .. m - 1 : n \div m = d /\ n = m * d + s
BY Division

LEMMA QuotientIsUnique ==
  ASSUME NEW m \in Nat \ {0}, NEW q \in Int, NEW r \in 0 .. m - 1, NEW n \in Nat,
         n = m * q + r
  PROVE  n \div m = q
<1>1. PICK d \in Int, s \in 0 .. m - 1 : n \div m = d /\ n = m * d + s
  BY Quotient
<1>. DEFINE left == m * d
            right == m * q
<1>2. /\ left \in Int /\ right \in Int
      /\ d < q => left + m <= right
      /\ q < d => right + m <= left
  BY <1>1, MultiplesAreApart
<1>. HIDE DEF left
<1>3. n = right + r
  OBVIOUS
<1>. HIDE DEF right
<1>4. ~(d < q) /\ ~(q < d)
  BY <1>1, <1>2, <1>3 DEF left
<1>5. d = q
  BY <1>1, <1>4
<1>. QED
  BY <1>1, <1>5

(* The lanes of a group are those whose iteration is below the total.       *)
LEMMA GroupLanes ==
  ASSUME NEW total \in Nat, NEW group \in Nat, group * VecLength < total
  PROVE  LET groups == (total + VecLength - 1) \div VecLength
             rem == total % VecLength
         IN  {i \in Lanes : group * VecLength + i < total}
               = IF group = groups - 1 /\ rem # 0 THEN 0 .. rem - 1 ELSE Lanes
<1>. DEFINE V == VecLength
            q == total \div V
            rem == total % V
            groups == (total + V - 1) \div V
            start == V * group
<1>1. V \in Nat \ {0}
  BY BoundsAssumption
<1>2. group * VecLength = start
  BY <1>1
<1>3. Lanes = 0 .. V - 1
  BY DEF Lanes
<1>. HIDE DEF V
<1>4. q \in Nat /\ rem \in 0 .. V - 1 /\ V * q \in Nat /\ total = V * q + rem
  BY <1>1, Division
<1>5. start \in Nat
  BY <1>1
<1>6. groups = IF rem = 0 THEN q ELSE q + 1
  <2>1. CASE rem = 0
    <3>1. total + V - 1 \in Nat /\ V - 1 \in 0 .. V - 1 /\ total + V - 1 = V * q + (V - 1)
      BY <1>1, <1>4, <2>1
    <3>. QED
      BY <1>1, <1>4, <2>1, <3>1, QuotientIsUnique
  <2>2. CASE rem # 0
    <3>1. V * (q + 1) = V * q + V
      BY <1>1, <1>4
    <3>2. /\ total + V - 1 \in Nat /\ rem - 1 \in 0 .. V - 1 /\ q + 1 \in Int
          /\ total + V - 1 = V * (q + 1) + (rem - 1)
      BY <1>1, <1>4, <2>2, <3>1
    <3>. QED
      BY <1>1, <2>2, <3>2, QuotientIsUnique
  <2>. QED
    BY <2>1, <2>2
<1>7. start < total
  BY <1>2
<1>. HIDE DEF q, rem, groups
<1>8. group <= q /\ (rem = 0 => group < q)
  <2>1. CASE q < group
    <3>1. V * q + V <= start
      BY <1>1, <1>4, <2>1, MultiplesAreApart
    <3>. QED
      BY <1>1, <1>4, <1>5, <1>7, <3>1
  <2>2. CASE group = q
    BY <1>4, <1>7, <2>2
  <2>. QED
    BY <1>4, <2>1, <2>2
<1>9. CASE group = q
  <2>1. rem # 0 /\ groups - 1 = group /\ start = V * q
    BY <1>4, <1>6, <1>8, <1>9
  <2>. HIDE DEF start
  <2>2. \A i \in 0 .. V - 1 : start + i < total <=> i \in 0 .. rem - 1
    BY <1>1, <1>4, <1>5, <2>1
  <2>3. 0 .. rem - 1 \subseteq 0 .. V - 1
    BY <1>1, <1>4
  <2>4. {i \in Lanes : start + i < total} = 0 .. rem - 1
    BY <1>3, <2>2, <2>3
  <2>. QED
    BY <1>2, <2>1, <2>4 DEF groups, rem, V
<1>10. CASE group < q
  <2>1. start + V <= V * q
    BY <1>1, <1>4, <1>10, MultiplesAreApart
  <2>2. ~(group = groups - 1 /\ rem # 0)
    BY <1>4, <1>6, <1>10
  <2>. HIDE DEF start
  <2>3. \A i \in 0 .. V - 1 : start + i < total
    BY <1>1, <1>4, <1>5, <2>1
  <2>4. {i \in Lanes : start + i < total} = Lanes
    BY <1>3, <2>3
  <2>. QED
    BY <1>2, <2>2, <2>4 DEF groups, rem, V
<1>. QED
  BY <1>4, <1>8, <1>9, <1>10

LEMMA StopMask ==
  ASSUME TypeOK, BStop, contract = 1, {"dim", "text"} \subseteq seen
  PROVE  LET bound  == [d \in 0 .. 2 |-> loop.lb[d] % DimMod]
             start  == (loop.lc1 % DimMod) * VecLength
             total  == bound[0] * AtLeast1(bound[1]) * AtLeast1(bound[2])
             wanted == IF loop.dr THEN {i \in Lanes : start + i < total}
                                  ELSE {i \in Lanes : i < bound[0]}
         IN  (~loop.dr \/ start < total) => vecP' = wanted
<1>. DEFINE lb     == loop.lb
            group  == Low(loop.lc1)
            total  == Iterations(lb)
            wanted == IF loop.dr THEN {i \in Lanes : group * VecLength + i < total}
                                 ELSE {i \in Lanes : i < Low(lb[0])}
            groups == (total + VecLength - 1) \div VecLength
            rem    == total % VecLength
<1>. SUFFICES (~loop.dr \/ group * VecLength < total) => vecP' = wanted
  BY DEF Low, Iterations
<1>1. HeaderTrap(contract, seen) = NoTrap
  <2>1. CheckOrder(1) = <<"text", "dim">> /\ ~TextIsIllegal(1)
    BY DEF CheckOrder, TextIsIllegal
  <2>. QED
    BY <2>1 DEF HeaderTrap
<1>2. vecP' = VecMask(lb, loop.dr, loop.lc1)
  BY <1>1 DEF BStop, ValidateHeader
<1>3. VecMask(lb, loop.dr, loop.lc1) =
        IF ~loop.dr THEN {i \in Lanes : i < Low(lb[0])}
        ELSE IF group = groups - 1 /\ rem # 0 THEN 0 .. rem - 1
        ELSE Lanes
  BY DEF VecMask
<1>4. total \in Nat /\ group \in Nat
  <2>1. lb \in [0 .. 2 -> Nat] /\ loop.lc1 \in Nat
    BY DEF TypeOK
  <2>. QED
    BY <2>1, IterationsType, LowType
<1>. HIDE DEF total, group
<1>5. loop.dr /\ group * VecLength < total => vecP' = wanted
  BY <1>2, <1>3, <1>4, GroupLanes
<1>6. ~loop.dr => vecP' = wanted
  BY <1>2, <1>3
<1>. QED
  BY <1>5, <1>6

(* The lane mask of a complete vector header enables exactly the iterations *)
(* of its group, for every length of a vector, every value of a loop bound   *)
(* and of LC1, and every width they are cut to: none is left out at the end  *)
(* of the iteration space and none beyond it runs.                           *)
THEOREM MasksCoverGroups == Spec => MaskCoversGroup
<1>1. TypeOK => [BStop /\ contract = 1 /\ {"dim", "text"} \subseteq seen =>
       LET bound  == [d \in 0 .. 2 |-> loop.lb[d] % DimMod]
           start  == (loop.lc1 % DimMod) * VecLength
           total  == bound[0] * AtLeast1(bound[1]) * AtLeast1(bound[2])
           wanted == IF loop.dr THEN {i \in Lanes : start + i < total}
                                ELSE {i \in Lanes : i < bound[0]}
       IN  (~loop.dr \/ start < total) => vecP' = wanted]_vars
  BY StopMask
<1>. QED
  BY <1>1, TypeCorrect, PTL DEF MaskCoversGroup

-----------------------------------------------------------------------------
(* The implementation of BlockStream, one lemma per kind of step. *)

LEMMA RefinesInit == Init => Stream!Init
BY DEF Init, Stream!Init, Stream!NoBlock, Stream!NoReg, BlockOfRegisters

(* The registers of an open block describe an open block. *)
LEMMA OpenIffValid ==
  ASSUME TypeOK
  PROVE  Stream!IsOpen(BlockOfRegisters) <=> barg.valid
<1>1. CASE barg.valid
  <2>1. BlockOfRegisters.at = barg.bpcCur
    BY <1>1 DEF BlockOfRegisters
  <2>2. barg.bpcCur \in Nat
    BY AddrAssumption DEF TypeOK
  <2>3. Stream!NoBlock.at = -1
    BY DEF Stream!NoBlock, Stream!NoReg
  <2>. QED
    BY <1>1, <2>1, <2>2, <2>3 DEF Stream!IsOpen
<1>2. CASE ~barg.valid
  BY <1>2 DEF BlockOfRegisters, Stream!IsOpen, Stream!NoBlock, Stream!NoReg
<1>. QED
  BY <1>1, <1>2 DEF TypeOK

(* The destination the registers give is the destination of the block.      *)
LEMMA DestinationAgrees ==
  ASSUME TypeOK, barg.valid, NEW next
  PROVE  Stream!Destination(BlockOfRegisters, next) = IF TakesTarget THEN CommitTarget ELSE next
<1>. DEFINE b == BlockOfRegisters
<1>1. /\ b.kind = barg.xfer /\ b.label = barg.bpcTgt /\ b.cond = (barg.carg # 0)
      /\ b.sel = IF barg.tgtRegValid THEN barg.tgtReg ELSE -1
  BY DEF BlockOfRegisters
<1>2. b.sel # Stream!NoReg <=> barg.tgtRegValid
  BY <1>1, GprAssumption DEF TypeOK, Stream!NoReg
<1>. DEFINE Agrees == Stream!Destination(b, next) = IF TakesTarget THEN CommitTarget ELSE next
<1>. SUFFICES Agrees
  OBVIOUS
<1>. HIDE DEF b
<1>3. CASE barg.xfer \in {"direct", "call", "cond", "fall"}
  BY <1>1, <1>3 DEF Stream!Destination, Stream!GoesToLabel, Stream!GoesToRegister,
                    TakesTarget, CommitTarget
<1>4. CASE barg.xfer \in {"ind", "icall", "ret"}
  BY <1>1, <1>2, <1>4 DEF Stream!Destination, Stream!GoesToLabel, Stream!GoesToRegister,
                          TakesTarget, CommitTarget, Stream!Value, ReadReg
<1>. QED
  BY <1>3, <1>4 DEF TypeOK, XferKind

(* A commit of an open block retires it; without an open block it does      *)
(* nothing.                                                                *)
LEMMA CommitRetires ==
  ASSUME TypeOK, CommitBoundary
  PROVE  IF Stream!IsOpen(BlockOfRegisters) THEN Stream!Retire
         ELSE UNCHANGED <<pc, last, seqno>>
<1>1. CASE barg.valid
  <2>1. BlockOfRegisters.at = barg.bpcCur
    BY <1>1 DEF BlockOfRegisters
  <2>. QED
    BY <1>1, <2>1, OpenIffValid, DestinationAgrees DEF CommitBoundary, Stream!Retire
<1>2. CASE ~barg.valid
  BY <1>2, OpenIffValid DEF CommitBoundary, flow
<1>. QED
  BY <1>1, <1>2 DEF TypeOK

LEMMA AcceptRefines ==
  ASSUME IInv, IInv', NEW form \in Forms, NEW target \in Targets(form),
         AcceptBStart(form, target)
  PROVE  Stream!Begin
<1>. USE DEF IInv
<1>1. /\ target \in Markers
      /\ form.xfer \in XferKind
  BY MarkerIsMarker, FormTypes DEF Targets, TypeOK, AcceptBStart
<1>2. BlockOfRegisters' = Stream!Fresh(pc', form.xfer, target)
  BY DEF AcceptBStart, BargAtStart, BdescReset, BlockOfRegisters, Stream!Fresh, Stream!NoReg
<1>3. Stream!IsOpen(BlockOfRegisters)'
  BY OpenIffValid, <1>2 DEF AcceptBStart, BargAtStart, TypeOK, BlockOfRegisters,
     Stream!IsOpen, Stream!NoBlock, Stream!NoReg, Stream!Fresh
<1>4. /\ BlockOfRegisters'.kind = form.xfer
      /\ BlockOfRegisters'.label = target
  BY <1>2 DEF Stream!Fresh
<1>5. IF Stream!IsOpen(BlockOfRegisters) THEN Stream!Retire
      ELSE UNCHANGED <<pc, last, seqno>>
  BY CommitRetires DEF AcceptBStart
<1>. QED
  BY <1>1, <1>2, <1>3, <1>4, <1>5 DEF Stream!Begin, Stream!Kind, XferKind, AcceptBStart

LEMMA StopRefines ==
  ASSUME IInv, BStop
  PROVE  [Stream!Next]_(Stream!vars)
<1>. USE DEF IInv
<1>1. BlockOfRegisters' = Stream!NoBlock
  BY DEF BStop, TypeOK, BlockOfRegisters, Stream!NoBlock, Stream!NoReg
<1>2. CASE Stream!IsOpen(BlockOfRegisters)
  <2>1. Stream!Retire
    BY <1>2, CommitRetires DEF BStop
  <2>. QED
    BY <1>1, <2>1 DEF BStop, Stream!End, Stream!Next
<1>3. CASE ~Stream!IsOpen(BlockOfRegisters)
  <2>1. UNCHANGED <<pc, last, seqno>>
    BY <1>3, CommitRetires DEF BStop
  <2>. QED
    BY <1>1, <1>3, <2>1 DEF BStop, Stream!vars, Stream!IsOpen
<1>. QED
  BY <1>2, <1>3

(* A step that leaves the registers of the block as they are maps to a step *)
(* of the stream that leaves the block as it is.                           *)
LEMMA SameBlock ==
  ASSUME UNCHANGED <<barg, seen, ri>>
  PROVE  UNCHANGED BlockOfRegisters
BY DEF BlockOfRegisters

LEMMA SetCRefines ==
  ASSUME IInv, SetC
  PROVE  [Stream!Next]_(Stream!vars)
<1>. USE DEF IInv
<1>1. PICK v \in {0, 1} : barg' = [barg EXCEPT !.carg = v]
  BY DEF SetC
<1>2. CASE barg.valid
  <2>1. BlockOfRegisters' = [BlockOfRegisters EXCEPT !.cond = (v # 0)]
    BY <1>1, <1>2 DEF SetC, BlockOfRegisters, TypeOK, header
  <2>2. (v # 0) \in BOOLEAN
    OBVIOUS
  <2>. QED
    BY <1>2, <2>1, <2>2, OpenIffValid DEF SetC, flow, Stream!Decide, Stream!Next
<1>3. CASE ~barg.valid
  BY <1>1, <1>3 DEF SetC, flow, TypeOK, BlockOfRegisters, Stream!vars
<1>. QED
  BY <1>2, <1>3 DEF TypeOK

LEMMA SetCTgtRefines ==
  ASSUME IInv, SetCTgt
  PROVE  [Stream!Next]_(Stream!vars)
<1>. USE DEF IInv
<1>1. PICK r \in Gpr \cup {0} : barg' = [barg EXCEPT !.tgtRegValid = TRUE, !.tgtReg = r]
  BY DEF SetCTgt
<1>2. CASE barg.valid
  <2>1. BlockOfRegisters' = [BlockOfRegisters EXCEPT !.sel = r]
    <3>1. /\ barg'.valid /\ barg'.tgtRegValid /\ barg'.tgtReg = r
          /\ barg'.bpcCur = barg.bpcCur /\ barg'.bpcTgt = barg.bpcTgt
          /\ barg'.xfer = barg.xfer /\ barg'.carg = barg.carg
          /\ seen' = seen /\ ri' = ri
      BY <1>1, <1>2 DEF SetCTgt, TypeOK, header
    <3>. QED
      BY <1>2, <3>1 DEF BlockOfRegisters
  <2>. QED
    BY <1>2, <2>1, OpenIffValid DEF SetCTgt, flow, Stream!Select, Stream!Next
<1>3. CASE ~barg.valid
  BY <1>1, <1>3 DEF SetCTgt, flow, TypeOK, BlockOfRegisters, Stream!vars
<1>. QED
  BY <1>2, <1>3 DEF TypeOK

(* Binding a register appends to the bindings, or leaves them.             *)
LEMMA BindExtends ==
  ASSUME NEW s \in Seq(Gpr), NEW r \in Gpr \cup {0}
  PROVE  Stream!Extends(Bind(s, r), s)
BY DEF Bind, Stream!Extends

LEMMA ExtendsTransitive ==
  ASSUME NEW s \in Seq(Gpr), NEW t \in Seq(Gpr), NEW u \in Seq(Gpr),
         Stream!Extends(t, s), Stream!Extends(u, t)
  PROVE  Stream!Extends(u, s)
BY DEF Stream!Extends

(* Two fields of a record are replaced one after the other. *)
LEMMA HeaderUpdate ==
  ASSUME NEW r, NEW h, NEW i
  PROVE  [r EXCEPT !.header = h, !.imports = i] = [[r EXCEPT !.header = h] EXCEPT !.imports = i]
BY Zenon

(* Any step that only adds families and imports is a Declare of the stream. *)
LEMMA DeclareRefines ==
  ASSUME IInv, IInv', UNCHANGED <<pc, gpr, barg, last, seqno>>,
         seen \subseteq seen', Stream!Extends(ri', ri)
  PROVE  [Stream!Next]_(Stream!vars)
<1>. USE DEF IInv
<1>1. CASE barg.valid
  <2>1. BlockOfRegisters' = [BlockOfRegisters EXCEPT !.header = seen', !.imports = ri']
    <3>1. barg' = barg
      OBVIOUS
    <3>. DEFINE c == barg.carg # 0
                r == IF barg.tgtRegValid THEN barg.tgtReg ELSE -1
                Record(h, i) == [at |-> barg.bpcCur, kind |-> barg.xfer,
                                 label |-> barg.bpcTgt, cond |-> c, sel |-> r,
                                 header |-> h, imports |-> i]
    <3>2. BlockOfRegisters = Record(seen, ri) /\ BlockOfRegisters' = Record(seen', ri')
      BY <1>1, <3>1 DEF BlockOfRegisters
    <3>. HIDE DEF c, r
    <3>3. Record(seen', ri') = [Record(seen, ri) EXCEPT !.header = seen', !.imports = ri']
      <4>1. [Record(seen, ri) EXCEPT !.header = seen'] = Record(seen', ri)
        OBVIOUS
      <4>2. [Record(seen', ri) EXCEPT !.imports = ri'] = Record(seen', ri')
        OBVIOUS
      <4>. HIDE DEF Record
      <4>. QED
        BY <4>1, <4>2, HeaderUpdate
    <3>. QED
      BY <3>2, <3>3
  <2>2. /\ BlockOfRegisters.header = seen /\ BlockOfRegisters.imports = ri
        /\ BlockOfRegisters'.header = seen' /\ BlockOfRegisters'.imports = ri'
    BY <1>1 DEF BlockOfRegisters
  <2>3. Stream!IsOpen(BlockOfRegisters) /\ Stream!IsOpen(BlockOfRegisters)'
    <3>1. barg'.valid
      BY <1>1
    <3>2. Stream!IsOpen(BlockOfRegisters)
      BY <1>1, OpenIffValid
    <3>3. BlockOfRegisters'.at = barg.bpcCur
      BY <1>1 DEF BlockOfRegisters
    <3>4. BlockOfRegisters' # Stream!NoBlock
      <4>1. barg.bpcCur \in Nat
        BY AddrAssumption DEF TypeOK
      <4>2. Stream!NoBlock.at = -1
        BY DEF Stream!NoBlock, Stream!NoReg
      <4>3. barg.bpcCur # -1
        BY <4>1
      <4>. QED
        BY <3>3, <4>2, <4>3
    <3>. QED
      BY <3>2, <3>4 DEF Stream!IsOpen
  <2>4. Len(ri') <= MaxRi /\ seen' \subseteq Families
    BY DEF TypeOK
  <2>. QED
    BY <2>1, <2>2, <2>3, <2>4 DEF Stream!Declare, Stream!Next
<1>2. CASE ~barg.valid
  BY <1>2 DEF BlockOfRegisters, Stream!vars
<1>. QED
  BY <1>1, <1>2 DEF TypeOK

LEMMA NextRefines == IInv /\ IInv' /\ [Next]_vars => [Stream!Next]_(Stream!vars)
<1>. SUFFICES ASSUME IInv, IInv', [Next]_vars
              PROVE  [Stream!Next]_(Stream!vars)
  OBVIOUS
<1>. USE DEF IInv
<1>0. Stream!Extends(ri, ri)
  BY DEF Stream!Extends
<1>1. ASSUME NEW form \in Forms, NEW target \in Targets(form),
             RefuseBStart(form, target)
      PROVE  [Stream!Next]_(Stream!vars)
  BY <1>1, SameBlock DEF RefuseBStart, flow, header, Stream!vars
<1>2. ASSUME NEW form \in Forms, NEW target \in Targets(form),
             AcceptBStart(form, target)
      PROVE  [Stream!Next]_(Stream!vars)
  BY <1>2, AcceptRefines DEF Stream!Next
<1>3. CASE BStop
  BY <1>3, StopRefines
<1>4. CASE SetC
  BY <1>4, SetCRefines
<1>5. CASE SetCTgt
  BY <1>5, SetCTgtRefines
<1>6. CASE BDim
  BY <1>0, <1>6, DeclareRefines DEF BDim, flow
<1>7. CASE BMark
  BY <1>0, <1>7, DeclareRefines DEF BMark, flow
<1>8. ASSUME NEW src0 \in Gpr \cup {0}, NEW src1 \in Gpr \cup {0},
             NEW src2 \in Gpr \cup {0}, BIor(src0, src1, src2)
      PROVE  [Stream!Next]_(Stream!vars)
  <2>. DEFINE s == Bind(ri, src1)
              t == Bind(s, src0)
              u == Bind(t, src2)
  <2>1. s \in Seq(Gpr) /\ Len(s) <= MaxRi
    BY BindType DEF TypeOK
  <2>2. t \in Seq(Gpr) /\ Len(t) <= MaxRi
    BY <2>1, BindType
  <2>3. u \in Seq(Gpr) /\ Len(u) <= MaxRi
    BY <2>2, BindType
  <2>4. Stream!Extends(s, ri) /\ Stream!Extends(t, s) /\ Stream!Extends(u, t)
    BY <2>1, <2>2, BindExtends DEF TypeOK
  <2>5. ri' = u /\ ri \in Seq(Gpr)
    BY <1>8 DEF BIor, TypeOK
  <2>. HIDE DEF s, t, u
  <2>6. Stream!Extends(u, ri)
    BY <2>1, <2>2, <2>3, <2>4, <2>5, ExtendsTransitive
  <2>. QED
    BY <1>8, <2>5, <2>6, DeclareRefines DEF BIor, flow
<1>9. CASE BCatr
  BY <1>9, SameBlock DEF BCatr, flow, header, Stream!vars
<1>10. CASE SsrSetLc1
  BY <1>10, SameBlock DEF SsrSetLc1, flow, header, Stream!vars
<1>11. CASE WriteReg
  BY <1>11, SameBlock DEF WriteReg, flow, header, Stream!Compute, Stream!Next
<1>12. CASE Fetch
  BY <1>12, SameBlock DEF Fetch, header, Stream!Fetch, Stream!Next
<1>13. CASE UNCHANGED vars
  BY <1>13, SameBlock DEF vars, Stream!vars
<1>. QED
  BY <1>1, <1>2, <1>3, <1>4, <1>5, <1>6, <1>7, <1>8, <1>9, <1>10, <1>11, <1>12, <1>13
  DEF Next, BStart

(* Block control implements the block stream: the registers of a block have *)
(* no effect after it has retired, a block retires once, and control goes   *)
(* where the open block, and no other, says.                               *)
THEOREM Refinement == Spec => RefinesBlockStream
<1>. QED
  BY RefinesInit, NextRefines, Invariance, PTL DEF Spec, RefinesBlockStream, Stream!Spec
=============================================================================
