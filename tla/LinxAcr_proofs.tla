--------------------------- MODULE LinxAcr_proofs ---------------------------
(***************************************************************************)
(* Access control rings, for every set of rings' contents, buffers, lengths *)
(* and programs: type correctness, a return resumes what its ring's request *)
(* interrupted, and a restore brings back what its ring's save captured.    *)
(***************************************************************************)
EXTENDS LinxAcrProps, LinxBlock_proofs

(* The types that block control needs of the registers it shares. *)
AcrIInv == AcrTypeOK /\ gpr \in [Gpr -> Addr] /\ contract \in 0 .. 6

(* What the bank of a ring holds between a request and its return. *)
HoldsRequest(b, a, c) ==
  /\ b.ec = [c.cs EXCEPT !.bi = TRUE]
  /\ b.ec.bi = TRUE /\ b.ec.acr = a
  /\ b.cur = c.cur /\ b.tgt = c.tgt /\ b.tpc = c.tpc

AskedInv ==
  /\ asked = [a \in Acr |-> asked[a]]
  /\ \A a \in Acr : asked[a] # Nothing => HoldsRequest(bank[a], a, asked[a].context)

(* What a ring's bank and the buffer it points to hold after a save. *)
HoldsSave(b, memory, k) ==
  /\ k.base \in ExtBase
  /\ b.ptr = k.base /\ b.len = MetaLen(k.len)
  /\ \A w \in Words(k.len) : memory[k.base][w] = k.context[w]

KeptInv ==
  /\ kept = [a \in Acr |-> kept[a]]
  /\ \A a \in Acr : kept[a] # Nothing => HoldsSave(bank[a], ext, kept[a])

-----------------------------------------------------------------------------
(* Type correctness *)

BargType == [valid : BOOLEAN, type : 0 .. 15, xfer : XferKind,
             bpcCur : Addr, bpcTgt : Addr, carg : {0, 1},
             tgtRegValid : BOOLEAN, tgtReg : Gpr \cup {0}]

(* What the instructions of block control leave well typed. *)
BlockTypes ==
  /\ pc \in Addr /\ tpc \in Addr
  /\ gpr \in [Gpr -> Addr]
  /\ barg \in BargType
  /\ contract \in 0 .. 6
  /\ trap \in Traps \cup AcrTraps

(* What only the instructions of the rings touch. *)
RingTypes ==
  /\ cstate \in Cstate
  /\ bank \in [Acr -> Bank]
  /\ xbinfo \in [Acr -> CacTables \cup {0}]
  /\ ext \in [ExtBase -> Context]
  /\ dispatch \in [acr : Acr, entry : (CacTables \X (0 .. 127)) \cup {<<0, 0>>}]

LEMMA TypesSplit == AcrIInv <=> BlockTypes /\ RingTypes
BY DEF AcrIInv, AcrTypeOK, BlockTypes, RingTypes, BargType

(* A commit sends control to an address, whatever trap is recorded. *)
LEMMA CommitAddr ==
  ASSUME BlockTypes, CommitBoundary
  PROVE  pc' \in Addr /\ tpc' \in Addr
<1>1. CommitTarget \in Addr
  BY AddrAssumption DEF BlockTypes, BargType, CommitTarget, ReadReg
<1>. QED
  BY <1>1 DEF CommitBoundary, BlockTypes, flow

LEMMA BlockStepTypes == BlockTypes /\ Next => BlockTypes'
<1>. SUFFICES ASSUME BlockTypes, Next
              PROVE  BlockTypes'
  OBVIOUS
<1>1. ASSUME NEW form \in Forms, NEW target \in Targets(form),
             RefuseBStart(form, target)
      PROVE  BlockTypes'
  BY <1>1, FormTypes DEF RefuseBStart, BlockTypes, flow, Traps, TrapCfi
<1>2. ASSUME NEW form \in Forms, NEW target \in Targets(form),
             AcceptBStart(form, target)
      PROVE  BlockTypes'
  <2>1. target \in Addr
    BY DEF Targets, BlockTypes
  <2>2. pc' \in Addr /\ tpc' \in Addr
    BY <1>2, CommitAddr DEF AcceptBStart
  <2>3. barg' \in BargType
    BY <1>2, <2>1, <2>2, FormTypes DEF AcceptBStart, BargAtStart, BargType
  <2>. QED
    BY <1>2, <2>2, <2>3, FormTypes DEF AcceptBStart, BlockTypes
<1>3. CASE BStop
  <2>1. pc' \in Addr /\ tpc' \in Addr
    BY <1>3, CommitAddr DEF BStop
  <2>2. HeaderTrap(contract, seen) \in Traps
    BY HeaderTrapType DEF BlockTypes
  <2>3. trap' \in Traps \cup AcrTraps
    BY <1>3, <2>2 DEF BStop, ValidateHeader, BlockTypes
  <2>4. barg' \in BargType
    BY <1>3 DEF BStop, BlockTypes, BargType
  <2>. QED
    BY <1>3, <2>1, <2>3, <2>4 DEF BStop, BlockTypes
<1>4. CASE SetC
  <2>1. barg' \in BargType
    BY <1>4 DEF SetC, BlockTypes, BargType
  <2>. QED
    BY <1>4, <2>1 DEF SetC, BlockTypes, flow
<1>5. CASE SetCTgt
  <2>1. barg' \in BargType
    BY <1>5 DEF SetCTgt, BlockTypes, BargType
  <2>. QED
    BY <1>5, <2>1 DEF SetCTgt, BlockTypes, flow
<1>6. CASE BDim
  BY <1>6 DEF BDim, BlockTypes, flow
<1>7. CASE BMark
  BY <1>7 DEF BMark, BlockTypes, flow
<1>8. ASSUME NEW src0 \in Gpr \cup {0}, NEW src1 \in Gpr \cup {0},
             NEW src2 \in Gpr \cup {0}, BIor(src0, src1, src2)
      PROVE  BlockTypes'
  BY <1>8 DEF BIor, BlockTypes, flow
<1>9. CASE BCatr \/ SsrSetLc1
  BY <1>9 DEF BCatr, SsrSetLc1, BlockTypes, flow
<1>10. CASE WriteReg
  BY <1>10 DEF WriteReg, BlockTypes, flow
<1>11. CASE Fetch
  BY <1>11 DEF Fetch, BlockTypes
<1>. QED
  BY <1>1, <1>2, <1>3, <1>4, <1>5, <1>6, <1>7, <1>8, <1>9, <1>10, <1>11 DEF Next, BStart

(* The words of a context are its fields. *)
LEMMA ContextDomain ==
  ASSUME NEW c \in Context
  PROVE  DOMAIN c = {"cs", "pc", "tpc", "cur", "tgt", "carg"}
BY DEF Context

LEMMA WordsOfContext ==
  ASSUME NEW len
  PROVE  Words(len) \subseteq {"cs", "pc", "tpc", "cur", "tgt", "carg"}
<1>1. \A i \in 1 .. 6 : Layout[i] \in {"cs", "pc", "tpc", "cur", "tgt", "carg"}
  BY DEF Layout
<1>. QED
  BY <1>1 DEF Words

(* Overlaying one context with another gives, word by word, the one or the other. *)
LEMMA OverlayFields ==
  ASSUME NEW c \in Context, NEW d \in Context, NEW words
  PROVE  /\ Overlay(c, d, words).cs   = IF "cs" \in words THEN d.cs ELSE c.cs
         /\ Overlay(c, d, words).pc   = IF "pc" \in words THEN d.pc ELSE c.pc
         /\ Overlay(c, d, words).tpc  = IF "tpc" \in words THEN d.tpc ELSE c.tpc
         /\ Overlay(c, d, words).cur  = IF "cur" \in words THEN d.cur ELSE c.cur
         /\ Overlay(c, d, words).tgt  = IF "tgt" \in words THEN d.tgt ELSE c.tgt
         /\ Overlay(c, d, words).carg = IF "carg" \in words THEN d.carg ELSE c.carg
BY ContextDomain DEF Overlay

LEMMA ContextOfFields ==
  ASSUME NEW cs \in Cstate, NEW at \in Addr, NEW resume \in Addr, NEW cur \in Addr,
         NEW tgt \in Addr, NEW carg \in {0, 1}
  PROVE  [cs |-> cs, pc |-> at, tpc |-> resume, cur |-> cur, tgt |-> tgt, carg |-> carg]
           \in Context
BY DEF Context

LEMMA OverlayType ==
  ASSUME NEW c \in Context, NEW d \in Context, NEW words
  PROVE  Overlay(c, d, words) \in Context
<1>. DEFINE o == Overlay(c, d, words)
<1>1. o = [w \in {"cs", "pc", "tpc", "cur", "tgt", "carg"} |-> IF w \in words THEN d[w] ELSE c[w]]
  BY ContextDomain DEF Overlay
<1>2. /\ o.cs \in Cstate
      /\ o.pc \in Addr /\ o.tpc \in Addr /\ o.cur \in Addr /\ o.tgt \in Addr
      /\ o.carg \in {0, 1}
  BY <1>1 DEF Context
<1>3. o = [cs |-> o.cs, pc |-> o.pc, tpc |-> o.tpc, cur |-> o.cur, tgt |-> o.tgt,
           carg |-> o.carg]
  BY <1>1
<1>. HIDE DEF o
<1>4. [cs |-> o.cs, pc |-> o.pc, tpc |-> o.tpc, cur |-> o.cur, tgt |-> o.tgt,
       carg |-> o.carg] \in Context
  BY <1>2, ContextOfFields
<1>. QED
  BY <1>3, <1>4 DEF o

LEMMA CurrentType ==
  ASSUME AcrIInv
  PROVE  Current \in Context
<1>1. /\ cstate \in Cstate /\ pc \in Addr /\ tpc \in Addr
      /\ barg.bpcCur \in Addr /\ barg.bpcTgt \in Addr /\ barg.carg \in {0, 1}
  BY DEF AcrIInv, AcrTypeOK
<1>. QED
  BY <1>1, ContextOfFields DEF Current

LEMMA BankType == RingTypes => \A a \in Acr : bank[a] \in Bank
BY DEF RingTypes

LEMMA ZeroBankType == ZeroBank \in Bank
BY AddrAssumption, CstateAssumption, ExtAssumption, LenModAssumption
DEF ZeroBank, Bank, ZeroCstate, Cstate

LEMMA BankOfType ==
  ASSUME RingTypes, NEW a
  PROVE  BankOf(a) \in Bank
BY BankType, ZeroBankType DEF BankOf

LEMMA PutType ==
  ASSUME RingTypes, NEW a, NEW b \in Bank
  PROVE  Put(bank, a, b) \in [Acr -> Bank]
BY DEF Put, RingTypes

LEMMA MetaLenType ==
  ASSUME NEW len \in Nat
  PROVE  MetaLen(len) \in 0 .. LenMod - 1
BY LenModAssumption DEF MetaLen

(* What an ACRE takes from a bank is a context. *)
LEMMA ReturnedType ==
  ASSUME AcrIInv, NEW b \in Bank
  PROVE  Returned(b) \in Context
<1>1. /\ b.ec \in Cstate /\ b.cur \in Addr /\ b.tgt \in Addr /\ b.tpc \in Addr
      /\ barg.carg \in {0, 1}
  BY DEF Bank, AcrIInv, AcrTypeOK
<1>2. (IF b.ec.bi THEN b.tpc ELSE b.cur) \in Addr
  BY <1>1
<1>. QED
  BY <1>1, <1>2, ContextOfFields DEF Returned

(* Registers that become those of a context are well typed. *)
LEMMA BecomeTypes ==
  ASSUME AcrIInv, NEW c \in Context, Become(c),
         UNCHANGED <<rest, trap, bank, xbinfo, ext, dispatch>>
  PROVE  AcrIInv'
<1>1. /\ c.cs \in Cstate /\ c.pc \in Addr /\ c.tpc \in Addr /\ c.cur \in Addr
      /\ c.tgt \in Addr /\ c.carg \in {0, 1}
  BY DEF Context
<1>2. barg' \in BargType
  BY <1>1 DEF Become, AcrIInv, AcrTypeOK, BargType
<1>3. BlockTypes'
  BY <1>1, <1>2, TypesSplit DEF Become, BlockTypes, rest
<1>4. RingTypes'
  BY <1>1, TypesSplit DEF Become, RingTypes
<1>. QED
  BY <1>3, <1>4, TypesSplit DEF AcrIInv, AcrTypeOK, BlockTypes, RingTypes, BargType

(* A trap of the rings. *)
LEMMA AcrTrapTypes ==
  ASSUME pc \in Addr
  PROVE  /\ \A e \in {"illegal", "param", "perm", "xbid", "xbdef"} : EInst(e) \in AcrTraps
         /\ \A type \in RequestTypes : Scall(type) \in AcrTraps
<1>1. \A type \in RequestTypes : Scall(type) \in AcrTraps
  BY DEF Scall, AcrTraps
<1>2. \A e \in {"illegal", "param", "perm", "xbid", "xbdef"} : EInst(e) \in AcrTraps
  BY DEF EInst, AcrTraps
<1>. QED
  BY <1>1, <1>2

LEMMA AcrcTypes ==
  ASSUME AcrIInv, NEW type \in RequestTypes, Acrc(type)
  PROVE  AcrIInv'
<1>1. BlockTypes /\ RingTypes
  BY TypesSplit
<1>. DEFINE b == [BankOf(cstate.acr) EXCEPT !.ec = [cstate EXCEPT !.bi = TRUE],
                    !.cur = barg.bpcCur, !.tgt = barg.bpcTgt, !.tpc = tpc]
<1>2. BankOf(cstate.acr) \in Bank
  BY <1>1, BankOfType
<1>3. b \in Bank
  <2>1. [cstate EXCEPT !.bi = TRUE] \in Cstate
    BY <1>1 DEF RingTypes, Cstate
  <2>2. barg.bpcCur \in Addr /\ barg.bpcTgt \in Addr /\ tpc \in Addr
    BY <1>1 DEF BlockTypes, BargType
  <2>. QED
    BY <1>2, <2>1, <2>2 DEF Bank
<1>4. bank' \in [Acr -> Bank]
  BY <1>1, <1>3, PutType DEF Acrc
<1>5. trap' \in Traps \cup AcrTraps
  BY <1>1, AcrTrapTypes DEF Acrc, BlockTypes
<1>. QED
  BY <1>4, <1>5 DEF Acrc, AcrIInv, AcrTypeOK, rest

LEMMA AcreTypes ==
  ASSUME AcrIInv, NEW type, Acre(type)
  PROVE  AcrIInv'
<1>. DEFINE b == BankOf(cstate.acr)
            r == Returned(b)
            o == Overlay(r, ext[b.ptr], Words(b.len))
<1>1. BlockTypes /\ RingTypes
  BY TypesSplit
<1>2. b \in Bank /\ r \in Context
  BY <1>1, BankOfType, ReturnedType
<1>3. o \in Context
  <2>1. ext[b.ptr] \in Context
    BY <1>1, <1>2 DEF RingTypes, Bank
  <2>. HIDE DEF r, b
  <2>. QED
    BY <1>2, <2>1, OverlayType
<1>4. CASE trap' \in AcrTraps /\ UNCHANGED <<pc, tpc, barg, rest, acrRegs>>
  BY <1>4 DEF AcrIInv, AcrTypeOK, rest, acrRegs
<1>5. ASSUME NEW c \in {r, o}, Become(c),
             UNCHANGED <<rest, trap, bank, xbinfo, ext, dispatch>>
      PROVE  AcrIInv'
  <2>1. c \in Context
    BY <1>2, <1>3
  <2>. QED
    BY <1>5, <2>1, BecomeTypes
<1>6. EInst("illegal") \in AcrTraps /\ EInst("param") \in AcrTraps
  BY <1>1, AcrTrapTypes DEF BlockTypes
<1>. QED
  BY <1>4, <1>5, <1>6 DEF Acre

LEMMA EsaveTypes ==
  ASSUME AcrIInv, NEW src0 \in ExtBase, NEW src1 \in ExtLen, NEW src2 \in ExtLen,
         Esave(src0, src1, src2)
  PROVE  AcrIInv'
<1>. DEFINE b == [BankOf(cstate.acr) EXCEPT !.ptr = src0, !.len = MetaLen(src2)]
<1>1. BlockTypes /\ RingTypes
  BY TypesSplit
<1>2. b \in Bank
  <2>1. BankOf(cstate.acr) \in Bank /\ MetaLen(src2) \in 0 .. LenMod - 1
    BY <1>1, BankOfType, MetaLenType, ExtAssumption
  <2>. QED
    BY <2>1 DEF Bank
<1>3. bank' \in [Acr -> Bank]
  BY <1>1, <1>2, PutType DEF Esave
<1>4. ext' \in [ExtBase -> Context]
  <2>1. Overlay(ext[src0], Current, Words(src2)) \in Context
    BY <1>1, CurrentType, OverlayType DEF RingTypes
  <2>. QED
    BY <1>1, <2>1 DEF Esave, RingTypes
<1>. QED
  BY <1>3, <1>4 DEF Esave, AcrIInv, AcrTypeOK, vars

LEMMA ErcovTypes ==
  ASSUME AcrIInv, NEW src0 \in ExtBase, NEW src2 \in ExtLen \cup {0}, Ercov(src0, src2)
  PROVE  AcrIInv'
<1>1. BlockTypes /\ RingTypes
  BY TypesSplit
<1>2. BankOf(cstate.acr) \in Bank
  BY <1>1, BankOfType
<1>3. ext[ErcovBase(src0)] \in Context
  BY <1>1, <1>2 DEF ErcovBase, Bank, RingTypes
<1>4. Overlay(Current, ext[ErcovBase(src0)], Words(ErcovLen(src2))) \in Context
  BY <1>3, CurrentType, OverlayType
<1>. QED
  BY <1>4, BecomeTypes DEF Ercov

LEMMA SsrSetBankTypes ==
  ASSUME AcrIInv, NEW id, NEW f \in BankFields, SsrSetBank(id, f)
  PROVE  AcrIInv'
<1>1. BlockTypes /\ RingTypes
  BY TypesSplit
<1>2. PICK v \in FieldValues(f) :
        bank' = Put(bank, cstate.acr, [BankOf(cstate.acr) EXCEPT ![f] = v])
  BY DEF SsrSetBank
<1>. DEFINE b == BankOf(cstate.acr)
<1>3. b \in Bank
  BY <1>1, BankOfType
<1>4. [b EXCEPT ![f] = v] \in Bank
  <2>. HIDE DEF b
  <2>1. CASE f = "ec"
    BY <1>3, <2>1, CstateAssumption DEF FieldValues, Bank
  <2>2. CASE f = "ptr"
    BY <1>3, <2>2 DEF FieldValues, Bank
  <2>3. CASE f = "len"
    <3>1. v \in 0 .. LenMod - 1
      BY <2>3, MetaLenType, ExtAssumption DEF FieldValues
    <3>. QED
      BY <1>3, <2>3, <3>1 DEF Bank
  <2>4. CASE f \in {"cur", "tgt", "tpc"}
    <3>1. v \in Addr
      BY <2>4 DEF FieldValues
    <3>. QED
      BY <1>3, <2>4, <3>1 DEF Bank
  <2>. QED
    BY <2>1, <2>2, <2>3, <2>4, FieldsAssumption
<1>5. bank' \in [Acr -> Bank]
  BY <1>1, <1>2, <1>4, PutType
<1>. QED
  BY <1>5 DEF SsrSetBank, AcrIInv, AcrTypeOK, vars

LEMMA XbTypes ==
  ASSUME AcrIInv, NEW id \in XbIds, NEW cid \in 0 .. 1, Xb(id, cid)
  PROVE  AcrIInv'
<1>1. BlockTypes /\ RingTypes
  BY TypesSplit
<1>2. /\ EInst("perm") \in AcrTraps /\ EInst("xbid") \in AcrTraps
      /\ EInst("xbdef") \in AcrTraps
  BY <1>1, AcrTrapTypes DEF BlockTypes
<1>3. trap' \in Traps \cup AcrTraps
  BY <1>1, <1>2 DEF Xb, BlockTypes
<1>4. dispatch' \in [acr : Acr, entry : (CacTables \X (0 .. 127)) \cup {<<0, 0>>}]
  <2>. DEFINE target == id % 16
              table  == IF target \in Acr THEN xbinfo[target] ELSE 0
  <2>1. CASE <<table, cid>> \in CacDefined
    <3>1. <<table, cid>> \in CacTables \X (0 .. 127) /\ table # 0
      BY <2>1, CacAssumption, XbAssumption
    <3>2. target \in Acr
      BY <3>1
    <3>3. dispatch' = [acr |-> target, entry |-> <<table, cid>>]
      BY <2>1 DEF Xb
    <3>. HIDE DEF target, table
    <3>. QED
      BY <3>1, <3>2, <3>3
  <2>2. CASE <<table, cid>> \notin CacDefined
    BY <1>1, <2>2 DEF Xb, RingTypes
  <2>. QED
    BY <2>1, <2>2
<1>. QED
  BY <1>3, <1>4 DEF Xb, AcrIInv, AcrTypeOK, rest

LEMMA AcrInitTypes == AcrInit => AcrIInv
<1>. SUFFICES ASSUME AcrInit
              PROVE  AcrIInv
  OBVIOUS
<1>1. BlockTypes
  BY AddrAssumption DEF AcrInit, Init, BlockTypes, BargType, XferKind, Traps
<1>2. ZeroCstate \in Cstate
  BY CstateAssumption DEF ZeroCstate, Cstate
<1>3. ZeroContext \in Context
  BY <1>2, AddrAssumption, ContextOfFields DEF ZeroContext
<1>4. RingTypes
  BY <1>2, <1>3, ZeroBankType DEF AcrInit, RingTypes, NoDispatch, Acr
<1>. QED
  BY <1>1, <1>4, TypesSplit

LEMMA AcrNextTypes == AcrIInv /\ [AcrNext]_acrVars => AcrIInv'
<1>. SUFFICES ASSUME AcrIInv, [AcrNext]_acrVars
              PROVE  AcrIInv'
  OBVIOUS
<1>1. CASE BlockStep
  <2>1. BlockTypes' /\ RingTypes'
    BY <1>1, TypesSplit, BlockStepTypes DEF BlockStep, acrRegs, RingTypes
  <2>. QED
    BY <2>1 DEF AcrIInv, AcrTypeOK, BlockTypes, RingTypes, BargType
<1>2. CASE SsrSetCstate
  BY <1>2, CstateAssumption DEF SsrSetCstate, AcrIInv, AcrTypeOK, vars
<1>3. ASSUME NEW table \in CacTables, SsrSetXbinfo(table)
      PROVE  AcrIInv'
  <2>1. EInst("illegal") \in AcrTraps
    BY AcrTrapTypes DEF AcrIInv, AcrTypeOK
  <2>. QED
    BY <1>3, <2>1 DEF SsrSetXbinfo, AcrIInv, AcrTypeOK, rest
<1>4. CASE UNCHANGED acrVars
  BY <1>4 DEF acrVars, acrRegs, vars, AcrIInv, AcrTypeOK
<1>. QED
  BY <1>1, <1>2, <1>3, <1>4, AcrcTypes, AcreTypes, EsaveTypes, ErcovTypes, SsrSetBankTypes,
     XbTypes DEF AcrNext

(* The registers of the rings, their banks and the buffers stay well formed *)
(* whatever software writes into them: a recorded length fits its field, a  *)
(* dispatched call has a table, and the ring is one of sixteen.             *)
THEOREM AcrTypeCorrect == AcrSpec => []AcrTypeOK
<1>1. AcrIInv => AcrTypeOK
  BY DEF AcrIInv
<1>. QED
  BY <1>1, AcrInitTypes, AcrNextTypes, PTL DEF AcrSpec

-----------------------------------------------------------------------------
(* A return resumes what its ring's request interrupted *)

(* Every step of the history is a step of the rings. *)
LEMMA HistStep == [HistNext]_histVars => [AcrNext]_acrVars
BY DEF HistNext, histVars, AcrNext, HistRequest, HistSave, HistRestore, HistSsrSet, HistOther

LEMMA HistAcrInv == HistSpec => []AcrIInv
<1>1. HistInit => AcrIInv
  BY AcrInitTypes DEF HistInit
<1>. QED
  BY <1>1, HistStep, AcrNextTypes, PTL DEF HistSpec

(* Only the bank of the ring that executes a write changes. *)
LEMMA PutFields ==
  ASSUME RingTypes, NEW a, NEW b
  PROVE  /\ \A r \in Acr : r # a => Put(bank, a, b)[r] = bank[r]
         /\ a \in Acr => Put(bank, a, b)[a] = b
BY DEF Put, RingTypes

LEMMA CaptureFields ==
  ASSUME NEW h, h = [a \in Acr |-> h[a]], NEW a, NEW c
  PROVE  Capture(h, a, c) = [r \in Acr |-> IF r = a THEN c ELSE h[r]]
BY DEF Capture

LEMMA VoidFields ==
  ASSUME NEW h, h = [a \in Acr |-> h[a]], NEW a
  PROVE  Void(h, a) = [r \in Acr |-> IF r = a THEN Nothing ELSE h[r]]
BY DEF Void

LEMMA AskedInit == HistInit => AskedInv
BY DEF HistInit, AskedInv

(* The history does not change, and no bank changes what a request left. *)
LEMMA AskedKeeps ==
  ASSUME AskedInv, asked' = asked,
         \A a \in Acr : /\ bank'[a].ec = bank[a].ec /\ bank'[a].cur = bank[a].cur
                        /\ bank'[a].tgt = bank[a].tgt /\ bank'[a].tpc = bank[a].tpc
  PROVE  AskedInv'
BY DEF AskedInv, HoldsRequest

LEMMA AskedRequest ==
  ASSUME AcrIInv, AskedInv, HistRequest
  PROVE  AskedInv'
<1>1. PICK type \in RequestTypes : Acrc(type)
  BY DEF HistRequest
<1>. DEFINE ring == cstate.acr
            b == [BankOf(ring) EXCEPT !.ec = [cstate EXCEPT !.bi = TRUE],
                    !.cur = barg.bpcCur, !.tgt = barg.bpcTgt, !.tpc = tpc]
<1>2. RingTypes
  BY TypesSplit
<1>3. asked' = [r \in Acr |-> IF r = ring THEN Request ELSE asked[r]]
  BY CaptureFields DEF HistRequest, AskedInv
<1>4. /\ Request.context.cs = cstate /\ Request.context.tpc = tpc
      /\ Request.context.cur = barg.bpcCur /\ Request.context.tgt = barg.bpcTgt
  BY DEF Request, Current
<1>5. HoldsRequest(b, ring, Request.context)
  <2>1. /\ b.ec = [cstate EXCEPT !.bi = TRUE] /\ b.cur = barg.bpcCur
        /\ b.tgt = barg.bpcTgt /\ b.tpc = tpc
    BY <1>2, BankOfType DEF Bank
  <2>2. [cstate EXCEPT !.bi = TRUE].bi = TRUE /\ [cstate EXCEPT !.bi = TRUE].acr = cstate.acr
    BY <1>2 DEF RingTypes, Cstate
  <2>. HIDE DEF b
  <2>. QED
    BY <1>4, <2>1, <2>2 DEF HoldsRequest
<1>6. bank' = Put(bank, ring, b)
  BY <1>1 DEF Acrc
<1>. HIDE DEF b
<1>7. /\ \A r \in Acr : r # ring => bank'[r] = bank[r]
      /\ ring \in Acr => bank'[ring] = b
  BY <1>2, <1>6, PutFields
<1>. HIDE DEF ring
<1>8. asked' = [a \in Acr |-> asked'[a]]
  BY <1>3
<1>9. ASSUME NEW a \in Acr, asked'[a] # Nothing
      PROVE  HoldsRequest(bank'[a], a, asked'[a].context)
  <2>1. CASE a = ring
    <3>1. asked'[a] = Request /\ bank'[a] = b
      BY <1>3, <1>7, <2>1
    <3>. QED
      BY <1>5, <2>1, <3>1
  <2>2. CASE a # ring
    <3>1. asked'[a] = asked[a] /\ bank'[a] = bank[a]
      BY <1>3, <1>7, <2>2
    <3>. QED
      BY <1>9, <3>1 DEF AskedInv
  <2>. QED
    BY <2>1, <2>2
<1>. QED
  BY <1>8, <1>9 DEF AskedInv

(* A save writes the pointer and the length of a bank, nothing else. *)
LEMMA AskedSave ==
  ASSUME AcrIInv, AskedInv, HistSave
  PROVE  AskedInv'
<1>1. PICK src0 \in ExtBase, src1 \in ExtLen, src2 \in ExtLen :
        Esave(src0, src1, src2) /\ asked' = asked
  BY DEF HistSave
<1>. DEFINE b == [BankOf(cstate.acr) EXCEPT !.ptr = src0, !.len = MetaLen(src2)]
<1>2. RingTypes
  BY TypesSplit
<1>3. bank' = Put(bank, cstate.acr, b)
  BY <1>1 DEF Esave
<1>4. cstate.acr \in Acr => /\ b.ec = bank[cstate.acr].ec /\ b.cur = bank[cstate.acr].cur
                            /\ b.tgt = bank[cstate.acr].tgt /\ b.tpc = bank[cstate.acr].tpc
  BY <1>2, BankType DEF BankOf, Bank
<1>. HIDE DEF b
<1>5. \A r \in Acr : r # cstate.acr => bank'[r] = bank[r]
  BY <1>2, <1>3, PutFields
<1>6. cstate.acr \in Acr => bank'[cstate.acr] = b
  BY <1>2, <1>3, PutFields
<1>. QED
  BY <1>1, <1>4, <1>5, <1>6, AskedKeeps

LEMMA AskedSsrSet ==
  ASSUME AcrIInv, AskedInv, HistSsrSet
  PROVE  AskedInv'
<1>1. PICK f \in BankFields :
        /\ \E v \in FieldValues(f) :
             bank' = Put(bank, cstate.acr, [BankOf(cstate.acr) EXCEPT ![f] = v])
        /\ asked' = IF f \in {"ec", "cur", "tgt", "tpc"} THEN Void(asked, cstate.acr) ELSE asked
  BY DEF HistSsrSet, SsrSetBank
<1>2. PICK v \in FieldValues(f) :
        bank' = Put(bank, cstate.acr, [BankOf(cstate.acr) EXCEPT ![f] = v])
  BY <1>1
<1>. DEFINE b == [BankOf(cstate.acr) EXCEPT ![f] = v]
<1>3. RingTypes
  BY TypesSplit
<1>4. \A r \in Acr : r # cstate.acr => bank'[r] = bank[r]
  BY <1>2, <1>3, PutFields
<1>5. cstate.acr \in Acr => bank'[cstate.acr] = b
  BY <1>2, <1>3, PutFields
<1>6. CASE f \in {"ec", "cur", "tgt", "tpc"}
  <2>1. asked' = [r \in Acr |-> IF r = cstate.acr THEN Nothing ELSE asked[r]]
    <3>1. asked' = Void(asked, cstate.acr)
      BY <1>1, <1>6
    <3>. QED
      BY <3>1, VoidFields DEF AskedInv
  <2>2. ASSUME NEW a \in Acr, asked'[a] # Nothing
        PROVE  HoldsRequest(bank'[a], a, asked'[a].context)
    <3>1. a # cstate.acr /\ asked'[a] = asked[a]
      BY <2>1, <2>2
    <3>2. bank'[a] = bank[a]
      BY <1>4, <3>1
    <3>. QED
      BY <2>2, <3>1, <3>2 DEF AskedInv
  <2>3. asked' = [a \in Acr |-> asked'[a]]
    BY <2>1
  <2>. QED
    BY <2>2, <2>3 DEF AskedInv
<1>7. CASE f \in {"ptr", "len"}
  <2>1. cstate.acr \in Acr => /\ b.ec = bank[cstate.acr].ec /\ b.cur = bank[cstate.acr].cur
                              /\ b.tgt = bank[cstate.acr].tgt /\ b.tpc = bank[cstate.acr].tpc
    BY <1>3, <1>7, BankType DEF BankOf, Bank
  <2>. HIDE DEF b
  <2>2. asked' = asked
    BY <1>1, <1>7
  <2>. QED
    BY <1>4, <1>5, <2>1, <2>2, AskedKeeps
<1>. QED
  BY <1>6, <1>7, FieldsAssumption

LEMMA AskedNext == AcrIInv /\ AskedInv /\ [HistNext]_histVars => AskedInv'
<1>. SUFFICES ASSUME AcrIInv, AskedInv, [HistNext]_histVars
              PROVE  AskedInv'
  OBVIOUS
<1>1. CASE HistRestore
  <2>1. asked' = asked /\ bank' = bank
    BY <1>1 DEF HistRestore, Acre, Ercov, acrRegs
  <2>. QED
    BY <2>1, AskedKeeps
<1>2. CASE HistOther
  <2>1. asked' = asked /\ bank' = bank
    BY <1>2 DEF HistOther, BlockStep, acrRegs, SsrSetCstate, SsrSetXbinfo, Xb
  <2>. QED
    BY <2>1, AskedKeeps
<1>3. CASE UNCHANGED histVars
  <2>1. asked' = asked /\ bank' = bank
    BY <1>3 DEF histVars, acrVars, acrRegs
  <2>. QED
    BY <2>1, AskedKeeps
<1>. QED
  BY <1>1, <1>2, <1>3, AskedRequest, AskedSave, AskedSsrSet DEF HistNext

(* What ACRE puts into the registers when its bank holds a request. *)
LEMMA ReturnGives ==
  ASSUME AcrIInv, AskedInv, cstate.acr \in Acr, asked[cstate.acr] # Nothing, Acre(0)
  PROVE  LET c == asked[cstate.acr].context
         IN  /\ cstate' = [c.cs EXCEPT !.bi = TRUE]
             /\ barg'.valid /\ barg'.bpcCur = c.cur /\ barg'.bpcTgt = c.tgt
             /\ pc' = c.cur /\ tpc' = c.tpc
<1>. DEFINE b == bank[cstate.acr]
            c == asked[cstate.acr].context
<1>1. HoldsRequest(b, cstate.acr, c)
  BY DEF AskedInv
<1>2. BankOf(cstate.acr) = b
  BY DEF BankOf
<1>3. cstate.acr \in 0 .. 15
  BY DEF AcrIInv, AcrTypeOK, Cstate
<1>. HIDE DEF b, c
<1>4. ~(b.ec.acr < cstate.acr)
  BY <1>1, <1>3 DEF HoldsRequest
<1>5. Become(Returned(b))
  BY <1>2, <1>4 DEF Acre
<1>6. /\ cstate' = b.ec /\ pc' = b.cur /\ tpc' = b.tpc
      /\ barg' = [barg EXCEPT !.valid = TRUE, !.bpcCur = b.cur, !.bpcTgt = b.tgt, !.carg = barg.carg]
  BY <1>1, <1>5 DEF Become, Returned, HoldsRequest
<1>7. barg'.valid /\ barg'.bpcCur = b.cur /\ barg'.bpcTgt = b.tgt
  BY <1>6 DEF AcrIInv, AcrTypeOK
<1>8. /\ cstate' = [c.cs EXCEPT !.bi = TRUE]
      /\ barg'.valid /\ barg'.bpcCur = c.cur /\ barg'.bpcTgt = c.tgt
      /\ pc' = c.cur /\ tpc' = c.tpc
  BY <1>1, <1>6, <1>7 DEF HoldsRequest
<1>. QED
  BY <1>8 DEF c

(* A return resumes what the ring's last request interrupted: between the   *)
(* two, no block, no request of another ring, no save and no write to a     *)
(* bank register touches what the request left in the ring's bank, and the  *)
(* return is never refused.                                                *)
THEOREM ReturnsResume == HistSpec => ReturnResumesRequest
<1>1. HistInit => AskedInv
  BY AskedInit
<1>2. HistSpec => []AskedInv
  BY <1>1, HistAcrInv, AskedNext, PTL DEF HistSpec
<1>3. AcrIInv /\ AskedInv =>
        [cstate.acr \in Acr /\ asked[cstate.acr] # Nothing /\ Acre(0) =>
           LET c == asked[cstate.acr].context
           IN  /\ cstate' = [c.cs EXCEPT !.bi = TRUE]
               /\ barg'.valid /\ barg'.bpcCur = c.cur /\ barg'.bpcTgt = c.tgt
               /\ pc' = c.cur /\ tpc' = c.tpc]_histVars
  BY ReturnGives
<1>. QED
  BY <1>2, <1>3, HistAcrInv, PTL DEF ReturnResumesRequest

-----------------------------------------------------------------------------
(* A restore brings back what its ring's save captured *)

LEMMA KeptInit == HistInit => KeptInv
BY DEF HistInit, KeptInv

(* The history and the buffers do not change, and no pointer or length does. *)
LEMMA KeptKeeps ==
  ASSUME KeptInv, kept' = kept, ext' = ext,
         \A a \in Acr : bank'[a].ptr = bank[a].ptr /\ bank'[a].len = bank[a].len
  PROVE  KeptInv'
BY DEF KeptInv, HoldsSave

(* A request writes no pointer and no length. *)
LEMMA KeptRequest ==
  ASSUME AcrIInv, KeptInv, HistRequest
  PROVE  KeptInv'
<1>1. PICK type \in RequestTypes : Acrc(type) /\ kept' = kept
  BY DEF HistRequest
<1>. DEFINE b == [BankOf(cstate.acr) EXCEPT !.ec = [cstate EXCEPT !.bi = TRUE],
                    !.cur = barg.bpcCur, !.tgt = barg.bpcTgt, !.tpc = tpc]
<1>2. RingTypes
  BY TypesSplit
<1>3. bank' = Put(bank, cstate.acr, b) /\ ext' = ext
  BY <1>1 DEF Acrc
<1>4. cstate.acr \in Acr => b.ptr = bank[cstate.acr].ptr /\ b.len = bank[cstate.acr].len
  BY <1>2, BankType DEF BankOf, Bank
<1>. HIDE DEF b
<1>5. \A r \in Acr : r # cstate.acr => bank'[r] = bank[r]
  BY <1>2, <1>3, PutFields
<1>6. cstate.acr \in Acr => bank'[cstate.acr] = b
  BY <1>2, <1>3, PutFields
<1>. QED
  BY <1>1, <1>3, <1>4, <1>5, <1>6, KeptKeeps

(* The words that a save writes are those it will have to restore. *)
LEMMA OverlayWrites ==
  ASSUME NEW old \in Context, NEW new, NEW len
  PROVE  \A w \in Words(len) : Overlay(old, new, Words(len))[w] = new[w]
<1>1. \A w \in Words(len) : w \in DOMAIN old
  BY ContextDomain, WordsOfContext
<1>. QED
  BY <1>1 DEF Overlay

LEMMA KeptSave ==
  ASSUME AcrIInv, KeptInv, HistSave
  PROVE  KeptInv'
<1>1. PICK src0 \in ExtBase, src1 \in ExtLen, src2 \in ExtLen :
        /\ Esave(src0, src1, src2)
        /\ kept' = Capture([a \in Acr |-> IF kept[a].base = src0 THEN Nothing ELSE kept[a]],
                           cstate.acr, Saved(src0, src2))
  BY DEF HistSave
<1>. DEFINE ring == cstate.acr
            b == [BankOf(ring) EXCEPT !.ptr = src0, !.len = MetaLen(src2)]
            h == [a \in Acr |-> IF kept[a].base = src0 THEN Nothing ELSE kept[a]]
            s == Saved(src0, src2)
<1>2. RingTypes
  BY TypesSplit
<1>3. kept' = [r \in Acr |-> IF r = ring THEN s ELSE h[r]]
  <2>1. h = [a \in Acr |-> h[a]]
    OBVIOUS
  <2>. HIDE DEF h, s, ring
  <2>2. kept' = Capture(h, ring, s)
    BY <1>1 DEF h, s, ring
  <2>. QED
    BY <2>1, <2>2, CaptureFields
<1>4. bank' = Put(bank, ring, b) /\ ext' = [ext EXCEPT ![src0] = Overlay(@, Current, Words(src2))]
  BY <1>1 DEF Esave
<1>5. ext' = [e \in ExtBase |-> IF e = src0 THEN Overlay(ext[e], Current, Words(src2)) ELSE ext[e]]
  BY <1>2, <1>4 DEF RingTypes
<1>6. s.base = src0 /\ s.len = src2 /\ s.context = Current
  BY DEF Saved
<1>7. b.ptr = src0 /\ b.len = MetaLen(src2)
  BY <1>2, BankOfType DEF Bank
<1>8. \A w \in Words(src2) : ext'[src0][w] = Current[w]
  <2>1. ext[src0] \in Context
    BY <1>2 DEF RingTypes
  <2>. QED
    BY <1>5, <2>1, OverlayWrites
<1>. HIDE DEF b, s
<1>9. /\ \A r \in Acr : r # ring => bank'[r] = bank[r]
      /\ ring \in Acr => bank'[ring] = b
  BY <1>2, <1>4, PutFields
<1>. HIDE DEF ring
<1>10. ASSUME NEW a \in Acr, kept'[a] # Nothing
       PROVE  HoldsSave(bank'[a], ext', kept'[a])
  <2>1. CASE a = ring
    <3>1. kept'[a] = s /\ bank'[a] = b
      BY <1>3, <1>9, <2>1
    <3>2. HoldsSave(b, ext', s)
      BY <1>6, <1>7, <1>8 DEF HoldsSave
    <3>. QED
      BY <3>1, <3>2
  <2>2. CASE a # ring
    <3>1. kept'[a] = kept[a] /\ kept[a] # Nothing /\ kept[a].base # src0 /\ bank'[a] = bank[a]
      BY <1>3, <1>9, <1>10, <2>2
    <3>2. HoldsSave(bank[a], ext, kept[a])
      BY <3>1 DEF KeptInv
    <3>3. kept[a].base \in ExtBase /\ ext'[kept[a].base] = ext[kept[a].base]
      BY <1>5, <3>1, <3>2 DEF HoldsSave
    <3>4. HoldsSave(bank[a], ext', kept[a])
      BY <3>2, <3>3 DEF HoldsSave
    <3>. QED
      BY <3>1, <3>4
  <2>. QED
    BY <2>1, <2>2
<1>11. kept' = [a \in Acr |-> kept'[a]]
  BY <1>3
<1>. QED
  BY <1>10, <1>11 DEF KeptInv

LEMMA KeptSsrSet ==
  ASSUME AcrIInv, KeptInv, HistSsrSet
  PROVE  KeptInv'
<1>1. PICK f \in BankFields :
        /\ \E v \in FieldValues(f) :
             bank' = Put(bank, cstate.acr, [BankOf(cstate.acr) EXCEPT ![f] = v])
        /\ kept' = IF f \in {"ptr", "len"} THEN Void(kept, cstate.acr) ELSE kept
        /\ ext' = ext
  BY DEF HistSsrSet, SsrSetBank
<1>2. PICK v \in FieldValues(f) :
        bank' = Put(bank, cstate.acr, [BankOf(cstate.acr) EXCEPT ![f] = v])
  BY <1>1
<1>. DEFINE b == [BankOf(cstate.acr) EXCEPT ![f] = v]
<1>3. RingTypes
  BY TypesSplit
<1>4. \A r \in Acr : r # cstate.acr => bank'[r] = bank[r]
  BY <1>2, <1>3, PutFields
<1>5. cstate.acr \in Acr => bank'[cstate.acr] = b
  BY <1>2, <1>3, PutFields
<1>6. CASE f \in {"ptr", "len"}
  <2>1. kept' = [r \in Acr |-> IF r = cstate.acr THEN Nothing ELSE kept[r]]
    <3>1. kept' = Void(kept, cstate.acr)
      BY <1>1, <1>6
    <3>. QED
      BY <3>1, VoidFields DEF KeptInv
  <2>2. ASSUME NEW a \in Acr, kept'[a] # Nothing
        PROVE  HoldsSave(bank'[a], ext', kept'[a])
    <3>1. a # cstate.acr /\ kept'[a] = kept[a]
      BY <2>1, <2>2
    <3>2. bank'[a] = bank[a] /\ ext' = ext
      BY <1>1, <1>4, <3>1
    <3>. QED
      BY <2>2, <3>1, <3>2 DEF KeptInv
  <2>3. kept' = [a \in Acr |-> kept'[a]]
    BY <2>1
  <2>. QED
    BY <2>2, <2>3 DEF KeptInv
<1>7. CASE f \in {"ec", "cur", "tgt", "tpc"}
  <2>1. cstate.acr \in Acr => b.ptr = bank[cstate.acr].ptr /\ b.len = bank[cstate.acr].len
    BY <1>3, <1>7, BankType DEF BankOf, Bank
  <2>. HIDE DEF b
  <2>2. kept' = kept /\ ext' = ext
    BY <1>1, <1>7
  <2>. QED
    BY <1>4, <1>5, <2>1, <2>2, KeptKeeps
<1>. QED
  BY <1>6, <1>7, FieldsAssumption

LEMMA KeptNext == AcrIInv /\ KeptInv /\ [HistNext]_histVars => KeptInv'
<1>. SUFFICES ASSUME AcrIInv, KeptInv, [HistNext]_histVars
              PROVE  KeptInv'
  OBVIOUS
<1>1. CASE HistRestore
  <2>1. kept' = kept /\ bank' = bank /\ ext' = ext
    BY <1>1 DEF HistRestore, Acre, Ercov, acrRegs
  <2>. QED
    BY <2>1, KeptKeeps
<1>2. CASE HistOther
  <2>1. kept' = kept /\ bank' = bank /\ ext' = ext
    BY <1>2 DEF HistOther, BlockStep, acrRegs, SsrSetCstate, SsrSetXbinfo, Xb
  <2>. QED
    BY <2>1, KeptKeeps
<1>3. CASE UNCHANGED histVars
  <2>1. kept' = kept /\ bank' = bank /\ ext' = ext
    BY <1>3 DEF histVars, acrVars, acrRegs
  <2>. QED
    BY <2>1, KeptKeeps
<1>. QED
  BY <1>1, <1>2, <1>3, KeptRequest, KeptSave, KeptSsrSet DEF HistNext

(* A length that fits its field is recorded as it is. *)
LEMMA MetaLenFits ==
  ASSUME NEW len \in 0 .. LenMod - 1
  PROVE  MetaLen(len) = len
BY LenModAssumption DEF MetaLen

(* Overlaying with words that agree gives the same context. *)
LEMMA OverlayAgrees ==
  ASSUME NEW old, NEW c, NEW d, NEW words, \A w \in words : c[w] = d[w]
  PROVE  Overlay(old, c, words) = Overlay(old, d, words)
BY DEF Overlay

(* What ERCOV puts into the registers when its bank holds a save. *)
LEMMA RestoreGives ==
  ASSUME AcrIInv, KeptInv, cstate.acr \in Acr, kept[cstate.acr] # Nothing,
         kept[cstate.acr].len \in 0 .. LenMod - 1, Ercov(0, 0)
  PROVE  LET k == kept[cstate.acr]
             w == Overlay(Current, k.context, Words(k.len))
         IN  /\ cstate' = w.cs /\ pc' = w.pc /\ tpc' = w.tpc
             /\ barg'.bpcCur = w.cur /\ barg'.bpcTgt = w.tgt /\ barg'.carg = w.carg
<1>. DEFINE k == kept[cstate.acr]
            w == Overlay(Current, k.context, Words(k.len))
<1>1. HoldsSave(bank[cstate.acr], ext, k)
  BY DEF KeptInv
<1>2. ErcovBase(0) = k.base /\ ErcovLen(0) = k.len
  BY <1>1, MetaLenFits DEF HoldsSave, ErcovBase, ErcovLen, BankOf
<1>3. Overlay(Current, ext[k.base], Words(k.len)) = w
  BY <1>1, OverlayAgrees DEF HoldsSave
<1>4. Become(w)
  BY <1>2, <1>3 DEF Ercov
<1>. HIDE DEF w
<1>5. /\ cstate' = w.cs /\ pc' = w.pc /\ tpc' = w.tpc
      /\ barg'.bpcCur = w.cur /\ barg'.bpcTgt = w.tgt /\ barg'.carg = w.carg
  BY <1>4 DEF Become, AcrIInv, AcrTypeOK
<1>. QED
  BY <1>5 DEF w

(* ERCOV without operands restores exactly the words that its ring's last   *)
(* ESAVE wrote: no request, return, save of another ring or block between   *)
(* the two moves the pointer, the length or the buffer.                     *)
THEOREM RestoresSave == HistSpec => ErcovRestoresSave
<1>1. HistSpec => []KeptInv
  BY KeptInit, HistAcrInv, KeptNext, PTL DEF HistSpec
<1>2. AcrIInv /\ KeptInv =>
        [cstate.acr \in Acr /\ kept[cstate.acr] # Nothing
           /\ kept[cstate.acr].len \in 0 .. LenMod - 1 /\ Ercov(0, 0) =>
         LET k == kept[cstate.acr]
             w == Overlay(Current, k.context, Words(k.len))
         IN  /\ cstate' = w.cs /\ pc' = w.pc /\ tpc' = w.tpc
             /\ barg'.bpcCur = w.cur /\ barg'.bpcTgt = w.tgt /\ barg'.carg = w.carg]_histVars
  BY RestoreGives
<1>. QED
  BY <1>1, <1>2, HistAcrInv, PTL DEF ErcovRestoresSave
=============================================================================
