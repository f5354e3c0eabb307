------------------------------ MODULE LinxAcr ------------------------------
(***************************************************************************)
(* Access control rings (ACR) of the LinxISA Sail model, over block control: *)
(* the service request ACRC, the return ACRE, the extended context save and *)
(* restore ESAVE and ERCOV, the ring-scoped system registers and the cross  *)
(* block call XB (isa/sail/model/execute/execute.sail and                   *)
(* isa/sail/model/state/state.sail).                                        *)
(*                                                                          *)
(* The interrupted program and the software that serves it run on one hart  *)
(* and share its block registers: between a request and its return any      *)
(* instruction of LinxBlock may execute.  The model does not vector to a    *)
(* handler, and neither does the code: ACRC records the request and the     *)
(* next instruction executes in the same ring.                              *)
(***************************************************************************)
EXTENDS LinxBlock

CONSTANTS
  Rest,           \* values of the CSTATE fields other than ACR and BI
  CstateValues,   \* what software writes into CSTATE and ECSTATE
  RequestTypes,   \* RST_Type operands of ACRC
  ReturnTypes,    \* RRA_Type operands of ACRE
  ExtBase,        \* buffers for an extended context
  ExtLen,         \* operand values of ESAVE and ERCOV
  LenMod,         \* the length field holds lengths modulo this, 2^32 in the code
  BankFields,     \* the bank registers the program writes with SSRSET
  XbIds,          \* ACR-ID operands of XB
  CacTables,      \* addresses of CAC tables
  CacDefined      \* pairs of a table and a call id whose entry is not zero

Acr == 0 .. 2     \* the rings that have a bank

Cstate == [acr : 0 .. 15, bi : BOOLEAN, rest : Rest]

ASSUME CstateAssumption == 0 \in Rest /\ CstateValues \subseteq Cstate
ASSUME TypesAssumption  == RequestTypes \subseteq 0 .. 15 /\ ReturnTypes \subseteq 0 .. 15
ASSUME ExtAssumption    == ExtBase \subseteq Nat /\ 0 \in ExtBase /\ ExtLen \subseteq Nat
ASSUME LenModAssumption == LenMod \in Nat \ {0}
ASSUME FieldsAssumption == BankFields \subseteq {"ec", "cur", "tgt", "tpc", "ptr", "len"}
ASSUME XbAssumption     == XbIds \subseteq 0 .. 1023 /\ CacTables \subseteq Nat \ {0}

(* A table base of zero is no table, whatever memory holds there. *)
ASSUME CacAssumption    == CacDefined \subseteq CacTables \X (0 .. 127)

VARIABLES
  cstate,         \* ssr_cstate
  bank,           \* the ssr_ecstate_*, ssr_ebarg_* registers of each ring
  xbinfo,         \* the xbinfo_* register of each ring
  ext,            \* memory that holds extended contexts
  dispatch        \* xb_dispatch_*: the call resolved last

acrRegs == <<cstate, bank, xbinfo, ext, dispatch>>

acrVars == <<vars, acrRegs>>

rest == <<gpr, last, seqno, contract, header, loop, vecP>>

Bank == [ec : Cstate, cur : Addr, tgt : Addr, tpc : Addr,
         ptr : ExtBase, len : 0 .. LenMod - 1]

Context == [cs : Cstate, pc : Addr, tpc : Addr, cur : Addr, tgt : Addr, carg : {0, 1}]

ZeroCstate == [acr |-> 0, bi |-> FALSE, rest |-> 0]

ZeroBank == [ec |-> ZeroCstate, cur |-> 0, tgt |-> 0, tpc |-> 0, ptr |-> 0, len |-> 0]

ZeroContext == [cs |-> ZeroCstate, pc |-> 0, tpc |-> 0, cur |-> 0, tgt |-> 0, carg |-> 0]

NoDispatch == [acr |-> 0, entry |-> <<0, 0>>]

EInst(ec) == [kind |-> "einst", ec |-> ec, arg |-> pc]
Scall(type) == [kind |-> "scall", type |-> type, arg |-> pc]

AcrTraps ==
  [kind : {"einst"}, ec : {"illegal", "param", "perm", "xbid", "xbdef"}, arg : Addr]
    \cup [kind : {"scall"}, type : RequestTypes, arg : Addr]

AcrTypeOK ==
  /\ cstate \in Cstate
  /\ bank \in [Acr -> Bank]
  /\ xbinfo \in [Acr -> CacTables \cup {0}]
  /\ ext \in [ExtBase -> Context]
  /\ dispatch \in [acr : Acr, entry : (CacTables \X (0 .. 127)) \cup {<<0, 0>>}]
  /\ pc \in Addr /\ tpc \in Addr
  /\ barg \in [valid : BOOLEAN, type : 0 .. 15, xfer : XferKind,
               bpcCur : Addr, bpcTgt : Addr, carg : {0, 1},
               tgtRegValid : BOOLEAN, tgtReg : Gpr \cup {0}]
  /\ trap \in Traps \cup AcrTraps

-----------------------------------------------------------------------------
(* Banks *)

BankOf(a) == IF a \in Acr THEN bank[a] ELSE ZeroBank

Put(banks, a, b) == IF a \in Acr THEN [banks EXCEPT ![a] = b] ELSE banks

(* Mutant: the whole operand is kept. *)
MetaLen_Whole(len) == len

MetaLen(len) == len % LenMod

-----------------------------------------------------------------------------
(* Service request and return *)

(* Mutant: the snapshot takes the resume address from pc. *)
Acrc_SavesPc(type) ==
  /\ bank' = Put(bank, cstate.acr,
       [BankOf(cstate.acr) EXCEPT !.ec = [cstate EXCEPT !.bi = TRUE],
          !.cur = barg.bpcCur, !.tgt = barg.bpcTgt, !.tpc = pc])
  /\ trap' = Scall(type)
  /\ UNCHANGED <<pc, tpc, barg, rest, cstate, xbinfo, ext, dispatch>>

Acrc(type) ==
  /\ bank' = Put(bank, cstate.acr,
       [BankOf(cstate.acr) EXCEPT !.ec = [cstate EXCEPT !.bi = TRUE],
          !.cur = barg.bpcCur, !.tgt = barg.bpcTgt, !.tpc = tpc])
  /\ trap' = Scall(type)
  /\ UNCHANGED <<pc, tpc, barg, rest, cstate, xbinfo, ext, dispatch>>

(* The words of a context in memory order: ESAVE writes, and ERCOV and ACRE *)
(* read, those that lie entirely within the length.                         *)
Layout == <<"cs", "pc", "tpc", "cur", "tgt", "carg">>

Words(len) == {Layout[i] : i \in {j \in 1 .. 6 : 8 * j <= len}}

Current == [cs |-> cstate, pc |-> pc, tpc |-> tpc,
            cur |-> barg.bpcCur, tgt |-> barg.bpcTgt, carg |-> barg.carg]

Overlay(old, new, words) == [w \in DOMAIN old |-> IF w \in words THEN new[w] ELSE old[w]]

(* The registers become those of a context, and the block is open. *)
Become(context) ==
  /\ cstate' = context.cs
  /\ pc' = context.pc /\ tpc' = context.tpc
  /\ barg' = [barg EXCEPT !.valid = TRUE, !.bpcCur = context.cur,
                          !.bpcTgt = context.tgt, !.carg = context.carg]

(* What ACRE restores from the bank of the ring that executes it. *)
Returned(b) ==
  [cs |-> b.ec, pc |-> b.cur, tpc |-> IF b.ec.bi THEN b.tpc ELSE b.cur,
   cur |-> b.cur, tgt |-> b.tgt, carg |-> barg.carg]

Acre(type) ==
  LET b == BankOf(cstate.acr)
  IN  IF type \notin {0, 1}
      THEN /\ trap' = EInst("illegal")
           /\ UNCHANGED <<pc, tpc, barg, rest, acrRegs>>
      ELSE IF b.ec.acr < cstate.acr
      THEN /\ trap' = EInst("param")
           /\ UNCHANGED <<pc, tpc, barg, rest, acrRegs>>
      ELSE /\ Become(IF type = 1 /\ b.ptr # 0
                     THEN Overlay(Returned(b), ext[b.ptr], Words(b.len))
                     ELSE Returned(b))
           /\ UNCHANGED <<rest, trap, bank, xbinfo, ext, dispatch>>

(* ESAVE takes the base from its first operand and the length from its      *)
(* third; the second is recorded as the kind, which nothing reads.          *)
Esave(src0, src1, src2) ==
  /\ bank' = Put(bank, cstate.acr,
       [BankOf(cstate.acr) EXCEPT !.ptr = src0, !.len = MetaLen(src2)])
  /\ ext' = [ext EXCEPT ![src0] = Overlay(@, Current, Words(src2))]
  /\ UNCHANGED <<vars, cstate, xbinfo, dispatch>>

(* Mutant: the recorded pointer is not used. *)
ErcovBase_Operand(src0) == src0

(* A zero base or length stands for the one recorded in the bank. *)
ErcovBase(src0) == IF src0 = 0 THEN BankOf(cstate.acr).ptr ELSE src0
ErcovLen(src2)  == IF src2 = 0 THEN BankOf(cstate.acr).len ELSE src2

Ercov(src0, src2) ==
  /\ Become(Overlay(Current, ext[ErcovBase(src0)], Words(ErcovLen(src2))))
  /\ UNCHANGED <<rest, trap, bank, xbinfo, ext, dispatch>>

-----------------------------------------------------------------------------
(* System registers *)

SsrSetCstate ==
  /\ cstate' \in CstateValues
  /\ UNCHANGED <<vars, bank, xbinfo, ext, dispatch>>

FieldValues(f) ==
  CASE f = "ec"  -> CstateValues
    [] f = "ptr" -> ExtBase
    [] f = "len" -> {MetaLen(len) : len \in ExtLen}
    [] OTHER     -> Addr

(* SSRSET and HL.SSRSET to a bank register.  The ring number in the         *)
(* register's identifier is dropped: the current ring's bank is written.    *)
SsrSetBank(id, f) ==
  /\ \E v \in FieldValues(f) :
       bank' = Put(bank, cstate.acr, [BankOf(cstate.acr) EXCEPT ![f] = v])
  /\ UNCHANGED <<vars, cstate, xbinfo, ext, dispatch>>

SsrSetXbinfo(table) ==
  /\ IF cstate.acr \in Acr
     THEN xbinfo' = [xbinfo EXCEPT ![cstate.acr] = table] /\ UNCHANGED trap
     ELSE trap' = EInst("illegal") /\ UNCHANGED xbinfo
  /\ UNCHANGED <<pc, tpc, barg, rest, cstate, bank, ext, dispatch>>

-----------------------------------------------------------------------------
(* Cross block call *)

(* The ring is the low nibble of the operand.  A failed check records its   *)
(* trap and the code goes on with the next one; the last trap remains.      *)
Xb(id, cid) ==
  LET target == id % 16
      table  == IF target \in Acr THEN xbinfo[target] ELSE 0
      soFar  == IF target < cstate.acr THEN EInst("perm")
                ELSE IF target \notin Acr THEN EInst("xbid") ELSE trap
  IN  /\ IF <<table, cid>> \in CacDefined
         THEN trap' = soFar /\ dispatch' = [acr |-> target, entry |-> <<table, cid>>]
         ELSE trap' = EInst("xbdef") /\ UNCHANGED dispatch
      /\ UNCHANGED <<pc, tpc, barg, rest, cstate, bank, xbinfo, ext>>

-----------------------------------------------------------------------------
AcrInit ==
  /\ Init
  /\ cstate = ZeroCstate
  /\ bank = [a \in Acr |-> ZeroBank]
  /\ xbinfo = [a \in Acr |-> 0]
  /\ ext = [b \in ExtBase |-> ZeroContext]
  /\ dispatch = NoDispatch

BlockStep == Next /\ UNCHANGED acrRegs

AcrNext ==
  \/ BlockStep
  \/ \E type \in RequestTypes : Acrc(type)
  \/ \E type \in ReturnTypes : Acre(type)
  \/ \E src0 \in ExtBase, src1, src2 \in ExtLen : Esave(src0, src1, src2)
  \/ \E src0 \in ExtBase, src2 \in ExtLen : Ercov(src0, src2)
  \/ SsrSetCstate
  \/ \E id \in Acr, f \in BankFields : SsrSetBank(id, f)
  \/ \E table \in CacTables : SsrSetXbinfo(table)
  \/ \E id \in XbIds, cid \in 0 .. 1 : Xb(id, cid)

AcrSpec == AcrInit /\ [][AcrNext]_acrVars
=============================================================================
