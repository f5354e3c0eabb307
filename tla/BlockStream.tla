---------------------------- MODULE BlockStream ----------------------------
(***************************************************************************)
(* What the block-structured control flow of LinxISA promises, stated       *)
(* without the architectural registers that implement it.  A program is a   *)
(* stream of blocks: at most one block is open, everything a block decides  *)
(* (its condition, its target register, its header) belongs to that block   *)
(* alone and is gone when it retires, a block retires exactly once, and     *)
(* control then goes where the block said.                                  *)
(*                                                                          *)
(* LinxBlock implements this specification (LinxBlock!Refinement): there    *)
(* the same facts live in registers that survive the block and have to be   *)
(* reset by the next BSTART.                                                *)
(***************************************************************************)
EXTENDS Integers, Sequences

CONSTANTS
  Addr,           \* instruction addresses
  Marker,         \* the addresses that are block start markers
  Reg,            \* general registers that hold a value (register 0 does not)
  Family,         \* descriptor families a header may contain
  MaxImport,      \* how many scalar imports a header can bind
  RetireMod       \* the retirement counter counts modulo this

VARIABLES
  pc,             \* where the next instruction is fetched
  regs,           \* general registers
  block,          \* the open block, or NoBlock
  last,           \* start and destination of the block retired last
  retired         \* number of retired blocks, modulo RetireMod

vars == <<pc, regs, block, last, retired>>

Kind == {"fall", "direct", "cond", "call", "ind", "icall", "ret"}

NoReg == -1

Block == [at      : Addr,
          kind    : Kind,
          label   : Marker,
          cond    : BOOLEAN,
          sel     : Reg \cup {0, NoReg},
          header  : SUBSET Family,
          imports : Seq(Reg)]

NoBlock == [at |-> NoReg]

IsOpen(b) == b # NoBlock

Value(r) == IF r = 0 THEN 0 ELSE regs[r]

-----------------------------------------------------------------------------

(* A block whose destination is its label, or the register it selected; any *)
(* other block continues with the instruction that follows it.              *)
GoesToLabel(b) == b.kind \in {"direct", "call"} \/ (b.kind = "cond" /\ b.cond)

GoesToRegister(b) == b.kind \in {"ind", "icall", "ret"} /\ b.sel # NoReg

Destination(b, next) ==
  IF GoesToLabel(b) THEN b.label
  ELSE IF GoesToRegister(b) THEN Value(b.sel)
  ELSE next

(* Retiring records where the block began and where it sent control; a     *)
(* block that continues sequentially records its own start.                *)
Retire ==
  /\ IsOpen(block)
  /\ pc' = Destination(block, pc)
  /\ last' = [from |-> block.at, to |-> Destination(block, block.at)]
  /\ retired' = (retired + 1) % RetireMod

Fresh(at, kind, label) ==
  [at |-> at, kind |-> kind, label |-> label, cond |-> FALSE, sel |-> NoReg,
   header |-> {}, imports |-> <<>>]

(* A new block begins at the current pc, after the open one has retired.    *)
Begin ==
  /\ IF IsOpen(block) THEN Retire ELSE UNCHANGED <<pc, last, retired>>
  /\ IsOpen(block')
  /\ block'.kind \in Kind /\ block'.label \in Marker
  /\ block' = Fresh(pc', block'.kind, block'.label)
  /\ UNCHANGED regs

End ==
  /\ Retire
  /\ block' = NoBlock
  /\ UNCHANGED regs

Decide ==
  /\ IsOpen(block)
  /\ \E c \in BOOLEAN : block' = [block EXCEPT !.cond = c]
  /\ UNCHANGED <<pc, regs, last, retired>>

Select ==
  /\ IsOpen(block)
  /\ \E r \in Reg \cup {0} : block' = [block EXCEPT !.sel = r]
  /\ UNCHANGED <<pc, regs, last, retired>>

(* A header only grows: families are added, imports are appended up to the  *)
(* bound, and an import once bound keeps its place and its register.        *)
Extends(q, s) ==
  /\ Len(s) <= Len(q)
  /\ \A i \in 1 .. Len(s) : q[i] = s[i]

Declare ==
  /\ IsOpen(block) /\ IsOpen(block')
  /\ block' = [block EXCEPT !.header = block'.header, !.imports = block'.imports]
  /\ block.header \subseteq block'.header /\ block'.header \subseteq Family
  /\ Extends(block'.imports, block.imports)
  /\ Len(block'.imports) <= MaxImport
  /\ UNCHANGED <<pc, regs, last, retired>>

(* Payload instructions compute register values.                           *)
Compute ==
  /\ \E r \in Reg, v \in Addr : regs' = [regs EXCEPT ![r] = v]
  /\ UNCHANGED <<pc, block, last, retired>>

(* The fetch of the next instruction in the stream.                        *)
Fetch ==
  /\ pc' \in Addr
  /\ UNCHANGED <<regs, block, last, retired>>

Init ==
  /\ pc = 0
  /\ regs = [r \in Reg |-> 0]
  /\ block = NoBlock
  /\ last = [from |-> 0, to |-> 0]
  /\ retired = 0

Next == Begin \/ End \/ Decide \/ Select \/ Declare \/ Compute \/ Fetch

Spec == Init /\ [][Next]_vars
=============================================================================
