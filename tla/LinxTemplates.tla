---------------------------- MODULE LinxTemplates ----------------------------
(***************************************************************************)
(* The frame templates FENTRY, FEXIT, FRET.RA and FRET.STK and the bulk     *)
(* templates MCOPY and MSET of the Sail model (isa/sail/model/execute/      *)
(* execute.sail).  Memory is bytes, a register is RegBytes of them, lowest  *)
(* first.  How compiled code uses the templates is external: a return names *)
(* the range and the immediate of its entry, and MCOPY and MSET stay within *)
(* the locals of the innermost frame.                                       *)
(***************************************************************************)
EXTENDS Integers, Sequences

CONSTANTS
  RegBytes,       \* 8
  ByteMod,        \* 256
  NumRegs,        \* general registers, zero and sp among them
  RegRange,       \* first and last registers that the program's templates name
  Imm,            \* uimm15 of the templates; the decoder appends three 0 bits
  StackTop,       \* sp when the program begins
  Value,          \* what the program writes to registers
  MaxDepth,       \* bound: open frames
  MaxWork         \* bound: entries, register writes, copies and fills

Pow[n \in 0 .. RegBytes] == IF n = 0 THEN 1 ELSE ByteMod * Pow[n - 1]
RegMod == Pow[RegBytes]

ASSUME TemplateAssumption ==
  /\ RegBytes \in Nat \ {0} /\ ByteMod \in Nat \ {0, 1} /\ NumRegs \in Nat \ {0, 1}
  /\ StackTop \in 0 .. RegMod - 1 /\ Value \subseteq 0 .. RegMod - 1
  /\ MaxDepth \in Nat /\ MaxWork \in Nat
  /\ RegRange \subseteq (0 .. NumRegs - 1) \X (0 .. NumRegs - 1)
  /\ \A u \in Imm : u \in Nat /\ u % RegBytes = 0
  /\ \A u \in Imm : MaxDepth * (u + RegBytes * NumRegs) <= StackTop

VARIABLES
  gpr,            \* gpr1 and up; R0 reads 0
  mem,
  frames,         \* history: operands of the entries not yet returned from
  work            \* entries, register writes, copies and fills so far

templateVars == <<gpr, mem, frames, work>>

SP == 1                                     \* template_sp

read_reg5(g, r) == IF r = 0 THEN 0 ELSE g[r]
write_reg5(g, r, v) == IF r = 0 THEN g ELSE [g EXCEPT ![r] = v]

ByteOf(v, k) == (v \div Pow[k]) % ByteMod

(* mem_store64_le and mem_load64_le *)
Store(m, ea, v) ==
  [a \in DOMAIN m |-> IF a \in ea .. ea + RegBytes - 1 THEN ByteOf(v, a - ea) ELSE m[a]]
Load(m, ea) ==
  LET sum[k \in 0 .. RegBytes] == IF k = 0 THEN 0 ELSE sum[k - 1] + m[ea + k - 1] * Pow[k - 1]
  IN sum[RegBytes]

TemplateInit ==
  /\ \E g \in [2 .. NumRegs - 1 -> Value] :
       gpr = [r \in 1 .. NumRegs - 1 |-> IF r = SP THEN StackTop ELSE g[r]]
  /\ mem = [a \in 0 .. StackTop - 1 |-> 0]
  /\ frames = <<>>
  /\ work = 0

NRegs(b, e) == IF e >= b THEN e - b + 1 ELSE 0

(* Mutant: the save area begins where the locals do. *)
SlotOf_Low(base, uimm, k) == base + RegBytes * k

(* Where the k-th register of a range is kept in a frame. *)
SlotOf(base, uimm, k) == base + uimm + RegBytes * k

(* template_save_range, template_restore_range: register after register.    *)
SaveRange(g, m, base, b, e, uimm) ==
  LET after[k \in 0 .. NRegs(b, e)] ==
        IF k = 0 THEN m
        ELSE Store(after[k - 1], SlotOf(base, uimm, k - 1), read_reg5(g, b + k - 1))
  IN after[NRegs(b, e)]

RestoreRange(g, m, base, b, e, uimm) ==
  LET after[k \in 0 .. NRegs(b, e)] ==
        IF k = 0 THEN g
        ELSE write_reg5(after[k - 1], b + k - 1, Load(m, SlotOf(base, uimm, k - 1)))
  IN after[NRegs(b, e)]

FrameSize(b, e, uimm) == uimm + RegBytes * NRegs(b, e)

Works == work < MaxWork /\ work' = work + 1

(* exec_fentry: sp is lowered before the registers are saved, so a range    *)
(* with sp in it saves the new one.                                         *)
Fentry ==
  /\ Len(frames) < MaxDepth /\ Works
  /\ \E range \in RegRange, uimm \in Imm :
       LET b == range[1]  e == range[2]
           sp1 == (gpr[SP] - FrameSize(b, e, uimm)) % RegMod
           g == write_reg5(gpr, SP, sp1)
       IN /\ gpr' = g
          /\ mem' = SaveRange(g, mem, sp1, b, e, uimm)
          /\ frames' = Append(frames, [b |-> b, e |-> e, uimm |-> uimm])

Top == frames[Len(frames)]

(* Mutant: sp is raised from what the range restored. *)
NewSP_Restored(g) == g[SP] + FrameSize(Top.b, Top.e, Top.uimm) - RegBytes

(* sp is raised from its value before the restore. *)
NewSP(g) == (gpr[SP] + FrameSize(Top.b, Top.e, Top.uimm)) % RegMod

(* exec_fexit, exec_fret_ra and exec_fret_stk. *)
Fexit ==
  /\ frames # <<>>
  /\ LET g == RestoreRange(gpr, mem, gpr[SP], Top.b, Top.e, Top.uimm)
     IN gpr' = write_reg5(g, SP, NewSP(g))
  /\ frames' = SubSeq(frames, 1, Len(frames) - 1)
  /\ UNCHANGED <<mem, work>>

(* The program writes a register (external). *)
WriteReg ==
  /\ Works
  /\ \E r \in 2 .. NumRegs - 1, v \in Value : gpr' = write_reg5(gpr, r, v)
  /\ UNCHANGED <<mem, frames>>

(* Places in the innermost locals, as distances from sp. *)
Places(len) == {i \in 0 .. Top.uimm - 1 : i + len <= Top.uimm}

(* exec_mcopy: byte by byte from the first. *)
CopyBytes(dst, src, len) ==
  LET after[i \in 0 .. len] ==
        IF i = 0 THEN mem
        ELSE [after[i - 1] EXCEPT ![dst + i - 1] = after[i - 1][src + i - 1]]
  IN after[len]

Mcopy ==
  /\ frames # <<>> /\ Works
  /\ \E len \in 0 .. Top.uimm : \E d, s \in Places(len) :
       mem' = CopyBytes(gpr[SP] + d, gpr[SP] + s, len)
  /\ UNCHANGED <<gpr, frames>>

(* exec_mset: the lowest byte of a register. *)
Mset ==
  /\ frames # <<>> /\ Works
  /\ \E len \in 0 .. Top.uimm, v \in Value : \E d \in Places(len) :
       mem' = [a \in DOMAIN mem |->
                 IF a \in gpr[SP] + d .. gpr[SP] + d + len - 1 THEN ByteOf(v, 0) ELSE mem[a]]
  /\ UNCHANGED <<gpr, frames>>

TemplateNext == Fentry \/ Fexit \/ WriteReg \/ Mcopy \/ Mset

TemplateSpec == TemplateInit /\ [][TemplateNext]_templateVars

-----------------------------------------------------------------------------
(* Where frame n begins: below StackTop by the sizes of frames 1 to n. *)
BaseOf(n) ==
  LET base[i \in 0 .. n] ==
        IF i = 0 THEN StackTop
        ELSE base[i - 1] - FrameSize(frames[i].b, frames[i].e, frames[i].uimm)
  IN base[n]

(* Types; sp is where the frames opened and closed say, though FEXIT may    *)
(* restore it too.                                                          *)
TemplateTypeOK ==
  /\ gpr \in [1 .. NumRegs - 1 -> 0 .. RegMod - 1]
  /\ \A a \in DOMAIN mem : mem[a] \in 0 .. ByteMod - 1
  /\ gpr[SP] = BaseOf(Len(frames))

Saveable == 2 .. NumRegs - 1

(* Saved registers and locals are read back from memory: no frame's saves   *)
(* or locals are overwritten by another's, or by copies and fills, so a     *)
(* return restores what its entry saved, also for a range with zero or sp   *)
(* in it and for an empty one.                                              *)
Frames == INSTANCE CallFrames WITH
  RegValue <- Value, Byte <- {ByteOf(v, 0) : v \in Value},
  regs <- [r \in Saveable |-> gpr[r]],
  saved <- [n \in DOMAIN frames |->
              [r \in {q \in Saveable : frames[n].b <= q /\ q <= frames[n].e} |->
                 Load(mem, SlotOf(BaseOf(n), frames[n].uimm, r - frames[n].b))]],
  locals <- [n \in DOMAIN frames |->
               [i \in 1 .. frames[n].uimm |-> mem[BaseOf(n) + i - 1]]]

FramesAreKept == Frames!Spec
=============================================================================
