----------------------------- MODULE LinxAtomics -----------------------------
(***************************************************************************)
(* Exclusive loads and stores, swaps, compare-and-swaps and read-modify-    *)
(* writes of the Sail model (isa/sail/model/state/state.sail, execute/      *)
(* execute.sail): one reservation for a line of memory, set by LR and       *)
(* cleared by SC alone.                                                     *)
(*                                                                          *)
(* The hart runs a task and handlers that interrupt it and each other       *)
(* between any two instructions (external), and the reservation belongs to  *)
(* all of them.  Each counter is added to in every way, by LR and SC, by a  *)
(* load and CAS, and by LW.ADD, and is set back by a plain store; an LR may *)
(* be left without its SC, by a handler that returns too.  What programs    *)
(* keep to is that an SC follows an LR of its cell, and that a lock is      *)
(* taken by SWAP, given back by the one that took it before it returns, and *)
(* used for nothing else.                                                   *)
(***************************************************************************)
EXTENDS Integers

CONSTANTS
  Cell,           \* addresses
  LineOf,         \* the 64 bytes that a cell is in, excl_line_addr
  Counter,        \* cells that are added to
  Lock,           \* cells that are locks
  MaxLevel,       \* bound: handlers that interrupt one another
  WordMod         \* 2 to the number of bits of a cell

ASSUME AtomicsAssumption ==
  /\ LineOf \in [Cell -> STRING]
  /\ Counter \cup Lock = Cell /\ Counter \cap Lock = {}
  /\ MaxLevel \in Nat /\ WordMod \in Nat \ {0, 1}

VARIABLES
  cells,          \* the word at each address
  excl_valid, excl_line,
  level,          \* 0 the task, 1 the handler that interrupted it, and so on
  ctx,            \* what each of them has loaded, and what has happened since:
                  \* an interrupt (undisturbed), a store to the cell that is no SC (stored)
  holds,          \* the locks each of them has taken
  due,            \* history: what each counter should hold
  latest          \* history: who executed the latest LR, if no SC came after it

atomicVars == <<cells, excl_valid, excl_line, level, ctx, holds, due, latest>>

NoLine == "none"
NoOne == -1
Idle ==
  [doing |-> "nothing", cell |-> NoLine, old |-> 0, undisturbed |-> TRUE, stored |-> FALSE]

AtomicInit ==
  /\ cells = [c \in Cell |-> 0]
  /\ excl_valid = FALSE /\ excl_line = NoLine
  /\ level = 0
  /\ ctx = [l \in 0 .. MaxLevel |-> Idle]
  /\ holds = [l \in 0 .. MaxLevel |-> {}]
  /\ due = [c \in Cell |-> 0]
  /\ latest = NoOne

Me == ctx[level]
MyContext(c) == ctx' = [ctx EXCEPT ![level] = c]
AfterLoad(doing, c) ==
  [doing |-> doing, cell |-> c, old |-> cells[c], undisturbed |-> TRUE, stored |-> FALSE]

(* rmw32_add: an addition wraps. *)
Added(v) == (v + 1) % WordMod

(* The contexts after a store to c that is no SC. *)
Noticed(c) ==
  [l \in 0 .. MaxLevel |->
     IF ctx[l].doing = "reserved" /\ ctx[l].cell = c THEN [ctx[l] EXCEPT !.stored = TRUE]
                                                     ELSE ctx[l]]

(* Mutant: a reservation that stands is kept. *)
Reserve_First(c) ==
  IF excl_valid THEN UNCHANGED <<excl_valid, excl_line>>
                ELSE excl_valid' = TRUE /\ excl_line' = LineOf[c]

(* excl_set, excl_check *)
Reserve(c) == excl_valid' = TRUE /\ excl_line' = LineOf[c]
Matches(c) == excl_valid /\ excl_line = LineOf[c]

(* Mutant: a store that succeeds keeps the reservation. *)
ClearAfter_Never(ok) == UNCHANGED <<excl_valid, excl_line>>

(* excl_clear: whether the store was done or not. *)
ClearAfter(ok) == excl_valid' = FALSE /\ UNCHANGED excl_line

(* exec_lr_* *)
LoadReserved ==
  /\ \E c \in Counter : MyContext(AfterLoad("reserved", c)) /\ Reserve(c)
  /\ latest' = level
  /\ UNCHANGED <<cells, level, holds, due>>

(* What an SC cannot see: that the cell was stored to without an SC, and    *)
(* that the reservation it finds is that of a later LR of another.          *)
Blind == Me.stored \/ latest \notin {level, NoOne}

(* exec_sc_*: the program stores what it loaded, plus one. *)
StoreConditional ==
  /\ Me.doing = "reserved"
  /\ LET c == Me.cell
         ok == Matches(c)
     IN /\ IF ok THEN /\ cells' = [cells EXCEPT ![c] = Added(Me.old)]
                      /\ due' = [due EXCEPT ![c] = IF Blind THEN Added(Me.old) ELSE Added(@)]
                 ELSE UNCHANGED <<cells, due>>
        /\ ClearAfter(ok)
  /\ MyContext(Idle)
  /\ latest' = NoOne
  /\ UNCHANGED <<level, holds>>

(* A plain load (external), to be followed by a CAS. *)
LoadPlain ==
  /\ \E c \in Counter : MyContext(AfterLoad("loaded", c))
  /\ UNCHANGED <<cells, excl_valid, excl_line, level, holds, due, latest>>

(* What a compare-and-swap leaves in memory; it returns what was there.     *)
Swapped(c, expected, new) == IF cells[c] = expected THEN [cells EXCEPT ![c] = new] ELSE cells

(* exec_hl_cas*: the program takes its addition for done if it gets back    *)
(* what it expected.                                                        *)
CompareAndSwap ==
  /\ Me.doing = "loaded"
  /\ LET c == Me.cell
         same == cells[c] = Me.old
     IN /\ cells' = Swapped(c, Me.old, Added(Me.old))
        /\ due' = IF same THEN [due EXCEPT ![c] = Added(@)] ELSE due
        /\ ctx' = [(IF same THEN Noticed(c) ELSE ctx) EXCEPT ![level] = Idle]
  /\ UNCHANGED <<excl_valid, excl_line, level, holds, latest>>

(* exec_lw_add, exec_sw_add and the like: in one instruction. *)
AtomicAdd ==
  /\ \E c \in Counter :
       /\ cells' = [cells EXCEPT ![c] = Added(@)] /\ due' = [due EXCEPT ![c] = Added(@)]
       /\ ctx' = Noticed(c)
  /\ UNCHANGED <<excl_valid, excl_line, level, holds, latest>>

(* A counter is set back to 0, by a plain store (external) or by SWAP.      *)
SetBack ==
  /\ \E c \in Counter :
       /\ cells' = [cells EXCEPT ![c] = 0] /\ due' = [due EXCEPT ![c] = 0]
       /\ ctx' = Noticed(c)
  /\ UNCHANGED <<excl_valid, excl_line, level, holds, latest>>

(* Mutant: SWAP returns what it stored. *)
SwapResult_New(c, new) == new

(* exec_swap*: what SWAP of new returns. *)
SwapResult(c, new) == cells[c]

(* A lock is taken by swapping 1 into it; it was free if 0 comes back. *)
TryLock ==
  /\ \E c \in Lock :
       /\ cells' = [cells EXCEPT ![c] = 1]
       /\ holds' = [holds EXCEPT ![level] = IF SwapResult(c, 1) = 0 THEN @ \cup {c} ELSE @]
  /\ UNCHANGED <<excl_valid, excl_line, level, ctx, due, latest>>

(* A plain store of 0 by the owner (external). *)
Unlock ==
  /\ \E c \in holds[level] :
       cells' = [cells EXCEPT ![c] = 0] /\ holds' = [holds EXCEPT ![level] = @ \ {c}]
  /\ UNCHANGED <<excl_valid, excl_line, level, ctx, due, latest>>

(* A handler begins and returns (external). *)
Interrupt ==
  /\ level < MaxLevel
  /\ level' = level + 1
  /\ ctx' = [ctx EXCEPT ![level].undisturbed = FALSE]
  /\ UNCHANGED <<cells, excl_valid, excl_line, holds, due, latest>>

Return ==
  /\ level > 0 /\ holds[level] = {}
  /\ level' = level - 1
  /\ MyContext(Idle)
  /\ UNCHANGED <<cells, excl_valid, excl_line, holds, due, latest>>

AtomicNext ==
  \/ LoadReserved \/ StoreConditional
  \/ LoadPlain \/ CompareAndSwap \/ AtomicAdd \/ SetBack
  \/ TryLock \/ Unlock
  \/ Interrupt \/ Return

AtomicSpec == AtomicInit /\ [][AtomicNext]_atomicVars

-----------------------------------------------------------------------------
Contexts ==
  [doing : {"nothing", "reserved", "loaded"}, cell : Cell \cup {NoLine},
   old : 0 .. WordMod - 1, undisturbed : BOOLEAN, stored : BOOLEAN]

AtomicTypeOK ==
  /\ cells \in [Cell -> 0 .. WordMod - 1] /\ due \in [Cell -> 0 .. WordMod - 1]
  /\ excl_valid \in BOOLEAN
  /\ excl_line \in {NoLine} \cup {LineOf[c] : c \in Cell}
  /\ level \in 0 .. MaxLevel /\ latest \in NoOne .. MaxLevel
  /\ ctx \in [0 .. MaxLevel -> Contexts]
  /\ \A l \in 0 .. MaxLevel : ctx[l].doing # "nothing" => ctx[l].cell \in Counter
  /\ holds \in [0 .. MaxLevel -> SUBSET Lock]

(* A counter holds what is due: every addition reported done since it was   *)
(* set back, however the ways of adding to it are mixed and interrupted.    *)
(* One thing alone takes additions off the account, a Blind SC that         *)
(* succeeds: the cell was stored to since its LR by an instruction other    *)
(* than SC, or another executed an LR later and left it without an SC.      *)
NoUpdateIsLost == \A c \in Counter : cells[c] = due[c]

(* What docs/isa/blockIntro/sys_block/lr_sc.md says of the pair LR and SC,   *)
(* that it ensures the atomicity of the operation: an SC that will succeed   *)
(* finds what its LR has read, as long as nothing but SC stores to the cell. *)
ExclusiveIsAtomic ==
  Me.doing = "reserved" /\ ~Me.stored /\ Matches(Me.cell) => cells[Me.cell] = Me.old

(* The SC after an LR that nothing interrupted finds its reservation, so a  *)
(* loop around LR and SC ends once it is left alone.                        *)
UndisturbedSucceeds ==
  \A l \in 0 .. MaxLevel :
    ctx[l].doing = "reserved" /\ ctx[l].undisturbed =>
      excl_valid /\ excl_line = LineOf[ctx[l].cell]

(* A lock is 1 while one of task and handlers holds it, and 0 otherwise:    *)
(* no two of them hold it.                                                  *)
LockHasOneHolder ==
  \A c \in Lock :
    /\ cells[c] \in {0, 1}
    /\ \A l, m \in 0 .. MaxLevel : c \in holds[l] /\ c \in holds[m] => l = m
    /\ cells[c] = 1 <=> \E l \in 0 .. MaxLevel : c \in holds[l]
=============================================================================
