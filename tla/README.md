# LinxISA: a TLA+ development beside the repository

This directory holds TLA+ modules for the executable core of the LinxISA
superproject, the TLC configurations that model-check them on small instances,
and TLAPS proofs of the properties that matter most. Definitions are translated
from source code. The ISA manual and the project documents are used as the
statement of what the code promises, never as the source of a definition.

Contents: 1 inventory, 2 how the parts interact, 3 plan, 4 modules,
5 runs and bounds, 6 fairness, 7 proofs, 8 disagreements found, 9 what is left
out.

File abbreviations: `state.sail`, `execute.sail`, `decode.sail` are under
`isa/sail/model/`; `stdlib.c`, `mem.c`, `str.c`, `stdio.c`, `softfp.c`, `syscall.c`,
`crt0.s` are under `avs/runtime/freestanding/src/`; `*.py` and
`run_runtime_convergence.sh` are under `tools/bringup/`.

## 1. Inventory

### Block engine (`state.sail`, `execute.sail`)

* State: `pc`, `tpc`; the block argument register (`barg_*`: open flag, start,
  target, transfer kind, condition, selected target register); what the last
  commit recorded; header shadows set by the decoder; descriptor marks
  (`bdesc_seen_*`); `ri` bindings; loop bounds, lane mask; last trap.
* Operations: BSTART in all forms, BSTOP, SETC, SETC.TGT, B.DIM, B.TEXT, B.ARG,
  B.IOT, B.IOR, B.CATR, register writes.
* Hard: the registers of a block survive the block. What a block decided is
  forgotten only because the *next* BSTART resets it. A block is ended by BSTOP
  or BSTART, with or without a taken transfer; a trap records itself and the
  instruction runs on.
* Correct means: at most one block is open, it retires once and goes where it
  said; nothing leaks into the next block; a label is a block start marker; the
  header verdict names the right family; the lane mask covers the group exactly.

### Decoder (`decode.sail`, generated but for the block start arms)

* State: four shadow registers (block type, transfer, target, header contract).
* Hard: they are stored before the marker is known to be legal, and read later.

### Access control rings (`state.sail`, `execute.sail`)

* State: `CSTATE`, per ring the bank `ECSTATE`, `EBARG_*`, `EXTCTX_*`, `XBINFO`;
  context buffers in memory; the last dispatch.
* Operations: ACRC, ACRE, ESAVE, ERCOV, SSR writes, XB.
* Hard: a request and its return are far apart, with other blocks, saves and ring
  changes in between, all on the same block registers; a context is six words
  under a length that may cut it; lengths have 32 bits; a failed check of XB does
  not stop it.
* Correct means: the return resumes what the ring's request interrupted; a
  restore without operands brings back exactly the words saved.

### Vector queues, templates, exclusive monitor (`execute.sail`, `state.sail`)

* V.QPUSH/V.QPOP: rings in guest memory, pushed lane by lane. Hard: several lanes
  on one ring, full and empty, head and tail that exceed the capacity. Correct
  means bounded FIFOs of capacity - 1.
* FENTRY/FEXIT/FRET save and restore a register range on the stack; MCOPY/MSET
  are byte loops. Hard: ranges that include the stack pointer, nesting, overlap.
  Correct means that a return gives back what its entry saved.
* LR/SC keep one reservation of a 64-byte line which only SC clears; SWAP, CAS and
  the read-modify-writes ignore it. Hard: the reservation outlives stores, requests
  and context switches. Correct means that updates are lost in the known cases only and
  that locks exclude.

### Opcode table (`isa/generated/codecs/linxisa_opcodes.c`)

* State: none; 740 forms, 2611 fields, 3344 pieces in three arrays tied by positions.
* Operations: what reads it (the histogram plugin's decoder; disassemblers).
* Hard: a row too many in one array moves every later field; overlapping forms are
  told apart by precision and order; four lengths share one stream.
* Correct means: every bit of an instruction has one owner, a value's pieces cover
  it, code is cut into instructions in one way, a word is decoded as its form.

### Freestanding libc (`avs/runtime/freestanding`)

* Heap: offset, headers in memory. malloc, realloc, free. Hard: unsigned bounds
  arithmetic, `realloc` trusts the header.
* Exit: the table of handlers and its counter, two device registers. atexit, exit,
  abort, return from main. Hard: handlers that register handlers, or themselves, or exit
  again.
* Memory and string functions: pure but for memory. Hard: overlap, alignment, the
  ends of a text.
* Formatted output: buffer, position, count. Hard: truncation at the last byte, the
  competition of width, precision, flags and sign.
* Soft float: pure. Hard: rounding, its carries, the ends of the types.

### Instruction histogram plugin (`tools/qemu_plugins/linx_insn_hist.c`)

* State: hash table, counters, array of counters, total, one lock.
* Operations: translation callback, execution callback, exit.
* Hard: several vCPU threads; lookup and insertion under a lock, two separate
  atomic counts outside it; the sort and the report at exit.
* Correct means: one counter per mnemonic, an exact and sorted report.

### Gate evidence pipeline (`gate_report.py`, `run_runtime_convergence.sh`, `check_gate_consistency.py`)

* State: `latest.json` (rows and SHA manifest per run), `GATE_STATUS.md`, the
  failure count of each script.
* Operations: capture-sha, reset-run, upsert-gate, render, consistency check,
  exit.
* Hard: each command reads the whole file and rewrites it without a lock; lanes
  are separate scripts; scripts are killed and started again under the same run
  id; the status file is rendered in the middle of what it shows.
* Correct means: the report behaves as a board of runs on which a command changes
  one run at once; exit status 0 means that the gates passed.

### Everything else

TLB operations and ASSERT only trap or do nothing; arithmetic is pure. The gate
runner, checkers, reports, generators, test drivers and workloads are sequential
programs that read files and print a verdict or write a file. `PROJECT.json` lists
each group and the reason it is not modelled.

## 2. How the parts interact

* The decoder stores shadows that the block engine reads: at the same instruction
  (type, transfer, target) and at a later one (header contract, at BSTOP).
* The rings save and restore the block engine's registers, and the software that
  serves a request runs on that same block engine. Requests and returns leave the
  reservation of LR alone, which is why handlers are part of the atomics' model.
* The opcode table feeds generators and the histogram plugin; the order of its forms
  decides what the plugin calls a word. `OpcodeCodec` runs the plugin's loop on the
  whole table.
* `exit` runs what `atexit` stored and ends at the device registers of `syscall.c`.
  The other parts of libc share no state.
* The convergence script calls `gate_report.py` for every gate, and the
  consistency check reads what both lanes' scripts left in the report.
* The block engine and the bring-up tools share nothing but the opcode table.

## 3. Plan

Done, in this order: LinxBlock with its abstract BlockStream; LinxAcr over
LinxBlock; InsnHist; GateReport with its abstract GateBoard; OpcodeTable and
OpcodeCodec; LibcHeap over ObjectStore, LibcExit; SoftFloat; LibcString; LibcStdio;
VecQueue over Fifo; LinxTemplates over CallFrames; LinxAtomics.

Proved since: the sums of InsnHist and its report, GateReport up to `BoardSpec` for
scripts that run one after the other, LinxAcr, the refinement of `ObjectStore`, header
verdicts and lane masks, the handlers of `exit`, the refinement of `Fifo`; then the
templates up to `CallFrames`, the contracts of the string functions, soft float
(comparisons, conversions, arithmetic), and the compositions that `libc` and
`sail_memory` check.

The plan is done. What has no proof is listed at the end of section 7, and why.

## 4. Modules

| Module | Role |
| --- | --- |
| `BlockStream` | abstract: a stream of blocks; what a block decides belongs to it alone and is gone when it retires |
| `LinxBstartForms` | the block start markers the decoder accepts, reduced to the shadows each sets |
| `LinxBlock`, `LinxBlockProps`, `LinxBlock_proofs` | block control, one action per instruction; properties and the mapping to `BlockStream`; theorems |
| `LinxAcr`, `LinxAcrProps`, `LinxAcr_proofs` | rings, requests, contexts, SSRs and XB; its next-state relation contains that of `LinxBlock`; theorems |
| `LinxBlockClaims`, `LinxAcrClaims`, `GateReportClaims` | statements of documents that the code does not keep |
| `Fifo`, `VecQueue` | abstract bounded queues; V.QPUSH and V.QPOP |
| `CallFrames`, `LinxTemplates` | abstract frames of calls; FENTRY, FEXIT, FRET, MCOPY, MSET on bytes |
| `LinxAtomics` | LR, SC, SWAP, CAS, LW.ADD used by a task and nested handlers |
| `LinxMemory_proofs` | theorems about `LinxAtomics`, `VecQueue`, `LinxTemplates` and the run that composes them, `MCLinxMemory` |
| `OpcodeTable`, `OpcodeCodec` | the generated table; words of every form, and what they are decoded as |
| `InsnDecode`, `InsnHist`, `InsnHistProps`, `InsnHist_proofs` | the plugin's decoder; the plugin, its properties, theorems |
| `ObjectStore`, `LibcHeap` | abstract objects; the bump allocator |
| `LibcExit` | the end of a program |
| `SoftFloat`, `SoftFloatProps`, `SoftFloat_proofs` | floats as fields; exact arithmetic to compare with; theorems |
| `LibcString` | memory and string functions and their contracts |
| `LibcStdio`, `LibcStdioProps` | `vsnprintf` character by character; what its conversions print, read back |
| `LibcText_proofs` | theorems about `LibcString` and `LibcStdio` |
| `Libc_proofs` | theorems about `LibcHeap`, `LibcExit`, `LibcStdioProps` and the run that composes the library, `MCLibc` |
| `GateBoard`, `GateReport`, `GateReportProps`, `GateReport_proofs` | abstract rows per run; the pipeline; properties and mapping; theorems |
| `MC*` | constants of the runs, and the parts of a run that share no state |

Operators named `X_Something` marked "Mutant" are altered forms of `X`. No
specification uses them: each run is repeated with one in place of `X` to show that
the property it checks can fail.

**LinxBlock.** `BStart` is `exec_bstart` with the decode shadows of a form, for a
target that the form computes (`Targets`); `RefuseBStart` and `AcceptBStart` are the
two ways it goes. `CommitBoundary` is `block_commit_boundary`. Its last store,
`barg_valid = false`, is written where the caller's own stores are (`BStart` opens the
next block, `BStop` does not), because a variable is assigned once in a step. The
program is *any* sequence of instructions: nothing restricts where an instruction
occurs, since the code checks nothing there. All SETC forms are one action, because
the comparison they make is data (`carg` is 0 or 1). Registers hold addresses, since
a register value matters to control flow only as a target. Register 0 reads zero.

**LinxAcr.** `Acrc`, `Acre`, `Esave`, `Ercov` are the `exec_` functions. The bank
of rings other than 0..2 reads as zero and drops writes (`BankOf`, `Put`). A saved
context is a record of six words; `Words(len)` are those that fit the length. Memory
is reduced to the context buffers that are addressed. Raising a trap records it; no
code vectors to a handler, and neither does the model.

**VecQueue.** A ring is its three header words and a function of slots; the lanes of
one instruction go one after the other (`OverLanes`), as in the loop of the code, and
lanes that the mask leaves out answer `Undefined`. The mapping to `Fifo` reads the
elements between head and tail, both reduced modulo the capacity.

**LinxTemplates.** Memory is bytes and a register is `RegBytes` of them. `Fentry`
writes the stack pointer first and saves then, `Fexit` restores first and writes the
stack pointer from the value *before* the restore, as the code does. `frames` is a
history of the calls that are open. The mapping to `CallFrames` reads the saved
registers back out of memory.

**LinxAtomics.** `excl_valid` and `excl_line` are the code's reservation. The hart
runs a task and up to `MaxLevel` handlers that interrupt one another between any two
instructions; `ctx` is what each has loaded. What the instructions do is the code's; what
programs do with them is external, and little is asked of it: an SC follows an LR of its
cell by the same context, a CAS follows a load, and a lock is taken by SWAP and given back
before its owner returns. Every counter is added to in all three ways at once and set back
by plain stores, and an LR may be left without its SC, also by a handler that returns.

`due` is a history: what a counter should hold, by the additions that reported success. The
code does lose additions, and the model shows how: the task executes LR c, a handler
LW.ADD c and returns, and the task's SC still succeeds, as only SC clears the reservation
(`state.sail:1470`, `:1484`). So an SC is called `Blind` if since its LR the cell was stored
to by another instruction than SC, or if the latest LR is that of another context. A blind
SC that succeeds sets `due` to what it stores; no other step takes anything off it, and
`NoUpdateIsLost` says that the counters always hold what is due.

**OpcodeTable.** The three arrays in the order of the C file, with repeated runs of
rows written once. **OpcodeCodec** fills the fields of a form with a pattern and
decodes the word with the plugin's loop (`InsnDecode`).

**LibcHeap.** Offsets and sizes are modulo `SizeMod`. Memory is a function of cells;
the first cell of a header holds the size, so a header that is overwritten is read
back damaged by `realloc`. **LibcExit.** The call stack is a variable, one loop turn
of `__linx_do_exit` is one step, and a handler may do whatever the program may, for ever:
it may register itself each time it runs. The history `log` begins anew with a
registration in an empty table, so that such a program has finitely many states.

**SoftFloat.** A number is sign, exponent and mantissa; the width of each field is a
constant and every shift of the code is written by it. **LibcString.** One call on a
small memory; `memcpy` copies bytes up to an aligned address and words from there, the
others go byte by byte. **LibcStdio.** A format is given as its items; each character is
a step of `linx_outc`.

**InsnHist.** `get_counter` is `Lookup` (lock taken, table searched), then `Reuse` or
`Insert` (lock released). An execution is `Execute` (the counter) and `CountTotal`
(the total). `Exit` sorts, then writes the report or fails to open it.

**GateReport.** A script is at one command or gate (`at`), and a `gate_report.py`
process is three steps: `Load` reads, `Save` truncates, `Write` writes. Only the
write of a file that another process wrote since may leave it unreadable. `Check` is
`main` of the consistency check, its tests in the code's order (`Verdict`). The SHA
manifest is a number, the version of the sources. The gates are those of the run's
`GateList`: one that runs, one skipped by policy, or the glibc gate that may be waived.

## 5. Runs, bounds, and what they show

| Run | Shows | Bounds and why they are enough |
| --- | --- | --- |
| `block_scalar` | `NextTargetIsMarker`, `TransfersLandOnMarkers`, `RefinesBlockStream` for every transfer kind | three addresses of which two are markers: start, taken and untaken destination, refused target are all distinct; one register; the commit counter modulo 2 (its value is only counted) |
| `block_headers` | `TypeOK`, `HeaderVerdict` for every header contract and every order of descriptors; `MaskCoversGroup` | two `ri` bindings in place of 32 and two registers: one B.IOR can bind three, so the limit is met inside an instruction; loop bounds 0..3 in three dimensions over three lanes: empty, full and partly filled last groups, where 3 is cut to 0 (`DimMod` 3 for 2^32, `state.sail:253`). `HeaderVerdict` is written from the mandatory sets of the manual and not from the code's order |
| `acr_request` | `ReturnResumesRequest` | `MaxServed` 3 requests and returns in all, two rings: a nested request, a request of the other ring in between, two returns of one request |
| `acr_context` | `ErcovRestoresSave` | two buffers, lengths 0 and 40 (the last word is cut off), 3 saves and restores |
| `acr_banks` | `AcrTypeOK` | software writes to banks, a ring without a bank (3), a length that wraps (`LenMod` 48 for 2^32), XB to existing and missing rings |
| `sail_memory` | `QueuesAreFifos`, `FramesAreKept`, `NoUpdateIsLost`, `UndisturbedSucceeds`, `LockHasOneHolder`, `MemoryTypeOK` | two rings of capacity 0 to 3, heads and tails beyond the capacity, two lanes that may share a ring; frames two deep, ranges with zero and the stack pointer and an empty one, locals of 0 and 4 bytes, registers of two bytes; two nested handlers over a task, two counters in lines of their own and a lock in the line of the first, words modulo 2 (`WordMod`), so that one lost addition is seen and a sum wraps |
| `opcode_table` | `EveryBitHasOneOwner`, `ValuesAreWhole`, `LengthsDoNotMix`, `DecodesAsItsForm` | nothing is bounded: all 740 forms, each with four fillings of its fields (no bit, every bit, the even and the odd ones) |
| `hist_threads` | `OneCounterPerMnemonic`, `ReportIsExact`, `TopIsMostFrequent`, `TotalLagsByThreadsInBetween` | two threads, `MaxExec` 3 executions, a table with two forms of equal precision for one word and a word no form matches, `top` past the width of a guint (`GuintMod` 256) |
| `libc` | `BlocksStayWhole`, `ObjectSpec`; `LatestRunsFirst`, `NoneLeftBehind`, `StatusOfLatestRequest`, `EndsAtFinisher`; `ArithmeticIsRounded`, `ComparisonsOrder`, `ConversionsRound`; `StringsKeepContracts`; `PrintsAsAsked`; `LibcTypeOK` | see below |
| `claim_product` | violated: `ProductIsNearest`, section 8 | as `libc` |
| `gate_serial` | `RowsAreOfOneAttempt`, `StatusFileLacksOneRow`, `SuccessMeansBothLanesPassed`, `BoardSpec` | three starts of scripts of two lanes (two run ids in one lane), one at a time, killed between commands or before a command truncates its file |
| `gate_overlap` | `SuccessMeansOwnGatesPassed` | two lanes at once, killed in the middle of a write, one change of the sources |

`libc` and `sail_memory` each check parts that share no state. A variable `part`
chooses one at the beginning of a behaviour and the others wait, so the states of the
parts add and do not multiply.

Bounds of `libc`. Heap: 15 bytes, headers of 2 and alignment 4, sizes modulo 32, and
requests up to 30: a request fits exactly, by one byte not, or would wrap; three blocks
fit, so a `realloc` may have neighbours on both sides. Exit: two handlers, a table of
two, so the table is full and is used again while handlers run; a handler is added to
others while the history has fewer than 4 entries (`MaxLog`), and exit is called again up
to a stack of 7 frames (`MaxDepth`), which is three loops of exit one inside the other; codes -1, 0 and 16, where 16 is 0 in its lower half (`Half` 16 for 2^16). Soft
float: floats of 4 + 3 bits, doubles of 6 + 4, ints of 5 bits, longs of 8, all pairs of
floats and all other arguments. Exponents of 3 bits differ by at most 6, which reaches
every position of the guard, round and sticky bits, but not the branch of the code for a
difference above 31 (`ShiftCap`): there nothing but the sticky bit would be left. Strings: a memory of
7 cells, texts in 5, words of 2: every overlap and every alignment. Formatted
output: buffers of 0, 1, 3 and 12 bytes, NULL and the console, widths and precisions
that are absent, smaller and larger than the number, and negative by an asterisk, ints
of 5 bits at both ends.

`block_headers` has a CONSTRAINT, `HeadersOrGroups`: the loop bounds do not depend on the
descriptors, and every order of descriptors is combined with the first loop bounds only,
every loop bound with vector headers without operands.

`CHECK_DEADLOCK FALSE` is set where a system stops: a plugin after its report, scripts
after their last start, a call that has returned, a program that has done its
`MaxWork`. The processor of LinxBlock and LinxAcr never stops.

The bounds `MaxServed`, `MaxExec`, `MaxStarts`, `MaxRepins`, `MaxLog`, `MaxDepth`,
`MaxWork` and `MaxLevel` cap counters and are not in the code. `MaxRi`, `VecLength`, `DimMod`,
`SeqMod`, `LenMod`, `GuintMod`, `SizeMod`, `Half`, `WordMod`, `RegBytes`, `ByteMod` and
the widths of SoftFloat stand for widths and sizes of the code; the proofs hold for all
values of those they mention. TLC computes with 32-bit integers, which is one reason for
the small widths.

What an invariant of `gate_serial` means depends on `MaxRunning = 1`: the documents
run the lanes one after the other, and nothing in the code enforces it. With two at
once rows are lost (each process writes back what it read), so `gate_overlap` claims
only what still holds.

Some properties leave out what the code does otherwise than a reader may expect. Sums
and products are claimed for normal operands, since the code drops the implicit bit of
subnormal ones. `DecodesAsItsForm` excepts the tile markers, whose encodings overlap.
`LengthsDoNotMix` excepts the fused calls, which begin as the marker they fuse.
Section 8 has the details.

## 6. Fairness

`ExitFairness` is the one fairness assumption: weak fairness of the steps inside
`exit` and `__linx_exit` (`InExit`) and of the end of a handler (`HandlerEnds`). The first
holds because a hart goes on executing the instructions it is at; nothing in that code
waits. The second says that a handler returns or asks to exit, which is the program's
part: with a handler that loops, exit does not end.

`EndsAtFinisher` has one more assumption, which is part of its formula: from some time on
no handler is registered (`<>[][~Atexit]_exitVars`). Then a request to end reaches the
device, however often handlers have called `atexit` and `exit` before. The code does not
give this assumption, and without it the property is false: a handler that calls `atexit`
on itself and returns is run again by `while (atexit_count > 0)` (`stdlib.c:51`), for ever, and
fairness has nothing against it. The model has these behaviours, and TLC finds one when
the assumption is taken out. `MaxLog` and `MaxDepth` do not help: a registration in an empty
table is always accepted, and a handler can always return.

No other specification assumes fairness. The block engine executes whatever is fetched:
no code schedules instructions. QEMU schedules the vCPU threads, and no code bounds how
long a thread stays between its two counts; a gate may run forever, since the script has
no timeout. A loop around LR and SC may be interrupted every time, so what is claimed is
`UndisturbedSucceeds`, a safety property. What matters at the end of a behaviour is
stated as safety of the last step (the report at exit, the exit status).

## 7. Proofs

The theorems of the eight proof modules hold for every value of the constants under the named
assumptions of their modules (addresses are naturals, tables are subsets of addresses,
widths are positive; `"nobody"`, which stands for a free lock, names no thread).

Sums, sorted arrays and loops are recursive functions in the model. What they compute is
proved without an induction rule: the set of the numbers (or subsets of a finite set) at
which the claim fails has a least member (`LeastNatural`, `SmallestSubset`, both from the
library's theorems on well-founded relations), and one step of the recursion refutes it.
That the recursive function exists at all is proved in the same way.

**LinxBlock_proofs.**

* `TypeCorrect`: `TypeOK` is inductive, one lemma per action.
* `OpenBlocksTargetMarkers`: `NextTargetIsMarker` is not inductive alone, because
  a label is tested by `IsBlockStartMarker`, which says something about addresses
  only: `IInv` is `TypeOK` and `NextTargetIsMarker`.
* `TransfersAreSafe`: the action property follows from `IInv` at the commit.
* `VerdictsFollowPriority`: the nested conditions of the code pick the first missing
  family of the order the property states, for each of the seven contracts.
* `MasksCoverGroups`: the mask is the part of the iteration space in the current group. Loop
  bounds, group number and vector length are any numbers, and so is the one, 2^32 in the code,
  that bounds and group are cut to: a bound of 2^32 or above counts by its lower bits. Division enters through one lemma:
  the quotient and remainder of a number are unique.
* `Refinement`: initial states map to initial states, and each instruction maps to
  the step of `BlockStream` of its kind or to a stutter. A refused BSTART, a BSTOP
  when no block is open, and anything written to the registers of a closed block are
  stutters under the mapping `BlockOfRegisters`, which is where "a closed block's
  registers have no effect" is proved.

**LinxAcr_proofs.** `AcrTypeCorrect`; its invariant `AcrIInv` adds what the shared registers of
block control must be. `ReturnsResume`: the action property `ReturnResumesRequest` needs
`AskedInv`, that from a request to its return the bank of the ring goes on holding the
context interrupted, whatever instructions of blocks, of other rings and of XB run
meanwhile, unless software writes that bank itself. `RestoresSave` needs `KeptInv`, that the bank points at the buffer of the last
save and that the buffer holds what was saved, in the words that fit the length.
`CacAssumption` says that capability tables lie at non-zero bases, since a base of zero is
no table to the code.

**InsnHist_proofs.** All four properties, for any number of threads, any finite program, any
opcode table of at most 64 bits per form, and any `top=`.

* `OneCounter`: the conclusion is not inductive. It needs `LockInv`: a thread between its
  lookup and its insertion holds the lock, and what it did not find is still missing.
  `CounterInv` joins that to the types.
* `TotalLags`: `HistInv` adds `OwnInv` (a callback increments the counter of the mnemonic of its
  instruction), `SumsInv` (counters, total and history agree but for the threads between
  the two increments; each counter is the sum of the executions of its instructions) and
  `EndInv`.
* `ReportsExact`: `DecodeIsMeaning` shows that the loop over the table finds the first of the
  most precise forms; `BeforeIsOrder` that the comparison is a strict total order, because
  no two counters have one mnemonic; `ListExists` that a finite set can be sorted, so
  that what the sort leaves is sorted; `RowsCollected` that the loop writes the
  counters that were hit, in that order.
* `TopsMostFrequent`: "top" is a prefix of those rows.

**LinxMemory_proofs.** Of the atomic operations: `UpdatesAreCounted`, `UndisturbedStoresSucceed` and
`LocksExclude`, for any number of cells, lines and nested handlers. The invariant
`AtomicInv` adds two parts. `ReservationInv`: a valid reservation is that of the latest LR, and
the cell of that LR still holds what it read unless another instruction than SC has stored
to it. Hence an SC that is not `Blind` and succeeds adds to what is there, and
`UpdatesAreCounted` says for all mixtures of instructions that additions are lost by blind
SCs alone; it does not say that none is lost. `LevelsInv`: whoever is interrupted is no longer undisturbed, and levels above the
running one have loaded nothing.

Of the vector queues: `QueueTypesHold`, and `QueuesImplementFifos`: every instruction maps to
one step of `Fifo`, for any set of rings, any words in their headers, any vector length and any
lanes that aim at the same ring. A capacity of 1 never has an element, one of 0 is full and empty
at once, and a header may hold words far beyond the capacity: `SumReduced` and `WrapsOnce` turn
remainders into one subtraction, `PushAppends` and `PopTakesHead` say what one lane does to
the elements of its ring. The loop over the lanes is the induction: after n lanes
(`LanesServed`) each ring has grown by what the lanes below n that named it could push, and each
of those was told so; `LaneOfCount` identifies the lane that Fifo's `Nth` chooses. The
assumption on `Word` says only that what programs push is no `Undefined`.

Of the templates: `TemplateTypesHold`, and `TemplatesKeepFrames`: FENTRY is a call of
`CallFrames`, FEXIT and FRET are returns, MCOPY and MSET change the locals of the innermost
frame and nothing else. It holds for registers of any number of bytes, any ranges (empty, or
with zero or the stack pointer in them) and any nesting that the stack has room for, which is
what `TemplateAssumption` asks. `FrameInv` is short, for the mapping reads the saved registers
out of memory: the stack pointer is where the open frames end. The work is in the steps,
and two facts carry it. A word stored byte by byte and loaded again is the word (`BytesOf`,
`LoadOfBytes`: digits to the base `ByteMod`). And slots of different registers and frames
share no byte (`SlotsFit`, `FramesApart`), so that what an entry, a copy or a fill
writes leaves every older frame as it was. The loops of the code are functions of their
turns (`LoopsEnd`); `Saving`, `Restoring` and `Copying` say what n turns leave.

Of the composition: `MemoryTypesHold` and `MemoryImplements`, as for `libc`.

**Libc_proofs.** Of `exit`: `ExitTypesHold`, and `FinisherIsTold`: both devices get the code of the
latest request. `FramesInv` says that the loop below a running handler belongs to the
latest request and has its code, `DevicesInv` that the devices are written in order by
`__linx_exit` and by nothing else.

`HandlersRunInReverse` and `HandlersAllRun` count levels: the level after k entries of the
log is the registrations accepted less the calls made. `LogInv` says that the level of the
whole log is the length of the table (`TableInv`), that each place of the table has an
entry of the log that filled it and below whose level the log never went since, and that
between a registration and the call that undoes it the level comes back to the same
(`OrderInv`). A call empties the last place, so the entry that filled it is the latest
one still standing. `EmptyInv`: `_Exit` is reached with an empty table, hence with level 0.

Of the heap: `HeapTypesHold`: blocks are aligned and in the array. `BlocksLieApart`,
for every heap size, alignment and request.
`BlocksStayWhole` is not inductive: `HeapBounds` puts every block below the offset, so
that a new one is disjoint from all (`Apart`), and `HeadersHoldSizes` keeps what
`realloc` reads. The bound in unsigned arithmetic is where `HeapAssumption` is used.
`HeapImplementsObjects`: every call maps to a step of `ObjectStore`. That a new object is zero
without being cleared by `malloc` rests on `FreshIsZero`: what has not been handed out has
never been written.

Of formatted output: `PrintsAsAskedAll`, for every width of an `int`, every number of digits of
a pointer, and every combination of flags, width, precision and argument. What is
printed and what is read back are both recursions over digits. They are not
unfolded: `FiguresExist` and `Worths` give functions that meet the two recursive definitions,
and `FiguresAgree` and `WorthIs` say that there is no other, so that digits and number
determine each other (`DigitsRead`, `ReadNumber`). `linx_format_uint` has three
layouts; `FormatIs` brings them to one: spaces, sign, prefix, zeros, figures, spaces
(`LaidOut`), with the widths that the precision and the zero flag ask for. `NumberShape` reads this as
a number (`NumberIs`): an octal prefix is one of its zeros, a space for a sign is one of
its spaces. `NumberKeeps` draws the three properties of a number from that. `OutputInv`
follows the call through its format: what was put out and what is still to be put out are
together the output of the items read, so at the return the text before the last character
is the output of the conversion, and `%n` has stored its count. `FormatAssumption`
names the formats that the property reads: a conversion, another
character, `%n`; texts without spaces, which could not be told from padding; widths and
precisions that are integers or missing.

Of the composition: `LibcTypesHold` and `LibcInvariantsHold`, the latter with the nine
invariants of the run other than the types. A part that was not chosen
keeps its variables, so its own theorem applies with stuttering; the parts on strings,
output and soft float begin in their own initial states, or never make a call.

**LibcText_proofs.** `StringContractsHold`: all thirteen functions, for a memory of any
size, any contents (`Image`), words of any size and texts of any length. The loops are
recursive functions of the number of turns, and what they leave is said in closed form:
after n turns of an upward copy the first n cells hold what the source held *before*
the call (`UpwardMoves`, `DownwardMoves`). This needs that a turn never reads a cell an
earlier turn wrote, hence the direction that `memmove` chooses; `MemcpyMoves` joins the
bytes up to an aligned address, the words, and the bytes that are left. Comparisons go by
the first place of difference (`FirstDifferenceDecides`), which exists by the least
member of a set; copies of texts by what is placed where (`PlacedCells`).

`BuffersHold`: for every format and buffer size the buffer holds the
beginning of what was put out, no byte outside it is written, and the returned text is
terminated. What the items print does not matter; the only assumption, named
`OutputAssumption`, is that an item prints a sequence of characters. The theorem is
the first part of what `PrintsAsAsked` checks; the rest is in `Libc_proofs`.

**SoftFloat_proofs.** All three properties, for every width of mantissa, exponent and integer
that `SoftFloatAssumption` allows. What that asks of the widths is true of the code's
(23 and 8 bits, 52 and 11, 32 and 64): a double has more of both than a float, an int fits
its mantissa, a long is longer than an int, the least subnormal float is a normal
double, infinity is beyond the integers, and the difference of exponents that is no longer
shifted by is beyond the mantissa with its three extra bits. The provers know
nothing of powers of two: that they are positive, add up and grow follows from the library's
theorem on the number of subsets (`Subsets`), and from there on `Pw(n)` stands for 2^n.

* `ComparisonsOrderAll`: the magnitudes compare as exponent and mantissa do (`MagBelow`), and
  a float extended to a double keeps its order (`ExtendBelow`).
* `ConversionsRoundAll`: a double is an integer scaled by a power of two (`ScaledIs`), and
  what a conversion drops of it is a remainder, so that division is unique.
* `ArithmeticIsRoundedAll`: `Stuck` relates a number to its form with guard, round and sticky
  bits: the form is exact, or it is odd and the number lies strictly beside it. Shifts, sums and
  differences keep it as long as one operand is exact. `RoundedMain` gives the mantissa
  that is left after rounding, `GridGap` says that no float lies between two neighbours,
  and so the packed result is nearest, ties to even, past the largest number and below
  the least normal one as well (`PackedNearest`). A product has `Faithful` only: one of the two
  neighbours of the exact one. Its sticky bit misses a bit (`claim_product`, section 8), so that
  nearest is false of it.

**GateReport_proofs.** `OwnGatesPass`: an exit code of 0 means that the script recorded
every gate of its list and none failed, for any number of scripts at once, any list of
gates, and kills in any phase. `AttemptInv` says that the rows an attempt recorded are
those of the gates before its current one, and that a failed row is counted.

The other theorems have `OneAtATime` (`MaxRunning = 1`) as a hypothesis, as the documents run
the lanes one after the other; with two at once the properties are false, as rows are lost.

* `RowsOfOneAttempt`: `SerialInv` relates the file, the copy a command has read and the
  history `did` in every phase of a command. Kills may come in any phase, also between
  the truncation and the write: the file then does not parse, and no later command
  gets past its load.
* `StatusLacksOneRow`: the rendered file is compared with the rows in `SerialInv`.
* `BothLanesPassed`: `LedgerInv` says that an attempt has one row per gate, from the first
  gate on without a hole; `EvidenceInv` that the own run is the newest of its lane, so that
  the check of a release-strict script compares it with the run of the other lane, which
  is complete because it has a row of the last gate.
* `ReportIsBoard` has `NoTornReport` as a second hypothesis: no script is killed between the
  truncation and the write of a file. A run that is torn by such a kill never comes
  back, and the abstract board has no step for that. `gate_serial` checks `BoardSpec` under
  the same condition.

`GateAssumption` says of the gates only what the script's own list shows: it is not empty, names
are distinct, and a gate skipped by policy is not required.

Only model-checked:

* the properties of the opcode table. They speak of the 740 rows of one constant, and TLC
  reads it from end to end: there is no parameter for a theorem to be general in;
* `EndsAtFinisher`, which is liveness and out of the prover's reach.

## 8. Disagreements between code and documents

One is a finding with a run:

* `claim_product`: `__mulsf3` shifts the product right by one (`softfp.c:283`) before it
  collects the sticky bit, so a bit lost there does not count; the comment at line 287
  says what the sticky bit is for. A product just above a tie is rounded down. With full
  widths 0x3fad198d * 0x3fecd145 gives 0x4020210e and not 0x4020210f.

The others are stated in the claims modules (or in the module named) and fail in the same
way. They have no run of their own; each is checked by naming it, in place of the
properties there, as the PROPERTY (or INVARIANT) of the configuration in the last column.

| Property | What the code does | Document | Base configuration |
| --- | --- | --- | --- |
| `TakenTransferSkipsTheSequentialBlock` | a BSTART that ends a taken block opens its own block at the target | `04_block_isa.adoc:727` | `block_scalar` |
| `EveryTransferLandsOnMarker` | a register target is not checked | `04_block_isa.adoc:10` | `block_scalar` |
| `IcallUsesSelectedRegister` | a 32-bit BSTART ICALL is decoded as CALL to itself, so the register that SETC.TGT selected is ignored (`decode.sail:1180`) | `state.sail:150` | `block_scalar` with `Forms <- IcallForms` |
| `EveryCommitValidatesHeader` | only BSTOP validates | `state.sail:1335` | `block_headers` with `SeqMod = 2` |
| `BadHeaderDoesNotCommit` | BSTOP commits after the trap | `10_system_and_privilege.adoc:280` | `block_headers` with `SeqMod = 2` |
| `RefusedMarkerKeepsContract` | decoding has replaced the contract | `state.sail:1192` | `block_headers` with `Addr = {0, 2}`, `MarkerStrict = TRUE`, `MarkerTable = {0}` |
| `ImportsInFieldOrder` | RegSrc1 is bound first | `04_block_isa.adoc:270` | `block_headers` |
| `MetadataResetAtStart` | B.CATR, B.DATR and loop bounds outlive the block | `04_block_isa.adoc:419` | `block_headers` |
| `ReturnRestoresCondition` | ACRC saves no condition | `04_block_isa.adoc:178` | `acr_request` |
| `RequestFillsManagingBank` | the caller's bank is written | `10_system_and_privilege.adoc:289` | `acr_request` with `CstateValues <- UserRing` and `RequestTypes = {0, 1, 2}` |
| `RequestSavesFollowingPc` | `tpc` is saved | `10_system_and_privilege.adoc:290` | `acr_request` |
| `IdentifierNamesBank` | an SSR identifier's ring is dropped | `10_system_and_privilege.adoc:438` | `acr_request` with `BankFields = {"cur"}` |
| `EsaveOperandOrder` | kind and length are exchanged | `07_templates.adoc:97` | `acr_context` |
| `RefusedCallIsNotDispatched` | XB records the permission trap and dispatches the call anyway (`execute.sail:5382`) | `09b_xb_system_call_block.adoc:33` | `acr_banks` with `Addr = {0, 2}` and `CstateValues <- TwoRings` |
| `UnknownRingIsRefused` | ACR-ID 16 calls ring 0 | `09b_xb_system_call_block.adoc:72` | `acr_banks` with `CstateValues <- TwoRings` |
| `RenderedIsCurrent` | the status file is rendered before the row of its own gate is recorded, so the consistency check can refuse it (`run_runtime_convergence.sh:1185`) | `superproject-bringup-methodology.md:146` | `gate_serial` |
| `CheckEndsWithVerdict` | a passing performance floor reads an unassigned variable (`check_gate_consistency.py:316`) | `check_gate_consistency.py:163` | `gate_serial` with `PerfFloor = TRUE` |
| `ManifestNamesVersion` | a script killed between two commands leaves old rows under a new manifest | `superproject-bringup-methodology.md:145` | `gate_serial` with `MaxRepins = 1` |
| `FormsAreUnique` (`OpcodeCodec`) | `bstart_par_32` and `bstart_tepl_32` have one mask and one match | `linxisa_opcodes.h:9` | `opcode_table` |
| `ExclusiveIsAtomic` (`LinxAtomics`) | an LR that a handler leaves behind serves the SC of the task it interrupted | `lr_sc.md:7` | `sail_memory` |
| `ReturnIsExit` (`LibcExit`) | `_start` calls `__linx_exit`, so a return from main skips the handlers of atexit (`crt0.s:23`) | `crt0.s:5` | `libc` |

`ExclusiveIsAtomic` takes a task and a handler to fail: the task executes LR c; the handler adds
to c by LR and SC, executes LR c once more and returns. The reservation that it leaves is the
task's as far as `excl_check` can tell (`state.sail:1488`), so the task's SC succeeds and the
handler's addition is lost, though every store was by SC. The document says of the pair,
"This ensures the atomicity of the operation". That other stores do not clear the reservation is
admitted at `state.sail:1470`; this is not.

Observed while modelling:

* The first release-strict script of a new report always fails: the check wants a
  passing run of both lanes.
* The newest *passing* run of a lane counts, however old; a newer failing run of
  that lane does not displace it.
* A glibc G1b gate whose command succeeds without a summary file counts as passed.
* The fused BSTART.CALL never writes `ra` (`decode.sail:1079`, `:3425`), and the arm
  of BSTART.TEPL is hidden by an earlier one (`decode.sail:805`, `:815`).
* A request made while no block is open returns into the block that retired last,
  because ACRE sets the open flag. `RefinesBlockStream` is therefore claimed for
  LinxBlock and not over LinxAcr.
* `__floatsisf` is wrong for every int but 0: float(1) is 128 (`softfp.c:466`). It is left
  out of SoftFloat. The sum of two subnormal numbers comes out with exponent 1 and so gains
  an implicit bit, where `softfp.c:223` speaks of flushing to zero.
* A template is one step of the model, while `07_templates.adoc` wants it restartable
  between micro-operations.
* LR.B and LR.H extend with zeros (`execute.sail:6334`), and `lr_sc.md:11` says with the sign;
  LinxAtomics has cells of one width.
* `malloc` aligns the offset into the heap and not the address: the array carries no
  alignment of its own (`stdlib.c:25`).
* Against the C standard: `strchr` and `strrchr` do not find the terminator, `%hhd` does not
  narrow its argument, `%#.5o` prints one 0 too many, and a width of INT_MIN from an
  argument overflows when it is negated.

## 9. Not modelled, and why

* The fetch loop, address translation and the memory of loads and stores are supplied
  by the simulator around the Sail model (`Fetch`, external).
* Traps do not vector anywhere in the code: they are recorded, and so they are here.
  Handlers of LinxAtomics come from outside between two instructions (external).
* Scalar and floating point instructions, lane arithmetic, loads and stores: functions of
  their operands, or one access to a flat memory. The branches inside a block body write
  `tpc`, which nothing of block control reads but ACRC.
* The TLB and cache instructions do nothing in the code.
* QEMU calls `plugin_exit` after the last instruction callback has returned
  (external; `Exit` requires idle threads).
* `Kill` and `Repin` are the environment of the scripts (external).
* Of the report: its age (`--max-age-hours` against a file the script has just
  written), equal trace schema versions, the legacy schema, and phase markers edited by
  hand in status documents.
* Of the plugin: percentages, JSON layout, and `extract_mnemonic_token`, which is
  never called.
* Of the opcode table: identifiers, assembly templates, names of fields, sign hints.
* Of libc: `__floatsisf`; the maths functions, which are placeholders; the atomic builtins,
  which are plain accesses; system calls, which are I/O; the reading of digits in a format.
* The gate runner, checks and generators: sequential programs over files. The gate runner
  stops at its first failing required gate (`run_gates.py:248`).
* TSVC, CoreMark and Dhrystone under `workloads/`, which are vendored benchmarks: most of
  the C code the opcode table and libc leave over.
* Everything else that `PROJECT.json` lists as `not_modelled`, with the reason there.
