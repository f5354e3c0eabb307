------------------------------ MODULE InsnHist ------------------------------
(***************************************************************************)
(* The QEMU instruction histogram plugin (tools/qemu_plugins/               *)
(* linx_insn_hist.c).  Several vCPU threads translate code, which looks up  *)
(* or creates a counter under map_lock, and execute it, which increments    *)
(* the counter and then the total, two separate atomic operations.  When    *)
(* execution has finished the plugin sorts the counters and writes the      *)
(* report.  QEMU calls plugin_exit after the last instruction callback has  *)
(* returned (external).                                                     *)
(*                                                                          *)
(* A code word is the set of its one bits and its size; a form of the       *)
(* opcode table is a mask and a match over bit positions.  Mnemonics are    *)
(* numbers in strcmp order.                                                 *)
(***************************************************************************)
EXTENDS InsnDecode, SequencesExt

CONSTANTS
  Vcpu,           \* vCPU threads
  Code,           \* instructions of the guest program: [bits, size]
  TopArg,         \* the number in the option top=, as strtoull returns it
  GuintMod,       \* top_n is a guint: 2^32 in the code
  MaxExec         \* bound: instructions executed

ASSUME HistAssumption ==
  /\ IsFiniteSet(Code)
  /\ \A i \in Code : i.bits \subseteq Nat /\ i.size \in Nat
  /\ FormTable \in Seq([length : {16, 32, 48, 64}, mask : SUBSET (0 .. 63),
                        match : SUBSET (0 .. 63), mnemonic : Nat])
  /\ \A i \in 1 .. Len(FormTable) : FormTable[i].match \subseteq FormTable[i].mask
  /\ "nobody" \notin Vcpu
  /\ Illegal \in Nat /\ TopArg \in Nat /\ GuintMod \in Nat \ {0}

VARIABLES
  table,          \* mnemonic_to_counter: pairs of a mnemonic and a counter
  counters,       \* the Counter objects, in the order of their allocation
  order,          \* all_counters
  lock,           \* the holder of map_lock
  hooks,          \* registered execution callbacks: instruction and counter
  total,          \* total_insns
  vcpu,           \* what each thread is doing
  report          \* the file written at exit

vars == <<table, counters, order, lock, hooks, total, vcpu, report>>

Idle    == [at |-> "idle"]
Nobody  == "nobody"
NoFile  == [written |-> FALSE]
Refused == [written |-> FALSE, refused |-> TRUE]

TopN == IF TopArg % GuintMod = 0 THEN 50 ELSE TopArg % GuintMod

-----------------------------------------------------------------------------
Init ==
  /\ table = {} /\ counters = <<>> /\ order = <<>>
  /\ lock = Nobody
  /\ hooks = {}
  /\ total = 0
  /\ vcpu = [v \in Vcpu |-> Idle]
  /\ report = NoFile

Step(v, state) == vcpu' = [vcpu EXCEPT ![v] = state]

(* vcpu_tb_trans decodes an instruction of a block and asks for its counter. *)
Translate(v) ==
  /\ vcpu[v] = Idle /\ report = NoFile
  /\ \E insn \in Code :
       Step(v, [at |-> "lookup", insn |-> insn, mnemonic |-> DecodeMnemonic(insn)])
  /\ UNCHANGED <<table, counters, order, lock, hooks, total, report>>

Found(mnemonic) == {e \in table : e[1] = mnemonic}

(* Mutant: the lock is not taken. *)
TakeLock_No(v) == UNCHANGED lock

TakeLock(v) == lock = Nobody /\ lock' = v

(* get_counter, until the lookup has answered. *)
Lookup(v) ==
  /\ vcpu[v].at = "lookup"
  /\ TakeLock(v)
  /\ Step(v, [vcpu[v] EXCEPT !.at = IF Found(vcpu[v].mnemonic) = {} THEN "insert" ELSE "found"])
  /\ UNCHANGED <<table, counters, order, hooks, total, report>>

Register(v, c) ==
  /\ hooks' = hooks \cup {<<vcpu[v].insn, c>>}
  /\ lock' = Nobody
  /\ Step(v, Idle)

(* The counter exists: the lock is released and the callback registered. *)
Reuse(v) ==
  /\ vcpu[v].at = "found"
  /\ \E e \in Found(vcpu[v].mnemonic) : Register(v, e[2])
  /\ UNCHANGED <<table, counters, order, total, report>>

(* Mutant: the new counter is not added to the array. *)
Create_Unlisted(v, c) ==
  /\ counters' = Append(counters, [mnemonic |-> vcpu[v].mnemonic, count |-> 0])
  /\ table' = table \cup {<<vcpu[v].mnemonic, c>>}
  /\ UNCHANGED order

(* A new counter replaces an entry of the same key, as a hash insert does. *)
Create(v, c) ==
  /\ counters' = Append(counters, [mnemonic |-> vcpu[v].mnemonic, count |-> 0])
  /\ table' = (table \ Found(vcpu[v].mnemonic)) \cup {<<vcpu[v].mnemonic, c>>}
  /\ order' = Append(order, c)

Insert(v) ==
  /\ vcpu[v].at = "insert"
  /\ Create(v, Len(counters) + 1)
  /\ Register(v, Len(counters) + 1)
  /\ UNCHANGED <<total, report>>

(* vcpu_insn_exec of a translated instruction: first the counter ... *)
Execute(v) ==
  /\ vcpu[v] = Idle /\ report = NoFile /\ total < MaxExec
  /\ \E h \in hooks :
       /\ counters' = [counters EXCEPT ![h[2]].count = @ + 1]
       /\ Step(v, [at |-> "counted", insn |-> h[1]])
  /\ UNCHANGED <<table, order, lock, hooks, total, report>>

(* Mutant: the increment of the total is not atomic; one of two that        *)
(* overlap is lost.                                                         *)
CountTotal_Lossy(v) ==
  /\ vcpu[v].at = "counted"
  /\ total' = IF \E w \in Vcpu \ {v} : vcpu[w].at = "counted" THEN total ELSE total + 1
  /\ Step(v, Idle)
  /\ UNCHANGED <<table, counters, order, lock, hooks, report>>

(* ... then the total. *)
CountTotal(v) ==
  /\ vcpu[v].at = "counted"
  /\ total' = total + 1
  /\ Step(v, Idle)
  /\ UNCHANGED <<table, counters, order, lock, hooks, report>>

(* sort_by_count_desc *)
Before(c, d) ==
  \/ counters[c].count > counters[d].count
  \/ counters[c].count = counters[d].count /\ counters[c].mnemonic < counters[d].mnemonic

(* write_report: counters that were never hit are in neither list. *)
Report(sorted) ==
  LET rows[k \in 0 .. Len(sorted)] ==
        IF k = 0 THEN <<>>
        ELSE IF counters[sorted[k]].count = 0 THEN rows[k - 1]
        ELSE Append(rows[k - 1], counters[sorted[k]])
      all == rows[Len(sorted)]
  IN  [written |-> TRUE, total |-> total, all |-> all,
       top |-> SubSeq(all, 1, IF Len(all) < TopN THEN Len(all) ELSE TopN)]

(* Mutant: the report is written in the order of allocation. *)
Sorted_Not == order

(* What the array holds after g_ptr_array_sort. *)
Sorted ==
  CHOOSE s \in [DOMAIN order -> Range(order)] :
    /\ Range(s) = Range(order)
    /\ \A i, j \in DOMAIN order : i < j => Before(s[i], s[j])

(* The counters are sorted before the file is opened, which may fail. *)
Exit ==
  /\ report = NoFile
  /\ \A v \in Vcpu : vcpu[v] = Idle
  /\ order' = Sorted
  /\ report' \in {Report(Sorted), Refused}
  /\ UNCHANGED <<table, counters, lock, hooks, total, vcpu>>

Next ==
  \/ \E v \in Vcpu : \/ Translate(v) \/ Lookup(v) \/ Reuse(v) \/ Insert(v)
                     \/ Execute(v) \/ CountTotal(v)
  \/ Exit

Spec == Init /\ [][Next]_vars
=============================================================================
