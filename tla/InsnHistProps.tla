--------------------------- MODULE InsnHistProps ---------------------------
(***************************************************************************)
(* What the instruction histogram must report.  A history variable          *)
(* records what the guest executed, instruction by instruction.             *)
(***************************************************************************)
EXTENDS InsnHist

VARIABLE ran      \* how often each instruction has executed

histVars == <<vars, ran>>

HistInit == Init /\ ran = [i \in Code |-> 0]

HistExecute(v) ==
  /\ Execute(v)
  /\ ran' = [ran EXCEPT ![vcpu'[v].insn] = @ + 1]

HistNext ==
  \/ \E v \in Vcpu :
       \/ HistExecute(v)
       \/ (Translate(v) \/ Lookup(v) \/ Reuse(v) \/ Insert(v) \/ CountTotal(v)) /\ UNCHANGED ran
  \/ Exit /\ UNCHANGED ran

HistSpec == HistInit /\ [][HistNext]_histVars

-----------------------------------------------------------------------------
(* Every mnemonic has at most one counter, which the table holds and, until *)
(* the report sorts it, the array, however the translations of several      *)
(* threads interleave.                                                      *)
OneCounterPerMnemonic ==
  /\ \A c, d \in 1 .. Len(counters) :
       counters[c].mnemonic = counters[d].mnemonic => c = d
  /\ table = {<<counters[c].mnemonic, c>> : c \in 1 .. Len(counters)}
  /\ report = NoFile => order = [c \in 1 .. Len(counters) |-> c]

(* The reference meaning of the mnemonic: the first form of the table none  *)
(* of whose rivals fixes more bits.                                         *)
Meant(insn, i) ==
  /\ Matches(FormTable[i], insn)
  /\ \A j \in 1 .. Len(FormTable) : Matches(FormTable[j], insn) =>
       \/ Fixed(FormTable[j]) < Fixed(FormTable[i])
       \/ Fixed(FormTable[j]) = Fixed(FormTable[i]) /\ i <= j

MeansMnemonic(insn, m) ==
  \/ \E i \in 1 .. Len(FormTable) : Meant(insn, i) /\ FormTable[i].mnemonic = m
  \/ m = Illegal /\ \A i \in 1 .. Len(FormTable) : ~Meant(insn, i)

(* The report gives every executed mnemonic once, with the number of times  *)
(* its instructions executed in all threads together, and the total is the  *)
(* sum of the counts.                                                      *)
ReportIsExact ==
  report.written =>
    /\ report.total = SumFunctionOnSet(ran, Code)
    /\ \A k, l \in 1 .. Len(report.all) :
         report.all[k].mnemonic = report.all[l].mnemonic => k = l
    /\ \A i \in Code : ran[i] > 0 =>
         \E k \in 1 .. Len(report.all) : MeansMnemonic(i, report.all[k].mnemonic)
    /\ \A k \in 1 .. Len(report.all) :
         report.all[k].count =
           SumFunctionOnSet(ran, {i \in Code : MeansMnemonic(i, report.all[k].mnemonic)})

(* "top" lists the most frequent mnemonics: no mnemonic outside it executed *)
(* more often than one in it, and it is full unless "all" is shorter.       *)
TopIsMostFrequent ==
  report.written =>
    /\ Len(report.top) = IF Len(report.all) < TopN THEN Len(report.all) ELSE TopN
    /\ \A k \in 1 .. Len(report.top) : \A l \in 1 .. Len(report.all) :
         report.all[l] \in {report.top[j] : j \in 1 .. Len(report.top)}
           \/ report.top[k].count >= report.all[l].count

Counts == [c \in DOMAIN counters |-> counters[c].count]

(* The two counts of an execution are separate: the total may lag behind    *)
(* the sum of the counters by the threads in between, and never leads it.   *)
TotalLagsByThreadsInBetween ==
  SumFunction(Counts)
    = total + Cardinality({v \in Vcpu : vcpu[v].at = "counted"})
=============================================================================
