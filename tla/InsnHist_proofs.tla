-------------------------- MODULE InsnHist_proofs --------------------------
(***************************************************************************)
(* The instruction histogram, for every set of threads, program, opcode     *)
(* table and option top=.  The lock makes lookup and insertion one step, so *)
(* that a mnemonic never gets a second counter; counters, total and history *)
(* then agree but for the executions in between; and what the sort and the  *)
(* loop of write_report make of the counters is the report promised.        *)
(*                                                                          *)
(* Sums, sorting and the loop are recursive: a fact about each of their     *)
(* steps is shown to hold by taking the least counterexample.               *)
(***************************************************************************)
EXTENDS InsnHistProps, FiniteSetTheorems, WellFoundedInduction, TLAPS

Mnemonics == {DecodeMnemonic(i) : i \in Code}

Counter == [mnemonic : Mnemonics, count : Nat]

ThreadState ==
  {Idle} \cup [at : {"lookup", "found", "insert"}, insn : Code, mnemonic : Mnemonics]
         \cup [at : {"counted"}, insn : Code]

(* Types. *)
CounterTypeOK ==
  /\ counters \in Seq(Counter)
  /\ hooks \subseteq Code \X (1 .. Len(counters))
  /\ vcpu \in [Vcpu -> ThreadState]

(* Only the holder of the lock is between its lookup and its insertion, and *)
(* what it did not find is still missing.                                   *)
LockInv ==
  \A v \in Vcpu :
    /\ vcpu[v].at \in {"found", "insert"} => lock = v
    /\ vcpu[v].at = "insert" => \A e \in table : e[1] # vcpu[v].mnemonic

CounterInv == CounterTypeOK /\ LockInv /\ OneCounterPerMnemonic

LEMMA InitCounters == Init => CounterInv
<1>. SUFFICES ASSUME Init PROVE CounterInv
  OBVIOUS
<1>. USE DEF Init
<1>1. CounterTypeOK
  BY DEF CounterTypeOK, ThreadState
<1>2. LockInv
  BY DEF LockInv, Idle
<1>3. OneCounterPerMnemonic
  <2>1. Len(counters) = 0
    OBVIOUS
  <2>2. order = [c \in 1 .. Len(counters) |-> c]
    BY <2>1
  <2>3. table = {<<counters[c].mnemonic, c>> : c \in 1 .. Len(counters)}
    BY <2>1
  <2>. QED
    BY <2>1, <2>2, <2>3 DEF OneCounterPerMnemonic
<1>. QED
  BY <1>1, <1>2, <1>3 DEF CounterInv

(* Steps that leave the counters, the table and the array alone. *)
LEMMA TranslateKeeps ==
  ASSUME CounterInv, NEW v \in Vcpu, Translate(v)  PROVE CounterInv'
<1>1. PICK insn \in Code : vcpu' = [vcpu EXCEPT ![v] =
        [at |-> "lookup", insn |-> insn, mnemonic |-> DecodeMnemonic(insn)]]
  BY DEF Translate, Step
<1>2. UNCHANGED <<table, counters, order, lock, hooks, report>>
  BY DEF Translate
<1>3. DecodeMnemonic(insn) \in Mnemonics
  BY DEF Mnemonics
<1>4. CounterTypeOK'
  BY <1>1, <1>2, <1>3 DEF CounterInv, CounterTypeOK, ThreadState
<1>5. LockInv'
  BY <1>1, <1>2 DEF CounterInv, CounterTypeOK, LockInv, Found
<1>6. OneCounterPerMnemonic'
  BY <1>2 DEF CounterInv, OneCounterPerMnemonic
<1>. QED
  BY <1>4, <1>5, <1>6 DEF CounterInv

LEMMA LookupKeeps ==
  ASSUME CounterInv, NEW v \in Vcpu, Lookup(v)  PROVE CounterInv'
<1>. DEFINE found == Found(vcpu[v].mnemonic) # {}
<1>1. /\ vcpu[v] \in [at : {"lookup", "found", "insert"}, insn : Code, mnemonic : Mnemonics]
      /\ lock = Nobody /\ lock' = v
      /\ UNCHANGED <<table, counters, order, hooks, report>>
  BY DEF Lookup, TakeLock, CounterInv, CounterTypeOK, ThreadState, Idle
<1>2. vcpu' = [vcpu EXCEPT ![v] = [vcpu[v] EXCEPT !.at = IF found THEN "found" ELSE "insert"]]
  BY DEF Lookup, Step
<1>3. vcpu'[v] = [at |-> IF found THEN "found" ELSE "insert",
                  insn |-> vcpu[v].insn, mnemonic |-> vcpu[v].mnemonic]
  BY <1>1, <1>2 DEF CounterInv, CounterTypeOK
<1>4. CounterTypeOK'
  BY <1>1, <1>2, <1>3 DEF CounterInv, CounterTypeOK, ThreadState
<1>5. LockInv'
  <2>1. \A w \in Vcpu : vcpu[w].at \notin {"found", "insert"}
    BY <1>1, HistAssumption DEF CounterInv, LockInv, Nobody
  <2>2. \A w \in Vcpu \ {v} : vcpu'[w] = vcpu[w]
    BY <1>2 DEF CounterInv, CounterTypeOK
  <2>3. vcpu'[v].at = "insert" => \A e \in table' : e[1] # vcpu'[v].mnemonic
    BY <1>1, <1>3 DEF Found
  <2>4. ASSUME NEW w \in Vcpu
        PROVE  /\ vcpu'[w].at \in {"found", "insert"} => lock' = w
               /\ vcpu'[w].at = "insert" => \A e \in table' : e[1] # vcpu'[w].mnemonic
    <3>1. CASE w = v
      BY <1>1, <2>3, <3>1
    <3>2. CASE w # v
      BY <2>1, <2>2, <3>2
    <3>. QED
      BY <3>1, <3>2
  <2>. QED
    BY <2>4 DEF LockInv
<1>6. OneCounterPerMnemonic'
  BY <1>1 DEF CounterInv, OneCounterPerMnemonic
<1>. QED
  BY <1>4, <1>5, <1>6 DEF CounterInv

(* A step in which one thread becomes idle and gives the lock back keeps    *)
(* LockInv if the others cannot be in between.                              *)
LEMMA ReleaseKeepsLock ==
  ASSUME CounterInv, NEW v \in Vcpu, vcpu[v].at \in {"found", "insert"},
         vcpu' = [vcpu EXCEPT ![v] = Idle]
  PROVE  LockInv'
<1>1. \A w \in Vcpu \ {v} : vcpu[w].at \notin {"found", "insert"}
  BY DEF CounterInv, LockInv
<1>2. \A w \in Vcpu : vcpu'[w].at \notin {"found", "insert"}
  BY <1>1 DEF CounterInv, CounterTypeOK, Idle
<1>. QED
  BY <1>2 DEF LockInv

LEMMA ReuseKeeps ==
  ASSUME CounterInv, NEW v \in Vcpu, Reuse(v)  PROVE CounterInv'
<1>1. PICK e \in Found(vcpu[v].mnemonic) : Register(v, e[2])
  BY DEF Reuse
<1>2. UNCHANGED <<table, counters, order, report>> /\ vcpu[v].at = "found"
  BY DEF Reuse
<1>3. e[2] \in 1 .. Len(counters)
  BY <1>1 DEF Found, CounterInv, OneCounterPerMnemonic
<1>4. vcpu[v].insn \in Code
  BY <1>2 DEF CounterInv, CounterTypeOK, ThreadState, Idle
<1>5. CounterTypeOK'
  BY <1>1, <1>2, <1>3, <1>4 DEF Register, Step, CounterInv, CounterTypeOK, ThreadState
<1>6. LockInv'
  BY <1>1, <1>2, ReleaseKeepsLock DEF Register, Step
<1>7. OneCounterPerMnemonic'
  BY <1>2 DEF CounterInv, OneCounterPerMnemonic
<1>. QED
  BY <1>5, <1>6, <1>7 DEF CounterInv

LEMMA InsertKeeps ==
  ASSUME CounterInv, NEW v \in Vcpu, Insert(v)  PROVE CounterInv'
<1>. DEFINE n == Len(counters)
            m == vcpu[v].mnemonic
            new == [mnemonic |-> m, count |-> 0]
<1>1. /\ vcpu[v].at = "insert" /\ report' = report
      /\ counters' = Append(counters, new)
      /\ table' = (table \ Found(m)) \cup {<<m, n + 1>>}
      /\ order' = Append(order, n + 1)
      /\ hooks' = hooks \cup {<<vcpu[v].insn, n + 1>>}
      /\ vcpu' = [vcpu EXCEPT ![v] = Idle]
  BY DEF Insert, Create, Register, Step
<1>2. vcpu[v].insn \in Code /\ m \in Mnemonics
  BY <1>1 DEF CounterInv, CounterTypeOK, ThreadState, Idle
<1>3. counters \in Seq(Counter) /\ n \in Nat
  BY DEF CounterInv, CounterTypeOK
<1>4. /\ counters' \in Seq(Counter) /\ Len(counters') = n + 1
      /\ \A c \in 1 .. n : counters'[c] = counters[c]
      /\ counters'[n + 1] = new
  BY <1>1, <1>2, <1>3 DEF Counter
<1>5. CounterTypeOK'
  <2>1. hooks' \subseteq Code \X (1 .. n + 1)
    BY <1>1, <1>2, <1>3 DEF CounterInv, CounterTypeOK
  <2>2. vcpu' \in [Vcpu -> ThreadState]
    BY <1>1 DEF CounterInv, CounterTypeOK, ThreadState
  <2>. QED
    BY <1>4, <2>1, <2>2 DEF CounterTypeOK
<1>6. LockInv'
  BY <1>1, ReleaseKeepsLock
<1>7. Found(m) = {}
  BY <1>1 DEF CounterInv, LockInv, Found
<1>8. \A c \in 1 .. n : counters[c].mnemonic # m
  <2>1. \A c \in 1 .. n : <<counters[c].mnemonic, c>> \in table
    BY DEF CounterInv, OneCounterPerMnemonic
  <2>. QED
    BY <1>1, <2>1 DEF CounterInv, LockInv
<1>9. OneCounterPerMnemonic'
  <2>1. \A c, d \in 1 .. n + 1 : counters'[c].mnemonic = counters'[d].mnemonic => c = d
    BY <1>3, <1>4, <1>8 DEF CounterInv, OneCounterPerMnemonic
  <2>2. table' = {<<counters'[c].mnemonic, c>> : c \in 1 .. n + 1}
    <3>1. table' = {<<counters[c].mnemonic, c>> : c \in 1 .. n} \cup {<<m, n + 1>>}
      BY <1>1, <1>7 DEF CounterInv, OneCounterPerMnemonic
    <3>2. 1 .. n + 1 = (1 .. n) \cup {n + 1}
      BY <1>3
    <3>. QED
      BY <1>4, <3>1, <3>2
  <2>3. report' = NoFile => order' = [c \in 1 .. n + 1 |-> c]
    <3>. SUFFICES ASSUME report = NoFile PROVE order' = [c \in 1 .. n + 1 |-> c]
      BY <1>1
    <3>1. order = [c \in 1 .. n |-> c]
      BY DEF CounterInv, OneCounterPerMnemonic
    <3>2. order \in Seq(Nat) /\ Len(order) = n
      BY <3>1, <1>3
    <3>. QED
      BY <1>1, <1>3, <3>1, <3>2
  <2>. QED
    BY <1>4, <2>1, <2>2, <2>3 DEF OneCounterPerMnemonic
<1>. QED
  BY <1>5, <1>6, <1>9 DEF CounterInv

LEMMA ExecuteKeeps ==
  ASSUME CounterInv, NEW v \in Vcpu, Execute(v)  PROVE CounterInv'
<1>1. PICK h \in hooks :
        /\ counters' = [counters EXCEPT ![h[2]].count = @ + 1]
        /\ vcpu' = [vcpu EXCEPT ![v] = [at |-> "counted", insn |-> h[1]]]
  BY DEF Execute, Step
<1>2. UNCHANGED <<table, order, lock, hooks, report>>
  BY DEF Execute
<1>3. h[1] \in Code /\ h[2] \in 1 .. Len(counters)
  BY DEF CounterInv, CounterTypeOK
<1>4. counters \in Seq(Counter)
  BY DEF CounterInv, CounterTypeOK
<1>5. /\ counters' \in Seq(Counter) /\ Len(counters') = Len(counters)
      /\ \A c \in 1 .. Len(counters) : counters'[c].mnemonic = counters[c].mnemonic
  <2>. DEFINE one == [counters[h[2]] EXCEPT !.count = @ + 1]
  <2>1. counters[h[2]] \in Counter
    BY <1>3, <1>4
  <2>2. one \in Counter /\ one.mnemonic = counters[h[2]].mnemonic
    BY <2>1 DEF Counter
  <2>3. counters' = [counters EXCEPT ![h[2]] = one]
    BY <1>1
  <2>. HIDE DEF one
  <2>. QED
    BY <1>3, <1>4, <2>2, <2>3
<1>6. CounterTypeOK'
  BY <1>1, <1>2, <1>3, <1>5 DEF CounterInv, CounterTypeOK, ThreadState
<1>7. LockInv'
  BY <1>1, <1>2 DEF CounterInv, CounterTypeOK, LockInv, Found
<1>8. OneCounterPerMnemonic'
  <2>1. table' = {<<counters'[c].mnemonic, c>> : c \in 1 .. Len(counters')}
    BY <1>2, <1>5 DEF CounterInv, OneCounterPerMnemonic
  <2>. QED
    BY <1>2, <1>5, <2>1 DEF CounterInv, OneCounterPerMnemonic
<1>. QED
  BY <1>6, <1>7, <1>8 DEF CounterInv

LEMMA CountTotalKeeps ==
  ASSUME CounterInv, NEW v \in Vcpu, CountTotal(v)  PROVE CounterInv'
<1>1. vcpu' = [vcpu EXCEPT ![v] = Idle]
      /\ UNCHANGED <<table, counters, order, lock, hooks, report>>
  BY DEF CountTotal, Step
<1>2. CounterTypeOK'
  BY <1>1 DEF CounterInv, CounterTypeOK, ThreadState
<1>3. LockInv'
  BY <1>1 DEF CounterInv, CounterTypeOK, LockInv, Found, Idle
<1>4. OneCounterPerMnemonic'
  BY <1>1 DEF CounterInv, OneCounterPerMnemonic
<1>. QED
  BY <1>2, <1>3, <1>4 DEF CounterInv

LEMMA ExitKeeps == CounterInv /\ Exit => CounterInv'
<1>. SUFFICES ASSUME CounterInv, Exit PROVE CounterInv'
  OBVIOUS
<1>1. UNCHANGED <<table, counters, lock, hooks, vcpu>>
  BY DEF Exit
<1>2. report' # NoFile
  <2>1. Report(Sorted).written = TRUE /\ NoFile.written = FALSE
    BY DEF Report, NoFile
  <2>2. "refused" \in DOMAIN Refused /\ "refused" \notin DOMAIN NoFile
    BY DEF Refused, NoFile
  <2>. QED
    BY <2>1, <2>2 DEF Exit
<1>3. CounterTypeOK'
  BY <1>1 DEF CounterInv, CounterTypeOK
<1>4. LockInv'
  BY <1>1 DEF CounterInv, LockInv, Found
<1>5. OneCounterPerMnemonic'
  BY <1>1, <1>2 DEF CounterInv, OneCounterPerMnemonic
<1>. QED
  BY <1>3, <1>4, <1>5 DEF CounterInv

LEMMA NextCounters == CounterInv /\ [Next]_vars => CounterInv'
<1>. SUFFICES ASSUME CounterInv, [Next]_vars PROVE CounterInv'
  OBVIOUS
<1>1. CASE UNCHANGED vars
  BY <1>1 DEF vars, CounterInv, CounterTypeOK, LockInv, Found, OneCounterPerMnemonic
<1>2. CASE Exit
  BY <1>2, ExitKeeps
<1>3. ASSUME NEW v \in Vcpu,
             \/ Translate(v) \/ Lookup(v) \/ Reuse(v) \/ Insert(v)
             \/ Execute(v) \/ CountTotal(v)
      PROVE  CounterInv'
  BY <1>3, TranslateKeeps, LookupKeeps, ReuseKeeps, InsertKeeps, ExecuteKeeps, CountTotalKeeps
<1>. QED
  BY <1>1, <1>2, <1>3 DEF Next

(* For every number of threads, program and opcode table, a mnemonic has    *)
(* one counter, the table and the array hold it, and no translation is lost *)
(* (linx_insn_hist.c, get_counter).                                         *)
THEOREM OneCounter == Spec => []OneCounterPerMnemonic
<1>1. Init => CounterInv
  BY InitCounters
<1>2. CounterInv /\ [Next]_vars => CounterInv'
  BY NextCounters
<1>3. CounterInv => OneCounterPerMnemonic
  BY DEF CounterInv
<1>. QED
  BY <1>1, <1>2, <1>3, PTL DEF Spec

-----------------------------------------------------------------------------
(* Sums of functions over finite sets.                                      *)

(* The element that a fold over a set takes first. *)
Pick(s) == CHOOSE x \in s : TRUE

(* The sums of f over the subsets of S, as SumFunctionOnSet takes them. *)
AreTotals(f, S, n) ==
  n = [s \in SUBSET S |-> IF s = {} THEN 0 ELSE f[Pick(s)] + n[s \ {Pick(s)}]]

(* The sum of f over S. *)
TotalOf(f, S) == (CHOOSE n : AreTotals(f, S, n))[S]

(* The sum of the properties is the sum defined here. *)
LEMMA SumIsTotal ==
  ASSUME NEW f, NEW S
  PROVE  SumFunctionOnSet(f, S) = TotalOf(f, S)
BY DEF SumFunctionOnSet, FoldFunctionOnSet, MapThenFoldSet, TotalOf, AreTotals, Pick

(* A set of subsets of a finite set has one that contains no other. *)
LEMMA SmallestSubset ==
  ASSUME NEW S, IsFiniteSet(S), NEW Bad \in SUBSET (SUBSET S), Bad # {}
  PROVE  \E x \in Bad : \A y \in Bad : y \subseteq x => y = x
<1> DEFINE T == {Cardinality(y) : y \in Bad}
<1>1. \A y \in Bad : IsFiniteSet(y) /\ Cardinality(y) \in Nat
  BY FS_Subset, FS_CardinalityType
<1>2. T \in SUBSET Nat /\ T # {}
  BY <1>1
<1> HIDE DEF T
<1>3. PICK c \in T : \A d \in T : ~(<<d, c>> \in OpToRel(<, Nat))
  BY <1>2, NatLessThanWellFounded, WFMin
<1>4. PICK x \in Bad : Cardinality(x) = c
  BY DEF T
<1>5. ASSUME NEW y \in Bad, y \subseteq x PROVE y = x
  <2>1. Cardinality(y) \in T /\ Cardinality(y) \in Nat /\ c \in Nat
    BY <1>1, <1>2 DEF T
  <2>2. ~(Cardinality(y) < c)
    BY <1>3, <2>1 DEF OpToRel
  <2>3. Cardinality(y) <= c
    BY <1>1, <1>4, <1>5, FS_Subset
  <2> QED
    BY <1>1, <1>4, <1>5, <2>1, <2>2, <2>3, FS_Subset
<1> QED
  BY <1>5

(* A set that is not empty has the element. *)
LEMMA PickIsMember ==
  ASSUME NEW s, s # {}
  PROVE  Pick(s) \in s
BY DEF Pick

(* The sums over subsets do not depend on the set they are taken for. *)
LEMMA TotalsAgree ==
  ASSUME NEW f, NEW S, NEW T \in SUBSET S, IsFiniteSet(S),
         NEW n, NEW e, AreTotals(f, S, n), AreTotals(f, T, e)
  PROVE  \A s \in SUBSET T : n[s] = e[s]
<1> DEFINE Bad == {s \in SUBSET T : n[s] # e[s]}
<1>1. SUFFICES Bad = {}
  OBVIOUS
<1>2. ASSUME NEW s \in Bad, \A y \in Bad : y \subseteq s => y = s PROVE FALSE
  <2>1. s \in SUBSET T /\ s \in SUBSET S /\ n[s] # e[s]
    OBVIOUS
  <2>2. CASE s = {}
    BY <2>1, <2>2 DEF AreTotals
  <2>3. CASE s # {}
    <3> DEFINE t == s \ {Pick(s)}
    <3>1. t \subseteq s /\ t # s /\ t \in SUBSET T
      BY <2>1, <2>3, PickIsMember
    <3>2. n[t] = e[t]
      BY <1>2, <3>1
    <3>3. n[s] = f[Pick(s)] + n[t] /\ e[s] = f[Pick(s)] + e[t]
      BY <2>1, <2>3 DEF AreTotals
    <3> QED
      BY <2>1, <3>2, <3>3
  <2> QED
    BY <2>2, <2>3
<1> HIDE DEF Bad
<1>3. Bad \in SUBSET (SUBSET T) /\ IsFiniteSet(T)
  BY FS_Subset DEF Bad
<1> QED
  BY <1>2, <1>3, SmallestSubset

(* Every finite set has its sums. *)
LEMMA TotalsExist ==
  ASSUME NEW f, NEW S, IsFiniteSet(S)
  PROVE  \E n : AreTotals(f, S, n)
<1> DEFINE Bad == {s \in SUBSET S : ~(\E n : AreTotals(f, s, n))}
<1>1. SUFFICES Bad = {}
  OBVIOUS
<1>2. ASSUME NEW s \in Bad, \A y \in Bad : y \subseteq s => y = s PROVE FALSE
  <2>1. s \in SUBSET S /\ ~(\E n : AreTotals(f, s, n)) /\ IsFiniteSet(s)
    BY FS_Subset
  <2> DEFINE rest == s \ {Pick(s)}
             n == [t \in SUBSET s |-> IF t = {} THEN 0
                                      ELSE IF t = s THEN f[Pick(s)] + TotalOf(f, rest)
                                      ELSE TotalOf(f, t)]
  <2>2. ASSUME NEW t \in SUBSET s, t # s
        PROVE  \E e : AreTotals(f, t, e) /\ TotalOf(f, t) = e[t]
    <3>1. t \notin Bad /\ t \in SUBSET S
      BY <1>2, <2>1, <2>2
    <3>2. AreTotals(f, t, CHOOSE e : AreTotals(f, t, e))
      BY <3>1
    <3> QED
      BY <3>2 DEF TotalOf
  <2>3. ASSUME NEW t \in SUBSET s, t # {}, t # s
        PROVE  TotalOf(f, t) = f[Pick(t)] + n[t \ {Pick(t)}]
    <3> DEFINE u == t \ {Pick(t)}
    <3>1. u \in SUBSET t /\ u \in SUBSET s /\ u # s /\ IsFiniteSet(t)
      BY <2>1, <2>3, FS_Subset
    <3>2. PICK e : AreTotals(f, t, e) /\ TotalOf(f, t) = e[t]
      BY <2>2, <2>3
    <3>3. PICK d : AreTotals(f, u, d) /\ TotalOf(f, u) = d[u]
      BY <2>2, <3>1
    <3>4. e[t] = f[Pick(t)] + e[u]
      BY <2>3, <3>2 DEF AreTotals
    <3>5. e[u] = d[u]
      <4>1. AreTotals(f, t, e) /\ AreTotals(f, u, d) /\ u \in SUBSET u
        BY <3>2, <3>3
      <4> HIDE DEF u
      <4> QED
        BY <3>1, <4>1, TotalsAgree
    <3>6. u = {} => d[u] = 0
      BY <3>3 DEF AreTotals
    <3>7. n[u] = d[u]
      <4> HIDE DEF u
      <4>1. n[u] = IF u = {} THEN 0 ELSE TotalOf(f, u)
        BY <3>1
      <4> QED
        BY <3>3, <3>6, <4>1
    <3> QED
      BY <3>2, <3>4, <3>5, <3>7
  <2>4. s # {} => rest \in SUBSET s /\ rest # s
    BY PickIsMember
  <2>5. rest = {} => TotalOf(f, rest) = 0 \/ s = {}
    <3> SUFFICES ASSUME rest = {}, s # {} PROVE TotalOf(f, rest) = 0
      OBVIOUS
    <3>1. PICK e : AreTotals(f, rest, e) /\ TotalOf(f, rest) = e[rest]
      BY <2>2, <2>4
    <3> QED
      BY <3>1 DEF AreTotals
  <2>6. s # {} => n[rest] = TotalOf(f, rest)
    BY <2>4, <2>5
  <2>7. \A t \in SUBSET s : n[t] = IF t = {} THEN 0 ELSE f[Pick(t)] + n[t \ {Pick(t)}]
    <3> TAKE t \in SUBSET s
    <3>1. CASE t = {}
      BY <3>1
    <3>2. CASE t # {} /\ t = s
      <4>1. n[t] = f[Pick(s)] + TotalOf(f, rest)
        BY <3>2
      <4> QED
        BY <2>6, <3>2, <4>1
    <3>3. CASE t # {} /\ t # s
      <4>1. n[t] = TotalOf(f, t)
        BY <3>3
      <4> QED
        BY <2>3, <3>3, <4>1
    <3> QED
      BY <3>1, <3>2, <3>3
  <2>8. n = [t \in SUBSET s |-> IF t = {} THEN 0 ELSE f[Pick(t)] + n[t \ {Pick(t)}]]
    BY <2>7
  <2> HIDE DEF n
  <2>9. AreTotals(f, s, n)
    BY <2>8 DEF AreTotals
  <2> QED
    BY <2>1, <2>9
<1> HIDE DEF Bad
<1>3. Bad \in SUBSET (SUBSET S)
  BY DEF Bad
<1> QED
  BY <1>2, <1>3, SmallestSubset

(* What one step of the fold adds. *)
LEMMA TotalStep ==
  ASSUME NEW f, NEW S, IsFiniteSet(S)
  PROVE  TotalOf(f, S) = IF S = {} THEN 0 ELSE f[Pick(S)] + TotalOf(f, S \ {Pick(S)})
<1> DEFINE T == S \ {Pick(S)}
           n == CHOOSE n : AreTotals(f, S, n)
           e == CHOOSE e : AreTotals(f, T, e)
<1>1. IsFiniteSet(T) /\ T \in SUBSET S
  BY FS_Subset
<1>2. AreTotals(f, S, n)
  BY TotalsExist
<1>3. AreTotals(f, T, e)
  BY <1>1, TotalsExist
<1>4. TotalOf(f, S) = n[S] /\ TotalOf(f, T) = e[T]
  BY DEF TotalOf
<1> HIDE DEF n, e
<1>5. n[T] = e[T]
  BY <1>1, <1>2, <1>3, TotalsAgree
<1>6. n[S] = IF S = {} THEN 0 ELSE f[Pick(S)] + n[T]
  BY <1>2 DEF AreTotals
<1> QED
  BY <1>4, <1>5, <1>6

(* A sum of integers is an integer. *)
LEMMA TotalIsInt ==
  ASSUME NEW f, NEW S, IsFiniteSet(S), \A x \in S : f[x] \in Int
  PROVE  TotalOf(f, S) \in Int
<1> DEFINE Bad == {s \in SUBSET S : TotalOf(f, s) \notin Int}
<1>1. SUFFICES Bad = {}
  OBVIOUS
<1>2. ASSUME NEW s \in Bad, \A y \in Bad : y \subseteq s => y = s PROVE FALSE
  <2>1. s \in SUBSET S /\ TotalOf(f, s) \notin Int /\ IsFiniteSet(s)
    BY FS_Subset
  <2>2. TotalOf(f, s) = IF s = {} THEN 0 ELSE f[Pick(s)] + TotalOf(f, s \ {Pick(s)})
    BY <2>1, TotalStep
  <2>3. s # {}
    BY <2>1, <2>2
  <2>4. Pick(s) \in s
    BY <2>3, PickIsMember
  <2>5. s \ {Pick(s)} \notin Bad
    BY <1>2, <2>4
  <2>6. TotalOf(f, s \ {Pick(s)}) \in Int
    BY <2>1, <2>5
  <2> QED
    BY <2>1, <2>2, <2>3, <2>4, <2>6
<1> HIDE DEF Bad
<1>3. Bad \in SUBSET (SUBSET S)
  BY DEF Bad
<1> QED
  BY <1>2, <1>3, SmallestSubset

(* Any element can be taken out of a sum. *)
LEMMA TotalWithout ==
  ASSUME NEW f, NEW S, IsFiniteSet(S), \A x \in S : f[x] \in Int, NEW y \in S
  PROVE  TotalOf(f, S) = f[y] + TotalOf(f, S \ {y})
<1> DEFINE Bad == {s \in SUBSET S : \E z \in s : TotalOf(f, s) # f[z] + TotalOf(f, s \ {z})}
<1>1. SUFFICES Bad = {}
  OBVIOUS
<1>2. ASSUME NEW s \in Bad, \A t \in Bad : t \subseteq s => t = s PROVE FALSE
  <2>1. s \in SUBSET S /\ IsFiniteSet(s)
    BY FS_Subset
  <2>2. PICK z \in s : TotalOf(f, s) # f[z] + TotalOf(f, s \ {z})
    OBVIOUS
  <2> DEFINE x == Pick(s)
             t == s \ {x}
             u == s \ {z}
             w == s \ {x, z}
  <2>3. x \in s
    BY <2>2, PickIsMember
  <2>4. IsFiniteSet(t) /\ IsFiniteSet(u) /\ IsFiniteSet(w)
    BY <2>1, FS_Subset
  <2>5. TotalOf(f, s) = f[x] + TotalOf(f, t)
    BY <2>1, <2>2, TotalStep
  <2>6. x # z
    BY <2>2, <2>5
  <2>7. TotalOf(f, t) = f[z] + TotalOf(f, w)
    <3>1. t \notin Bad
      BY <1>2, <2>3
    <3>2. z \in t /\ t \in SUBSET S /\ w = t \ {z}
      BY <2>1, <2>2, <2>6
    <3> HIDE DEF t, w
    <3> QED
      BY <3>1, <3>2
  <2>8. TotalOf(f, u) = f[x] + TotalOf(f, w)
    <3>1. u \notin Bad
      BY <1>2, <2>2
    <3>2. x \in u /\ u \in SUBSET S /\ w = u \ {x}
      BY <2>1, <2>3, <2>6
    <3> HIDE DEF x, u, w
    <3> QED
      BY <3>1, <3>2
  <2>9. f[x] \in Int /\ f[z] \in Int /\ TotalOf(f, w) \in Int
    BY <2>1, <2>2, <2>3, <2>4, TotalIsInt
  <2> HIDE DEF x, t, u, w
  <2>10. TotalOf(f, s) # f[z] + TotalOf(f, u)
    BY <2>2 DEF u
  <2> QED
    BY <2>5, <2>7, <2>8, <2>9, <2>10
<1> HIDE DEF Bad
<1>3. Bad \in SUBSET (SUBSET S)
  BY DEF Bad
<1> QED
  BY <1>2, <1>3, SmallestSubset

(* A sum depends on the values in its set alone. *)
LEMMA TotalSame ==
  ASSUME NEW f, NEW g, NEW S, IsFiniteSet(S), \A x \in S : f[x] = g[x]
  PROVE  TotalOf(f, S) = TotalOf(g, S)
<1> DEFINE Bad == {s \in SUBSET S : TotalOf(f, s) # TotalOf(g, s)}
<1>1. SUFFICES Bad = {}
  OBVIOUS
<1>2. ASSUME NEW s \in Bad, \A t \in Bad : t \subseteq s => t = s PROVE FALSE
  <2> DEFINE t == s \ {Pick(s)}
  <2>1. s \in SUBSET S /\ IsFiniteSet(s) /\ TotalOf(f, s) # TotalOf(g, s)
    BY FS_Subset
  <2>2. /\ TotalOf(f, s) = IF s = {} THEN 0 ELSE f[Pick(s)] + TotalOf(f, t)
        /\ TotalOf(g, s) = IF s = {} THEN 0 ELSE g[Pick(s)] + TotalOf(g, t)
    BY <2>1, TotalStep
  <2>3. s # {}
    BY <2>1, <2>2
  <2>4. Pick(s) \in s
    BY <2>3, PickIsMember
  <2>5. t \notin Bad /\ t \in SUBSET S
    BY <1>2, <2>1, <2>4
  <2>6. TotalOf(f, t) = TotalOf(g, t)
    BY <2>5
  <2>7. f[Pick(s)] = g[Pick(s)]
    BY <2>1, <2>4
  <2> QED
    BY <2>1, <2>2, <2>6, <2>7
<1> HIDE DEF Bad
<1>3. Bad \in SUBSET (SUBSET S)
  BY DEF Bad
<1> QED
  BY <1>2, <1>3, SmallestSubset

(* One value more by one, and one new value of 0. *)
LEMMA TotalCounted ==
  ASSUME NEW f, NEW g, NEW S, IsFiniteSet(S), \A x \in S : f[x] \in Int,
         NEW y \in S, g[y] = f[y] + 1, \A x \in S \ {y} : g[x] = f[x]
  PROVE  TotalOf(g, S) = TotalOf(f, S) + 1
<1> DEFINE T == S \ {y}
<1>1. IsFiniteSet(T)
  BY FS_Subset
<1>2. TotalOf(g, T) = TotalOf(f, T) /\ TotalOf(f, T) \in Int
  BY <1>1, TotalSame, TotalIsInt
<1>3. \A x \in S : g[x] \in Int
  OBVIOUS
<1>4. TotalOf(f, S) = f[y] + TotalOf(f, T)
  BY TotalWithout
<1>5. TotalOf(g, S) = g[y] + TotalOf(g, T)
  BY <1>3, TotalWithout
<1> HIDE DEF T
<1> QED
  BY <1>2, <1>4, <1>5

-----------------------------------------------------------------------------
(* What was executed, what was counted, and the total.                      *)

(* Threads between the two increments of an execution, and the instructions *)
(* that a mnemonic stands for.                                              *)
Counted == {v \in Vcpu : vcpu[v].at = "counted"}

Runs(m) == {i \in Code : DecodeMnemonic(i) = m}

(* What a thread looks up, and what a callback increments, belongs to its   *)
(* instruction.                                                             *)
OwnInv ==
  /\ \A v \in Vcpu : vcpu[v].at \in {"lookup", "found", "insert"} =>
       vcpu[v].mnemonic = DecodeMnemonic(vcpu[v].insn)
  /\ \A h \in hooks : counters[h[2]].mnemonic = DecodeMnemonic(h[1])

(* The counters, the total and the history agree, but for the executions of *)
(* the threads in between.                                                  *)
SumsInv ==
  /\ ran \in [Code -> Nat] /\ total \in Nat /\ IsFiniteSet(Counted)
  /\ TotalOf(Counts, 1 .. Len(counters)) = total + Cardinality(Counted)
  /\ TotalOf(ran, Code) = total + Cardinality(Counted)
  /\ \A c \in 1 .. Len(counters) :
       counters[c].count = TotalOf(ran, Runs(counters[c].mnemonic))
  /\ \A i \in Code : ran[i] > 0 =>
       \E c \in 1 .. Len(counters) : counters[c].mnemonic = DecodeMnemonic(i)

(* Nothing runs any more when the report is written. *)
EndInv == report # NoFile => \A v \in Vcpu : vcpu[v] = Idle

(* A sum of zeros is zero. *)
LEMMA TotalOfZeros ==
  ASSUME NEW f, NEW S, IsFiniteSet(S), \A x \in S : f[x] = 0
  PROVE  TotalOf(f, S) = 0
<1> DEFINE Bad == {s \in SUBSET S : TotalOf(f, s) # 0}
<1>1. SUFFICES Bad = {}
  OBVIOUS
<1>2. ASSUME NEW s \in Bad, \A y \in Bad : y \subseteq s => y = s PROVE FALSE
  <2>1. s \in SUBSET S /\ TotalOf(f, s) # 0 /\ IsFiniteSet(s)
    BY FS_Subset
  <2>2. TotalOf(f, s) = IF s = {} THEN 0 ELSE f[Pick(s)] + TotalOf(f, s \ {Pick(s)})
    BY <2>1, TotalStep
  <2>3. s # {}
    BY <2>1, <2>2
  <2>4. Pick(s) \in s
    BY <2>3, PickIsMember
  <2>5. s \ {Pick(s)} \notin Bad
    BY <1>2, <2>4
  <2>6. TotalOf(f, s \ {Pick(s)}) = 0
    BY <2>1, <2>5
  <2> QED
    BY <2>1, <2>2, <2>3, <2>4, <2>6
<1> HIDE DEF Bad
<1>3. Bad \in SUBSET (SUBSET S)
  BY DEF Bad
<1> QED
  BY <1>2, <1>3, SmallestSubset

(* Nothing has been counted at the start. *)
LEMMA InitSums == HistInit => OwnInv /\ SumsInv /\ EndInv
<1> SUFFICES ASSUME HistInit PROVE OwnInv /\ SumsInv /\ EndInv
  OBVIOUS
<1>1. /\ counters = << >> /\ hooks = {} /\ total = 0 /\ report = NoFile
      /\ vcpu = [v \in Vcpu |-> Idle] /\ ran = [i \in Code |-> 0]
  BY DEF HistInit, Init
<1>2. \A v \in Vcpu : vcpu[v].at = "idle"
  BY <1>1 DEF Idle
<1>3. Counted = {} /\ IsFiniteSet(Counted) /\ Cardinality(Counted) = 0
  BY <1>2, FS_EmptySet DEF Counted
<1>4. TotalOf(Counts, 1 .. Len(counters)) = 0
  <2>1. 1 .. Len(counters) = {}
    BY <1>1
  <2> QED
    BY <2>1, FS_EmptySet, TotalStep
<1>5. TotalOf(ran, Code) = 0
  BY <1>1, HistAssumption, TotalOfZeros
<1>6. SumsInv
  BY <1>1, <1>3, <1>4, <1>5 DEF SumsInv
<1> QED
  BY <1>1, <1>2, <1>6 DEF OwnInv, EndInv

(* A step that counts nothing keeps the sums. *)
LEMMA QuietSums ==
  ASSUME SumsInv, UNCHANGED <<counters, total, ran>>, Counted' = Counted
  PROVE  SumsInv'
BY DEF SumsInv, Counts

(* The first half of vcpu_insn_exec: one counter and the history grow       *)
(* together, and one more thread is in between.                             *)
LEMMA ExecuteSums ==
  ASSUME CounterInv, OwnInv, SumsInv, NEW v \in Vcpu, HistExecute(v)
  PROVE  SumsInv'
<1>1. PICK h \in hooks :
        /\ counters' = [counters EXCEPT ![h[2]].count = @ + 1]
        /\ vcpu' = [vcpu EXCEPT ![v] = [at |-> "counted", insn |-> h[1]]]
  BY DEF HistExecute, Execute, Step
<1>2. PICK i \in Code, c \in Nat : i = h[1] /\ c = h[2] /\ c \in 1 .. Len(counters)
  BY DEF CounterInv, CounterTypeOK
<1>3. /\ vcpu[v] = Idle /\ total' = total
      /\ ran' = [ran EXCEPT ![vcpu'[v].insn] = @ + 1]
  BY DEF HistExecute, Execute
<1>4. /\ vcpu \in [Vcpu -> ThreadState] /\ counters \in Seq(Counter)
      /\ ran \in [Code -> Nat] /\ total \in Nat
  BY DEF CounterInv, CounterTypeOK, SumsInv
<1>5. /\ ran' \in [Code -> Nat] /\ ran'[i] = ran[i] + 1
      /\ \A j \in Code \ {i} : ran'[j] = ran[j]
  <2>1. vcpu'[v].insn = i
    BY <1>1, <1>2, <1>4
  <2>2. ran' = [ran EXCEPT ![i] = ran[i] + 1]
    BY <1>3, <2>1
  <2> QED
    BY <1>4, <2>2
<1>6. PICK n \in Nat : n = Len(counters) /\ Len(counters') = n /\ c \in 1 .. n
  BY <1>1, <1>2, <1>4
<1>7. /\ \A d \in 1 .. n : counters'[d].mnemonic = counters[d].mnemonic
      /\ \A d \in (1 .. n) \ {c} : counters'[d] = counters[d]
      /\ counters'[c].count = counters[c].count + 1
      /\ \A d \in 1 .. n : counters[d].count \in Nat
  <2> DEFINE one == [counters[c] EXCEPT !.count = counters[c].count + 1]
  <2>1. \A d \in 1 .. n : counters[d] \in Counter
    BY <1>4, <1>6
  <2>2. one.count = counters[c].count + 1 /\ one.mnemonic = counters[c].mnemonic
    BY <1>6, <2>1 DEF Counter
  <2>3. counters' = [counters EXCEPT ![c] = one]
    BY <1>1, <1>2
  <2>4. \A d \in 1 .. n : counters'[d] = IF d = c THEN one ELSE counters[d]
    BY <1>4, <1>6, <2>3
  <2>5. \A d \in 1 .. n : counters[d].count \in Nat
    BY <2>1 DEF Counter
  <2> HIDE DEF one
  <2> QED
    BY <1>6, <2>2, <2>4, <2>5
<1>8. counters[c].mnemonic = DecodeMnemonic(i)
  BY <1>2 DEF OwnInv
<1>9. /\ IsFiniteSet(Counted')
      /\ Cardinality(Counted') = Cardinality(Counted) + 1
      /\ Cardinality(Counted) \in Nat
  <2>1. Counted' = Counted \cup {v} /\ v \notin Counted
    BY <1>1, <1>3, <1>4 DEF Counted, Idle
  <2>2. IsFiniteSet(Counted)
    BY DEF SumsInv
  <2> QED
    BY <2>1, <2>2, FS_AddElement, FS_CardinalityType
<1>10. TotalOf(Counts', 1 .. n) = TotalOf(Counts, 1 .. n) + 1
  <2>1. DOMAIN counters = 1 .. n /\ DOMAIN counters' = 1 .. n
    BY <1>1, <1>4, <1>6
  <2>2. /\ Counts = [d \in 1 .. n |-> counters[d].count]
        /\ Counts' = [d \in 1 .. n |-> counters'[d].count]
    BY <2>1 DEF Counts
  <2>3. /\ \A d \in 1 .. n : Counts[d] \in Int
        /\ Counts'[c] = Counts[c] + 1
        /\ \A d \in (1 .. n) \ {c} : Counts'[d] = Counts[d]
    BY <1>6, <1>7, <2>2
  <2>4. IsFiniteSet(1 .. n)
    BY FS_Interval
  <2> QED
    BY <1>6, <2>3, <2>4, TotalCounted
<1>11. ASSUME NEW S \in SUBSET Code, i \in S PROVE TotalOf(ran', S) = TotalOf(ran, S) + 1
  <2>1. IsFiniteSet(S) /\ \A j \in S : ran[j] \in Int
    BY <1>4, HistAssumption, FS_Subset
  <2>2. ran'[i] = ran[i] + 1 /\ \A j \in S \ {i} : ran'[j] = ran[j]
    BY <1>5
  <2> QED
    BY <1>11, <2>1, <2>2, TotalCounted
<1>12. ASSUME NEW S \in SUBSET Code, i \notin S PROVE TotalOf(ran', S) = TotalOf(ran, S)
  <2>1. IsFiniteSet(S) /\ \A j \in S : ran'[j] = ran[j]
    BY <1>5, <1>12, HistAssumption, FS_Subset
  <2> QED
    BY <2>1, TotalSame
<1>13. ASSUME NEW d \in 1 .. n
       PROVE  counters'[d].count = TotalOf(ran', Runs(counters'[d].mnemonic))
  <2> DEFINE S == Runs(counters[d].mnemonic)
  <2>1. S \in SUBSET Code /\ counters'[d].mnemonic = counters[d].mnemonic
    BY <1>7 DEF Runs
  <2>2. counters[d].count = TotalOf(ran, S)
    BY <1>6 DEF SumsInv
  <2>3. i \in S <=> d = c
    BY <1>6, <1>8 DEF Runs, CounterInv, OneCounterPerMnemonic
  <2> HIDE DEF S
  <2>4. CASE d = c
    BY <1>7, <1>11, <2>1, <2>2, <2>3, <2>4 DEF S
  <2>5. CASE d # c
    BY <1>7, <1>12, <2>1, <2>2, <2>3, <2>5 DEF S
  <2> QED
    BY <2>4, <2>5
<1>14. TotalOf(Counts', 1 .. Len(counters')) = total' + Cardinality(Counted')
  <2>1. TotalOf(Counts, 1 .. n) = total + Cardinality(Counted)
    BY <1>6 DEF SumsInv
  <2>2. TotalOf(Counts', 1 .. n) = total + Cardinality(Counted')
    BY <1>4, <1>9, <1>10, <2>1
  <2> QED
    BY <1>3, <1>6, <2>2
<1>15. TotalOf(ran', Code) = total' + Cardinality(Counted')
  <2>1. TotalOf(ran', Code) = TotalOf(ran, Code) + 1
    BY <1>11
  <2> QED
    BY <1>3, <1>4, <1>9, <2>1 DEF SumsInv
<1>16. \A j \in Code : ran'[j] > 0 =>
         \E d \in 1 .. n : counters'[d].mnemonic = DecodeMnemonic(j)
  <2>1. \A j \in Code : ran[j] > 0 =>
          \E d \in 1 .. n : counters[d].mnemonic = DecodeMnemonic(j)
    BY <1>6 DEF SumsInv
  <2> QED
    BY <1>5, <1>6, <1>7, <1>8, <2>1
<1> QED
  BY <1>3, <1>4, <1>5, <1>6, <1>9, <1>13, <1>14, <1>15, <1>16 DEF SumsInv

(* A new counter stands for a mnemonic of which nothing has executed. *)
LEMMA InsertSums ==
  ASSUME CounterInv, OwnInv, SumsInv, NEW v \in Vcpu, Insert(v), UNCHANGED ran
  PROVE  SumsInv'
<1>1. PICK n \in Nat, m \in Mnemonics : n = Len(counters) /\ m = vcpu[v].mnemonic
  <2>1. Len(counters) \in Nat /\ vcpu[v].mnemonic \in Mnemonics
    BY DEF Insert, CounterInv, CounterTypeOK, ThreadState, Idle
  <2> QED
    BY <2>1
<1> DEFINE new == [mnemonic |-> m, count |-> 0]
<1>2. /\ counters' = Append(counters, new) /\ total' = total
      /\ vcpu' = [vcpu EXCEPT ![v] = Idle] /\ vcpu[v].at = "insert"
  BY <1>1 DEF Insert, Create, Register, Step
<1>3. counters \in Seq(Counter) /\ vcpu \in [Vcpu -> ThreadState] /\ new \in Counter
  BY DEF CounterInv, CounterTypeOK, Counter
<1>4. /\ Len(counters') = n + 1 /\ counters'[n + 1] = new
      /\ \A d \in 1 .. n : counters'[d] = counters[d]
      /\ DOMAIN counters = 1 .. n /\ DOMAIN counters' = 1 .. n + 1
  BY <1>1, <1>2, <1>3
<1>5. \A d \in 1 .. n : counters[d].mnemonic # m
  <2>1. \A d \in 1 .. n : <<counters[d].mnemonic, d>> \in table
    BY <1>1 DEF CounterInv, OneCounterPerMnemonic
  <2> QED
    BY <1>1, <1>2, <2>1 DEF CounterInv, LockInv
<1>6. Counted' = Counted
  BY <1>2, <1>3 DEF Counted, Idle
<1>7. TotalOf(Counts', 1 .. n + 1) = TotalOf(Counts, 1 .. n)
  <2>1. /\ Counts = [d \in 1 .. n |-> counters[d].count]
        /\ Counts' = [d \in 1 .. n + 1 |-> counters'[d].count]
    BY <1>4 DEF Counts
  <2>2. \A d \in 1 .. n : counters[d].count \in Int
    <3>1. \A d \in 1 .. n : counters[d] \in Counter
      BY <1>1, <1>3
    <3> QED
      BY <3>1 DEF Counter
  <2>3. Counts'[n + 1] = 0 /\ \A d \in 1 .. n : Counts'[d] = Counts[d] /\ Counts[d] \in Int
    BY <1>4, <2>1, <2>2
  <2>4. IsFiniteSet(1 .. n) /\ IsFiniteSet(1 .. n + 1)
    BY FS_Interval
  <2>5. n + 1 \in 1 .. n + 1 /\ (1 .. n + 1) \ {n + 1} = 1 .. n
    OBVIOUS
  <2>6. \A d \in 1 .. n + 1 : Counts'[d] \in Int
    BY <2>3
  <2>7. TotalOf(Counts', 1 .. n + 1) = 0 + TotalOf(Counts', 1 .. n)
    <3>1. TotalOf(Counts', 1 .. n + 1) = Counts'[n + 1] + TotalOf(Counts', (1 .. n + 1) \ {n + 1})
      BY <2>4, <2>5, <2>6, TotalWithout
    <3> QED
      BY <2>3, <2>5, <3>1
  <2>8. TotalOf(Counts', 1 .. n) = TotalOf(Counts, 1 .. n)
    BY <2>3, <2>4, TotalSame
  <2>9. TotalOf(Counts, 1 .. n) \in Int
    BY <2>3, <2>4, TotalIsInt
  <2> QED
    BY <2>7, <2>8, <2>9
<1>8. TotalOf(ran, Runs(m)) = 0
  <2>1. IsFiniteSet(Runs(m))
    BY HistAssumption, FS_Subset DEF Runs
  <2>2. ASSUME NEW i \in Runs(m) PROVE ran[i] = 0
    <3>1. i \in Code /\ DecodeMnemonic(i) = m /\ ran[i] \in Nat
      BY DEF Runs, SumsInv
    <3>2. ~(ran[i] > 0)
      BY <1>1, <1>5, <3>1 DEF SumsInv
    <3> QED
      BY <3>1, <3>2
  <2> QED
    BY <2>1, <2>2, TotalOfZeros
<1>9. ASSUME NEW d \in 1 .. n + 1
      PROVE  counters'[d].count = TotalOf(ran', Runs(counters'[d].mnemonic))
  <2>1. CASE d = n + 1
    <3>1. counters'[d].count = 0 /\ counters'[d].mnemonic = m
      BY <1>4, <2>1
    <3> QED
      BY <1>8, <3>1
  <2>2. CASE d # n + 1
    <3>1. d \in 1 .. n
      BY <2>2
    <3> QED
      BY <1>1, <1>4, <3>1 DEF SumsInv
  <2> QED
    BY <2>1, <2>2
<1>10. \A i \in Code : ran'[i] > 0 =>
         \E d \in 1 .. n + 1 : counters'[d].mnemonic = DecodeMnemonic(i)
  <2>1. \A i \in Code : ran[i] > 0 =>
          \E d \in 1 .. n : counters[d].mnemonic = DecodeMnemonic(i)
    BY <1>1 DEF SumsInv
  <2>2. \A d \in 1 .. n : d \in 1 .. n + 1
    OBVIOUS
  <2> QED
    BY <1>4, <2>1, <2>2
<1> QED
  BY <1>1, <1>2, <1>4, <1>6, <1>7, <1>9, <1>10 DEF SumsInv

(* The second half of vcpu_insn_exec: the total grows and one thread less   *)
(* is in between.                                                           *)
LEMMA CountTotalSums ==
  ASSUME CounterInv, SumsInv, NEW v \in Vcpu, CountTotal(v), UNCHANGED ran
  PROVE  SumsInv'
<1>1. /\ vcpu[v].at = "counted" /\ total' = total + 1
      /\ vcpu' = [vcpu EXCEPT ![v] = Idle] /\ UNCHANGED counters
  BY DEF CountTotal, Step
<1>2. Counted' = Counted \ {v} /\ v \in Counted
  BY <1>1 DEF Counted, Idle, CounterInv, CounterTypeOK
<1>3. /\ IsFiniteSet(Counted') /\ Cardinality(Counted') = Cardinality(Counted) - 1
      /\ Cardinality(Counted) \in Nat
  BY <1>2, FS_RemoveElement, FS_CardinalityType DEF SumsInv
<1>4. /\ total \in Nat
      /\ total + Cardinality(Counted) = total' + Cardinality(Counted')
  BY <1>1, <1>3 DEF SumsInv
<1>5. Counts' = Counts
  BY <1>1 DEF Counts
<1> QED
  BY <1>1, <1>3, <1>4, <1>5 DEF SumsInv

(* The inductive invariant of the histogram. *)
HistInv == CounterInv /\ OwnInv /\ SumsInv /\ EndInv

(* Counters stay with the instructions they were looked up for. *)
LEMMA OwnStep ==
  ASSUME CounterInv, OwnInv, HistNext
  PROVE  OwnInv'
<1>1. vcpu \in [Vcpu -> ThreadState] /\ counters \in Seq(Counter)
      /\ \A h \in hooks : h[1] \in Code /\ h[2] \in 1 .. Len(counters)
  BY DEF CounterInv, CounterTypeOK
<1>2. ASSUME NEW v \in Vcpu, Translate(v) PROVE OwnInv'
  <2>1. PICK insn \in Code : vcpu' = [vcpu EXCEPT ![v] =
          [at |-> "lookup", insn |-> insn, mnemonic |-> DecodeMnemonic(insn)]]
    BY <1>2 DEF Translate, Step
  <2>2. UNCHANGED <<hooks, counters>>
    BY <1>2 DEF Translate
  <2> QED
    BY <1>1, <2>1, <2>2 DEF OwnInv
<1>3. ASSUME NEW v \in Vcpu, Lookup(v) PROVE OwnInv'
  <2>1. /\ vcpu[v] \in [at : {"lookup", "found", "insert"}, insn : Code, mnemonic : Mnemonics]
        /\ vcpu[v].at = "lookup" /\ UNCHANGED <<hooks, counters>>
    BY <1>1, <1>3 DEF Lookup, ThreadState, Idle
  <2>2. PICK a : vcpu' = [vcpu EXCEPT ![v] = [vcpu[v] EXCEPT !.at = a]]
    BY <1>3 DEF Lookup, Step
  <2>3. vcpu'[v].mnemonic = vcpu[v].mnemonic /\ vcpu'[v].insn = vcpu[v].insn
    BY <1>1, <2>1, <2>2
  <2>4. \A w \in Vcpu \ {v} : vcpu'[w] = vcpu[w]
    BY <1>1, <2>2
  <2> QED
    BY <2>1, <2>3, <2>4 DEF OwnInv
<1>4. ASSUME NEW v \in Vcpu, Reuse(v) PROVE OwnInv'
  <2>1. PICK e \in Found(vcpu[v].mnemonic) : Register(v, e[2])
    BY <1>4 DEF Reuse
  <2>2. UNCHANGED counters /\ vcpu[v].at = "found"
    BY <1>4 DEF Reuse
  <2>3. counters[e[2]].mnemonic = vcpu[v].mnemonic
    BY <2>1 DEF Found, CounterInv, OneCounterPerMnemonic
  <2>4. /\ hooks' = hooks \cup {<<vcpu[v].insn, e[2]>>}
        /\ vcpu' = [vcpu EXCEPT ![v] = Idle]
    BY <2>1 DEF Register, Step
  <2> QED
    BY <1>1, <2>2, <2>3, <2>4 DEF OwnInv, Idle
<1>5. ASSUME NEW v \in Vcpu, Insert(v) PROVE OwnInv'
  <2>1. PICK n \in Nat : n = Len(counters)
    BY <1>1
  <2> DEFINE new == [mnemonic |-> vcpu[v].mnemonic, count |-> 0]
  <2>2. /\ counters' = Append(counters, new)
        /\ hooks' = hooks \cup {<<vcpu[v].insn, n + 1>>}
        /\ vcpu' = [vcpu EXCEPT ![v] = Idle] /\ vcpu[v].at = "insert"
    BY <1>5, <2>1 DEF Insert, Create, Register, Step
  <2>3. counters'[n + 1] = new /\ \A d \in 1 .. n : counters'[d] = counters[d]
    BY <1>1, <2>1, <2>2
  <2>4. \A h \in hooks' : counters'[h[2]].mnemonic = DecodeMnemonic(h[1])
    <3>1. ASSUME NEW h \in hooks PROVE counters'[h[2]].mnemonic = DecodeMnemonic(h[1])
      BY <1>1, <2>1, <2>3 DEF OwnInv
    <3>2. counters'[n + 1].mnemonic = DecodeMnemonic(vcpu[v].insn)
      <4>1. vcpu[v].mnemonic = DecodeMnemonic(vcpu[v].insn)
        BY <2>2 DEF OwnInv
      <4>2. counters'[n + 1].mnemonic = vcpu[v].mnemonic
        BY <2>3
      <4> QED
        BY <4>1, <4>2
    <3>3. ASSUME NEW h \in hooks' PROVE counters'[h[2]].mnemonic = DecodeMnemonic(h[1])
      <4>1. h \in hooks \/ h = <<vcpu[v].insn, n + 1>>
        BY <2>2
      <4>2. CASE h = <<vcpu[v].insn, n + 1>>
        <5>1. h[1] = vcpu[v].insn /\ h[2] = n + 1
          BY <4>2
        <5> QED
          BY <3>2, <5>1
      <4> QED
        BY <3>1, <4>1, <4>2
    <3> QED
      BY <3>3
  <2>5. \A w \in Vcpu : vcpu'[w] = IF w = v THEN Idle ELSE vcpu[w]
    BY <1>1, <2>2
  <2> QED
    BY <2>4, <2>5 DEF OwnInv, Idle
<1>6. ASSUME NEW v \in Vcpu, HistExecute(v) PROVE OwnInv'
  <2>1. PICK h \in hooks :
          /\ counters' = [counters EXCEPT ![h[2]].count = @ + 1]
          /\ vcpu' = [vcpu EXCEPT ![v] = [at |-> "counted", insn |-> h[1]]]
    BY <1>6 DEF HistExecute, Execute, Step
  <2>2. hooks' = hooks
    BY <1>6 DEF HistExecute, Execute
  <2>3. \A c \in 1 .. Len(counters) : counters'[c].mnemonic = counters[c].mnemonic
    <3> DEFINE c == h[2]
               one == [counters[c] EXCEPT !.count = @ + 1]
    <3>1. \A d \in 1 .. Len(counters) : counters'[d] = IF d = c THEN one ELSE counters[d]
      BY <1>1, <2>1
    <3>2. one.mnemonic = counters[c].mnemonic
      <4>1. counters[c] \in Counter
        BY <1>1
      <4> QED
        BY <4>1 DEF Counter
    <3> HIDE DEF one
    <3> QED
      BY <3>1, <3>2
  <2>4. \A w \in Vcpu : vcpu'[w].at \in {"lookup", "found", "insert"} => vcpu'[w] = vcpu[w]
    BY <1>1, <2>1
  <2> QED
    BY <1>1, <2>2, <2>3, <2>4 DEF OwnInv
<1>7. ASSUME NEW v \in Vcpu, CountTotal(v) PROVE OwnInv'
  BY <1>1, <1>7 DEF CountTotal, Step, OwnInv, Idle
<1>8. Exit => OwnInv'
  BY DEF Exit, OwnInv
<1> QED
  BY <1>2, <1>3, <1>4, <1>5, <1>6, <1>7, <1>8 DEF HistNext

(* Nothing happens after the report. *)
LEMMA EndStep ==
  ASSUME CounterInv, EndInv, HistNext
  PROVE  EndInv' /\ report = NoFile
<1>1. ASSUME NEW v \in Vcpu, vcpu[v] = Idle
      PROVE  ~Lookup(v) /\ ~Reuse(v) /\ ~Insert(v) /\ ~CountTotal(v)
  BY <1>1 DEF Idle, Lookup, Reuse, Insert, CountTotal
<1>2. ASSUME report # NoFile, NEW v \in Vcpu
      PROVE  ~Translate(v) /\ ~HistExecute(v) /\ vcpu[v] = Idle
  BY <1>2 DEF Translate, HistExecute, Execute, EndInv
<1>3. Exit => report = NoFile /\ \A v \in Vcpu : vcpu'[v] = Idle
  BY DEF Exit
<1>4. report = NoFile
  BY <1>1, <1>2, <1>3 DEF HistNext
<1>5. ASSUME NEW v \in Vcpu, \/ Translate(v) \/ Lookup(v) \/ Reuse(v) \/ Insert(v)
                             \/ HistExecute(v) \/ CountTotal(v)
      PROVE  report' = report
  BY <1>5 DEF Translate, Lookup, Reuse, Insert, HistExecute, Execute, CountTotal
<1> QED
  BY <1>3, <1>4, <1>5 DEF HistNext, EndInv

(* The invariant holds at the start and every step keeps it. *)
LEMMA HistInductive ==
  /\ HistInit => HistInv
  /\ HistInv /\ [HistNext]_histVars => HistInv'
<1>1. HistInit => HistInv
  BY InitCounters, InitSums DEF HistInit, HistInv
<1>2. ASSUME HistInv, HistNext PROVE HistInv'
  <2>1. [Next]_vars
    BY <1>2 DEF HistNext, HistExecute, Next
  <2>2. CounterInv' /\ OwnInv' /\ EndInv'
    BY <1>2, <2>1, NextCounters, OwnStep, EndStep DEF HistInv
  <2>3. SumsInv'
    <3>1. vcpu \in [Vcpu -> ThreadState]
      BY <1>2 DEF HistInv, CounterInv, CounterTypeOK
    <3>2. ASSUME NEW v \in Vcpu, Translate(v) \/ Lookup(v) \/ Reuse(v), UNCHANGED ran
          PROVE  SumsInv'
      <4>1. PICK s : vcpu' = [vcpu EXCEPT ![v] = s] /\ s.at # "counted" /\ vcpu[v].at # "counted"
        <5>1. CASE Translate(v)
          <6>1. PICK insn \in Code : vcpu' = [vcpu EXCEPT ![v] =
                  [at |-> "lookup", insn |-> insn, mnemonic |-> DecodeMnemonic(insn)]]
            BY <5>1 DEF Translate, Step
          <6>2. vcpu[v].at # "counted"
            BY <5>1 DEF Translate, Idle
          <6> DEFINE s == [at |-> "lookup", insn |-> insn, mnemonic |-> DecodeMnemonic(insn)]
          <6>3. s.at # "counted" /\ vcpu' = [vcpu EXCEPT ![v] = s]
            BY <6>1
          <6> QED
            BY <6>2, <6>3
        <5>2. CASE Lookup(v)
          <6> DEFINE a == IF Found(vcpu[v].mnemonic) = {} THEN "insert" ELSE "found"
          <6>1. vcpu' = [vcpu EXCEPT ![v] = [vcpu[v] EXCEPT !.at = a]] /\ vcpu[v].at = "lookup"
            BY <5>2 DEF Lookup, Step
          <6> DEFINE s == [vcpu[v] EXCEPT !.at = a]
          <6>2. s.at = a /\ a # "counted"
            BY <3>1, <6>1 DEF ThreadState, Idle
          <6>3. vcpu' = [vcpu EXCEPT ![v] = s] /\ vcpu[v].at # "counted"
            BY <6>1
          <6> HIDE DEF a, s
          <6> QED
            BY <6>2, <6>3
        <5>3. CASE Reuse(v)
          BY <5>3 DEF Reuse, Register, Step, Idle
        <5> QED
          BY <3>2, <5>1, <5>2, <5>3
      <4>2. Counted' = Counted
        BY <3>1, <4>1 DEF Counted
      <4>3. UNCHANGED <<counters, total, ran>>
        BY <3>2 DEF Translate, Lookup, Reuse
      <4> QED
        BY <1>2, <4>2, <4>3, QuietSums DEF HistInv
    <3>3. ASSUME Exit, UNCHANGED ran PROVE SumsInv'
      BY <1>2, <3>3, QuietSums DEF Exit, Counted, HistInv
    <3> QED
      BY <1>2, <3>2, <3>3, ExecuteSums, InsertSums, CountTotalSums DEF HistNext, HistInv
  <2> QED
    BY <2>2, <2>3 DEF HistInv
<1>3. ASSUME HistInv, UNCHANGED histVars PROVE HistInv'
  <2>1. UNCHANGED vars /\ UNCHANGED ran
    BY <1>3 DEF histVars
  <2>2. CounterInv'
    BY <1>3, <2>1, NextCounters DEF HistInv
  <2>3. SumsInv'
    BY <1>3, <2>1, QuietSums DEF HistInv, vars, Counted
  <2> QED
    BY <1>3, <2>1, <2>2, <2>3 DEF HistInv, vars, OwnInv, EndInv
<1> QED
  BY <1>1, <1>2, <1>3

(* The invariant holds of every behaviour. *)
LEMMA HistInvHolds == HistSpec => []HistInv
  BY HistInductive, PTL DEF HistSpec

(* The total lags behind the counters by the threads between the two        *)
(* increments, for any number of threads.                                   *)
THEOREM TotalLags == HistSpec => []TotalLagsByThreadsInBetween
<1>1. ASSUME HistInv PROVE TotalLagsByThreadsInBetween
  <2>1. DOMAIN Counts = 1 .. Len(counters)
    BY <1>1 DEF HistInv, CounterInv, CounterTypeOK, Counts
  <2>2. SumFunction(Counts) = TotalOf(Counts, 1 .. Len(counters))
    BY <2>1, SumIsTotal DEF SumFunction
  <2> QED
    BY <1>1, <2>2 DEF HistInv, SumsInv, TotalLagsByThreadsInBetween, Counted
<1> QED
  BY <1>1, HistInvHolds, PTL

-----------------------------------------------------------------------------
(* The mnemonic of a code word.                                             *)

(* Forms of the opcode table. *)
Forms == [length : {16, 32, 48, 64}, mask : SUBSET (0 .. 63),
          match : SUBSET (0 .. 63), mnemonic : Nat]

(* A set of numbers that is not empty has a least one. *)
LEMMA LeastNatural ==
  ASSUME NEW T \in SUBSET Nat, T # {}
  PROVE  \E x \in T : \A y \in T : ~(y < x)
<1>1. PICK x \in T : \A y \in T : ~(<<y, x>> \in OpToRel(<, Nat))
  BY NatLessThanWellFounded, WFMin
<1>2. ASSUME NEW y \in T PROVE ~(y < x)
  BY <1>1, <1>2 DEF OpToRel
<1> QED
  BY <1>1, <1>2

(* What the assumption says of each form. *)
LEMMA TableOfForms ==
  /\ Len(FormTable) \in Nat
  /\ \A i \in 1 .. Len(FormTable) :
       /\ FormTable[i].length \in {16, 32, 48, 64}
       /\ FormTable[i].mask \in SUBSET (0 .. 63)
       /\ FormTable[i].mnemonic \in Nat
<1>1. FormTable \in Seq(Forms)
  BY HistAssumption DEF Forms
<1>2. Len(FormTable) \in Nat /\ \A i \in 1 .. Len(FormTable) : FormTable[i] \in Forms
  BY <1>1
<1> QED
  BY <1>2 DEF Forms

(* No form fixes more than 64 bits. *)
LEMMA FixedBits ==
  ASSUME NEW mask \in SUBSET (0 .. 63)
  PROVE  Cardinality(mask) \in 0 .. 64
<1>1. PICK a \in Int, b \in Int : a = 0 /\ b = 63
  OBVIOUS
<1>2. IsFiniteSet(a .. b) /\ Cardinality(a .. b) = 64
  <2>1. IsFiniteSet(a .. b) /\ Cardinality(a .. b) = IF a > b THEN 0 ELSE b - a + 1
    BY FS_Interval
  <2> QED
    BY <1>1, <2>1
<1>3. mask \in SUBSET (a .. b)
  BY <1>1
<1>4. IsFiniteSet(mask) /\ Cardinality(mask) <= 64
  <2>1. IsFiniteSet(mask) /\ Cardinality(mask) <= Cardinality(a .. b)
    BY <1>2, <1>3, FS_Subset
  <2> QED
    BY <1>2, <2>1
<1>5. Cardinality(mask) \in Nat
  BY <1>4, FS_CardinalityType
<1> QED
  BY <1>4, <1>5

(* i is the first of those members of H that have the largest value.        *)
IsFirstBest(H, F, i) ==
  i \in H /\ \A j \in H : F[j] < F[i] \/ (F[j] = F[i] /\ i <= j)

(* There is one, as values are bounded. *)
LEMMA FirstBestExists ==
  ASSUME NEW H \in SUBSET Nat, H # {}, NEW F \in [H -> 0 .. 64]
  PROVE  \E i \in H : IsFirstBest(H, F, i)
<1> DEFINE T == {64 - F[i] : i \in H}
<1>1. T \in SUBSET Nat /\ T # {}
  <2>1. PICK i \in H : TRUE
    OBVIOUS
  <2>2. \A j \in H : F[j] \in 0 .. 64
    OBVIOUS
  <2>3. \A j \in H : 64 - F[j] \in Nat
    BY <2>2
  <2> QED
    BY <2>1, <2>3
<1>2. PICK t \in T : \A y \in T : ~(y < t)
  BY <1>1, LeastNatural
<1>3. PICK b \in H : t = 64 - F[b]
  OBVIOUS
<1>4. \A j \in H : F[j] <= F[b]
  <2> TAKE j \in H
  <2>1. ~(64 - F[j] < 64 - F[b])
    BY <1>2, <1>3
  <2> QED
    BY <2>1
<1> DEFINE best == {i \in H : F[i] = F[b]}
<1>5. best \in SUBSET Nat /\ best # {}
  OBVIOUS
<1>6. PICK w \in best : \A y \in best : ~(y < w)
  BY <1>5, LeastNatural
<1>7. \A j \in H : F[j] < F[w] \/ (F[j] = F[w] /\ w <= j)
  <2> TAKE j \in H
  <2>1. w \in H /\ F[w] = F[b] /\ F[j] <= F[b]
    BY <1>4, <1>6
  <2>2. F[j] = F[b] => ~(j < w)
    BY <1>6
  <2> QED
    BY <2>1, <2>2
<1> QED
  BY <1>6, <1>7 DEF IsFirstBest

(* It is the one that the plugin keeps. *)
LEMMA FirstBestIsChosen ==
  ASSUME NEW H \in SUBSET Nat, NEW F \in [H -> 0 .. 64], NEW i, IsFirstBest(H, F, i),
         NEW best, best = {j \in H : \A k \in H : F[j] >= F[k]}
  PROVE  (CHOOSE j \in best : \A k \in best : j <= k) = i
<1>1. i \in best /\ \A k \in best : i <= k
  BY DEF IsFirstBest
<1>2. \A j \in best : (\A k \in best : j <= k) => j = i
  BY <1>1
<1> HIDE DEF IsFirstBest
<1> QED
  BY <1>1, <1>2

(* The forms that match a word, and how many bits they fix. *)
Hits(insn) == {i \in 1 .. Len(FormTable) : Matches(FormTable[i], insn)}
FixedOf(insn) == [i \in Hits(insn) |-> Fixed(FormTable[i])]

(* Their values are bounded. *)
LEMMA HitsAreForms ==
  ASSUME NEW insn
  PROVE  Hits(insn) \in SUBSET Nat /\ FixedOf(insn) \in [Hits(insn) -> 0 .. 64]
<1>1. Hits(insn) \in SUBSET Nat
  BY TableOfForms DEF Hits
<1>2. \A i \in Hits(insn) : FormTable[i].mask \in SUBSET (0 .. 63)
  BY TableOfForms DEF Hits
<1>3. \A i \in Hits(insn) : Cardinality(FormTable[i].mask) \in 0 .. 64
  BY <1>2, FixedBits
<1> QED
  BY <1>1, <1>3 DEF FixedOf, Fixed

(* The reference meaning in these terms. *)
LEMMA MeantIsFirstBest ==
  ASSUME NEW insn, NEW i \in 1 .. Len(FormTable)
  PROVE  Meant(insn, i) <=> IsFirstBest(Hits(insn), FixedOf(insn), i)
<1>1. Meant(insn, i) <=> i \in Hits(insn) /\ \A j \in Hits(insn) :
        Fixed(FormTable[j]) < Fixed(FormTable[i])
          \/ (Fixed(FormTable[j]) = Fixed(FormTable[i]) /\ i <= j)
  BY DEF Meant, Hits
<1>2. \A j \in Hits(insn) : FixedOf(insn)[j] = Fixed(FormTable[j])
  BY DEF FixedOf
<1> QED
  BY <1>1, <1>2 DEF IsFirstBest

(* Of the forms that match a word, the plugin takes the one that is meant. *)
LEMMA OneIsMeant ==
  ASSUME NEW insn, Hits(insn) # {}
  PROVE  \E i \in 1 .. Len(FormTable) : Meant(insn, i)
<1>1. PICK i \in Hits(insn) : IsFirstBest(Hits(insn), FixedOf(insn), i)
  BY HitsAreForms, FirstBestExists
<1>2. i \in 1 .. Len(FormTable)
  BY DEF Hits
<1> QED
  BY <1>1, <1>2, MeantIsFirstBest

(* Forms of 16 to 64 bits are those of words of 2 to 8 bytes. *)
LEMMA SizeOfForm ==
  ASSUME NEW size \in Nat, 8 * size \in {16, 32, 48, 64}
  PROVE  size \in 1 .. 8
OBVIOUS

(* A form that is meant gives the mnemonic. *)
LEMMA DecodesAsMeant ==
  ASSUME NEW insn \in Code, NEW i \in 1 .. Len(FormTable), Meant(insn, i)
  PROVE  DecodeMnemonic(insn) = FormTable[i].mnemonic
<1> DEFINE best == {j \in Hits(insn) :
                      \A k \in Hits(insn) : Fixed(FormTable[j]) >= Fixed(FormTable[k])}
<1>1. IsFirstBest(Hits(insn), FixedOf(insn), i)
  BY MeantIsFirstBest
<1>2. insn.size \in 1 .. 8
  <2>1. 8 * insn.size \in {16, 32, 48, 64}
    BY TableOfForms DEF Meant, Matches
  <2>2. insn.size \in Nat
    BY HistAssumption
  <2> QED
    BY <2>1, <2>2, SizeOfForm, Zenon
<1>3. best = {j \in Hits(insn) :
                \A k \in Hits(insn) : FixedOf(insn)[j] >= FixedOf(insn)[k]}
  BY DEF FixedOf
<1>4. i \in Hits(insn)
  BY <1>1 DEF IsFirstBest
<1>5. DecodeMnemonic(insn) = FormTable[CHOOSE j \in best : \A k \in best : j <= k].mnemonic
  BY <1>2, <1>4 DEF DecodeMnemonic, Hits
<1> HIDE DEF best
<1>6. (CHOOSE j \in best : \A k \in best : j <= k) = i
  BY <1>1, <1>3, HitsAreForms, FirstBestIsChosen
<1> QED
  BY <1>5, <1>6

(* decode_mnemonic_from_bytes is the reference meaning. *)
LEMMA DecodeIsMeaning ==
  ASSUME NEW insn \in Code, NEW m
  PROVE  MeansMnemonic(insn, m) <=> m = DecodeMnemonic(insn)
<1>1. CASE Hits(insn) # {}
  <2>1. PICK i \in 1 .. Len(FormTable) : Meant(insn, i)
    BY <1>1, OneIsMeant
  <2>2. \A j \in 1 .. Len(FormTable) : Meant(insn, j) =>
          DecodeMnemonic(insn) = FormTable[j].mnemonic
    BY DecodesAsMeant
  <2> QED
    BY <2>1, <2>2 DEF MeansMnemonic
<1>2. CASE Hits(insn) = {}
  <2>1. \A i \in 1 .. Len(FormTable) : ~Meant(insn, i)
    BY <1>2 DEF Meant, Hits
  <2>2. DecodeMnemonic(insn) = Illegal
    BY <1>2 DEF DecodeMnemonic, Hits
  <2> QED
    BY <2>1, <2>2 DEF MeansMnemonic
<1> QED
  BY <1>1, <1>2

(* Mnemonics are numbers in strcmp order. *)
LEMMA MnemonicsAreNumbers ==
  ASSUME NEW insn \in Code
  PROVE  DecodeMnemonic(insn) \in Nat
<1>1. MeansMnemonic(insn, DecodeMnemonic(insn))
  BY DecodeIsMeaning
<1>2. Illegal \in Nat
  BY HistAssumption
<1> QED
  BY <1>1, <1>2, TableOfForms DEF MeansMnemonic

-----------------------------------------------------------------------------
(* Finite sets can be sorted.                                               *)

(* A strict total order, and a sequence of the members of S by it. *)
IsOrder(R, S) ==
  /\ \A a \in S : <<a, a>> \notin R
  /\ \A a, b, c \in S : <<a, b>> \in R /\ <<b, c>> \in R => <<a, c>> \in R
  /\ \A a, b \in S : a # b => <<a, b>> \in R \/ <<b, a>> \in R

(* s lists the n members of S in the order R. *)
Lists(s, n, R, S) ==
  /\ s \in [1 .. n -> S]
  /\ \A a \in S : \E i \in 1 .. n : s[i] = a
  /\ \A i, j \in 1 .. n : i < j => <<s[i], s[j]>> \in R

(* A finite set that is not empty has a last member. *)
LEMMA LastExists ==
  ASSUME NEW S, IsFiniteSet(S), NEW R, IsOrder(R, S), S # {}
  PROVE  \E z \in S : \A a \in S \ {z} : <<a, z>> \in R
<1> DEFINE HasLast(s) == \E z \in s : \A a \in s \ {z} : <<a, z>> \in R
           Bad == {s \in SUBSET S : s # {} /\ ~HasLast(s)}
<1>1. SUFFICES Bad = {}
  OBVIOUS
<1>2. ASSUME NEW s \in Bad, \A y \in Bad : y \subseteq s => y = s PROVE FALSE
  <2>1. s \in SUBSET S /\ s # {} /\ ~HasLast(s)
    OBVIOUS
  <2>2. PICK x \in s : TRUE
    BY <2>1
  <2> DEFINE t == s \ {x}
  <2>3. t \notin Bad /\ t \in SUBSET S
    BY <1>2, <2>1, <2>2
  <2>4. CASE t = {}
    <3>1. HasLast(s)
      BY <2>2, <2>4
    <3> QED
      BY <2>1, <3>1
  <2>5. CASE t # {}
    <3>1. PICK z \in t : \A a \in t \ {z} : <<a, z>> \in R
      BY <2>3, <2>5
    <3>2. x \in S /\ z \in S /\ x # z /\ z \in s
      BY <2>1, <2>2, <3>1
    <3>3. CASE <<x, z>> \in R
      <4>1. \A a \in s \ {z} : <<a, z>> \in R
        BY <3>1, <3>3
      <4> QED
        BY <2>1, <3>2, <4>1
    <3>4. CASE <<z, x>> \in R
      <4>1. ASSUME NEW a \in s \ {x} PROVE <<a, x>> \in R
        <5>1. a = z \/ <<a, z>> \in R
          BY <3>1, <4>1
        <5> QED
          BY <2>1, <3>2, <3>4, <4>1, <5>1 DEF IsOrder
      <4> QED
        BY <2>1, <2>2, <4>1
    <3> QED
      BY <3>2, <3>3, <3>4 DEF IsOrder
  <2> QED
    BY <2>4, <2>5
<1> HIDE DEF Bad
<1>3. Bad \in SUBSET (SUBSET S)
  BY DEF Bad
<1> QED
  BY <1>2, <1>3, SmallestSubset

(* Every finite set can be sorted. *)
LEMMA ListExists ==
  ASSUME NEW S, IsFiniteSet(S), NEW R, IsOrder(R, S)
  PROVE  \E s : Lists(s, Cardinality(S), R, S)
<1> DEFINE Bad == {t \in SUBSET S : ~(\E s : Lists(s, Cardinality(t), R, t))}
<1>1. SUFFICES Bad = {}
  OBVIOUS
<1>2. ASSUME NEW t \in Bad, \A y \in Bad : y \subseteq t => y = t PROVE FALSE
  <2>1. t \in SUBSET S /\ ~(\E s : Lists(s, Cardinality(t), R, t)) /\ IsFiniteSet(t)
    BY FS_Subset
  <2>2. CASE t = {}
    <3>1. Cardinality(t) = 0
      BY <2>2, FS_EmptySet
    <3>2. PICK n \in Nat : n = Cardinality(t) /\ n = 0
      BY <3>1
    <3>3. 1 .. n = {}
      BY <3>2
    <3>4. Lists([i \in 1 .. n |-> 0], n, R, t)
      BY <2>2, <3>3 DEF Lists
    <3> QED
      BY <2>1, <3>2, <3>4
  <2>3. CASE t # {}
    <3>1. IsOrder(R, t)
      BY <2>1 DEF IsOrder
    <3>2. PICK z \in t : \A a \in t \ {z} : <<a, z>> \in R
      BY <2>1, <2>3, <3>1, LastExists
    <3> DEFINE u == t \ {z}
    <3>3. u \notin Bad /\ u \in SUBSET S
      BY <1>2, <2>1, <3>2
    <3>4. PICK e : Lists(e, Cardinality(u), R, u)
      BY <3>3
    <3>5. PICK n \in Nat : Cardinality(u) = n /\ Cardinality(t) = n + 1
      <4>1. Cardinality(u) = Cardinality(t) - 1 /\ IsFiniteSet(u)
        BY <2>1, FS_RemoveElement
      <4>2. Cardinality(t) \in Nat /\ Cardinality(u) \in Nat
        BY <2>1, <4>1, FS_CardinalityType
      <4> QED
        BY <4>1, <4>2
    <3>6. /\ e \in [1 .. n -> u]
          /\ \A a \in u : \E i \in 1 .. n : e[i] = a
          /\ \A i, j \in 1 .. n : i < j => <<e[i], e[j]>> \in R
      BY <3>4, <3>5 DEF Lists
    <3> DEFINE s == [i \in 1 .. n + 1 |-> IF i = n + 1 THEN z ELSE e[i]]
    <3>7. s[n + 1] = z /\ \A i \in 1 .. n : s[i] = e[i]
      OBVIOUS
    <3>8. s \in [1 .. n + 1 -> t]
      BY <3>6
    <3>9. \A a \in t : \E i \in 1 .. n + 1 : s[i] = a
      <4> HIDE DEF s
      <4> TAKE a \in t
      <4>1. CASE a = z
        BY <3>7, <4>1
      <4>2. CASE a # z
        <5>1. PICK i \in 1 .. n : e[i] = a
          BY <3>6, <4>2
        <5>2. i \in 1 .. n + 1 /\ s[i] = a
          BY <3>7, <5>1
        <5> QED
          BY <5>2
      <4> QED
        BY <4>1, <4>2
    <3>10. \A i, j \in 1 .. n + 1 : i < j => <<s[i], s[j]>> \in R
      <4> HIDE DEF s
      <4> SUFFICES ASSUME NEW i \in 1 .. n + 1, NEW j \in 1 .. n + 1, i < j
                   PROVE  <<s[i], s[j]>> \in R
        OBVIOUS
      <4>1. i \in 1 .. n /\ s[i] = e[i] /\ e[i] \in u
        BY <3>6, <3>7
      <4>2. CASE j = n + 1
        BY <3>2, <3>7, <4>1, <4>2
      <4>3. CASE j # n + 1
        <5>1. j \in 1 .. n
          BY <4>3
        <5> QED
          BY <3>6, <3>7, <4>1, <5>1
      <4> QED
        BY <4>2, <4>3
    <3> HIDE DEF s
    <3>11. Lists(s, n + 1, R, t)
      BY <3>8, <3>9, <3>10 DEF Lists
    <3> QED
      BY <2>1, <3>5, <3>11
  <2> QED
    BY <2>2, <2>3
<1> HIDE DEF Bad
<1>3. Bad \in SUBSET (SUBSET S)
  BY DEF Bad
<1> QED
  BY <1>2, <1>3, SmallestSubset

-----------------------------------------------------------------------------
(* What write_report writes.                                                *)

(* sort_by_count_desc is a strict total order of the counters, as no two of *)
(* them have the same mnemonic.                                             *)
LEMMA BeforeIsOrder ==
  ASSUME CounterInv, NEW n \in Nat, n = Len(counters),
         NEW R, R = {p \in (1 .. n) \X (1 .. n) : Before(p[1], p[2])}
  PROVE  IsOrder(R, 1 .. n)
<1>1. \A a \in 1 .. n : counters[a].count \in Nat /\ counters[a].mnemonic \in Nat
  <2>1. \A a \in 1 .. n : counters[a] \in Counter
    BY DEF CounterInv, CounterTypeOK
  <2>2. \A m \in Mnemonics : m \in Nat
    BY MnemonicsAreNumbers DEF Mnemonics
  <2> QED
    BY <2>1, <2>2 DEF Counter
<1>2. \A a, b \in 1 .. n : counters[a].mnemonic = counters[b].mnemonic => a = b
  BY DEF CounterInv, OneCounterPerMnemonic
<1>3. \A a, b \in 1 .. n : <<a, b>> \in R <=> Before(a, b)
  OBVIOUS
<1>4. \A a \in 1 .. n : ~Before(a, a)
  BY <1>1 DEF Before
<1>5. \A a, b, c \in 1 .. n : Before(a, b) /\ Before(b, c) => Before(a, c)
  BY <1>1 DEF Before
<1>6. \A a, b \in 1 .. n : a # b => Before(a, b) \/ Before(b, a)
  BY <1>1, <1>2 DEF Before
<1> QED
  BY <1>3, <1>4, <1>5, <1>6 DEF IsOrder

(* The array sorted. *)
IsSortedArray(s, n) ==
  /\ s \in [1 .. n -> 1 .. n]
  /\ \A a \in 1 .. n : \E i \in 1 .. n : s[i] = a
  /\ \A i, j \in 1 .. n : i < j => Before(s[i], s[j])

(* The array can be sorted, so what the sort leaves is sorted. *)
LEMMA SortedIsSorted ==
  ASSUME CounterInv, report = NoFile, NEW n \in Nat, n = Len(counters)
  PROVE  IsSortedArray(Sorted, n)
<1> DEFINE R == {p \in (1 .. n) \X (1 .. n) : Before(p[1], p[2])}
<1>1. order = [c \in 1 .. n |-> c]
  BY DEF CounterInv, OneCounterPerMnemonic
<1>2. DOMAIN order = 1 .. n /\ Range(order) = 1 .. n
  BY <1>1 DEF Range
<1>3. PICK s : Lists(s, n, R, 1 .. n)
  <2>1. IsOrder(R, 1 .. n)
    BY BeforeIsOrder
  <2>2. PICK a \in Int, b \in Int : a = 1 /\ b = n
    OBVIOUS
  <2>3. IsFiniteSet(a .. b) /\ Cardinality(a .. b) = IF a > b THEN 0 ELSE b - a + 1
    BY FS_Interval
  <2>4. IsFiniteSet(1 .. n) /\ Cardinality(1 .. n) = n
    BY <2>2, <2>3
  <2> HIDE DEF R
  <2> QED
    BY <2>1, <2>4, ListExists
<1> DEFINE Good(e) == /\ Range(e) = Range(order)
                      /\ \A i, j \in DOMAIN order : i < j => Before(e[i], e[j])
<1>4. s \in [1 .. n -> 1 .. n] /\ \A i, j \in 1 .. n : i < j => Before(s[i], s[j])
  BY <1>3 DEF Lists
<1>5. Range(s) = 1 .. n
  <2>1. \A a \in 1 .. n : \E i \in 1 .. n : s[i] = a
    BY <1>3 DEF Lists
  <2> QED
    BY <1>4, <2>1 DEF Range
<1>6. s \in [DOMAIN order -> Range(order)] /\ Good(s)
  BY <1>2, <1>4, <1>5
<1>7. Sorted = CHOOSE e \in [DOMAIN order -> Range(order)] : Good(e)
  BY DEF Sorted
<1> HIDE DEF Good
<1>8. Sorted \in [DOMAIN order -> Range(order)] /\ Good(Sorted)
  BY <1>6, <1>7
<1>9. Sorted \in [1 .. n -> 1 .. n]
  BY <1>2, <1>8
<1>10. Range(Sorted) = 1 .. n /\ \A i, j \in 1 .. n : i < j => Before(Sorted[i], Sorted[j])
  BY <1>2, <1>8 DEF Good
<1>11. \A a \in 1 .. n : \E i \in 1 .. n : Sorted[i] = a
  BY <1>9, <1>10 DEF Range
<1> QED
  BY <1>9, <1>10, <1>11 DEF IsSortedArray

-----------------------------------------------------------------------------
(* What the loop of write_report has written after each of the first p      *)
(* counters of s.                                                           *)
AreRows(s, p, r) ==
  r = [k \in 0 .. p |->
         IF k = 0 THEN << >>
         ELSE IF counters[s[k]].count = 0 THEN r[k - 1]
         ELSE Append(r[k - 1], counters[s[k]])]

(* The rows of the list "all". *)
RowsOf(s) == (CHOOSE r : AreRows(s, Len(s), r))[Len(s)]

(* The report in these terms. *)
LEMMA ReportHasRows ==
  ASSUME NEW s
  PROVE  Report(s) = [written |-> TRUE, total |-> total, all |-> RowsOf(s),
                      top |-> SubSeq(RowsOf(s), 1, IF Len(RowsOf(s)) < TopN THEN Len(RowsOf(s)) ELSE TopN)]
BY DEF Report, RowsOf, AreRows

(* The first q counters of s give these rows: those that were hit, in the   *)
(* order of s.                                                              *)
RowsUpTo(s, q, rows) ==
  /\ rows \in Seq(Counter)
  /\ \A k \in 1 .. Len(rows) :
       \E i \in 1 .. q : rows[k] = counters[s[i]] /\ counters[s[i]].count # 0
  /\ \A i \in 1 .. q : counters[s[i]].count # 0 =>
       \E k \in 1 .. Len(rows) : rows[k] = counters[s[i]]
  /\ \A k, l \in 1 .. Len(rows) : k < l =>
       \E i, j \in 1 .. q : i < j /\ rows[k] = counters[s[i]] /\ rows[l] = counters[s[j]]

(* One more counter: its row is added unless it was never hit. *)
LEMMA RowsStep ==
  ASSUME NEW s, NEW q \in Nat, NEW rows, RowsUpTo(s, q, rows), counters[s[q + 1]] \in Counter,
         NEW more, more = IF counters[s[q + 1]].count = 0 THEN rows
                          ELSE Append(rows, counters[s[q + 1]])
  PROVE  RowsUpTo(s, q + 1, more)
<1> DEFINE new == counters[s[q + 1]]
<1>1. /\ rows \in Seq(Counter)
      /\ \A k \in 1 .. Len(rows) :
           \E i \in 1 .. q : rows[k] = counters[s[i]] /\ counters[s[i]].count # 0
      /\ \A i \in 1 .. q : counters[s[i]].count # 0 =>
           \E k \in 1 .. Len(rows) : rows[k] = counters[s[i]]
      /\ \A k, l \in 1 .. Len(rows) : k < l =>
           \E i, j \in 1 .. q : i < j /\ rows[k] = counters[s[i]] /\ rows[l] = counters[s[j]]
  BY DEF RowsUpTo
<1>2. PICK m \in Nat : m = Len(rows)
  BY <1>1
<1>3. \A i \in 1 .. q : i \in 1 .. q + 1
  OBVIOUS
<1>4. CASE new.count = 0
  <2>1. more = rows
    BY <1>4
  <2>2. \A i \in 1 .. q + 1 : counters[s[i]].count # 0 => i \in 1 .. q
    BY <1>4
  <2> HIDE DEF new
  <2>3. \A k \in 1 .. Len(rows) :
          \E i \in 1 .. q + 1 : rows[k] = counters[s[i]] /\ counters[s[i]].count # 0
    BY <1>1, <1>3
  <2>4. \A i \in 1 .. q + 1 : counters[s[i]].count # 0 =>
          \E k \in 1 .. Len(rows) : rows[k] = counters[s[i]]
    BY <1>1, <2>2, Zenon
  <2>5. ASSUME NEW k \in 1 .. Len(rows), NEW l \in 1 .. Len(rows), k < l
        PROVE  \E i, j \in 1 .. q + 1 : i < j /\ rows[k] = counters[s[i]] /\ rows[l] = counters[s[j]]
    <3>1. PICK i \in 1 .. q, j \in 1 .. q :
            i < j /\ rows[k] = counters[s[i]] /\ rows[l] = counters[s[j]]
      BY <1>1, <2>5, Zenon
    <3>2. i \in 1 .. q + 1 /\ j \in 1 .. q + 1
      BY <1>3
    <3> QED
      BY <3>1, <3>2, Zenon
  <2>6. rows \in Seq(Counter)
    BY <1>1
  <2>7. RowsUpTo(s, q + 1, rows)
    BY <2>3, <2>4, <2>5, <2>6, Zenon DEF RowsUpTo
  <2> QED
    BY <2>1, <2>7, Zenon
<1>5. CASE new.count # 0
  <2>1. /\ more \in Seq(Counter) /\ Len(more) = m + 1 /\ more[m + 1] = new
        /\ \A k \in 1 .. m : more[k] = rows[k]
    BY <1>1, <1>2, <1>5
  <2>2. ASSUME NEW k \in 1 .. m + 1
        PROVE  \E i \in 1 .. q + 1 : more[k] = counters[s[i]] /\ counters[s[i]].count # 0
    <3>1. CASE k = m + 1
      BY <1>5, <2>1, <3>1
    <3>2. CASE k # m + 1
      <4>1. k \in 1 .. m
        BY <3>2
      <4>2. PICK i \in 1 .. q : rows[k] = counters[s[i]] /\ counters[s[i]].count # 0
        BY <1>1, <1>2, <4>1
      <4> QED
        BY <1>3, <2>1, <4>1, <4>2
    <3> QED
      BY <3>1, <3>2
  <2>3. ASSUME NEW i \in 1 .. q + 1, counters[s[i]].count # 0
        PROVE  \E k \in 1 .. m + 1 : more[k] = counters[s[i]]
    <3>1. CASE i = q + 1
      BY <2>1, <3>1
    <3>2. CASE i # q + 1
      <4>1. PICK k \in 1 .. m : rows[k] = counters[s[i]]
        BY <1>1, <1>2, <2>3, <3>2
      <4>2. k \in 1 .. m + 1 /\ more[k] = counters[s[i]]
        BY <2>1, <4>1
      <4> QED
        BY <4>2
    <3> QED
      BY <3>1, <3>2
  <2>4. ASSUME NEW k \in 1 .. m + 1, NEW l \in 1 .. m + 1, k < l
        PROVE  \E i, j \in 1 .. q + 1 : i < j /\ more[k] = counters[s[i]] /\ more[l] = counters[s[j]]
    <3>1. k \in 1 .. m /\ more[k] = rows[k]
      BY <2>1, <2>4
    <3>2. CASE l = m + 1
      <4>1. PICK i \in 1 .. q : rows[k] = counters[s[i]]
        BY <1>1, <1>2, <3>1
      <4>2. i < q + 1 /\ i \in 1 .. q + 1 /\ q + 1 \in 1 .. q + 1
        BY <4>1
      <4> QED
        BY <2>1, <3>1, <3>2, <4>1, <4>2
    <3>3. CASE l # m + 1
      <4>1. l \in 1 .. m /\ more[l] = rows[l]
        BY <2>1, <3>3
      <4>2. PICK i \in 1 .. q, j \in 1 .. q :
              i < j /\ rows[k] = counters[s[i]] /\ rows[l] = counters[s[j]]
        BY <1>1, <1>2, <2>4, <3>1, <4>1
      <4> QED
        BY <1>3, <3>1, <4>1, <4>2
    <3> QED
      BY <3>2, <3>3
  <2> HIDE DEF new
  <2>5. Len(more) = m + 1 /\ more \in Seq(Counter)
    BY <2>1
  <2>6. \A k \in 1 .. Len(more) :
          \E i \in 1 .. q + 1 : more[k] = counters[s[i]] /\ counters[s[i]].count # 0
    BY <2>2, <2>5
  <2>7. \A i \in 1 .. q + 1 : counters[s[i]].count # 0 =>
          \E k \in 1 .. Len(more) : more[k] = counters[s[i]]
    BY <2>3, <2>5
  <2>8. ASSUME NEW k \in 1 .. Len(more), NEW l \in 1 .. Len(more), k < l
        PROVE  \E i, j \in 1 .. q + 1 : i < j /\ more[k] = counters[s[i]] /\ more[l] = counters[s[j]]
    <3>1. k \in 1 .. m + 1 /\ l \in 1 .. m + 1
      BY <2>5
    <3> QED
      BY <2>4, <2>8, <3>1, Zenon
  <2> QED
    BY <2>5, <2>6, <2>7, <2>8, Zenon DEF RowsUpTo
<1> QED
  BY <1>4, <1>5

(* The loop ends with some rows. *)
LEMMA RowsExist ==
  ASSUME NEW s, NEW p \in Nat
  PROVE  \E r : AreRows(s, p, r)
<1> DEFINE Bad == {q \in Nat : ~(\E r : AreRows(s, q, r))}
<1>1. SUFFICES Bad = {}
  OBVIOUS
<1>2. ASSUME NEW q \in Bad, \A y \in Bad : ~(y < q) PROVE FALSE
  <2>1. q \in Nat /\ ~(\E r : AreRows(s, q, r))
    OBVIOUS
  <2>2. CASE q = 0
    <3>1. AreRows(s, q, [k \in 0 .. q |-> << >>])
      BY <2>2 DEF AreRows
    <3> QED
      BY <2>1, <3>1
  <2>3. CASE q # 0
    <3>1. q - 1 \in Nat /\ q - 1 < q
      BY <2>1, <2>3
    <3>2. PICK e : AreRows(s, q - 1, e)
      BY <1>2, <3>1
    <3> DEFINE c(k) == counters[s[k]]
               last == IF c(q).count = 0 THEN e[q - 1] ELSE Append(e[q - 1], c(q))
               r == [k \in 0 .. q |-> IF k = q THEN last ELSE e[k]]
    <3>3. r[q] = last /\ \A k \in 0 .. q - 1 : r[k] = e[k]
      BY <3>1
    <3>4. \A k \in 0 .. q - 1 :
            e[k] = IF k = 0 THEN << >> ELSE IF c(k).count = 0 THEN e[k - 1] ELSE Append(e[k - 1], c(k))
      BY <3>2 DEF AreRows
    <3>5. r = [k \in 0 .. q |-> r[k]]
      OBVIOUS
    <3> HIDE DEF r
    <3>6. ASSUME NEW k \in 0 .. q
          PROVE r[k] = IF k = 0 THEN << >> ELSE IF c(k).count = 0 THEN r[k - 1] ELSE Append(r[k - 1], c(k))
      <4>1. CASE k = q
        <5>1. r[q - 1] = e[q - 1] /\ q - 1 \in 0 .. q - 1
          BY <3>1, <3>3
        <5> QED
          BY <2>3, <3>3, <4>1, <5>1
      <4>2. CASE k # q
        <5>1. k \in 0 .. q - 1 /\ r[k] = e[k]
          BY <3>3, <4>2
        <5>2. k = 0 \/ (k - 1 \in 0 .. q - 1 /\ r[k - 1] = e[k - 1])
          BY <3>3, <4>2
        <5> HIDE DEF c
        <5> QED
          BY <3>4, <5>1, <5>2
      <4> QED
        BY <4>1, <4>2
    <3>7. r = [k \in 0 .. q |-> IF k = 0 THEN << >>
                                ELSE IF c(k).count = 0 THEN r[k - 1] ELSE Append(r[k - 1], c(k))]
      <4> HIDE DEF c
      <4> QED
        BY <3>5, <3>6
    <3>8. AreRows(s, q, r)
      BY <3>7 DEF AreRows
    <3> QED
      BY <2>1, <3>8
  <2> QED
    BY <2>2, <2>3
<1> HIDE DEF Bad
<1>3. Bad \in SUBSET Nat
  BY DEF Bad
<1> QED
  BY <1>2, <1>3, LeastNatural

(* They are the rows of the counters it has passed. *)
LEMMA RowsCollected ==
  ASSUME NEW s, NEW p \in Nat, NEW r, AreRows(s, p, r),
         \A i \in 1 .. p : counters[s[i]] \in Counter
  PROVE  RowsUpTo(s, p, r[p])
<1> DEFINE Bad == {q \in 0 .. p : ~RowsUpTo(s, q, r[q])}
<1>1. SUFFICES Bad = {}
  OBVIOUS
<1>2. ASSUME NEW q \in Bad, \A y \in Bad : ~(y < q) PROVE FALSE
  <2>1. q \in 0 .. p /\ ~RowsUpTo(s, q, r[q])
    OBVIOUS
  <2>2. CASE q = 0
    <3>1. r[0] = << >>
      BY <2>1, <2>2 DEF AreRows
    <3>2. 1 .. 0 = {} /\ Len(<< >>) = 0
      OBVIOUS
    <3>3. RowsUpTo(s, 0, << >>)
      BY <3>2 DEF RowsUpTo
    <3> QED
      BY <2>1, <2>2, <3>1, <3>3
  <2>3. CASE q # 0
    <3>1. q - 1 \in Nat /\ q - 1 < q /\ q - 1 \in 0 .. p /\ (q - 1) + 1 = q /\ q \in 1 .. p
      BY <2>1, <2>3
    <3>2. RowsUpTo(s, q - 1, r[q - 1])
      BY <1>2, <3>1
    <3>3. r[q] = IF counters[s[q]].count = 0 THEN r[q - 1] ELSE Append(r[q - 1], counters[s[q]])
      BY <2>1, <2>3 DEF AreRows
    <3>4. counters[s[q]] \in Counter
      BY <3>1
    <3> QED
      BY <2>1, <3>1, <3>2, <3>3, <3>4, RowsStep
  <2> QED
    BY <2>2, <2>3
<1> HIDE DEF Bad
<1>3. Bad \in SUBSET Nat
  BY DEF Bad
<1> QED
  BY <1>2, <1>3, LeastNatural

(* The rows of the report are the counters that were hit, sorted. *)
LEMMA SortedRows ==
  ASSUME CounterInv, report = NoFile, NEW n \in Nat, n = Len(counters)
  PROVE  RowsUpTo(Sorted, n, RowsOf(Sorted)) /\ IsSortedArray(Sorted, n)
<1>1. IsSortedArray(Sorted, n)
  BY SortedIsSorted
<1>2. Sorted \in [1 .. n -> 1 .. n] /\ Len(Sorted) = n
  BY <1>1 DEF IsSortedArray
<1>3. \A i \in 1 .. n : counters[Sorted[i]] \in Counter
  BY <1>2 DEF CounterInv, CounterTypeOK
<1>4. AreRows(Sorted, n, CHOOSE r : AreRows(Sorted, n, r))
  BY RowsExist
<1>5. RowsOf(Sorted) = (CHOOSE r : AreRows(Sorted, n, r))[n]
  BY <1>2 DEF RowsOf
<1> QED
  BY <1>1, <1>3, <1>4, <1>5, RowsCollected

(* A sum of numbers that are not negative is not negative, *)
LEMMA TotalIsNat ==
  ASSUME NEW f, NEW S, IsFiniteSet(S), \A x \in S : f[x] \in Nat
  PROVE  TotalOf(f, S) \in Nat
<1> DEFINE Bad == {s \in SUBSET S : TotalOf(f, s) \notin Nat}
<1>1. SUFFICES Bad = {}
  OBVIOUS
<1>2. ASSUME NEW s \in Bad, \A y \in Bad : y \subseteq s => y = s PROVE FALSE
  <2>1. s \in SUBSET S /\ TotalOf(f, s) \notin Nat /\ IsFiniteSet(s)
    BY FS_Subset
  <2>2. TotalOf(f, s) = IF s = {} THEN 0 ELSE f[Pick(s)] + TotalOf(f, s \ {Pick(s)})
    BY <2>1, TotalStep
  <2>3. s # {}
    BY <2>1, <2>2
  <2>4. Pick(s) \in s
    BY <2>3, PickIsMember
  <2>5. s \ {Pick(s)} \notin Bad
    BY <1>2, <2>4
  <2>6. TotalOf(f, s \ {Pick(s)}) \in Nat /\ f[Pick(s)] \in Nat
    BY <2>1, <2>4, <2>5
  <2> QED
    BY <2>1, <2>2, <2>3, <2>6
<1> HIDE DEF Bad
<1>3. Bad \in SUBSET (SUBSET S)
  BY DEF Bad
<1> QED
  BY <1>2, <1>3, SmallestSubset

(* and is at least each of them. *)
LEMMA TotalAtLeast ==
  ASSUME NEW f, NEW S, IsFiniteSet(S), \A x \in S : f[x] \in Nat, NEW y \in S
  PROVE  TotalOf(f, S) \in Nat /\ TotalOf(f, S) >= f[y]
<1>1. IsFiniteSet(S \ {y})
  BY FS_Subset
<1>2. TotalOf(f, S \ {y}) \in Nat
  BY <1>1, TotalIsNat
<1>3. TotalOf(f, S) = f[y] + TotalOf(f, S \ {y})
  BY TotalWithout
<1> QED
  BY <1>2, <1>3

(* Rows of different counters, the more frequent first. *)
LEMMA RowsAreOrdered ==
  ASSUME CounterInv, report = NoFile, NEW n \in Nat, n = Len(counters),
         NEW rows, rows = RowsOf(Sorted)
  PROVE  /\ rows \in Seq(Counter)
         /\ \A k \in 1 .. Len(rows) : \E c \in 1 .. n : rows[k] = counters[c]
         /\ \A c \in 1 .. n : counters[c].count # 0 =>
              \E k \in 1 .. Len(rows) : rows[k] = counters[c]
         /\ \A k, l \in 1 .. Len(rows) : k < l =>
              rows[k].mnemonic # rows[l].mnemonic /\ rows[k].count >= rows[l].count
<1>1. RowsUpTo(Sorted, n, rows) /\ IsSortedArray(Sorted, n)
  BY SortedRows
<1>2. /\ \A i \in 1 .. n : Sorted[i] \in 1 .. n
      /\ \A a \in 1 .. n : \E i \in 1 .. n : Sorted[i] = a
      /\ \A i, j \in 1 .. n : i < j => Before(Sorted[i], Sorted[j])
  BY <1>1 DEF IsSortedArray
<1>3. \A c \in 1 .. n : counters[c].count \in Nat /\ counters[c].mnemonic \in Nat
  <2>1. \A a \in 1 .. n : counters[a] \in Counter
    BY DEF CounterInv, CounterTypeOK
  <2>2. \A m \in Mnemonics : m \in Nat
    BY MnemonicsAreNumbers DEF Mnemonics
  <2> QED
    BY <2>1, <2>2 DEF Counter
<1>4. \A c, d \in 1 .. n : Before(c, d) =>
        counters[c].mnemonic # counters[d].mnemonic /\ counters[c].count >= counters[d].count
  <2>1. \A c, d \in 1 .. n : counters[c].mnemonic = counters[d].mnemonic => c = d
    BY DEF CounterInv, OneCounterPerMnemonic
  <2>2. \A c \in 1 .. n : ~Before(c, c)
    BY <1>3 DEF Before
  <2> QED
    BY <1>3, <2>1, <2>2 DEF Before
<1>5. rows \in Seq(Counter)
  BY <1>1 DEF RowsUpTo
<1>6. \A k \in 1 .. Len(rows) : \E c \in 1 .. n : rows[k] = counters[c]
  <2>1. \A k \in 1 .. Len(rows) : \E i \in 1 .. n : rows[k] = counters[Sorted[i]]
    BY <1>1 DEF RowsUpTo
  <2> QED
    BY <1>2, <2>1
<1>7. \A c \in 1 .. n : counters[c].count # 0 => \E k \in 1 .. Len(rows) : rows[k] = counters[c]
  <2>1. \A i \in 1 .. n : counters[Sorted[i]].count # 0 =>
          \E k \in 1 .. Len(rows) : rows[k] = counters[Sorted[i]]
    BY <1>1 DEF RowsUpTo
  <2> TAKE c \in 1 .. n
  <2>2. PICK i \in 1 .. n : Sorted[i] = c
    BY <1>2
  <2> QED
    BY <2>1, <2>2
<1>8. ASSUME NEW k \in 1 .. Len(rows), NEW l \in 1 .. Len(rows), k < l
      PROVE  rows[k].mnemonic # rows[l].mnemonic /\ rows[k].count >= rows[l].count
  <2>1. PICK i \in 1 .. n, j \in 1 .. n :
          i < j /\ rows[k] = counters[Sorted[i]] /\ rows[l] = counters[Sorted[j]]
    BY <1>1, <1>8, Zenon DEF RowsUpTo
  <2>2. Before(Sorted[i], Sorted[j]) /\ Sorted[i] \in 1 .. n /\ Sorted[j] \in 1 .. n
    BY <1>2, <2>1
  <2> QED
    BY <1>4, <2>1, <2>2
<1> QED
  BY <1>5, <1>6, <1>7, <1>8

(* What the step that writes the report leaves behind. *)
LEMMA ExitWrites ==
  ASSUME HistInv, Exit
  PROVE  /\ report = NoFile /\ Counted = {}
         /\ report'.written => report' = Report(Sorted)
<1>1. report = NoFile /\ \A v \in Vcpu : vcpu[v] = Idle
  BY DEF Exit
<1>2. Counted = {}
  BY <1>1 DEF Counted, Idle
<1>3. report' \in {Report(Sorted), Refused}
  BY DEF Exit
<1>4. ~Refused.written
  BY DEF Refused
<1> QED
  BY <1>1, <1>2, <1>3, <1>4

(* What write_report writes is exact. *)
LEMMA ExitIsExact ==
  ASSUME HistInv, Exit, UNCHANGED ran
  PROVE  ReportIsExact'
<1>0. CounterInv /\ SumsInv
  BY DEF HistInv
<1>1. PICK n \in Nat : n = Len(counters)
  BY <1>0 DEF CounterInv, CounterTypeOK
<1>2. PICK rows : rows = RowsOf(Sorted)
  OBVIOUS
<1>3. report = NoFile /\ Counted = {} /\ (report'.written => report' = Report(Sorted))
  BY ExitWrites
<1>4. /\ rows \in Seq(Counter)
      /\ \A k \in 1 .. Len(rows) : \E c \in 1 .. n : rows[k] = counters[c]
      /\ \A c \in 1 .. n : counters[c].count # 0 =>
           \E k \in 1 .. Len(rows) : rows[k] = counters[c]
      /\ \A k, l \in 1 .. Len(rows) : k < l =>
           rows[k].mnemonic # rows[l].mnemonic /\ rows[k].count >= rows[l].count
  BY <1>0, <1>1, <1>2, <1>3, RowsAreOrdered
<1>5. report'.written => report'.total = total /\ report'.all = rows
  BY <1>2, <1>3, ReportHasRows
<1>6. total = SumFunctionOnSet(ran, Code)
  <2>1. Cardinality(Counted) = 0 /\ total \in Nat
    BY <1>0, <1>3, FS_EmptySet DEF SumsInv
  <2>2. TotalOf(ran, Code) = total
    BY <1>0, <2>1 DEF SumsInv
  <2> QED
    BY <2>2, SumIsTotal
<1>7. \A m : {i \in Code : MeansMnemonic(i, m)} = Runs(m)
  BY DecodeIsMeaning DEF Runs
<1>8. \A c \in 1 .. n : counters[c].count = TotalOf(ran, Runs(counters[c].mnemonic))
  BY <1>0, <1>1 DEF SumsInv
<1>9. \A k, l \in 1 .. Len(rows) : rows[k].mnemonic = rows[l].mnemonic => k = l
  <2> SUFFICES ASSUME NEW k \in 1 .. Len(rows), NEW l \in 1 .. Len(rows),
                      rows[k].mnemonic = rows[l].mnemonic
               PROVE  k = l
    OBVIOUS
  <2>1. ~(k < l) /\ ~(l < k)
    BY <1>4
  <2>2. k \in Int /\ l \in Int
    BY <1>4
  <2> QED
    BY <2>1, <2>2
<1>10. ASSUME NEW i \in Code, ran[i] > 0
       PROVE  \E k \in 1 .. Len(rows) : MeansMnemonic(i, rows[k].mnemonic)
  <2>1. PICK c \in 1 .. n : counters[c].mnemonic = DecodeMnemonic(i)
    BY <1>0, <1>1, <1>10 DEF SumsInv
  <2>2. counters[c].count = TotalOf(ran, Runs(DecodeMnemonic(i)))
    BY <1>8, <2>1
  <2>3. IsFiniteSet(Runs(DecodeMnemonic(i))) /\ i \in Runs(DecodeMnemonic(i))
    BY HistAssumption, FS_Subset DEF Runs
  <2>4. \A x \in Runs(DecodeMnemonic(i)) : ran[x] \in Nat
    BY <1>0 DEF SumsInv, Runs
  <2>5. counters[c].count \in Nat /\ counters[c].count >= ran[i]
    BY <2>2, <2>3, <2>4, TotalAtLeast
  <2>6. counters[c].count # 0
    BY <1>0, <1>10, <2>5 DEF SumsInv
  <2>7. PICK k \in 1 .. Len(rows) : rows[k] = counters[c]
    BY <1>4, <2>6
  <2>8. MeansMnemonic(i, rows[k].mnemonic)
    BY <2>1, <2>7, DecodeIsMeaning
  <2> QED
    BY <2>8
<1>11. ASSUME NEW k \in 1 .. Len(rows)
       PROVE  rows[k].count
                = SumFunctionOnSet(ran, {i \in Code : MeansMnemonic(i, rows[k].mnemonic)})
  <2>1. PICK c \in 1 .. n : rows[k] = counters[c]
    BY <1>4
  <2>2. rows[k].count = TotalOf(ran, Runs(rows[k].mnemonic))
    BY <1>8, <2>1
  <2>3. {i \in Code : MeansMnemonic(i, rows[k].mnemonic)} = Runs(rows[k].mnemonic)
    BY <1>7
  <2> QED
    BY <2>2, <2>3, SumIsTotal
<1>12. ran' = ran
  OBVIOUS
<1> QED
  BY <1>5, <1>6, <1>9, <1>10, <1>11, <1>12 DEF ReportIsExact

(* The list "top" is a prefix of the sorted rows. *)
LEMMA ExitListsTop ==
  ASSUME HistInv, Exit
  PROVE  TopIsMostFrequent'
<1>0. CounterInv
  BY DEF HistInv
<1>1. PICK n \in Nat : n = Len(counters)
  BY <1>0 DEF CounterInv, CounterTypeOK
<1>2. PICK rows : rows = RowsOf(Sorted)
  OBVIOUS
<1>3. report = NoFile /\ (report'.written => report' = Report(Sorted))
  BY ExitWrites
<1>4. /\ rows \in Seq(Counter)
      /\ \A k, l \in 1 .. Len(rows) : k < l => rows[k].count >= rows[l].count
  BY <1>0, <1>1, <1>2, <1>3, RowsAreOrdered
<1>5. PICK m \in Nat : m = Len(rows)
  BY <1>4
<1>6. TopN \in Nat
  BY HistAssumption DEF TopN
<1>7. PICK t \in Nat : t = IF m < TopN THEN m ELSE TopN
  BY <1>6
<1>8. t <= m
  BY <1>6, <1>7
<1>9. report'.written => report'.all = rows /\ report'.top = SubSeq(rows, 1, t)
  BY <1>2, <1>3, <1>5, <1>7, ReportHasRows
<1>10. PICK top : top = SubSeq(rows, 1, t)
  OBVIOUS
<1>11. Len(top) = t /\ \A k \in 1 .. t : top[k] = rows[k]
  BY <1>4, <1>5, <1>8, <1>10
<1>12. ASSUME NEW k \in 1 .. t, NEW l \in 1 .. m
       PROVE  rows[l] \in {top[j] : j \in 1 .. t} \/ top[k].count >= rows[l].count
  <2>1. CASE l \in 1 .. t
    BY <1>11, <2>1
  <2>2. CASE l \notin 1 .. t
    <3>1. k < l /\ k \in 1 .. m
      BY <1>8, <2>2
    <3> QED
      BY <1>4, <1>5, <1>11, <3>1
  <2> QED
    BY <2>1, <2>2
<1>13. report'.written =>
         /\ Len(report'.top) = IF Len(report'.all) < TopN THEN Len(report'.all) ELSE TopN
         /\ \A k \in 1 .. Len(report'.top) : \A l \in 1 .. Len(report'.all) :
              report'.all[l] \in {report'.top[j] : j \in 1 .. Len(report'.top)}
                \/ report'.top[k].count >= report'.all[l].count
  <2> SUFFICES ASSUME report'.written PROVE
         /\ Len(report'.top) = IF Len(report'.all) < TopN THEN Len(report'.all) ELSE TopN
         /\ \A k \in 1 .. Len(report'.top) : \A l \in 1 .. Len(report'.all) :
              report'.all[l] \in {report'.top[j] : j \in 1 .. Len(report'.top)}
                \/ report'.top[k].count >= report'.all[l].count
    OBVIOUS
  <2>1. report'.all = rows /\ report'.top = top
    BY <1>9, <1>10
  <2>2. Len(top) = IF Len(rows) < TopN THEN Len(rows) ELSE TopN
    BY <1>5, <1>7, <1>11
  <2>3. \A k \in 1 .. Len(top) : \A l \in 1 .. Len(rows) :
          rows[l] \in {top[j] : j \in 1 .. Len(top)} \/ top[k].count >= rows[l].count
    BY <1>5, <1>11, <1>12
  <2> QED
    BY <2>1, <2>2, <2>3
<1> QED
  BY <1>13 DEF TopIsMostFrequent

(* A step either writes the report, or is taken before there is one, or     *)
(* changes nothing.                                                         *)
LEMMA ReportSteps ==
  ASSUME HistInv, [HistNext]_histVars
  PROVE  \/ Exit /\ UNCHANGED ran
         \/ report' = NoFile
         \/ UNCHANGED <<report, ran>>
<1>1. ASSUME HistNext, ~Exit PROVE report' = NoFile
  <2>1. report = NoFile
    BY <1>1, EndStep DEF HistInv
  <2>2. ASSUME NEW v \in Vcpu, \/ Translate(v) \/ Lookup(v) \/ Reuse(v) \/ Insert(v)
                               \/ HistExecute(v) \/ CountTotal(v)
        PROVE  report' = report
    BY <2>2 DEF Translate, Lookup, Reuse, Insert, HistExecute, Execute, CountTotal
  <2> QED
    BY <1>1, <2>1, <2>2 DEF HistNext
<1>2. HistNext /\ Exit => UNCHANGED ran
  <2>1. ASSUME Exit, NEW v \in Vcpu PROVE ~HistExecute(v)
    <3>1. report' \in {Report(Sorted), Refused} /\ report = NoFile
      BY <2>1 DEF Exit
    <3>2. Report(Sorted).written /\ ~NoFile.written /\ Refused # NoFile
      BY ReportHasRows DEF Refused, NoFile
    <3>3. HistExecute(v) => report' = report
      BY DEF HistExecute, Execute
    <3> QED
      BY <3>1, <3>2, <3>3
  <2> QED
    BY <2>1 DEF HistNext
<1> QED
  BY <1>1, <1>2 DEF histVars, vars

(* The report is exact: every executed mnemonic once, with the executions   *)
(* of its instructions in all threads together, for any number of threads,  *)
(* any program and any opcode table.                                        *)
THEOREM ReportsExact == HistSpec => []ReportIsExact
<1>1. HistInit => ReportIsExact
  BY DEF HistInit, Init, NoFile, ReportIsExact
<1>2. ASSUME HistInv, ReportIsExact, [HistNext]_histVars PROVE ReportIsExact'
  <2>1. CASE Exit /\ UNCHANGED ran
    BY <1>2, <2>1, ExitIsExact
  <2>2. CASE report' = NoFile
    BY <2>2 DEF NoFile, ReportIsExact
  <2>3. CASE UNCHANGED <<report, ran>>
    BY <1>2, <2>3 DEF ReportIsExact
  <2> QED
    BY <1>2, <2>1, <2>2, <2>3, ReportSteps
<1> QED
  BY <1>1, <1>2, HistInvHolds, PTL DEF HistSpec

(* The list "top" of the report holds the most frequent mnemonics, as many  *)
(* as top= asks for.                                                        *)
THEOREM TopsMostFrequent == HistSpec => []TopIsMostFrequent
<1>1. HistInit => TopIsMostFrequent
  BY DEF HistInit, Init, NoFile, TopIsMostFrequent
<1>2. ASSUME HistInv, TopIsMostFrequent, [HistNext]_histVars PROVE TopIsMostFrequent'
  <2>1. CASE Exit /\ UNCHANGED ran
    BY <1>2, <2>1, ExitListsTop
  <2>2. CASE report' = NoFile
    BY <2>2 DEF NoFile, TopIsMostFrequent
  <2>3. CASE UNCHANGED <<report, ran>>
    BY <1>2, <2>3 DEF TopIsMostFrequent
  <2> QED
    BY <1>2, <2>1, <2>2, <2>3, ReportSteps
<1> QED
  BY <1>1, <1>2, HistInvHolds, PTL DEF HistSpec
=============================================================================
