-------------------------- MODULE GateReport_proofs --------------------------
(***************************************************************************)
(* Theorems about GateReport, for any list of gates, any set of lanes and   *)
(* runs, and kills in any phase of a command.  The first holds with any     *)
(* number of scripts at once; the others for scripts that run one after the *)
(* other (OneAtATime), and the refinement of GateBoard if none is killed    *)
(* between the two halves of a write (NoTornReport).                        *)
(***************************************************************************)
EXTENDS GateReportProps, FiniteSetTheorems, WellFoundedInduction, TLAPS

(* The gate a script runs in place i. *)
GateAt(i) == IF i <= Len(GateList) THEN GateList[i].gate ELSE RenderGate

(* A state of a script is a record with these fields. *)
IsState(st) ==
  st \in [at : {st.at}, phase : {st.phase}, gate : {st.gate}, row : {st.row}, fails : Nat,
          agents : {st.agents}, copy : {st.copy}, verdict : {st.verdict}]

(* Where a script is after its run was reset, and after its last gate. *)
Working == {"gate", "upsert", "agents", "check", "exit"}
Done    == {"agents", "check", "exit"}

(* What the attempt st has recorded in rows: one row for each gate before   *)
(* its own, and none of them failed unless a failure was counted.           *)
Recorded(st, rows) ==
  /\ st.gate \in 1 .. Len(GateList) + (IF st.at \in Done THEN 2 ELSE 1)
  /\ st.at \in Done => st.gate = Len(GateList) + 2
  /\ {r.gate : r \in rows} = {GateAt(i) : i \in 1 .. st.gate - 1}
  /\ st.fails = 0 => \A r \in rows : r.status # "fail"
  /\ st.at = "upsert" =>
       st.row.gate = GateAt(st.gate) /\ (st.fails = 0 => st.row.status # "fail")

Attempt(st, rows) ==
  /\ IsState(st)
  /\ st.at \in Resting \cup {"capture", "reset"} \cup Working
  /\ st.at \in {"capture", "reset"} => st.gate = 1 /\ st.fails = 0
  /\ st.at \in Working => Recorded(st, rows)

(* The strengthening of SuccessMeansOwnGatesPassed. *)
AttemptInv ==
  /\ script = [s \in Script |-> script[s]]
  /\ did = [s \in Script |-> did[s]]
  /\ \A s \in Script : did[s] = [rows |-> did[s].rows, sha |-> did[s].sha]
  /\ \A s \in Script : Attempt(script[s], did[s].rows)

-----------------------------------------------------------------------------
LEMMA FreshState ==
  IsState(Fresh) /\ Fresh.at = "capture" /\ Fresh.gate = 1 /\ Fresh.fails = 0
BY DEF IsState, Fresh

LEMMA IdleState == IsState(Idle) /\ Idle.at = "idle"
BY FreshState DEF IsState, Idle

(* Resting scripts need no rows. *)
LEMMA Rests ==
  ASSUME NEW verdict, NEW at \in Resting, NEW rows
  PROVE  /\ Attempt([Idle EXCEPT !.at = at, !.verdict = verdict], rows)
         /\ Attempt([Idle EXCEPT !.at = at], rows)
<1>1. at \notin {"capture", "reset"} \cup Working
  BY DEF Resting, Working
<1>2. IsState([Idle EXCEPT !.at = at, !.verdict = verdict])
  BY <1>1, IdleState DEF IsState
<1>3. IsState([Idle EXCEPT !.at = at])
  BY <1>1, IdleState DEF IsState
<1>4. [Idle EXCEPT !.at = at, !.verdict = verdict].at = at /\ [Idle EXCEPT !.at = at].at = at
  BY <1>1, IdleState DEF IsState
<1> QED
  BY <1>1, <1>2, <1>3, <1>4 DEF Attempt

(* Every script starts idle. *)
LEMMA AttemptInit == HistInit => AttemptInv
<1> SUFFICES ASSUME HistInit PROVE AttemptInv
  OBVIOUS
<1>1. script = [s \in Script |-> Idle] /\ did = [s \in Script |-> [rows |-> {}, sha |-> -1]]
  BY DEF HistInit, Init
<1>2. Attempt(Idle, {})
  BY IdleState DEF Attempt, Resting, Working
<1> QED
  BY <1>1, <1>2 DEF AttemptInv

(* What becomes of the others when script s gets a new state and its run    *)
(* new rows.                                                                *)
LEMMA OneScript ==
  ASSUME AttemptInv, NEW s \in Script, NEW st, NEW run,
         run = [rows |-> run.rows, sha |-> run.sha],
         Become(s, st), did' = [did EXCEPT ![s] = run], Attempt(st, run.rows)
  PROVE  AttemptInv'
<1>1. \A t \in Script : script'[t] = IF t = s THEN st ELSE script[t]
  BY DEF AttemptInv, Become
<1>2. \A t \in Script : did'[t] = IF t = s THEN run ELSE did[t]
  BY DEF AttemptInv
<1>3. script' = [t \in Script |-> script'[t]] /\ did' = [t \in Script |-> did'[t]]
  BY DEF AttemptInv, Become
<1>4. \A t \in Script : did'[t] = [rows |-> did'[t].rows, sha |-> did'[t].sha]
  BY <1>2 DEF AttemptInv
<1>5. \A t \in Script : Attempt(script'[t], did'[t].rows)
  BY <1>1, <1>2 DEF AttemptInv
<1> QED
  BY <1>3, <1>4, <1>5 DEF AttemptInv

(* A step that records nothing. *)
LEMMA OneState ==
  ASSUME AttemptInv, NEW s \in Script, NEW st,
         Become(s, st), UNCHANGED did, Attempt(st, did[s].rows)
  PROVE  AttemptInv'
<1>1. did' = [did EXCEPT ![s] = did[s]]
  BY DEF AttemptInv
<1>2. did[s] = [rows |-> did[s].rows, sha |-> did[s].sha]
  BY DEF AttemptInv
<1> QED
  BY <1>1, <1>2, OneScript

(* A step of a command other than the write leaves the attempt alone. *)
LEMMA Keeps ==
  ASSUME NEW st, NEW rows, Attempt(st, rows), NEW phase, NEW copy
  PROVE  Attempt([st EXCEPT !.copy = copy, !.phase = phase], rows)
         /\ Attempt([st EXCEPT !.phase = phase, !.copy = copy], rows)
BY DEF Attempt, IsState, Recorded

(* The attempt of a script that starts. *)
LEMMA Starts == ASSUME NEW rows PROVE Attempt(Fresh, rows)
BY FreshState DEF Attempt, Working

(* A gate is recorded. *)
LEMMA Records ==
  ASSUME NEW st, NEW rows, Attempt(st, rows), st.at = "gate",
         NEW row, row.gate = GateAt(st.gate)
  PROVE  Attempt([st EXCEPT !.at = "upsert", !.row = row, !.fails = Counted(@, row)], rows)
<1> DEFINE n == [st EXCEPT !.at = "upsert", !.row = row, !.fails = Counted(@, row)]
<1>1. IsState(st) /\ Recorded(st, rows)
  BY DEF Attempt, Working
<1>2. Counted(st.fails, row) \in Nat
  BY <1>1 DEF IsState, Counted
<1>3. IsState(n) /\ n.at = "upsert" /\ n.row = row /\ n.gate = st.gate
      /\ n.fails = Counted(st.fails, row)
  BY <1>1, <1>2 DEF IsState
<1>4. n.fails = 0 => st.fails = 0 /\ row.status # "fail"
  BY <1>1, <1>3 DEF IsState, Counted
<1>5. Recorded(n, rows)
  BY <1>1, <1>3, <1>4 DEF Recorded, Done
<1> HIDE DEF n
<1>6. Attempt(n, rows)
  BY <1>3, <1>5 DEF Attempt, Working
<1> QED
  BY <1>6 DEF n

(* The row of a gate is written: the attempt has recorded one gate more.    *)
LEMMA Writes ==
  ASSUME NEW st, NEW rows, Attempt(st, rows), st.at = "upsert", NEW copy, NEW phase
  PROVE  Attempt([st EXCEPT !.at = IF st.gate > Len(GateList) THEN "agents" ELSE "gate",
                            !.phase = phase, !.copy = copy, !.gate = @ + 1],
                 rows \cup {st.row})
<1> DEFINE n == [st EXCEPT !.at = IF st.gate > Len(GateList) THEN "agents" ELSE "gate",
                           !.phase = phase, !.copy = copy, !.gate = @ + 1]
<1>1. IsState(st) /\ Recorded(st, rows)
  BY DEF Attempt, Working
<1>2. Len(GateList) \in Nat /\ st.gate \in 1 .. Len(GateList) + 1
  BY <1>1, GateAssumption DEF Recorded, Done
<1>3. IsState(n) /\ n.at = (IF st.gate > Len(GateList) THEN "agents" ELSE "gate")
      /\ n.gate = st.gate + 1 /\ n.fails = st.fails
  BY <1>1 DEF IsState
<1> HIDE DEF n
<1>4. n.at \in {"agents", "gate"}
  BY <1>3
<1>5. /\ n.gate \in 1 .. Len(GateList) + (IF n.at \in Done THEN 2 ELSE 1)
      /\ n.at \in Done => n.gate = Len(GateList) + 2
  BY <1>2, <1>3, <1>4 DEF Done
<1>6. {r.gate : r \in rows \cup {st.row}} = {GateAt(i) : i \in 1 .. n.gate - 1}
  <2>1. {r.gate : r \in rows \cup {st.row}} = {r.gate : r \in rows} \cup {st.row.gate}
    OBVIOUS
  <2>2. 1 .. n.gate - 1 = 1 .. st.gate - 1 \cup {st.gate}
    BY <1>2, <1>3
  <2>3. {GateAt(i) : i \in 1 .. n.gate - 1} = {GateAt(i) : i \in 1 .. st.gate - 1} \cup {GateAt(st.gate)}
    BY <2>2
  <2>4. {r.gate : r \in rows} = {GateAt(i) : i \in 1 .. st.gate - 1} /\ st.row.gate = GateAt(st.gate)
    BY <1>1 DEF Recorded
  <2> QED
    BY <2>1, <2>3, <2>4
<1>7. n.fails = 0 => \A r \in rows \cup {st.row} : r.status # "fail"
  BY <1>1, <1>3 DEF Recorded
<1>8. Recorded(n, rows \cup {st.row})
  BY <1>4, <1>5, <1>6, <1>7 DEF Recorded
<1>9. Attempt(n, rows \cup {st.row})
  BY <1>3, <1>4, <1>8 DEF Attempt, Working
<1> QED
  BY <1>9 DEF n

(* The manifest is written, or the cleared run is. *)
LEMMA Opens ==
  ASSUME NEW st, NEW rows, Attempt(st, rows), st.at \in {"capture", "reset"}, NEW copy, NEW phase
  PROVE  /\ Attempt([st EXCEPT !.at = "reset", !.phase = phase, !.copy = copy, !.gate = @], rows)
         /\ Attempt([st EXCEPT !.at = "gate", !.phase = phase, !.copy = copy, !.gate = @], {})
<1> DEFINE m == [st EXCEPT !.at = "reset", !.phase = phase, !.copy = copy, !.gate = @]
           n == [st EXCEPT !.at = "gate", !.phase = phase, !.copy = copy, !.gate = @]
<1>1. IsState(st) /\ st.gate = 1 /\ st.fails = 0 /\ Len(GateList) \in Nat
  BY GateAssumption DEF Attempt
<1>2. IsState(m) /\ m.at = "reset" /\ m.gate = 1 /\ m.fails = 0
  BY <1>1 DEF IsState
<1>3. IsState(n) /\ n.at = "gate" /\ n.gate = 1 /\ n.fails = 0
  BY <1>1 DEF IsState
<1> HIDE DEF m, n
<1>4. Attempt(m, rows)
  BY <1>2 DEF Attempt, Working
<1>5. {r.gate : r \in {}} = {GateAt(i) : i \in 1 .. n.gate - 1}
  BY <1>3
<1>6. Recorded(n, {})
  BY <1>1, <1>3, <1>5 DEF Recorded, Done
<1>7. Attempt(n, {})
  BY <1>3, <1>6 DEF Attempt, Working
<1> QED
  BY <1>4, <1>7 DEF m, n

(* After the last gate a script goes on without recording anything. *)
LEMMA GoesOn ==
  ASSUME NEW st, NEW rows, Attempt(st, rows), st.at \in Done,
         NEW at \in Done, NEW agents, NEW fails \in Nat, fails = 0 => st.fails = 0
  PROVE  /\ Attempt([st EXCEPT !.agents = agents, !.at = at, !.fails = fails], rows)
         /\ Attempt([st EXCEPT !.at = at], rows)
<1> DEFINE m == [st EXCEPT !.agents = agents, !.at = at, !.fails = fails]
           n == [st EXCEPT !.at = at]
<1>1. IsState(st) /\ Recorded(st, rows)
  BY DEF Attempt, Working, Done
<1>2. IsState(m) /\ m.at = at /\ m.gate = st.gate /\ m.fails = fails
  BY <1>1 DEF IsState
<1>3. IsState(n) /\ n.at = at /\ n.gate = st.gate /\ n.fails = st.fails
  BY <1>1 DEF IsState
<1> HIDE DEF m, n
<1>4. Recorded(m, rows)
  BY <1>1, <1>2 DEF Recorded, Done
<1>5. Recorded(n, rows)
  BY <1>1, <1>3 DEF Recorded, Done
<1>6. Attempt(m, rows) /\ Attempt(n, rows)
  BY <1>2, <1>3, <1>4, <1>5 DEF Attempt, Working, Done
<1> QED
  BY <1>6 DEF m, n

-----------------------------------------------------------------------------
LEMMA AttemptOf ==
  ASSUME AttemptInv, NEW s \in Script
  PROVE  Attempt(script[s], did[s].rows) /\ IsState(script[s])
BY DEF AttemptInv, Attempt

LEMMA AttemptStart ==
  ASSUME AttemptInv, NEW s \in Script, Start(s), UNCHANGED did
  PROVE  AttemptInv'
BY Starts, OneState DEF Start

LEMMA AttemptEnd ==
  ASSUME AttemptInv, NEW s \in Script, NEW verdict, End(s, verdict), UNCHANGED did
  PROVE  AttemptInv'
<1>1. "ended" \in Resting
  BY DEF Resting
<1>2. Attempt([Idle EXCEPT !.at = "ended", !.verdict = verdict], did[s].rows)
  BY <1>1, Rests
<1> QED
  BY <1>2, OneState DEF End

LEMMA AttemptLoad ==
  ASSUME AttemptInv, NEW s \in Script, Load(s), UNCHANGED did
  PROVE  AttemptInv'
<1>1. CASE report.readable
  <2>1. Attempt([script[s] EXCEPT !.copy = report, !.phase = "save"], did[s].rows)
    BY AttemptOf, Keeps
  <2>2. Become(s, [script[s] EXCEPT !.copy = report, !.phase = "save"])
    BY <1>1 DEF Load
  <2> QED
    BY <2>1, <2>2, OneState
<1>2. CASE ~report.readable
  BY <1>2, AttemptEnd DEF Load
<1> QED
  BY <1>1, <1>2

LEMMA AttemptSave ==
  ASSUME AttemptInv, NEW s \in Script, Save(s), UNCHANGED did
  PROVE  AttemptInv'
<1>1. PICK copy : Become(s, [script[s] EXCEPT !.phase = "write", !.copy = copy])
  BY DEF Save
<1>2. Attempt([script[s] EXCEPT !.phase = "write", !.copy = copy], did[s].rows)
  BY AttemptOf, Keeps
<1> QED
  BY <1>1, <1>2, OneState

LEMMA AttemptWrite ==
  ASSUME AttemptInv, NEW s \in Script, HistWrite(s)
  PROVE  AttemptInv'
<1>0. script[s].at \in Command /\ Attempt(script[s], did[s].rows)
  BY AttemptOf DEF HistWrite, Write
<1>1. CASE script[s].at = "capture"
  <2>1. Become(s, [script[s] EXCEPT !.at = "reset", !.phase = "load", !.copy = Absent, !.gate = @])
    BY <1>1 DEF HistWrite, Write, AfterCommand
  <2>2. UNCHANGED did
    BY <1>1 DEF HistWrite
  <2> QED
    BY <1>0, <1>1, <2>1, <2>2, Opens, OneState
<1>2. CASE script[s].at = "reset"
  <2>1. Become(s, [script[s] EXCEPT !.at = "gate", !.phase = "load", !.copy = Absent, !.gate = @])
    BY <1>2 DEF HistWrite, Write, AfterCommand
  <2>2. did' = [did EXCEPT ![s] = [rows |-> {}, sha |-> tree]]
    BY <1>2 DEF HistWrite
  <2>3. Attempt([script[s] EXCEPT !.at = "gate", !.phase = "load", !.copy = Absent, !.gate = @], {})
    BY <1>0, <1>2, Opens
  <2> DEFINE run == [rows |-> {}, sha |-> tree]
  <2>4. run.rows = {} /\ run = [rows |-> run.rows, sha |-> run.sha]
    OBVIOUS
  <2> HIDE DEF run
  <2>5. did' = [did EXCEPT ![s] = run]
    BY <2>2 DEF run
  <2> QED
    BY <2>1, <2>3, <2>4, <2>5, OneScript
<1>3. CASE script[s].at = "upsert"
  <2> DEFINE run == [rows |-> did[s].rows \cup {script[s].row}, sha |-> did[s].sha]
  <2>1. Become(s, [script[s] EXCEPT !.at = IF script[s].gate > Len(GateList) THEN "agents" ELSE "gate",
                                    !.phase = "load", !.copy = Absent, !.gate = @ + 1])
    BY <1>3 DEF HistWrite, Write, AfterCommand
  <2>2. did[s] = [rows |-> did[s].rows, sha |-> did[s].sha]
    BY DEF AttemptInv
  <2>3. [did[s] EXCEPT !.rows = @ \cup {script[s].row}] = run
    BY <2>2
  <2>4. did' = [did EXCEPT ![s] = run]
    BY <1>3, <2>3 DEF HistWrite
  <2>5. Attempt([script[s] EXCEPT !.at = IF script[s].gate > Len(GateList) THEN "agents" ELSE "gate",
                                  !.phase = "load", !.copy = Absent, !.gate = @ + 1],
                did[s].rows \cup {script[s].row})
    BY <1>0, <1>3, Writes
  <2>6. run.rows = did[s].rows \cup {script[s].row} /\ run = [rows |-> run.rows, sha |-> run.sha]
    OBVIOUS
  <2> HIDE DEF run
  <2> QED
    BY <2>1, <2>4, <2>5, <2>6, OneScript
<1> QED
  BY <1>0, <1>1, <1>2, <1>3 DEF Command

LEMMA AttemptRecord ==
  ASSUME AttemptInv, NEW s \in Script, script[s].at = "gate", UNCHANGED did,
         NEW row, row.gate = GateAt(script[s].gate), Record(s, row)
  PROVE  AttemptInv'
<1>1. Attempt([script[s] EXCEPT !.at = "upsert", !.row = row, !.fails = Counted(@, row)], did[s].rows)
  BY AttemptOf, Records
<1> QED
  BY <1>1, OneState DEF Record

(* Every row that a gate gives is one of that gate. *)
LEMMA OutcomesOf ==
  ASSUME NEW i \in 1 .. Len(GateList), NEW row \in Outcomes(GateList[i])
  PROVE  row.gate = GateList[i].gate
<1> DEFINE g == GateList[i]
<1>1. g.kind \in {"run", "g1b", "skip"}
  <2>1. g \in Gates
    BY GateAssumption
  <2> QED
    BY <2>1 DEF Gates
<1>2. \A gate, required, waived, status : Row(gate, required, waived, status).gate = gate
  BY DEF Row
<1> HIDE DEF g
<1>3. \E required, waived, status : row = Row(g.gate, required, waived, status)
  <2>1. CASE g.kind = "run"
    <3>1. Outcomes(g) = {Row(g.gate, g.required, FALSE, st) : st \in {"pass", "fail"}}
      BY <2>1 DEF Outcomes
    <3> QED
      BY <3>1 DEF g
  <2>2. CASE g.kind = "g1b"
    <3>1. Outcomes(g) = {Row(g.gate, TRUE, FALSE, st) : st \in {"pass", "fail"}}
                          \cup (IF AllowBlocked THEN {Row(g.gate, TRUE, TRUE, "pass")} ELSE {})
      BY <2>2 DEF Outcomes
    <3> QED
      BY <3>1 DEF g
  <2>3. CASE g.kind = "skip"
    <3>1. Outcomes(g) = {Row(g.gate, g.required, FALSE, st) : st \in {"not_run"}}
      BY <2>3 DEF Outcomes
    <3> QED
      BY <3>1 DEF g
  <2> QED
    BY <1>1, <2>1, <2>2, <2>3
<1> QED
  BY <1>2, <1>3 DEF g

LEMMA AttemptGate ==
  ASSUME AttemptInv, NEW s \in Script, RunGate(s) \/ Render(s), UNCHANGED did
  PROVE  AttemptInv'
<1>1. script[s].at = "gate" /\ Len(GateList) \in Nat
  <2>1. script[s].at = "gate"
    BY DEF RunGate, Render
  <2>2. Len(GateList) \in Nat
    BY GateAssumption
  <2> QED
    BY <2>1, <2>2
<1>2. script[s].gate \in 1 .. Len(GateList) + 1
  BY <1>1, AttemptOf DEF Attempt, Working, Recorded, Done
<1>3. CASE RunGate(s)
  <2>1. PICK row \in Outcomes(GateList[script[s].gate]) : Record(s, row)
    BY <1>3 DEF RunGate
  <2>2. script[s].gate \in 1 .. Len(GateList)
    BY <1>1, <1>2, <1>3 DEF RunGate
  <2>3. row.gate = GateAt(script[s].gate)
    BY <2>2, OutcomesOf DEF GateAt
  <2> QED
    BY <1>1, <2>1, <2>3, AttemptRecord
<1>4. CASE Render(s)
  <2>1. PICK status : Record(s, Row(RenderGate, TRUE, FALSE, status))
    BY <1>4 DEF Render
  <2>2. Row(RenderGate, TRUE, FALSE, status).gate = GateAt(script[s].gate)
    BY <1>1, <1>4 DEF Render, Row, GateAt
  <2> QED
    BY <1>1, <2>1, <2>2, AttemptRecord
<1> QED
  BY <1>3, <1>4

LEMMA AttemptAgents ==
  ASSUME AttemptInv, NEW s \in Script, Agents(s), UNCHANGED did
  PROVE  AttemptInv'
<1>1. PICK ok \in BOOLEAN :
        Become(s, [script[s] EXCEPT !.agents = ok, !.at = IF Strict THEN "check" ELSE "exit",
                                    !.fails = IF ok THEN @ ELSE @ + 1])
  BY DEF Agents
<1> DEFINE at == IF Strict THEN "check" ELSE "exit"
           fails == IF ok THEN script[s].fails ELSE script[s].fails + 1
<1>2. script[s].fails \in Nat
  BY AttemptOf DEF IsState
<1>3. fails \in Nat /\ (fails = 0 => script[s].fails = 0)
  BY <1>2
<1>4. at \in Done /\ script[s].at \in Done
  BY DEF Agents, Done
<1>5. Become(s, [script[s] EXCEPT !.agents = ok, !.at = at, !.fails = fails])
  BY <1>1
<1> HIDE DEF at, fails
<1>6. Attempt([script[s] EXCEPT !.agents = ok, !.at = at, !.fails = fails], did[s].rows)
  BY <1>3, <1>4, AttemptOf, GoesOn
<1> QED
  BY <1>5, <1>6, OneState

LEMMA AttemptCheck ==
  ASSUME AttemptInv, NEW s \in Script, Check(s), UNCHANGED did
  PROVE  AttemptInv'
<1>1. CASE Become(s, [script[s] EXCEPT !.at = "exit"])
  <2>1. script[s].at \in Done /\ "exit" \in Done
    BY DEF Check, Done
  <2>2. script[s].fails \in Nat
    BY AttemptOf DEF IsState
  <2>3. Attempt([script[s] EXCEPT !.at = "exit"], did[s].rows)
    BY <2>1, <2>2, AttemptOf, GoesOn
  <2> QED
    BY <1>1, <2>3, OneState
<1>2. CASE \E verdict : End(s, verdict)
  BY <1>2, AttemptEnd
<1> QED
  BY <1>1, <1>2 DEF Check

LEMMA AttemptKill ==
  ASSUME AttemptInv, NEW s \in Script, Kill(s), UNCHANGED did
  PROVE  AttemptInv'
<1>1. "killed" \in Resting
  BY DEF Resting
<1>2. Attempt([Idle EXCEPT !.at = "killed"], did[s].rows)
  BY <1>1, Rests
<1> QED
  BY <1>2, OneState DEF Kill

LEMMA AttemptStep ==
  ASSUME AttemptInv, [HistNext]_histVars
  PROVE  AttemptInv'
<1>1. CASE UNCHANGED histVars
  BY <1>1 DEF histVars, vars, AttemptInv
<1>2. CASE Repin /\ UNCHANGED did
  BY <1>2 DEF Repin, AttemptInv
<1>3. ASSUME NEW s \in Script, HistWrite(s) PROVE AttemptInv'
  BY <1>3, AttemptWrite
<1>4. ASSUME NEW s \in Script, UNCHANGED did,
             \/ Start(s) \/ Load(s) \/ Save(s) \/ RunGate(s) \/ Render(s)
             \/ Agents(s) \/ Check(s) \/ Finish(s) \/ Kill(s)
      PROVE  AttemptInv'
  <2>1. CASE Finish(s)
    BY <1>4, <2>1, AttemptEnd DEF Finish
  <2> QED
    BY <1>4, <2>1, AttemptStart, AttemptLoad, AttemptSave, AttemptGate, AttemptAgents,
       AttemptCheck, AttemptKill
<1> QED
  BY <1>1, <1>2, <1>3, <1>4 DEF HistNext

(* A step of script t gives that script a state and leaves the others.      *)
LEMMA OneMoves ==
  ASSUME NEW t \in Script,
         \/ Start(t) \/ Load(t) \/ Save(t) \/ Write(t) \/ RunGate(t) \/ Render(t)
         \/ Agents(t) \/ Check(t) \/ Finish(t) \/ Kill(t)
  PROVE  \E st : Become(t, st)
<1>1. CASE Start(t)
  BY <1>1 DEF Start
<1>2. CASE Load(t)
  BY <1>2 DEF Load, End
<1>3. CASE Save(t) \/ Write(t)
  BY <1>3 DEF Save, Write
<1>4. CASE RunGate(t) \/ Render(t)
  <2>1. \E row : Record(t, row)
    BY <1>4 DEF RunGate, Render
  <2> QED
    BY <2>1 DEF Record
<1>5. CASE Agents(t)
  BY <1>5 DEF Agents
<1>6. CASE Check(t) \/ Finish(t)
  BY <1>6 DEF Check, Finish, End
<1>7. CASE Kill(t)
  BY <1>7 DEF Kill
<1> QED
  BY <1>1, <1>2, <1>3, <1>4, <1>5, <1>6, <1>7

(* Only Finish takes a script from its exit to its end. *)
LEMMA Finishes ==
  ASSUME AttemptInv, [HistNext]_histVars, NEW s \in Script,
         script[s].at = "exit", script'[s].at = "ended"
  PROVE  Finish(s)
<1>1. script' # script
  OBVIOUS
<1>2. PICK t \in Script :
        \/ Start(t) \/ Load(t) \/ Save(t) \/ Write(t) \/ RunGate(t) \/ Render(t)
        \/ Agents(t) \/ Check(t) \/ Finish(t) \/ Kill(t)
  BY <1>1 DEF HistNext, HistWrite, Repin, histVars, vars
<1>3. PICK st : Become(t, st)
  BY <1>2, OneMoves
<1>4. t = s
  BY <1>3 DEF Become, AttemptInv
<1>5. ~Start(s)
  BY DEF Start, Running, Resting
<1>6. ~Load(s) /\ ~Save(s) /\ ~Write(s)
  BY DEF Load, Save, Write, Command
<1>7. ~RunGate(s) /\ ~Render(s) /\ ~Agents(s) /\ ~Check(s)
  BY DEF RunGate, Render, Agents, Check
<1>8. ~Kill(s)
  <2>1. Kill(s) => script'[s] = [Idle EXCEPT !.at = "killed"]
    BY DEF Kill, Become, AttemptInv
  <2>2. [Idle EXCEPT !.at = "killed"].at = "killed"
    BY IdleState DEF IsState
  <2> QED
    BY <2>1, <2>2
<1> QED
  BY <1>2, <1>4, <1>5, <1>6, <1>7, <1>8

(* A script that ends with success has recorded all gates, without failure. *)
LEMMA SuccessStep ==
  ASSUME AttemptInv, [HistNext]_histVars, NEW s \in Script,
         script[s].at = "exit", script'[s].at = "ended", script'[s].verdict = "ok"
  PROVE  /\ {r.gate : r \in did[s].rows} = AllGates
         /\ \A r \in did[s].rows : r.status # "fail"
<1>1. script[s].gate = Len(GateList) + 2 /\ Recorded(script[s], did[s].rows)
  BY AttemptOf DEF Attempt, Working, Recorded, Done
<1>2. Len(GateList) \in Nat
  BY GateAssumption
<1>3. {GateAt(i) : i \in 1 .. script[s].gate - 1} = AllGates
  <2>1. 1 .. script[s].gate - 1 = 1 .. Len(GateList) \cup {Len(GateList) + 1}
    BY <1>1, <1>2
  <2>2. GateAt(Len(GateList) + 1) = RenderGate
    BY <1>2 DEF GateAt
  <2>3. {GateAt(i) : i \in 1 .. Len(GateList)} = {GateList[i].gate : i \in 1 .. Len(GateList)}
    BY <1>2 DEF GateAt
  <2> QED
    BY <2>1, <2>2, <2>3 DEF AllGates
<1>4. script[s].fails = 0
  <2>1. Finish(s)
    BY Finishes
  <2>2. script'[s] = [Idle EXCEPT !.at = "ended", !.verdict = IF script[s].fails = 0 THEN "ok" ELSE "failing_gates"]
    BY <2>1 DEF Finish, End, Become, AttemptInv
  <2>3. script'[s].verdict = IF script[s].fails = 0 THEN "ok" ELSE "failing_gates"
    BY <2>2, IdleState DEF IsState
  <2> QED
    BY <2>3
<1> QED
  BY <1>1, <1>3, <1>4 DEF Recorded

-----------------------------------------------------------------------------
(* A script of any profile exits 0 only if it recorded every gate and none  *)
(* of them failed: with any number of scripts at once, any list of gates    *)
(* and kills in any phase of run_runtime_convergence.sh and gate_report.py. *)
THEOREM OwnGatesPass == HistSpec => SuccessMeansOwnGatesPassed
<1>1. HistInit => AttemptInv
  BY AttemptInit
<1>2. AttemptInv /\ [HistNext]_histVars => AttemptInv'
  BY AttemptStep
<1>3. AttemptInv /\ [HistNext]_histVars =>
        [\A s \in Script :
           script[s].at = "exit" /\ script'[s].at = "ended" /\ script'[s].verdict = "ok" =>
             /\ {r.gate : r \in did[s].rows} = AllGates
             /\ \A r \in did[s].rows : r.status # "fail"]_histVars
  BY SuccessStep
<1> QED
  BY <1>1, <1>2, <1>3, PTL DEF HistSpec, SuccessMeansOwnGatesPassed

-----------------------------------------------------------------------------
(* What each step does to the state of its script, field by field.          *)


(* A script that gets a new state: the others keep theirs. *)
LEMMA Becomes ==
  ASSUME AttemptInv, NEW s \in Script, NEW st, Become(s, st)
  PROVE  script'[s] = st /\ \A t \in Script \ {s} : script'[t] = script[t]
BY DEF AttemptInv, Become

LEMMA MovesStart ==
  ASSUME AttemptInv, NEW s \in Script, Start(s)
  PROVE  /\ script'[s].at = "capture" /\ script'[s].phase = "load"
         /\ script'[s].row = {}
         /\ \A t \in Script \ {s} : script'[t] = script[t]
BY Becomes DEF Start, Fresh

LEMMA MovesEnd ==
  ASSUME AttemptInv, NEW s \in Script, NEW verdict, End(s, verdict)
  PROVE  /\ script'[s].at = "ended" /\ script'[s].phase = "load"
         /\ script'[s].verdict = verdict
         /\ \A t \in Script \ {s} : script'[t] = script[t]
<1> DEFINE n == [Idle EXCEPT !.at = "ended", !.verdict = verdict]
<1>1. n.at = "ended" /\ n.phase = "load" /\ n.verdict = verdict
  BY DEF Idle, Fresh
<1> QED
  BY <1>1, Becomes DEF End

LEMMA MovesLoad ==
  ASSUME AttemptInv, NEW s \in Script, Load(s), report.readable
  PROVE  /\ script'[s].at = script[s].at /\ script'[s].phase = "save"
         /\ script'[s].gate = script[s].gate /\ script'[s].row = script[s].row
         /\ script'[s].fails = script[s].fails /\ script'[s].copy = report
         /\ \A t \in Script \ {s} : script'[t] = script[t]
<1> DEFINE n == [script[s] EXCEPT !.copy = report, !.phase = "save"]
<1>1. /\ n.at = script[s].at /\ n.phase = "save" /\ n.gate = script[s].gate
      /\ n.row = script[s].row /\ n.fails = script[s].fails /\ n.copy = report
  BY AttemptOf DEF IsState
<1>2. Become(s, n)
  BY DEF Load
<1> HIDE DEF n
<1> QED
  BY <1>1, <1>2, Becomes

LEMMA MovesSave ==
  ASSUME AttemptInv, NEW s \in Script, Save(s)
  PROVE  /\ script'[s].at = script[s].at /\ script'[s].phase = "write"
         /\ script'[s].gate = script[s].gate /\ script'[s].row = script[s].row
         /\ script'[s].fails = script[s].fails
         /\ script'[s].copy = [readable |-> TRUE, ts |-> clock, runs |-> Changed(s, Edited(s))]
         /\ \A t \in Script \ {s} : script'[t] = script[t]
<1> DEFINE copy == [readable |-> TRUE, ts |-> clock, runs |-> Changed(s, Edited(s))]
           n == [script[s] EXCEPT !.phase = "write", !.copy = copy]
<1>1. Become(s, n)
  BY DEF Save
<1> HIDE DEF copy
<1>2. /\ n.at = script[s].at /\ n.phase = "write" /\ n.gate = script[s].gate
      /\ n.row = script[s].row /\ n.fails = script[s].fails /\ n.copy = copy
  BY AttemptOf DEF IsState
<1> HIDE DEF n
<1>3. script'[s] = n /\ \A t \in Script \ {s} : script'[t] = script[t]
  BY <1>1, Becomes
<1> QED
  BY <1>2, <1>3 DEF copy

LEMMA MovesWrite ==
  ASSUME AttemptInv, NEW s \in Script, Write(s)
  PROVE  /\ script'[s].at = AfterCommand(s) /\ script'[s].phase = "load"
         /\ script'[s].gate = (IF script[s].at = "upsert" THEN script[s].gate + 1 ELSE script[s].gate)
         /\ script'[s].row = script[s].row /\ script'[s].fails = script[s].fails
         /\ \A t \in Script \ {s} : script'[t] = script[t]
<1>1. IsState(script[s])
  BY AttemptOf
<1> DEFINE n == [script[s] EXCEPT !.at = AfterCommand(s), !.phase = "load", !.copy = Absent,
                  !.gate = IF script[s].at = "upsert" THEN @ + 1 ELSE @]
<1>2. /\ n.at = AfterCommand(s) /\ n.phase = "load"
      /\ n.gate = (IF script[s].at = "upsert" THEN script[s].gate + 1 ELSE script[s].gate)
      /\ n.row = script[s].row /\ n.fails = script[s].fails
  BY <1>1 DEF IsState
<1>3. Become(s, n)
  BY DEF Write
<1> QED
  BY <1>2, <1>3, Becomes

LEMMA MovesRecord ==
  ASSUME AttemptInv, NEW s \in Script, NEW row, Record(s, row)
  PROVE  /\ script'[s].at = "upsert" /\ script'[s].phase = script[s].phase
         /\ script'[s].gate = script[s].gate /\ script'[s].row = row
         /\ script'[s].fails = Counted(script[s].fails, row)
         /\ script'[s].copy = script[s].copy
         /\ \A t \in Script \ {s} : script'[t] = script[t]
<1> DEFINE n == [script[s] EXCEPT !.at = "upsert", !.row = row, !.fails = Counted(@, row)]
<1>1. /\ n.at = "upsert" /\ n.phase = script[s].phase /\ n.gate = script[s].gate
      /\ n.row = row /\ n.fails = Counted(script[s].fails, row) /\ n.copy = script[s].copy
  BY AttemptOf DEF IsState
<1>2. Become(s, n)
  BY DEF Record
<1> HIDE DEF n
<1> QED
  BY <1>1, <1>2, Becomes

LEMMA MovesAgents ==
  ASSUME AttemptInv, NEW s \in Script, Agents(s)
  PROVE  /\ script'[s].at = (IF Strict THEN "check" ELSE "exit")
         /\ script'[s].phase = script[s].phase
         /\ script'[s].gate = script[s].gate /\ script'[s].row = script[s].row
         /\ \A t \in Script \ {s} : script'[t] = script[t]
<1>1. PICK ok \in BOOLEAN :
        Become(s, [script[s] EXCEPT !.agents = ok, !.at = IF Strict THEN "check" ELSE "exit",
                                    !.fails = IF ok THEN @ ELSE @ + 1])
  BY DEF Agents
<1> DEFINE n == [script[s] EXCEPT !.agents = ok, !.at = IF Strict THEN "check" ELSE "exit",
                                  !.fails = IF ok THEN @ ELSE @ + 1]
<1>2. /\ n.at = (IF Strict THEN "check" ELSE "exit") /\ n.phase = script[s].phase
      /\ n.gate = script[s].gate /\ n.row = script[s].row
  BY AttemptOf DEF IsState
<1>3. Become(s, n)
  BY <1>1
<1> HIDE DEF n
<1> QED
  BY <1>2, <1>3, Becomes

LEMMA MovesCheck ==
  ASSUME AttemptInv, NEW s \in Script, Check(s)
  PROVE  /\ \/ /\ \E perfOk \in BOOLEAN : Verdict(s, perfOk) = "ok"
               /\ script'[s].at = "exit" /\ script'[s].phase = script[s].phase
               /\ script'[s].gate = script[s].gate /\ script'[s].row = script[s].row
               /\ script'[s].fails = script[s].fails
            \/ script'[s].at = "ended" /\ script'[s].phase = "load"
         /\ \A t \in Script \ {s} : script'[t] = script[t]
<1>1. PICK perfOk \in BOOLEAN :
        IF Verdict(s, perfOk) = "ok" THEN Become(s, [script[s] EXCEPT !.at = "exit"])
                                     ELSE End(s, Verdict(s, perfOk))
  BY DEF Check
<1> DEFINE n == [script[s] EXCEPT !.at = "exit"]
<1>2. /\ n.at = "exit" /\ n.phase = script[s].phase /\ n.gate = script[s].gate
      /\ n.row = script[s].row /\ n.fails = script[s].fails
  BY AttemptOf DEF IsState
<1>3. CASE Verdict(s, perfOk) = "ok"
  <2>1. Become(s, n)
    BY <1>1, <1>3
  <2> HIDE DEF n
  <2> QED
    BY <1>2, <1>3, <2>1, Becomes
<1>4. CASE Verdict(s, perfOk) # "ok"
  BY <1>1, <1>4, MovesEnd
<1> QED
  BY <1>3, <1>4

LEMMA MovesKill ==
  ASSUME AttemptInv, NEW s \in Script, Kill(s)
  PROVE  /\ script'[s].at = "killed" /\ script'[s].phase = "load"
         /\ \A t \in Script \ {s} : script'[t] = script[t]
<1>1. [Idle EXCEPT !.at = "killed"].at = "killed" /\ [Idle EXCEPT !.at = "killed"].phase = "load"
  BY DEF Idle, Fresh
<1> QED
  BY <1>1, Becomes DEF Kill

-----------------------------------------------------------------------------
(* Scripts that run one after the other.                                    *)

OneAtATime == MaxRunning = 1

IsFcn(f) == f = [k \in DOMAIN f |-> f[k]]

(* A run of a report written at second now or before, and such a report.    *)
IsRun(run, now) ==
  run \in [ts : 0 .. now, strict : {run.strict}, sha : {run.sha}, rows : {run.rows}]

IsReport(rep, now) ==
  /\ rep = [readable |-> TRUE, ts |-> rep.ts, runs |-> rep.runs]
  /\ IsFcn(rep.runs)
  /\ DOMAIN rep.runs \subseteq Script
  /\ \A k \in DOMAIN rep.runs : IsRun(rep.runs[k], now)

(* What run k of runs shows. *)
RowsIn(runs, k) == IF k \in DOMAIN runs THEN runs[k].rows ELSE {}

(* The rows of a run after the command at which its script is.              *)
Due(s) == CASE script[s].at = "capture" -> did[s].rows
            [] script[s].at = "reset"   -> {}
            [] script[s].at = "upsert"  -> did[s].rows \cup {script[s].row}

(* The running script holds the report that is on disk, or has truncated it *)
(* and holds the next one.                                                  *)
Turn(s) ==
  /\ script[s].phase \in {"load", "save", "write"}
  /\ script[s].phase # "load" => script[s].at \in Command
  /\ script[s].phase = "save" => report.readable /\ script[s].copy = report
  /\ script[s].phase = "write" =>
       /\ ~report.readable
       /\ IsReport(script[s].copy, clock) /\ s \in DOMAIN script[s].copy.runs
       /\ \A k \in Script : RowsIn(script[s].copy.runs, k) = IF k = s THEN Due(s) ELSE did[k].rows
       /\ script[s].copy.runs[s].strict = Strict
  /\ script[s].phase # "write" /\ script[s].at # "capture" =>
       report.readable /\ s \in DOMAIN report.runs /\ report.runs[s].strict = Strict

(* The strengthening of RowsAreOfOneAttempt. *)
SerialInv ==
  /\ clock \in Nat
  /\ \A s, t \in Running : s = t
  /\ report.readable => /\ IsReport(report, clock)
                        /\ \A k \in Script : RowsIn(report.runs, k) = did[k].rows
  /\ \A s \in Running : Turn(s)
  /\ \A s \in Script \ Running : script[s].phase = "load"

LEMMA GatesDiffer ==
  ASSUME NEW i \in 1 .. Len(GateList) + 1, NEW j \in 1 .. Len(GateList) + 1, GateAt(i) = GateAt(j)
  PROVE  i = j
<1>1. Len(GateList) \in Nat
  BY GateAssumption
<1>2. \A k, l \in 1 .. Len(GateList) : GateList[k].gate = GateList[l].gate => k = l
  BY GateAssumption
<1>3. \A k \in 1 .. Len(GateList) : GateList[k].gate # RenderGate
  BY GateAssumption
<1> QED
  BY <1>1, <1>2, <1>3 DEF GateAt

(* The gate whose row is being recorded has none yet. *)
LEMMA NewGate ==
  ASSUME AttemptInv, NEW s \in Script, script[s].at = "upsert"
  PROVE  \A r \in did[s].rows : r.gate # script[s].row.gate
<1>1. Recorded(script[s], did[s].rows)
  BY AttemptOf DEF Attempt, Working
<1>2. /\ script[s].gate \in 1 .. Len(GateList) + 1 /\ Len(GateList) \in Nat
      /\ script[s].row.gate = GateAt(script[s].gate)
  BY <1>1, GateAssumption DEF Recorded, Done
<1> SUFFICES ASSUME NEW r \in did[s].rows, r.gate = script[s].row.gate PROVE FALSE
  OBVIOUS
<1>3. PICK i \in 1 .. script[s].gate - 1 : r.gate = GateAt(i)
  BY <1>1 DEF Recorded
<1> QED
  BY <1>2, <1>3, GatesDiffer

LEMMA Upserts ==
  ASSUME NEW rows, NEW row, \A r \in rows : r.gate # row.gate
  PROVE  Upserted(rows, row) = rows \cup {row}
BY DEF Upserted

(* The report with a new run s. *)
LEMMA Finds ==
  ASSUME NEW runs, NEW s, IsFcn(runs)
  PROVE  /\ IsFcn(FindRun(runs, s)) /\ DOMAIN FindRun(runs, s) = DOMAIN runs \cup {s}
         /\ \A k \in DOMAIN runs : FindRun(runs, s)[k] = runs[k]
         /\ s \notin DOMAIN runs =>
              FindRun(runs, s)[s] = [ts |-> clock, strict |-> FALSE, sha |-> -1, rows |-> {}]
BY DEF FindRun, IsFcn

(* What a command makes of the run of its script. *)
LEMMA Edits ==
  ASSUME AttemptInv, clock \in Nat, NEW s \in Script, script[s].at \in Command,
         IsReport(script[s].copy, clock), RowsIn(script[s].copy.runs, s) = did[s].rows,
         script[s].at # "capture" =>
           s \in DOMAIN script[s].copy.runs /\ script[s].copy.runs[s].strict = Strict
  PROVE  /\ IsRun(Edited(s), clock) /\ Edited(s).ts = clock
         /\ Edited(s).strict = Strict /\ Edited(s).rows = Due(s)
<1> DEFINE runs == script[s].copy.runs
           old == FindRun(runs, s)[s]
           run == [old EXCEPT !.ts = clock]
<1>1. IsRun(old, clock) /\ old.rows = did[s].rows
  <2>1. CASE s \in DOMAIN runs
    <3>1. old = runs[s]
      BY <2>1 DEF FindRun
    <3> QED
      BY <2>1, <3>1 DEF IsReport, RowsIn
  <2>2. CASE s \notin DOMAIN runs
    <3>1. old = [ts |-> clock, strict |-> FALSE, sha |-> -1, rows |-> {}]
      BY <2>2 DEF FindRun
    <3> QED
      BY <2>2, <3>1 DEF IsRun, RowsIn
  <2> QED
    BY <2>1, <2>2
<1>2. script[s].at # "capture" => old.strict = Strict
  BY DEF FindRun
<1> HIDE DEF old
<1>3. /\ IsRun(run, clock) /\ run.ts = clock /\ run.rows = did[s].rows
      /\ run.strict = old.strict
  BY <1>1 DEF IsRun
<1>4. Edited(s) = CASE script[s].at = "capture" -> [run EXCEPT !.strict = Strict, !.sha = tree]
                    [] script[s].at = "reset"   -> [run EXCEPT !.rows = Cleared(@)]
                    [] script[s].at = "upsert"  -> [run EXCEPT !.rows = Upserted(@, script[s].row)]
  BY DEF Edited, old, runs
<1> HIDE DEF run
<1>5. CASE script[s].at = "capture"
  <2>1. Edited(s) = [run EXCEPT !.strict = Strict, !.sha = tree]
    BY <1>4, <1>5
  <2> QED
    BY <1>3, <1>5, <2>1 DEF IsRun, Due
<1>6. CASE script[s].at = "reset"
  <2>1. Edited(s) = [run EXCEPT !.rows = {}]
    BY <1>4, <1>6 DEF Cleared
  <2> QED
    BY <1>2, <1>3, <1>6, <2>1 DEF IsRun, Due
<1>7. CASE script[s].at = "upsert"
  <2>1. Edited(s) = [run EXCEPT !.rows = Upserted(@, script[s].row)]
    BY <1>4, <1>7
  <2>2. Upserted(did[s].rows, script[s].row) = did[s].rows \cup {script[s].row}
    BY <1>7, NewGate, Upserts
  <2>3. Edited(s) = [run EXCEPT !.rows = did[s].rows \cup {script[s].row}]
    BY <1>3, <2>1, <2>2
  <2> QED
    BY <1>2, <1>3, <1>7, <2>3 DEF IsRun, Due
<1> QED
  BY <1>5, <1>6, <1>7 DEF Command

(* What it makes of the report: its run and no other one changes. *)
LEMMA Changes ==
  ASSUME NEW s \in Script, NEW run, NEW runs, runs = script[s].copy.runs, IsFcn(runs)
  PROVE  /\ IsFcn(Changed(s, run)) /\ DOMAIN Changed(s, run) = DOMAIN runs \cup {s}
         /\ Changed(s, run)[s] = run
         /\ \A k \in DOMAIN runs \ {s} : Changed(s, run)[k] = runs[k]
<1> DEFINE found == FindRun(runs, s)
<1>1. IsFcn(found) /\ DOMAIN found = DOMAIN runs \cup {s}
  BY Finds
<1>2. \A k \in DOMAIN runs : found[k] = runs[k]
  BY DEF FindRun
<1>3. Changed(s, run) = [found EXCEPT ![s] = run]
  BY DEF Changed
<1> HIDE DEF found
<1> QED
  BY <1>1, <1>2, <1>3 DEF IsFcn

-----------------------------------------------------------------------------
LEMMA Later ==
  ASSUME NEW rep, NEW now \in Nat, NEW then \in Nat, now <= then, IsReport(rep, now)
  PROVE  IsReport(rep, then)
BY DEF IsReport, IsRun

LEMMA SerialInit == HistInit => SerialInv
<1> SUFFICES ASSUME HistInit PROVE SerialInv
  OBVIOUS
<1>1. /\ script = [s \in Script |-> Idle] /\ did = [s \in Script |-> [rows |-> {}, sha |-> -1]]
      /\ report = Absent /\ clock = 0
  BY DEF HistInit, Init
<1>2. Idle.at = "idle" /\ Idle.phase = "load"
  BY DEF Idle, Fresh
<1>3. Running = {}
  BY <1>1, <1>2 DEF Running, Resting
<1>4. IsReport(report, clock)
  BY <1>1 DEF Absent, IsReport, IsFcn
<1>5. \A k \in Script : RowsIn(report.runs, k) = did[k].rows
  BY <1>1 DEF Absent, RowsIn
<1> QED
  BY <1>1, <1>2, <1>3, <1>4, <1>5 DEF SerialInv

(* With one script at a time, the others rest when a script moves. *)
LEMMA Alone ==
  ASSUME SerialInv, NEW s \in Running, NEW t \in Script \ {s}
  PROVE  t \notin Running /\ script[t].phase = "load"
BY DEF SerialInv

LEMMA StartsAlone ==
  ASSUME OneAtATime, SerialInv, NEW s \in Script, Start(s)
  PROVE  Running = {}
<1> SUFFICES ASSUME NEW t \in Running PROVE FALSE
  OBVIOUS
<1>1. Running = {t}
  BY DEF SerialInv
<1>2. Cardinality(Running) = 1
  BY <1>1, FS_Singleton
<1> QED
  BY <1>2 DEF Start, OneAtATime

(* A step of the only script that moves. *)
LEMMA SerialMove ==
  ASSUME SerialInv, NEW s \in Script, Running \subseteq {s},
         \A t \in Script \ {s} : script'[t] = script[t],
         clock' \in Nat,
         report.readable' => /\ IsReport(report, clock)'
                             /\ \A k \in Script : RowsIn(report.runs, k)' = did'[k].rows,
         script'[s].at \notin Resting => Turn(s)',
         script'[s].at \in Resting => script'[s].phase = "load"
  PROVE  SerialInv'
<1>1. \A t \in Script \ {s} : t \notin Running'
  BY DEF Running
<1>2. s \in Running' => Turn(s)'
  BY DEF Running
<1>3. \A t \in Script \ Running' : script'[t].phase = "load"
  BY DEF Running, SerialInv
<1>4. Running' \subseteq Script
  BY DEF Running
<1>5. \A t \in Running' : t = s
  BY <1>1, <1>4
<1> QED
  BY <1>2, <1>3, <1>5 DEF SerialInv

(* A step that leaves the report and the history alone. *)
LEMMA SerialAside ==
  ASSUME SerialInv, UNCHANGED <<report, did>>, clock' \in Nat, clock <= clock'
  PROVE  report.readable' => /\ IsReport(report, clock)'
                             /\ \A k \in Script : RowsIn(report.runs, k)' = did'[k].rows
<1> SUFFICES ASSUME report.readable
             PROVE  /\ IsReport(report, clock')
                    /\ \A k \in Script : RowsIn(report.runs, k) = did[k].rows
  OBVIOUS
<1> QED
  BY Later DEF SerialInv

LEMMA SerialStart ==
  ASSUME AttemptInv, OneAtATime, SerialInv, NEW s \in Script, Start(s), UNCHANGED did
  PROVE  SerialInv'
<1>1. Running = {} /\ UNCHANGED <<report, did, clock>> /\ clock \in Nat
  BY StartsAlone DEF Start, SerialInv
<1>2. /\ script'[s].at = "capture" /\ script'[s].phase = "load"
      /\ \A t \in Script \ {s} : script'[t] = script[t]
  BY MovesStart
<1>3. Turn(s)'
  BY <1>2 DEF Turn
<1> QED
  BY <1>1, <1>2, <1>3, SerialAside, SerialMove

LEMMA RunsAlone ==
  ASSUME SerialInv, NEW s \in Script, script[s].at \notin Resting
  PROVE  s \in Running /\ Running \subseteq {s} /\ Turn(s)
BY DEF Running, SerialInv

(* A script that ends or is killed. *)
LEMMA SerialRest ==
  ASSUME SerialInv, NEW s \in Script, script[s].at \notin Resting,
         script'[s].at \in Resting, script'[s].phase = "load",
         \A t \in Script \ {s} : script'[t] = script[t], UNCHANGED <<report, did, clock>>
  PROVE  SerialInv'
<1>1. Running \subseteq {s} /\ clock \in Nat
  BY RunsAlone DEF SerialInv
<1> QED
  BY <1>1, SerialAside, SerialMove

LEMMA SerialLoad ==
  ASSUME AttemptInv, SerialInv, NEW s \in Script, Load(s), UNCHANGED did
  PROVE  SerialInv'
<1>1. /\ script[s].at \in Command /\ script[s].at \notin Resting /\ script[s].phase = "load"
      /\ UNCHANGED <<report, did, clock>> /\ clock \in Nat
  BY DEF Load, Command, Resting, SerialInv
<1>2. Running \subseteq {s} /\ Turn(s)
  BY <1>1, RunsAlone
<1>3. CASE report.readable
  <2>1. /\ script'[s].at = script[s].at /\ script'[s].phase = "save" /\ script'[s].copy = report
        /\ \A t \in Script \ {s} : script'[t] = script[t]
    BY <1>3, MovesLoad
  <2>2. Turn(s)'
    BY <1>1, <1>2, <1>3, <2>1 DEF Turn
  <2> QED
    BY <1>1, <1>2, <2>1, <2>2, SerialAside, SerialMove
<1>4. CASE ~report.readable
  <2>1. End(s, "unreadable")
    BY <1>4 DEF Load
  <2>2. /\ script'[s].at = "ended" /\ script'[s].phase = "load"
        /\ \A t \in Script \ {s} : script'[t] = script[t]
    BY <2>1, MovesEnd
  <2> QED
    BY <1>1, <2>2, SerialRest DEF Resting
<1> QED
  BY <1>3, <1>4

(* What a script that has truncated the report holds. *)
LEMMA Holds ==
  ASSUME AttemptInv, SerialInv, NEW s \in Script, Save(s)
  PROVE  /\ IsReport(script'[s].copy, clock) /\ s \in DOMAIN script'[s].copy.runs
         /\ script'[s].copy.runs[s] = Edited(s)
         /\ IsRun(Edited(s), clock) /\ Edited(s).ts = clock
         /\ Edited(s).strict = Strict /\ Edited(s).rows = Due(s)
         /\ DOMAIN script'[s].copy.runs = DOMAIN report.runs \cup {s}
         /\ \A k \in DOMAIN report.runs \ {s} : script'[s].copy.runs[k] = report.runs[k]
<1>1. script[s].at \in Command /\ script[s].at \notin Resting /\ script[s].phase = "save"
  BY DEF Save, Command, Resting
<1>2. Turn(s)
  BY <1>1, RunsAlone
<1>3. report.readable /\ script[s].copy = report /\ clock \in Nat
  BY <1>1, <1>2 DEF Turn, SerialInv
<1>4. IsReport(report, clock) /\ RowsIn(report.runs, s) = did[s].rows
  BY <1>3 DEF SerialInv
<1>5. /\ IsRun(Edited(s), clock) /\ Edited(s).ts = clock
      /\ Edited(s).strict = Strict /\ Edited(s).rows = Due(s)
  <2>1. script[s].at # "capture" =>
          s \in DOMAIN script[s].copy.runs /\ script[s].copy.runs[s].strict = Strict
    BY <1>1, <1>2, <1>3 DEF Turn
  <2>2. IsReport(script[s].copy, clock) /\ RowsIn(script[s].copy.runs, s) = did[s].rows
    BY <1>3, <1>4
  <2> QED
    BY <1>1, <1>3, <2>1, <2>2, Edits
<1> DEFINE runs == report.runs
           new  == Changed(s, Edited(s))
<1>6. runs = script[s].copy.runs /\ IsFcn(runs)
  BY <1>3, <1>4 DEF IsReport
<1>7. /\ IsFcn(new) /\ DOMAIN new = DOMAIN runs \cup {s} /\ new[s] = Edited(s)
      /\ \A k \in DOMAIN runs \ {s} : new[k] = runs[k]
  BY <1>6, Changes
<1>8. script'[s].copy = [readable |-> TRUE, ts |-> clock, runs |-> new]
  BY MovesSave
<1> HIDE DEF new
<1>9. \A k \in DOMAIN new : IsRun(new[k], clock)
  BY <1>4, <1>5, <1>7 DEF IsReport
<1>10. DOMAIN new \subseteq Script
  BY <1>4, <1>7 DEF IsReport
<1>11. IsReport(script'[s].copy, clock)
  BY <1>7, <1>8, <1>9, <1>10 DEF IsReport
<1> QED
  BY <1>5, <1>7, <1>8, <1>11

LEMMA SerialSave ==
  ASSUME AttemptInv, SerialInv, NEW s \in Script, Save(s), UNCHANGED did
  PROVE  SerialInv'
<1>1. /\ script[s].at \in Command /\ script[s].at \notin Resting /\ script[s].phase = "save"
      /\ UNCHANGED <<did, clock>> /\ clock \in Nat /\ ~report.readable'
  BY DEF Save, Command, Resting, SerialInv, Torn
<1>2. Running \subseteq {s} /\ Turn(s)
  BY <1>1, RunsAlone
<1>3. \A k \in Script : RowsIn(report.runs, k) = did[k].rows
  BY <1>1, <1>2 DEF Turn, SerialInv
<1>4. /\ script'[s].at = script[s].at /\ script'[s].phase = "write"
      /\ script'[s].row = script[s].row
      /\ \A t \in Script \ {s} : script'[t] = script[t]
  BY MovesSave
<1>5. Due(s)' = Due(s)
  BY <1>1, <1>4 DEF Due
<1>6. ASSUME NEW k \in Script
      PROVE  RowsIn(script'[s].copy.runs, k) = IF k = s THEN Due(s)' ELSE did'[k].rows
  <2>1. CASE k = s
    BY <1>5, <2>1, Holds DEF RowsIn
  <2>2. CASE k # s
    BY <1>1, <1>3, <2>2, Holds DEF RowsIn
  <2> QED
    BY <2>1, <2>2
<1>7. Turn(s)'
  BY <1>1, <1>4, <1>6, Holds DEF Turn
<1> QED
  BY <1>1, <1>2, <1>4, <1>7, SerialMove

(* A write by the only script puts what it holds on disk. *)
LEMMA WritesIt ==
  ASSUME SerialInv, NEW s \in Script, Write(s)
  PROVE  report' = script[s].copy /\ ~report.readable
<1>1. script[s].phase = "write" /\ script[s].at \notin Resting
  BY DEF Write, Command, Resting
<1>2. ~report.readable
  BY <1>1, RunsAlone DEF Turn
<1> QED
  BY <1>2 DEF Write

LEMMA HistOfWrite ==
  ASSUME AttemptInv, NEW s \in Script, HistWrite(s)
  PROVE  \A k \in Script : did'[k].rows = IF k = s THEN Due(s) ELSE did[k].rows
<1>1. /\ did = [k \in Script |-> did[k]] /\ did[s] = [rows |-> did[s].rows, sha |-> did[s].sha]
      /\ script[s].at \in Command
  BY DEF AttemptInv, HistWrite, Write
<1>2. CASE script[s].at = "capture"
  BY <1>2 DEF HistWrite, Due
<1>3. CASE script[s].at = "reset"
  <2>1. did' = [did EXCEPT ![s] = [rows |-> {}, sha |-> tree]]
    BY <1>3 DEF HistWrite
  <2>2. Due(s) = {}
    BY <1>3 DEF Due
  <2> QED
    BY <1>1, <2>1, <2>2
<1>4. CASE script[s].at = "upsert"
  <2>1. did' = [did EXCEPT ![s].rows = @ \cup {script[s].row}]
    BY <1>4 DEF HistWrite
  <2>2. [did[s] EXCEPT !.rows = @ \cup {script[s].row}].rows = did[s].rows \cup {script[s].row}
    BY <1>1
  <2>3. Due(s) = did[s].rows \cup {script[s].row}
    BY <1>4 DEF Due
  <2> QED
    BY <1>1, <2>1, <2>2, <2>3
<1> QED
  BY <1>1, <1>2, <1>3, <1>4 DEF Command

LEMMA SerialWrite ==
  ASSUME AttemptInv, SerialInv, NEW s \in Script, HistWrite(s)
  PROVE  SerialInv'
<1>1. /\ Write(s) /\ script[s].at \in Command /\ script[s].at \notin Resting
      /\ script[s].phase = "write" /\ UNCHANGED clock /\ clock \in Nat
  BY DEF HistWrite, Write, Command, Resting, SerialInv
<1>2. Running \subseteq {s} /\ Turn(s)
  BY <1>1, RunsAlone
<1>3. report' = script[s].copy
  BY <1>1, WritesIt
<1>4. IsReport(report', clock) /\ s \in DOMAIN report'.runs /\ report'.runs[s].strict = Strict
  BY <1>1, <1>2, <1>3 DEF Turn
<1>5. report'.readable
  BY <1>4 DEF IsReport
<1>6. \A k \in Script : RowsIn(report'.runs, k) = did'[k].rows
  BY <1>1, <1>2, <1>3, HistOfWrite DEF Turn
<1>7. /\ script'[s].at = AfterCommand(s) /\ script'[s].phase = "load"
      /\ \A t \in Script \ {s} : script'[t] = script[t]
  BY <1>1, MovesWrite
<1>8. script'[s].at \notin Resting
  BY <1>1, <1>7 DEF AfterCommand, Command, Resting
<1>9. Turn(s)'
  BY <1>4, <1>5, <1>7 DEF Turn
<1>10. /\ IsReport(report, clock)' /\ \A k \in Script : RowsIn(report.runs, k)' = did'[k].rows
  BY <1>1, <1>4, <1>6
<1> QED
  BY <1>1, <1>2, <1>7, <1>8, <1>9, <1>10, SerialMove

(* A script that is not at a command goes on. *)
LEMMA SerialOn ==
  ASSUME SerialInv, NEW s \in Script, script[s].at \notin Resting \cup Command,
         script'[s].phase = script[s].phase, script'[s].at \notin Resting \cup {"capture"},
         \A t \in Script \ {s} : script'[t] = script[t],
         UNCHANGED <<report, did>>, clock' \in Nat, clock <= clock'
  PROVE  SerialInv'
<1>1. Running \subseteq {s} /\ Turn(s)
  BY RunsAlone
<1>2. script[s].phase = "load" /\ script[s].at # "capture"
  BY <1>1 DEF Turn, Command
<1>3. Turn(s)'
  BY <1>1, <1>2 DEF Turn
<1> QED
  BY <1>1, <1>3, SerialAside, SerialMove

-----------------------------------------------------------------------------
LEMMA SerialGate ==
  ASSUME AttemptInv, SerialInv, NEW s \in Script, RunGate(s) \/ Render(s), UNCHANGED did
  PROVE  SerialInv'
<1>1. PICK row : Record(s, row)
  BY DEF RunGate, Render
<1>2. /\ script'[s].at = "upsert" /\ script'[s].phase = script[s].phase
      /\ \A t \in Script \ {s} : script'[t] = script[t]
  BY <1>1, MovesRecord
<1>3. script[s].at = "gate" /\ UNCHANGED <<report, did>>
  BY DEF RunGate, Render
<1>4. clock \in Nat /\ clock' \in {clock, clock + 1}
  BY DEF RunGate, Render, SerialInv
<1> QED
  BY <1>2, <1>3, <1>4, SerialOn DEF Resting, Command

LEMMA SerialAgents ==
  ASSUME AttemptInv, SerialInv, NEW s \in Script, Agents(s), UNCHANGED did
  PROVE  SerialInv'
<1>1. /\ script'[s].at \in {"check", "exit"} /\ script'[s].phase = script[s].phase
      /\ \A t \in Script \ {s} : script'[t] = script[t]
  BY MovesAgents
<1>2. script[s].at = "agents" /\ UNCHANGED <<report, did, clock>> /\ clock \in Nat
  BY DEF Agents, SerialInv
<1> QED
  BY <1>1, <1>2, SerialOn DEF Resting, Command

LEMMA SerialCheck ==
  ASSUME AttemptInv, SerialInv, NEW s \in Script, Check(s), UNCHANGED did
  PROVE  SerialInv'
<1>1. script[s].at = "check" /\ UNCHANGED <<report, did, clock>> /\ clock \in Nat
  BY DEF Check, SerialInv
<1>2. \A t \in Script \ {s} : script'[t] = script[t]
  BY MovesCheck
<1>3. CASE script'[s].at = "exit" /\ script'[s].phase = script[s].phase
  BY <1>1, <1>2, <1>3, SerialOn DEF Resting, Command
<1>4. CASE script'[s].at = "ended" /\ script'[s].phase = "load"
  BY <1>1, <1>2, <1>4, SerialRest DEF Resting
<1> QED
  BY <1>3, <1>4, MovesCheck

LEMMA SerialFinish ==
  ASSUME AttemptInv, SerialInv, NEW s \in Script, Finish(s) \/ Kill(s), UNCHANGED did
  PROVE  SerialInv'
<1>1. script[s].at \notin Resting /\ UNCHANGED <<report, did, clock>>
  BY DEF Finish, Kill, Running, Resting
<1>2. CASE Finish(s)
  <2>1. /\ script'[s].at = "ended" /\ script'[s].phase = "load"
        /\ \A t \in Script \ {s} : script'[t] = script[t]
    BY <1>2, MovesEnd DEF Finish
  <2> QED
    BY <1>1, <2>1, SerialRest DEF Resting
<1>3. CASE Kill(s)
  <2>1. /\ script'[s].at = "killed" /\ script'[s].phase = "load"
        /\ \A t \in Script \ {s} : script'[t] = script[t]
    BY <1>3, MovesKill
  <2> QED
    BY <1>1, <2>1, SerialRest DEF Resting
<1> QED
  BY <1>2, <1>3

LEMMA SerialStep ==
  ASSUME AttemptInv, OneAtATime, SerialInv, [HistNext]_histVars
  PROVE  SerialInv'
<1>1. CASE UNCHANGED <<report, script, clock, did>>
  <2>1. Running' = Running
    BY <1>1 DEF Running
  <2>2. \A s \in Script : Turn(s)' = Turn(s)
    BY <1>1 DEF Turn, Due
  <2>3. Running \subseteq Script
    BY DEF Running
  <2> QED
    BY <1>1, <2>1, <2>2, <2>3 DEF SerialInv
<1>2. ASSUME NEW s \in Script, HistWrite(s) PROVE SerialInv'
  BY <1>2, SerialWrite
<1>3. ASSUME NEW s \in Script, UNCHANGED did,
             \/ Start(s) \/ Load(s) \/ Save(s) \/ RunGate(s) \/ Render(s)
             \/ Agents(s) \/ Check(s) \/ Finish(s) \/ Kill(s)
      PROVE  SerialInv'
  BY <1>3, SerialStart, SerialLoad, SerialSave, SerialGate, SerialAgents, SerialCheck,
     SerialFinish
<1> QED
  BY <1>1, <1>2, <1>3 DEF HistNext, Repin, histVars, vars

-----------------------------------------------------------------------------
(* The rows of an attempt, also of one that was killed: one per gate, the   *)
(* first gates of the list, and every row as its gate makes it.             *)

Fair(r) ==
  /\ r.gate = RenderGate => r.required /\ ~r.waived
  /\ r.status \notin {"pass", "fail"} => ~r.required

Ledger(rows) ==
  /\ \A q, r \in rows : q.gate = r.gate => q = r
  /\ \E n \in 0 .. Len(GateList) + 1 : {r.gate : r \in rows} = {GateAt(i) : i \in 1 .. n}
  /\ \A r \in rows : Fair(r)

LedgerInv ==
  \A s \in Script :
    /\ Ledger(did[s].rows)
    /\ script[s].at = "upsert" => Fair(script[s].row)

LEMMA EmptyLedger == Ledger({})
<1>1. Len(GateList) \in Nat
  BY GateAssumption
<1>2. {r.gate : r \in {}} = {GateAt(i) : i \in 1 .. 0}
  OBVIOUS
<1> QED
  BY <1>1, <1>2 DEF Ledger

LEMMA LedgerInit == HistInit => LedgerInv
<1> SUFFICES ASSUME HistInit, NEW s \in Script
             PROVE  Ledger(did[s].rows) /\ script[s].at # "upsert"
  BY DEF LedgerInv
<1>1. did[s].rows = {} /\ script[s].at = "idle"
  BY DEF HistInit, Init, Idle, Fresh
<1> QED
  BY <1>1, EmptyLedger

LEMMA FairOutcomes ==
  ASSUME NEW i \in 1 .. Len(GateList), NEW row \in Outcomes(GateList[i])
  PROVE  Fair(row)
<1> DEFINE g == GateList[i]
<1>1. /\ g.kind \in {"run", "g1b", "skip"} /\ g.gate # RenderGate
      /\ g.kind = "skip" => ~g.required
  <2>1. g \in Gates
    BY GateAssumption
  <2> QED
    BY <2>1, GateAssumption DEF Gates
<1>3. row.gate # RenderGate
  BY <1>1, OutcomesOf
<1> HIDE DEF g
<1>4. row.status \notin {"pass", "fail"} => ~row.required
  <2>1. CASE g.kind = "run"
    <3>1. Outcomes(g) = {Row(g.gate, g.required, FALSE, st) : st \in {"pass", "fail"}}
      BY <2>1 DEF Outcomes
    <3>2. PICK st \in {"pass", "fail"} : row = Row(g.gate, g.required, FALSE, st)
      BY <3>1 DEF g
    <3>3. row.status = st
      BY <3>2 DEF Row
    <3> QED
      BY <3>3
  <2>2. CASE g.kind = "g1b"
    <3>1. Outcomes(g) = {Row(g.gate, TRUE, FALSE, st) : st \in {"pass", "fail"}}
                          \cup (IF AllowBlocked THEN {Row(g.gate, TRUE, TRUE, "pass")} ELSE {})
      BY <2>2 DEF Outcomes
    <3>2. \/ \E st \in {"pass", "fail"} : row = Row(g.gate, TRUE, FALSE, st)
          \/ row = Row(g.gate, TRUE, TRUE, "pass")
      BY <3>1 DEF g
    <3>3. row.status \in {"pass", "fail"}
      BY <3>2 DEF Row
    <3> QED
      BY <3>3
  <2>3. CASE g.kind = "skip"
    <3>1. Outcomes(g) = {Row(g.gate, g.required, FALSE, st) : st \in {"not_run"}}
      BY <2>3 DEF Outcomes
    <3>2. row = Row(g.gate, g.required, FALSE, "not_run")
      BY <3>1 DEF g
    <3>3. row.required = g.required
      BY <3>2 DEF Row
    <3> QED
      BY <1>1, <2>3, <3>3
  <2> QED
    BY <1>1, <2>1, <2>2, <2>3
<1> QED
  BY <1>3, <1>4 DEF Fair

LEMMA FairRender == ASSUME NEW status \in {"pass", "fail"} PROVE Fair(Row(RenderGate, TRUE, FALSE, status))
BY DEF Fair, Row

(* A row is added for the next gate. *)
LEMMA LedgerGrows ==
  ASSUME NEW st, NEW rows, Attempt(st, rows), st.at = "upsert", Fair(st.row), Ledger(rows)
  PROVE  Ledger(rows \cup {st.row})
<1>1. Recorded(st, rows)
  BY DEF Attempt, Working
<1>2. /\ st.gate \in 1 .. Len(GateList) + 1 /\ st.row.gate = GateAt(st.gate)
      /\ {r.gate : r \in rows} = {GateAt(i) : i \in 1 .. st.gate - 1}
  BY <1>1 DEF Recorded, Done
<1>7. Len(GateList) \in Nat
  BY GateAssumption
<1>3. \A r \in rows : r.gate # st.row.gate
  <2> SUFFICES ASSUME NEW r \in rows, r.gate = st.row.gate PROVE FALSE
    OBVIOUS
  <2>1. PICK i \in 1 .. st.gate - 1 : r.gate = GateAt(i)
    BY <1>2
  <2> QED
    BY <1>2, <2>1, GatesDiffer
<1>4. {r.gate : r \in rows \cup {st.row}} = {GateAt(i) : i \in 1 .. st.gate}
  <2>1. {r.gate : r \in rows \cup {st.row}} = {r.gate : r \in rows} \cup {st.row.gate}
    OBVIOUS
  <2>2. 1 .. st.gate = 1 .. st.gate - 1 \cup {st.gate}
    BY <1>2
  <2>3. {GateAt(i) : i \in 1 .. st.gate} = {GateAt(i) : i \in 1 .. st.gate - 1} \cup {GateAt(st.gate)}
    BY <2>2
  <2> QED
    BY <1>2, <2>1, <2>3
<1>5. \A q, r \in rows \cup {st.row} : q.gate = r.gate => q = r
  BY <1>3 DEF Ledger
<1>6. \E n \in 0 .. Len(GateList) + 1 : {r.gate : r \in rows \cup {st.row}} = {GateAt(i) : i \in 1 .. n}
  <2>1. st.gate \in 0 .. Len(GateList) + 1
    BY <1>2, <1>7
  <2> QED
    BY <1>4, <2>1
<1> QED
  BY <1>5, <1>6 DEF Ledger

(* The rows of every run after a write. *)
LEMMA LedgerWrite ==
  ASSUME AttemptInv, LedgerInv, NEW s \in Script, HistWrite(s)
  PROVE  LedgerInv'
<1>1. Write(s) /\ script[s].at \in Command
  BY DEF HistWrite, Write
<1>2. Ledger(Due(s))
  <2>1. CASE script[s].at = "upsert"
    <3>1. Due(s) = did[s].rows \cup {script[s].row}
      BY <2>1 DEF Due
    <3> QED
      BY <2>1, <3>1, AttemptOf, LedgerGrows DEF LedgerInv
  <2>2. CASE script[s].at # "upsert"
    BY <1>1, <2>2, EmptyLedger DEF LedgerInv, Due, Command
  <2> QED
    BY <2>1, <2>2
<1>3. script'[s].at # "upsert" /\ \A t \in Script \ {s} : script'[t] = script[t]
  BY <1>1, MovesWrite DEF AfterCommand, Command
<1> QED
  BY <1>2, <1>3, HistOfWrite DEF LedgerInv

(* A step that writes nothing, of a script that has no row or a fair one.   *)
LEMMA LedgerKeeps ==
  ASSUME LedgerInv, NEW s \in Script, UNCHANGED did,
         \A t \in Script \ {s} : script'[t] = script[t],
         script'[s].at = "upsert" =>
           Fair(script'[s].row) \/ (script[s].at = "upsert" /\ script'[s].row = script[s].row)
  PROVE  LedgerInv'
BY DEF LedgerInv

LEMMA LedgerGate ==
  ASSUME AttemptInv, LedgerInv, NEW s \in Script, RunGate(s) \/ Render(s), UNCHANGED did
  PROVE  LedgerInv'
<1>1. PICK row : Record(s, row) /\ Fair(row)
  <2>1. CASE RunGate(s)
    <3>1. Len(GateList) \in Nat
      BY GateAssumption
    <3>2. script[s].gate \in 1 .. Len(GateList)
      BY <2>1, <3>1, AttemptOf DEF RunGate, Attempt, Working, Recorded, Done
    <3> QED
      BY <2>1, <3>2, FairOutcomes DEF RunGate
  <2>2. CASE Render(s)
    BY <2>2, FairRender DEF Render
  <2> QED
    BY <2>1, <2>2
<1>2. script'[s].row = row /\ \A t \in Script \ {s} : script'[t] = script[t]
  BY <1>1, MovesRecord
<1> QED
  BY <1>1, <1>2, LedgerKeeps

LEMMA LedgerStep ==
  ASSUME AttemptInv, LedgerInv, [HistNext]_histVars
  PROVE  LedgerInv'
<1>1. CASE UNCHANGED <<script, did>>
  BY <1>1 DEF LedgerInv
<1>2. ASSUME NEW s \in Script, HistWrite(s) PROVE LedgerInv'
  BY <1>2, LedgerWrite
<1>3. ASSUME NEW s \in Script, UNCHANGED did,
             \/ Start(s) \/ Load(s) \/ Save(s) \/ RunGate(s) \/ Render(s)
             \/ Agents(s) \/ Check(s) \/ Finish(s) \/ Kill(s)
      PROVE  LedgerInv'
  <2>1. CASE Start(s)
    BY <1>3, <2>1, MovesStart, LedgerKeeps
  <2>2. CASE Load(s)
    <3>1. CASE report.readable
      BY <1>3, <2>2, <3>1, MovesLoad, LedgerKeeps
    <3>2. CASE ~report.readable
      BY <1>3, <2>2, <3>2, MovesEnd, LedgerKeeps DEF Load
    <3> QED
      BY <3>1, <3>2
  <2>3. CASE Save(s)
    BY <1>3, <2>3, MovesSave, LedgerKeeps
  <2>4. CASE RunGate(s) \/ Render(s)
    BY <1>3, <2>4, LedgerGate
  <2>5. CASE Agents(s)
    BY <1>3, <2>5, MovesAgents, LedgerKeeps
  <2>6. CASE Check(s)
    BY <1>3, <2>6, MovesCheck, LedgerKeeps
  <2>7. CASE Finish(s)
    BY <1>3, <2>7, MovesEnd, LedgerKeeps DEF Finish
  <2>8. CASE Kill(s)
    BY <1>3, <2>8, MovesKill, LedgerKeeps
  <2> QED
    BY <1>3, <2>1, <2>2, <2>3, <2>4, <2>5, <2>6, <2>7, <2>8
<1> QED
  BY <1>1, <1>2, <1>3 DEF HistNext, Repin, histVars, vars

-----------------------------------------------------------------------------
(* The rows of a run are those of its attempt, one per gate.                *)
THEOREM RowsOfOneAttempt ==
  ASSUME OneAtATime
  PROVE  HistSpec => []RowsAreOfOneAttempt
<1>1. HistInit => AttemptInv /\ SerialInv /\ LedgerInv
  BY AttemptInit, SerialInit, LedgerInit
<1>2. AttemptInv /\ SerialInv /\ LedgerInv /\ [HistNext]_histVars
        => (AttemptInv /\ SerialInv /\ LedgerInv)'
  BY AttemptStep, SerialStep, LedgerStep
<1>3. SerialInv /\ LedgerInv => RowsAreOfOneAttempt
  <2> SUFFICES ASSUME SerialInv, LedgerInv, NEW s \in Script
               PROVE  /\ \A q, r \in did[s].rows : q.gate = r.gate => q = r
                      /\ report.readable /\ s \in DOMAIN report.runs
                           => report.runs[s].rows = did[s].rows
    BY DEF RowsAreOfOneAttempt
  <2>1. \A q, r \in did[s].rows : q.gate = r.gate => q = r
    BY DEF LedgerInv, Ledger
  <2>2. report.readable => RowsIn(report.runs, s) = did[s].rows
    BY DEF SerialInv
  <2> QED
    BY <2>1, <2>2 DEF RowsIn
<1> QED
  BY <1>1, <1>2, <1>3, PTL DEF HistSpec

-----------------------------------------------------------------------------
(* A step that writes nothing. *)
Silent(s) ==
  \/ Start(s) \/ Load(s) \/ Save(s) \/ RunGate(s) \/ Render(s)
  \/ Agents(s) \/ Check(s) \/ Finish(s) \/ Kill(s)

(* The script that moves is the one that runs. *)
LEMMA OnlyOne ==
  ASSUME OneAtATime, AttemptInv, SerialInv, NEW s \in Script, Silent(s) \/ Write(s)
  PROVE  /\ Running \subseteq {s} /\ Running' \subseteq {s}
         /\ \A t \in Script \ {s} : script'[t] = script[t]
<1>1. PICK st : Become(s, st)
  BY OneMoves DEF Silent
<1>2. \A t \in Script \ {s} : script'[t] = script[t]
  BY <1>1, Becomes
<1>3. CASE Start(s)
  BY <1>2, <1>3, StartsAlone DEF Running
<1>4. CASE script[s].at \notin Resting
  BY <1>2, <1>4, RunsAlone DEF Running
<1>5. ~Start(s) => script[s].at \notin Resting
  BY DEF Silent, Load, Save, Write, RunGate, Render, Agents, Check, Finish, Kill,
         Resting, Command, Running
<1> QED
  BY <1>2, <1>3, <1>4, <1>5

(* A step is one of a script, or changes nothing but the sources. *)
LEMMA StepOf ==
  ASSUME [HistNext]_histVars
  PROVE  \/ UNCHANGED <<report, md, script, clock, did>>
         \/ \E s \in Script : HistWrite(s) \/ (Silent(s) /\ UNCHANGED did)
BY DEF HistNext, Repin, histVars, vars, Silent

-----------------------------------------------------------------------------
(* What the evidence of the running script is worth.                        *)

(* The runs of the report that the next command will find. *)
Held(s) == IF script[s].phase = "write" THEN script[s].copy.runs ELSE report.runs

Passed(s) == script[s].row.status = "pass"

(* The status file shows the report before the row of its rendering. *)
Shown(s) ==
  /\ script[s].at = "upsert" /\ script[s].gate = Len(GateList) + 1 /\ Passed(s) =>
       md.runs = [k \in DOMAIN Held(s) |-> did[k].rows]
  /\ script[s].at \in Done /\ Passed(s) =>
       md.runs = [k \in DOMAIN report.runs |-> did[k].rows \ (IF k = s THEN {script[s].row} ELSE {})]

Older(runs, s, time) == \A k \in DOMAIN runs \ {s} : runs[k].ts < time

(* The script has saved the row of a gate. *)
Settled(s) ==
  \/ script[s].at \in Working /\ script[s].gate > 1
  \/ script[s].at = "upsert" /\ script[s].phase = "write"

(* A gate takes time, so the run of the script is newer than all others.    *)
Newest(s) ==
  /\ script[s].at = "upsert" => Older(Held(s), s, clock)
  /\ Settled(s) => Older(Held(s), s, Held(s)[s].ts)

(* What the consistency check has found of a strict script without failure. *)
Checked(s) ==
  script[s].at = "exit" /\ Strict /\ script[s].fails = 0 =>
    \A lane \in Lane : \E t \in Script : t.lane = lane /\ Converged(t)

EvidenceInv == \A s \in Running : Shown(s) /\ Newest(s) /\ Checked(s)

-----------------------------------------------------------------------------
Evident(s) == Shown(s) /\ Newest(s) /\ Checked(s)

(* Only the moving script has to be looked at. *)
LEMMA EvidentMove ==
  ASSUME OneAtATime, AttemptInv, SerialInv, NEW s \in Script, Silent(s) \/ Write(s),
         script'[s].at \notin Resting => Shown(s)' /\ Newest(s)' /\ Checked(s)'
  PROVE  EvidenceInv'
<1>1. Running' \subseteq {s}
  BY OnlyOne
<1>2. s \in Running' => script'[s].at \notin Resting
  BY DEF Running
<1> QED
  BY <1>1, <1>2 DEF EvidenceInv

LEMMA EvidentLoad ==
  ASSUME OneAtATime, AttemptInv, SerialInv, EvidenceInv, NEW s \in Script, Load(s), UNCHANGED did
  PROVE  EvidenceInv'
<1>1. Silent(s)
  BY DEF Silent
<1>2. CASE report.readable
  <2>1. /\ script'[s].at = script[s].at /\ script'[s].phase = "save"
        /\ script'[s].gate = script[s].gate /\ script'[s].row = script[s].row
        /\ script'[s].fails = script[s].fails
    BY <1>2, MovesLoad
  <2>2. /\ script[s].at \in Command /\ script[s].phase = "load" /\ s \in Running
        /\ UNCHANGED <<report, md, clock, did>>
    BY RunsAlone DEF Load, Command, Resting
  <2>3. Shown(s) /\ Newest(s)
    BY <2>2 DEF EvidenceInv
  <2>4. Held(s)' = Held(s)
    BY <2>1, <2>2 DEF Held
  <2>5. Shown(s)'
    BY <2>1, <2>2, <2>3, <2>4 DEF Shown, Passed, Command, Done
  <2>6. Newest(s)'
    BY <2>1, <2>2, <2>3, <2>4 DEF Newest, Settled, Older
  <2>7. Checked(s)'
    BY <2>1, <2>2 DEF Checked, Command
  <2> QED
    BY <1>1, <2>5, <2>6, <2>7, EvidentMove
<1>3. CASE ~report.readable
  <2>1. script'[s].at = "ended"
    BY <1>3, MovesEnd DEF Load
  <2> QED
    BY <1>1, <2>1, EvidentMove DEF Resting
<1> QED
  BY <1>2, <1>3

LEMMA EvidentSave ==
  ASSUME OneAtATime, AttemptInv, SerialInv, EvidenceInv, NEW s \in Script, Save(s), UNCHANGED did
  PROVE  EvidenceInv'
<1>1. Silent(s)
  BY DEF Silent
<1>2. /\ script'[s].at = script[s].at /\ script'[s].phase = "write"
      /\ script'[s].gate = script[s].gate /\ script'[s].row = script[s].row
  BY MovesSave
<1>3. /\ script[s].at \in Command /\ script[s].phase = "save" /\ s \in Running /\ Turn(s)
      /\ UNCHANGED <<md, clock, did>> /\ clock \in Nat
  BY RunsAlone DEF Save, Command, Resting, SerialInv
<1>4. Shown(s) /\ Newest(s)
  BY <1>3 DEF EvidenceInv
<1>5. Held(s) = report.runs /\ Held(s)' = script'[s].copy.runs
  BY <1>2, <1>3 DEF Held
<1>6. /\ DOMAIN Held(s)' = DOMAIN Held(s) \cup {s}
      /\ \A k \in DOMAIN Held(s) \ {s} : Held(s)'[k] = Held(s)[k]
      /\ Held(s)'[s].ts = clock
  BY <1>5, Holds
<1>7. script[s].at = "upsert" => s \in DOMAIN Held(s)
  BY <1>3, <1>5 DEF Turn
<1>8. Shown(s)'
  BY <1>2, <1>3, <1>4, <1>6, <1>7 DEF Shown, Passed, Command, Done
<1>9. script[s].at = "upsert" => Older(Held(s)', s, clock)
  BY <1>4, <1>6 DEF Newest, Older
<1>10. Settled(s)' => script[s].at = "upsert"
  BY <1>2, <1>3 DEF Settled, Command, Working
<1>11. Newest(s)'
  BY <1>2, <1>3, <1>6, <1>9, <1>10 DEF Newest
<1>12. Checked(s)'
  BY <1>2, <1>3 DEF Checked, Command
<1> QED
  BY <1>1, <1>8, <1>11, <1>12, EvidentMove

LEMMA EvidentWrite ==
  ASSUME OneAtATime, AttemptInv, SerialInv, EvidenceInv, NEW s \in Script, HistWrite(s)
  PROVE  EvidenceInv'
<1>1. Write(s)
  BY DEF HistWrite
<1>2. /\ script'[s].at = AfterCommand(s) /\ script'[s].phase = "load"
      /\ script'[s].gate = (IF script[s].at = "upsert" THEN script[s].gate + 1 ELSE script[s].gate)
      /\ script'[s].row = script[s].row
  BY <1>1, MovesWrite
<1>3. /\ script[s].at \in Command /\ script[s].phase = "write" /\ s \in Running
      /\ UNCHANGED <<md, clock>> /\ report' = script[s].copy
  BY <1>1, WritesIt, RunsAlone DEF Write, Command, Resting
<1>4. Shown(s) /\ Newest(s)
  BY <1>3 DEF EvidenceInv
<1>5. Held(s) = script[s].copy.runs /\ Held(s)' = Held(s) /\ report'.runs = Held(s)
  BY <1>2, <1>3 DEF Held
<1>6. CASE script[s].at = "upsert"
  <2>1. script[s].gate \in 1 .. Len(GateList) + 1 /\ Len(GateList) \in Nat
    <3>1. Recorded(script[s], did[s].rows)
      BY <1>6, AttemptOf DEF Attempt, Working
    <3>2. Len(GateList) \in Nat
      BY GateAssumption
    <3> QED
      BY <1>6, <3>1, <3>2 DEF Recorded, Done
  <2>2. script'[s].at = IF script[s].gate > Len(GateList) THEN "agents" ELSE "gate"
    BY <1>2, <1>6 DEF AfterCommand
  <2>3. ASSUME script'[s].at \in Done, Passed(s)'
        PROVE  md'.runs = [k \in DOMAIN report'.runs |-> did'[k].rows \ (IF k = s THEN {script'[s].row} ELSE {})]
    <3>1. script[s].gate = Len(GateList) + 1 /\ Passed(s)
      BY <1>2, <2>1, <2>2, <2>3 DEF Done, Passed
    <3>2. md.runs = [k \in DOMAIN Held(s) |-> did[k].rows]
      BY <1>4, <1>6, <3>1 DEF Shown
    <3>3. DOMAIN Held(s) \subseteq Script
      BY <1>3, <1>5, RunsAlone DEF Turn, IsReport, Command, Resting
    <3>4. ASSUME NEW k \in DOMAIN Held(s)
          PROVE  did[k].rows = did'[k].rows \ (IF k = s THEN {script[s].row} ELSE {})
      <4>1. CASE k = s
        <5>1. did'[s].rows = did[s].rows \cup {script[s].row}
          BY <1>6, HistOfWrite DEF Due
        <5>2. script[s].row \notin did[s].rows
          BY <1>6, NewGate
        <5> QED
          BY <4>1, <5>1, <5>2
      <4>2. CASE k # s
        BY <3>3, <4>2, HistOfWrite
      <4> QED
        BY <4>1, <4>2
    <3> QED
      BY <1>2, <1>3, <1>5, <3>2, <3>4
  <2>4. script'[s].at # "upsert" /\ script'[s].at # "exit"
    BY <2>2
  <2>5. Shown(s)'
    BY <2>3, <2>4 DEF Shown
  <2>6. Older(Held(s), s, Held(s)[s].ts)
    BY <1>3, <1>4, <1>6 DEF Newest, Settled
  <2>7. Newest(s)'
    BY <1>5, <2>4, <2>6 DEF Newest
  <2>8. Checked(s)'
    BY <2>4 DEF Checked
  <2> QED
    BY <1>1, <2>5, <2>7, <2>8, EvidentMove
<1>7. CASE script[s].at \in {"capture", "reset"}
  <2>1. script'[s].at \in {"reset", "gate"} /\ script'[s].gate = 1
    BY <1>2, <1>7, AttemptOf DEF AfterCommand, Attempt
  <2>2. Shown(s)' /\ Checked(s)'
    BY <2>1 DEF Shown, Checked, Done
  <2>3. Newest(s)'
    BY <2>1 DEF Newest, Settled
  <2> QED
    BY <1>1, <2>2, <2>3, EvidentMove
<1> QED
  BY <1>3, <1>6, <1>7 DEF Command

(* All runs of the report were written by now. *)
LEMMA NoneLater ==
  ASSUME SerialInv, report.readable, NEW k \in DOMAIN report.runs
  PROVE  report.runs[k].ts \in Nat /\ report.runs[k].ts <= clock /\ clock \in Nat
BY DEF SerialInv, IsReport, IsRun

LEMMA EvidentGate ==
  ASSUME OneAtATime, AttemptInv, SerialInv, EvidenceInv, NEW s \in Script,
         RunGate(s) \/ Render(s), UNCHANGED did
  PROVE  EvidenceInv'
<1>1. Silent(s)
  BY DEF Silent
<1>2. script[s].at = "gate" /\ s \in Running /\ Turn(s) /\ UNCHANGED report
  BY RunsAlone DEF RunGate, Render, Resting
<1>3. script[s].phase = "load" /\ report.readable /\ s \in DOMAIN report.runs
  BY <1>2 DEF Turn, Command
<1>4. Newest(s) /\ Held(s) = report.runs
  BY <1>2, <1>3 DEF EvidenceInv, Held
<1>5. Len(GateList) \in Nat \ {0}
  BY GateAssumption
<1>6. PICK row : Record(s, row)
  BY DEF RunGate, Render
<1>7. /\ script'[s].at = "upsert" /\ script'[s].phase = "load"
      /\ script'[s].gate = script[s].gate /\ script'[s].row = row
  BY <1>3, <1>6, MovesRecord
<1>8. Held(s)' = report.runs
  BY <1>2, <1>7 DEF Held
<1>9. Settled(s)' => Older(report.runs, s, report.runs[s].ts)
  BY <1>2, <1>4, <1>7 DEF Settled, Newest, Working
<1>10. Checked(s)'
  BY <1>7 DEF Checked
<1>11. CASE RunGate(s)
  <2>1. script'[s].gate # Len(GateList) + 1
    BY <1>5, <1>7, <1>11, AttemptOf DEF RunGate
  <2>2. Older(report.runs, s, clock')
    BY <1>3, <1>11, NoneLater DEF RunGate, Older
  <2>3. Shown(s)'
    BY <1>7, <2>1 DEF Shown, Done
  <2>4. Newest(s)'
    BY <1>8, <1>9, <2>2 DEF Newest
  <2> QED
    BY <1>1, <1>10, <2>3, <2>4, EvidentMove
<1>12. CASE Render(s)
  <2>1. script[s].gate = Len(GateList) + 1 /\ clock' \in {clock, clock + 1}
    BY <1>12 DEF Render
  <2>2. Older(report.runs, s, report.runs[s].ts)
    BY <1>2, <1>4, <1>5, <2>1 DEF Newest, Settled, Working
  <2>3. Older(report.runs, s, clock')
    <3>1. report.runs[s].ts <= clock /\ clock \in Nat /\ report.runs[s].ts \in Nat
      BY <1>3, NoneLater
    <3> SUFFICES ASSUME NEW k \in DOMAIN report.runs \ {s} PROVE report.runs[k].ts < clock'
      BY DEF Older
    <3>2. report.runs[k].ts < report.runs[s].ts /\ report.runs[k].ts \in Nat
      BY <1>3, <2>2, NoneLater DEF Older
    <3> QED
      BY <2>1, <3>1, <3>2
  <2>4. Newest(s)'
    BY <1>8, <1>9, <2>3 DEF Newest
  <2>5. ASSUME Passed(s)'
        PROVE  md'.runs = [k \in DOMAIN report.runs |-> did[k].rows]
    <3>1. row.status = "pass"
      BY <1>7, <2>5 DEF Passed
    <3>2. CASE md' = [ts |-> report.ts,
                      runs |-> [k \in DOMAIN report.runs |-> Rendered(report.runs[k].rows)]]
      <4>1. \A k \in DOMAIN report.runs : report.runs[k].rows = did[k].rows
        BY <1>3 DEF SerialInv, IsReport, RowsIn
      <4>2. md'.runs = [k \in DOMAIN report.runs |-> Rendered(report.runs[k].rows)]
        BY <3>2
      <4> QED
        BY <4>1, <4>2 DEF Rendered
    <3>3. CASE Record(s, Row(RenderGate, TRUE, FALSE, "fail"))
      <4>1. script'[s].row = Row(RenderGate, TRUE, FALSE, "fail")
        BY <3>3, MovesRecord
      <4>2. script'[s].row.status = "fail"
        BY <4>1 DEF Row
      <4> QED
        BY <2>5, <4>2 DEF Passed
    <3> QED
      BY <1>12, <3>2, <3>3 DEF Render
  <2>6. Shown(s)'
    BY <1>7, <1>8, <2>5 DEF Shown, Done
  <2> QED
    BY <1>1, <1>10, <2>4, <2>6, EvidentMove
<1> QED
  BY <1>11, <1>12

-----------------------------------------------------------------------------
(* The consistency check.                                                   *)

LEMMA Least ==
  ASSUME NEW T \in SUBSET Nat, T # {}
  PROVE  \E x \in T : \A y \in T : x <= y
<1>1. PICK x \in T : \A y \in T : ~(<<y, x>> \in OpToRel(<, Nat))
  BY NatLessThanWellFounded, WFMin
<1>2. \A y \in T : ~(y < x)
  BY <1>1 DEF OpToRel
<1> QED
  BY <1>2

(* There is a best run among runs that pass. *)
LEMMA BestIs ==
  ASSUME SerialInv, report.readable, NEW lane, PassingRuns(lane) # {}
  PROVE  /\ Best(lane) \in PassingRuns(lane)
         /\ \A l \in PassingRuns(lane) :
              \/ report.runs[Best(lane)].ts > report.runs[l].ts
              \/ report.runs[Best(lane)].ts = report.runs[l].ts /\ Best(lane).id <= l.id
<1> DEFINE P == PassingRuns(lane)
           ts(k) == report.runs[k].ts
<1>1. \A k \in P : ts(k) \in Nat /\ ts(k) <= clock /\ clock \in Nat /\ k.id \in Nat
  <2>1. P \subseteq DOMAIN report.runs
    BY DEF PassingRuns
  <2>2. DOMAIN report.runs \subseteq Script
    BY DEF SerialInv, IsReport
  <2> QED
    BY <2>1, <2>2, NoneLater, GateAssumption
<1> HIDE DEF P, ts
<1>2. PICK m \in P : \A l \in P : ts(l) <= ts(m)
  <2> DEFINE T == {clock - ts(k) : k \in P}
  <2>1. T \in SUBSET Nat /\ T # {}
    BY <1>1 DEF P
  <2>2. PICK x \in T : \A y \in T : x <= y
    BY <2>1, Least
  <2>3. PICK m \in P : x = clock - ts(m)
    BY <2>2
  <2>4. \A l \in P : clock - ts(m) <= clock - ts(l)
    BY <2>2, <2>3
  <2>5. \A l \in P : ts(l) <= ts(m)
    BY <1>1, <2>4
  <2> QED
    BY <2>5
<1>3. PICK b \in P : ts(b) = ts(m) /\ \A l \in P : ts(l) = ts(m) => b.id <= l.id
  <2> DEFINE T == {k.id : k \in {l \in P : ts(l) = ts(m)}}
  <2>1. T \in SUBSET Nat /\ T # {}
    BY <1>1
  <2>2. PICK x \in T : \A y \in T : x <= y
    BY <2>1, Least
  <2>3. PICK b \in {l \in P : ts(l) = ts(m)} : x = b.id
    BY <2>2
  <2>4. \A l \in P : ts(l) = ts(m) => b.id <= l.id
    BY <2>2, <2>3
  <2> QED
    BY <2>3, <2>4
<1>4. \A l \in P : ts(b) > ts(l) \/ (ts(b) = ts(l) /\ b.id <= l.id)
  <2> SUFFICES ASSUME NEW l \in P PROVE ts(b) > ts(l) \/ (ts(b) = ts(l) /\ b.id <= l.id)
    OBVIOUS
  <2>1. ts(b) = ts(m) /\ ts(l) <= ts(m) /\ ts(l) \in Nat /\ ts(b) \in Nat
    BY <1>1, <1>2, <1>3
  <2>2. ts(l) = ts(m) => b.id <= l.id
    BY <1>3
  <2> QED
    BY <2>1, <2>2
<1> QED
  BY <1>4 DEF P, ts, Best

(* A strict script without failure that is told "ok" has converged, and so  *)
(* has a run of the other lane.                                             *)
LEMMA CheckedOk ==
  ASSUME AttemptInv, SerialInv, LedgerInv, EvidenceInv, NEW s \in Script,
         script[s].at = "check", script[s].fails = 0,
         NEW perfOk \in BOOLEAN, Verdict(s, perfOk) = "ok"
  PROVE  \A lane \in Lane : \E t \in Script : t.lane = lane /\ Converged(t)
<1>1. /\ report.readable /\ SameDemands
      /\ \A lane \in Lane : PassingRuns(lane) # {}
  BY DEF Verdict
<1>2. s \in Running /\ Turn(s) /\ Newest(s)
  BY RunsAlone DEF EvidenceInv, Resting
<1>3. script[s].phase = "load" /\ Held(s) = report.runs
  BY <1>2 DEF Turn, Command, Held
<1>4. s \in DOMAIN report.runs /\ report.runs[s].strict = Strict
  BY <1>2, <1>3 DEF Turn
<1>5. \A k \in DOMAIN report.runs : k \in Script /\ report.runs[k].rows = did[k].rows
  BY <1>1 DEF SerialInv, IsReport, RowsIn
<1>6. Recorded(script[s], did[s].rows)
  BY AttemptOf DEF Attempt, Working
<1>7. script[s].gate = Len(GateList) + 2 /\ Len(GateList) \in Nat
  BY <1>6, GateAssumption DEF Recorded, Done
<1>8. GateAt(Len(GateList) + 1) = RenderGate
  BY <1>7 DEF GateAt
<1>9. {r.gate : r \in did[s].rows} = {GateAt(i) : i \in 1 .. Len(GateList) + 1}
  <2>1. script[s].gate - 1 = Len(GateList) + 1
    BY <1>7
  <2> QED
    BY <1>6, <2>1 DEF Recorded
<1>10. \A r \in did[s].rows : r.status # "fail" /\ Fair(r)
  BY <1>6 DEF Recorded, LedgerInv, Ledger
<1>11. {GateAt(i) : i \in 1 .. Len(GateList) + 1} = AllGates
  <2>1. 1 .. Len(GateList) + 1 = 1 .. Len(GateList) \cup {Len(GateList) + 1}
    BY <1>7
  <2>2. {GateAt(i) : i \in 1 .. Len(GateList)} = {GateList[i].gate : i \in 1 .. Len(GateList)}
    BY <1>7 DEF GateAt
  <2> QED
    BY <1>8, <2>1, <2>2 DEF AllGates
<1>12. Converged(s)
  BY <1>9, <1>10, <1>11 DEF Converged, Fair
<1>13. PICK own \in did[s].rows : own.gate = RenderGate
  <2>1. RenderGate \in {r.gate : r \in did[s].rows}
    BY <1>9, <1>11 DEF AllGates
  <2> QED
    BY <2>1
<1>14. own \in Demanded(report.runs[s])
  BY <1>4, <1>5, <1>10, <1>13 DEF Demanded, Fair
<1>15. RenderGate \in Demands(report.runs[s])
  BY <1>13, <1>14 DEF Demands
<1>16. s \in PassingRuns(s.lane)
  <2>1. \A r \in Demanded(report.runs[s]) : r.status = "pass"
    BY <1>4, <1>5, <1>10 DEF Demanded, Fair
  <2>2. Passing(report.runs[s])
    BY <1>4, <1>14, <2>1 DEF Passing
  <2> QED
    BY <1>4, <2>2 DEF PassingRuns
<1>17. Best(s.lane) = s
  <2>1. Older(report.runs, s, report.runs[s].ts)
    BY <1>2, <1>3, <1>7 DEF Newest, Settled, Working
  <2>2. /\ Best(s.lane) \in PassingRuns(s.lane)
        /\ \/ report.runs[Best(s.lane)].ts > report.runs[s].ts
           \/ report.runs[Best(s.lane)].ts = report.runs[s].ts
    BY <1>1, <1>16, BestIs
  <2>3. Best(s.lane) \in DOMAIN report.runs
    BY <2>2 DEF PassingRuns
  <2>4. report.runs[s].ts \in Nat /\ report.runs[Best(s.lane)].ts \in Nat
    BY <1>1, <1>4, <2>3, NoneLater
  <2> QED
    BY <2>1, <2>2, <2>3, <2>4 DEF Older
<1>18. \A lane \in Lane : RenderGate \in Demands(report.runs[Best(lane)])
  BY <1>1, <1>15, <1>17, GateAssumption DEF SameDemands, Lane
<1> SUFFICES ASSUME NEW lane \in Lane PROVE \E t \in Script : t.lane = lane /\ Converged(t)
  OBVIOUS
<1>19. Best(lane) \in PassingRuns(lane)
  BY <1>1, BestIs
<1>20. PICK t \in DOMAIN report.runs : t.lane = lane /\ Passing(report.runs[t]) /\ t = Best(lane)
  BY <1>19 DEF PassingRuns
<1>21. t \in Script /\ report.runs[t].rows = did[t].rows
  BY <1>5
<1>22. PICK n \in 0 .. Len(GateList) + 1 : {r.gate : r \in did[t].rows} = {GateAt(i) : i \in 1 .. n}
  BY <1>21 DEF LedgerInv, Ledger
<1>23. RenderGate \in {r.gate : r \in did[t].rows}
  BY <1>18, <1>20, <1>21 DEF Demands, Demanded
<1>24. PICK i \in 1 .. n : GateAt(i) = GateAt(Len(GateList) + 1)
  BY <1>8, <1>22, <1>23
<1>25. n = Len(GateList) + 1
  <2>1. i \in 1 .. Len(GateList) + 1 /\ Len(GateList) + 1 \in 1 .. Len(GateList) + 1
    BY <1>7, <1>22
  <2>2. i = Len(GateList) + 1
    BY <1>24, <2>1, GatesDiffer
  <2> QED
    BY <1>7, <1>22, <2>2
<1>26. Converged(t)
  <2>1. {r.gate : r \in did[t].rows} = AllGates
    BY <1>11, <1>22, <1>25
  <2>2. \A r \in did[t].rows : r.required /\ ~r.waived => r.status = "pass"
    BY <1>20, <1>21 DEF Passing, Demanded
  <2> QED
    BY <2>1, <2>2 DEF Converged
<1> QED
  BY <1>20, <1>21, <1>26

LEMMA EvidentCheck ==
  ASSUME OneAtATime, AttemptInv, SerialInv, LedgerInv, EvidenceInv, NEW s \in Script, Check(s), UNCHANGED did
  PROVE  EvidenceInv'
<1>1. Silent(s) /\ script[s].at = "check" /\ UNCHANGED <<report, md, clock, did>>
  BY DEF Silent, Check
<1>2. CASE script'[s].at = "ended"
  BY <1>1, <1>2, EvidentMove DEF Resting
<1>3. CASE /\ \E perfOk \in BOOLEAN : Verdict(s, perfOk) = "ok"
           /\ script'[s].at = "exit" /\ script'[s].phase = script[s].phase
           /\ script'[s].gate = script[s].gate /\ script'[s].row = script[s].row
           /\ script'[s].fails = script[s].fails
  <2>1. s \in Running /\ Shown(s) /\ Newest(s)
    BY <1>1, RunsAlone DEF EvidenceInv, Resting
  <2>2. Held(s)' = Held(s)
    <3>1. script[s].phase = "load"
      BY <1>1, RunsAlone DEF Turn, Command, Resting
    <3> QED
      BY <1>1, <1>3, <3>1 DEF Held
  <2>3. Shown(s)'
    BY <1>1, <1>3, <2>1, <2>2 DEF Shown, Passed, Done
  <2>4. Newest(s)'
    BY <1>1, <1>3, <2>1, <2>2 DEF Newest, Settled, Working
  <2>5. Checked(s)'
    <3> SUFFICES ASSUME Strict, script[s].fails = 0
                 PROVE  \A lane \in Lane : \E t \in Script : t.lane = lane /\ Converged(t)'
      BY <1>3 DEF Checked
    <3>1. \A lane \in Lane : \E t \in Script : t.lane = lane /\ Converged(t)
      BY <1>1, <1>3, CheckedOk
    <3>2. \A t \in Script : Converged(t)' = Converged(t)
      BY <1>1 DEF Converged
    <3> QED
      BY <3>1, <3>2
  <2> QED
    BY <1>1, <2>3, <2>4, <2>5, EvidentMove
<1> QED
  BY <1>2, <1>3, MovesCheck

LEMMA EvidentAgents ==
  ASSUME OneAtATime, AttemptInv, SerialInv, EvidenceInv, NEW s \in Script, Agents(s), UNCHANGED did
  PROVE  EvidenceInv'
<1>1. Silent(s) /\ script[s].at = "agents" /\ UNCHANGED <<report, md, clock, did>>
  BY DEF Silent, Agents
<1>2. /\ script'[s].at = (IF Strict THEN "check" ELSE "exit")
      /\ script'[s].phase = script[s].phase
      /\ script'[s].gate = script[s].gate /\ script'[s].row = script[s].row
  BY MovesAgents
<1>3. s \in Running /\ Shown(s) /\ Newest(s)
  BY <1>1, RunsAlone DEF EvidenceInv, Resting
<1>4. Held(s)' = Held(s)
  <2>1. script[s].phase = "load"
    BY <1>1, RunsAlone DEF Turn, Command, Resting
  <2> QED
    BY <1>1, <1>2, <2>1 DEF Held
<1>5. Shown(s)'
  BY <1>1, <1>2, <1>3, <1>4 DEF Shown, Passed, Done
<1>6. Newest(s)'
  BY <1>1, <1>2, <1>3, <1>4 DEF Newest, Settled, Working
<1>7. Checked(s)'
  BY <1>2 DEF Checked
<1> QED
  BY <1>1, <1>5, <1>6, <1>7, EvidentMove

LEMMA EvidenceInit == HistInit => EvidenceInv
<1>1. HistInit => Running = {}
  BY DEF HistInit, Init, Running, Resting, Idle, Fresh
<1> QED
  BY <1>1 DEF EvidenceInv

LEMMA EvidenceStep ==
  ASSUME OneAtATime, AttemptInv, SerialInv, LedgerInv, EvidenceInv, [HistNext]_histVars
  PROVE  EvidenceInv'
<1>1. CASE UNCHANGED <<report, md, script, clock, did>>
  BY <1>1 DEF EvidenceInv, Running, Shown, Passed, Newest, Settled, Held, Older, Checked, Converged
<1>2. ASSUME NEW s \in Script, HistWrite(s) PROVE EvidenceInv'
  BY <1>2, EvidentWrite
<1>3. ASSUME NEW s \in Script, Silent(s), UNCHANGED did PROVE EvidenceInv'
  <2>1. CASE Start(s)
    <3>1. script'[s].at = "capture"
      BY <2>1, MovesStart
    <3>2. Shown(s)' /\ Newest(s)' /\ Checked(s)'
      BY <3>1 DEF Shown, Newest, Settled, Checked, Done, Working
    <3> QED
      BY <1>3, <3>2, EvidentMove
  <2>2. CASE Finish(s)
    <3>1. script'[s].at = "ended"
      BY <2>2, MovesEnd DEF Finish
    <3> QED
      BY <1>3, <3>1, EvidentMove DEF Resting
  <2>3. CASE Kill(s)
    <3>1. script'[s].at = "killed"
      BY <2>3, MovesKill
    <3> QED
      BY <1>3, <3>1, EvidentMove DEF Resting
  <2> QED
    BY <1>3, <2>1, <2>2, <2>3, EvidentLoad, EvidentSave, EvidentGate, EvidentAgents, EvidentCheck
       DEF Silent
<1> QED
  BY <1>1, <1>2, <1>3, StepOf

LEMMA SerialInductive ==
  ASSUME OneAtATime
  PROVE  HistSpec => [](AttemptInv /\ SerialInv /\ LedgerInv /\ EvidenceInv)
<1>1. HistInit => AttemptInv /\ SerialInv /\ LedgerInv /\ EvidenceInv
  BY AttemptInit, SerialInit, LedgerInit, EvidenceInit
<1>2. AttemptInv /\ SerialInv /\ LedgerInv /\ EvidenceInv /\ [HistNext]_histVars
        => (AttemptInv /\ SerialInv /\ LedgerInv /\ EvidenceInv)'
  BY AttemptStep, SerialStep, LedgerStep, EvidenceStep
<1> QED
  BY <1>1, <1>2, PTL DEF HistSpec

(* After its rendering the status file shows the report without the row of  *)
(* the rendering itself.                                                    *)
THEOREM StatusLacksOneRow ==
  ASSUME OneAtATime
  PROVE  HistSpec => []StatusFileLacksOneRow
<1>1. AttemptInv /\ SerialInv /\ LedgerInv /\ EvidenceInv => StatusFileLacksOneRow
  <2> SUFFICES ASSUME SerialInv, EvidenceInv, NEW s \in Script,
                      script[s].at \in {"agents", "check", "exit"}, script[s].row.status = "pass"
               PROVE  /\ DOMAIN md.runs = DOMAIN report.runs
                      /\ \A k \in DOMAIN md.runs :
                           md.runs[k] = report.runs[k].rows \ (IF k = s THEN {script[s].row} ELSE {})
    BY DEF StatusFileLacksOneRow
  <2>1. s \in Running /\ Turn(s)
    BY RunsAlone DEF Resting
  <2>2. report.readable
    BY <2>1 DEF Turn, Command
  <2>3. md.runs = [k \in DOMAIN report.runs |-> did[k].rows \ (IF k = s THEN {script[s].row} ELSE {})]
    BY <2>1 DEF EvidenceInv, Shown, Passed, Done
  <2>4. \A k \in DOMAIN report.runs : report.runs[k].rows = did[k].rows
    BY <2>2 DEF SerialInv, IsReport, RowsIn
  <2> QED
    BY <2>3, <2>4
<1> QED
  BY <1>1, SerialInductive, PTL

(* A release-strict script exits 0 only when its own attempt and one of the *)
(* other lane ran every gate to the end and passed what is required.        *)
THEOREM BothLanesPassed ==
  ASSUME OneAtATime
  PROVE  HistSpec => SuccessMeansBothLanesPassed
<1>1. AttemptInv /\ SerialInv /\ LedgerInv /\ EvidenceInv /\ [HistNext]_histVars =>
        [\A s \in Script :
           script[s].at = "exit" /\ script'[s].at = "ended" /\ script'[s].verdict = "ok" /\ Strict =>
             Converged(s) /\ \A lane \in Lane : \E t \in Script : t.lane = lane /\ Converged(t)]_histVars
  <2> SUFFICES ASSUME AttemptInv, SerialInv, LedgerInv, EvidenceInv, [HistNext]_histVars, NEW s \in Script,
                      script[s].at = "exit", script'[s].at = "ended", script'[s].verdict = "ok", Strict
               PROVE  Converged(s) /\ \A lane \in Lane : \E t \in Script : t.lane = lane /\ Converged(t)
    OBVIOUS
  <2>1. /\ {r.gate : r \in did[s].rows} = AllGates
        /\ \A r \in did[s].rows : r.status # "fail"
    BY SuccessStep
  <2>2. Converged(s)
    BY <2>1 DEF Converged, LedgerInv, Ledger, Fair
  <2>3. script[s].fails = 0
    <3>1. Finish(s)
      BY Finishes
    <3>2. script'[s].verdict = IF script[s].fails = 0 THEN "ok" ELSE "failing_gates"
      BY <3>1, MovesEnd DEF Finish
    <3> QED
      BY <3>2
  <2>4. s \in Running
    BY RunsAlone DEF Resting
  <2> QED
    BY <2>2, <2>3, <2>4 DEF EvidenceInv, Checked
<1> QED
  BY <1>1, SerialInductive, PTL DEF HistSpec, SuccessMeansBothLanesPassed

-----------------------------------------------------------------------------
(* The board that GateReportProps sees in the files.                        *)

NoTornReport == "write" \notin KillPhases

(* Only while a script writes it the report does not parse. *)
WriterInv == report.readable \/ \E s \in Script : script[s].phase = "write"

LEMMA WriterRuns ==
  ASSUME SerialInv, NEW s \in Script, script[s].phase = "write"
  PROVE  /\ s \in Running /\ Turn(s) /\ ~report.readable
         /\ \A t \in Script : script[t].phase = "write" => t = s
BY DEF SerialInv, Turn

LEMMA WriterStep ==
  ASSUME OneAtATime, NoTornReport, AttemptInv, SerialInv, WriterInv, [HistNext]_histVars
  PROVE  WriterInv'
<1>1. CASE UNCHANGED <<report, script>>
  BY <1>1 DEF WriterInv
<1>2. ASSUME NEW s \in Script, HistWrite(s) PROVE WriterInv'
  <2>1. s \in Running /\ script[s].phase = "write" /\ report' = script[s].copy
    BY <1>2, WritesIt, RunsAlone DEF HistWrite, Write, Command, Resting
  <2>2. script[s].copy.readable
    <3>1. IsReport(script[s].copy, clock)
      BY <2>1, WriterRuns DEF Turn
    <3> QED
      BY <3>1 DEF IsReport
  <2> QED
    BY <2>1, <2>2 DEF WriterInv
<1>3. ASSUME NEW s \in Script, Silent(s) PROVE WriterInv'
  <2>1. CASE Save(s)
    BY <2>1, MovesSave DEF WriterInv
  <2>2. CASE ~Save(s)
    <3>1. UNCHANGED report
      BY <1>3, <2>2 DEF Silent, Start, Load, RunGate, Render, Agents, Check, Finish, Kill
    <3>2. ASSUME ~report.readable PROVE FALSE
      <4>1. PICK w \in Script : script[w].phase = "write"
        BY <3>2 DEF WriterInv
      <4>2. w \in Running /\ script[w].at \in Command
        BY <4>1, WriterRuns DEF Turn
      <4>3. w = s
        BY <1>3, <4>2, OnlyOne
      <4> QED
        BY <1>3, <2>2, <4>1, <4>2, <4>3
           DEF Silent, Start, Load, RunGate, Render, Agents, Check, Finish, Kill, NoTornReport, Command
    <3> QED
      BY <3>1, <3>2 DEF WriterInv
  <2> QED
    BY <2>1, <2>2
<1> QED
  BY <1>1, <1>2, <1>3, StepOf

(* The board while the report is on disk, and while it is being written.    *)
OnDisk == report.readable => Visible = [k \in DOMAIN report.runs |-> did[k].rows]

InHand ==
  \A s \in Script : script[s].phase = "write" =>
    Visible = [k \in DOMAIN script[s].copy.runs |-> IF k = s THEN Due(s) ELSE did[k].rows]

LEMMA BoardIs == SerialInv => OnDisk /\ InHand
<1>1. SerialInv => OnDisk
  <2> SUFFICES ASSUME SerialInv, report.readable
               PROVE  Visible = [k \in DOMAIN report.runs |-> did[k].rows]
    BY DEF OnDisk
  <2>1. \A k \in DOMAIN report.runs : report.runs[k].rows = did[k].rows
    BY DEF SerialInv, IsReport, RowsIn
  <2>2. Visible = [k \in DOMAIN report.runs |-> report.runs[k].rows]
    BY DEF Visible
  <2> QED
    BY <2>1, <2>2
<1>2. SerialInv => InHand
  <2> SUFFICES ASSUME SerialInv, NEW s \in Script, script[s].phase = "write"
               PROVE  Visible = [k \in DOMAIN script[s].copy.runs |->
                                   IF k = s THEN Due(s) ELSE did[k].rows]
    BY DEF InHand
  <2> DEFINE writer == CHOOSE t \in Script : script[t].phase = "write"
             runs == script[s].copy.runs
  <2>1. ~report.readable /\ Turn(s)
    BY WriterRuns
  <2>2. writer = s
    BY WriterRuns
  <2> HIDE DEF writer
  <2>3. Visible = [k \in DOMAIN script[writer].copy.runs |-> script[writer].copy.runs[k].rows]
    BY <2>1 DEF Visible, writer
  <2>4. \A k \in DOMAIN runs : runs[k].rows = IF k = s THEN Due(s) ELSE did[k].rows
    BY <2>1 DEF Turn, IsReport, RowsIn
  <2> QED
    BY <2>2, <2>3, <2>4
<1> QED
  BY <1>1, <1>2

LEMMA BoardNext == SerialInv' => OnDisk' /\ InHand'
BY BoardIs, PTL

(* Truncating the report is what changes the board ... *)
LEMMA SaveChanges ==
  ASSUME AttemptInv, SerialInv, SerialInv', NEW s \in Script, Save(s), UNCHANGED did
  PROVE  Board!Open(s) \/ Board!Clear(s) \/ Board!Put(s) \/ UNCHANGED Visible
<1>1. /\ script[s].at \in Command /\ script[s].phase = "save" /\ Turn(s)
      /\ report.readable
  BY RunsAlone DEF Save, Command, Resting, Turn
<1>2. Visible = [k \in DOMAIN report.runs |-> did[k].rows]
  BY <1>1, BoardIs DEF OnDisk
<1>3. /\ script'[s].phase = "write" /\ script'[s].at = script[s].at
      /\ script'[s].row = script[s].row
  BY MovesSave
<1>4. Due(s)' = Due(s)
  BY <1>1, <1>3 DEF Due
<1>5. Visible' = [k \in DOMAIN script'[s].copy.runs |-> IF k = s THEN Due(s)' ELSE did'[k].rows]
  BY <1>3, BoardNext DEF InHand
<1>6. Visible' = [k \in DOMAIN report.runs \cup {s} |-> IF k = s THEN Due(s) ELSE did[k].rows]
  BY <1>4, <1>5, Holds
<1>7. RowsIn(report.runs, s) = did[s].rows
  BY <1>1 DEF SerialInv
<1>8. script[s].at # "capture" => s \in DOMAIN report.runs
  BY <1>1 DEF Turn
<1> DEFINE old == Visible
           new == Visible'
<1>9. CASE script[s].at = "capture"
  <2>1. Due(s) = did[s].rows
    BY <1>9 DEF Due
  <2>2. CASE s \in DOMAIN report.runs
    BY <1>2, <1>6, <2>1, <2>2
  <2>3. CASE s \notin DOMAIN report.runs
    <3>1. did[s].rows = {}
      BY <1>7, <2>3 DEF RowsIn
    <3>2. s \notin DOMAIN Visible
      BY <1>2, <2>3
    <3>3. Visible' = [l \in DOMAIN Visible \cup {s} |-> IF l = s THEN {} ELSE Visible[l]]
      BY <1>2, <1>6, <2>1, <3>1
    <3> QED
      BY <3>2, <3>3 DEF Board!Open
  <2> QED
    BY <2>2, <2>3
<1>10. CASE script[s].at = "reset"
  <2>1. Due(s) = {} /\ s \in DOMAIN report.runs
    BY <1>8, <1>10 DEF Due
  <2>2. s \in DOMAIN Visible /\ Visible' = [Visible EXCEPT ![s] = {}]
    BY <1>2, <1>6, <2>1
  <2> QED
    BY <2>2 DEF Board!Clear
<1>11. CASE script[s].at = "upsert"
  <2>1. Due(s) = did[s].rows \cup {script[s].row} /\ s \in DOMAIN report.runs
    BY <1>8, <1>11 DEF Due
  <2>2. {r \in did[s].rows : r.gate # script[s].row.gate} = did[s].rows
    BY <1>11, NewGate
  <2>3. /\ s \in DOMAIN Visible /\ DOMAIN Visible' = DOMAIN Visible
        /\ \A l \in DOMAIN Visible \ {s} : Visible'[l] = Visible[l]
        /\ Visible[s] = did[s].rows /\ Visible'[s] = did[s].rows \cup {script[s].row}
    BY <1>2, <1>6, <2>1
  <2>4. Visible'[s] = {r \in Visible[s] : r.gate # script[s].row.gate} \cup {script[s].row}
    BY <2>2, <2>3
  <2>5. script[s].row \in Visible'[s]
    BY <2>3
  <2> QED
    BY <2>3, <2>4, <2>5 DEF Board!Put
<1> QED
  BY <1>1, <1>9, <1>10, <1>11 DEF Command

(* ... and writing it does not. *)
LEMMA WriteKeeps ==
  ASSUME AttemptInv, SerialInv, SerialInv', NEW s \in Script, HistWrite(s)
  PROVE  UNCHANGED Visible
<1>1. Write(s) /\ script[s].phase = "write"
  BY DEF HistWrite, Write
<1>2. Visible = [k \in DOMAIN script[s].copy.runs |-> IF k = s THEN Due(s) ELSE did[k].rows]
  BY <1>1, BoardIs DEF InHand
<1>3. report' = script[s].copy
  BY <1>1, WritesIt
<1>4. IsReport(script[s].copy, clock)
  BY <1>1, WriterRuns DEF Turn
<1>5. report'.readable
  BY <1>3, <1>4 DEF IsReport
<1>6. Visible' = [k \in DOMAIN report'.runs |-> did'[k].rows]
  BY <1>5, BoardNext DEF OnDisk
<1>7. \A k \in DOMAIN report'.runs : did'[k].rows = IF k = s THEN Due(s) ELSE did[k].rows
  BY <1>3, <1>4, HistOfWrite DEF IsReport
<1> QED
  BY <1>2, <1>3, <1>6, <1>7

LEMMA BoardStep ==
  ASSUME OneAtATime, NoTornReport, AttemptInv, SerialInv, WriterInv, [HistNext]_histVars
  PROVE  [Board!Next]_Visible
<1>1. SerialInv' /\ WriterInv'
  BY SerialStep, WriterStep
<1>2. CASE UNCHANGED <<report, script>>
  BY <1>2 DEF Visible
<1>3. ASSUME NEW s \in Script, HistWrite(s) PROVE UNCHANGED Visible
  BY <1>1, <1>3, WriteKeeps
<1>4. ASSUME NEW s \in Script, Silent(s), UNCHANGED did PROVE [Board!Next]_Visible
  <2>1. CASE Save(s)
    BY <1>1, <1>4, <2>1, SaveChanges DEF Board!Next
  <2>2. CASE ~Save(s)
    <3>1. UNCHANGED report
      BY <1>4, <2>2 DEF Silent, Start, Load, RunGate, Render, Agents, Check, Finish, Kill
    <3>2. CASE report.readable
      BY <1>1, <1>4, <3>1, <3>2, BoardIs, BoardNext DEF OnDisk
    <3>3. CASE ~report.readable
      <4>1. PICK w \in Script : script[w].phase = "write"
        BY <3>3 DEF WriterInv
      <4>2. w \in Running /\ script[w].at \in Command
        BY <4>1, WriterRuns DEF Turn
      <4>3. w = s
        BY <1>4, <4>2, OnlyOne
      <4> QED
        BY <1>4, <2>2, <4>1, <4>2, <4>3
           DEF Silent, Start, Load, RunGate, Render, Agents, Check, Finish, Kill, NoTornReport, Command
    <3> QED
      BY <3>2, <3>3
  <2> QED
    BY <2>1, <2>2
<1> QED
  BY <1>2, <1>3, <1>4, StepOf

(* The report kept by rewriting the whole file behaves as the board of      *)
(* runs: each command changes one run, at once.                             *)
THEOREM ReportIsBoard ==
  ASSUME OneAtATime, NoTornReport
  PROVE  HistSpec => BoardSpec
<1>1. HistInit => AttemptInv /\ SerialInv /\ WriterInv /\ Board!Init
  <2> SUFFICES ASSUME HistInit PROVE AttemptInv /\ SerialInv /\ WriterInv /\ Board!Init
    OBVIOUS
  <2>1. report = Absent
    BY DEF HistInit, Init
  <2>2. Visible = [k \in {} |-> {}]
    BY <2>1 DEF Absent, Visible
  <2>3. report.readable
    BY <2>1 DEF Absent
  <2> QED
    BY <2>2, <2>3, AttemptInit, SerialInit DEF Board!Init, WriterInv
<1>2. AttemptInv /\ SerialInv /\ WriterInv /\ [HistNext]_histVars
        => (AttemptInv /\ SerialInv /\ WriterInv)' /\ [Board!Next]_Visible
  BY AttemptStep, SerialStep, WriterStep, BoardStep
<1> QED
  BY <1>1, <1>2, PTL DEF HistSpec, BoardSpec, Board!Spec
=============================================================================
