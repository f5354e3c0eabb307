----------------------------- MODULE GateReport -----------------------------
(***************************************************************************)
(* The bring-up gate evidence pipeline.  run_runtime_convergence.sh runs    *)
(* the gates of one lane and records each outcome with a gate_report.py     *)
(* process, which reads the whole report, changes it and writes it back;    *)
(* the last gate renders GATE_STATUS.md from the report, and a              *)
(* release-strict script ends with check_gate_consistency.py.               *)
(*                                                                          *)
(* A write of the report truncates the file first, so every command is      *)
(* three steps.  A script may be killed and started again with the same     *)
(* run id.  Timestamps are whole seconds: clock advances while a gate runs, *)
(* and may advance between the rendering and the row that records it.       *)
(*                                                                          *)
(* Left out: the checks before capture-sha (they change nothing), the age   *)
(* of the report (the check reads what the script has just written), the    *)
(* legacy schema, equal trace schema versions, and the phase markers of     *)
(* PROGRESS.md and libc_status.md, edited by hand.                          *)
(***************************************************************************)
EXTENDS Integers, Sequences, FiniteSets

CONSTANTS
  Script,         \* lane scripts: [lane, id], the key of their run
  GateList,       \* the gates of the script in order: [gate, required, kind]
  RenderGate,     \* the key of the gate "Gate status render"
  Strict,         \* LINX_BRINGUP_PROFILE = release-strict
  AllowBlocked,   \* GLIBC_G1B_ALLOW_BLOCKED
  PerfFloor,      \* RUN_PERF_FLOOR_GATES
  MaxRunning,     \* scripts running at once; the documents run one after the other
  KillPhases,     \* phases of a command in which a script may be killed
  MaxStarts,      \* bound: scripts started
  MaxRepins       \* bound: changes of the sources

Lane == {"pin", "external"}

Gates == [gate : STRING, required : BOOLEAN, kind : {"run", "g1b", "skip"}]

(* Gates skipped by policy are never required: all calls of                 *)
(* record_skipped_gate say so.                                              *)
ASSUME GateAssumption ==
  /\ \A s \in Script : s.lane \in Lane /\ s.id \in Nat
  /\ \A i, j \in 1 .. Len(GateList) : GateList[i].gate = GateList[j].gate => i = j
  /\ GateList \in Seq(Gates) /\ GateList # << >> /\ RenderGate \in STRING
  /\ \A i \in 1 .. Len(GateList) : GateList[i].kind = "skip" => ~GateList[i].required
  /\ \A i \in 1 .. Len(GateList) : GateList[i].gate # RenderGate
  /\ {Strict, AllowBlocked, PerfFloor} \subseteq BOOLEAN
  /\ Strict => ~AllowBlocked
  /\ KillPhases \subseteq {"load", "save", "write"}
  /\ {MaxRunning, MaxStarts, MaxRepins} \subseteq Nat

VARIABLES
  report,         \* latest.json
  md,             \* GATE_STATUS.md: the timestamp and the rows it shows
  script,         \* the state of every script
  clock,          \* seconds
  starts,         \* scripts started so far
  tree            \* the version of the sources, which the SHA manifest names

vars == <<report, md, script, clock, starts, tree>>

Absent == [readable |-> TRUE, ts |-> 0, runs |-> [k \in {} |-> {}]]
Torn   == [readable |-> FALSE]
NoFile == [ts |-> -1, runs |-> [k \in {} |-> {}]]

Fresh == [at |-> "capture", phase |-> "load", gate |-> 1, row |-> {}, fails |-> 0,
          agents |-> FALSE, copy |-> Absent, verdict |-> "none"]

Idle    == [Fresh EXCEPT !.at = "idle"]
Resting == {"idle", "ended", "killed"}
Command == {"capture", "reset", "upsert"}

Running == {s \in Script : script[s].at \notin Resting}

Init ==
  /\ report = Absent /\ md = NoFile
  /\ script = [s \in Script |-> Idle]
  /\ clock = 0 /\ starts = 0 /\ tree = 0

Become(s, state) == script' = [script EXCEPT ![s] = state]

End(s, verdict) == Become(s, [Idle EXCEPT !.at = "ended", !.verdict = verdict])

Start(s) ==
  /\ s \notin Running /\ Cardinality(Running) < MaxRunning /\ starts < MaxStarts
  /\ starts' = starts + 1
  /\ Become(s, Fresh)
  /\ UNCHANGED <<report, md, clock, tree>>

-----------------------------------------------------------------------------
(* gate_report.py                                                           *)

(* _load_report.  A report that does not parse ends the command, and        *)
(* "set -e" the script.                                                     *)
Load(s) ==
  /\ script[s].at \in Command /\ script[s].phase = "load"
  /\ IF report.readable
     THEN Become(s, [script[s] EXCEPT !.copy = report, !.phase = "save"])
     ELSE End(s, "unreadable")
  /\ UNCHANGED <<report, md, clock, starts, tree>>

(* _find_run, and a new run if there is none. *)
FindRun(runs, s) ==
  IF s \in DOMAIN runs THEN runs
  ELSE [k \in DOMAIN runs \cup {s} |->
          IF k = s THEN [ts |-> clock, strict |-> FALSE, sha |-> -1, rows |-> {}] ELSE runs[k]]

Upserted(rows, row) == {r \in rows : r.gate # row.gate} \cup {row}

(* Mutant: reset-run keeps the rows of an earlier attempt. *)
Cleared_Not(rows) == rows

Cleared(rows) == {}

(* Mutant: a command keeps its own run only. *)
Changed_Alone(s, run) == [k \in {s} |-> run]

Changed(s, run) == [FindRun(script[s].copy.runs, s) EXCEPT ![s] = run]

(* What cmd_capture_sha, cmd_reset_run and cmd_upsert_gate make of the run. *)
Edited(s) ==
  LET run == [FindRun(script[s].copy.runs, s)[s] EXCEPT !.ts = clock]
  IN  CASE script[s].at = "capture" -> [run EXCEPT !.strict = Strict, !.sha = tree]
        [] script[s].at = "reset"   -> [run EXCEPT !.rows = Cleared(@)]
        [] script[s].at = "upsert"  -> [run EXCEPT !.rows = Upserted(@, script[s].row)]

(* _save_report truncates the file ... *)
Save(s) ==
  /\ script[s].at \in Command /\ script[s].phase = "save"
  /\ report' = Torn
  /\ Become(s, [script[s] EXCEPT !.phase = "write",
                  !.copy = [readable |-> TRUE, ts |-> clock, runs |-> Changed(s, Edited(s))]])
  /\ UNCHANGED <<md, clock, starts, tree>>

AfterCommand(s) ==
  CASE script[s].at = "capture" -> "reset"
    [] script[s].at = "reset"   -> "gate"
    [] script[s].at = "upsert"  -> IF script[s].gate > Len(GateList) THEN "agents" ELSE "gate"

(* ... and writes it.  If another command wrote since the truncation, the    *)
(* end of its text may stay behind the new one, and the file does not parse. *)
Write(s) ==
  /\ script[s].at \in Command /\ script[s].phase = "write"
  /\ report' \in {script[s].copy} \cup (IF report.readable THEN {Torn} ELSE {})
  /\ Become(s, [script[s] EXCEPT !.at = AfterCommand(s), !.phase = "load", !.copy = Absent,
                  !.gate = IF script[s].at = "upsert" THEN @ + 1 ELSE @])
  /\ UNCHANGED <<md, clock, starts, tree>>

-----------------------------------------------------------------------------
(* run_runtime_convergence.sh                                               *)

Row(gate, required, waived, status) ==
  [gate |-> gate, required |-> required, waived |-> waived, status |-> status]

(* run_gate, run_glibc_g1b_gate and record_skipped_gate. *)
Outcomes(g) ==
  CASE g.kind = "run"  -> {Row(g.gate, g.required, FALSE, st) : st \in {"pass", "fail"}}
    [] g.kind = "g1b"  -> {Row(g.gate, TRUE, FALSE, st) : st \in {"pass", "fail"}}
                            \cup (IF AllowBlocked THEN {Row(g.gate, TRUE, TRUE, "pass")} ELSE {})
    [] g.kind = "skip" -> {Row(g.gate, g.required, FALSE, "not_run")}

(* Mutant: a failing gate is recorded and not counted. *)
Counted_Not(fails, row) == fails

Counted(fails, row) == IF row.status = "fail" THEN fails + 1 ELSE fails

Record(s, row) ==
  Become(s, [script[s] EXCEPT !.at = "upsert", !.row = row, !.fails = Counted(@, row)])

RunGate(s) ==
  /\ script[s].at = "gate" /\ script[s].gate <= Len(GateList)
  /\ \E row \in Outcomes(GateList[script[s].gate]) : Record(s, row)
  /\ clock' = clock + 1
  /\ UNCHANGED <<report, md, starts, tree>>

(* Mutant: rows that are not required are not rendered. *)
Rendered_Required(rows) == {r \in rows : r.required}

Rendered(rows) == rows

(* The last gate is cmd_render itself. *)
Render(s) ==
  /\ script[s].at = "gate" /\ script[s].gate = Len(GateList) + 1
  /\ \/ /\ report.readable
        /\ md' = [ts |-> report.ts,
                  runs |-> [k \in DOMAIN report.runs |-> Rendered(report.runs[k].rows)]]
        /\ Record(s, Row(RenderGate, TRUE, FALSE, "pass"))
     \/ UNCHANGED md /\ Record(s, Row(RenderGate, TRUE, FALSE, "fail"))
  /\ clock' \in {clock, clock + 1}
  /\ UNCHANGED <<report, starts, tree>>

(* check_multi_agent_gates.py in mode runtime passes or counts as a failure. *)
Agents(s) ==
  /\ script[s].at = "agents"
  /\ \E ok \in BOOLEAN :
       Become(s, [script[s] EXCEPT !.agents = ok, !.at = IF Strict THEN "check" ELSE "exit",
                    !.fails = IF ok THEN @ ELSE @ + 1])
  /\ UNCHANGED <<report, md, clock, starts, tree>>

-----------------------------------------------------------------------------
(* check_gate_consistency.py                                                *)

(* Rows that _required_gates_pass looks at. *)
Demanded(run) == {r \in run.rows : r.required /\ ~r.waived}

Demands(run) == {r.gate : r \in Demanded(run)}

Passing(run) ==
  run.strict = Strict /\ Demanded(run) # {} /\ \A r \in Demanded(run) : r.status = "pass"

PassingRuns(lane) ==
  {k \in DOMAIN report.runs : k.lane = lane /\ Passing(report.runs[k])}

(* _best_lane_runs: the newest, and of runs of the same second the first. *)
Best(lane) ==
  CHOOSE k \in PassingRuns(lane) : \A l \in PassingRuns(lane) :
    \/ report.runs[k].ts > report.runs[l].ts
    \/ report.runs[k].ts = report.runs[l].ts /\ k.id <= l.id

(* Mutant: the required gates of the two lanes are not compared. *)
SameDemands_Any == TRUE

SameDemands == Demands(report.runs[Best("pin")]) = Demands(report.runs[Best("external")])

(* The checks in the order of main.  With a performance floor that passes,  *)
(* main goes on to read "artifact" and "label", which only the loop over    *)
(* the maturity artifacts sets; the script passes none of those.            *)
Verdict(s, perfOk) ==
  IF ~report.readable                            THEN "unreadable"
  ELSE IF \E lane \in Lane : PassingRuns(lane) = {} THEN "missing_lane"
  ELSE IF ~SameDemands                           THEN "mismatch"
  ELSE IF md.ts # report.ts                      THEN "stale_render"
  ELSE IF PerfFloor /\ ~perfOk                   THEN "perf_floor"
  ELSE IF PerfFloor                              THEN "unbound_local"
  ELSE IF ~script[s].agents                      THEN "multi_agent"
  ELSE "ok"

Check(s) ==
  /\ script[s].at = "check"
  /\ \E perfOk \in BOOLEAN :
       IF Verdict(s, perfOk) = "ok" THEN Become(s, [script[s] EXCEPT !.at = "exit"])
                                    ELSE End(s, Verdict(s, perfOk))
  /\ UNCHANGED <<report, md, clock, starts, tree>>

(* The script exits 0 unless it counted a failure. *)
Finish(s) ==
  /\ script[s].at = "exit"
  /\ End(s, IF script[s].fails = 0 THEN "ok" ELSE "failing_gates")
  /\ UNCHANGED <<report, md, clock, starts, tree>>

(* The user or the machine kills the script. *)
Kill(s) ==
  /\ s \in Running /\ script[s].phase \in KillPhases
  /\ Become(s, [Idle EXCEPT !.at = "killed"])
  /\ UNCHANGED <<report, md, clock, starts, tree>>

(* Between two scripts the submodules are repinned. *)
Repin ==
  /\ Running = {} /\ tree < MaxRepins
  /\ tree' = tree + 1
  /\ UNCHANGED <<report, md, script, clock, starts>>

Next ==
  \/ Repin
  \/ \E s \in Script :
       \/ Start(s) \/ Load(s) \/ Save(s) \/ Write(s) \/ RunGate(s) \/ Render(s)
       \/ Agents(s) \/ Check(s) \/ Finish(s) \/ Kill(s)

Spec == Init /\ [][Next]_vars
=============================================================================
