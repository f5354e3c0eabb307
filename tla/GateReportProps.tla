--------------------------- MODULE GateReportProps ---------------------------
(***************************************************************************)
(* What the gate report must tell.  A history variable records which rows   *)
(* the current attempt of every script has recorded.                        *)
(***************************************************************************)
EXTENDS GateReport

VARIABLE did      \* rows recorded since the last reset of a run, and the sources used

histVars == <<vars, did>>

HistInit == Init /\ did = [s \in Script |-> [rows |-> {}, sha |-> -1]]

HistWrite(s) ==
  /\ Write(s)
  /\ did' = CASE script[s].at = "capture" -> did
              [] script[s].at = "reset"   -> [did EXCEPT ![s] = [rows |-> {}, sha |-> tree]]
              [] script[s].at = "upsert"  -> [did EXCEPT ![s].rows = @ \cup {script[s].row}]

HistNext ==
  \/ \E s \in Script :
       \/ HistWrite(s)
       \/ /\ \/ Start(s) \/ Load(s) \/ Save(s) \/ RunGate(s) \/ Render(s)
             \/ Agents(s) \/ Check(s) \/ Finish(s) \/ Kill(s)
          /\ UNCHANGED did
  \/ Repin /\ UNCHANGED did

HistSpec == HistInit /\ [][HistNext]_histVars

-----------------------------------------------------------------------------
(* The rows of a run are those recorded since its last reset, one per gate: *)
(* rows of an attempt that was killed never mix with those of the next, and *)
(* what the other lane records in between does not disturb them.            *)
RowsAreOfOneAttempt ==
  \A s \in Script :
    /\ \A q, r \in did[s].rows : q.gate = r.gate => q = r
    /\ report.readable /\ s \in DOMAIN report.runs => report.runs[s].rows = did[s].rows

AllGates == {GateList[i].gate : i \in 1 .. Len(GateList)} \cup {RenderGate}

(* A complete attempt in which every gate that counts passed. *)
Converged(s) ==
  /\ {r.gate : r \in did[s].rows} = AllGates
  /\ \A r \in did[s].rows : r.required /\ ~r.waived => r.status = "pass"

(* A release-strict script exits 0 only when its own attempt and one of the *)
(* other lane ran every gate to the end and passed what is required: the    *)
(* rows of an attempt that was killed half way do not count as a lane.      *)
SuccessMeansBothLanesPassed ==
  [][\A s \in Script :
       script[s].at = "exit" /\ script'[s].at = "ended" /\ script'[s].verdict = "ok" /\ Strict =>
         Converged(s) /\ \A lane \in Lane : \E t \in Script : t.lane = lane /\ Converged(t)]_histVars

(* A script of any profile exits 0 only if it recorded every gate and none  *)
(* of them failed, also when scripts of both lanes overwrite each other's   *)
(* rows or one of them is killed in the middle of a write.                  *)
SuccessMeansOwnGatesPassed ==
  [][\A s \in Script :
       script[s].at = "exit" /\ script'[s].at = "ended" /\ script'[s].verdict = "ok" =>
         /\ {r.gate : r \in did[s].rows} = AllGates
         /\ \A r \in did[s].rows : r.status # "fail"]_histVars

(* While a script that has rendered the status file goes through its last   *)
(* check and its exit, the file shows every row of the report but the one   *)
(* of the rendering.                                                        *)
StatusFileLacksOneRow ==
  \A s \in Script :
    script[s].at \in {"agents", "check", "exit"} /\ script[s].row.status = "pass" =>
      /\ DOMAIN md.runs = DOMAIN report.runs
      /\ \A k \in DOMAIN md.runs :
           md.runs[k] = report.runs[k].rows \ (IF k = s THEN {script[s].row} ELSE {})

-----------------------------------------------------------------------------
(* The report that the next command will find.  While the file is being     *)
(* written, it is what the writer holds.                                    *)
Visible ==
  LET writer == CHOOSE s \in Script : script[s].phase = "write"
      runs   == IF report.readable THEN report.runs ELSE script[writer].copy.runs
  IN  [k \in DOMAIN runs |-> runs[k].rows]

Board == INSTANCE GateBoard WITH Run <- Script, board <- Visible

(* The report kept by whole-file rewriting behaves as the board of runs: a  *)
(* command changes one run and that at once, through kills and restarts,    *)
(* if no script is killed between truncating the file and writing it.       *)
BoardSpec == Board!Spec
=============================================================================
