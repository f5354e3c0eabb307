-------------------------- MODULE GateReportClaims --------------------------
(***************************************************************************)
(* What documents and messages of the repository say of the gate evidence,  *)
(* and the code does not do.  README, section 8, has the configuration that *)
(* shows each of them violated.                                             *)
(***************************************************************************)
EXTENDS GateReportProps

(* "Generated markdown must match the canonical JSON timestamp"             *)
(* (docs/project/superproject-bringup-methodology.md:146): no script is     *)
(* told by the consistency check that the status file it has just rendered  *)
(* is not current.  The code renders before it records the rendering.       *)
RenderedIsCurrent == \A s \in Script : script[s].verdict # "stale_render"

(* The consistency check of a passing performance floor ends with a verdict *)
(* (check_gate_consistency.py:162).  The code reads an unassigned variable. *)
CheckEndsWithVerdict == \A s \in Script : script[s].verdict # "unbound_local"

(* "SHA manifests must identify the exact versions under test"              *)
(* (docs/project/superproject-bringup-methodology.md:145): between scripts, *)
(* the manifest of a run names the sources on which its rows were obtained. *)
(* The code captures the manifest and clears the rows with two commands.    *)
ManifestNamesVersion ==
  Running = {} => \A s \in DOMAIN report.runs :
    report.runs[s].rows # {} => report.runs[s].sha = did[s].sha
=============================================================================
