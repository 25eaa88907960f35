--------------------------- MODULE NmapRefinement ---------------------------
(***************************************************************************)
(* NmapTask implements NmapPlugin: the polling loop, the clock, the child  *)
(* and its signals are hidden, and each step of CheckNmap is a step of the *)
(* abstract run or leaves it unchanged.                                    *)
(***************************************************************************)
EXTENDS NmapTask

(* The phase of CheckNmap's pc. *)
PhaseOf(p) ==
    IF p = "start" THEN "configured"
    ELSE IF p \in {"run", "wait", "idle", "sleep", "afterwait"} THEN "scanning"
    ELSE IF p = "read" THEN "parsing"
    ELSE IF p = "cleanup" THEN "classified"
    ELSE "done"

(* The report counts once CheckHost reads it. *)
ReadReport ==
    IF pc = "read" \/ (pc \in {"cleanup", "done"} /\ exitMsg \in {"ports", "nooutput"})
    THEN report ELSE <<>>

Abstract == INSTANCE NmapPlugin WITH
    Verdict <- LAMBDA r : Classify(r, Ports, OptPorts).code,
    phase <- PhaseOf(pc), expired <- aborted, aReport <- ReadReport,
    code <- exitCode, message <- exitMsg

(***************************************************************************)
(* CheckNmap keeps the promises of spec section 4, and every run ends.     *)
(***************************************************************************)
Refines == Abstract!ASpec
=============================================================================
