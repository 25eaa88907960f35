----------------------------- MODULE NmapPlugin -----------------------------
(***************************************************************************)
(* What the port checker promises (spec section 4): one run goes           *)
(*   Configured -> Scanning -> ParsingOutput -> Classified -> Done         *)
(* with early exits on a missing host, a timeout and a failed scan.  The   *)
(* abstract run knows no clock, no child process and no polling: only     *)
(* that the deadline may pass while the scan runs (and then the run is a   *)
(* timeout, whatever the scan does), and how the scan ended.               *)
(***************************************************************************)
EXTENDS Integers, Sequences, PortLogic

CONSTANTS
    Reports,      \* the reports a scan that exits 0 may leave
    Verdict(_)    \* the exit code the port check gives a report

VARIABLES
    hostGiven,    \* the configuration names a host
    phase,        \* "configured", "scanning", "parsing", "classified", "done"
    expired,      \* the deadline has passed during the scan
    aReport,      \* the scanner's report, once it exited 0
    code, message \* the outcome

avars == <<hostGiven, phase, expired, aReport, code, message>>

AInit ==
    /\ hostGiven \in BOOLEAN
    /\ phase = "configured"
    /\ expired = FALSE
    /\ aReport = <<>>
    /\ code = IF hostGiven THEN OK ELSE UNKNOWN
    /\ message = IF hostGiven THEN "none" ELSE "badparams"

(* BadConfig: no host, nothing spawned. *)
BadConfig ==
    /\ phase = "configured" /\ ~hostGiven
    /\ phase' = "classified"
    /\ UNCHANGED <<hostGiven, expired, aReport, code, message>>

StartScan ==
    /\ phase = "configured" /\ hostGiven
    /\ phase' = "scanning"
    /\ UNCHANGED <<hostGiven, expired, aReport, code, message>>

Expire ==
    /\ phase = "scanning" /\ ~expired
    /\ expired' = TRUE
    /\ UNCHANGED <<hostGiven, phase, aReport, code, message>>

(* The scan ends: a timeout if the deadline passed, else by exit status. *)
ScanEnds ==
    /\ phase = "scanning"
    /\ \/ /\ expired
          /\ phase' = "classified" /\ code' = CRITICAL /\ message' = "timeout"
          /\ UNCHANGED aReport
       \/ /\ ~expired
          /\ phase' = "classified" /\ code' = UNKNOWN /\ message' = "nmapfail"
          /\ UNCHANGED aReport
       \/ /\ ~expired
          /\ phase' = "parsing"
          /\ aReport' \in Reports
          /\ UNCHANGED <<code, message>>
    /\ UNCHANGED <<hostGiven, expired>>

(* The report is classified, or the output cannot be read. *)
ParseOutput ==
    /\ phase = "parsing"
    /\ phase' = "classified"
    /\ \/ code' = Verdict(aReport) /\ message' = "ports"
       \/ code' = UNKNOWN /\ message' = "nooutput"
    /\ UNCHANGED <<hostGiven, expired, aReport>>

(* The temporary file is released and the outcome reported. *)
Report ==
    /\ phase = "classified"
    /\ phase' = "done"
    /\ UNCHANGED <<hostGiven, expired, aReport, code, message>>

ANext == BadConfig \/ StartScan \/ Expire \/ ScanEnds \/ ParseOutput \/ Report

(* The steps of the port checker, and no others. *)
ASafe == AInit /\ [][ANext]_avars

(* Every run reaches Done. *)
ASpec == AInit /\ [][ANext]_avars /\ WF_avars(ANext)
=============================================================================
