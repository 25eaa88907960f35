----------------------------- MODULE PortCheck ------------------------------
(***************************************************************************)
(* CheckHost's comparison of an nmap report with the -p and -o lists,      *)
(* checked against the set-based definition of the spec (section 3 and     *)
(* 4.3) over every report of up to MaxLines lines of a small alphabet.     *)
(***************************************************************************)
EXTENDS Integers, Sequences, SequencesExt, PortLogic

CONSTANTS
    LineSet,      \* the lines a report may contain
    MaxLines,     \* longest report considered
    PortLists,    \* candidate -p lists
    OptLists      \* candidate -o lists

ASSUME PortCheckAssumption ==
    /\ MaxLines \in Nat
    /\ PortLists \subseteq Seq(Int)
    /\ OptLists \subseteq Seq(Int)

VARIABLES report, ports, optPorts, verdict

vars == <<report, ports, optPorts, verdict>>

NoVerdict == [code |-> UNKNOWN, opened |-> <<>>, closed |-> <<>>]

Init ==
    /\ report \in BoundedSeq(LineSet, MaxLines)
    /\ ports \in PortLists
    /\ optPorts \in OptLists
    /\ verdict = NoVerdict

(* CheckHost from readlines() to the exit code (check_nmap.py 271-314). *)
Compare ==
    /\ verdict = NoVerdict
    /\ verdict' = Classify(report, ports, optPorts)
    /\ UNCHANGED <<report, ports, optPorts>>

Next == Compare

Spec == Init /\ [][Next]_vars

-----------------------------------------------------------------------------
(***************************************************************************)
(* The spec's definition.  The open ports are those nmap reports in state  *)
(* "open" (the token "open", not a substring of a service name); optional  *)
(* ports are removed from them; then                                       *)
(*   open-but-unexpected  = observed \ required                            *)
(*   closed-but-required  = required \ observed                            *)
(* and the severity is CRITICAL, WARNING or OK in this priority.  A        *)
(* malformed line is skipped on its own.                                   *)
(***************************************************************************)
SpecOpen(r) == {r[i].port : i \in {j \in DOMAIN r : r[j].kind = "port"
                                                 /\ r[j].state = "open"}}
SpecObserved == SpecOpen(report) \ ToSet(optPorts)
SpecUnexpected == SpecObserved \ ToSet(ports)
SpecMissing == ToSet(ports) \ SpecObserved
SpecCode == IF SpecUnexpected # {} THEN CRITICAL
            ELSE IF SpecMissing # {} THEN WARNING ELSE OK

Classified == verdict # NoVerdict

AgreesWithSpec ==
    /\ verdict.code = SpecCode
    /\ ToSet(verdict.opened) = SpecUnexpected
    /\ ToSet(verdict.closed) = SpecMissing

(***************************************************************************)
(* The reports a TCP scan of nmap writes name each port on one line, and   *)
(* the case the removal loop handles is that every -o port is open.        *)
(***************************************************************************)
DistinctPortLines ==
    \A i, j \in DOMAIN report :
        report[i].kind = "port" /\ report[j].kind = "port"
        /\ report[i].port = report[j].port => i = j
OptionalAllOpen == ToSet(optPorts) \subseteq SpecOpen(report)

(***************************************************************************)
(* For a report naming each port once, when every -o port is open,       *)
(* CheckHost's verdict and the two port lists of its message are those of  *)
(* the spec, whatever the order and mixture of header, empty, closed and   *)
(* filtered lines in the report.                                           *)
(***************************************************************************)
AgreesWhenOptionalOpen ==
    Classified /\ DistinctPortLines /\ OptionalAllOpen => AgreesWithSpec

(***************************************************************************)
(* The spec's claim for every input: an optional port's state is never     *)
(* scored, and the verdict follows the three set differences.              *)
(***************************************************************************)
AlwaysAgreesWithSpec == Classified => AgreesWithSpec
=============================================================================
