----------------------------- MODULE PortLogic -----------------------------
(***************************************************************************)
(* The pure part of check_nmap's CheckNmap.CheckHost (src/contrib/         *)
(* check_nmap.py): scraping the nmap report for open ports, filtering out  *)
(* the optional ports, and comparing what is left with the required ports. *)
(*                                                                         *)
(* A line of the nmap report is abstracted to what the scraper tells       *)
(* apart: its kind, the number before the '/', nmap's state column and     *)
(* whether the service name contains the substring "open".                 *)
(*   "short"   a line shorter than 2 characters (the empty line "\n")      *)
(*   "noword"  a line of two or more blanks: string.split(l)[0] raises     *)
(*   "header"  first word without '/' at index >= 1 ("Nmap scan report...")*)
(*   "port"    "22/tcp open ssh": first word is <number>/<proto>           *)
(*   "badport" first word is <not a number>/<...>                          *)
(***************************************************************************)
EXTENDS Integers, Sequences, SequencesExt

LineKinds  == {"short", "noword", "header", "port", "badport"}
PortStates == {"open", "closed", "filtered"}
Services   == {"plain", "openish"}   \* "openish": e.g. "openvpn", "openwebnet"

Line(kind, port, state, svc) ==
    [kind |-> kind, port |-> port, state |-> state, svc |-> svc]

(***************************************************************************)
(* string.find(l,'open') > 1: the substring "open" occurs past column 1,   *)
(* in the state column or inside the service name.                         *)
(***************************************************************************)
HasOpen(l) == l.state = "open" \/ l.svc = "openish"

(***************************************************************************)
(* One iteration of the scraping loop.  r.ports is self.active_ports, and  *)
(* r.stop records that an exception left the for loop: the try encloses    *)
(* the whole loop, so every later line is ignored.                         *)
(***************************************************************************)
ScrapeLineAnyState(r, l) ==   \* mutant: the parse before 1.21, no 'open' test
    IF r.stop THEN r
    ELSE CASE l.kind \in {"short", "header"}  -> r
           [] l.kind \in {"noword", "badport"} -> [r EXCEPT !.stop = TRUE]
           [] OTHER -> [r EXCEPT !.ports = Append(r.ports, l.port)]

ScrapeLine(r, l) ==
    IF r.stop THEN r
    ELSE CASE l.kind = "short"                  -> r
           [] l.kind = "noword"                 -> [r EXCEPT !.stop = TRUE]
           [] l.kind = "header"                 -> r
           [] ~HasOpen(l)                       -> r
           [] l.kind = "badport"                -> [r EXCEPT !.stop = TRUE]
           [] OTHER -> [r EXCEPT !.ports = Append(r.ports, l.port)]

ScrapeStart == [ports |-> <<>>, stop |-> FALSE]

(* self.active_ports after the scraping loop (check_nmap.py 271-284). *)
ActivePorts(report) == FoldLeft(ScrapeLine, ScrapeStart, report).ports

(***************************************************************************)
(* One iteration of "for p in self.opt_ports: self.active_ports.remove(p)".*)
(* list.remove drops the first occurrence and raises ValueError when p is  *)
(* absent; the try encloses the loop, so the remaining optional ports are  *)
(* not removed.                                                            *)
(***************************************************************************)
RemoveOptional(r, p) ==
    IF r.stop THEN r
    ELSE IF Contains(r.ports, p)
         THEN [r EXCEPT !.ports = RemoveFirst(r.ports, p)]
         ELSE [r EXCEPT !.stop = TRUE]

FilterOptional(active, optPorts) ==
    FoldLeft(RemoveOptional, [ports |-> active, stop |-> FALSE], optPorts).ports

(* CheckOpen: the open ports, in report order, that are not required. *)
CheckOpen(active, ports) == SelectSeq(active, LAMBDA p : ~Contains(ports, p))

(* CheckClosed: the required ports, in argument order, not found open. *)
CheckClosed(active, ports) == SelectSeq(ports, LAMBDA p : ~Contains(active, p))

(* Exit codes of CheckNmap. *)
UNKNOWN  == -1
OK       == 0
WARNING  == 1
CRITICAL == 2

(***************************************************************************)
(* The verdict of CheckHost for a report that was read: its exit code and  *)
(* the two port lists of its message (check_nmap.py 303-314).              *)
(***************************************************************************)
Classify(report, ports, optPorts) ==
    LET active == FilterOptional(ActivePorts(report), optPorts)
        opened == CheckOpen(active, ports)
        closed == CheckClosed(active, ports)
    IN  [code   |-> IF opened # <<>> THEN CRITICAL
                    ELSE IF closed # <<>> THEN WARNING ELSE OK,
         opened |-> opened,
         closed |-> closed]
=============================================================================
