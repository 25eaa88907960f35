----------------------------- MODULE PcpMetric -----------------------------
(***************************************************************************)
(* check_pcpmetric (src/contrib/check_pcpmetric.py): run "pmval -s 1" with *)
(* stdout and stderr on one pipe (popen2.Popen4), wait for it, read the    *)
(* pipe to its last line, take the first word of that line as a float and *)
(* compare it with the -w and -c thresholds.                               *)
(*                                                                         *)
(* pmval's output is abstracted to a sequence of lines, each either a      *)
(* value line (first word a number, e.g. "  0.12") or a text line          *)
(* ("metric:    kernel.all.load", "pmval: Cannot connect ...").  The pipe *)
(* holds PipeCap lines: the kernel's pipe buffer, in lines.                *)
(*                                                                         *)
(* The thresholds keep their Python 2 types: WARNING and CRITICAL start as *)
(* the integer 0 and become the *string* getopt returned when -w or -c is  *)
(* given; Python 2 orders every number below every string.                 *)
(***************************************************************************)
EXTENDS Integers, Sequences, SequencesExt

CONSTANTS
    Values,       \* the numbers pmval may print
    ThresholdArgs,\* the numbers a -w or -c argument may spell
    Outputs,      \* the outputs pmval may write
    PipeCap       \* lines the pipe buffer holds

Lines == [num : BOOLEAN, val : Values]
TextLine == [num |-> FALSE, val |-> CHOOSE v \in Values : TRUE]
ValueLine(v) == [num |-> TRUE, val |-> v]

ASSUME PcpAssumption ==
    /\ Values \subseteq Int /\ ThresholdArgs \subseteq Int
    /\ Outputs \subseteq Seq(Lines)
    /\ PipeCap \in Nat \ {0}

(* A threshold: the initial integer 0, or the string of a getopt value. *)
Unset == [str |-> FALSE, num |-> 0]
Arg(n) == [str |-> TRUE, num |-> n]
Thresholds == {Unset} \cup {Arg(n) : n \in ThresholdArgs}

(* Python 2's x < t and x > t for a number x and a threshold t. *)
PyLess(x, t) == IF t.str THEN TRUE ELSE x < t.num
PyGreater(x, t) == IF t.str THEN FALSE ELSE x > t.num

None == [num |-> FALSE, val |-> -1]     \* 'output' never assigned

VARIABLES
    metricGiven,  \* -m given
    warn, crit,   \* WARNING, CRITICAL
    out,          \* what pmval will write
    written,      \* lines pmval has written so far
    child,        \* "running", "exited", "reaped"
    pipe,         \* lines in the pipe, unread
    pc,           \* "start", "wait", "read", "parse", "done"
    output,       \* the last line read
    exitCode

vars == <<metricGiven, warn, crit, out, written, child, pipe, pc, output,
          exitCode>>

Init ==
    /\ metricGiven \in BOOLEAN
    /\ warn \in Thresholds
    /\ crit \in Thresholds
    /\ out \in Outputs
    /\ written = 0
    /\ child = "none"
    /\ pipe = <<>>
    /\ pc = "start"
    /\ output = None
    /\ exitCode = 3

(***************************************************************************)
(* Without -m: usage and exit(3).  Otherwise Popen4 spawns pmval.          *)
(***************************************************************************)
Start ==
    /\ pc = "start"
    /\ \/ /\ ~metricGiven
          /\ pc' = "done"
          /\ exitCode' = 3
          /\ UNCHANGED child
       \/ /\ metricGiven
          /\ pc' = "wait"
          /\ child' = "running"
          /\ UNCHANGED exitCode
    /\ UNCHANGED <<metricGiven, warn, crit, out, written, pipe, output>>

(* pmval writes its next line; write() blocks while the pipe is full. *)
ChildWrite ==
    /\ child = "running"
    /\ written < Len(out)
    /\ Len(pipe) < PipeCap
    /\ pipe' = Append(pipe, out[written + 1])
    /\ written' = written + 1
    /\ UNCHANGED <<metricGiven, warn, crit, out, child, pc, output, exitCode>>

(* pmval exits once all of its output is written. *)
ChildExit ==
    /\ child = "running"
    /\ written = Len(out)
    /\ child' = "exited"
    /\ UNCHANGED <<metricGiven, warn, crit, out, written, pipe, pc, output,
                   exitCode>>

(* exitcode = p.wait(): blocks until pmval has exited, reading nothing. *)
Wait ==
    /\ pc = "wait"
    /\ child = "exited"
    /\ child' = "reaped"
    /\ pc' = "read"
    /\ UNCHANGED <<metricGiven, warn, crit, out, written, pipe, output,
                   exitCode>>

ReadLineNoEOF ==   \* mutant: the loop tests buffer != None, never ends
    /\ pc = "read"
    /\ pipe # <<>>
    /\ output' = Head(pipe)
    /\ pipe' = Tail(pipe)
    /\ UNCHANGED <<metricGiven, warn, crit, out, written, child, pc, exitCode>>

ReadLineKeepFirst ==   \* mutant: 'output' set only by the first readline
    /\ pc = "read"
    /\ \/ /\ pipe # <<>>
          /\ output' = IF output = None THEN Head(pipe) ELSE output
          /\ pipe' = Tail(pipe)
          /\ UNCHANGED pc
       \/ /\ pipe = <<>>
          /\ pc' = "parse"
          /\ UNCHANGED <<output, pipe>>
    /\ UNCHANGED <<metricGiven, warn, crit, out, written, child, exitCode>>

(***************************************************************************)
(* The readline loop: each line read becomes 'output'; readline returns '' *)
(* at end of file, which ends the loop.                                    *)
(***************************************************************************)
ReadLine ==
    /\ pc = "read"
    /\ \/ /\ pipe # <<>>
          /\ output' = Head(pipe)
          /\ pipe' = Tail(pipe)
          /\ UNCHANGED pc
       \/ /\ pipe = <<>>
          /\ pc' = "parse"
          /\ UNCHANGED <<output, pipe>>
    /\ UNCHANGED <<metricGiven, warn, crit, out, written, child, exitCode>>

(***************************************************************************)
(* The verdict of lines 96-103 for the value v.                            *)
(***************************************************************************)
Severity(v) ==
    IF PyLess(v, warn) THEN 0
    ELSE IF PyGreater(v, crit) THEN 2
    ELSE IF PyGreater(v, warn) THEN 1
    ELSE 3

(***************************************************************************)
(* string.split(output)[0] and string.atof: no output at all leaves        *)
(* 'output' unbound (NameError, traceback, exit status 1); a text line     *)
(* makes atof raise ValueError (printed, exit(3)); a value is compared     *)
(* with the thresholds.                                                    *)
(***************************************************************************)
Parse ==
    /\ pc = "parse"
    /\ pc' = "done"
    /\ \/ output = None /\ exitCode' = 1
       \/ output # None /\ ~output.num /\ exitCode' = 3
       \/ output.num /\ exitCode' = Severity(output.val)
    /\ UNCHANGED <<metricGiven, warn, crit, out, written, child, pipe, output>>

Next == Start \/ ChildWrite \/ ChildExit \/ Wait \/ ReadLine \/ Parse

(***************************************************************************)
(* The plugin and pmval are running processes: each step is weakly fair.  *)
(***************************************************************************)
Fairness == WF_vars(Next)

Spec == Init /\ [][Next]_vars /\ Fairness

-----------------------------------------------------------------------------
(***************************************************************************)
(* The plugin exits: the wait for pmval returns and the read loop ends.    *)
(***************************************************************************)
PcpTermination == <>(pc = "done")

(***************************************************************************)
(* The help text: "-w warn: Issue warning alert if value is larger than    *)
(* this", "-c critical: Issue critical alert value is larger than this".   *)
(* A sample that was read is CRITICAL above -c, else WARNING above -w,     *)
(* else OK; a threshold not given never alerts.                            *)
(***************************************************************************)
HelpSeverity(v) ==
    IF crit.str /\ v > crit.num THEN 2
    ELSE IF warn.str /\ v > warn.num THEN 1
    ELSE 0

(***************************************************************************)
(* "Get the last line of output from 'pmval'": when the plugin parses, it  *)
(* holds the last line pmval wrote, read after pmval has exited.           *)
(***************************************************************************)
ReadsLastLine ==
    pc = "parse" => output = IF out = <<>> THEN None ELSE Last(out)

(***************************************************************************)
(* The threshold chain of lines 96-103 gives the exit code the help text   *)
(* promises for every value it parsed.                                     *)
(***************************************************************************)
ThresholdsAsDocumented ==
    pc = "done" /\ output.num => exitCode = HelpSeverity(output.val)
(***************************************************************************)
(* What the pipe and the readline loop keep between them: the plugin has   *)
(* read the first Consumed lines pmval wrote, the pipe holds the rest of   *)
(* what pmval wrote, in order, and 'output' is the last line read.  pmval  *)
(* has written everything once it exits; the loop runs only after          *)
(* p.wait() reaped pmval, and parsing starts only on an empty pipe at EOF. *)
(* This is the inductive invariant behind ReadsLastLine.                   *)
(***************************************************************************)
Consumed == written - Len(pipe)

StreamInv ==
    /\ out \in Seq(Lines)
    /\ written \in 0..Len(out)
    /\ pipe \in Seq(Lines) /\ Len(pipe) <= written
    /\ pipe = SubSeq(out, Consumed + 1, written)
    /\ output = IF Consumed = 0 THEN None ELSE out[Consumed]
    /\ child \in {"exited", "reaped"} => written = Len(out)
    /\ pc \in {"read", "parse"} => child = "reaped"
    /\ pc = "parse" => pipe = <<>>
=============================================================================
