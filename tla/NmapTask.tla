------------------------------ MODULE NmapTask ------------------------------
(***************************************************************************)
(* One invocation of check_nmap: CheckNmap.Run/CheckHost/CleanUp           *)
(* (src/contrib/check_nmap.py) driving a utils.Task (the forked nmap child)*)
(* and a utils.TimeoutHandler (src/contrib/utils.py).                      *)
(*                                                                         *)
(* Two processes run concurrently: the plugin (pc), single-threaded, and   *)
(* the forked child (child).  The plugin blocks in Task.Wait, a loop of    *)
(* waitpid(WNOHANG), the idle function TimeoutHandler.Check, and           *)
(* time.sleep(1).  The child opens the temporary file as its stdout, execs *)
(* nmap, and exits on its own or on a signal sent by Task.Kill.  The clock *)
(* advances by the one-second sleeps of the loop.                          *)
(***************************************************************************)
EXTENDS Integers, Sequences, PortLogic

CONSTANTS
    TTLs,           \* values of self.timeout that reach int(time_to_live)
    NonInt,         \* a -t argument that int() rejects, e.g. "2.5" or ""
    Reports,        \* nmap reports a completed scan may write
    Ports,          \* self.ports, the -p list
    OptPorts,       \* self.opt_ports, the -o list
    MaxInterrupts,  \* bound on KeyboardInterrupts delivered to the plugin
    ClockCap,       \* the clock saturates here (see Sleep)
    MaxKills        \* the count of kill_func calls saturates here

ASSUME TTLAssumption == TTLs \subseteq (Int \cup {NonInt}) /\ NonInt \notin Int
ASSUME PortsAssumption == Ports \in Seq(Int) /\ OptPorts \in Seq(Int)
ASSUME BoundsAssumption ==
    /\ MaxInterrupts \in Nat
    /\ ClockCap \in Nat
    /\ MaxKills \in Nat \ {0}
    /\ \A t \in TTLs \ {NonInt} : t <= ClockCap

(* Raw waitpid statuses: exit(0), exit(1) (= 1 * 256), SIGINT, SIGTERM. *)
SIGINT  == 2
SIGTERM == 15
Statuses == {0, 256, SIGINT, SIGTERM}
NoStatus == -1                  \* Task.status is None

ParentPCs == {"start", "run", "wait", "idle", "sleep", "afterwait", "read",
              "cleanup", "done", "crashed"}
ChildStates == {"none", "setup", "scanning", "exited", "reaped"}
Alive == {"setup", "scanning"}
Msgs == {"none", "badparams", "timeout", "nmapfail", "nooutput", "ports",
         "traceback"}

VARIABLES
    hostGiven,    \* ParseCmdLine found a host (self.host <> '')
    ttl,          \* self.timeout as passed to TimeoutHandler
    pc,           \* where the plugin is
    now,          \* time.time(), in seconds since the handler was made
    stopTime,     \* TimeoutHandler.stop_time
    aborted,      \* TimeoutHandler.aborted
    kills,        \* how often TimeOut has called kill_func (saturating)
    interrupts,   \* KeyboardInterrupts delivered so far
    child,        \* the forked child process
    pending,      \* signals delivered to the child and not yet acted on
    childStatus,  \* the wait status the child exits with
    status,       \* Task.status: NoStatus until waitpid reaps the child
    file,         \* whether self.tmp_file exists on disk
    report,       \* what the child wrote to its stdout (the temp file)
    collided,     \* the file was removed by another invocation
    exitCode,     \* self.exit_code
    exitMsg       \* self.exit_msg, abstracted to its kind

vars == <<hostGiven, ttl, pc, now, stopTime, aborted, kills, interrupts,
          child, pending, childStatus, status, file, report, collided,
          exitCode, exitMsg>>

(***************************************************************************)
(* The type invariant.  Among its sets: the child is only ever sent the   *)
(* SIGTERM of Task.Kill's default and the SIGINT forwarded on Ctrl-C, and  *)
(* the raw waitpid statuses are those the plugin's branches were written  *)
(* for.                                                                    *)
(***************************************************************************)
TypeOK ==
    /\ hostGiven \in BOOLEAN
    /\ ttl \in TTLs
    /\ pc \in ParentPCs
    /\ now \in 0..ClockCap
    /\ stopTime \in Int
    /\ aborted \in BOOLEAN
    /\ kills \in 0..MaxKills
    /\ interrupts \in 0..MaxInterrupts
    /\ child \in ChildStates
    /\ pending \subseteq {SIGINT, SIGTERM}
    /\ childStatus \in Statuses \cup {NoStatus}
    /\ status \in Statuses \cup {NoStatus}
    /\ file \in {"absent", "present"}
    /\ report \in Reports \cup {<<>>}
    /\ collided \in BOOLEAN
    /\ exitCode \in {UNKNOWN, OK, WARNING, CRITICAL, 1}
    /\ exitMsg \in Msgs

(***************************************************************************)
(* CheckNmap.__init__ and ParseCmdLine: a missing host sets exit_code to   *)
(* UNKNOWN; the -t value is kept as given.                                 *)
(***************************************************************************)
Init ==
    /\ hostGiven \in BOOLEAN
    /\ ttl \in TTLs
    /\ pc = "start"
    /\ now = 0
    /\ stopTime = 0
    /\ aborted = FALSE
    /\ kills = 0
    /\ interrupts = 0
    /\ child = "none"
    /\ pending = {}
    /\ childStatus = NoStatus
    /\ status = NoStatus
    /\ file = "absent"
    /\ report = <<>>
    /\ collided = FALSE
    /\ exitCode = IF hostGiven THEN OK ELSE UNKNOWN
    /\ exitMsg = IF hostGiven THEN "none" ELSE "badparams"

(***************************************************************************)
(* Task.Kill(sig): only while Task.status is None.  os.kill on a child     *)
(* that has exited but is not reaped (a zombie) has no effect.             *)
(***************************************************************************)
Kill(sig) ==
    pending' = IF status = NoStatus /\ child \in Alive
               THEN pending \cup {sig} ELSE pending

(***************************************************************************)
(* CheckNmap.Run up to t.Run: CheckHost only when exit_code is 0; then the *)
(* temp file name, the Task and the TimeoutHandler, whose int(ttl) raises  *)
(* ValueError for a non-integer -t: nothing catches it, the interpreter    *)
(* exits with status 1 and CleanUp never runs.                             *)
(***************************************************************************)
Start ==
    /\ pc = "start"
    /\ \/ /\ exitCode # OK
          /\ pc' = "cleanup"
          /\ UNCHANGED <<stopTime, exitCode, exitMsg>>
       \/ /\ exitCode = OK
          /\ ttl = NonInt
          /\ pc' = "crashed"
          /\ exitCode' = 1
          /\ exitMsg' = "traceback"
          /\ UNCHANGED stopTime
       \/ /\ exitCode = OK
          /\ ttl # NonInt
          /\ stopTime' = now + ttl
          /\ pc' = "run"
          /\ UNCHANGED <<exitCode, exitMsg>>
    /\ UNCHANGED <<hostGiven, ttl, now, aborted, kills, interrupts, child,
                   pending, childStatus, status, file, report, collided>>

(* Task.Run, the parent's side: os.fork, then return (detach=0). *)
TaskRun ==
    /\ pc = "run"
    /\ pc' = "wait"
    /\ child' = "setup"
    /\ UNCHANGED <<hostGiven, ttl, now, stopTime, aborted, kills, interrupts,
                   pending, childStatus, status, file, report, collided,
                   exitCode, exitMsg>>

(***************************************************************************)
(* Task.Run, the child's side: open the temp file as stdout (O_CREAT |     *)
(* O_TRUNC), /dev/null as stderr, then execvp nmap.  A failure of the open *)
(* or of the exec ends in sys.exit(1), wait status 256.                    *)
(***************************************************************************)
ChildSetup ==
    /\ child = "setup"
    /\ \/ /\ child' = "exited"                \* stdout open failed
          /\ childStatus' = 256
          /\ UNCHANGED <<file, report>>
       \/ /\ file' = "present"
          /\ report' = <<>>
          /\ \/ child' = "scanning" /\ UNCHANGED childStatus
             \/ child' = "exited" /\ childStatus' = 256   \* execvp failed
    /\ UNCHANGED <<hostGiven, ttl, pc, now, stopTime, aborted, kills,
                   interrupts, pending, status, collided, exitCode, exitMsg>>

(* nmap ends on its own: a complete report and exit 0, or an error exit. *)
ChildFinish ==
    /\ child = "scanning"
    /\ child' = "exited"
    /\ \/ childStatus' = 0 /\ report' \in Reports
       \/ childStatus' = 256 /\ UNCHANGED report
    /\ UNCHANGED <<hostGiven, ttl, pc, now, stopTime, aborted, kills,
                   interrupts, pending, status, file, collided, exitCode,
                   exitMsg>>

(***************************************************************************)
(* The child acts on a delivered signal and dies of it.  Before the exec   *)
(* the child is still Python: SIGINT raises KeyboardInterrupt and the      *)
(* child exits with status 1.                                              *)
(***************************************************************************)
ChildSignalled ==
    /\ child \in Alive
    /\ \E sig \in pending :
          childStatus' = IF sig = SIGINT /\ child = "setup" THEN 256 ELSE sig
    /\ child' = "exited"
    /\ UNCHANGED <<hostGiven, ttl, pc, now, stopTime, aborted, kills,
                   interrupts, pending, status, file, report, collided,
                   exitCode, exitMsg>>

(***************************************************************************)
(* Task.Wait with an idle function: os.waitpid(pid, WNOHANG); a reaped     *)
(* child ends the loop with its status cached in Task.status.              *)
(***************************************************************************)
WaitPoll ==
    /\ pc = "wait"
    /\ IF child = "exited"
       THEN /\ status' = childStatus
            /\ child' = "reaped"
            /\ pc' = "afterwait"
       ELSE /\ pc' = "idle"
            /\ UNCHANGED <<status, child>>
    /\ UNCHANGED <<hostGiven, ttl, now, stopTime, aborted, kills, interrupts,
                   pending, childStatus, file, report, collided, exitCode,
                   exitMsg>>

CheckNoKill ==   \* mutant: TimeOut without the kill_func call
    /\ pc = "idle"
    /\ pc' = "sleep"
    /\ IF now >= stopTime
       THEN /\ aborted' = TRUE
            /\ kills' = IF kills < MaxKills THEN kills + 1 ELSE kills
            /\ UNCHANGED pending
       ELSE UNCHANGED <<aborted, kills, pending>>
    /\ UNCHANGED <<hostGiven, ttl, now, stopTime, interrupts, child,
                   childStatus, status, file, report, collided, exitCode,
                   exitMsg>>

CheckSigKill ==   \* mutant: kill_func called with SIGKILL, not Kill's SIGTERM
    /\ pc = "idle"
    /\ pc' = "sleep"
    /\ IF now >= stopTime
       THEN /\ aborted' = TRUE
            /\ kills' = IF kills < MaxKills THEN kills + 1 ELSE kills
            /\ Kill(9)
       ELSE UNCHANGED <<aborted, kills, pending>>
    /\ UNCHANGED <<hostGiven, ttl, now, stopTime, interrupts, child,
                   childStatus, status, file, report, collided, exitCode,
                   exitMsg>>

(***************************************************************************)
(* idlefunc() = TimeoutHandler.Check: once time.time() >= stop_time, every *)
(* call runs TimeOut, which sets aborted and calls kill_func = t.Kill.     *)
(***************************************************************************)
Check ==
    /\ pc = "idle"
    /\ pc' = "sleep"
    /\ IF now >= stopTime
       THEN /\ aborted' = TRUE
            /\ kills' = IF kills < MaxKills THEN kills + 1 ELSE kills
            /\ Kill(SIGTERM)
       ELSE UNCHANGED <<aborted, kills, pending>>
    /\ UNCHANGED <<hostGiven, ttl, now, stopTime, interrupts, child,
                   childStatus, status, file, report, collided, exitCode,
                   exitMsg>>

(***************************************************************************)
(* time.sleep(interval) with interval=1.  Once now >= stop_time every      *)
(* later comparison has the same outcome, so the clock may saturate at     *)
(* ClockCap, an upper bound of every stop_time.                            *)
(***************************************************************************)
Sleep ==
    /\ pc = "sleep"
    /\ pc' = "wait"
    /\ now' = IF now < ClockCap THEN now + 1 ELSE now
    /\ UNCHANGED <<hostGiven, ttl, stopTime, aborted, kills, interrupts,
                   child, pending, childStatus, status, file, report,
                   collided, exitCode, exitMsg>>

(***************************************************************************)
(* A KeyboardInterrupt inside the loop: "except KeyboardInterrupt:         *)
(* self.Kill(signal=signal.SIGINT)", then the loop starts again.           *)
(***************************************************************************)
Interrupt ==
    /\ pc \in {"wait", "idle", "sleep"}
    /\ interrupts < MaxInterrupts
    /\ interrupts' = interrupts + 1
    /\ Kill(SIGINT)
    /\ pc' = "wait"
    /\ UNCHANGED <<hostGiven, ttl, now, stopTime, aborted, kills, child,
                   childStatus, status, file, report, collided, exitCode,
                   exitMsg>>

AfterWaitStatusFirst ==   \* mutant: exit status tested before WasTimeOut
    /\ pc = "afterwait"
    /\ \/ /\ status # 0
          /\ exitCode' = UNKNOWN /\ exitMsg' = "nmapfail"
          /\ pc' = "cleanup"
       \/ /\ status = 0
          /\ aborted
          /\ exitCode' = CRITICAL /\ exitMsg' = "timeout"
          /\ pc' = "cleanup"
       \/ /\ ~aborted
          /\ status = 0
          /\ pc' = "read"
          /\ UNCHANGED <<exitCode, exitMsg>>
    /\ UNCHANGED <<hostGiven, ttl, now, stopTime, aborted, kills, interrupts,
                   child, pending, childStatus, status, file, report,
                   collided>>

AfterWaitExitOnTimeout ==   \* mutant: the timeout branch exits at once
    /\ pc = "afterwait"
    /\ \/ /\ aborted
          /\ exitCode' = CRITICAL /\ exitMsg' = "timeout"
          /\ pc' = "done"
       \/ /\ ~aborted
          /\ status # 0
          /\ exitCode' = UNKNOWN /\ exitMsg' = "nmapfail"
          /\ pc' = "cleanup"
       \/ /\ ~aborted
          /\ status = 0
          /\ pc' = "read"
          /\ UNCHANGED <<exitCode, exitMsg>>
    /\ UNCHANGED <<hostGiven, ttl, now, stopTime, aborted, kills, interrupts,
                   child, pending, childStatus, status, file, report,
                   collided>>

AfterWaitNoReturn ==   \* mutant: no return after the timeout message
    /\ pc = "afterwait"
    /\ \/ /\ aborted
          /\ status = 0
          /\ exitCode' = CRITICAL /\ exitMsg' = "timeout"
          /\ pc' = "read"
       \/ /\ status # 0
          /\ exitCode' = UNKNOWN /\ exitMsg' = "nmapfail"
          /\ pc' = "cleanup"
       \/ /\ ~aborted
          /\ status = 0
          /\ pc' = "read"
          /\ UNCHANGED <<exitCode, exitMsg>>
    /\ UNCHANGED <<hostGiven, ttl, now, stopTime, aborted, kills, interrupts,
                   child, pending, childStatus, status, file, report,
                   collided>>

(***************************************************************************)
(* After t.Wait returns: th.WasTimeOut() first, then the exit status       *)
(* ("Must do this after check for timeout, since the subprocess also       *)
(* returns error if aborted").                                             *)
(***************************************************************************)
AfterWait ==
    /\ pc = "afterwait"
    /\ \/ /\ aborted
          /\ exitCode' = CRITICAL /\ exitMsg' = "timeout"
          /\ pc' = "cleanup"
       \/ /\ ~aborted
          /\ status # 0
          /\ exitCode' = UNKNOWN /\ exitMsg' = "nmapfail"
          /\ pc' = "cleanup"
       \/ /\ ~aborted
          /\ status = 0
          /\ pc' = "read"
          /\ UNCHANGED <<exitCode, exitMsg>>
    /\ UNCHANGED <<hostGiven, ttl, now, stopTime, aborted, kills, interrupts,
                   child, pending, childStatus, status, file, report,
                   collided>>

(***************************************************************************)
(* open(self.tmp_file).readlines(), then scrape, filter and compare.       *)
(***************************************************************************)
ReadOutput ==
    /\ pc = "read"
    /\ pc' = "cleanup"
    /\ IF file = "present"
       THEN /\ exitCode' = Classify(report, Ports, OptPorts).code
            /\ exitMsg' = "ports"
       ELSE /\ exitCode' = UNKNOWN
            /\ exitMsg' = "nooutput"
    /\ UNCHANGED <<hostGiven, ttl, now, stopTime, aborted, kills, interrupts,
                   child, pending, childStatus, status, file, report,
                   collided>>

(***************************************************************************)
(* CleanUp: remove the temp file if it exists (an OSError from a racing    *)
(* removal is ignored), then map an exit code outside -1..2 to UNKNOWN.    *)
(***************************************************************************)
CleanUp ==
    /\ pc = "cleanup"
    /\ pc' = "done"
    /\ file' = "absent"
    /\ exitCode' = IF exitCode < -1 \/ exitCode > 2 THEN UNKNOWN ELSE exitCode
    /\ UNCHANGED <<hostGiven, ttl, now, stopTime, aborted, kills, interrupts,
                   child, pending, childStatus, status, report, collided,
                   exitMsg>>

(***************************************************************************)
(* Another invocation that drew the same temp file name removes the file  *)
(* in its own CleanUp (the case the comments of CheckHost and CleanUp      *)
(* anticipate).  At most once per run.                                     *)
(***************************************************************************)
OtherCleanUp ==
    /\ file = "present"
    /\ ~collided
    /\ file' = "absent"
    /\ collided' = TRUE
    /\ UNCHANGED <<hostGiven, ttl, pc, now, stopTime, aborted, kills,
                   interrupts, child, pending, childStatus, status, report,
                   exitCode, exitMsg>>

Parent == Start \/ TaskRun \/ WaitPoll \/ Check \/ Sleep \/ AfterWait
          \/ ReadOutput \/ CleanUp

Next == Parent \/ Interrupt \/ ChildSetup \/ ChildFinish \/ ChildSignalled
        \/ OtherCleanUp

(***************************************************************************)
(* The plugin is a running process that the OS schedules: each of its      *)
(* steps is weakly fair.  So is the child's setup, and a child with a      *)
(* signal pending dies of it (nmap does not ignore SIGTERM or SIGINT).     *)
(* nmap finishing on its own is not fair: a scan may hang, which is what   *)
(* the timeout is for.  Interrupts and other invocations are environment.  *)
(***************************************************************************)
Fairness ==
    /\ WF_vars(Parent)
    /\ WF_vars(ChildSetup)
    /\ WF_vars(ChildSignalled)

Spec == Init /\ [][Next]_vars /\ Fairness

-----------------------------------------------------------------------------
Terminated == pc \in {"done", "crashed"}

(***************************************************************************)
(* The reported outcome is the one that happened to the scan: a timeout is *)
(* reported exactly when the handler fired (even if nmap finished in the   *)
(* same second, or was killed by a forwarded SIGINT); a port verdict or    *)
(* "unable to get output" only for a child that exited 0 on its own; and a *)
(* port verdict is the classification of the report that child wrote.     *)
(***************************************************************************)
ReportFaithful ==
    pc = "done" =>
        /\ aborted <=> exitMsg = "timeout"
        /\ exitMsg \in {"ports", "nooutput"} => status = 0
        /\ exitMsg = "ports" =>
              exitCode = Classify(report, Ports, OptPorts).code

(***************************************************************************)
(* CleanUp removes the temporary file on every path that reaches it:       *)
(* timeout, nmap failure, unreadable output and a verdict.  The file is    *)
(* created by the child, concurrently, so this needs the child reaped.     *)
(***************************************************************************)
TmpFileRemoved == pc = "done" => file = "absent"

(***************************************************************************)
(* CheckHost decides its outcome once: after the timeout message, an nmap  *)
(* failure, a bad -H or a verdict has been set, no later step (reading    *)
(* the temp file, CleanUp) replaces it.  It rests on the "return" after    *)
(* each message in CheckHost and on Run skipping CheckHost on a nonzero    *)
(* exit_code.                                                              *)
(***************************************************************************)
OutcomeFinal == [][exitMsg # "none" => exitMsg' = exitMsg]_vars

(***************************************************************************)
(* The plugin always exits: the timeout kills a hanging nmap and the wait  *)
(* loop then reaps it.                                                     *)
(***************************************************************************)
Termination == <>Terminated

(***************************************************************************)
(* The spec's error handling: every failure is reported as a status line   *)
(* and exit code, never as an uncaught exception.                          *)
(***************************************************************************)
NoTraceback == pc # "crashed"
=============================================================================
