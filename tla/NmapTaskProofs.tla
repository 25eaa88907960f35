--------------------------- MODULE NmapTaskProofs ---------------------------
(***************************************************************************)
(* Proofs about NmapTask, for every value of its constants.                *)
(***************************************************************************)
EXTENDS NmapTask, TLAPS

(***************************************************************************)
(* Before the fork there is no child, no temp file and no timeout.         *)
(***************************************************************************)
PreInv ==
    /\ pc \in {"start", "run"} => child = "none" /\ ~aborted /\ file = "absent"
    /\ pc = "start" =>
          \/ exitCode = OK /\ exitMsg = "none"
          \/ exitCode = UNKNOWN /\ exitMsg = "badparams"

(***************************************************************************)
(* After the wait loop the child is reaped, unless CheckHost was skipped   *)
(* for bad parameters, in which case there never was a child.              *)
(***************************************************************************)
PostInv ==
    /\ pc \in {"afterwait", "read"} => child = "reaped"
    /\ pc \in {"cleanup", "done"} =>
        \/ child = "reaped"
        \/ child = "none" /\ exitMsg = "badparams" /\ ~aborted /\ file = "absent"

(* Only a scan that exited 0 without a timeout is read. *)
ReadInv == pc = "read" => ~aborted /\ status = 0

(* From CleanUp on, the message is the one ReportFaithful requires. *)
OutcomeInv ==
    pc \in {"cleanup", "done"} =>
        /\ aborted <=> exitMsg = "timeout"
        /\ exitMsg \in {"ports", "nooutput"} => status = 0
        /\ exitMsg = "ports" => exitCode = Classify(report, Ports, OptPorts).code

IInv == TypeOK /\ PreInv /\ PostInv /\ ReadInv /\ OutcomeInv /\ TmpFileRemoved
-----------------------------------------------------------------------------
(* The verdict of a read report is one of the three port verdicts. *)
LEMMA ClassifyCode ==
    ASSUME NEW r, NEW p, NEW o
    PROVE  Classify(r, p, o).code \in {OK, WARNING, CRITICAL}
BY DEF Classify

(* Task.Kill leaves the set of pending signals within SIGINT and SIGTERM. *)
LEMMA KillType ==
    ASSUME NEW sig \in {SIGINT, SIGTERM}, pending \subseteq {SIGINT, SIGTERM},
           Kill(sig)
    PROVE  pending' \subseteq {SIGINT, SIGTERM}
BY DEF Kill

(***************************************************************************)
(* Type correctness: every variable keeps its type.  The clock stays in    *)
(* 0..ClockCap because Sleep saturates, stop_time is an integer because a  *)
(* non-integer -t never reaches it, and exit_code is a plugin code or the  *)
(* interpreter's 1.                                                        *)
(***************************************************************************)
LEMMA TypeInit == Init => TypeOK
<1> SUFFICES ASSUME Init PROVE TypeOK
  OBVIOUS
<1>1. exitCode \in {UNKNOWN, OK, WARNING, CRITICAL, 1}
  BY DEF Init, OK, UNKNOWN, WARNING, CRITICAL
<1>2. exitMsg \in Msgs
  BY DEF Init, Msgs
<1>3. now \in 0..ClockCap /\ kills \in 0..MaxKills
      /\ interrupts \in 0..MaxInterrupts
  BY BoundsAssumption DEF Init
<1>4. hostGiven \in BOOLEAN /\ aborted \in BOOLEAN /\ collided \in BOOLEAN
  BY Zenon DEF Init
<1>5. QED
  BY <1>1, <1>2, <1>3, <1>4 DEF Init, TypeOK, Statuses, NoStatus,
     ParentPCs, ChildStates
LEMMA TypeStep == TypeOK /\ [Next]_vars => TypeOK'
<1> SUFFICES ASSUME TypeOK, [Next]_vars PROVE TypeOK'
  OBVIOUS
<1> USE DEF TypeOK, ParentPCs, ChildStates, Msgs, Statuses, NoStatus,
            Alive, SIGINT, SIGTERM
<1>1. CASE Start
  BY <1>1, TTLAssumption DEF Start, OK, UNKNOWN, WARNING, CRITICAL
<1>2. CASE TaskRun
  BY <1>2 DEF TaskRun
<1>3. CASE WaitPoll
  BY <1>3 DEF WaitPoll
<1>4. CASE Check
  <2>1. pending' \subseteq {SIGINT, SIGTERM}
    BY <1>4, KillType DEF Check
  <2>2. kills' \in 0..MaxKills
    BY <1>4, BoundsAssumption DEF Check
  <2>3. aborted' \in BOOLEAN
    BY <1>4, Zenon DEF Check
  <2>4. QED
    BY <1>4, <2>1, <2>2, <2>3 DEF Check
<1>5. CASE Sleep
  BY <1>5, BoundsAssumption DEF Sleep
<1>6. CASE AfterWait
  BY <1>6 DEF AfterWait, OK, UNKNOWN, WARNING, CRITICAL
<1>7. CASE ReadOutput
  BY <1>7, ClassifyCode DEF ReadOutput, OK, UNKNOWN, WARNING, CRITICAL
<1>8. CASE CleanUp
  BY <1>8 DEF CleanUp, OK, UNKNOWN, WARNING, CRITICAL
<1>9. CASE Interrupt
  <2>1. pending' \subseteq {SIGINT, SIGTERM}
    BY <1>9, KillType DEF Interrupt
  <2>2. interrupts' \in 0..MaxInterrupts
    BY <1>9, BoundsAssumption DEF Interrupt
  <2>3. QED
    BY <1>9, <2>1, <2>2 DEF Interrupt
<1>10. CASE ChildSetup
  BY <1>10 DEF ChildSetup
<1>11. CASE ChildFinish
  BY <1>11 DEF ChildFinish
<1>12. CASE ChildSignalled
  BY <1>12 DEF ChildSignalled
<1>13. CASE OtherCleanUp
  BY <1>13 DEF OtherCleanUp
<1>14. CASE UNCHANGED vars
  BY <1>14 DEF vars
<1>15. QED
  BY <1>1, <1>2, <1>3, <1>4, <1>5, <1>6, <1>7, <1>8, <1>9, <1>10, <1>11,
     <1>12, <1>13, <1>14 DEF Next, Parent

THEOREM TypeCorrect == Spec => []TypeOK
BY TypeInit, TypeStep, PTL DEF Spec

(***************************************************************************)
(* IInv holds initially and is kept by every step.                         *)
(***************************************************************************)
LEMMA IInvInit == Init => IInv
<1> SUFFICES ASSUME Init PROVE IInv
  OBVIOUS
<1>1. TypeOK
  BY TypeInit
<1>2. PreInv /\ PostInv /\ ReadInv /\ OutcomeInv /\ TmpFileRemoved
  BY DEF Init, PreInv, PostInv, ReadInv, OutcomeInv, TmpFileRemoved,
     OK, UNKNOWN
<1>3. QED
  BY <1>1, <1>2 DEF IInv

LEMMA IInvStep == IInv /\ [Next]_vars => IInv'
<1> SUFFICES ASSUME IInv, [Next]_vars PROVE IInv'
  OBVIOUS
<1>1. TypeOK'
  BY TypeStep DEF IInv
<1> DEFINE Rest == PreInv /\ PostInv /\ ReadInv /\ OutcomeInv /\ TmpFileRemoved
<1>2. Rest'
  <2> USE DEF IInv, PreInv, PostInv, ReadInv, OutcomeInv, TmpFileRemoved
  <2>1. CASE Start
    BY <2>1 DEF Start, TypeOK, OK, UNKNOWN
  <2>2. CASE TaskRun
    BY <2>2 DEF TaskRun
  <2>3. CASE WaitPoll
    BY <2>3 DEF WaitPoll
  <2>4. CASE Check
    BY <2>4 DEF Check, Kill
  <2>5. CASE Sleep
    BY <2>5 DEF Sleep
  <2>6. CASE AfterWait
    BY <2>6 DEF AfterWait
  <2>7. CASE ReadOutput
    BY <2>7 DEF ReadOutput
  <2>8. CASE CleanUp
    BY <2>8 DEF CleanUp, TypeOK, OK, UNKNOWN, WARNING, CRITICAL
  <2>9. CASE Interrupt
    BY <2>9 DEF Interrupt, Kill
  <2>10. CASE ChildSetup
    BY <2>10 DEF ChildSetup
  <2>11. CASE ChildFinish
    BY <2>11 DEF ChildFinish
  <2>12. CASE ChildSignalled
    BY <2>12 DEF ChildSignalled, Alive
  <2>13. CASE OtherCleanUp
    BY <2>13 DEF OtherCleanUp
  <2>14. CASE UNCHANGED vars
    BY <2>14 DEF vars
  <2>15. QED
    BY <2>1, <2>2, <2>3, <2>4, <2>5, <2>6, <2>7, <2>8, <2>9, <2>10, <2>11,
       <2>12, <2>13, <2>14 DEF Next, Parent
<1>3. QED
  BY <1>1, <1>2 DEF IInv

(***************************************************************************)
(* The outcome CheckNmap reports is the one that happened to the scan, in  *)
(* every run and for every value of the constants.                        *)
(***************************************************************************)
THEOREM OutcomeFaithful == Spec => []ReportFaithful
<1>1. IInv => ReportFaithful
  BY DEF IInv, OutcomeInv, ReportFaithful
<1>2. QED
  BY <1>1, IInvInit, IInvStep, PTL DEF Spec

(***************************************************************************)
(* When CheckNmap has exited normally its temporary file is gone.          *)
(***************************************************************************)
THEOREM TmpFileCleaned == Spec => []TmpFileRemoved
<1>1. IInv => TmpFileRemoved
  BY DEF IInv
<1>2. QED
  BY <1>1, IInvInit, IInvStep, PTL DEF Spec

(***************************************************************************)
(* Until CheckHost sets a message, there is none: the plugin forks and     *)
(* waits only when ParseCmdLine left exit_code at OK.                      *)
(***************************************************************************)
MsgInv ==
    pc \in {"run", "wait", "idle", "sleep", "afterwait", "read"} =>
        exitMsg = "none"

LEMMA MsgInit == Init => MsgInv
BY DEF Init, MsgInv

LEMMA MsgStep == IInv /\ MsgInv /\ [Next]_vars => MsgInv'
<1> SUFFICES ASSUME IInv, MsgInv, [Next]_vars PROVE MsgInv'
  OBVIOUS
<1> USE DEF MsgInv
<1>1. CASE Start
  <2>1. exitCode = OK => exitMsg = "none"
    BY <1>1 DEF Start, IInv, PreInv, OK, UNKNOWN
  <2>2. QED
    BY <1>1, <2>1 DEF Start
<1>2. CASE UNCHANGED <<pc, exitMsg>>
  BY <1>2
<1>3. CASE TaskRun \/ WaitPoll \/ Check \/ Sleep \/ AfterWait \/ ReadOutput
           \/ CleanUp \/ Interrupt
  BY <1>3 DEF TaskRun, WaitPoll, Check, Sleep, AfterWait, ReadOutput,
     CleanUp, Interrupt
<1>4. CASE ChildSetup \/ ChildFinish \/ ChildSignalled \/ OtherCleanUp
  BY <1>4, Zenon DEF ChildSetup, ChildFinish, ChildSignalled, OtherCleanUp
<1>5. QED
  BY <1>1, <1>2, <1>3, <1>4 DEF Next, Parent, vars

(***************************************************************************)
(* Every step that changes the message starts from no message: Start only  *)
(* with exit_code OK, AfterWait and the read of the temp file only on the  *)
(* path where nothing was reported yet.                                    *)
(***************************************************************************)
LEMMA FinalStep ==
    IInv /\ MsgInv /\ [Next]_vars => [exitMsg # "none" => exitMsg' = exitMsg]_vars
<1> SUFFICES ASSUME IInv, MsgInv, [Next]_vars, exitMsg # "none"
             PROVE  exitMsg' = exitMsg
  BY DEF vars
<1>1. CASE Start
  <2>1. exitCode = OK => exitMsg = "none"
    BY <1>1 DEF Start, IInv, PreInv, OK, UNKNOWN
  <2>2. QED
    BY <1>1, <2>1 DEF Start
<1>2. CASE AfterWait \/ ReadOutput
  BY <1>2 DEF AfterWait, ReadOutput, MsgInv
<1>3. CASE TaskRun \/ WaitPoll \/ Check \/ Sleep \/ CleanUp \/ Interrupt
  BY <1>3 DEF TaskRun, WaitPoll, Check, Sleep, CleanUp, Interrupt
<1>4. CASE ChildSetup \/ ChildFinish \/ ChildSignalled \/ OtherCleanUp
           \/ UNCHANGED vars
  BY <1>4, Zenon DEF ChildSetup, ChildFinish, ChildSignalled, OtherCleanUp,
     vars
<1>5. QED
  BY <1>1, <1>2, <1>3, <1>4 DEF Next, Parent

(***************************************************************************)
(* CheckNmap decides its outcome once: a timeout, nmap failure, bad -H or  *)
(* port verdict is never replaced by a later step of CheckHost or CleanUp. *)
(***************************************************************************)
THEOREM OutcomeDecidedOnce == Spec => OutcomeFinal
<1>1. Init => IInv /\ MsgInv
  BY IInvInit, MsgInit
<1>2. IInv /\ MsgInv /\ [Next]_vars => (IInv /\ MsgInv)'
  BY IInvStep, MsgStep
<1>3. IInv /\ MsgInv /\ [Next]_vars => [exitMsg # "none" => exitMsg' = exitMsg]_vars
  BY FinalStep
<1>4. QED
  BY <1>1, <1>2, <1>3, PTL DEF Spec, OutcomeFinal
=============================================================================
