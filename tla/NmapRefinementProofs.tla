------------------------ MODULE NmapRefinementProofs ------------------------
(***************************************************************************)
(* NmapTask implements the safety part of NmapPlugin when -t is an         *)
(* integer: every initial state maps to an abstract initial state and      *)
(* every step to an abstract step or a stutter.                            *)
(***************************************************************************)
EXTENDS NmapRefinement, NmapTaskProofs, TLAPS

(***************************************************************************)
(* What the mapping needs beyond IInv: before the scan the exit code tells *)
(* whether a host was given; a child's status is None until it exits, an   *)
(* exit 0 comes with a complete report, and the status reaped is the       *)
(* child's.                                                                *)
(***************************************************************************)
RefInv ==
    /\ pc = "start" => (exitCode = OK <=> hostGiven)
    /\ child \in {"none", "setup", "scanning"} => childStatus = NoStatus
    /\ childStatus = 0 => report \in Reports
    /\ child = "reaped" => status = childStatus

RInv == IInv /\ RefInv

LEMMA RInvInit == Init => RInv
<1> SUFFICES ASSUME Init PROVE RInv
  OBVIOUS
<1>1. IInv
  BY IInvInit
<1>2. RefInv
  BY DEF Init, RefInv, OK, UNKNOWN, NoStatus
<1>3. QED
  BY <1>1, <1>2 DEF RInv

LEMMA RInvStep == RInv /\ [Next]_vars => RInv'
<1> SUFFICES ASSUME RInv, [Next]_vars PROVE RInv'
  OBVIOUS
<1>1. IInv'
  BY IInvStep DEF RInv
<1>2. RefInv'
  <2> USE DEF RInv, RefInv, IInv, TypeOK, PreInv
  <2>1. CASE Start
    BY <2>1 DEF Start
  <2>2. CASE TaskRun
    BY <2>2 DEF TaskRun
  <2>3. CASE WaitPoll
    BY <2>3 DEF WaitPoll
  <2>4. CASE Check
    BY <2>4 DEF Check, Kill
  <2>5. CASE Sleep
    BY <2>5 DEF Sleep
  <2>6. CASE AfterWait
    BY <2>6 DEF AfterWait
  <2>7. CASE ReadOutput
    BY <2>7 DEF ReadOutput
  <2>8. CASE CleanUp
    BY <2>8 DEF CleanUp
  <2>9. CASE Interrupt
    BY <2>9 DEF Interrupt, Kill
  <2>10. CASE ChildSetup
    BY <2>10 DEF ChildSetup, NoStatus
  <2>11. CASE ChildFinish
    BY <2>11 DEF ChildFinish
  <2>12. CASE ChildSignalled
    BY <2>12 DEF ChildSignalled, Alive, SIGINT, SIGTERM
  <2>13. CASE OtherCleanUp
    BY <2>13 DEF OtherCleanUp
  <2>14. CASE UNCHANGED vars
    BY <2>14 DEF vars
  <2>15. QED
    BY <2>1, <2>2, <2>3, <2>4, <2>5, <2>6, <2>7, <2>8, <2>9, <2>10, <2>11,
       <2>12, <2>13, <2>14 DEF Next, Parent
<1>3. QED
  BY <1>1, <1>2 DEF RInv

LEMMA InitMaps == Init => Abstract!AInit
<1> SUFFICES ASSUME Init PROVE Abstract!AInit
  OBVIOUS
<1>1. hostGiven \in BOOLEAN /\ pc = "start" /\ aborted = FALSE /\ report = <<>>
  BY DEF Init
<1>2. exitCode = IF hostGiven THEN Abstract!OK ELSE Abstract!UNKNOWN
  BY DEF Init, OK, UNKNOWN, Abstract!OK, Abstract!UNKNOWN
<1>3. exitMsg = IF hostGiven THEN "none" ELSE "badparams"
  BY DEF Init
<1>4. QED
  BY <1>1, <1>2, <1>3 DEF Abstract!AInit, PhaseOf, ReadReport

(***************************************************************************)
(* Each step of CheckNmap is a step of the port checker or a stutter.  The *)
(* wait loop, the clock, the signals, the child and a colliding cleanup    *)
(* are stutters; the first TimeOut is Expire; AfterWait is ScanEnds;       *)
(* ReadOutput is ParseOutput; CleanUp is Report.                           *)
(***************************************************************************)
LEMMA StepMaps ==
    ASSUME NonInt \notin TTLs
    PROVE  RInv /\ [Next]_vars => [Abstract!ANext]_(Abstract!avars)
<1> SUFFICES ASSUME RInv, [Next]_vars
             PROVE  [Abstract!ANext]_(Abstract!avars)
  OBVIOUS
<1> USE DEF RInv, IInv, TypeOK
<1> DEFINE Stutter == UNCHANGED Abstract!avars
<1>0. Stutter <=> UNCHANGED <<hostGiven, PhaseOf(pc), aborted, ReadReport,
                              exitCode, exitMsg>>
  BY DEF Abstract!avars
<1>1. CASE Start
  <2>1. CASE exitCode # OK
    BY <1>1, <2>1 DEF Start, RefInv, PreInv, Abstract!ANext,
       Abstract!BadConfig, PhaseOf, ReadReport
  <2>2. CASE exitCode = OK
    <3>1. ttl # NonInt
      OBVIOUS
    <3>2. QED
      BY <1>1, <2>2, <3>1 DEF Start, RefInv, PreInv, Abstract!ANext,
         Abstract!StartScan, PhaseOf, ReadReport
  <2>3. QED
    BY <2>1, <2>2
<1>2. CASE TaskRun
  BY <1>2, <1>0 DEF TaskRun, PhaseOf, ReadReport
<1>3. CASE WaitPoll
  BY <1>3, <1>0 DEF WaitPoll, PhaseOf, ReadReport
<1>4. CASE Check
  <2>1. CASE now >= stopTime /\ ~aborted
    BY <1>4, <2>1 DEF Check, Kill, Abstract!ANext, Abstract!Expire,
       PhaseOf, ReadReport
  <2>2. CASE ~(now >= stopTime /\ ~aborted)
    <3>1. aborted' = aborted
      BY <1>4, <2>2, Zenon DEF Check
    <3>2. QED
      BY <1>4, <1>0, <3>1 DEF Check, Kill, PhaseOf, ReadReport
  <2>3. QED
    BY <2>1, <2>2
<1>5. CASE Sleep
  BY <1>5, <1>0 DEF Sleep, PhaseOf, ReadReport
<1>6. CASE AfterWait
  <2>1. aborted => Abstract!ScanEnds
    BY <1>6 DEF AfterWait, Abstract!ScanEnds, PhaseOf, ReadReport,
       CRITICAL, Abstract!CRITICAL
  <2>2. ~aborted /\ status # 0 => Abstract!ScanEnds
    BY <1>6 DEF AfterWait, Abstract!ScanEnds, PhaseOf, ReadReport,
       UNKNOWN, Abstract!UNKNOWN
  <2>3. ~aborted /\ status = 0 => Abstract!ScanEnds
    <3>1. pc = "afterwait" /\ child = "reaped"
      BY <1>6 DEF AfterWait, PostInv
    <3>2. status = 0 => report \in Reports
      BY <3>1 DEF RefInv
    <3>3. QED
      BY <1>6, <3>1, <3>2 DEF AfterWait, Abstract!ScanEnds, PhaseOf,
         ReadReport
  <2>4. QED
    BY <2>1, <2>2, <2>3 DEF Abstract!ANext
<1>7. CASE ReadOutput
  BY <1>7 DEF ReadOutput, Abstract!ANext, Abstract!ParseOutput, PhaseOf,
     ReadReport, UNKNOWN, Abstract!UNKNOWN
<1>8. CASE CleanUp
  <2>1. exitCode' = exitCode
    BY <1>8 DEF CleanUp, OK, UNKNOWN, WARNING, CRITICAL
  <2>2. QED
    BY <1>8, <2>1 DEF CleanUp, Abstract!ANext, Abstract!Report, PhaseOf,
       ReadReport
<1>9. CASE Interrupt
  BY <1>9, <1>0 DEF Interrupt, Kill, PhaseOf, ReadReport
<1>10. CASE ChildSetup
  BY <1>10, <1>0 DEF ChildSetup, PostInv, PhaseOf, ReadReport
<1>11. CASE ChildFinish
  BY <1>11, <1>0 DEF ChildFinish, PostInv, PhaseOf, ReadReport
<1>12. CASE ChildSignalled
  BY <1>12, <1>0 DEF ChildSignalled, Alive, PostInv, PhaseOf, ReadReport
<1>13. CASE OtherCleanUp
  BY <1>13, <1>0 DEF OtherCleanUp, PhaseOf, ReadReport
<1>14. CASE UNCHANGED vars
  BY <1>14, <1>0 DEF vars, PhaseOf, ReadReport
<1>15. QED
  BY <1>1, <1>2, <1>3, <1>4, <1>5, <1>6, <1>7, <1>8, <1>9, <1>10, <1>11,
     <1>12, <1>13, <1>14 DEF Next, Parent

(***************************************************************************)
(* With an integer -t, CheckNmap only takes the steps spec section 4       *)
(* allows, in their order, for every value of the constants.               *)
(***************************************************************************)
THEOREM ImplementsPlugin ==
    ASSUME NonInt \notin TTLs
    PROVE  Spec => Abstract!ASafe
<1>1. Init => RInv /\ Abstract!AInit
  BY RInvInit, InitMaps
<1>2. RInv /\ [Next]_vars => RInv' /\ [Abstract!ANext]_(Abstract!avars)
  BY RInvStep, StepMaps
<1>3. QED
  BY <1>1, <1>2, PTL DEF Spec, Abstract!ASafe
=============================================================================
