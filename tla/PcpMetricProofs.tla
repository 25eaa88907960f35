-------------------------- MODULE PcpMetricProofs --------------------------
(***************************************************************************)
(* Proofs about PcpMetric, for every set of samples, thresholds and pmval *)
(* outputs and every pipe capacity.                                        *)
(***************************************************************************)
EXTENDS PcpMetric, SequenceTheorems, TLAPS

(***************************************************************************)
(* Appending pmval's next line to the unread part of its output gives the  *)
(* unread part one line longer.                                            *)
(***************************************************************************)
LEMMA SubSeqAppend ==
    ASSUME NEW S, NEW s \in Seq(S), NEW i \in 1..Len(s),
           NEW j \in 0..Len(s) - 1, i <= j + 1
    PROVE  Append(SubSeq(s, i, j), s[j + 1]) = SubSeq(s, i, j + 1)
<1>1. SubSeq(s, i, j + 1) = SubSeq(s, i, j) \o << s[j + 1] >>
  BY SubSeqRecursiveSecond
<1>2. SubSeq(s, i, j) \in Seq(S) /\ s[j + 1] \in S
  BY SubSeqProperties, ElementOfSeq
<1>3. QED
  BY <1>1, <1>2, AppendIsConcat

LEMMA StreamInit == Init => StreamInv
<1> SUFFICES ASSUME Init PROVE StreamInv
  OBVIOUS
<1>1. out \in Seq(Lines)
  BY PcpAssumption DEF Init
<1>2. SubSeq(out, 1, 0) = << >>
  BY SubSeqEmpty
<1>3. << >> \in Seq(Lines) /\ Len(<< >>) = 0
  BY EmptySeq
<1>4. Len(out) \in Nat
  BY <1>1, LenProperties
<1>5. written \in 0..Len(out) /\ pipe \in Seq(Lines) /\ Len(pipe) <= written
  BY <1>3, <1>4 DEF Init
<1>6. Consumed = 0
  <2>1. Len(pipe) = 0 /\ written = 0
    BY DEF Init
  <2>2. QED
    BY <2>1 DEF Consumed
<1>7. pipe = SubSeq(out, Consumed + 1, written) /\ output = None
  BY <1>2, <1>6 DEF Init
<1>8. QED
  BY <1>1, <1>5, <1>6, <1>7 DEF Init, StreamInv

LEMMA StreamStep == StreamInv /\ [Next]_vars => StreamInv'
<1> SUFFICES ASSUME StreamInv, [Next]_vars PROVE StreamInv'
  OBVIOUS
<1> USE DEF StreamInv, Consumed
<1>1. CASE Start
  BY <1>1 DEF Start
<1>2. CASE ChildWrite
  <2>1. written < Len(out) /\ Consumed + 1 \in 1..Len(out)
        /\ written \in 0..Len(out) - 1 /\ Consumed + 1 <= written + 1
    BY <1>2, LenProperties DEF ChildWrite
  <2>2. Append(SubSeq(out, Consumed + 1, written), out[written + 1])
        = SubSeq(out, Consumed + 1, written + 1)
    BY <2>1, SubSeqAppend
  <2>3. out[written + 1] \in Lines
    BY <2>1, ElementOfSeq
  <2>4. Append(pipe, out[written + 1]) \in Seq(Lines)
        /\ Len(Append(pipe, out[written + 1])) = Len(pipe) + 1
    BY <2>3, AppendProperties
  <2>5. Consumed' = Consumed
    BY <1>2, <2>4 DEF ChildWrite
  <2>6. pipe' = SubSeq(out', Consumed' + 1, written')
    BY <1>2, <2>2, <2>5 DEF ChildWrite
  <2>7. output' = IF Consumed' = 0 THEN None ELSE out'[Consumed']
    BY <1>2, <2>5 DEF ChildWrite
  <2>8. pipe' \in Seq(Lines) /\ Len(pipe') <= written' /\ written' \in 0..Len(out')
    BY <1>2, <2>1, <2>4 DEF ChildWrite
  <2>9. QED
    BY <1>2, <2>6, <2>7, <2>8 DEF ChildWrite
<1>3. CASE ChildExit
  BY <1>3 DEF ChildExit
<1>4. CASE Wait
  BY <1>4 DEF Wait
<1>5. CASE ReadLine
  <2>1. CASE pipe # <<>>
    <3>1. Len(pipe) > 0
      BY <2>1, EmptySeq
    <3>2. Consumed + 1 \in 1..Len(out) /\ written \in Consumed + 1..Len(out)
      BY <3>1
    <3>3. Head(pipe) = out[Consumed + 1]
          /\ Tail(pipe) = SubSeq(out, Consumed + 2, written)
      BY <3>2, HeadTailOfSubSeq
    <3>4. Tail(pipe) \in Seq(Lines) /\ Len(Tail(pipe)) = Len(pipe) - 1
      BY <2>1, HeadTailProperties
    <3>5. pc = "read" /\ pc' = "read" /\ pipe' = Tail(pipe)
          /\ output' = Head(pipe) /\ UNCHANGED <<out, written, child>>
      BY <1>5, <2>1 DEF ReadLine
    <3>6. Consumed' = Consumed + 1
      BY <3>4, <3>5
    <3>7. pipe' = SubSeq(out', Consumed' + 1, written')
      <4>1. Consumed' + 1 = Consumed + 2 /\ out' = out /\ written' = written
        <5>1. Consumed' + 1 = Consumed + 2
          BY <3>6
        <5>2. QED
          BY <3>5, <5>1, Zenon
      <4>2. QED
        BY <3>3, <3>5, <4>1, Zenon
    <3>8. output' = IF Consumed' = 0 THEN None ELSE out'[Consumed']
      BY <3>2, <3>3, <3>5, <3>6
    <3>9. QED
      BY <3>4, <3>5, <3>6, <3>7, <3>8
  <2>2. CASE pipe = <<>>
    <3>1. /\ pc = "read" /\ pc' = "parse" /\ pipe' = pipe /\ output' = output
          /\ written' = written /\ out' = out /\ child' = child
      BY <1>5, <2>2, Zenon DEF ReadLine
    <3>2. Consumed' = Consumed
      BY <3>1, Zenon
    <3>3. QED
      BY <2>2, <3>1, <3>2, Zenon
  <2>3. QED
    BY <2>1, <2>2
<1>6. CASE Parse
  BY <1>6 DEF Parse
<1>7. CASE UNCHANGED vars
  BY <1>7 DEF vars
<1>8. QED
  BY <1>1, <1>2, <1>3, <1>4, <1>5, <1>6, <1>7 DEF Next

(***************************************************************************)
(* check_pcpmetric parses the last line pmval wrote ("Get the last line of *)
(* output from 'pmval'"), or nothing when pmval wrote nothing: p.wait()    *)
(* returns only after pmval has written everything, and the readline loop  *)
(* ends only at the end of the pipe.                                       *)
(***************************************************************************)
THEOREM LastLineParsed == Spec => []ReadsLastLine
<1>1. StreamInv => ReadsLastLine
  BY DEF StreamInv, Consumed, ReadsLastLine, Last
<1>2. QED
  BY <1>1, StreamInit, StreamStep, PTL DEF Spec

(***************************************************************************)
(* Every reachable state satisfies StreamInv, the invariant pcp_metric     *)
(* checks: the pipe holds, in order, what pmval wrote and check_pcpmetric  *)
(* has not yet read, 'output' is the last line read, and the parse starts  *)
(* only after pmval exited and the pipe is drained.                        *)
(***************************************************************************)
THEOREM StreamInvariant == Spec => []StreamInv
BY StreamInit, StreamStep, PTL DEF Spec

=============================================================================
