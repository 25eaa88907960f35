------------------------- MODULE AsteriskPeerProofs -------------------------
(***************************************************************************)
(* Proofs about AsteriskPeer, for every set of peer types, peer states and *)
(* RTT limits, and whether or not a recv may cut inside a write.           *)
(***************************************************************************)
EXTENDS AsteriskPeer, SequenceTheorems, TLAPS

(***************************************************************************)
(* Data that continues a prefix of Reply where it ends keeps it a prefix.  *)
(***************************************************************************)
LEMMA PrefixConcat ==
    ASSUME NEW s, NEW d, PrefixOfReply(s), d \in Seq(Symbols),
           Len(s) + Len(d) <= Len(Reply),
           \A j \in 1..Len(d) : d[j] = Reply[Len(s) + j]
    PROVE  PrefixOfReply(s \o d) /\ Len(s \o d) = Len(s) + Len(d)
BY ConcatProperties DEF PrefixOfReply

(***************************************************************************)
(* The verdict depends on the reply only through whether it holds the     *)
(* peer's status line.                                                     *)
(***************************************************************************)
LEMMA SeverityOfBody ==
    ASSUME NEW a, NEW b, Contains(a, "body") <=> Contains(b, "body")
    PROVE  PeerSeverity(a) = PeerSeverity(b)
BY Zenon DEF PeerSeverity

(***************************************************************************)
(* After an accepted login, a reply that reaches the end marker holds the  *)
(* acceptance and the status line; after a refused one, no reply holds    *)
(* the acceptance.                                                         *)
(***************************************************************************)
LEMMA ReplyContents ==
    ASSUME authOk \in BOOLEAN, NEW r, PrefixOfReply(r)
    PROVE  /\ authOk /\ Len(r) >= 7 => Contains(r, "authok") /\ Contains(r, "body")
           /\ ~authOk => ~Contains(r, "authok")
BY DEF PrefixOfReply, Reply, Contains

(***************************************************************************)
(* A step that leaves the login's outcome, the stream and the kept reply   *)
(* alone keeps both prefixes of Reply.                                     *)
(***************************************************************************)
LEMMA PrefixesKept ==
    ASSUME PrefixOfReply(s2c), PrefixOfReply(result),
           authOk' = authOk, s2c' = s2c, result' = result
    PROVE  PrefixOfReply(s2c)' /\ PrefixOfReply(result)'
BY DEF PrefixOfReply, Reply

(***************************************************************************)
(* A step that does not end the plugin with a verdict on the login keeps   *)
(* ReportFaithful.                                                         *)
(***************************************************************************)
LEMMA FaithfulKept ==
    ASSUME cpc' # "done" \/ msg' \notin {"status", "authfail"}
    PROVE  ReportFaithful'
BY DEF ReportFaithful

(***************************************************************************)
(* A step that leaves the login's outcome and the kept reply alone keeps   *)
(* the reply a prefix of Reply.                                            *)
(***************************************************************************)
LEMMA ResultKept ==
    ASSUME PrefixOfReply(result), authOk' = authOk, result' = result
    PROVE  PrefixOfReply(result)'
BY DEF PrefixOfReply, Reply

(***************************************************************************)
(* mysocket.send either raises socket.error or sends one more request.    *)
(***************************************************************************)
LEMMA SendEffect ==
    ASSUME NEW next, Send(next)
    PROVE  \/ cpc' = "done" /\ msg' = "cannotcontact" /\ c2s' = c2s
           \/ cpc' = next /\ c2s' = c2s + 1
BY DEF Send, SocketError

(***************************************************************************)
(* The verdict on a given reply depends on the inputs only.                *)
(***************************************************************************)
LEMMA SeverityKept ==
    ASSUME NEW x, type' = type, peer' = peer, limits' = limits
    PROVE  PeerSeverity(x)' = PeerSeverity(x)
BY Zenon DEF PeerSeverity

(***************************************************************************)
(* A step of Asterisk or of the network leaves the plugin's verdict, and   *)
(* what it is about, alone.                                                *)
(***************************************************************************)
LEMMA FaithfulUnchanged ==
    ASSUME ReportFaithful,
           UNCHANGED <<cpc, msg, authOk, exitCode, type, peer, limits>>
    PROVE  ReportFaithful'
BY SeverityKept DEF ReportFaithful

(***************************************************************************)
(* A write of Asterisk that continues Reply where the stream ends keeps    *)
(* the stream a prefix of Reply, and its write ends inside it.             *)
(***************************************************************************)
LEMMA EmitPrefix ==
    ASSUME PrefixOfReply(s2c), writeEnds \subseteq 1..Len(s2c),
           NEW data \in Seq(Symbols), NEW offsets \in SUBSET (1..Len(data)),
           Len(s2c) + Len(data) <= Len(Reply),
           \A j \in 1..Len(data) : data[j] = Reply[Len(s2c) + j],
           Emit(data, offsets), authOk' = authOk
    PROVE  /\ PrefixOfReply(s2c)'
           /\ Len(s2c') = Len(s2c) + Len(data)
           /\ writeEnds' \subseteq 1..Len(s2c')
<1>1. PrefixOfReply(s2c \o data) /\ Len(s2c \o data) = Len(s2c) + Len(data)
  BY PrefixConcat
<1>2. s2c' = s2c \o data
  BY DEF Emit
<1>3. PrefixOfReply(s2c)'
  BY <1>1, <1>2 DEF PrefixOfReply, Reply
<1>4. writeEnds' \subseteq 1..Len(s2c')
  <2>1. Len(s2c) \in Nat /\ Len(data) \in Nat
    BY LenProperties DEF PrefixOfReply
  <2>2. \A o \in offsets : Len(s2c) + o \in 1..Len(s2c')
    BY <1>1, <1>2, <2>1
  <2>3. 1..Len(s2c) \subseteq 1..Len(s2c')
    BY <1>1, <1>2, <2>1
  <2>4. QED
    BY <2>2, <2>3, Zenon DEF Emit
<1>5. QED
  BY <1>1, <1>2, <1>3, <1>4

LEMMA PeerInit == Init => PeerInv
<1> SUFFICES ASSUME Init PROVE PeerInv
  OBVIOUS
<1>1. Len(s2c) = 0 /\ Len(result) = 0
  BY EmptySeq DEF Init
<1>2. PrefixOfReply(s2c) /\ PrefixOfReply(result)
  BY <1>1, EmptySeq DEF Init, PrefixOfReply
<1>3. /\ authOk \in BOOLEAN /\ c2s = 0 /\ srv = 0 /\ rd = 0 /\ writeEnds = {}
      /\ closed = FALSE /\ cpc = "start"
  BY DEF Init
<1>6. PeerCounts
  BY <1>1, <1>3 DEF PeerCounts, AfterReply
<1>4. ReportFaithful
  BY DEF Init, ReportFaithful
<1>5. QED
  BY <1>2, <1>6, <1>4 DEF PeerInv

(***************************************************************************)
(* One recv of send_command(action): the chunk continues what was read, so *)
(* the reply stays a prefix of Reply, and a chunk with the marker ends the *)
(* loop only past "END COMMAND".                                           *)
(***************************************************************************)
LEMMA RecvReplyStep ==
    ASSUME PeerCounts, PrefixOfReply(s2c), PrefixOfReply(result), RecvReply
    PROVE  PeerInv'
<1>1. cpc = "recv1" /\ c2s = 2 /\ Len(result) = rd
  BY DEF RecvReply, PeerCounts
<1>2. UNCHANGED <<authOk, s2c, writeEnds, c2s, srv, closed>>
  BY DEF RecvReply, inputs
<1>3. PrefixOfReply(s2c)'
  BY <1>2 DEF PrefixOfReply, Reply
<1>4. CASE \E c \in Cuts :
          /\ rd < c
          /\ chunk' = SubSeq(s2c, rd + 1, c)
          /\ rd' = c
          /\ result' = result \o chunk'
          /\ cpc' = IF HasMarker(chunk') THEN "sendlogoff" ELSE cpc
          /\ UNCHANGED msg
  <2>1. PICK c \in Cuts :
          /\ rd < c
          /\ chunk' = SubSeq(s2c, rd + 1, c)
          /\ rd' = c
          /\ result' = result \o chunk'
          /\ cpc' = IF HasMarker(chunk') THEN "sendlogoff" ELSE cpc
          /\ UNCHANGED msg
    BY <1>4
  <2>2. c \in 1..Len(s2c) /\ rd \in 0..Len(s2c)
    BY <2>1 DEF Cuts, PeerCounts
  <2>3. chunk' \in Seq(Symbols) /\ Len(chunk') = c - rd
        /\ \A j \in 1..Len(chunk') : chunk'[j] = s2c[rd + j]
    BY <2>1, <2>2, SubSeqProperties DEF PrefixOfReply
  <2>4. \A j \in 1..Len(chunk') : chunk'[j] = Reply[Len(result) + j]
        /\ rd + j \in 1..Len(s2c)
    BY <1>1, <2>2, <2>3 DEF PrefixOfReply
  <2>5. Len(result) + Len(chunk') <= Len(Reply)
    BY <1>1, <2>2, <2>3 DEF PrefixOfReply
  <2>6. PrefixOfReply(result \o chunk')
        /\ Len(result \o chunk') = Len(result) + Len(chunk')
    BY <2>3, <2>4, <2>5, PrefixConcat
  <2>7. PrefixOfReply(result)' /\ Len(result') = c
    <3>1. Len(result') = c
      <4>1. Len(result') = Len(result) + Len(chunk')
        BY <2>1, <2>6, Zenon
      <4>2. QED
        BY <1>1, <2>2, <2>3, <4>1
    <3>2. PrefixOfReply(result)'
      BY <1>2, <2>1, <2>6 DEF PrefixOfReply, Reply
    <3>3. QED
      BY <3>1, <3>2
  <2>8. HasMarker(chunk') /\ authOk => c >= 7
    <3> SUFFICES ASSUME HasMarker(chunk'), authOk PROVE c >= 7
      OBVIOUS
    <3>1. PICK k \in 2..Len(chunk') - 1 : chunk'[k] = "end1"
      BY DEF HasMarker
    <3>2. Reply[rd + k] = "end1" /\ rd + k \in 1..Len(s2c)
      BY <1>1, <2>4, <3>1
    <3>3. rd + k = 6
      BY <3>2 DEF Reply, PrefixOfReply
    <3>4. QED
      BY <2>2, <2>3, <3>1, <3>3
  <2>9. PeerCounts'
    BY <1>1, <1>2, <2>1, <2>2, <2>7, <2>8 DEF PeerCounts, AfterReply
  <2>10. ReportFaithful'
    BY <1>1, <2>1, FaithfulKept
  <2>11. QED
    BY <1>3, <2>7, <2>9, <2>10 DEF PeerInv
<1>5. CASE rd = Len(s2c) /\ rst /\ SocketError /\ UNCHANGED <<rd, chunk, result>>
  <2>1. PrefixOfReply(result)'
    BY <1>2, <1>5 DEF PrefixOfReply, Reply
  <2>2. PeerCounts'
    BY <1>1, <1>2, <1>5 DEF SocketError, PeerCounts, AfterReply
  <2>3. ReportFaithful'
    BY <1>5, FaithfulKept DEF SocketError
  <2>4. QED
    BY <1>3, <2>1, <2>2, <2>3 DEF PeerInv
<1>6. CASE /\ rd = Len(s2c) /\ closed /\ ~rst
           /\ chunk' = <<>> /\ cpc' = "sendlogoff"
           /\ UNCHANGED <<rd, result, msg>>
  <2>1. ~authOk
    BY <1>1, <1>6 DEF PeerCounts
  <2>2. PrefixOfReply(result)'
    BY <1>2, <1>6 DEF PrefixOfReply, Reply
  <2>3. PeerCounts'
    BY <1>1, <1>2, <1>6, <2>1 DEF PeerCounts, AfterReply
  <2>4. ReportFaithful'
    BY <1>6, FaithfulKept
  <2>5. QED
    BY <1>3, <2>2, <2>3, <2>4 DEF PeerInv
<1>7. QED
  BY <1>4, <1>5, <1>6 DEF RecvReply, RecvStep

(***************************************************************************)
(* Classify: the verdict is about the login that happened and, after an    *)
(* accepted one, about the status line Asterisk sent.                      *)
(***************************************************************************)
LEMMA ClassifyStep ==
    ASSUME PeerCounts, PrefixOfReply(s2c), PrefixOfReply(result), Classify
    PROVE  PeerInv'
<1>1. cpc = "classify" /\ cpc' = "done"
      /\ UNCHANGED <<authOk, type, peer, limits, all, s2c, writeEnds, rd, c2s,
                     srv, closed, result>>
  BY DEF Classify, inputs, net
<1>2. authOk => Contains(result, "authok") /\ Contains(result, "body")
  BY <1>1, ReplyContents DEF PeerCounts, AfterReply
<1>3. ~authOk => ~Contains(result, "authok")
  BY ReplyContents DEF PeerCounts
<1>4. authOk => PeerSeverity(result) = PeerSeverity(<<"body">>)
  <2>1. Contains(<<"body">>, "body")
    BY DEF Contains
  <2>2. QED
    BY <1>2, <2>1, SeverityOfBody
<1>5. msg' = "status" => authOk /\ exitCode' = PeerSeverity(<<"body">>)
  BY <1>3, <1>4 DEF Classify
<1>6. msg' = "authfail" => ~authOk
  BY <1>2 DEF Classify
<1>7. ReportFaithful'
  <2>1. PeerSeverity(<<"body">>)' = PeerSeverity(<<"body">>)
    BY <1>1, SeverityKept
  <2>2. QED
    BY <1>1, <1>5, <1>6, <2>1 DEF ReportFaithful
<1>8. PeerCounts'
  BY <1>1 DEF PeerCounts, AfterReply
<1>9. QED
  BY <1>1, <1>7, <1>8, PrefixesKept DEF PeerInv

(***************************************************************************)
(* Every step keeps PeerInv: one case per action of the plugin and of      *)
(* Asterisk.                                                               *)
(***************************************************************************)
LEMMA PeerStep == PeerInv /\ [Next]_vars => PeerInv'
<1> SUFFICES ASSUME PeerCounts, PrefixOfReply(s2c), PrefixOfReply(result),
                    ReportFaithful, [Next]_vars
             PROVE  PeerInv'
  BY DEF PeerInv
<1>1. CASE Start
  <2>1. /\ cpc = "start"
        /\ UNCHANGED <<authOk, s2c, writeEnds, rd, srv, closed, result>>
        /\ \/ cpc' = "done" /\ msg' \in {"usage", "cannotcontact"} /\ c2s' = c2s
           \/ cpc' = "sendaction" /\ c2s' = 1
    BY <1>1 DEF Start, inputs
  <2>2. PeerCounts'
    BY <2>1 DEF PeerCounts, AfterReply
  <2>3. QED
    BY <2>1, <2>2, PrefixesKept, FaithfulKept DEF PeerInv
<1>2. CASE SendAction
  <2>1. /\ cpc = "sendaction"
        /\ UNCHANGED <<authOk, s2c, writeEnds, rd, srv, closed, result>>
        /\ \/ cpc' = "done" /\ msg' = "cannotcontact" /\ c2s' = c2s
           \/ cpc' = "recv1" /\ c2s' = c2s + 1
    BY <1>2, SendEffect DEF SendAction, inputs
  <2>2. PeerCounts'
    BY <2>1 DEF PeerCounts, AfterReply
  <2>3. QED
    BY <2>1, <2>2, PrefixesKept, FaithfulKept DEF PeerInv
<1>3. CASE RecvReply
  BY <1>3, RecvReplyStep
<1>4. CASE SendLogoff
  <2>1. /\ cpc = "sendlogoff"
        /\ UNCHANGED <<authOk, s2c, writeEnds, rd, srv, closed, result>>
        /\ \/ cpc' = "done" /\ msg' = "cannotcontact" /\ c2s' = c2s
           \/ cpc' = "recv2" /\ c2s' = c2s + 1
    BY <1>4, SendEffect DEF SendLogoff, inputs
  <2>2. PeerCounts'
    BY <2>1 DEF PeerCounts, AfterReply
  <2>3. QED
    BY <2>1, <2>2, PrefixesKept, FaithfulKept DEF PeerInv
<1>5. CASE RecvBye
  <2>1. Cuts \subseteq 1..Len(s2c)
    BY DEF Cuts, PeerCounts
  <2>2. /\ cpc = "recv2"
        /\ UNCHANGED <<authOk, s2c, writeEnds, c2s, srv, closed, result>>
        /\ \/ rd' \in Cuts /\ cpc' \in {"recv2", "sendlogoff2"}
           \/ cpc' = "done" /\ msg' = "cannotcontact" /\ rd' = rd
           \/ cpc' = "sendlogoff2" /\ rd' = rd
    BY <1>5 DEF RecvBye, RecvStep, SocketError, inputs
  <2>3. PeerCounts'
    <3>1. rd' \in 0..Len(s2c)
      <4>1. rd \in 0..Len(s2c) /\ Len(s2c) \in Nat
        BY LenProperties DEF PeerCounts, PrefixOfReply
      <4>2. rd' \in Cuts \/ rd' = rd
        BY <2>2, Zenon
      <4>3. CASE rd' \in Cuts
        BY <2>1, <4>1, <4>3
      <4>4. CASE rd' = rd
        BY <4>1, <4>4
      <4>5. QED
        BY <4>2, <4>3, <4>4
    <3>2. rd' \in 0..Len(s2c') /\ cpc' \in AfterReply \cup {"done"}
      BY <2>2, <3>1 DEF AfterReply
    <3>3. QED
      BY <2>2, <3>2 DEF PeerCounts, AfterReply
  <2>4. QED
    BY <2>2, <2>3, PrefixesKept, FaithfulKept DEF PeerInv
<1>6. CASE SendLogoff2
  <2>1. /\ cpc = "sendlogoff2"
        /\ UNCHANGED <<authOk, s2c, writeEnds, rd, srv, closed, result>>
        /\ \/ cpc' = "done" /\ msg' = "cannotcontact" /\ c2s' = c2s
           \/ cpc' = "classify" /\ c2s' = c2s + 1
    BY <1>6, SendEffect DEF SendLogoff2, inputs
  <2>2. PeerCounts'
    BY <2>1 DEF PeerCounts, AfterReply
  <2>3. QED
    BY <2>1, <2>2, PrefixesKept, FaithfulKept DEF PeerInv
<1>7. CASE Classify
  BY <1>7, ClassifyStep
<1>8. CASE SrvGreet
  <2>1. Len(s2c) = 0 /\ srv = 0
    BY <1>8, EmptySeq DEF SrvGreet, PeerCounts, PrefixOfReply
  <2>2. /\ <<"banner">> \in Seq(Symbols) /\ Len(<<"banner">>) = 1
        /\ {1} \in SUBSET (1..Len(<<"banner">>))
        /\ Len(s2c) + Len(<<"banner">>) <= Len(Reply)
        /\ \A j \in 1..Len(<<"banner">>) : <<"banner">>[j] = Reply[Len(s2c) + j]
    BY <2>1 DEF Symbols, Reply
  <2>3. Emit(<<"banner">>, {1}) /\ UNCHANGED <<authOk, type, peer, limits, rd, c2s, cpc, result, exitCode, msg>>
        /\ UNCHANGED <<srv, closed>>
    BY <1>8 DEF SrvGreet, inputs
  <2>4. PrefixOfReply(s2c)' /\ Len(s2c') = Len(s2c) + 1
        /\ writeEnds' \subseteq 1..Len(s2c')
    BY <2>2, <2>3, EmitPrefix DEF PeerCounts
  <2>5. PeerCounts'
    BY <2>1, <2>3, <2>4 DEF PeerCounts, AfterReply
  <2>6. QED
    BY <2>3, <2>4, <2>5, ResultKept, FaithfulUnchanged DEF PeerInv
<1>9. CASE SrvLogin
  <2>1. Len(s2c) = 1 /\ srv = 0 /\ ~closed
    BY <1>9, EmptySeq DEF SrvLogin, PeerCounts, PrefixOfReply
  <2>2. srv' = 1 /\ UNCHANGED <<authOk, type, peer, limits, rd, c2s, cpc, result, exitCode, msg>>
    BY <1>9 DEF SrvLogin, inputs
  <2>3. CASE authOk
    <3>1. /\ <<"authok">> \in Seq(Symbols) /\ Len(<<"authok">>) = 1
          /\ {1} \in SUBSET (1..Len(<<"authok">>))
          /\ Len(s2c) + Len(<<"authok">>) <= Len(Reply)
          /\ \A j \in 1..Len(<<"authok">>) : <<"authok">>[j] = Reply[Len(s2c) + j]
      BY <2>1, <2>3 DEF Symbols, Reply
    <3>2. Emit(<<"authok">>, {1}) /\ closed' = closed
      BY <1>9, <2>3 DEF SrvLogin
    <3>3. PrefixOfReply(s2c)' /\ Len(s2c') = Len(s2c) + 1
          /\ writeEnds' \subseteq 1..Len(s2c')
      BY <2>2, <3>1, <3>2, EmitPrefix DEF PeerCounts
    <3>4. PeerCounts'
      BY <2>1, <2>2, <2>3, <3>2, <3>3 DEF PeerCounts, AfterReply
    <3>5. QED
      BY <2>2, <3>3, <3>4, ResultKept, FaithfulUnchanged DEF PeerInv
  <2>4. CASE ~authOk
    <3>1. /\ <<"authfail">> \in Seq(Symbols) /\ Len(<<"authfail">>) = 1
          /\ {1} \in SUBSET (1..Len(<<"authfail">>))
          /\ Len(s2c) + Len(<<"authfail">>) <= Len(Reply)
          /\ \A j \in 1..Len(<<"authfail">>) : <<"authfail">>[j] = Reply[Len(s2c) + j]
      BY <2>1, <2>4 DEF Symbols, Reply
    <3>2. Emit(<<"authfail">>, {1}) /\ closed' = TRUE
      BY <1>9, <2>4 DEF SrvLogin
    <3>3. PrefixOfReply(s2c)' /\ Len(s2c') = Len(s2c) + 1
          /\ writeEnds' \subseteq 1..Len(s2c')
      BY <2>2, <3>1, <3>2, EmitPrefix DEF PeerCounts
    <3>4. PeerCounts'
      BY <2>1, <2>2, <2>4, <3>2, <3>3 DEF PeerCounts, AfterReply
    <3>5. QED
      BY <2>2, <3>3, <3>4, ResultKept, FaithfulUnchanged DEF PeerInv
  <2>5. QED
    BY <2>3, <2>4
<1>10. CASE SrvCommand
  <2>1. Len(s2c) = 2 /\ srv = 1 /\ authOk /\ ~closed
    BY <1>10, EmptySeq DEF SrvCommand, PeerCounts, PrefixOfReply
  <2>2. /\ <<"head", "body", "dash", "end1", "end2">> \in Seq(Symbols) /\ Len(<<"head", "body", "dash", "end1", "end2">>) = 5
        /\ {1, 2, 5} \in SUBSET (1..Len(<<"head", "body", "dash", "end1", "end2">>))
        /\ Len(s2c) + Len(<<"head", "body", "dash", "end1", "end2">>) <= Len(Reply)
        /\ \A j \in 1..Len(<<"head", "body", "dash", "end1", "end2">>) : <<"head", "body", "dash", "end1", "end2">>[j] = Reply[Len(s2c) + j]
    BY <2>1 DEF Symbols, Reply
  <2>3. Emit(<<"head", "body", "dash", "end1", "end2">>, {1, 2, 5}) /\ UNCHANGED <<authOk, type, peer, limits, rd, c2s, cpc, result, exitCode, msg>>
        /\ srv' = 2 /\ UNCHANGED closed
    BY <1>10 DEF SrvCommand, inputs
  <2>4. PrefixOfReply(s2c)' /\ Len(s2c') = Len(s2c) + 5
        /\ writeEnds' \subseteq 1..Len(s2c')
    BY <2>2, <2>3, EmitPrefix DEF PeerCounts
  <2>5. PeerCounts'
    BY <2>1, <2>3, <2>4 DEF PeerCounts, AfterReply
  <2>6. QED
    BY <2>3, <2>4, <2>5, ResultKept, FaithfulUnchanged DEF PeerInv
<1>11. CASE SrvLogoff
  <2>1. Len(s2c) = 7 /\ srv = 2 /\ authOk /\ c2s >= 3
    BY <1>11, EmptySeq DEF SrvLogoff, PeerCounts, PrefixOfReply
  <2>2. /\ <<"bye">> \in Seq(Symbols) /\ Len(<<"bye">>) = 1
        /\ {1} \in SUBSET (1..Len(<<"bye">>))
        /\ Len(s2c) + Len(<<"bye">>) <= Len(Reply)
        /\ \A j \in 1..Len(<<"bye">>) : <<"bye">>[j] = Reply[Len(s2c) + j]
    BY <2>1 DEF Symbols, Reply
  <2>3. Emit(<<"bye">>, {1}) /\ UNCHANGED <<authOk, type, peer, limits, rd, c2s, cpc, result, exitCode, msg>>
        /\ srv' = 3 /\ closed' = TRUE
    BY <1>11 DEF SrvLogoff, inputs
  <2>4. PrefixOfReply(s2c)' /\ Len(s2c') = Len(s2c) + 1
        /\ writeEnds' \subseteq 1..Len(s2c')
    BY <2>2, <2>3, EmitPrefix DEF PeerCounts
  <2>5. PeerCounts'
    BY <2>1, <2>3, <2>4 DEF PeerCounts, AfterReply
  <2>6. QED
    BY <2>3, <2>4, <2>5, ResultKept, FaithfulUnchanged DEF PeerInv
<1>12. CASE RstArrive
  <2>1. UNCHANGED <<authOk, type, peer, limits, s2c, writeEnds, rd, c2s, srv,
                    closed, cpc, result, exitCode, msg>>
    BY <1>12 DEF RstArrive, inputs
  <2>2. PeerCounts'
    BY <2>1 DEF PeerCounts, AfterReply
  <2>3. QED
    BY <2>1, <2>2, PrefixesKept, FaithfulUnchanged DEF PeerInv
<1>13. CASE UNCHANGED vars
  <2>1. UNCHANGED <<authOk, type, peer, limits, s2c, writeEnds, rd, c2s, srv,
                    closed, cpc, result, exitCode, msg>>
    BY <1>13 DEF vars, inputs, net
  <2>2. PeerCounts'
    BY <2>1 DEF PeerCounts, AfterReply
  <2>3. ReportFaithful'
    BY <2>1, SeverityKept DEF ReportFaithful
  <2>4. QED
    BY <2>1, <2>2, <2>3, PrefixesKept DEF PeerInv
<1>14. QED
  BY <1>1, <1>2, <1>3, <1>4, <1>5, <1>6, <1>7, <1>8, <1>9, <1>10, <1>11,
     <1>12, <1>13 DEF Next, Plugin, Server

(***************************************************************************)
(* check_asterisk_peer reports a peer status only after Asterisk accepted  *)
(* the login, and then the one of the peer state Asterisk sent, however    *)
(* recv cuts the reply; it reports "Authentication failed" only when the   *)
(* login was refused.                                                      *)
(***************************************************************************)
THEOREM StatusFaithful == Spec => []ReportFaithful
<1>1. PeerInv => ReportFaithful
  BY DEF PeerInv
<1>2. QED
  BY <1>1, PeerInit, PeerStep, PTL DEF Spec

(***************************************************************************)
(* mysocket.send, with what it does to the RST: it raises socket.error    *)
(* once a RST has arrived, and otherwise sends one more request, which     *)
(* draws a RST when Asterisk has closed.                                   *)
(***************************************************************************)
LEMMA SendRst ==
    ASSUME NEW next, Send(next)
    PROVE  \/ /\ rst /\ cpc' = "done" /\ msg' = "cannotcontact"
              /\ c2s' = c2s /\ rstPending' = rstPending
           \/ /\ ~rst /\ cpc' = next /\ msg' = msg /\ c2s' = c2s + 1
              /\ rstPending' = (rstPending \/ closed)
BY DEF Send, SocketError

(***************************************************************************)
(* A send made before any RST arrived keeps RstInv: in an accepted        *)
(* session Asterisk has closed only once the plugin's third request goes   *)
(* out, and after it the plugin only classifies.                           *)
(***************************************************************************)
LEMMA SendNoRst ==
    ASSUME RstInv, authOk /\ (rstPending \/ closed \/ rst) => c2s >= 3,
           NEW next, NEW n \in Nat, c2s = n,
           \/ next = "recv1" /\ n = 1
           \/ next = "recv2" /\ n = 2
           \/ next = "classify" /\ n = 3,
           ~rst, cpc' = next, c2s' = n + 1,
           rstPending' = (rstPending \/ closed),
           UNCHANGED <<credsGiven, type, reachable, authOk, closed, rst>>
    PROVE  RstInv'
<1>1. (cpc' = "sendlogoff" => c2s' = 2)
      /\ (cpc' \in {"recv2", "sendlogoff2"} => c2s' = 3)
      /\ (c2s' >= 4 => cpc' \in {"classify", "done"})
  OBVIOUS
<1>2. rstPending' \/ rst' => closed'
  <2>1. rstPending => closed
    BY DEF RstInv
  <2>2. rstPending' => rstPending \/ closed
    OBVIOUS
  <2>3. ~rst' /\ closed' = closed
    OBVIOUS
  <2>4. QED
    BY <2>1, <2>2, <2>3
<1>3. authOk' /\ (rstPending' \/ rst') => cpc' \in {"classify", "done"}
  <2>1. authOk /\ closed => n = 3
    OBVIOUS
  <2>2. QED
    BY <1>2, <2>1
<1>4. SocketErrorOnlyOnRefusal'
  BY DEF SocketErrorOnlyOnRefusal
<1>5. {closed, rstPending, rst}' \subseteq BOOLEAN
  BY DEF RstInv
<1>6. QED
  BY <1>1, <1>2, <1>3, <1>4, <1>5 DEF RstInv

(***************************************************************************)
(* One of the plugin's sends keeps RstInv.  n is the number of requests    *)
(* sent before it, next where the code goes on.                           *)
(***************************************************************************)
LEMMA SendRstStep ==
    ASSUME RstInv, authOk /\ (rstPending \/ closed \/ rst) => c2s >= 3,
           NEW from, NEW next, NEW n \in Nat, cpc = from, c2s = n,
           from \notin {"classify", "done"},
           Send(next),
           UNCHANGED <<credsGiven, type, reachable, authOk, closed, rst>>,
           \/ next = "recv1" /\ n = 1
           \/ next = "recv2" /\ n = 2
           \/ next = "classify" /\ n = 3
    PROVE  RstInv'
<1>1. \/ /\ rst /\ cpc' = "done" /\ msg' = "cannotcontact"
         /\ c2s' = c2s /\ rstPending' = rstPending
      \/ /\ ~rst /\ cpc' = next /\ msg' = msg /\ c2s' = c2s + 1
         /\ rstPending' = (rstPending \/ closed)
  BY SendRst
<1>2. CASE rst
  BY <1>1, <1>2 DEF RstInv, SocketErrorOnlyOnRefusal
<1>3. CASE ~rst
  BY <1>1, <1>3, SendNoRst
<1>4. QED
  BY <1>2, <1>3

(***************************************************************************)
(* One recv of send_command keeps RstInv: with the RST arrived it raises   *)
(* socket.error, which in an accepted session cannot happen here.          *)
(***************************************************************************)
LEMMA RecvRstStep ==
    ASSUME RstInv, cpc = "recv1" => c2s = 2, RecvReply \/ RecvBye
    PROVE  RstInv'
<1>1. /\ cpc \in {"recv1", "recv2"}
      /\ UNCHANGED <<credsGiven, type, reachable, authOk, c2s, closed,
                     rstPending, rst>>
      /\ \/ cpc' = cpc /\ msg' = msg
         \/ cpc' = "sendlogoff" /\ cpc = "recv1" /\ msg' = msg
         \/ cpc' = "sendlogoff2" /\ cpc = "recv2" /\ msg' = msg
         \/ rst /\ cpc' = "done" /\ msg' = "cannotcontact"
  BY DEF RecvReply, RecvBye, RecvStep, SocketError, inputs
<1>2. QED
  BY <1>1 DEF RstInv, SocketErrorOnlyOnRefusal

LEMMA RstInit == Init => RstInv
<1> SUFFICES ASSUME Init PROVE RstInv
  OBVIOUS
<1>1. /\ cpc = "start" /\ c2s = 0
      /\ closed = FALSE /\ rstPending = FALSE /\ rst = FALSE
  BY DEF Init
<1>2. ~(c2s >= 4)
  BY <1>1
<1>3. QED
  BY <1>1, <1>2, Zenon DEF RstInv, SocketErrorOnlyOnRefusal

(***************************************************************************)
(* Every step keeps RstInv.  In an accepted session Asterisk closes only   *)
(* after the logoff, so a send draws a RST only from disconnect's second   *)
(* logoff, and the logoff's close can RST only once that send is made:    *)
(* both come after the plugin's last send and recv.                        *)
(***************************************************************************)
LEMMA RstStep == PeerInv /\ RstInv /\ [Next]_vars => RstInv'
<1> SUFFICES ASSUME PeerCounts, RstInv, [Next]_vars PROVE RstInv'
  BY DEF PeerInv
<1> USE DEF RstInv, SocketErrorOnlyOnRefusal
<1>1. authOk /\ (rstPending \/ closed \/ rst) => c2s >= 3
  BY DEF PeerCounts
<1>2. CASE Start
  <2>1. /\ cpc = "start" /\ c2s = 0
        /\ UNCHANGED <<credsGiven, type, reachable, authOk, closed, rstPending,
                       rst>>
        /\ \/ cpc' = "done" /\ msg' = "usage" /\ c2s' = c2s
           \/ cpc' = "done" /\ msg' = "cannotcontact" /\ ~reachable
              /\ c2s' = c2s
           \/ cpc' = "sendaction" /\ c2s' = 1
    BY <1>2 DEF Start, inputs, PeerCounts
  <2>2. QED
    BY <1>1, <2>1
<1>3. UNCHANGED <<inputs, closed, rst>>
      => UNCHANGED <<credsGiven, type, reachable, authOk, closed, rst>>
  BY DEF inputs
<1>4. CASE SendAction
  <2>1. cpc = "sendaction" /\ c2s = 1 /\ Send("recv1")
        /\ UNCHANGED <<inputs, closed, rst>>
    BY <1>4 DEF SendAction, PeerCounts
  <2>2. QED
    BY <1>1, <1>3, <2>1, SendRstStep
<1>5. CASE SendLogoff
  <2>1. cpc = "sendlogoff" /\ c2s = 2 /\ Send("recv2")
        /\ UNCHANGED <<inputs, closed, rst>>
    BY <1>5 DEF SendLogoff
  <2>2. QED
    BY <1>1, <1>3, <2>1, SendRstStep
<1>6. CASE SendLogoff2
  <2>1. cpc = "sendlogoff2" /\ c2s = 3 /\ Send("classify")
        /\ UNCHANGED <<inputs, closed, rst>>
    BY <1>6 DEF SendLogoff2
  <2>2. QED
    BY <1>1, <1>3, <2>1, SendRstStep
<1>8. CASE RecvReply \/ RecvBye
  <2>1. cpc = "recv1" => c2s = 2
    BY DEF PeerCounts
  <2>2. QED
    BY <1>8, <2>1, RecvRstStep
<1>10. CASE Classify
  <2>1. /\ cpc = "classify" /\ cpc' = "done"
        /\ msg' \in {"authfail", "printall", "status"}
        /\ UNCHANGED <<authOk, c2s, closed, rstPending, rst>>
    BY <1>10 DEF Classify, inputs, net
  <2>2. QED
    BY <2>1
<1>11. CASE SrvLogin
  <2>1. /\ UNCHANGED <<credsGiven, type, reachable, authOk, c2s, cpc, msg, rst>>
        /\ \/ authOk /\ UNCHANGED <<closed, rstPending>>
           \/ ~authOk /\ closed' = TRUE /\ rstPending' \in BOOLEAN
    BY <1>11 DEF SrvLogin, inputs
  <2>2. CASE authOk
    BY <2>1, <2>2
  <2>3. CASE ~authOk
    <3>1. closed' = TRUE /\ rstPending' \in BOOLEAN
      BY <2>1, <2>3
    <3>2. QED
      BY <2>1, <2>3, <3>1
  <2>4. QED
    BY <2>2, <2>3
<1>12. CASE SrvLogoff
  <2>1. /\ UNCHANGED <<credsGiven, type, reachable, authOk, c2s, cpc, msg, rst>>
        /\ closed' = TRUE /\ rstPending' \in BOOLEAN
        /\ (rstPending' => c2s > 3)
    BY <1>12 DEF SrvLogoff, inputs
  <2>2. c2s \in Nat
    BY DEF PeerCounts
  <2>3. QED
    BY <2>1, <2>2
<1>13. CASE RstArrive
  <2>1. /\ UNCHANGED <<credsGiven, type, reachable, authOk, c2s, cpc, msg,
                       closed, rstPending>>
        /\ rstPending /\ rst' = TRUE
    BY <1>13 DEF RstArrive, inputs
  <2>2. QED
    BY <2>1
<1>14. CASE SrvGreet \/ SrvCommand \/ UNCHANGED vars
  <2>1. UNCHANGED <<credsGiven, type, reachable, authOk, c2s, cpc, msg,
                    closed, rstPending, rst>>
    BY <1>14 DEF SrvGreet, SrvCommand, vars, inputs, net
  <2>2. QED
    BY <2>1
<1>15. QED
  BY <1>2, <1>4, <1>5, <1>6, <1>8, <1>10, <1>11, <1>12, <1>13, <1>14
     DEF Next, Plugin, Server

(***************************************************************************)
(* Every reachable state satisfies PeerInv, the invariant asterisk_peer    *)
(* checks: the stream and the reply kept are prefixes of Asterisk's full   *)
(* answer, and the reply kept after an accepted login reaches past the end *)
(* marker.                                                                 *)
(***************************************************************************)
THEOREM PeerInvariant == Spec => []PeerInv
BY PeerInit, PeerStep, PTL DEF Spec

(***************************************************************************)
(* check_asterisk_peer reports "Cannot contact Asterisk!" after a connect  *)
(* that succeeded only when Asterisk refused the login: the RST that can   *)
(* turn the refusal into a socket.error never reaches an accepted session  *)
(* while the plugin still uses the socket.                                 *)
(***************************************************************************)
THEOREM SocketErrorMeansRefusal == Spec => []SocketErrorOnlyOnRefusal
<1>1. Init => PeerInv /\ RstInv
  BY PeerInit, RstInit
<1>2. PeerInv /\ RstInv /\ [Next]_vars => (PeerInv /\ RstInv)'
  BY PeerStep, RstStep
<1>3. RstInv => SocketErrorOnlyOnRefusal
  BY DEF RstInv
<1>4. QED
  BY <1>1, <1>2, <1>3, PTL DEF Spec
=============================================================================
