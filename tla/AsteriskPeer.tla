---------------------------- MODULE AsteriskPeer ----------------------------
(***************************************************************************)
(* check_asterisk_peer (src/plugins-scripts/check_asterisk_peer.py): log   *)
(* into the Asterisk manager interface (AMI) over TCP, send one "command"  *)
(* action, read the reply until a chunk holds 'END COMMAND', log off, and  *)
(* classify the peer status found in the reply.                            *)
(*                                                                         *)
(* The byte stream from Asterisk is a sequence of symbols, one per piece   *)
(* of text the code or its parsing tells apart; Asterisk writes them in    *)
(* units (Writes):                                                         *)
(*   "banner"   Asterisk Call Manager/x.y                                  *)
(*   "authok"   Response: Success / Message: Authentication accepted       *)
(*   "authfail" Response: Error / Message: Authentication failed           *)
(*   "head"     Response: Follows / Privilege: Command                     *)
(*   "body"     the CLI output, with the peer's status line                *)
(*   "dash", "end1", "end2"   "--", "END CO", "MMAND--": the end marker    *)
(*   "bye"      Response: Goodbye                                          *)
(* A recv(4096) returns the unread bytes up to a cut: the end of a write,  *)
(* or, when the reply is longer than the 4096-byte buffer (Long), any      *)
(* byte.                                                                   *)
(*                                                                         *)
(* TCP close: Asterisk closes after a failed login and after logoff.  A    *)
(* close with client data still unread, or client data reaching the       *)
(* closed socket, makes the peer answer with RST; once it has arrived,     *)
(* send fails and recv fails when no data is left (socket.error).          *)
(***************************************************************************)
EXTENDS Integers, Sequences, SequencesExt

CONSTANTS
    Types,        \* values of -t: "sip", "iax", "pjsip", or another
    SipStates,    \* the status texts chan_sip/chan_iax2 write for a peer
    PjsipStates,  \* the contact states and RTTs "pjsip show aor" writes
    RttLimits,    \* -w/-c pairs for pjsip: <<>> or <<w, c>>
    Long          \* the reply may be cut inside a write

ASSUME PeerAssumption ==
    /\ SipStates \cup PjsipStates \subseteq [kind : STRING, rtt : Int]
    /\ RttLimits \subseteq Seq(Int)
    /\ Long \in BOOLEAN

VARIABLES
    credsGiven, type, all, reachable, authOk, peer, limits,   \* inputs
    cpc,          \* the plugin's program counter
    s2c,          \* everything Asterisk has written
    writeEnds,    \* positions of s2c where a write ends
    rd,           \* how much of s2c the plugin has read
    c2s,          \* requests sent: 1 login, 2 command, 3 and 4 logoff
    srv,          \* requests Asterisk has answered
    closed,       \* Asterisk has closed the connection
    rstPending,   \* a RST is on its way to the plugin
    rst,          \* the RST has arrived
    chunk,        \* the last recv's data
    result,       \* send_command(action)'s return value
    exitCode, msg

inputs == <<credsGiven, type, all, reachable, authOk, peer, limits>>
net == <<s2c, writeEnds, rd, c2s, srv, closed, rstPending, rst>>
vars == <<inputs, net, cpc, chunk, result, exitCode, msg>>

Init ==
    /\ credsGiven \in BOOLEAN
    /\ type \in Types
    /\ all \in BOOLEAN
    /\ reachable \in BOOLEAN
    /\ authOk \in BOOLEAN
    /\ peer \in IF type = "pjsip" THEN PjsipStates ELSE SipStates
    /\ limits \in RttLimits
    /\ cpc = "start"
    /\ s2c = <<>> /\ writeEnds = {} /\ rd = 0
    /\ c2s = 0 /\ srv = 0
    /\ closed = FALSE /\ rstPending = FALSE /\ rst = FALSE
    /\ chunk = <<>> /\ result = <<>>
    /\ exitCode = 3 /\ msg = "none"

(* Asterisk writes data, its writes ending at the given offsets of it. *)
Emit(data, offsets) ==
    /\ s2c' = s2c \o data
    /\ writeEnds' = writeEnds \cup {Len(s2c) + o : o \in offsets}

-----------------------------------------------------------------------------
(* The plugin. *)

(***************************************************************************)
(* Option checks: no -u/-s prints the help, an unknown or missing -t an    *)
(* error, both exit with the default 3.  Then connect(): a refused         *)
(* connection is a socket.error; otherwise the login is sent.              *)
(***************************************************************************)
Start ==
    /\ cpc = "start"
    /\ \/ /\ ~credsGiven \/ type \notin {"sip", "pjsip", "iax"}
          /\ cpc' = "done" /\ msg' = "usage"
          /\ UNCHANGED c2s
       \/ /\ credsGiven /\ type \in {"sip", "pjsip", "iax"}
          /\ ~reachable
          /\ cpc' = "done" /\ msg' = "cannotcontact"
          /\ UNCHANGED c2s
       \/ /\ credsGiven /\ type \in {"sip", "pjsip", "iax"}
          /\ reachable
          /\ c2s' = 1
          /\ cpc' = "sendaction"
          /\ UNCHANGED msg
    /\ UNCHANGED <<inputs, s2c, writeEnds, rd, srv, closed, rstPending, rst,
                   chunk, result, exitCode>>

(* The except socket.error: handler: print and exit with exitcode, 3. *)
SocketError ==
    /\ cpc' = "done" /\ msg' = "cannotcontact"

(***************************************************************************)
(* mysocket.send: fails once a RST has arrived; data sent to a closed      *)
(* socket draws a RST.  next is where the code goes on.                    *)
(***************************************************************************)
Send(next) ==
    \/ /\ rst
       /\ SocketError
       /\ UNCHANGED <<c2s, rstPending, chunk>>
    \/ /\ ~rst
       /\ c2s' = c2s + 1
       /\ rstPending' = (rstPending \/ closed)
       /\ chunk' = <<>>
       /\ cpc' = next
       /\ UNCHANGED msg

SendAction == cpc = "sendaction" /\ Send("recv1")
                 /\ UNCHANGED <<inputs, s2c, writeEnds, rd, srv, closed, rst,
                                result, exitCode>>
SendLogoffSwapped ==   \* mutant: disconnect's own send before send_command
    /\ cpc = "sendlogoff"
    /\ \/ /\ rst
          /\ SocketError
          /\ UNCHANGED <<c2s, rstPending, chunk>>
       \/ /\ ~rst
          /\ c2s' = c2s + 2
          /\ rstPending' = (rstPending \/ closed)
          /\ chunk' = <<>>
          /\ cpc' = "recv2"
          /\ UNCHANGED msg
    /\ UNCHANGED <<inputs, s2c, writeEnds, rd, srv, closed, rst, result,
                   exitCode>>
SendLogoff == cpc = "sendlogoff" /\ Send("recv2")
                 /\ UNCHANGED <<inputs, s2c, writeEnds, rd, srv, closed, rst,
                                result, exitCode>>
(* disconnect's own mysocket.send(logout), then close(). *)
SendLogoff2 == cpc = "sendlogoff2" /\ Send("classify")
                 /\ UNCHANGED <<inputs, s2c, writeEnds, rd, srv, closed, rst,
                                result, exitCode>>

(* string.find(data,'END COMMAND') > 0: the marker, not at index 0. *)
HasMarker(d) == \E k \in 2..Len(d) - 1 : d[k] = "end1" /\ d[k + 1] = "end2"

Cuts == IF Long THEN 1..Len(s2c) ELSE writeEnds

RecvStepMarkerOnly(keep, after) ==   \* mutant: the len(data)==0 test dropped
    \/ \E c \in Cuts :
          /\ rd < c
          /\ chunk' = SubSeq(s2c, rd + 1, c)
          /\ rd' = c
          /\ result' = IF keep THEN result \o chunk' ELSE result
          /\ cpc' = IF HasMarker(chunk') THEN after ELSE cpc
          /\ UNCHANGED msg
    \/ /\ rd = Len(s2c) /\ rst
       /\ SocketError
       /\ UNCHANGED <<rd, chunk, result>>
    \/ /\ rd = Len(s2c) /\ closed /\ ~rst
       /\ chunk' = <<>>
       /\ UNCHANGED <<rd, result, msg, cpc>>

(* The recv loop of send_command, for the reply kept in result or not. *)
RecvStep(keep, after) ==
    \/ \E c \in Cuts :
          /\ rd < c
          /\ chunk' = SubSeq(s2c, rd + 1, c)
          /\ rd' = c
          /\ result' = IF keep THEN result \o chunk' ELSE result
          /\ cpc' = IF HasMarker(chunk') THEN after ELSE cpc
          /\ UNCHANGED msg
    \/ /\ rd = Len(s2c) /\ rst
       /\ SocketError
       /\ UNCHANGED <<rd, chunk, result>>
    \/ /\ rd = Len(s2c) /\ closed /\ ~rst       \* recv returns ''
       /\ chunk' = <<>>
       /\ cpc' = after
       /\ UNCHANGED <<rd, result, msg>>

RecvKeepLastChunk ==   \* mutant: myrcvd = data instead of myrcvd + data
    /\ cpc = "recv1"
    /\ \/ \E c \in Cuts :
             /\ rd < c
             /\ chunk' = SubSeq(s2c, rd + 1, c)
             /\ rd' = c
             /\ result' = chunk'
             /\ cpc' = IF HasMarker(chunk') THEN "sendlogoff" ELSE cpc
             /\ UNCHANGED msg
       \/ /\ rd = Len(s2c) /\ rst
          /\ SocketError
          /\ UNCHANGED <<rd, chunk, result>>
       \/ /\ rd = Len(s2c) /\ closed /\ ~rst
          /\ chunk' = <<>>
          /\ cpc' = "sendlogoff"
          /\ UNCHANGED <<rd, result, msg>>
    /\ UNCHANGED <<inputs, s2c, writeEnds, c2s, srv, closed, rstPending, rst,
                   exitCode>>

(* result = send_command(action): the loop over recv. *)
RecvReply ==
    /\ cpc = "recv1"
    /\ RecvStep(TRUE, "sendlogoff")
    /\ UNCHANGED <<inputs, s2c, writeEnds, c2s, srv, closed, rstPending, rst,
                   exitCode>>

(* disconnect: send_command(logout), its reply thrown away. *)
RecvBye ==
    /\ cpc = "recv2"
    /\ RecvStep(FALSE, "sendlogoff2")
    /\ UNCHANGED <<inputs, s2c, writeEnds, c2s, srv, closed, rstPending, rst,
                   exitCode>>

(***************************************************************************)
(* The verdict on the peer's status line, per -t.  get_peer_status takes   *)
(* the text from 'Status' to the end of its line: the "body" holds it, and *)
(* without it the text is empty and matches nothing.  The sip/iax tests    *)
(* are case sensitive: OK, LAGGED, UNKNOWN, then 'unmonitored'.  pjsip:    *)
(* 'unavail' before 'avail' (its substring), then the RTT against -w/-c.   *)
(***************************************************************************)
PeerSeverity(res) ==
    LET found == Contains(res, "body")
        k == IF found THEN peer.kind ELSE "none"
    IN  IF type = "pjsip"
        THEN IF k = "Unavail" THEN 2
             ELSE IF k = "Avail"
                  THEN IF limits = <<>> THEN 0
                       ELSE IF peer.rtt > limits[2] THEN 2
                       ELSE IF peer.rtt > limits[1] THEN 1 ELSE 0
             ELSE 3
        ELSE CASE k = "OK"          -> 0
               [] k = "LAGGED"      -> 1
               [] k = "UNKNOWN"     -> 3
               [] k = "unmonitored" -> 1
               [] OTHER             -> 2

(* The "check auth" block and sys.exit(exitcode). *)
Classify ==
    /\ cpc = "classify"
    /\ cpc' = "done"
    /\ \/ /\ ~Contains(result, "authok")
          /\ exitCode' = 2 /\ msg' = "authfail"
       \/ /\ Contains(result, "authok") /\ all
          /\ msg' = "printall" /\ UNCHANGED exitCode
       \/ /\ Contains(result, "authok") /\ ~all
          /\ exitCode' = PeerSeverity(result) /\ msg' = "status"
    /\ UNCHANGED <<inputs, net, chunk, result>>

-----------------------------------------------------------------------------
(* Asterisk and the network. *)

(* On accepting the connection Asterisk writes its banner. *)
SrvGreet ==
    /\ c2s >= 1 /\ s2c = <<>>
    /\ Emit(<<"banner">>, {1})
    /\ UNCHANGED <<inputs, rd, c2s, srv, closed, rstPending, rst, cpc, chunk,
                   result, exitCode, msg>>

(***************************************************************************)
(* The login: "Authentication accepted", or "Authentication failed" and    *)
(* the session ends.  If the command has already arrived, Asterisk may     *)
(* have read it into its buffer (FIN) or not (the close sends RST).        *)
(***************************************************************************)
SrvLogin ==
    /\ s2c # <<>> /\ c2s >= 1 /\ srv = 0
    /\ srv' = 1
    /\ \/ /\ authOk
          /\ Emit(<<"authok">>, {1})
          /\ UNCHANGED <<closed, rstPending>>
       \/ /\ ~authOk
          /\ Emit(<<"authfail">>, {1})
          /\ closed' = TRUE
          /\ rstPending' \in IF c2s > 1 THEN BOOLEAN ELSE {FALSE}
    /\ UNCHANGED <<inputs, rd, c2s, rst, cpc, chunk, result, exitCode, msg>>

(* The command: header, CLI output, and "--END COMMAND--" in one write. *)
SrvCommand ==
    /\ c2s >= 2 /\ srv = 1 /\ ~closed
    /\ srv' = 2
    /\ Emit(<<"head", "body", "dash", "end1", "end2">>, {1, 2, 5})
    /\ UNCHANGED <<inputs, rd, c2s, closed, rstPending, rst, cpc, chunk,
                   result, exitCode, msg>>

(* The logoff: "Goodbye" and close; a second logoff already arrived is    *)
(* unread data, so the close may be a RST.                                *)
SrvLogoff ==
    /\ c2s >= 3 /\ srv = 2 /\ ~closed
    /\ srv' = 3
    /\ Emit(<<"bye">>, {1})
    /\ closed' = TRUE
    /\ rstPending' \in IF c2s > 3 THEN BOOLEAN ELSE {FALSE}
    /\ UNCHANGED <<inputs, rd, c2s, rst, cpc, chunk, result, exitCode, msg>>

RstArrive ==
    /\ rstPending /\ ~rst
    /\ rst' = TRUE
    /\ UNCHANGED <<inputs, s2c, writeEnds, rd, c2s, srv, closed, rstPending,
                   cpc, chunk, result, exitCode, msg>>

Plugin == Start \/ SendAction \/ RecvReply \/ SendLogoff \/ RecvBye
          \/ SendLogoff2 \/ Classify
Server == SrvGreet \/ SrvLogin \/ SrvCommand \/ SrvLogoff

Next == Plugin \/ Server \/ RstArrive

(***************************************************************************)
(* The plugin and Asterisk are running processes and the network delivers *)
(* what is sent: every step is weakly fair.                                *)
(***************************************************************************)
Fairness == WF_vars(Plugin) /\ WF_vars(Server) /\ WF_vars(RstArrive)

Spec == Init /\ [][Next]_vars /\ Fairness

-----------------------------------------------------------------------------
(***************************************************************************)
(* The plugin exits: no recv loop waits for data that never comes.         *)
(***************************************************************************)
PeerTermination == <>(cpc = "done")

(***************************************************************************)
(* The verdict is about the login that happened: a peer status is          *)
(* reported only when Asterisk accepted the login, and then it is the      *)
(* classification of the status Asterisk sent; "Authentication failed"     *)
(* only when Asterisk refused it.                                          *)
(***************************************************************************)
ReportFaithful ==
    cpc = "done" =>
        /\ msg = "status" => authOk /\ exitCode = PeerSeverity(<<"body">>)
        /\ msg = "authfail" => ~authOk

(***************************************************************************)
(* A refused login is reported as such (the code's "Critical -             *)
(* Authentication failed" branch), never as "Cannot contact Asterisk".     *)
(***************************************************************************)
AuthFailureReported ==
    cpc = "done" /\ credsGiven /\ type \in {"sip", "pjsip", "iax"}
    /\ reachable /\ ~authOk
        => msg = "authfail" /\ exitCode = 2

(***************************************************************************)
(* After a connect that succeeded, "Cannot contact Asterisk" (the          *)
(* socket.error handler) is reported only when Asterisk refused the        *)
(* login: an accepted session's logoffs never draw a RST that a later send *)
(* or recv of the plugin meets.                                            *)
(***************************************************************************)
SocketErrorOnlyOnRefusal ==
    cpc = "done" /\ msg = "cannotcontact" /\ reachable
    /\ credsGiven /\ type \in {"sip", "pjsip", "iax"} => ~authOk

(***************************************************************************)
(* What Asterisk writes on this socket is a prefix of Reply: the banner,   *)
(* then on an accepted login the command's reply and the Goodbye, on a     *)
(* refused one nothing more.                                               *)
(***************************************************************************)
Symbols == {"banner", "authok", "authfail", "head", "body", "dash", "end1",
            "end2", "bye"}
Reply ==
    IF authOk THEN <<"banner", "authok", "head", "body", "dash", "end1",
                     "end2", "bye">>
              ELSE <<"banner", "authfail">>
PrefixOfReply(s) ==
    /\ s \in Seq(Symbols) /\ Len(s) <= Len(Reply)
    /\ \A i \in 1..Len(s) : s[i] = Reply[i]

AfterReply == {"sendlogoff", "recv2", "sendlogoff2", "classify"}

(***************************************************************************)
(* The inductive invariant behind ReportFaithful.  The stream, and the     *)
(* reply the plugin keeps, are prefixes of Reply; how much Asterisk has    *)
(* written follows from the requests it answered; it closes only after a   *)
(* refused login or the logoff, and the logoff comes after the command.    *)
(* send_command(action) starts reading at the first byte, so during it     *)
(* 'myrcvd' is all that was read; after an accepted login it ends only on  *)
(* the marker, so the reply kept runs at least to "END COMMAND".           *)
(***************************************************************************)
PeerCounts ==
    /\ authOk \in BOOLEAN /\ c2s \in Nat /\ srv \in 0..3
    /\ rd \in 0..Len(s2c) /\ writeEnds \subseteq 1..Len(s2c)
    /\ srv = 0 => Len(s2c) <= 1
    /\ srv = 1 => Len(s2c) = 2
    /\ srv = 2 => Len(s2c) = 7
    /\ srv = 3 => Len(s2c) = 8 /\ c2s >= 3
    /\ srv >= 2 => authOk
    /\ closed <=> (srv = 1 /\ ~authOk) \/ srv = 3
    /\ cpc = "start" => c2s = 0
    /\ cpc = "sendaction" => c2s = 1
    /\ cpc = "recv1" => c2s = 2
    /\ cpc \in {"start", "sendaction", "recv1"} => Len(result) = rd
    /\ cpc \in AfterReply /\ authOk => Len(result) >= 7
PeerInv ==
    /\ PeerCounts
    /\ PrefixOfReply(s2c) /\ PrefixOfReply(result)
    /\ ReportFaithful

(***************************************************************************)
(* The inductive invariant behind SocketErrorOnlyOnRefusal: disconnect     *)
(* sends its logoffs one at a time, a RST follows a close, and in an       *)
(* accepted session the only RST comes after the plugin's last send.      *)
(***************************************************************************)
RstInv ==
    /\ {closed, rstPending, rst} \subseteq BOOLEAN
    /\ cpc = "sendlogoff" => c2s = 2
    /\ cpc \in {"recv2", "sendlogoff2"} => c2s = 3
    /\ c2s >= 4 => cpc \in {"classify", "done"}
    /\ rstPending \/ rst => closed
    /\ authOk /\ (rstPending \/ rst) => cpc \in {"classify", "done"}
    /\ SocketErrorOnlyOnRefusal
=============================================================================
