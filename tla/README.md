# Formal models of the Python plugins of monitoring-plugins

This directory holds TLA+ models of the Python parts of the repository:
`src/contrib/check_nmap.py` with its helper library `src/contrib/utils.py`,
`src/contrib/check_pcpmetric.py` and
`src/plugins-scripts/check_asterisk_peer.py`. TLC model-checks the models
on small instances. TLAPS proves the main invariants of the check_nmap
state machine for every value of the constants. It also proves that the
state machine implements an abstract specification of the plugin.

## 1. The system

`check_nmap` is a Nagios plugin. It runs `nmap` against one host, reads the
report, and compares the open ports with the required (`-p`) and optional
(`-o`) ports. The outcome is one status line and an exit code:
0 OK, 1 WARNING, 2 CRITICAL, -1 UNKNOWN. It has four parts.

| Part | Source | What it does | State |
|---|---|---|---|
| command line | check_nmap.py 84-193 | getopt; host, `-p`, `-o`, `-t` | `exit_code`, `exit_msg`, `timeout`, `ports`, `opt_ports` |
| Task | utils.py 44-262 | fork; the child redirects stdout to the temp file and execs nmap; the parent polls `waitpid(WNOHANG)` and calls an idle function between polls; Ctrl-C is forwarded as SIGINT | `pid`, `status` (None until reaped) |
| TimeoutHandler | utils.py 281-310 | `stop_time = now + int(ttl)`; `Check` runs `TimeOut` (sets `aborted`, calls `t.Kill` = SIGTERM) on **every** call past the deadline | `stop_time`, `aborted` |
| CheckHost / CleanUp | check_nmap.py 196-372 | timeout test, then exit-status test, then read the temp file, scrape the open ports, drop the optional ports, compare; CleanUp removes the temp file and clamps the exit code | `active_ports`, temp file |

How they interact. Two processes run concurrently: the plugin and its
child. The child creates the temp file after the fork, not before, so the
parent and child race on it. Signals are the only messages between them.
The OS delivers a signal only while the child is alive, and a zombie
ignores it. The child's exit is observed at the next poll at the
earliest. Three things come from the environment:
- the wall clock, which advances one second per sleep;
- the operator's Ctrl-C;
- a second invocation that drew the same `mktemp` name, whose CleanUp
  removes this invocation's file. The comments at check_nmap.py 206-208
  and 344-350 anticipate this case.

The other plugins:
- `check_pcpmetric.py` starts `pmval` with stdout and stderr on one pipe
  (`popen2.Popen4`). It waits for pmval to exit, then reads the pipe to
  its last line and compares the first word with `-w`/`-c`. Two processes
  share the pipe, and the pipe's capacity is bounded.
- `check_asterisk_peer.py` logs into the Asterisk manager interface (AMI)
  over TCP and sends one `command` action. It reads the reply in
  4096-byte chunks until a chunk contains `END COMMAND`. It then logs off
  (`send_command(logout)`, a second `send(logout)`, `close`) and
  classifies the peer status. Three parties interact: the plugin,
  Asterisk, and the TCP stack, which cuts the stream into chunks and
  answers data sent to a closed socket with a RST. Any `socket.error`
  ends in one handler.

## 2. Modules

| Module | Models | Kind |
|---|---|---|
| `PortLogic` | the scraping loop, the optional-port removal, CheckOpen, CheckClosed, the verdict (check_nmap.py 266-337) | pure operators, folds over sequences |
| `NmapTask` | CheckNmap.Run/CheckHost/CleanUp with Task and TimeoutHandler, the child, clock, Ctrl-C and a colliding invocation | state machine |
| `PortCheck` | one classification of an arbitrary bounded report, and the spec's set-based definition of the verdict | state machine (one step) plus reference definition |
| `NmapPlugin` | spec section 4: Configured → Scanning → ParsingOutput → Classified → Done, with the early exits | abstract specification |
| `NmapRefinement` | the refinement mapping from `NmapTask` to `NmapPlugin` | INSTANCE ... WITH |
| `PcpMetric` | check_pcpmetric.py 14-106 with pmval and the pipe | state machine |
| `AsteriskPeer` | check_asterisk_peer.py 31-223 with Asterisk and TCP | state machine |
| `MC_NmapTask`, `MC_PortCheck`, `MC_NmapRefinement`, `MC_PcpMetric`, `MC_AsteriskPeer` | the TLC instances | model values and small sets |
| `NmapTaskProofs` | TLAPS proofs about `NmapTask` | theorems |
| `NmapRefinementProofs` | TLAPS proof that `NmapTask` implements `NmapPlugin` | theorems |

### NmapTask: state and actions

`pc` is the plugin's program counter. Its values are start, run, wait,
idle, sleep, afterwait, read, cleanup, done and crashed.

`child` follows the child: none, setup (forked, before exec), scanning
(nmap running), exited (zombie) and reaped.

Task and TimeoutHandler state maps directly:
- `status` is Task.status;
- `childStatus` is the raw waitpid status the child will have. 256 is
  `exit(1)`. 2 and 15 are death by SIGINT and SIGTERM;
- `stopTime`, `aborted` and `now` are the handler's state and the clock;
- `pending` holds the signals delivered to the live child.

The two counters are bounded:
- `kills` counts the TimeOut calls, saturating at `MaxKills`;
- `interrupts` counts the Ctrl-Cs, bounded by `MaxInterrupts`.

`file` and `report` are the temp file and the report nmap wrote into it.
`exitCode` and `exitMsg` are the plugin's outcome; the message is
abstracted to which branch produced it.

| Action | Code |
|---|---|
| `Init` | `__init__`/ParseCmdLine: host present or not (UNKNOWN "no host"), `-t` an integer or not |
| `Start` | Run: CheckHost only if `exit_code == 0`; TimeoutHandler's `int(ttl)` raises for a non-integer (→ `crashed`, exit 1, no CleanUp) |
| `TaskRun` | Task.Run, parent side (fork) |
| `ChildSetup` | Task.Run, child side: open stdout (creates the file) and exec; a failure is `sys.exit(1)` |
| `ChildFinish` | nmap exits 0 with a report from `Reports`, or exits with an error (environment) |
| `ChildSignalled` | the live child dies of a pending signal; SIGINT before the exec is a KeyboardInterrupt → exit 1 |
| `WaitPoll` | `waitpid(WNOHANG)`: reap a zombie and leave the loop, or go to the idle call |
| `Check` (+ `Kill`) | TimeoutHandler.Check/TimeOut and Task.Kill (no effect once reaped or dead) |
| `Sleep` | `time.sleep(1)` |
| `Interrupt` | KeyboardInterrupt in the loop → `Kill(SIGINT)`, loop again |
| `AfterWait` | WasTimeOut first, then the exit status |
| `ReadOutput` | read the temp file (failure → UNKNOWN), then `Classify` from PortLogic |
| `CleanUp` | remove the file; clamp an exit code outside -1..2 |
| `OtherCleanUp` | a colliding invocation removes the file (at most once) |

### PortLogic

A report line is abstracted to the properties the scraper distinguishes:
- its kind (short, noword, header, port, badport);
- its port number;
- nmap's state column;
- whether the service name contains the substring `open`.

`ScrapeLine` is one iteration of the loop. The `stop` flag records that an
exception left the loop; the `try` encloses the whole loop, so all later
lines are ignored. `RemoveOptional` behaves the same way for
`list.remove`. Both loops are `FoldLeft`s.

### NmapPlugin and the refinement

`NmapPlugin` knows no clock, child, polling or signals. Its state is:
- `hostGiven`;
- `phase`;
- `expired`, which says the deadline passed during the scan;
- `aReport`, the report once it is read;
- `code` and `message`.

Its actions are `BadConfig`, `StartScan`, `Expire`, `ScanEnds`,
`ParseOutput` and `Report`. A scan that ends after the deadline is a
timeout, whatever the scan did. The verdict on a report is a constant
operator `Verdict(_)`, so the abstract run does not depend on how ports
are scraped.

`NmapRefinement` maps the detailed state onto the abstract one:
- `phase` is `PhaseOf(pc)`: run, wait, idle, sleep and afterwait are
  Scanning; read is ParsingOutput; cleanup is Classified;
- `expired` is `aborted`;
- `aReport` is nmap's report from the moment CheckHost reads it;
- `Verdict` is `Classify(r, Ports, OptPorts).code`.

Under this mapping:
- the wait loop, the clock, signals, the child and a colliding cleanup are
  stutters;
- the first TimeOut is `Expire`;
- AfterWait is `ScanEnds`;
- ReadOutput is `ParseOutput`;
- CleanUp is `Report`.

A non-integer `-t` is outside the refinement, because the plugin then
crashes in a state the abstract spec has no phase for (finding 1).

### PcpMetric: state and actions

The thresholds keep their Python 2 types. `warn` and `crit` are
`[str, num]` records: `Unset` is the integer 0 the globals start with,
and `Arg(n)` is the string getopt returns. `PyLess` and `PyGreater` are
Python 2's mixed comparisons, in which every number is below every string.
pmval's output `out` is a sequence of value lines and text lines. `pipe`
holds at most `PipeCap` unread lines.

| Action | Code |
|---|---|
| `Start` | no `-m`: usage, exit 3; else Popen4 (68-74) |
| `ChildWrite`, `ChildExit` | pmval writes a line (blocks on a full pipe), exits (environment) |
| `Wait` | `p.wait()` (75), before any read |
| `ReadLine` | one iteration of the readline loop, or its end at EOF (77-81) |
| `Parse` | `split(output)[0]`: NameError exit 1 if nothing was read; `atof` ValueError exit 3; else the threshold chain `Severity` (83-106) |

### AsteriskPeer: state and actions

The byte stream from Asterisk is a sequence of symbols, one per piece of
text that the code tells apart: banner, authok, authfail, head, body,
the marker split into dash/end1/end2, and bye. The set `writeEnds` holds
the ends of Asterisk's writes. A recv returns the unread data up to a cut.
A cut is the end of a write or, when `Long` is set, any position (a reply
longer than 4096 bytes). The TCP state is:
- `closed`: Asterisk has closed its end;
- `rstPending` and `rst`: a RST drawn by unread or late client data, and
  its arrival.

| Action | Code |
|---|---|
| `Start` | option checks (69-89), connect and login (106-108) |
| `SendAction`, `SendLogoff`, `SendLogoff2` | `mysocket.send` in send_command and disconnect (110-117) |
| `RecvReply`, `RecvBye` | send_command's recv loop (`RecvStep`, 120-128) for the action and for the logoff |
| `Classify` | the check-auth block and the status chain (`PeerSeverity`, 130-219) |
| `SocketError` | the `except socket.error` handler (221-223) |
| `SrvGreet`, `SrvLogin`, `SrvCommand`, `SrvLogoff`, `RstArrive` | Asterisk and TCP (environment) |

## 3. Runs

| Run | cfg | Expect | Checks |
|---|---|---|---|
| nmap_task | MC_NmapTask.cfg | pass (3320 states) | TypeOK, ReportFaithful, TmpFileRemoved, Termination, OutcomeFinal |
| nmap_no_traceback | MC_NmapTask_NoTraceback.cfg | violation | NoTraceback: no uncaught exception |
| port_check | MC_PortCheck.cfg | pass (26352 states) | AgreesWhenOptionalOpen |
| port_optional | MC_PortCheck_optional.cfg | violation | AlwaysAgreesWithSpec, with `-o` lists naming a closed port |
| port_service | MC_PortCheck_service.cfg | violation | AlwaysAgreesWithSpec, with service names containing "open" |
| nmap_refinement | MC_NmapRefinement.cfg | pass (3315 states) | Refines: NmapTask implements NmapPlugin, fairness included |
| pcp_metric | MC_PcpMetric.cfg | pass (666 states) | ReadsLastLine, StreamInv, PcpTermination |
| pcp_thresholds | MC_PcpMetric_thresholds.cfg | violation | ThresholdsAsDocumented |
| pcp_pipe | MC_PcpMetric_pipe.cfg | violation | PcpTermination, with an output longer than the pipe |
| asterisk_peer | MC_AsteriskPeer.cfg | pass (2524 states) | ReportFaithful, PeerInv, RstInv, SocketErrorOnlyOnRefusal, PeerTermination |
| asterisk_split | MC_AsteriskPeer_split.cfg | violation | PeerTermination, with recv cuts anywhere |
| asterisk_authfail | MC_AsteriskPeer_authfail.cfg | violation | AuthFailureReported |

The properties:
- **ReportFaithful.** At exit, the message says "timed out" exactly when
  the handler fired. A verdict or "unable to get output" comes only after
  nmap exited 0. A verdict is the classification of the report nmap
  actually wrote. Breaking it takes several steps: a race between the
  child's exit, the timeout and a Ctrl-C, followed by the choice in
  AfterWait.
- **TmpFileRemoved.** Every path to exit removes the temp file, including
  the paths where the child creates it late.
- **OutcomeFinal** (an action property). Once CheckHost has set a
  message, no later step replaces it: not a timeout message, an nmap
  failure, a bad `-H` or a verdict. It rests on the `return` after each
  message, and it fails if the timeout branch falls through to reading
  the temp file.
- **Termination.** The plugin always exits, even when nmap hangs.
- **AgreesWhenOptionalOpen.** For reports that name each port at most once
  (nmap's TCP report does), the code's verdict and both port lists equal
  the spec's definition, whenever every optional port is open.
  `AlwaysAgreesWithSpec`, without that hypothesis and with service names,
  fails.
- **Refines.** Every behaviour of NmapTask with an integer `-t`, mapped
  through `NmapRefinement`, is a behaviour of `NmapPlugin!ASpec`. The
  check includes the abstract weak fairness, so every run reaches Done.
- **ReadsLastLine (PcpMetric).** When the plugin parses, `output` is the
  last line pmval wrote, or unset when pmval wrote nothing.
- **ReportFaithful (AsteriskPeer).** A peer status is reported only after
  Asterisk accepted the login, and it is the classification of the peer
  state Asterisk sent. "Authentication failed" is reported only when the
  login was refused. Breaking it takes several recv chunks (Asterisk's
  writes end at 1, 2 and 5 lines of the reply) and the close after a
  refused login. It says nothing of "Cannot contact Asterisk!":
  SocketErrorOnlyOnRefusal does.
- **SocketErrorOnlyOnRefusal (AsteriskPeer).** After a connect that
  succeeded, with credentials and a known peer type, "Cannot contact
  Asterisk!" is reported only when Asterisk refused the login. This bounds
  finding 7: an accepted session never ends in socket.error. The only RST
  of an accepted session comes after the plugin's last send and recv,
  because Asterisk closes only on the logoff. Breaking it takes the order
  of disconnect's two sends, Asterisk's close and the RST's arrival.
- **PcpTermination, PeerTermination.** check_pcpmetric and
  check_asterisk_peer exit. In pcp_metric every output fits the pipe,
  and in asterisk_peer every recv ends at a write's end, so these runs
  show the EOF and `len(data) == 0` tests at work. The hangs of findings
  5 and 6 are shown by the violation runs pcp_pipe and asterisk_split.
- **StreamInv, PeerInv and RstInv.** These are the inductive invariants
  the proofs of ReadsLastLine, ReportFaithful (AsteriskPeer) and
  SocketErrorOnlyOnRefusal rest on (section 5). TLC checks them on the
  same instances, and each is also proved as an invariant of its own.

Bounds and why they are enough:
- **nmap_task.** The timeouts are -1, 0 and 2 s, plus a non-integer. With 2
  s the child can finish before, at or after the deadline. `ClockCap = 2`
  is the largest deadline, and later comparisons cannot change.
  `MaxKills = 2` is enough to show the repeated kill. One Ctrl-C lets it
  race the timeout. The three reports give OK, WARNING (required 22
  absent), an optional port (80) and CRITICAL (443 open).
- **port_check.** The check covers every report of up to 3 lines over
  header and short lines, and ports 22/80/443 in each state. It also
  covers `-p` lists of up to two ports and `-o` lists of up to two ports,
  in both orders.

- **pcp_metric.** The values are 0..3 and the thresholds 1 and 2, which
  covers values below, at and above each threshold. There are five
  outputs: the two header lines plus one value, a single text line, and
  nothing. The pipe holds 3 lines, so every output fits. `pcp_pipe` adds
  a five-line output.
- **asterisk_peer.** The types are sip, pjsip and another. Each sip state
  kind is present; pjsip covers Avail with RTT below and above the limits,
  and Unavail. The RTT limits are none or 10/100. Logins are accepted or
  refused, with or without a RST.

Fairness. For PcpMetric, WF on every step: the plugin and pmval are
running processes. For AsteriskPeer, WF separately on the plugin, on
Asterisk and on RST delivery: Asterisk answers every complete request,
and the network delivers a RST. NmapTask: WF on the plugin's steps, because it is a running process. WF on
the child's setup, which is a few system calls. WF on dying of a pending
signal: nmap does not ignore SIGTERM. nmap finishing on its own is not
fair, because a scan can hang; that case is what the timeout is for.
Ctrl-C and the colliding invocation are environment and are not fair.
`CHECK_DEADLOCK FALSE` is set because the plugin really stops in done or
crashed.

Each passing property has a mutant that breaks it (PROJECT.json "mutants"):
- the exit status tested before the timeout;
- the timeout branch returning without CleanUp;
- TimeOut without the kill;
- the scraper without the 'open' test;
- TimeOut's kill_func sending SIGKILL instead of Kill's SIGTERM;
- no `return` after the timeout message;
- `myrcvd = data` instead of `myrcvd + data` in send_command;
- the readline loop keeping the first line instead of the last;
- the readline loop not ending at EOF;
- the recv loop without its `len(data) == 0` test;
- disconnect's own logoff send made before send_command(logout)'s, which
  lets the logoff's close RST a recv of an accepted session.

## 4. Findings

Each finding below has a violation run (section 3).

1. A non-integer `-t` crashes with a traceback and exit 1, read as WARNING
   (utils.py 286). The same happens with `--timeout 5`, because the long
   option is declared without `=`.
2. A closed optional port listed before an open one makes the open one
   count as unexpected: CRITICAL (check_nmap.py 293).
3. `find(l,'open')` also matches service names such as `openvpn` on a
   closed or filtered port (check_nmap.py 280).
4. check_pcpmetric compares the value with the getopt strings. With `-w`
   every value is OK. Without thresholds, 0 exits 3 and any positive
   value is CRITICAL. The help text says "alert if value is larger than"
   (check_pcpmetric.py 96).
5. check_pcpmetric calls `p.wait()` before it reads the pipe. When pmval
   writes more than the pipe holds, both processes block for ever
   (check_pcpmetric.py 75).
6. check_asterisk_peer looks for `END COMMAND` in each chunk alone, at an
   index above 0. A chunk boundary inside the marker, or at its start,
   makes the loop block on recv for ever: there is no socket timeout
   (check_asterisk_peer.py 126).
7. A refused AMI login can be reported as "Critical - Cannot contact
   Asterisk!" with exit 3. Asterisk closes the socket while the plugin's
   command is still unread, which sends a RST, and the recv in
   send_command raises socket.error (check_asterisk_peer.py 121, 221).
   This is the shortest trace. On a longer path the plugin's logoff sends
   draw the RST (lines 110-113), with the same outcome.

These two were seen while modelling, but no run is spent on them (they
are listed as hazards):
- `TimeoutHandler.Check` re-runs TimeOut and re-sends SIGTERM on every
  poll past the deadline (utils.py 295), and `kills` reaches 2 in
  nmap_task. The spec says the callback fires once. This is harmless to
  the verdict, as ReportFaithful holds.
- check_asterisk_peer tests for lower-case `unmonitored`, but chan_sip
  writes `Unmonitored`, so such a peer is CRITICAL rather than WARNING
  (check_asterisk_peer.py 207).

## 5. Proofs

`NmapTaskProofs` (all obligations checked by tlapm):
- `TypeCorrect`: `Spec => []TypeOK`.
- `OutcomeFaithful`: `Spec => []ReportFaithful`.
- `TmpFileCleaned`: `Spec => []TmpFileRemoved`.
- `OutcomeDecidedOnce`: `Spec => OutcomeFinal`, the action property.

The assumptions are those of NmapTask: TTLs are integers or the one
non-integer value, the port lists are sequences of integers, every
integer TTL is at most ClockCap, and MaxKills ≥ 1.

ReportFaithful is not inductive. A step into `done` needs to know how
`cleanup` was reached, and that needs to know what `read` and `afterwait`
know. The strengthening `IInv` adds four facts:
- `PreInv`: before the fork there is no child, no abort and no file, and
  the outcome is OK/"none" or UNKNOWN/"badparams".
- `PostInv`: from afterwait on, the child is reaped. The exception is the
  bad-parameters path, which never forked.
- `ReadInv`: in `read`, nmap exited 0 and there was no abort.
- `OutcomeInv`: the ReportFaithful conjuncts already hold in `cleanup`.

`IInv` holds initially. It is preserved by every action, with one proof
step per action. It implies both properties. TLC checked it as an
invariant before it was proved. `Spec => []TypeOK` is proved on its own
first, and the IInv step uses it.

OutcomeFinal needs one more fact, `MsgInv`: from the fork up to the read
of the temp file, no message is set yet. It is inductive together with
IInv, because Start forks only when exit_code is OK, and then PreInv says
the message is "none". Each step that writes the message (Start,
AfterWait, ReadOutput) starts from "none", so a set message is never
replaced (`FinalStep`). The theorem combines `[](IInv /\ MsgInv)` with
that step lemma by PTL.

`NmapRefinementProofs` proves `ImplementsPlugin`: with an integer `-t`
(`NonInt \notin TTLs`), `Spec => Abstract!ASafe`. Every behaviour of
NmapTask is a behaviour of the safety part of NmapPlugin. The proof rests
on `RInv == IInv /\ RefInv`. `RefInv` adds four facts:
- in start, the exit code is OK exactly when a host was given, which
  decides between `BadConfig` and `StartScan`;
- the child's status is None until it exits;
- an exit 0 comes with a complete report from `Reports`, which makes
  `ScanEnds` choose a legal `aReport`;
- the status reaped is the child's.

The proof has two lemmas:
- `InitMaps`: initial states map to `AInit`.
- `StepMaps`: every step maps to an abstract step or a stutter. It has
  one case per action, and Start, Check and AfterWait are split by their
  branches.

`PcpMetricProofs` proves `LastLineParsed`: `Spec => []ReadsLastLine`,
for every set of outputs and every pipe capacity. The inductive
invariant is `StreamInv` (in PcpMetric, checked by pcp_metric). Let
`Consumed == written - Len(pipe)` be the number of lines the plugin has
taken out of the pipe. Then:
- the pipe holds exactly lines `Consumed+1 .. written` of pmval's output;
- `output` is line `Consumed`, or unset when `Consumed = 0`;
- an exited child has written everything;
- the plugin reads only after it has reaped the child, and it parses only
  with the pipe empty.

ReadsLastLine alone is not inductive. A read needs to know that the pipe
is a contiguous slice of the output, and the parse needs to know that
nothing is left behind it. The ChildWrite step rests on the lemma
`SubSeqAppend`. The ReadLine step rests on `HeadTailOfSubSeq` of the
library's SequenceTheorems.

`AsteriskPeerProofs` proves `StatusFaithful`: `Spec => []ReportFaithful`
for AsteriskPeer. It holds for every set of peer types, peer states and
RTT limits, and whether or not `Long` lets a recv cut inside a write. The
inductive invariant is `PeerInv` (in AsteriskPeer, checked by
asterisk_peer). It says:
- the stream and the reply the plugin keeps are prefixes of `Reply`,
  the full answer to an accepted or a refused login;
- how much Asterisk has written follows from the requests it answered
  (`PeerCounts`);
- it closes only after a refused login or the logoff;
- during send_command(action) the reply kept is all that was read;
- after an accepted login the reply reaches past "END COMMAND".

The last fact is the heart of the proof. The marker found in a chunk
sits at stream positions 6-7 of `Reply`, so a chunk that holds it ends
at position 7 or later. Then the kept reply holds the "authok" and the
status line, and the verdict is the one on the peer's state
(`ReplyContents`, `SeverityOfBody`). A close seen by recv with the
plugin in send_command(action) can only be the close after a refused
login, because the logoff has not been sent yet. The step lemma has one
case per action. The writes of Asterisk go through `EmitPrefix`, and
the recv loop through `RecvReplyStep`.

For this proof `Emit` states the stream's new contents directly
(`s2c \o data`) and the write ends as offsets into the data. It used to
flatten a sequence of writes with `FlattenSeq`, which is defined by a
recursive function that the provers cannot evaluate. TLC gives the same
state counts for both forms.

`AsteriskPeerProofs` also proves `PeerInvariant`, which states
`Spec => []PeerInv`, the invariant asterisk_peer checks. The step lemma
`PeerStep` above gives it directly.

`SocketErrorMeansRefusal` states
`Spec => []SocketErrorOnlyOnRefusal`. The property is not inductive on
its own: a send or recv raises socket.error when a RST has arrived, so
the proof must know when a RST can exist. The strengthening is
`RstInv` (in AsteriskPeer, checked by asterisk_peer), and it rests on
`PeerInv`:
- closed, rstPending and rst are Booleans;
- disconnect's first send happens with 2 requests sent, and its recv and
  second send with 3;
- a 4th request is sent only as the plugin's last act;
- a pending or arrived RST follows a close;
- in an accepted session a RST is pending or arrived only once the plugin
  classifies or is done.

The last fact is the argument. In an accepted session Asterisk closes only
on the logoff, which needs 3 requests (`PeerCounts`). That close can RST
only a 4th request, and disconnect's second send is that request. A send
before the close draws no RST. The proof has one lemma per kind of step:
`SendNoRst` and `SendRstStep` for the three sends, through `SendRst`
(what `Send` does), and `RecvRstStep` for both recv loops. `RstStep`
then takes one case per action. The Boolean typing is part of RstInv
because `rstPending' = (rstPending \/ closed)` says nothing about a
non-Boolean `closed`.

`PcpMetricProofs` also proves `StreamInvariant`: `Spec => []StreamInv`,
from `StreamInit` and `StreamStep`.

What stays with TLC:
- The liveness properties (`Termination`, `PcpTermination`,
  `PeerTermination`, and the fairness part of
  `Refines`). tlapm has no ENABLED and fairness reasoning for them.
- What the folds in PortLogic compute for every input, and with it
  `AgreesWhenOptionalOpen` (port_check). This is induction over the
  report, through `FoldLeft` and `SelectSeq`, and the provers cannot
  instantiate the library's induction theorems. PortLogic is only
  model-checked.
- The violation runs, which are counterexamples and not theorems.

## 6. Not modelled

- `utils.which`, which no plugin calls.
- The Task variants that check_nmap does not use: detach, usesh, Wait
  without an idle function, Done and Status.
- getopt and the help and version texts.
- The wording of messages.
- check_pcpmetric's `-H`/`-i` command-line text, and its usage and
  version texts.
- The text of check_asterisk_peer's status lines: the peer's state is
  abstracted to its kind and RTT. `get_peer_status` on a reply without a
  status line is modelled as matching nothing. An Asterisk that omits
  `END COMMAND` (newer AMI versions) is not modelled.
- An external SIGKILL of the plugin by the scheduler. The code cannot
  react to it; it leaves the temp file and an orphan nmap behind (listed
  as a hazard).

## 7. Plan for later work

1. `TmpCollision`: two NmapTask instances composed on one temp file name,
   where the second nmap truncates and rewrites the first's file.
2. An abstract "deadline watchdog" spec of TimeoutHandler, refined by
   NmapTask's Check/Sleep/WaitPoll.
3. Action properties for AsteriskPeer and PcpMetric, such as the reply
   kept only growing by what Asterisk wrote, in order. PeerInv and
   StreamInv, both proved, are the invariants such a proof would start
   from.
4. Proofs for the PortCheck step, through lemmas on `FoldLeft` over
   bounded reports. These would need the fold rewritten as a recursive
   function over the report's length.
