--------------------------- MODULE RemoteCommand ---------------------------
(***************************************************************************)
(* One remote command, from the opening of the SSH session to its close:   *)
(* RemoteExecutor.Session and RemoteExecutor.Command (ssh.py) driven by    *)
(* one of the three clients of Command.execute in this repository:         *)
(*   "run"         Command.run: read all of stdout, then all of stderr     *)
(*   "read_lines"  CommandReader.read_lines: yield stdout line by line     *)
(*   "wget"        FileSystem.wget: read stderr, poll the exit status      *)
(*                                                                         *)
(* The remote side (sshd and the program it runs) and the connection are   *)
(* the environment.  Data is counted in units: a unit of stdout or stderr  *)
(* is still to be written (left), received and unread (buf) or read (got). *)
(* Both streams share one flow-control window, as in an SSH channel.       *)
(***************************************************************************)
EXTENDS Naturals

CONSTANTS
    Window,     \* units of stdout and stderr the peer may send unread
    InWindow,   \* units of stdin the client may send before they are read
    Pipe,       \* units sshd may still hold back when it reports the status
    Calls       \* the calls considered, see CallType

Streams == {"out", "err"}
Styles  == {"run", "read_lines", "wget"}

(* What a call asks for: the program's output volume, whether it reads its
   standard input to the end, and its exit status; then how it is called. *)
CallType == [out : Nat, err : Nat, reads : BOOLEAN, status : {"ok", "failed"},
             style : Styles, input : Nat, ioTimeout : BOOLEAN]

ASSUME ConstantsAssumption ==
    /\ Window \in Nat \ {0}
    /\ InWindow \in Nat \ {0}
    /\ Pipe \in Nat
    /\ Calls \subseteq CallType
    \* wget is called without input, and only run takes an io_timeout
    /\ \A c \in Calls : /\ c.style = "wget" => c.input = 0
                        /\ c.style # "run" => ~ c.ioTimeout

VARIABLES
    call,       \* the call being made
    pc,         \* where the client is
    transport,  \* the paramiko transport, see Transports
    outcome,    \* how the call ended, see Outcomes
    rc,         \* Command._rc
    fed,        \* units of input_ written by the client
    got,        \* units of each stream handed to the caller
    link,       \* the connection: "up", "lost" (noticed) or "hung" (silent)
    buf,        \* units of each stream received and not read
    left,       \* units of each stream not yet received
    inbuf,      \* units of stdin not yet read by the program
    inEof,      \* the client has closed stdin
    eof,        \* the client has seen the end of both streams
    status,     \* the exit status received: "none", "ok", "failed", "lost"
    shut        \* the channel is closed, by the peer or by loss of the link

clientVars == <<pc, transport, outcome, rc, fed, got>>
remoteVars == <<buf, left, inbuf, inEof, eof, status, shut>>
vars == <<call, clientVars, link, remoteVars>>

Reading == {"out", "err"}          \* blocked in out.read() / err.read()
Running == {"input", "out", "err", "yield", "poll", "status"}
Places  == Running \cup {"open", "exec", "close", "exit", "done"}

\* "unknown": SSHClient.close raised, what it left behind is not ours to say.
Transports == {"none", "open", "closed", "unknown"}
\* "refused" is an exception of Session.__enter__, "raised" any later one.
Outcomes == {"none", "returned", "raised", "refused", "abandoned"}

Volume(s) == IF s = "out" THEN call.out ELSE call.err
First(c)  == IF c.style = "wget" THEN "err" ELSE "out"
Other(s)  == IF s = "out" THEN "err" ELSE "out"

TypeOK ==
    /\ call \in Calls
    /\ pc \in Places
    /\ transport \in Transports
    /\ outcome \in Outcomes
    /\ rc \in {"none", "ok", "failed", "lost"}
    /\ fed \in Nat
    /\ got \in [Streams -> Nat]
    /\ link \in {"up", "lost", "hung"}
    /\ buf \in [Streams -> Nat]
    /\ left \in [Streams -> Nat]
    /\ inbuf \in Nat
    /\ inEof \in BOOLEAN
    /\ eof \in BOOLEAN
    /\ status \in {"none", "ok", "failed", "lost"}
    /\ shut \in BOOLEAN

Init ==
    /\ call \in Calls
    /\ pc = "open"
    /\ transport = "none"
    /\ outcome = "none"
    /\ rc = "none"
    /\ fed = 0
    /\ got = [s \in Streams |-> 0]
    /\ link = "up"
    /\ buf = [s \in Streams |-> 0]
    /\ left = [s \in Streams |-> Volume(s)]
    /\ inbuf = 0
    /\ inEof = FALSE
    /\ eof = FALSE
    /\ status = "none"
    /\ shut = FALSE

----------------------------------------------------------------------------
(* The client.                                                             *)

\* Session.__enter__ / open: SSHClient.connect succeeds.
Open ==
    /\ pc = "open"
    /\ link = "up"
    /\ pc' = "exec"
    /\ transport' = "open"
    /\ UNCHANGED <<call, outcome, rc, fed, got, link, remoteVars>>

(* connect raises.  An unreadable key, an unresolvable name or a TCP timeout
   leave no transport; a refused login leaves the one that was negotiated,
   since __exit__ does not run for a __enter__ that raised. *)
OpenFails ==
    /\ pc = "open"
    /\ pc' = "done"
    /\ outcome' = "refused"
    /\ transport' \in {"none", "open"}
    /\ UNCHANGED <<call, rc, fed, got, link, remoteVars>>

\* Command.execute: exec_command opens the channel and starts the program.
Exec ==
    /\ pc = "exec"
    /\ link = "up"
    /\ pc' = IF call.style = "wget" THEN "err" ELSE "input"
    /\ UNCHANGED <<call, transport, outcome, rc, fed, got, link, remoteVars>>

\* exec_command raises (no channel granted, connection lost).
ExecFails ==
    /\ pc = "exec"
    /\ link # "hung"
    /\ pc' = "exit"
    /\ outcome' = "raised"
    /\ UNCHANGED <<call, transport, rc, fed, got, link, remoteVars>>

\* in_.write(input_), a unit at a time: waits for room in the stdin window.
Feed ==
    /\ pc = "input"
    /\ fed < call.input
    /\ ~ shut
    /\ inbuf < InWindow
    /\ fed' = fed + 1
    /\ inbuf' = inbuf + 1
    /\ UNCHANGED <<call, pc, transport, outcome, rc, got, link,
                   buf, left, inEof, eof, status, shut>>

\* in_.write raises "Socket is closed": the program ended without reading it.
FeedFails ==
    /\ pc = "input"
    /\ fed < call.input
    /\ shut
    /\ pc' = "close"
    /\ outcome' = "raised"
    /\ UNCHANGED <<call, transport, rc, fed, got, link, remoteVars>>

\* Mutant: in_.close() is forgotten, stdin stays open for the whole body.
InputDoneLeavesOpen ==
    /\ pc = "input"
    /\ fed = call.input
    /\ pc' = "out"
    /\ UNCHANGED <<call, transport, outcome, rc, fed, got, link, remoteVars>>

\* in_.close(), only under "if input_": without input, stdin stays open.
InputDone ==
    /\ pc = "input"
    /\ fed = call.input
    /\ pc' = "out"
    /\ inEof' = (call.input > 0)
    /\ UNCHANGED <<call, transport, outcome, rc, fed, got, link,
                   buf, left, inbuf, eof, status, shut>>

\* Mutant: read_lines looks at the status after every line, not at the end.
AfterTakePolls(s) ==
    CASE call.style = "run" -> s
      [] call.style = "read_lines" -> IF s = "out" THEN "poll" ELSE s
      [] call.style = "wget" -> "poll"
\* Where a client goes on with a unit of s in hand, and at the end of s.
AfterTake(s) ==
    CASE call.style = "run" -> s
      [] call.style = "read_lines" -> IF s = "out" THEN "yield" ELSE s
      [] call.style = "wget" -> "poll"
AfterEof(s) ==
    CASE call.style = "run" -> IF s = "out" THEN "err" ELSE "status"
      [] call.style = "read_lines" -> IF s = "out" THEN "poll" ELSE "status"
      [] call.style = "wget" -> "poll"

\* read() or readline() on stream s returns data.
Take(s) ==
    /\ pc = s
    /\ buf[s] > 0
    /\ buf' = [buf EXCEPT ![s] = @ - 1]
    /\ got' = [got EXCEPT ![s] = @ + 1]
    /\ pc' = AfterTake(s)
    /\ UNCHANGED <<call, transport, outcome, rc, fed, link,
                   left, inbuf, inEof, eof, status, shut>>

\* A line that does not decode, or a progress handler of a download that raises.
LineRaises ==
    /\ \/ call.style = "read_lines" /\ pc = "out" /\ buf["out"] > 0
       \/ call.style = "wget" /\ pc = "err" /\ (buf["err"] > 0 \/ eof)
    /\ pc' = "close"
    /\ outcome' = "raised"
    /\ UNCHANGED <<call, transport, rc, fed, got, link, remoteVars>>

\* read() or readline() on stream s reaches the end.
AtEof(s) ==
    /\ pc = s
    /\ buf[s] = 0
    /\ eof
    /\ pc' = AfterEof(s)
    /\ UNCHANGED <<call, transport, outcome, rc, fed, got, link, remoteVars>>

\* Mutant: the -1 of a broken connection is taken for success.
PolledLenient ==
    IF rc # "none" THEN rc ELSE IF status = "lost" THEN "ok" ELSE status

\* get_rc(wait=False): _rc once the status is there.
Polled == IF rc # "none" THEN rc ELSE status

\* "if command.rc is not None: break", or back to readline().
Poll ==
    /\ pc = "poll"
    /\ rc' = Polled
    /\ pc' = IF Polled = "none" THEN First(call)
             ELSE IF call.style = "wget" THEN "status" ELSE "err"
    /\ UNCHANGED <<call, transport, outcome, fed, got, link, remoteVars>>

\* The consumer of read_lines asks for the next line.
Resume ==
    /\ pc = "yield"
    /\ pc' = "out"
    /\ UNCHANGED <<call, transport, outcome, rc, fed, got, link, remoteVars>>

\* Mutant: the session is closed on the normal way out only.
AbandonLeaks ==
    /\ pc = "yield"
    /\ pc' = "done"
    /\ outcome' = "abandoned"
    /\ UNCHANGED <<call, transport, rc, fed, got, link, remoteVars>>

\* The consumer drops the generator: GeneratorExit unwinds both contexts.
Abandon ==
    /\ pc = "yield"
    /\ pc' = "close"
    /\ outcome' = "abandoned"
    /\ UNCHANGED <<call, transport, rc, fed, got, link, remoteVars>>

\* Mutant: get_rc() without waiting, a missing status read as success.
StatusNoWait ==
    /\ pc = "status"
    /\ rc' = IF Polled = "none" THEN "ok" ELSE Polled
    /\ pc' = "close"
    /\ outcome' = "returned"
    /\ UNCHANGED <<call, transport, fed, got, link, remoteVars>>

\* get_rc(True) after the body of execute: recv_exit_status has no timeout.
Status ==
    /\ pc = "status"
    /\ status # "none"
    /\ rc' = Polled
    /\ pc' = "close"
    /\ outcome' = "returned"
    /\ UNCHANGED <<call, transport, fed, got, link, remoteVars>>

\* Mutant: the timeout is set on the stdout file only.
WaitingForOut == pc = "out" /\ buf["out"] = 0 /\ ~ eof

\* A read or write of the channel waits in vain for io_timeout.
Waiting ==
    \/ pc = "input" /\ fed < call.input /\ ~ shut /\ inbuf >= InWindow
    \/ pc \in Reading /\ buf[pc] = 0 /\ ~ eof

IoTimeout ==
    /\ call.ioTimeout
    /\ Waiting
    /\ pc' = "close"
    /\ outcome' = "raised"
    /\ UNCHANGED <<call, transport, rc, fed, got, link, remoteVars>>

\* execute's finally: close the three files; the debug log calls self.rc.
Close ==
    /\ pc = "close"
    /\ rc' = Polled
    /\ inEof' = TRUE
    /\ pc' = "exit"
    /\ UNCHANGED <<call, transport, outcome, fed, got, link,
                   buf, left, inbuf, eof, status, shut>>

\* "if rc: raise CommandExecutionFailure", after the session of wget.
Verdict == IF call.style = "wget" /\ outcome = "returned" /\ rc # "ok"
           THEN "raised" ELSE outcome

\* Session.__exit__: SSHClient.close.
Exit ==
    /\ pc = "exit"
    /\ pc' = "done"
    /\ transport' = "closed"
    /\ outcome' = Verdict
    /\ UNCHANGED <<call, rc, fed, got, link, remoteVars>>

\* SSHClient.close raises: re-raised only if no exception is in flight.
ExitFails ==
    /\ pc = "exit"
    /\ pc' = "done"
    /\ transport' = "unknown"
    /\ outcome' = IF outcome = "returned" THEN "raised" ELSE outcome
    /\ UNCHANGED <<call, rc, fed, got, link, remoteVars>>

----------------------------------------------------------------------------
(* sshd and the program, as long as the channel is in use.                 *)

Alive == pc \in Running /\ link = "up" /\ ~ shut

InputRead == call.reads => inEof /\ inbuf = 0

CanSend(s)  == Alive /\ left[s] > 0 /\ buf["out"] + buf["err"] < Window
CanReadIn   == Alive /\ call.reads /\ inbuf > 0
CanSendEof  == Alive /\ ~ eof /\ left["out"] = 0 /\ left["err"] = 0 /\ InputRead
CanExit     == Alive /\ status = "none" /\ InputRead
                     /\ left["out"] + left["err"] <= Pipe
CanHangUp   == Alive /\ eof /\ status # "none"

\* A unit of output crosses the connection.
Send(s) ==
    /\ CanSend(s)
    /\ left' = [left EXCEPT ![s] = @ - 1]
    /\ buf' = [buf EXCEPT ![s] = @ + 1]
    /\ UNCHANGED <<call, clientVars, link, inbuf, inEof, eof, status, shut>>

\* The program reads a unit of its input.
ReadIn ==
    /\ CanReadIn
    /\ inbuf' = inbuf - 1
    /\ UNCHANGED <<call, clientVars, link, buf, left, inEof, eof, status, shut>>

\* The program has closed its outputs and sshd has sent them all.
SendEof ==
    /\ CanSendEof
    /\ eof' = TRUE
    /\ UNCHANGED <<call, clientVars, link, buf, left, inbuf, inEof, status, shut>>

\* The exit status, which may overtake what is left in the pipes.
SendStatus ==
    /\ CanExit
    /\ status' = call.status
    /\ UNCHANGED <<call, clientVars, link, buf, left, inbuf, inEof, eof, shut>>

\* sshd closes the channel.
HangUp ==
    /\ CanHangUp
    /\ shut' = TRUE
    /\ UNCHANGED <<call, clientVars, link, buf, left, inbuf, inEof, eof, status>>

(* The connection breaks and paramiko notices: what was received can still be
   read, reads then see the end, and the status is -1 if it was not known. *)
Lose ==
    /\ pc \in Running \cup {"exec"}
    /\ link = "up"
    /\ link' = "lost"
    /\ eof' = TRUE
    /\ shut' = TRUE
    /\ status' = IF status = "none" THEN "lost" ELSE status
    /\ UNCHANGED <<call, clientVars, buf, left, inbuf, inEof>>

\* The connection goes silent: no packet and no error ever again.
Hang ==
    /\ pc \in Running \cup {"exec"}
    /\ link = "up"
    /\ link' = "hung"
    /\ UNCHANGED <<call, clientVars, remoteVars>>

Client ==
    \/ Open \/ OpenFails \/ Exec \/ ExecFails
    \/ Feed \/ FeedFails \/ InputDone \/ LineRaises
    \/ \E s \in Streams : Take(s) \/ AtEof(s)
    \/ Poll \/ Resume \/ Abandon \/ Status \/ IoTimeout
    \/ Close \/ Exit \/ ExitFails

Remote == (\E s \in Streams : Send(s)) \/ ReadIn \/ SendEof \/ SendStatus \/ HangUp

Next == Client \/ Remote \/ Lose \/ Hang

(* The client thread keeps running and the consumer of read_lines keeps
   iterating; sshd and the program do what they can. *)
Fairness == WF_vars(Client) /\ WF_vars(Remote)

Spec == Init /\ [][Next]_vars /\ Fairness

----------------------------------------------------------------------------
(* Properties.                                                             *)

(* No output is lost, duplicated or invented between the program and the
   caller, whatever the order of reads (ssh.py:231-232, common.py:86-95). *)
Conservation ==
    \A s \in Streams : got[s] + buf[s] + left[s] = Volume(s)

(* A call that no side can be at fault for: the program gets the end of its
   input, the input fits the stdin window unless the output cannot fill the
   other one meanwhile, and the stream that is read last fits the window. *)
WellBehaved ==
    /\ call.reads => call.input > 0
    /\ call.input <= InWindow \/ call.out + call.err < Window
    /\ Volume(Other(First(call))) < Window

ClientBlocked == Waiting \/ (pc = "status" /\ status = "none")
RemoteBlocked ==
    ~ (CanReadIn \/ CanSendEof \/ CanExit \/ CanHangUp \/ \E s \in Streams : CanSend(s))

(* The client and the program never wait for each other for ever: reading one
   stream to its end before the other (ssh.py:231-232), writing all of input_
   before reading (ssh.py:228-230) and leaving stdin open when there is no
   input are safe exactly for the calls that are well behaved. *)
NoMutualWait ==
    link = "up" /\ ClientBlocked /\ RemoteBlocked => ~ WellBehaved

Missing == left["out"] + left["err"] + buf["out"] + buf["err"]

(* A call that returns over a connection that held hands over all output and
   the program's own status; for read_lines this needs the drain of stdout
   before the status is looked at (common.py:87-93). *)
CompleteResult ==
    outcome = "returned" /\ link # "lost" =>
        /\ rc = call.status
        /\ call.style # "wget" => Missing = 0

(* Over a connection that broke, run and read_lines return normally with
   partial output (ssh.py:183-188): a status other than -1 then still
   bounds what is missing by what sshd held when it sent the status. *)
TruncationBounded ==
    outcome = "returned" /\ rc \in {"ok", "failed"} /\ call.style # "wget" =>
        rc = call.status /\ Missing <= Pipe

(* A download that returns a path is one whose program ended with status 0:
   a lost connection (status -1) and a failure both raise, although the loop
   stops at whatever line of stderr was read last (filesystem.py:292-304). *)
DownloadReported ==
    pc = "done" /\ call.style = "wget" /\ outcome = "returned" =>
        call.status = "ok" /\ status = "ok"

(* Every way out attempts to close the transport but one: a login refused in
   __enter__, for which __exit__ does not run (ssh.py:91-113,
   executor.py:34-39).  This includes a dropped generator of read_lines. *)
Released ==
    pc = "done" /\ transport = "open" => outcome = "refused"

(* A well-behaved call ends, as long as the connection does not go silent:
   the polling loops of read_lines and wget stop (common.py:86-93,
   filesystem.py:292-298), and so does the wait for the status. *)
Finishes == WellBehaved => <>(pc = "done" \/ link = "hung")

(* With an io_timeout every call ends, well behaved or not, but for a silent
   connection where no data is waited for: the start of the program and the
   wait for its status are not covered (ssh.py:187, 201-206). *)
IoTimeoutFrees ==
    call.ioTimeout =>
        <>(pc = "done" \/ (link = "hung" /\ pc \in {"exec", "status"}))

----------------------------------------------------------------------------
(* The inductive invariant behind these properties.                        *)

\* Stdin holds no more than was written, and is closed iff there was input.
InputInv ==
    /\ inbuf <= fed
    /\ fed <= call.input
    /\ pc \in {"open", "exec", "input"} => ~ inEof
    /\ pc \in Running \ {"input"} /\ call.input > 0 => inEof

\* What the end of the streams, the status and the loss of the link mean.
EndInv ==
    /\ link = "lost" => eof /\ shut /\ status # "none"
    /\ status = "lost" => link = "lost"
    /\ status \in {"ok", "failed"} =>
          status = call.status /\ InputRead /\ left["out"] + left["err"] <= Pipe
    /\ eof /\ link # "lost" => left["out"] = 0 /\ left["err"] = 0 /\ InputRead
    /\ shut /\ link # "lost" => eof /\ status # "none"
    /\ pc \in {"open", "exec"} => status \in {"none", "lost"}

\* What the client knows where it is.
PlaceInv ==
    /\ rc # "none" => rc = status
    /\ pc \in {"close", "exit", "done"} <=> outcome # "none"
    /\ outcome = "refused" => pc = "done"
    /\ call.style = "wget" => pc \notin {"input", "out", "yield"}
    /\ call.style = "run" => pc \notin {"poll", "yield"}
    /\ call.style # "wget" /\ pc \in {"poll", "err", "status"} => eof /\ buf["out"] = 0
    /\ call.style # "wget" /\ pc = "status" => buf["err"] = 0
    /\ call.style = "wget" /\ pc = "status" => status # "none"
    /\ outcome = "returned" => rc # "none"
    /\ outcome = "returned" /\ call.style # "wget" =>
          eof /\ buf["out"] = 0 /\ buf["err"] = 0

IInv == TypeOK /\ Conservation /\ InputInv /\ EndInv /\ PlaceInv

----------------------------------------------------------------------------
(* What a caller may rely on, see RemoteCall.                              *)

\* "running" once the request to start the program may have been sent.
phaseBar ==
    IF pc \in {"open", "exec"} \/ outcome = "refused" THEN "idle"
    ELSE IF status \in {"ok", "failed"} THEN "exited" ELSE "running"

Complete == rc = call.status /\ (call.style # "wget" => Missing = 0)

answerBar ==
    CASE pc # "done" -> "none"
      [] pc = "done" /\ outcome = "returned" ->
            IF Complete THEN "complete" ELSE "truncated"
      [] pc = "done" /\ outcome \in {"raised", "refused"} -> "raised"
      [] pc = "done" /\ outcome = "abandoned" -> "abandoned"

Promise == INSTANCE RemoteCall WITH phase <- phaseBar, answer <- answerBar

(* The session, the channel and the three ways of reading it implement the
   promise of RemoteCall: one start, one answer, complete only after the end
   (ssh.py:129-137, 224-233, common.py:72-95, filesystem.py:273-304). *)
PromiseSpec == Promise!Spec

=============================================================================
