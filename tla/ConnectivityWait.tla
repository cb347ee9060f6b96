-------------------------- MODULE ConnectivityWait --------------------------
(***************************************************************************)
(* RemoteExecutor.wait_for_connectivity_state (ssh.py:322-354): probe the  *)
(* host with is_connective until it is, or is not, reachable, sleeping     *)
(* SampleTime between probes and giving up once the slept time exceeds     *)
(* Timeout.  The host changes state whenever it likes.                     *)
(***************************************************************************)
EXTENDS Naturals

CONSTANTS
    Timeout,        \* timeout
    SampleTime,     \* sample_time
    TcpTimeout,     \* tcp_connection_timeout
    Delays          \* what a probe may take beside its TCP connect

ASSUME TimesAssumption ==
    /\ Timeout \in Nat /\ SampleTime \in Nat \ {0} /\ TcpTimeout \in Nat
    /\ Delays \in SUBSET Nat

VARIABLES
    positive,   \* the state waited for
    waitAt,     \* "probe", "check", "done", or "stuck" in a probe
    counter,    \* timeout_counter
    elapsed,    \* the time since the call, in the unit of the constants
    beyond,     \* the part of it that no timeout of this code bounds
    probes,     \* probes that returned
    last,       \* what the last probe returned
    result,     \* what the call returned
    host        \* the host, see Hosts

waitVars ==
    <<positive, waitAt, counter, elapsed, beyond, probes, last, result, host>>

(* "answers": a command can be run.  "fails": any exception, be it a closed
   port, a refused login, a TCP connect that times out, or a host that accepts
   the connection and then sends no banner, which paramiko ends by a timeout
   of its own.  "mute": the login works, then 'true' never answers. *)
Hosts == {"answers", "fails", "mute"}

WaitTypeOK ==
    /\ positive \in BOOLEAN
    /\ waitAt \in {"probe", "check", "done", "stuck"}
    /\ counter \in Nat
    /\ elapsed \in Nat
    /\ beyond \in Nat
    /\ probes \in Nat
    /\ last \in BOOLEAN
    /\ result \in {"none", "yes", "no"}
    /\ host \in Hosts

WaitInit ==
    /\ positive \in BOOLEAN
    /\ waitAt = "probe"
    /\ counter = 0
    /\ elapsed = 0
    /\ beyond = 0
    /\ probes = 0
    /\ last = FALSE
    /\ result = "none"
    /\ host \in Hosts

(* is_connective: run ['true'] with a TCP timeout and no io_timeout.  The
   result is only whether an exception was raised, the status is ignored.  The
   timeout is given to the TCP connect alone (ssh.py:94-103): the name lookup,
   the banner, the login and the command take as long as the host likes. *)
Probe ==
    /\ waitAt = "probe"
    /\ host # "mute"
    /\ last' = (host = "answers")
    /\ \E connect \in 0 .. TcpTimeout, delay \in Delays :
          /\ elapsed' = elapsed + connect + delay
          /\ beyond' = beyond + delay
    /\ probes' = probes + 1
    /\ waitAt' = "check"
    /\ UNCHANGED <<positive, counter, result, host>>

ProbeBlocks ==
    /\ waitAt = "probe"
    /\ host = "mute"
    /\ waitAt' = "stuck"
    /\ UNCHANGED <<positive, counter, elapsed, beyond, probes, last, result, host>>

\* The condition of the while loop, negated.
Agrees == last = positive

\* Mutant: the budget is checked before the probe is looked at.
SucceedInTime ==
    /\ waitAt = "check"
    /\ Agrees
    /\ counter <= Timeout
    /\ waitAt' = "done"
    /\ result' = "yes"
    /\ UNCHANGED <<positive, counter, elapsed, beyond, probes, last, host>>

Succeed ==
    /\ waitAt = "check"
    /\ Agrees
    /\ waitAt' = "done"
    /\ result' = "yes"
    /\ UNCHANGED <<positive, counter, elapsed, beyond, probes, last, host>>

\* Mutant: ">=", and a timeout_counter that starts one sample ahead.
ExpiredEarly == counter + SampleTime >= Timeout

Expired == counter > Timeout

GiveUp ==
    /\ waitAt = "check"
    /\ ~ Agrees
    /\ Expired
    /\ waitAt' = "done"
    /\ result' = "no"
    /\ UNCHANGED <<positive, counter, elapsed, beyond, probes, last, host>>

\* Mutant: the sleep is not counted.
SleepUncounted ==
    /\ waitAt = "check"
    /\ ~ Agrees
    /\ ~ Expired
    /\ elapsed' = elapsed + SampleTime
    /\ waitAt' = "probe"
    /\ UNCHANGED <<positive, counter, beyond, probes, last, result, host>>

\* time.sleep(sample_time); timeout_counter += sample_time
Sleep ==
    /\ waitAt = "check"
    /\ ~ Agrees
    /\ ~ Expired
    /\ elapsed' = elapsed + SampleTime
    /\ counter' = counter + SampleTime
    /\ waitAt' = "probe"
    /\ UNCHANGED <<positive, beyond, probes, last, result, host>>

\* The host comes up, goes down or changes its mind.
HostChanges ==
    /\ waitAt \notin {"done", "stuck"}
    /\ host' \in Hosts \ {host}
    /\ UNCHANGED <<positive, waitAt, counter, elapsed, beyond, probes, last, result>>

Waiter == Probe \/ ProbeBlocks \/ Succeed \/ GiveUp \/ Sleep

WaitNext == Waiter \/ HostChanges

WaitSpec == WaitInit /\ [][WaitNext]_waitVars /\ WF_waitVars(Waiter)

----------------------------------------------------------------------------
(* Properties.                                                             *)

(* The wait never gives up before the timeout has really passed, and only on
   a probe made after the last sleep (ssh.py:346-353). *)
NotEarly ==
    result = "no" => elapsed > Timeout /\ probes * SampleTime > Timeout

(* The answer agrees with the probe made last (ssh.py:343-345). *)
AnswerFresh ==
    waitAt = "done" => (result = "yes" <=> last = positive)

(* What timeout does bound, and what it does not (ssh.py:343-354): the sleeps
   may exceed it by one sample and there is one more probe than there are
   sleeps; the call as a whole takes a TCP timeout more for each probe, and
   besides all that the host makes the probes take after the TCP connect. *)
TimeBounded ==
    /\ counter <= Timeout + SampleTime
    /\ elapsed <= counter + probes * TcpTimeout + beyond
    /\ waitAt = "check" \/ waitAt = "done" => counter + SampleTime = probes * SampleTime
    /\ waitAt = "probe" \/ waitAt = "stuck" => counter = probes * SampleTime

(* The wait ends, unless a probe blocks in the command: is_connective passes no
   io_timeout (ssh.py:314). *)
Ends == <>(waitAt \in {"done", "stuck"})

\* What the host shows to a probe.
Shows == host # "mute" /\ (host = "answers") = positive

(* The state waited for is reported if the host reaches it before the next
   probe and keeps it, even when the time is already up (ssh.py:343-354):
   there is no sleep that is not followed by a probe. *)
ReachedIsReported == ((waitAt = "probe") /\ []Shows) ~> (result = "yes")

=============================================================================
