---------------------------- MODULE NetworkCalls ----------------------------
(***************************************************************************)
(* The methods of network.Network that work through a held session: which  *)
(* of them hold it (keep_session), what each calls in which order, how     *)
(* exceptions unwind them, and where commands are run (network.py).        *)
(* "run" is _session.runCmd.  What the commands do on the host, and the    *)
(* parsing of their output, are abstracted: a method may raise after any   *)
(* call it made.                                                           *)
(***************************************************************************)
EXTENDS HeldSession, Sequences, FiniteSets

VARIABLES
    stack,      \* the active methods, innermost first, with what they call next
    pc,         \* "idle", "enter", "body" or "raise" of the innermost method
    sessions    \* sessions opened since the outermost call began

vars == <<heldVars, stack, pc, sessions>>

\* HostnameHandler, HostnameCtlHandler and the hostname property.
HostnameOps ==
    {"handler.get_hostname", "handler.set_hostname", "_get_hostname_handler",
     "_get_hostname", "_set_hostname"}
HostnameBody(op) ==
    CASE op \in {"handler.get_hostname", "handler.set_hostname"} -> {<<"run">>}
      [] op = "_get_hostname_handler" -> {<<>>, <<"run">>}
      [] op = "_get_hostname" -> {<<"_get_hostname_handler", "handler.get_hostname">>}
      [] op = "_set_hostname" -> {<<"_get_hostname_handler", "handler.set_hostname">>}

\* One command and the parsing of its output.
Queries ==
    {"all_interfaces", "find_default_gw", "find_default_gwv6", "find_ips",
     "find_int_by_ip", "find_ip_by_int", "find_ipv6_by_int"}

BridgeOps == {"list_bridges", "get_bridge", "add_bridge", "delete_bridge", "get_bridges"}
BridgeBody(op) ==
    CASE op \in {"list_bridges", "get_bridges"} -> {<<"_cmd">>}
      [] op = "get_bridge" -> {<<"list_bridges">>}
      [] op \in {"add_bridge", "delete_bridge"} -> {<<"_cmd", "_cmd">>}

\* Methods that combine queries; find_mac_by_int is called for one interface.
LookupOps ==
    {"find_ip_by_default_gw", "find_int_by_bridge", "find_mac_by_int", "find_mgmt_interface"}
LookupBody(op) ==
    CASE op = "find_ip_by_default_gw" -> {<<>>}
      [] op = "find_int_by_bridge" -> {<<"get_bridge">>}
      [] op = "find_mac_by_int" -> {<<"all_interfaces">>, <<"all_interfaces", "_cmd">>}
      [] op = "find_mgmt_interface" ->
            {<<"find_ips", "find_default_gw", "find_ip_by_default_gw", "find_int_by_ip">>}

\* get_info goes on as long as a gateway, an address and a bridge are found.
InfoFull == <<"find_default_gw", "find_ips", "find_ip_by_default_gw", "find_int_by_ip",
              "get_bridge", "find_int_by_bridge">>
InfoBody == {SubSeq(InfoFull, 1, n) : n \in {2, 3, 5, 6}}

\* Methods that are not decorated: each call they make opens its own session.
PlainOps ==
    {"send_icmp", "set_mtu", "delete_interface", "get_mac_by_ip", "get_interface_speed",
     "get_interface_status"}
PlainBody(op) ==
    CASE op \in {"send_icmp", "delete_interface", "get_interface_status"} -> {<<"_cmd">>}
      [] op = "set_mtu" -> {<<"_cmd">>, <<"_cmd", "_cmd">>}
      [] op = "get_mac_by_ip" -> {<<"find_int_by_ip", "find_mac_by_int">>}
      [] op = "get_interface_speed" -> {<<"_cmd", "_cmd">>}

Ops == HostnameOps \cup Queries \cup BridgeOps \cup LookupOps \cup PlainOps
          \cup {"_cmd", "get_info"}

Body(op) ==
    CASE op \in HostnameOps -> HostnameBody(op)
      [] op \in BridgeOps -> BridgeBody(op)
      [] op \in LookupOps -> LookupBody(op)
      [] op \in PlainOps -> PlainBody(op)
      [] op = "get_info" -> InfoBody
      [] op = "_cmd" -> {<<"run">>}
      [] op \in Queries -> {<<"_cmd">>}

\* The methods a caller starts with: the public ones.
Public == Ops \ {"_cmd", "_get_hostname_handler", "handler.get_hostname",
                 "handler.set_hostname"}

Held(op)     == op \notin PlainOps \cup {"get_bridge"}
\* "except Exception: return False"
Catches(op)  == op \in {"send_icmp", "delete_interface"}
\* A status other than 0 is an answer, not an exception.
Tolerant(op) == op \in {"handler.get_hostname", "_get_hostname_handler"}

Top == Head(stack)

TypeOK ==
    /\ HeldTypeOK
    /\ pc \in {"idle", "enter", "body", "raise"}
    /\ pc = "idle" <=> stack = <<>>
    /\ \A i \in 1..Len(stack) : stack[i].op \in Ops
    /\ sessions \in Nat

Init == HeldInit /\ stack = <<>> /\ pc = "idle" /\ sessions = 0

Push(op, next) ==
    /\ stack' = <<[op |-> op, next |-> next]>> \o stack
    /\ pc' = IF Held(op) THEN "enter" ELSE "body"

\* A caller calls a method.
Call(op) ==
    /\ pc = "idle"
    /\ \E next \in Body(op) : Push(op, next)
    /\ sessions' = 0
    /\ UNCHANGED heldVars

\* "with self._m" of keep_session, entered.
Entered ==
    /\ pc = "enter"
    /\ \/ EnterOpens /\ sessions' = sessions + 1
       \/ EnterHeld /\ UNCHANGED sessions
    /\ pc' = "body"
    /\ UNCHANGED stack

Unwind(to) ==
    /\ stack' = Tail(stack)
    /\ pc' = IF Tail(stack) = <<>> THEN "idle" ELSE to

\* "with self._m" of keep_session, where creating or opening the session raises.
EnterRaises ==
    /\ pc = "enter"
    /\ EnterFails
    /\ Unwind("raise")
    /\ UNCHANGED sessions

\* The method calls another one.
Nested ==
    /\ pc = "body"
    /\ Top.next # <<>>
    /\ Head(Top.next) # "run"
    /\ \E next \in Body(Head(Top.next)) :
          LET callee == Head(Top.next)
              rest   == [Top EXCEPT !.next = Tail(@)]
          IN /\ stack' = <<[op |-> callee, next |-> next], rest>> \o Tail(stack)
             /\ pc' = IF Held(callee) THEN "enter" ELSE "body"
    /\ UNCHANGED <<heldVars, sessions>>

Runs == pc = "body" /\ Top.next # <<>> /\ Head(Top.next) = "run"

Advance == stack' = <<[Top EXCEPT !.next = Tail(@)]>> \o Tail(stack)

\* The command ran; a failed one raises in most methods.
RunDone ==
    /\ Runs
    /\ s = "open"
    /\ \/ pc' = "body"
       \/ ~ Tolerant(Top.op) /\ pc' = "raise"
    /\ Advance
    /\ UNCHANGED <<heldVars, sessions>>

\* The connection breaks under the command, which raises or has the status -1.
RunBreaks ==
    /\ Runs
    /\ Breaks
    /\ pc' = "raise"
    /\ UNCHANGED <<stack, sessions>>

(* The connection breaks under the command, which the channel reports as the
   status -1 (ssh.py:187): a method that takes a status for an answer goes on,
   without a hostname or with the handler of old systems. *)
RunUnanswered ==
    /\ Runs
    /\ Tolerant(Top.op)
    /\ Breaks
    /\ pc' = "body"
    /\ Advance
    /\ UNCHANGED sessions

\* The session is broken, or was never opened.
RunRaises ==
    /\ Runs
    /\ s # "open"
    /\ pc' = "raise"
    /\ UNCHANGED <<heldVars, stack, sessions>>

\* The output of a command the method called for is not what it expects.
ParseRaises ==
    /\ pc = "body"
    /\ Top.next \notin Body(Top.op) \/ Top.op = "find_ip_by_default_gw"
    /\ pc' = "raise"
    /\ UNCHANGED <<heldVars, stack, sessions>>

\* The method returns, or closing the session raises instead.
Return ==
    /\ pc = "body"
    /\ Top.next = <<>>
    /\ IF Held(Top.op) THEN Leave ELSE UNCHANGED heldVars
    /\ \/ Unwind("body")
       \/ s' = "none" /\ s # "none" /\ Unwind("raise")
    /\ UNCHANGED sessions

\* Mutant: keep_session leaves the session on the normal way out only.
PropagateStays ==
    /\ pc = "raise"
    /\ Unwind(IF Catches(Top.op) THEN "body" ELSE "raise")
    /\ UNCHANGED <<heldVars, sessions>>

\* An exception leaves the method, or ends in its except clause.
Propagate ==
    /\ pc = "raise"
    /\ IF Held(Top.op) THEN Leave ELSE UNCHANGED heldVars
    /\ Unwind(IF Catches(Top.op) THEN "body" ELSE "raise")
    /\ UNCHANGED sessions

Next ==
    \/ \E op \in Public : Call(op)
    \/ Entered \/ EnterRaises \/ Nested
    \/ RunDone \/ RunBreaks \/ RunUnanswered \/ RunRaises \/ ParseRaises
    \/ Return \/ Propagate

Spec == Init /\ [][Next]_vars

----------------------------------------------------------------------------
(* Properties.                                                             *)

\* The decorated methods that have entered and not left the session.
Active == {i \in 1..Len(stack) : Held(stack[i].op) /\ ~ (i = 1 /\ pc = "enter")}

(* However exceptions unwind the methods and wherever they are caught, each
   decorated method leaves the session as often as it entered it, and needs no
   second one: "in order to improve performance" (network.py:21, 49-54,
   600-604, 635-640). *)
LeavesMatchEnters ==
    /\ depth = Cardinality(Active)
    /\ stack # <<>> /\ Held(stack[Len(stack)].op) => sessions <= 1

(* Every change of the counter and the session is a step of HeldSession. *)
UsesHeldSession == HeldSpec

(* A command is sent on an open session, or on one whose connection broke
   since: "It holds ssh session" (network.py:21), "Represents active ssh
   connection" (ssh.py:55). *)
SentOnOpenSession == Runs => s \in {"open", "broken"}

=============================================================================
