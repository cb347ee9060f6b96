--------------------------- MODULE NetworkBridges ---------------------------
(***************************************************************************)
(* What add_bridge and delete_bridge (network.py:448-481) do to a bridge of *)
(* the host, command by command, while the methods of NetworkCalls run and *)
(* fail and somebody else sets the bridge up (if_up).                      *)
(***************************************************************************)
EXTENDS NetworkCalls

VARIABLES
    bridge,     \* the bridge exists,
    port,       \*   the network is a port of it,
    up          \*   it is up

bridgeVars == <<bridge, port, up>>

BridgeInit == Init /\ bridge \in BOOLEAN /\ port = FALSE /\ up = bridge

\* The k-th command of a method is about to run.
Doing(op, k) == Runs /\ Len(stack) > 1 /\ stack[2].op = op /\ Len(stack[2].next) = 2 - k

Changing == \E op \in {"add_bridge", "delete_bridge"} : Doing(op, 1) \/ Doing(op, 2)

\* The command was run: it ended well, or the connection broke after it.
Ran == s = "open" /\ (pc' = "body" \/ s' = "broken")

\* brctl addbr, brctl addif, ip link set down, brctl delbr
Effect ==
    \/ Doing("add_bridge", 1) /\ ~ bridge /\ bridge' = TRUE /\ UNCHANGED <<port, up>>
    \/ Doing("add_bridge", 2) /\ bridge /\ ~ port /\ port' = TRUE /\ UNCHANGED <<bridge, up>>
    \/ Doing("delete_bridge", 1) /\ bridge /\ up' = FALSE /\ UNCHANGED <<bridge, port>>
    \/ /\ Doing("delete_bridge", 2) /\ bridge /\ ~ up
       /\ bridge' = FALSE /\ port' = FALSE /\ UNCHANGED up

\* Mutant: the status is not looked at.
RefusedIgnored == UNCHANGED bridgeVars

\* A status other than 0 raises; so does a connection that broke before.
Refused == pc' = "raise" /\ UNCHANGED bridgeVars

\* ip link set nic up, in a session of its own
IfUp ==
    /\ bridge /\ ~ up
    /\ up' = TRUE
    /\ UNCHANGED <<vars, bridge, port>>

BridgeNext ==
    \/ Next /\ ~ Changing /\ UNCHANGED bridgeVars
    \/ Next /\ Changing /\ ((Ran /\ Effect) \/ Refused)
    \/ IfUp

BridgeSpec == BridgeInit /\ [][BridgeNext]_<<vars, bridgeVars>>

----------------------------------------------------------------------------
(* Properties.                                                             *)

Finished(op) == pc = "body" /\ Top.op = op /\ Top.next = <<>>

(* Each of the two methods is two commands, the second of which may fail or
   be undone (network.py:462-464, 479-481), but an add_bridge that returns has
   left a bridge with its network, and a delete_bridge that returns has left
   none, whatever failed calls left before: an exception is the only sign of a
   bridge without network. *)
BridgeAnswers ==
    /\ Finished("add_bridge") => bridge /\ port
    /\ Finished("delete_bridge") => ~ bridge

=============================================================================
