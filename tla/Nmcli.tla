------------------------------- MODULE Nmcli --------------------------------
(***************************************************************************)
(* The NetworkManager client (nmcli.py): every call builds one string that *)
(* is split into words and run on the host, except get_all_devices, which  *)
(* lists the devices and then asks for each of them.  NetworkManager sees  *)
(* the words only.  Devices come and go, threads share the host, a command *)
(* may be refused and the answer to one that took effect may be lost.      *)
(***************************************************************************)
EXTENDS Naturals, Sequences, SequencesExt

CONSTANTS
    Threads,
    Uuids,          \* of profiles
    Names,          \* of profiles, as their words
    Split,          \* the fields that line.split(":") makes of a name
    Devices,
    Shown,          \* a device as a list has it: -g writes a backslash before a colon
    Values,         \* of options; the ones below are among them
    Zero,           \* 0 or "": given and false
    Requests,       \* the calls the threads make
    Existing,       \* the profiles before anything runs
    None,
    MaxCalls,       \* bound: calls of each thread
    MaxPlugs        \* bound: devices that come or go

EthernetOptions == <<"mac", "mtu">>
BondOptions     == <<"mode", "miimon", "primary">>
IpOptions       == <<"ipv4.method", "ipv6.method", "ipv4.addresses", "ipv4.gateway",
                     "ipv6.addresses", "ipv6.gateway">>
Flags           == <<"autoconnect", "save">>
Keys == Range(EthernetOptions \o BondOptions \o IpOptions \o Flags)
        \cup {"type", "con-name", "ifname", "master", "dev", "id"}

Adds == {"add_ethernet_connection", "add_bond", "add_slave", "add_vlan", "add_dummy"}
Modifies == {"modify_connection", "modify_device"}
Ops == Adds \cup Modifies \cup {"delete_connection", "up", "down", "get_all_connections",
                                "get_all_devices"}

\* What a caller gives: a name, and the options by keyword.
Args == [Keys -> Values \cup BOOLEAN \cup {None}]
Calls == [op : Ops, name : Names \cup {<<v>> : v \in Devices} \cup {<<>>}, args : Args]

Settings == [Keys -> Values \cup {"yes", "no", "ethernet", "bond", "vlan", "dummy", None}]
Profile  == [name : Names, set : Settings]

ASSUME NmcliAssumption ==
    /\ Names \subseteq Seq(Values) /\ <<>> \notin Names
    /\ Split \in [Names -> Seq(Values \cup Names)] /\ \A n \in Names : Split[n] # <<>>
    /\ DOMAIN Shown = Devices
    /\ Zero \in Values /\ None \notin Values \cup BOOLEAN
    /\ Requests \subseteq Calls
    /\ Existing \in [Uuids -> Profile \cup {None}]
    /\ MaxCalls \in Nat /\ MaxPlugs \in Nat

VARIABLES
    profiles,   \* of the host
    active,     \* the profiles that are up
    devices,    \* the devices there are
    mtu,        \* a property of each device
    pc, call,   \* each thread's place and request
    todo,       \* the devices it has still to ask for
    listed,     \* what it has gathered
    answer,     \* how its last call ended
    calls, plugs,   \* counted for the bounds
    stayed,     \* the devices that were there all through its call (history)
    had         \* the mtu each device had meanwhile (history)

host == <<profiles, active, devices, mtu>>
vars == <<host, pc, call, todo, listed, answer, calls, plugs, stayed, had>>

NoCall == [op |-> "none"]

TypeOK ==
    /\ profiles \in [Uuids -> Profile \cup {None}]
    /\ active \subseteq {u \in Uuids : profiles[u] # None}
    /\ devices \subseteq Devices /\ mtu \in [Devices -> Values]
    /\ pc \in [Threads -> {"idle", "run", "each"}]
    /\ \A t \in Threads : call[t] \in Requests \cup {NoCall} /\ (pc[t] = "idle") = (call[t] = NoCall)
    /\ todo \in [Threads -> SUBSET Devices] /\ stayed \in [Threads -> SUBSET Devices]
    /\ answer \in [Threads -> {"none", "ok", "raised"}]

Init ==
    /\ profiles = Existing /\ active = {}
    /\ devices = Devices /\ mtu = [d \in Devices |-> Zero]
    /\ pc = [t \in Threads |-> "idle"] /\ call = [t \in Threads |-> NoCall]
    /\ todo = [t \in Threads |-> {}] /\ listed = [t \in Threads |-> {}]
    /\ answer = [t \in Threads |-> "none"]
    /\ calls = [t \in Threads |-> 0] /\ plugs = 0
    /\ stayed = [t \in Threads |-> {}] /\ had = [t \in Threads |-> {}]

----------------------------------------------------------------------------
(* Building the command.                                                   *)

\* Python's truth of an argument.
Truthy(v) == v \notin {None, Zero, FALSE}

\* f" {key} {value}" for the options that pass a test, in this order.
Written(c, keys, Test(_)) ==
    FlattenSeq([i \in 1 .. Len(keys) |->
        IF Test(c.args[keys[i]]) THEN <<keys[i], c.args[keys[i]]>> ELSE <<>>])

Always(v) == TRUE
Given(v)  == v # None

_get_str_value(v) == IF v = TRUE THEN "yes" ELSE "no"

\* Mutant: "if auto_connect" for "if auto_connect is not None".
FlagWordsTruthy(c) ==
    FlattenSeq([i \in 1 .. Len(Flags) |->
        IF Truthy(c.args[Flags[i]]) THEN <<Flags[i], _get_str_value(c.args[Flags[i]])>> ELSE <<>>])

FlagWords(c) ==
    FlattenSeq([i \in 1 .. Len(Flags) |->
        IF Given(c.args[Flags[i]]) THEN <<Flags[i], _get_str_value(c.args[Flags[i]])>> ELSE <<>>])

con_type(c) ==
    CASE c.op = "add_ethernet_connection" -> "ethernet"
      [] c.op = "add_bond"                -> "bond"
      [] c.op = "add_slave"               -> c.args["type"]
      [] c.op = "add_vlan"                -> "vlan"
      [] c.op = "add_dummy"               -> "dummy"

_common_options_builder(c) ==
    <<"type", con_type(c), "con-name">> \o c.name
    \o (IF c.op = "add_vlan" THEN <<>> ELSE Written(c, <<"ifname">>, Truthy))
    \o FlagWords(c)

type_options(c) ==
    CASE c.op = "add_ethernet_connection" -> Written(c, EthernetOptions, Truthy)
      [] c.op = "add_bond"                -> Written(c, BondOptions, Truthy)
      [] c.op = "add_slave"               -> Written(c, <<"master">>, Truthy)
      [] c.op = "add_vlan"                -> Written(c, <<"dev", "id">>, Always) \o Written(c, <<"mtu">>, Truthy)
      [] c.op \in Modifies                -> Written(c, EthernetOptions, Given)
      [] OTHER                            -> <<>>

_ip_options_builder(c) == Written(c, IpOptions, Truthy)

_nmcli_cmd_builder(c) ==
    CASE c.op \in Adds -> <<"connection", "add">> \o _common_options_builder(c)
                          \o type_options(c) \o _ip_options_builder(c)
      [] c.op = "modify_connection" -> <<"connection", "modify">> \o c.name \o type_options(c)
      [] c.op = "modify_device"     -> <<"device", "modify">> \o c.name \o type_options(c)
      [] c.op = "delete_connection" -> <<"connection", "delete">> \o c.name
      [] c.op \in {"up", "down"}    -> <<"connection", c.op>> \o c.name
      [] c.op = "get_all_connections" -> <<"connection", "show">>
      [] OTHER                      -> <<"device", "show">>

----------------------------------------------------------------------------
(* NetworkManager, which is given the words.                               *)

Called(w) == {u \in Uuids : profiles[u] # None /\ profiles[u].name = <<w>>}

\* Keys and values in turn, every key a known one.
Pairs(ws) ==
    /\ Len(ws) % 2 = 0
    /\ \A i \in 1 .. Len(ws) : i % 2 = 1 => ws[i] \in Keys

Applied(set, ws) ==
    [k \in Keys |->
        IF \E i \in 1 .. Len(ws) \div 2 : ws[2 * i - 1] = k
        THEN ws[2 * (CHOOSE i \in 1 .. Len(ws) \div 2 :
                        /\ ws[2 * i - 1] = k
                        /\ \A j \in i + 1 .. Len(ws) \div 2 : ws[2 * j - 1] # k)]
        ELSE set[k]]

\* What is said of one profile or device after the object and the operation.
Rest(ws, n) == SubSeq(ws, n, Len(ws))

Adding(ws) ==
    /\ ws[2] = "add" /\ Pairs(Rest(ws, 3))
    /\ LET set == Applied([k \in Keys |-> None], Rest(ws, 3))
       IN  \E u \in Uuids :
              /\ profiles[u] = None
              /\ profiles' = [profiles EXCEPT ![u] = [name |-> <<set["con-name"]>>, set |-> set]]
    /\ UNCHANGED <<active, devices, mtu>>

Modifying(ws) ==
    /\ ws[1] = "connection" /\ ws[2] = "modify"
    /\ Len(ws) > 3 /\ Pairs(Rest(ws, 4))
    /\ \E u \in Called(ws[3]) :
          profiles' = [profiles EXCEPT ![u].set = Applied(@, Rest(ws, 4))]
    /\ UNCHANGED <<active, devices, mtu>>

ModifyingDevice(ws) ==
    /\ ws[1] = "device" /\ ws[2] = "modify"
    /\ Len(ws) > 3 /\ Pairs(Rest(ws, 4))
    /\ ws[3] \in devices
    /\ mtu' = [mtu EXCEPT ![ws[3]] = IF Applied([k \in Keys |-> None], Rest(ws, 4))["mtu"] = None
                                     THEN @ ELSE Applied([k \in Keys |-> None], Rest(ws, 4))["mtu"]]
    /\ UNCHANGED <<profiles, active, devices>>

(* Each word is a profile of its own: the ones that are there are deleted,
   or brought down, and one that is not makes the status a failure. *)
AllFound(ws) == \A w \in Range(Rest(ws, 3)) : Called(w) # {}

Hit(ws, hit) ==
    /\ hit \subseteq UNION {Called(w) : w \in Range(Rest(ws, 3))}
    /\ \A w \in Range(Rest(ws, 3)) : Called(w) # {} => Called(w) \cap hit # {}

Deleting(ws) ==
    /\ ws[2] = "delete"
    /\ \E hit \in SUBSET Uuids :
          /\ Hit(ws, hit)
          /\ profiles' = [u \in Uuids |-> IF u \in hit THEN None ELSE profiles[u]]
          /\ active' = active \ hit
    /\ UNCHANGED <<devices, mtu>>

Lowering(ws) ==
    /\ ws[2] = "down"
    /\ \E hit \in SUBSET Uuids : Hit(ws, hit) /\ active' = active \ hit
    /\ UNCHANGED <<profiles, devices, mtu>>

Raising(ws) ==
    /\ ws[2] = "up" /\ Len(ws) = 3
    /\ \E u \in Called(ws[3]) : active' = active \cup {u}
    /\ UNCHANGED <<profiles, devices, mtu>>

\* What the calls in progress see of a change of the host.
Seen ==
    /\ stayed' = [t \in Threads |-> IF pc'[t] = "idle" THEN {} ELSE stayed[t] \cap devices']
    /\ had' = [t \in Threads |-> IF pc'[t] = "idle" THEN {}
                                 ELSE had[t] \cup {<<d, mtu'[d]>> : d \in devices'}]

----------------------------------------------------------------------------
(* The client.                                                             *)

Call(t) ==
    /\ pc[t] = "idle" /\ calls[t] < MaxCalls
    /\ \E c \in Requests : call' = [call EXCEPT ![t] = c]
    /\ pc' = [pc EXCEPT ![t] = "run"]
    /\ calls' = [calls EXCEPT ![t] = @ + 1]
    /\ answer' = [answer EXCEPT ![t] = "none"]
    /\ stayed' = [stayed EXCEPT ![t] = devices]
    /\ had' = [had EXCEPT ![t] = {<<d, mtu[d]>> : d \in devices}]
    /\ listed' = [listed EXCEPT ![t] = {}]
    /\ UNCHANGED <<host, todo, plugs>>

Return(t, how) ==
    /\ pc' = [pc EXCEPT ![t] = "idle"]
    /\ call' = [call EXCEPT ![t] = NoCall]
    /\ todo' = [todo EXCEPT ![t] = {}]
    /\ answer' = [answer EXCEPT ![t] = how]
    /\ UNCHANGED <<calls, plugs>>
    /\ Seen

Words(t) == _nmcli_cmd_builder(call[t])

\* _exec_command: the command was done and says so, or the answer was lost.
Done(t) ==
    /\ pc[t] = "run"
    /\ LET ws == Words(t)
       IN  \/ Adding(ws) \/ Modifying(ws) \/ ModifyingDevice(ws) \/ Raising(ws)
           \/ AllFound(ws) /\ (Deleting(ws) \/ Lowering(ws))
    /\ \E how \in {"ok", "raised"} : Return(t, how)
    /\ UNCHANGED listed

\* A status other than 0 raises CommandExecutionFailure, whatever was done.
Refused(t) ==
    /\ pc[t] # "idle"
    /\ \/ UNCHANGED host
       \/ LET ws == Words(t)
          IN  pc[t] = "run" /\ ~ AllFound(ws) /\ (Deleting(ws) \/ Lowering(ws))
    /\ Return(t, "raised")
    /\ listed' = [listed EXCEPT ![t] = {}]

\* get_all_connections: one line for a profile, cut at every colon.
ShowConnections(t) ==
    /\ pc[t] = "run" /\ call[t].op = "get_all_connections"
    /\ listed' = [listed EXCEPT ![t] =
          {LET line == Split[profiles[u].name] \o <<u, profiles[u].set["type"]>>
           IN  [name |-> line[1], uuid |-> line[2], type |-> line[3]] :
             u \in {u \in Uuids : profiles[u] # None}}]
    /\ UNCHANGED host
    /\ Return(t, "ok")

\* get_all_devices: the names, then a command for each.  shlex takes the
\* backslash of an escaped name off again, so each is asked for by its name.
ListDevices(t) ==
    /\ pc[t] = "run" /\ call[t].op = "get_all_devices"
    /\ pc' = [pc EXCEPT ![t] = "each"]
    /\ todo' = [todo EXCEPT ![t] = devices]
    /\ UNCHANGED <<host, call, listed, answer, calls, plugs, stayed, had>>

\* Mutant: a device that does not answer is left out.
ShowDeviceSkips(t) ==
    /\ pc[t] = "each" /\ todo[t] # {}
    /\ \E d \in todo[t] :
          /\ todo' = [todo EXCEPT ![t] = @ \ {d}]
          /\ \E got \in {{}, {[name |-> Shown[d], mtu |-> mtu[d]]}} :
                listed' = [listed EXCEPT ![t] = @ \cup got]
    /\ UNCHANGED <<host, pc, call, answer, calls, plugs, stayed, had>>

ShowDevice(t) ==
    /\ pc[t] = "each"
    /\ \E d \in todo[t] \cap devices :
          /\ todo' = [todo EXCEPT ![t] = @ \ {d}]
          /\ listed' = [listed EXCEPT ![t] = @ \cup {[name |-> Shown[d], mtu |-> mtu[d]]}]
    /\ UNCHANGED <<host, pc, call, answer, calls, plugs, stayed, had>>

DevicesDone(t) ==
    /\ pc[t] = "each" /\ todo[t] = {}
    /\ UNCHANGED <<host, listed>>
    /\ Return(t, "ok")

\* A device is plugged in or taken out.
Plug ==
    /\ plugs < MaxPlugs
    /\ plugs' = plugs + 1
    /\ \E d \in Devices : devices' = IF d \in devices THEN devices \ {d} ELSE devices \cup {d}
    /\ UNCHANGED <<profiles, active, mtu, pc, call, todo, listed, answer, calls>>
    /\ Seen

Next ==
    \/ Plug
    \/ \E t \in Threads :
          \/ Call(t) \/ Done(t) \/ Refused(t) \/ ShowConnections(t)
          \/ ListDevices(t) \/ ShowDevice(t) \/ DevicesDone(t)

Spec == Init /\ [][Next]_vars

----------------------------------------------------------------------------
(* Properties.                                                             *)

(* A list that get_all_devices returns misses no device that was there all
   through the call, and says of each device, under its name with the colons
   escaped, what was true of it at some time of the call, though every device
   is asked for at another time; a list of get_all_connections has the right
   identifier of every profile that has no colon in its name
   (nmcli.py:115-194). *)
Listed ==
    [][\A t \in Threads :
          call[t] # NoCall /\ answer'[t] = "ok" =>
             /\ call[t].op = "get_all_devices" =>
                   /\ \A d \in stayed[t] : \E e \in listed'[t] : e.name = Shown[d]
                   /\ \A e \in listed'[t] :
                         \E d \in Devices : e.name = Shown[d] /\ <<d, e.mtu>> \in had[t]
             /\ call[t].op = "get_all_connections" =>
                   \A u \in Uuids :
                      profiles[u] # None /\ Len(Split[profiles[u].name]) = 1 =>
                         \E e \in listed'[t] : e.uuid = u /\ e.name = profiles[u].name]_vars

\* What a call must set: all that was given, but a 0 or "" given to an add,
\* which the truth tests of the adds drop (nmcli.py:254-257, 329-334).
Asked(c) ==
    {k \in Keys : c.args[k] # None /\ ~ (c.op \in Adds /\ c.args[k] = Zero)}

Stated(v) == IF v \in BOOLEAN THEN _get_str_value(v) ELSE v

Named(u, n) == profiles[u] # None /\ profiles[u].name = n

\* The options a call leaves as they are; the type and the name are said by every add.
Others(c) == Keys \ (Asked(c) \cup {"type", "con-name"})

AddDone(c) ==
    \E u \in Uuids :
       /\ profiles[u] = None /\ profiles'[u] # None /\ profiles'[u].name = c.name
       /\ \A k \in Asked(c) : profiles'[u].set[k] = Stated(c.args[k])
       /\ \A k \in Others(c) : profiles'[u].set[k] = None

ModifyDone(c) ==
    \E u \in Uuids :
       /\ Named(u, c.name) /\ profiles'[u] # None /\ profiles'[u].name = c.name
       /\ \A k \in Asked(c) : profiles'[u].set[k] = Stated(c.args[k])
       /\ \A k \in Others(c) : profiles'[u].set[k] = profiles[u].set[k]

(* However a call ends, it touched no profile and no device but those called
   by a word of its name.  If it is reported as done and the name is one word,
   it was done: an add made a profile with every option given, a False flag
   included and a 0 or "" not, and with no other; a modify set every option
   given, a 0 included, and no other; a delete, up or down found a profile of
   that name and deleted, raised or lowered it (nmcli.py:196-754). *)
DoneAsAsked ==
    [][\A t \in Threads :
          call[t] # NoCall /\ call'[t] = NoCall =>
             LET c == call[t] IN
             /\ \A u \in Uuids :
                   \/ profiles'[u] = profiles[u] /\ (u \in active) = (u \in active')
                   \/ \E w \in Range(c.name) : Named(u, <<w>>)
                   \/ profiles[u] = None /\ profiles'[u].name = c.name
             /\ \A d \in Devices : mtu'[d] # mtu[d] => c.op = "modify_device" /\ c.name = <<d>>
             /\ answer'[t] = "ok" /\ Len(c.name) = 1 =>
                   /\ c.op \in Adds => AddDone(c)
                   /\ c.op = "modify_connection" => ModifyDone(c)
                   /\ c.op = "modify_device" /\ c.args["mtu"] # None =>
                         mtu'[c.name[1]] = c.args["mtu"]
                   /\ c.op = "delete_connection" =>
                         \E u \in Uuids : Named(u, c.name) /\ profiles'[u] = None
                   /\ c.op = "up"   => \E u \in Uuids : Named(u, c.name) /\ u \in active'
                   /\ c.op = "down" => \E u \in Uuids : Named(u, c.name) /\ u \notin active']_vars

=============================================================================
