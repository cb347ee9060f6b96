------------------------------ MODULE MCNmcli -------------------------------
(* Instances of Nmcli for TLC: a profile called by one word, one of the two
   words "wired" and "a", and one with a colon in its name, on a host with two
   devices. *)
EXTENDS Nmcli

CONSTANTS t1, t2, a, wired, colon, left, right, d1, d2, v, escaped

MCNames == {<<a>>, <<wired, a>>, <<colon>>}

\* d2 has a colon in its name.
Escapes == [d \in Devices |-> IF d = d2 THEN escaped ELSE d]

Interchangeable == Permutations(Threads)

Nothing == [k \in Keys |-> None]
With(f) == [k \in Keys |-> IF k \in DOMAIN f THEN f[k] ELSE None]

Cut == [n \in Names |-> IF n = <<colon>> THEN <<left, right>> ELSE <<n>>]
Before == [u \in Uuids |->
    CASE u = "u1" -> [name |-> <<wired, a>>, set |-> Nothing]
      [] u = "u2" -> [name |-> <<colon>>, set |-> Nothing]
      [] OTHER    -> None]

Full == [ifname |-> v, autoconnect |-> FALSE, save |-> TRUE, mac |-> v, mtu |-> v] @@
        [k \in Range(IpOptions) |-> v]
Add(op, n, f) == [op |-> op, name |-> n, args |-> With(f)]

NmcliRequests ==
    {Add("add_ethernet_connection", <<a>>, Full), Add("add_dummy", <<wired, a>>, [ifname |-> v]),
     Add("add_bond", <<a>>, [mode |-> v, miimon |-> Zero, primary |-> v, autoconnect |-> TRUE]),
     Add("add_slave", <<a>>, [type |-> v, master |-> v, save |-> FALSE]),
     Add("add_vlan", <<a>>, [dev |-> v, id |-> v, mtu |-> Zero]),
     Add("modify_connection", <<a>>, [mtu |-> v]), Add("modify_connection", <<wired, a>>, [mtu |-> v]),
     Add("modify_device", <<d1>>, [mtu |-> v]), Add("delete_connection", <<a>>, <<>>),
     Add("modify_connection", <<a>>, [mtu |-> Zero, mac |-> v]), Add("down", <<a>>, <<>>),
     Add("delete_connection", <<wired, a>>, <<>>), Add("up", <<a>>, <<>>), Add("down", <<wired, a>>, <<>>),
     Add("get_all_connections", <<>>, <<>>), Add("get_all_devices", <<>>, <<>>)}

=============================================================================
