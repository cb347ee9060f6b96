-------------------------- MODULE MCHostInventory --------------------------
(* Instance of HostInventory for TLC: two machines a1 and a2; a1 has the
   domain name "web". *)
EXTENDS HostInventory

CONSTANTS a1, a2, web

PlainAddresses == {a1, a2}
AllNames == {a1, a2, web}
PlainFqdn == [a \in PlainAddresses |-> IF a = a1 THEN web ELSE a2]

=============================================================================
