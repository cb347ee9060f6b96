--------------------------- MODULE HostInventory ---------------------------
(***************************************************************************)
(* The class-wide inventory of hosts (host.py:34-37, 60-123).  Threads     *)
(* construct Host objects, which register themselves under a lock, while   *)
(* others look hosts up with Host.get, which takes no lock, and use them.  *)
(* Each object is constructed once, so an object stands for its thread.    *)
(***************************************************************************)
EXTENDS Naturals, Sequences

CONSTANTS
    Hosts,          \* the Host objects that threads construct
    Readers,        \* the lookups other threads make
    Addresses,      \* what Host.ip may be: an IP or, with hostname=, a name
    Names,          \* what may be looked up: addresses and domain names
    Fqdn,           \* socket.getfqdn of each address
    None            \* no host

ASSUME InventoryAssumption ==
    /\ Addresses \subseteq Names
    /\ Fqdn \in [Addresses -> Names]
    /\ None \notin Hosts

VARIABLES
    addr,           \* Host.ip, once it is known
    at,             \* where the constructor of each object is
    victim,         \* the position add() found for its address, or 0
    lock,           \* who holds Host.lock
    inventory,      \* the list
    sudo,           \* Host.sudo, "unset" until the constructor assigns it
    reader,         \* the lookups, see Init
    latest          \* the last object registered with each address (history)

vars == <<addr, at, victim, lock, inventory, sudo, reader, latest>>

Init ==
    /\ addr \in [Hosts -> Addresses]
    /\ at = [h \in Hosts |-> "new"]
    /\ victim = [h \in Hosts |-> 0]
    /\ lock = None
    /\ inventory = <<>>
    /\ sudo = [h \in Hosts |-> "unset"]
    /\ reader \in [Readers -> {[at |-> "idle", want |-> n, pos |-> 0, found |-> None,
                                steady |-> {}, quiet |-> TRUE] : n \in Names}]
    /\ latest = [a \in Addresses |-> None]

TypeOK ==
    /\ addr \in [Hosts -> Addresses]
    /\ at \in [Hosts -> {"new", "lock", "lookup", "remove", "append", "sudo", "done"}]
    /\ victim \in [Hosts -> Nat]
    /\ lock \in Hosts \cup {None}
    /\ inventory \in Seq(Hosts)
    /\ sudo \in [Hosts -> {"unset", "no", "yes"}]
    /\ reader \in [Readers -> [at : {"idle", "scan", "found", "missing", "used", "error"},
                               want : Names, pos : Nat, found : Hosts \cup {None},
                               steady : SUBSET Hosts, quiet : BOOLEAN]]
    /\ latest \in [Addresses -> Hosts \cup {None}]

----------------------------------------------------------------------------
(* The list.                                                               *)

Registered == {inventory[i] : i \in DOMAIN inventory}

\* h.ip == ip or h.fqdn == ip
Matches(h, n) == addr[h] = n \/ Fqdn[addr[h]] = n

\* Positions of the inventory that match n, and the first of them.
Hits(n) == {i \in DOMAIN inventory : Matches(inventory[i], n)}
FirstHit(n) ==
    IF Hits(n) = {} THEN 0 ELSE CHOOSE i \in Hits(n) : \A j \in Hits(n) : i <= j

\* What get(n) returns when nothing interferes.
GetNow(n) == IF FirstHit(n) = 0 THEN None ELSE inventory[FirstHit(n)]

\* Mutant: the element after the one that was found is removed.
WithoutNext(i) == [j \in 1 .. Len(inventory) - 1 |->
                     IF j <= i THEN inventory[j] ELSE inventory[j + 1]]

Without(i) == [j \in 1 .. Len(inventory) - 1 |->
                 IF j < i THEN inventory[j] ELSE inventory[j + 1]]

----------------------------------------------------------------------------
(* Host.__init__ and Host.add.                                             *)

\* The address is valid, given as hostname or resolved; get ready to add.
Construct(h) ==
    /\ at[h] = "new"
    /\ at' = [at EXCEPT ![h] = "lock"]
    /\ UNCHANGED <<addr, victim, lock, inventory, sudo, reader, latest>>

\* fqdn2ip raises, or neither ip nor hostname is given: no object.
ConstructFails(h) ==
    /\ at[h] = "new"
    /\ at' = [at EXCEPT ![h] = "done"]
    /\ UNCHANGED <<addr, victim, lock, inventory, sudo, reader, latest>>

\* Mutant: add() without the lock.
AcquireNothing(h) ==
    /\ at[h] = "lock"
    /\ at' = [at EXCEPT ![h] = "lookup"]
    /\ UNCHANGED <<addr, victim, lock, inventory, sudo, reader, latest>>

\* with self.lock
Acquire(h) ==
    /\ at[h] = "lock"
    /\ lock = None
    /\ lock' = h
    /\ at' = [at EXCEPT ![h] = "lookup"]
    /\ UNCHANGED <<addr, victim, inventory, sudo, reader, latest>>

\* Mutant: the ValueError of get() ends the thread with the lock held.
LookupRaises(h) ==
    /\ at[h] = "lookup"
    /\ victim' = [victim EXCEPT ![h] = FirstHit(addr[h])]
    /\ at' = [at EXCEPT ![h] = IF victim'[h] = 0 THEN "sudo" ELSE "remove"]
    /\ UNCHANGED <<addr, lock, inventory, sudo, reader, latest>>

\* self.get(self.ip), under the lock.
Lookup(h) ==
    /\ at[h] = "lookup"
    /\ victim' = [victim EXCEPT ![h] = FirstHit(addr[h])]
    /\ at' = [at EXCEPT ![h] = IF victim'[h] = 0 THEN "append" ELSE "remove"]
    /\ UNCHANGED <<addr, lock, inventory, sudo, reader, latest>>

\* self.inventory.remove(host)
Remove(h) ==
    /\ at[h] = "remove"
    /\ inventory' = Without(victim[h])
    /\ at' = [at EXCEPT ![h] = "append"]
    /\ reader' = [r \in Readers |->
                    [reader[r] EXCEPT !.steady = @ \ {inventory[victim[h]]},
                                      !.quiet = @ /\ reader[r].at # "scan"]]
    /\ UNCHANGED <<addr, victim, lock, sudo, latest>>

\* self.inventory.append(self), and the end of "with self.lock".
Publish(h) ==
    /\ at[h] = "append"
    /\ inventory' = Append(inventory, h)
    /\ latest' = [latest EXCEPT ![addr[h]] = h]
    /\ lock' = None
    /\ at' = [at EXCEPT ![h] = "sudo"]
    /\ UNCHANGED <<addr, victim, sudo, reader>>

\* self.sudo = False, after self.add().
SetSudo(h) ==
    /\ at[h] = "sudo"
    /\ sudo' = [sudo EXCEPT ![h] = "no"]
    /\ at' = [at EXCEPT ![h] = "done"]
    /\ UNCHANGED <<addr, victim, lock, inventory, reader, latest>>

----------------------------------------------------------------------------
(* Host.get in other threads: the list is iterated by position while it may
   change; each comparison may wait for a name server.                      *)

Begin(r) ==
    /\ reader[r].at = "idle"
    /\ reader' = [reader EXCEPT ![r].at = "scan", ![r].steady = Registered]
    /\ UNCHANGED <<addr, at, victim, lock, inventory, sudo, latest>>

Scan(r) ==
    /\ reader[r].at = "scan"
    /\ reader[r].pos < Len(inventory)
    /\ LET h == inventory[reader[r].pos + 1]
       IN  reader' = [reader EXCEPT
                        ![r].pos = @ + 1,
                        ![r].found = IF @ = None /\ Matches(h, reader[r].want)
                                     THEN h ELSE @]
    /\ UNCHANGED <<addr, at, victim, lock, inventory, sudo, latest>>

\* Mutant: the iteration ends one position early.
EndEarly(r) ==
    /\ reader[r].at = "scan"
    /\ reader[r].pos + 1 >= Len(inventory)
    /\ reader' = [reader EXCEPT ![r].at =
                     IF reader[r].found = None THEN "missing" ELSE "found"]
    /\ UNCHANGED <<addr, at, victim, lock, inventory, sudo, latest>>

\* host[0], or ValueError "There is no host with %s".
End(r) ==
    /\ reader[r].at = "scan"
    /\ reader[r].pos >= Len(inventory)
    /\ reader' = [reader EXCEPT ![r].at =
                     IF reader[r].found = None THEN "missing" ELSE "found"]
    /\ UNCHANGED <<addr, at, victim, lock, inventory, sudo, latest>>

\* executor(sudo=want): reads self.sudo, having set it if asked to.
Use(r, want) ==
    /\ reader[r].at = "found"
    /\ LET h == reader[r].found
       IN  /\ sudo' = [sudo EXCEPT ![h] = IF want THEN "yes" ELSE @]
           /\ reader' = [reader EXCEPT ![r].at =
                            IF sudo'[h] = "unset" THEN "error" ELSE "used"]
    /\ UNCHANGED <<addr, at, victim, lock, inventory, latest>>

Constructing(h) ==
    \/ Construct(h) \/ ConstructFails(h) \/ Acquire(h) \/ Lookup(h)
    \/ Remove(h) \/ Publish(h) \/ SetSudo(h)

Reading(r) == Begin(r) \/ Scan(r) \/ End(r) \/ \E want \in BOOLEAN : Use(r, want)

Next == (\E h \in Hosts : Constructing(h)) \/ (\E r \in Readers : Reading(r))

\* Threads that were started run on, and one that waits for the lock gets it.
Spec == Init /\ [][Next]_vars /\ \A h \in Hosts : WF_vars(Constructing(h))

----------------------------------------------------------------------------
(* Properties.                                                             *)

\* No address is the domain name of another one.
NoAlias == \A a, b \in Addresses : Fqdn[a] = b => a = b

(* The inventory holds one host per address (host.py:107-119). *)
UniqueAddress ==
    \A i, j \in DOMAIN inventory : addr[inventory[i]] = addr[inventory[j]] => i = j

(* Whenever no host is being added, looking up an address returns the host
   registered last with it: "keeping all instances of interesting resources
   in single place" (host.py:34), "Get host from inventory" (host.py:94). *)
LatestWins ==
    lock = None => \A a \in Addresses : latest[a] # None => GetNow(a) = latest[a]

(* A lookup that no removal overlaps misses no host that was registered when
   it began, although it takes no lock (host.py:102). *)
QuietLookupFinds ==
    \A r \in Readers :
        reader[r].at = "missing" /\ reader[r].quiet =>
            \A h \in reader[r].steady : ~ Matches(h, reader[r].want)

(* "There is no host with %s" (host.py:104) is said only if none of the hosts
   that stayed registered during the whole lookup matches. *)
MissingIsMissing ==
    \A r \in Readers :
        reader[r].at = "missing" =>
            \A h \in reader[r].steady : ~ Matches(h, reader[r].want)

(* Every host whose construction begins is registered: the lock is released
   on every path of add() (host.py:111-119). *)
EveryHostRegistered == \A h \in Hosts : at[h] = "lock" ~> at[h] = "done"

----------------------------------------------------------------------------
(* The inductive invariant behind the first two properties, without alias.  *)

LockInv == \A h \in Hosts : at[h] \in {"lookup", "remove", "append"} <=> lock = h

\* What the thread that holds the lock knows about its address.
AddingInv ==
    \A h \in Hosts :
        /\ at[h] = "remove" => /\ victim[h] \in DOMAIN inventory
                               /\ addr[inventory[victim[h]]] = addr[h]
        /\ at[h] = "append" => \A i \in DOMAIN inventory : addr[inventory[i]] # addr[h]

\* The last host of an address is registered, or being replaced.
LatestInv ==
    \A a \in Addresses :
        latest[a] # None =>
            /\ addr[latest[a]] = a
            /\ \/ \E i \in DOMAIN inventory : inventory[i] = latest[a]
               \/ \E h \in Hosts : at[h] = "append" /\ addr[h] = a

\* The part of TypeOK that the proofs use.
ListOK ==
    /\ addr \in [Hosts -> Addresses]
    /\ at \in [Hosts -> {"new", "lock", "lookup", "remove", "append", "sudo", "done"}]
    /\ victim \in [Hosts -> Nat]
    /\ inventory \in Seq(Hosts)
    /\ latest \in [Addresses -> Hosts \cup {None}]

IInv == ListOK /\ LockInv /\ AddingInv /\ UniqueAddress /\ LatestInv

=============================================================================
