------------------------ MODULE HostInventoryProofs ------------------------
(***************************************************************************)
(* Proofs about HostInventory for any number of hosts, lookups and         *)
(* addresses.  What add() finds by an address needs that no address is the *)
(* domain name of another one; types and quiet lookups do not.             *)
(***************************************************************************)
EXTENDS HostInventory, WellFoundedInduction, TLAPS

\* Removing an element shifts the later ones and keeps the order.
LEMMA WithoutProperties ==
    ASSUME inventory \in Seq(Hosts), NEW k \in DOMAIN inventory
    PROVE  /\ Without(k) \in Seq(Hosts)
           /\ Len(Without(k)) = Len(inventory) - 1
           /\ DOMAIN Without(k) = 1 .. Len(inventory) - 1
           /\ \A j \in DOMAIN Without(k) :
                 Without(k)[j] = IF j < k THEN inventory[j] ELSE inventory[j + 1]
<1>1. Len(inventory) \in Nat /\ DOMAIN inventory = 1 .. Len(inventory)
  OBVIOUS
<1>2. \A j \in 1 .. Len(inventory) - 1 :
          (IF j < k THEN inventory[j] ELSE inventory[j + 1]) \in Hosts
  BY <1>1
<1>3. Without(k) \in [1 .. Len(inventory) - 1 -> Hosts]
  BY <1>2 DEF Without
<1>4. Len(inventory) - 1 \in Nat
  BY <1>1
<1> QED
  BY <1>3, <1>4 DEF Without

\* Without alias, the lookup in add() finds the host with the same address.
LEMMA AddressLookup ==
    ASSUME NoAlias, ListOK, UniqueAddress, NEW a \in Addresses
    PROVE  /\ Hits(a) = {i \in DOMAIN inventory : addr[inventory[i]] = a}
           /\ FirstHit(a) # 0 <=> Hits(a) # {}
           /\ FirstHit(a) # 0 => FirstHit(a) \in Hits(a)
<1>1. \A i \in DOMAIN inventory : inventory[i] \in Hosts /\ addr[inventory[i]] \in Addresses
  BY DEF ListOK
<1>2. Hits(a) = {i \in DOMAIN inventory : addr[inventory[i]] = a}
  BY <1>1 DEF Hits, Matches, NoAlias
<1>3. \A i \in Hits(a) : i # 0 /\ i \in Nat
  BY <1>2 DEF ListOK
<1>4. \A i, j \in Hits(a) : i = j
  BY <1>2 DEF UniqueAddress
<1>5. Hits(a) # {} => FirstHit(a) \in Hits(a)
  <2> SUFFICES ASSUME Hits(a) # {} PROVE FirstHit(a) \in Hits(a)
    OBVIOUS
  <2>1. \E i \in Hits(a) : \A j \in Hits(a) : i <= j
    BY <1>3, <1>4
  <2> QED
    BY <2>1 DEF FirstHit
<1> QED
  BY <1>2, <1>3, <1>5 DEF FirstHit

LEMMA InitHolds == Init => IInv
<1> SUFFICES ASSUME Init PROVE IInv
  OBVIOUS
<1>1. ListOK
  BY DEF Init, ListOK
<1>2. LockInv /\ AddingInv /\ UniqueAddress /\ LatestInv
  BY InventoryAssumption
     DEF InventoryAssumption, Init, LockInv, AddingInv, UniqueAddress, LatestInv
<1> QED
  BY <1>1, <1>2 DEF IInv

\* Steps that leave the list, the lock and what the holder knows alone.
LEMMA Elsewhere ==
    ASSUME IInv, UNCHANGED <<addr, victim, lock, inventory, latest>>,
           at' \in [Hosts -> {"new", "lock", "lookup", "remove", "append", "sudo", "done"}],
           \A h \in Hosts : at'[h] # at[h] =>
              at[h] \in {"new", "sudo"} /\ at'[h] \in {"lock", "done"}
    PROVE  IInv'
<1>1. \A h \in Hosts :
          /\ at[h] = "lookup" <=> at'[h] = "lookup"
          /\ at[h] = "remove" <=> at'[h] = "remove"
          /\ at[h] = "append" <=> at'[h] = "append"
  BY DEF IInv, ListOK
<1> QED
  BY <1>1 DEF IInv, ListOK, LockInv, AddingInv, UniqueAddress, LatestInv

LEMMA AcquireKeeps ==
    ASSUME IInv, NEW h \in Hosts, Acquire(h)
    PROVE  IInv'
<1> USE DEF IInv, ListOK
<1>1. ListOK'
  BY DEF Acquire
<1>2. LockInv'
  BY InventoryAssumption DEF Acquire, LockInv, InventoryAssumption
<1>3. AddingInv' /\ UniqueAddress' /\ LatestInv'
  BY DEF Acquire, AddingInv, UniqueAddress, LatestInv
<1> QED
  BY <1>1, <1>2, <1>3

LEMMA LookupKeeps ==
    ASSUME NoAlias, IInv, NEW h \in Hosts, Lookup(h)
    PROVE  IInv'
<1> USE DEF IInv, ListOK
<1>1. addr[h] \in Addresses
  OBVIOUS
<1>2. FirstHit(addr[h]) \in Nat
  BY <1>1, AddressLookup DEF Hits
<1>3. ListOK'
  BY <1>2 DEF Lookup
<1>4. LockInv'
  BY DEF Lookup, LockInv
<1>5. AddingInv'
  <2>1. \A g \in Hosts \ {h} : at'[g] = at[g] /\ victim'[g] = victim[g]
    BY DEF Lookup
  <2>2. at'[h] = "remove" => FirstHit(addr[h]) # 0 /\ victim'[h] = FirstHit(addr[h])
    BY DEF Lookup
  <2>3. at'[h] = "append" => FirstHit(addr[h]) = 0
    BY DEF Lookup
  <2>4. at'[h] = "append" => \A i \in DOMAIN inventory : addr[inventory[i]] # addr[h]
    BY <1>1, <2>3, AddressLookup
  <2>5. at'[h] = "remove" => victim'[h] \in DOMAIN inventory
                               /\ addr[inventory[victim'[h]]] = addr[h]
    BY <1>1, <2>2, AddressLookup
  <2>6. UNCHANGED <<addr, inventory>>
    BY DEF Lookup
  <2> QED
    BY <2>1, <2>4, <2>5, <2>6 DEF AddingInv
<1>6. UniqueAddress' /\ LatestInv'
  BY DEF Lookup, UniqueAddress, LatestInv
<1> QED
  BY <1>3, <1>4, <1>5, <1>6

LEMMA RemoveKeeps ==
    ASSUME IInv, NEW h \in Hosts, Remove(h)
    PROVE  IInv'
<1> USE DEF IInv, ListOK
<1> DEFINE k == victim[h]
<1>1. k \in DOMAIN inventory /\ addr[inventory[k]] = addr[h] /\ k \in Nat
  BY DEF Remove, AddingInv
<1>2. inventory' = Without(k) /\ UNCHANGED <<addr, victim, lock, latest>>
  BY DEF Remove
<1>3. /\ inventory' \in Seq(Hosts)
      /\ DOMAIN inventory' = 1 .. Len(inventory) - 1
      /\ \A j \in DOMAIN inventory' :
            inventory'[j] = IF j < k THEN inventory[j] ELSE inventory[j + 1]
  BY <1>1, <1>2, WithoutProperties
<1>4. at' = [at EXCEPT ![h] = "append"] /\ at[h] = "remove"
  BY DEF Remove
<1>5. ListOK'
  BY <1>2, <1>3, <1>4
<1>6. LockInv'
  BY <1>2, <1>4 DEF LockInv
<1> DEFINE before(j) == IF j < k THEN j ELSE j + 1
<1>a. DOMAIN inventory = 1 .. Len(inventory) /\ Len(inventory) \in Nat
  OBVIOUS
<1> HIDE DEF IInv, ListOK
<1>b. \A j \in DOMAIN inventory' :
         /\ before(j) \in DOMAIN inventory \ {k}
         /\ inventory'[j] = inventory[before(j)]
  <2>1. \A j \in 1 .. Len(inventory) - 1 : before(j) \in 1 .. Len(inventory) /\ before(j) # k
    BY <1>1, <1>a
  <2>2. \A j \in DOMAIN inventory' : inventory'[j] = inventory[before(j)]
    BY <1>3
  <2> QED
    BY <1>3, <1>a, <2>1, <2>2
<1>c. \A i, j \in DOMAIN inventory' : before(i) = before(j) => i = j
  <2>1. \A i, j \in Nat : before(i) = before(j) => i = j
    BY <1>1
  <2>2. DOMAIN inventory' \subseteq Nat
    BY <1>3, <1>a
  <2> QED
    BY <2>1, <2>2
<1> HIDE DEF before
<1> USE DEF IInv, ListOK
<1>7. UniqueAddress'
  BY <1>2, <1>b, <1>c DEF UniqueAddress
<1>8. \A j \in DOMAIN inventory' : addr[inventory'[j]] # addr[h]
  BY <1>1, <1>b DEF UniqueAddress
<1>9. AddingInv'
  <2>1. \A g \in Hosts \ {h} : at'[g] = at[g] /\ at[g] \notin {"remove", "append"}
    BY <1>4 DEF LockInv
  <2> QED
    BY <1>2, <1>4, <1>8, <2>1 DEF AddingInv
<1>10. LatestInv'
  <2> SUFFICES ASSUME NEW a \in Addresses, latest[a] # None
               PROVE  /\ addr[latest[a]] = a
                      /\ \/ \E i \in DOMAIN inventory' : inventory'[i] = latest[a]
                         \/ \E g \in Hosts : at'[g] = "append" /\ addr[g] = a
    BY <1>2 DEF LatestInv
  <2>1. addr[latest[a]] = a
    BY DEF LatestInv
  <2>2. CASE a = addr[h]
    BY <2>1, <2>2, <1>4
  <2>3. CASE a # addr[h]
    <3>1. \A g \in Hosts : at[g] # "append"
      BY <1>4 DEF LockInv
    <3>2. PICK i \in DOMAIN inventory : inventory[i] = latest[a]
      BY <3>1 DEF LatestInv
    <3>3. i # k
      BY <1>1, <2>1, <2>3, <3>2
    <3>4. CASE i < k
      <4>1. i \in DOMAIN inventory' /\ inventory'[i] = inventory[i]
        BY <1>1, <1>3, <3>4
      <4> QED
        BY <2>1, <3>2, <4>1
    <3>5. CASE i > k
      <4>1. i - 1 \in 1 .. Len(inventory) - 1 /\ ~ (i - 1 < k) /\ (i - 1) + 1 = i
        BY <1>1, <1>a, <3>5
      <4>2. i - 1 \in DOMAIN inventory' /\ inventory'[i - 1] = inventory[i]
        BY <1>3, <4>1
      <4> QED
        BY <2>1, <3>2, <4>2
    <3> QED
      BY <1>1, <2>1, <3>3, <3>4, <3>5
  <2> QED
    BY <2>2, <2>3
<1> QED
  BY <1>5, <1>6, <1>7, <1>9, <1>10

LEMMA PublishKeeps ==
    ASSUME IInv, NEW h \in Hosts, Publish(h)
    PROVE  IInv'
<1> USE DEF IInv, ListOK
<1>1. /\ inventory' = Append(inventory, h)
      /\ latest' = [latest EXCEPT ![addr[h]] = h]
      /\ lock' = None
      /\ at' = [at EXCEPT ![h] = "sudo"]
      /\ at[h] = "append"
      /\ UNCHANGED <<addr, victim>>
  BY DEF Publish
<1>2. /\ inventory' \in Seq(Hosts)
      /\ DOMAIN inventory' = 1 .. Len(inventory) + 1
      /\ \A j \in 1 .. Len(inventory) : inventory'[j] = inventory[j]
      /\ inventory'[Len(inventory) + 1] = h
      /\ DOMAIN inventory = 1 .. Len(inventory)
      /\ Len(inventory) \in Nat
  BY <1>1
<1>3. ListOK'
  BY <1>1, <1>2
<1>4. lock = h /\ \A g \in Hosts \ {h} : at'[g] = at[g] /\ at[g] \notin {"lookup", "remove", "append"}
  BY <1>1 DEF LockInv
<1>5. LockInv'
  BY <1>1, <1>4, InventoryAssumption DEF LockInv, InventoryAssumption
<1>6. AddingInv'
  BY <1>1, <1>4 DEF AddingInv
<1>7. \A i \in DOMAIN inventory : addr[inventory[i]] # addr[h]
  BY <1>1 DEF AddingInv
<1>8. UniqueAddress'
  BY <1>1, <1>2, <1>7 DEF UniqueAddress
<1>9. LatestInv'
  <2> SUFFICES ASSUME NEW a \in Addresses, latest'[a] # None
               PROVE  /\ addr[latest'[a]] = a
                      /\ \E i \in DOMAIN inventory' : inventory'[i] = latest'[a]
    BY <1>1 DEF LatestInv
  <2>1. CASE a = addr[h]
    <3>1. latest'[a] = h
      BY <1>1, <2>1
    <3>2. Len(inventory) + 1 \in DOMAIN inventory'
      BY <1>2
    <3> QED
      BY <1>2, <2>1, <3>1, <3>2
  <2>2. CASE a # addr[h]
    <3>1. latest'[a] = latest[a]
      BY <1>1, <2>2
    <3>2. \A g \in Hosts : at[g] = "append" => g = h
      BY <1>4
    <3>3. PICK i \in DOMAIN inventory : inventory[i] = latest[a]
      BY <2>2, <3>1, <3>2 DEF LatestInv
    <3> QED
      BY <1>2, <3>1, <3>3 DEF LatestInv
  <2> QED
    BY <2>1, <2>2
<1> QED
  BY <1>3, <1>5, <1>6, <1>8, <1>9

LEMMA StepHolds == NoAlias /\ IInv /\ [Next]_vars => IInv'
<1> SUFFICES ASSUME NoAlias, IInv, [Next]_vars PROVE IInv'
  OBVIOUS
<1>1. ASSUME NEW h \in Hosts, Construct(h) \/ ConstructFails(h) \/ SetSudo(h) PROVE IInv'
  BY <1>1, Elsewhere DEF Construct, ConstructFails, SetSudo, IInv, ListOK
<1>2. ASSUME NEW h \in Hosts, Acquire(h) PROVE IInv'
  BY <1>2, AcquireKeeps
<1>3. ASSUME NEW h \in Hosts, Lookup(h) PROVE IInv'
  BY <1>3, LookupKeeps
<1>4. ASSUME NEW h \in Hosts, Remove(h) PROVE IInv'
  BY <1>4, RemoveKeeps
<1>5. ASSUME NEW h \in Hosts, Publish(h) PROVE IInv'
  BY <1>5, PublishKeeps
<1>6. ASSUME NEW r \in Readers, Reading(r) PROVE IInv'
  BY <1>6, Elsewhere DEF Reading, Begin, Scan, End, Use, IInv, ListOK
<1>7. CASE UNCHANGED vars
  BY <1>7, Elsewhere DEF vars, IInv, ListOK
<1> QED
  BY <1>1, <1>2, <1>3, <1>4, <1>5, <1>6, <1>7 DEF Next, Constructing

(* The lock, the list and the last registrations agree in every state. *)
THEOREM Inductive ==
    ASSUME NoAlias
    PROVE  Spec => []IInv
<1>1. IInv /\ [Next]_vars => IInv'
  BY StepHolds
<1> QED
  BY <1>1, InitHolds, PTL DEF Spec

(* One host per address, for any number of constructing threads. *)
THEOREM AddressesUnique ==
    ASSUME NoAlias
    PROVE  Spec => []UniqueAddress
<1>1. IInv => UniqueAddress
  BY DEF IInv
<1>2. Spec => []IInv
  BY Inductive
<1> QED
  BY <1>1, <1>2, PTL

(* Whenever no host is being added, the last one registered is found. *)
THEOREM LatestIsFound ==
    ASSUME NoAlias
    PROVE  Spec => []LatestWins
<1>1. IInv => LatestWins
  <2> SUFFICES ASSUME IInv, lock = None, NEW a \in Addresses, latest[a] # None
               PROVE  GetNow(a) = latest[a]
    BY DEF LatestWins
  <2> USE DEF IInv
  <2>1. \A h \in Hosts : at[h] # "append"
    BY InventoryAssumption DEF LockInv, InventoryAssumption
  <2>2. addr[latest[a]] = a
    BY DEF LatestInv
  <2>3. PICK i \in DOMAIN inventory : inventory[i] = latest[a]
    BY <2>1 DEF LatestInv
  <2>4. i \in Hits(a)
    BY <2>2, <2>3, AddressLookup
  <2>5. FirstHit(a) # 0 /\ FirstHit(a) \in Hits(a)
    BY <2>4, AddressLookup
  <2>6. FirstHit(a) = i
    BY <2>4, <2>5, AddressLookup DEF UniqueAddress
  <2> QED
    BY <2>3, <2>5, <2>6 DEF GetNow
<1>2. Spec => []IInv
  BY Inductive
<1> QED
  BY <1>1, <1>2, PTL

----------------------------------------------------------------------------
(* The list and the lock, whatever the domain names are.                    *)

\* What add() is about to remove is on the list.
VictimInv == \A h \in Hosts : at[h] = "remove" => victim[h] \in DOMAIN inventory

BaseInv == ListOK /\ LockInv /\ VictimInv

\* The first position that matches exists as soon as one does.
LEMMA FirstHitType ==
    ASSUME inventory \in Seq(Hosts), NEW n
    PROVE  /\ FirstHit(n) \in Nat
           /\ FirstHit(n) # 0 => FirstHit(n) \in DOMAIN inventory
<1>1. Hits(n) \subseteq DOMAIN inventory /\ Hits(n) \subseteq Nat
  BY DEF Hits
<1>2. CASE Hits(n) = {}
  BY <1>2 DEF FirstHit
<1>3. CASE Hits(n) # {}
  <2> DEFINE Less == OpToRel(<, Nat)
  <2>a. IsWellFoundedOn(Less, Nat)
    BY NatLessThanWellFounded
  <2>b. \A x, y \in Nat : x < y => <<x, y>> \in Less
    BY DEF OpToRel
  <2> HIDE DEF Less
  <2>1. PICK i \in Hits(n) : \A j \in Hits(n) : ~ (<<j, i>> \in Less)
    BY <1>1, <1>3, <2>a, WFMin
  <2>2. ASSUME NEW j \in Hits(n) PROVE i <= j
    <3>1. i \in Nat /\ j \in Nat
      BY <1>1
    <3>2. j < i => <<j, i>> \in Less
      BY <2>b, <3>1
    <3> QED
      BY <2>1, <3>1, <3>2
  <2>3. FirstHit(n) = CHOOSE k \in Hits(n) : \A j \in Hits(n) : k <= j
    BY <1>3 DEF FirstHit
  <2>4. FirstHit(n) \in Hits(n)
    BY <2>2, <2>3
  <2> QED
    BY <1>1, <2>4
<1> QED
  BY <1>2, <1>3

LEMMA BaseInit == Init => BaseInv
  BY InitHolds DEF Init, IInv, BaseInv, VictimInv

\* Steps of other places of a constructor, and of lookups.
LEMMA BaseElsewhere ==
    ASSUME BaseInv, UNCHANGED <<addr, victim, lock, inventory, latest>>,
           at' \in [Hosts -> {"new", "lock", "lookup", "remove", "append", "sudo", "done"}],
           \A h \in Hosts : at'[h] # at[h] =>
              at[h] \in {"new", "sudo"} /\ at'[h] \in {"lock", "done"}
    PROVE  BaseInv'
<1>1. \A h \in Hosts :
          /\ at[h] = "lookup" <=> at'[h] = "lookup"
          /\ at[h] = "remove" <=> at'[h] = "remove"
          /\ at[h] = "append" <=> at'[h] = "append"
  BY DEF BaseInv, ListOK
<1> QED
  BY <1>1 DEF BaseInv, ListOK, LockInv, VictimInv

LEMMA BaseStep == BaseInv /\ [Next]_vars => BaseInv'
<1> SUFFICES ASSUME BaseInv, [Next]_vars PROVE BaseInv'
  OBVIOUS
<1>1. ASSUME NEW h \in Hosts, Construct(h) \/ ConstructFails(h) \/ SetSudo(h) PROVE BaseInv'
  BY <1>1, BaseElsewhere DEF Construct, ConstructFails, SetSudo, BaseInv, ListOK
<1>2. ASSUME NEW h \in Hosts, Acquire(h) PROVE BaseInv'
  <2> USE <1>2 DEF BaseInv, ListOK, Acquire
  <2>1. ListOK' /\ VictimInv'
    BY DEF VictimInv
  <2>2. LockInv'
    BY InventoryAssumption DEF LockInv, InventoryAssumption
  <2> QED
    BY <2>1, <2>2
<1>3. ASSUME NEW h \in Hosts, Lookup(h) PROVE BaseInv'
  <2>1. /\ FirstHit(addr[h]) \in Nat
        /\ FirstHit(addr[h]) # 0 => FirstHit(addr[h]) \in DOMAIN inventory
    BY FirstHitType DEF BaseInv, ListOK
  <2>2. UNCHANGED <<addr, lock, inventory, latest>>
    BY <1>3 DEF Lookup
  <2>3. \A g \in Hosts \ {h} : at'[g] = at[g] /\ victim'[g] = victim[g]
    BY <1>3 DEF Lookup, BaseInv, ListOK
  <2>4. /\ victim'[h] = FirstHit(addr[h])
        /\ at'[h] = IF victim'[h] = 0 THEN "append" ELSE "remove"
    BY <1>3 DEF Lookup, BaseInv, ListOK
  <2>5. ListOK'
    BY <1>3, <2>1, <2>2 DEF Lookup, BaseInv, ListOK
  <2>6. LockInv'
    BY <1>3, <2>2, <2>3, <2>4 DEF Lookup, BaseInv, LockInv
  <2>7. VictimInv'
    BY <2>1, <2>2, <2>3, <2>4 DEF BaseInv, VictimInv
  <2> QED
    BY <2>5, <2>6, <2>7 DEF BaseInv
<1>4. ASSUME NEW h \in Hosts, Remove(h) PROVE BaseInv'
  <2>1. victim[h] \in DOMAIN inventory /\ at[h] = "remove"
    BY <1>4 DEF Remove, BaseInv, VictimInv
  <2>2. inventory' \in Seq(Hosts)
    BY <1>4, <2>1, WithoutProperties DEF Remove, BaseInv, ListOK
  <2>3. at' = [at EXCEPT ![h] = "append"] /\ UNCHANGED <<addr, victim, lock, latest>>
    BY <1>4 DEF Remove
  <2>4. ListOK'
    BY <2>2, <2>3 DEF BaseInv, ListOK
  <2>5. LockInv'
    BY <2>1, <2>3 DEF BaseInv, ListOK, LockInv
  <2>6. \A g \in Hosts : at'[g] # "remove"
    BY <2>1, <2>3 DEF BaseInv, ListOK, LockInv
  <2> QED
    BY <2>4, <2>5, <2>6 DEF BaseInv, VictimInv
<1>5. ASSUME NEW h \in Hosts, Publish(h) PROVE BaseInv'
  <2>1. /\ inventory' = Append(inventory, h) /\ lock' = None /\ at[h] = "append"
        /\ at' = [at EXCEPT ![h] = "sudo"] /\ UNCHANGED <<addr, victim>>
        /\ latest' = [latest EXCEPT ![addr[h]] = h]
    BY <1>5 DEF Publish
  <2>2. inventory' \in Seq(Hosts)
    BY <2>1 DEF BaseInv, ListOK
  <2>3. ListOK'
    BY <2>1, <2>2 DEF BaseInv, ListOK
  <2>4. \A g \in Hosts : at'[g] \notin {"lookup", "remove", "append"}
    BY <2>1 DEF BaseInv, ListOK, LockInv
  <2>5. LockInv' /\ VictimInv'
    BY <2>1, <2>4, InventoryAssumption DEF LockInv, VictimInv, InventoryAssumption
  <2> QED
    BY <2>3, <2>5 DEF BaseInv
<1>6. ASSUME NEW r \in Readers, Reading(r) PROVE BaseInv'
  BY <1>6, BaseElsewhere DEF Reading, Begin, Scan, End, Use, BaseInv, ListOK
<1>7. CASE UNCHANGED vars
  BY <1>7, BaseElsewhere DEF vars, BaseInv, ListOK
<1> QED
  BY <1>1, <1>2, <1>3, <1>4, <1>5, <1>6, <1>7 DEF Next, Constructing

----------------------------------------------------------------------------
(* Types.                                                                   *)

LookupRecords ==
    [at : {"idle", "scan", "found", "missing", "used", "error"}, want : Names,
     pos : Nat, found : Hosts \cup {None}, steady : SUBSET Hosts, quiet : BOOLEAN]

LEMMA TypeInit == Init => TypeOK
<1> SUFFICES ASSUME Init PROVE TypeOK
  OBVIOUS
<1>1. reader \in [Readers -> LookupRecords]
  <2> DEFINE Fresh == {[at |-> "idle", want |-> n, pos |-> 0, found |-> None,
                        steady |-> {}, quiet |-> TRUE] : n \in Names}
  <2>1. reader \in [Readers -> Fresh]
    BY DEF Init
  <2>2. ASSUME NEW x \in Fresh PROVE x \in LookupRecords
    <3>1. PICK n \in Names :
             x = [at |-> "idle", want |-> n, pos |-> 0, found |-> None,
                  steady |-> {}, quiet |-> TRUE]
      OBVIOUS
    <3> QED
      BY <3>1 DEF LookupRecords
  <2> HIDE DEF Fresh
  <2> QED
    BY <2>1, <2>2
<1>2. ListOK
  BY InitHolds DEF IInv
<1>3. lock \in Hosts \cup {None} /\ sudo \in [Hosts -> {"unset", "no", "yes"}]
  BY DEF Init
<1> QED
  BY <1>1, <1>2, <1>3 DEF TypeOK, ListOK, LookupRecords

LEMMA TypeStep == TypeOK /\ BaseInv /\ BaseInv' /\ [Next]_vars => TypeOK'
<1> SUFFICES ASSUME TypeOK, BaseInv, ListOK', [Next]_vars
             PROVE  /\ lock' \in Hosts \cup {None}
                    /\ sudo' \in [Hosts -> {"unset", "no", "yes"}]
                    /\ reader' \in [Readers -> LookupRecords]
  BY DEF BaseInv, ListOK, TypeOK, LookupRecords
<1>t. /\ lock \in Hosts \cup {None}
      /\ sudo \in [Hosts -> {"unset", "no", "yes"}]
      /\ reader \in [Readers -> LookupRecords]
  BY DEF TypeOK, LookupRecords
<1>1. ASSUME NEW h \in Hosts,
             Construct(h) \/ ConstructFails(h) \/ Acquire(h) \/ Lookup(h)
                \/ Publish(h) \/ SetSudo(h)
      PROVE  /\ lock' \in Hosts \cup {None}
             /\ sudo' \in [Hosts -> {"unset", "no", "yes"}]
             /\ reader' \in [Readers -> LookupRecords]
  BY <1>1, <1>t DEF Construct, ConstructFails, Acquire, Lookup, Publish, SetSudo
<1>2. ASSUME NEW h \in Hosts, Remove(h)
      PROVE  UNCHANGED <<lock, sudo>> /\ reader' \in [Readers -> LookupRecords]
  <2> DEFINE after(r) == [reader[r] EXCEPT !.steady = @ \ {inventory[victim[h]]},
                                           !.quiet = @ /\ reader[r].at # "scan"]
  <2>1. reader' = [r \in Readers |-> after(r)] /\ UNCHANGED <<lock, sudo>>
    BY <1>2 DEF Remove
  <2>2. ASSUME NEW r \in Readers PROVE after(r) \in LookupRecords
    <3>1. reader[r] \in LookupRecords
      BY <1>t
    <3> QED
      BY <3>1 DEF LookupRecords
  <2> HIDE DEF after
  <2> QED
    BY <2>1, <2>2
<1>3. ASSUME NEW r \in Readers, Begin(r)
      PROVE  UNCHANGED <<lock, sudo>> /\ reader' \in [Readers -> LookupRecords]
  <2>1. Registered \in SUBSET Hosts
    BY DEF Registered, BaseInv, ListOK
  <2> DEFINE after == [reader[r] EXCEPT !.at = "scan", !.steady = Registered]
  <2>2. reader[r] \in LookupRecords
    BY <1>t
  <2>3. after \in LookupRecords
    BY <2>1, <2>2 DEF LookupRecords
  <2>4. reader' = [reader EXCEPT ![r] = after] /\ UNCHANGED <<lock, sudo>>
    BY <1>3, <1>t, <2>2 DEF Begin, LookupRecords
  <2> HIDE DEF after
  <2> QED
    BY <1>t, <2>3, <2>4
<1>4. ASSUME NEW r \in Readers, Scan(r)
      PROVE  UNCHANGED <<lock, sudo>> /\ reader' \in [Readers -> LookupRecords]
  <2>1. reader[r] \in LookupRecords /\ reader[r].pos \in Nat
    BY <1>t DEF LookupRecords
  <2>2. inventory[reader[r].pos + 1] \in Hosts
    BY <1>4, <2>1 DEF Scan, BaseInv, ListOK
  <2> DEFINE h == inventory[reader[r].pos + 1]
             seen == IF reader[r].found = None /\ Matches(h, reader[r].want)
                     THEN h ELSE reader[r].found
             after == [reader[r] EXCEPT !.pos = @ + 1, !.found = seen]
  <2>3. reader' = [reader EXCEPT ![r] = after] /\ UNCHANGED <<lock, sudo>>
    BY <1>4, <1>t, <2>1 DEF Scan, LookupRecords
  <2>4. seen \in Hosts \cup {None} /\ reader[r].pos + 1 \in Nat
    BY <2>1, <2>2 DEF LookupRecords
  <2> HIDE DEF seen
  <2>5. after \in LookupRecords
    BY <2>1, <2>4 DEF LookupRecords
  <2> QED
    BY <1>t, <2>3, <2>5
<1>5. ASSUME NEW r \in Readers, End(r)
      PROVE  UNCHANGED <<lock, sudo>> /\ reader' \in [Readers -> LookupRecords]
  BY <1>5, <1>t DEF End, LookupRecords
<1>6. ASSUME NEW r \in Readers, NEW want \in BOOLEAN, Use(r, want)
      PROVE  /\ lock' = lock
             /\ sudo' \in [Hosts -> {"unset", "no", "yes"}]
             /\ reader' \in [Readers -> LookupRecords]
  <2> DEFINE h == reader[r].found
             end == IF sudo'[h] = "unset" THEN "error" ELSE "used"
             after == [reader[r] EXCEPT !.at = end]
  <2>1. reader[r] \in LookupRecords
    BY <1>t
  <2>2. after \in LookupRecords
    BY <2>1 DEF LookupRecords
  <2>3. /\ reader' = [reader EXCEPT ![r] = after]
        /\ sudo' = [sudo EXCEPT ![h] = IF want THEN "yes" ELSE @]
        /\ lock' = lock
    BY <1>6 DEF Use
  <2> HIDE DEF after, h
  <2>4. sudo' \in [Hosts -> {"unset", "no", "yes"}]
    BY <1>t, <2>3
  <2> QED
    BY <1>t, <2>2, <2>3, <2>4
<1> QED
  BY <1>1, <1>2, <1>3, <1>4, <1>5, <1>6, <1>t
     DEF Next, Constructing, Reading, vars

(* Every variable keeps its type: a lookup has found a host or none, and the
   lock is held by a host that is being added or by nobody. *)
THEOREM TypeCorrect == Spec => []TypeOK
<1>1. Spec => []BaseInv
  BY BaseInit, BaseStep, PTL DEF Spec
<1>2. Spec => Init /\ [][Next]_vars
  BY PTL DEF Spec
<1> QED
  BY <1>1, <1>2, TypeInit, TypeStep, PTL

----------------------------------------------------------------------------
(* Lookups that no removal overlaps.                                        *)

\* Such a lookup that found nothing yet has the hosts it may not miss ahead.
QuietInv(r) ==
    /\ reader[r].at = "idle" => reader[r].pos = 0
    /\ reader[r].at = "scan" /\ reader[r].quiet /\ reader[r].found = None =>
          \A h \in reader[r].steady :
              Matches(h, reader[r].want) =>
                  \E i \in DOMAIN inventory : i > reader[r].pos /\ inventory[i] = h
    /\ reader[r].at = "missing" /\ reader[r].quiet =>
          \A h \in reader[r].steady : ~ Matches(h, reader[r].want)

\* A longer list and another place of a constructor change nothing for r.
LEMMA QuietElsewhere ==
    ASSUME NEW r \in Readers, QuietInv(r), reader'[r] = reader[r], addr' = addr,
           \A i \in DOMAIN inventory : i \in DOMAIN inventory' /\ inventory'[i] = inventory[i]
    PROVE  QuietInv(r)'
<1>1. \A h : Matches(h, reader[r].want)' <=> Matches(h, reader[r].want)
  BY DEF Matches
<1>2. \A h : (\E i \in DOMAIN inventory : i > reader[r].pos /\ inventory[i] = h) =>
               \E i \in DOMAIN inventory' : i > reader[r].pos /\ inventory'[i] = h
  OBVIOUS
<1> QED
  BY <1>1, <1>2 DEF QuietInv, Matches

LEMMA QuietRemove ==
    ASSUME TypeOK, NEW h \in Hosts, Remove(h), NEW r \in Readers, QuietInv(r)
    PROVE  QuietInv(r)'
<1>1. /\ reader'[r] = [reader[r] EXCEPT !.steady = @ \ {inventory[victim[h]]},
                                        !.quiet = @ /\ reader[r].at # "scan"]
      /\ addr' = addr
  BY DEF Remove
<1>2. reader[r] \in LookupRecords
  BY DEF TypeOK, LookupRecords
<1>3. /\ reader'[r].at = reader[r].at /\ reader'[r].want = reader[r].want
      /\ reader'[r].pos = reader[r].pos
      /\ reader'[r].steady \subseteq reader[r].steady
  BY <1>1, <1>2 DEF LookupRecords
<1>4. reader'[r].quiet <=> reader[r].quiet /\ reader[r].at # "scan"
  BY <1>1, <1>2 DEF LookupRecords
<1> QED
  BY <1>1, <1>3, <1>4 DEF QuietInv, Matches

LEMMA QuietBegin ==
    ASSUME TypeOK, NEW r \in Readers, Begin(r), QuietInv(r)
    PROVE  QuietInv(r)'
<1>1. reader[r] \in LookupRecords
  BY DEF TypeOK, LookupRecords
<1>2. /\ reader[r].at = "idle" /\ reader'[r].at = "scan"
      /\ reader'[r].pos = reader[r].pos /\ reader'[r].steady = Registered
      /\ UNCHANGED <<addr, inventory>>
  BY <1>1 DEF Begin, TypeOK, LookupRecords
<1>3. reader'[r].pos = 0
  BY <1>2 DEF QuietInv
<1>4. \A g \in Registered : \E i \in DOMAIN inventory : i > 0 /\ inventory[i] = g
  BY DEF Registered, TypeOK
<1> QED
  BY <1>2, <1>3, <1>4 DEF QuietInv

LEMMA QuietScan ==
    ASSUME TypeOK, NEW r \in Readers, Scan(r), QuietInv(r)
    PROVE  QuietInv(r)'
<1> DEFINE g == inventory[reader[r].pos + 1]
<1>1. reader[r] \in LookupRecords /\ reader[r].pos \in Nat
  BY DEF TypeOK, LookupRecords
<1>2. /\ reader[r].at = "scan" /\ reader'[r].at = "scan"
      /\ reader'[r].pos = reader[r].pos + 1
      /\ reader'[r].want = reader[r].want /\ reader'[r].steady = reader[r].steady
      /\ reader'[r].quiet = reader[r].quiet
      /\ UNCHANGED <<addr, inventory>>
  BY <1>1 DEF Scan, TypeOK, LookupRecords
<1>3. reader'[r].found = IF reader[r].found = None /\ Matches(g, reader[r].want)
                         THEN g ELSE reader[r].found
  BY <1>1 DEF Scan, TypeOK, LookupRecords
<1>4. g \in Hosts
  BY <1>1 DEF Scan, TypeOK
<1> HIDE DEF g
<1> SUFFICES ASSUME reader[r].quiet, reader'[r].found = None,
                    NEW h \in reader[r].steady, Matches(h, reader[r].want)
             PROVE  \E i \in DOMAIN inventory : i > reader[r].pos + 1 /\ inventory[i] = h
  BY <1>2 DEF QuietInv, Matches
<1>5. reader[r].found = None /\ ~ Matches(g, reader[r].want)
  BY <1>3, <1>4, InventoryAssumption DEF InventoryAssumption
<1>6. PICK i \in DOMAIN inventory : i > reader[r].pos /\ inventory[i] = h
  BY <1>2, <1>5 DEF QuietInv
<1>7. i # reader[r].pos + 1
  BY <1>5, <1>6 DEF g
<1>8. i \in Nat
  BY DEF TypeOK
<1> QED
  BY <1>1, <1>6, <1>7, <1>8

LEMMA QuietEnd ==
    ASSUME TypeOK, NEW r \in Readers, End(r), QuietInv(r)
    PROVE  QuietInv(r)'
<1>1. reader[r] \in LookupRecords /\ reader[r].pos \in Nat
  BY DEF TypeOK, LookupRecords
<1>2. /\ reader[r].at = "scan" /\ reader[r].pos >= Len(inventory)
      /\ reader'[r].at = IF reader[r].found = None THEN "missing" ELSE "found"
      /\ reader'[r].want = reader[r].want /\ reader'[r].steady = reader[r].steady
      /\ reader'[r].quiet = reader[r].quiet
      /\ UNCHANGED <<addr, inventory>>
  BY <1>1 DEF End, TypeOK, LookupRecords
<1>3. \A i \in DOMAIN inventory : ~ (i > reader[r].pos)
  BY <1>1, <1>2 DEF TypeOK
<1> QED
  BY <1>2, <1>3 DEF QuietInv, Matches

LEMMA QuietStep ==
    ASSUME TypeOK, [Next]_vars, NEW r \in Readers, QuietInv(r)
    PROVE  QuietInv(r)'
<1>1. ASSUME NEW h \in Hosts, Constructing(h), ~ Remove(h) PROVE QuietInv(r)'
  <2>1. reader' = reader /\ addr' = addr
    BY <1>1 DEF Constructing, Construct, ConstructFails, Acquire, Lookup, Publish, SetSudo
  <2>2. inventory' = inventory \/ inventory' = Append(inventory, h)
    BY <1>1 DEF Constructing, Construct, ConstructFails, Acquire, Lookup, Publish, SetSudo
  <2>3. \A i \in DOMAIN inventory : i \in DOMAIN inventory' /\ inventory'[i] = inventory[i]
    <3>1. inventory \in Seq(Hosts)
      BY DEF TypeOK
    <3>2. CASE inventory' = Append(inventory, h)
      BY <3>1, <3>2
    <3> QED
      BY <2>2, <3>2
  <2> QED
    BY <2>1, <2>3, QuietElsewhere
<1>2. ASSUME NEW h \in Hosts, Remove(h) PROVE QuietInv(r)'
  BY <1>2, QuietRemove
<1>3. ASSUME NEW q \in Readers \ {r}, Reading(q) PROVE QuietInv(r)'
  <2>1. reader'[r] = reader[r] /\ UNCHANGED <<addr, inventory>>
    BY <1>3 DEF Reading, Begin, Scan, End, Use, TypeOK
  <2> QED
    BY <2>1, QuietElsewhere
<1>4. CASE Reading(r)
  <2>1. ASSUME NEW want \in BOOLEAN, Use(r, want) PROVE QuietInv(r)'
    <3>1. reader'[r].at \in {"error", "used"}
      BY <2>1 DEF Use, TypeOK
    <3> QED
      BY <3>1 DEF QuietInv
  <2> QED
    BY <1>4, <2>1, QuietBegin, QuietScan, QuietEnd DEF Reading
<1>5. CASE UNCHANGED vars
  BY <1>5, QuietElsewhere DEF vars
<1> QED
  BY <1>1, <1>2, <1>3, <1>4, <1>5 DEF Next, Constructing

(* A lookup without lock that no removal overlaps misses none of the hosts that
   were registered when it began, whatever is added meanwhile. *)
THEOREM QuietLookupsFind == Spec => []QuietLookupFinds
<1> DEFINE AllQuiet == \A r \in Readers : QuietInv(r)
<1>1. Init => AllQuiet
  <2> SUFFICES ASSUME Init, NEW r \in Readers PROVE QuietInv(r)
    OBVIOUS
  <2>1. \E n \in Names : reader[r] = [at |-> "idle", want |-> n, pos |-> 0, found |-> None,
                                     steady |-> {}, quiet |-> TRUE]
    BY DEF Init
  <2>2. reader[r].at = "idle" /\ reader[r].pos = 0
    BY <2>1
  <2> QED
    BY <2>2 DEF QuietInv
<1>2. TypeOK /\ AllQuiet /\ [Next]_vars => AllQuiet'
  BY QuietStep
<1>3. AllQuiet => QuietLookupFinds
  BY DEF QuietInv, QuietLookupFinds
<1> QED
  BY <1>1, <1>2, <1>3, TypeCorrect, PTL DEF Spec

=============================================================================
