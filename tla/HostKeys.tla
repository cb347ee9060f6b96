------------------------------ MODULE HostKeys ------------------------------
(***************************************************************************)
(* Host.get_ssh_public_key (host.py:352-383): threads ask for the public   *)
(* key of a user of the host, which is generated if it is not there.  The  *)
(* two halves of a pair are files of HostFiles that hold the same content. *)
(***************************************************************************)
EXTENDS HostFiles

CONSTANTS
    Prv, Pub,       \* ID_RSA_PRV and ID_RSA_PUB of the user
    Keys            \* the pairs ssh-keygen may make

ASSUME KeysAssumption ==
    /\ Prv \in Paths /\ Pub \in Paths /\ Prv # Pub
    /\ Keys \subseteq Contents /\ "raised" \notin Keys
    \* A public key that is there at first belongs to the private key.
    /\ Initially[Pub] \in Inodes /\ Held[Initially[Pub]] \in Keys =>
          Initially[Prv] \in Inodes /\ Held[Initially[Prv]] = Held[Initially[Pub]]

VARIABLES
    keyAt,      \* the next step of the call, "asks" when ssh-keygen waits for ever
    made,       \* the pair ssh-keygen is writing
    key,        \* what the last call returned: a key, None for "", "raised"
    keyCalls,   \* number of calls made
    spoiled     \* two pairs were written at once, or others changed the files (history)

keyVars == <<keyAt, made, key, keyCalls, spoiled>>

KeysTypeOK ==
    /\ keyAt \in [Threads -> {"none", "look", "keygen", "private", "public", "cat", "asks"}]
    /\ made \in [Threads -> Keys \cup {None}]
    /\ key \in [Threads -> Chunk \cup {"none", "raised"}]
    /\ keyCalls \in [Threads -> Nat]
    /\ spoiled \in BOOLEAN

KeysInit ==
    /\ keyAt = [t \in Threads |-> "none"]
    /\ made = [t \in Threads |-> None]
    /\ key = [t \in Threads |-> "none"]
    /\ keyCalls = [t \in Threads |-> 0]
    /\ spoiled = FALSE

----------------------------------------------------------------------------
KeyGoes(t, step) == keyAt' = [keyAt EXCEPT ![t] = step]

\* The call returns; the calls of HostFiles have no part in it.
KeyEnds(t, k) ==
    /\ KeyGoes(t, "none")
    /\ key' = [key EXCEPT ![t] = k]
    /\ made' = [made EXCEPT ![t] = None]

Rest == <<pc, call, dst, handle, answer, calls>>

\* The calls of HostFiles reach the key files too.
KeyFilesKept ==
    \A p \in {Prv, Pub} : link'[p] = link[p] /\ (link[p] \in Inodes => data'[link[p]] = data[link[p]])

\* Another ssh-keygen writes its pair.
Racing(t) == \E u \in Threads \ {t} : keyAt[u] \in {"private", "public"}

AskKey(t) ==
    /\ keyAt[t] = "none" /\ pc[t] = "idle"
    /\ keyCalls' = [keyCalls EXCEPT ![t] = @ + 1]
    /\ KeyGoes(t, "look")
    /\ UNCHANGED <<vars, made, key, spoiled>>

\* fs.exists(id_rsa_pub), which answers no when its command fails.
KeyLook(t) ==
    /\ keyAt[t] = "look"
    /\ \/ link[Pub] # None /\ KeyGoes(t, "cat")
       \/ KeyGoes(t, "keygen")
    /\ UNCHANGED <<vars, made, key, keyCalls, spoiled>>

\* Mutant: ssh-keygen overwrites without asking.
KeygenOverwrites(t) ==
    /\ keyAt[t] = "keygen"
    /\ \E k \in Keys : /\ \A u \in Threads : made[u] # k
                       /\ \A i \in Inodes : data[i] # Whole(k)
                       /\ made' = [made EXCEPT ![t] = k]
    /\ KeyGoes(t, "private")
    /\ UNCHANGED <<vars, key, keyCalls, spoiled>>

(* ssh-keygen -q -t rsa -N '' -f id_rsa_prv: it asks before it overwrites a
   private key, on a stdin that nobody writes to or closes. *)
Keygen(t) ==
    /\ keyAt[t] = "keygen"
    /\ \/ link[Prv] # None /\ KeyGoes(t, "asks") /\ UNCHANGED made
       \/ /\ link[Prv] = None
          /\ \E k \in Keys : /\ \A u \in Threads : made[u] # k
                             /\ \A i \in Inodes : data[i] # Whole(k)
                             /\ made' = [made EXCEPT ![t] = k]
          /\ KeyGoes(t, "private")
    /\ UNCHANGED <<vars, key, keyCalls, spoiled>>

Save(p, k) ==
    /\ link[p] # Dir
    /\ LET i == IF link[p] = None THEN CHOOSE i \in Unused : TRUE ELSE link[p]
       IN  /\ link[p] = None => Unused # {} /\ ParentThere(p)
           /\ link' = [link EXCEPT ![p] = i]
           /\ data' = [data EXCEPT ![i] = Whole(k)]
           /\ attr' = attr

SavePrivate(t) ==
    /\ keyAt[t] = "private"
    /\ Save(Prv, made[t])
    /\ KeyGoes(t, "public")
    /\ spoiled' = (spoiled \/ Racing(t))
    /\ Notice(t) /\ UNCHANGED <<Rest, made, key, keyCalls>>

\* Its answer may be lost.
SavePublic(t) ==
    /\ keyAt[t] = "public"
    /\ Save(Pub, made[t])
    /\ \/ KeyGoes(t, "cat") /\ UNCHANGED <<made, key>>
       \/ KeyEnds(t, "raised")
    /\ spoiled' = (spoiled \/ Racing(t))
    /\ Notice(t) /\ UNCHANGED <<Rest, keyCalls>>

\* cat id_rsa_pub, whose status is not looked at.
Cat(t) ==
    /\ keyAt[t] = "cat"
    /\ KeyEnds(t, IF link[Pub] \in Inodes THEN data[link[Pub]][1] ELSE None)
    /\ UNCHANGED <<vars, keyCalls, spoiled>>

\* ssh-keygen fails (""), or a connection is lost.
KeyFails(t) ==
    /\ keyAt[t] \notin {"none", "asks"}
    /\ \/ KeyEnds(t, "raised")
       \/ keyAt[t] \in {"keygen", "private", "public"} /\ KeyEnds(t, None)
    /\ UNCHANGED <<vars, keyCalls, spoiled>>

KeyWorks(t) ==
    \/ KeyLook(t) \/ Keygen(t) \/ SavePrivate(t) \/ SavePublic(t)
    \/ Cat(t) \/ KeyFails(t)

----------------------------------------------------------------------------
(* Properties.                                                             *)

(* A key that get_ssh_public_key returns is the public half of the private key
   the host has, however often generating stopped half-way, as long as no two
   callers generated at once and nobody else changed the files (host.py:
   372-383). *)
KeyMatches ==
    [][\A t \in Threads :
          /\ keyAt[t] = "cat" /\ keyAt'[t] = "none" /\ key'[t] \in Keys /\ ~ spoiled
          => link[Prv] \in Inodes /\ data[link[Prv]] = Whole(key'[t])]_<<vars, keyVars>>

=============================================================================
