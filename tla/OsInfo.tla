------------------------------- MODULE OsInfo -------------------------------
(***************************************************************************)
(* OperatingSystem (operatingsystem.py:11-169) and Host.get_os_info        *)
(* (host.py:453-460): threads read properties that are fetched from the    *)
(* host when the object does not have them yet and kept for good.  Two of  *)
(* them are files of HostFiles; the host may be upgraded meanwhile.        *)
(***************************************************************************)
EXTENDS HostFiles

CONSTANTS
    OsRelease, SystemRelease,   \* /etc/os-release and /etc/system-release
    Facts                       \* what a command may say of the host

Queries == {"release_str", "release_info", "distribution", "kernel_info", "timezone"}

ASSUME OsAssumption ==
    /\ OsRelease \in Paths /\ SystemRelease \in Paths
    /\ Facts # {} /\ {None, Empty} \cap Facts = {}

VARIABLES
    fact,       \* what the commands of the other queries say
    cache,      \* the attributes of the object, None when not fetched
    osAt,       \* the next step of each thread
    query,      \* what it reads; "os_info" reads the distribution three times
    got,        \* what it fetched
    fields,     \* what get_os_info has so far
    info,       \* how the last call ended
    osCalls, changes,   \* counted for the bounds
    crossed     \* the host changed while a thread was fetching (history)

osVars == <<fact, cache, osAt, query, got, fields, info, osCalls, changes, crossed>>

Known == Facts \cup Block

OsTypeOK ==
    /\ fact \in [Queries -> Facts]
    /\ cache \in [Queries -> Known \cup {None}]
    /\ osAt \in [Threads -> {"none", "look", "fetch", "exists", "store", "give"}]
    /\ query \in [Threads -> Queries \cup {"os_info"}]
    /\ got \in [Threads -> Known \cup {None}]
    /\ fields \in [Threads -> Seq(Known \cup {None})]
    /\ info \in [Threads -> Seq(Known \cup {None, "failure", "unsupported", "raised"})]
    /\ osCalls \in [Threads -> Nat] /\ changes \in Nat /\ crossed \in BOOLEAN

OsInit ==
    /\ fact = [q \in Queries |-> CHOOSE v \in Facts : TRUE]
    /\ cache = [q \in Queries |-> None]
    /\ osAt = [t \in Threads |-> "none"]
    /\ query = [t \in Threads |-> "os_info"]
    /\ got = [t \in Threads |-> None]
    /\ fields = [t \in Threads |-> <<>>]
    /\ info = [t \in Threads |-> <<>>]
    /\ osCalls = [t \in Threads |-> 0] /\ changes = 0 /\ crossed = FALSE

----------------------------------------------------------------------------
Attribute(t) == IF query[t] = "os_info" THEN "distribution" ELSE query[t]

\* The file a property is read from.
Source(q) == IF q = "release_info" THEN OsRelease ELSE SystemRelease

OsGoes(t, step) == osAt' = [osAt EXCEPT ![t] = step]

OsEnds(t, how) ==
    /\ OsGoes(t, "none")
    /\ info' = [info EXCEPT ![t] = how]
    /\ got' = [got EXCEPT ![t] = None]
    /\ fields' = [fields EXCEPT ![t] = <<>>]

Inquire(t) ==
    /\ osAt[t] = "none" /\ pc[t] = "idle"
    /\ \E q \in Queries \cup {"os_info"} : query' = [query EXCEPT ![t] = q]
    /\ OsGoes(t, "look")
    /\ osCalls' = [osCalls EXCEPT ![t] = @ + 1]
    /\ UNCHANGED <<vars, fact, cache, got, fields, info, changes, crossed>>

\* Mutant: the attribute is fetched whenever it is read.
LookAway(t) ==
    /\ osAt[t] = "look"
    /\ OsGoes(t, "fetch")
    /\ UNCHANGED <<vars, fact, cache, query, got, fields, info, osCalls, changes, crossed>>

\* "if not self._dist": nothing, or what was fetched is empty.
OsLook(t) ==
    /\ osAt[t] = "look"
    /\ OsGoes(t, IF cache[Attribute(t)] \in {None, Empty} THEN "fetch" ELSE "give")
    /\ UNCHANGED <<vars, fact, cache, query, got, fields, info, osCalls, changes, crossed>>

Fetch(t) ==
    /\ osAt[t] = "fetch"
    /\ LET q == Attribute(t)
       IN  \/ /\ q \notin {"release_str", "release_info"}
              /\ got' = [got EXCEPT ![t] = fact[q]]
           \/ /\ q \in {"release_str", "release_info"} /\ link[Source(q)] \in Inodes
              /\ got' = [got EXCEPT ![t] = data[link[Source(q)]]]
    /\ OsGoes(t, "store")
    /\ UNCHANGED <<vars, fact, cache, query, fields, info, osCalls, changes, crossed>>

(* A status other than 0: get_release_info looks whether the file is there,
   get_os_info makes Nones of the exception. *)
FetchFails(t) ==
    /\ osAt[t] = "fetch"
    /\ \/ query[t] = "release_info" /\ OsGoes(t, "exists") /\ UNCHANGED <<got, fields, info>>
       \/ query[t] = "os_info" /\ OsEnds(t, <<None, None, None>>)
       \/ query[t] \notin {"release_info", "os_info"} /\ OsEnds(t, <<"failure">>)
    /\ UNCHANGED <<vars, fact, cache, query, osCalls, changes, crossed>>

(* fs.exists, which answers no when its command fails: UnsupportedOperation.
   An exception of its own is dropped. *)
Exists(t) ==
    /\ osAt[t] = "exists"
    /\ OsEnds(t, <<"unsupported">>) \/ OsEnds(t, <<"failure">>)
    /\ UNCHANGED <<vars, fact, cache, query, osCalls, changes, crossed>>

Store(t) ==
    /\ osAt[t] = "store"
    /\ cache' = [cache EXCEPT ![Attribute(t)] = got[t]]
    /\ got' = [got EXCEPT ![t] = None]
    /\ OsGoes(t, "give")
    /\ UNCHANGED <<vars, fact, query, fields, info, osCalls, changes, crossed>>

\* "return self._dist", which another thread may have stored since.
Give(t) ==
    /\ osAt[t] = "give"
    /\ LET now == Append(fields[t], cache[Attribute(t)])
       IN  IF query[t] = "os_info" /\ Len(now) < 3
           THEN /\ fields' = [fields EXCEPT ![t] = now]
                /\ OsGoes(t, "look")
                /\ UNCHANGED <<got, info>>
           ELSE OsEnds(t, now)
    /\ UNCHANGED <<vars, fact, cache, query, osCalls, changes, crossed>>

\* The connection is lost, or the output is not what it should be.
OsRaises(t) ==
    /\ osAt[t] = "fetch"
    /\ OsEnds(t, <<"raised">>)
    /\ UNCHANGED <<vars, fact, cache, query, osCalls, changes, crossed>>

Upgrade ==
    /\ \E q \in Queries, v \in Facts : fact' = [fact EXCEPT ![q] = v]
    /\ changes' = changes + 1
    /\ crossed' = (crossed \/ \E t \in Threads : /\ osAt[t] \in {"fetch", "store"}
                                           /\ fact'[Attribute(t)] # fact[Attribute(t)])
    /\ UNCHANGED <<vars, cache, osAt, query, got, fields, info, osCalls>>

OsWorks(t) ==
    OsLook(t) \/ Fetch(t) \/ FetchFails(t) \/ Exists(t) \/ Store(t) \/ Give(t) \/ OsRaises(t)

----------------------------------------------------------------------------
(* Properties.                                                             *)

(* get_os_info reads the distribution three times, but what it returns is one
   distribution, since the first thread to fetch it keeps it, unless the host
   was upgraded while somebody fetched it (host.py:453-458,
   operatingsystem.py:113-117). *)
OsInfoWhole ==
    \A t \in Threads :
        query[t] = "os_info" /\ osAt[t] = "none" /\ info[t] \in Seq(Facts) /\ ~ crossed =>
            \A i, j \in 1 .. Len(info[t]) : info[t][i] = info[t][j]

=============================================================================
