-------------------------- MODULE ServiceSelection --------------------------
(***************************************************************************)
(* Host.service (host.py:303-350) picks a provider of system services and   *)
(* remembers it for the next call; the providers (service.py) answer        *)
(* whether they can handle a service and start, stop and restart it with    *)
(* commands on the host, where others start and stop services too.  Threads *)
(* share the host object.                                                   *)
(***************************************************************************)
EXTENDS Sequences

CONSTANTS
    Threads,
    Services,
    UnitOf,         \* the unit file of a service: getty@tty1 has getty@
    NotSupported,   \* SysVinit._not_supported
    Hosts,          \* the managed hosts: commands they have, services listed
    None

Order == <<"Systemd", "SysVinit", "InitCtl">>
Providers == {"Systemd", "SysVinit", "InitCtl"}
Names == Services \cup {UnitOf[s] : s \in Services}

ASSUME ServiceAssumption ==
    /\ None \notin Providers \cup Threads
    /\ Services \subseteq DOMAIN UnitOf
    /\ Hosts \subseteq [has : SUBSET Providers, lists : [Providers -> SUBSET Names]]

VARIABLES
    host,           \* the managed host
    running,        \* the services that run on it
    sudo,           \* Host.sudo
    provider,       \* Host._service_provider
    pc,             \* "cached", "create", "store" in service(), "restart"
    name,           \* the service each thread asks for
    left,           \* the providers service() has not tried yet
    plan,           \* the command that InitCtl.restart decided on
    obj,            \* the object service() returned
    answer,         \* what the last call ended with
    missed,         \* history: a provider that could handle it said no
    calm            \* history: nobody else touched the service since restart looked

vars == <<host, running, sudo, provider, pc, name, left, plan, obj, answer, missed, calm>>

Objects == [provider : Providers, name : Services]

TypeOK ==
    /\ host \in Hosts
    /\ running \subseteq Services
    /\ sudo \in BOOLEAN
    /\ provider \in Providers \cup {None}
    /\ pc \in [Threads -> {"idle", "cached", "create", "store", "restart"}]
    /\ name \in [Threads -> Services]
    /\ left \in [Threads -> Seq(Providers)]
    /\ plan \in [Threads -> {"start", "restart"}]
    /\ obj \in [Threads -> Objects \cup {None}]
    /\ answer \in [Threads -> {"none", "True", "False", "no provider", "raised"}]
    /\ missed \in [Threads -> BOOLEAN]
    /\ calm \in [Threads -> BOOLEAN]

Init ==
    /\ host \in Hosts
    /\ running \in SUBSET Services
    /\ sudo = FALSE
    /\ provider \in Providers \cup {None}     \* Host(ip, service_provider)
    /\ pc = [t \in Threads |-> "idle"]
    /\ name \in [Threads -> Services]
    /\ left = [t \in Threads |-> <<>>]
    /\ plan = [t \in Threads |-> "start"]
    /\ obj = [t \in Threads |-> None]
    /\ answer = [t \in Threads |-> "none"]
    /\ missed = [t \in Threads |-> FALSE]
    /\ calm = [t \in Threads |-> FALSE]

----------------------------------------------------------------------------
(* What the probes of a provider see.                                      *)

\* `which` finds the command; the unit file, init script or job is there.
HasCommand(p) == p \in host.has
HasUnit(s)    == UnitOf[s] \in host.lists["Systemd"]
HasScript(s)  == s \notin NotSupported /\ s \in host.lists["SysVinit"]
HasJob(s)     == s \in host.lists["InitCtl"]

Handles(p, s) ==
    /\ HasCommand(p)
    /\ CASE p = "Systemd"  -> HasUnit(s)
         [] p = "SysVinit" -> HasScript(s)
         [] p = "InitCtl"  -> HasJob(s)

\* Systemd and SysVinit write their second command as a tuple, which has no
\* insert() for an executor with sudo: AttributeError.
TupleWithSudo(p, s) ==
    /\ sudo
    /\ HasCommand(p) /\ p # "InitCtl"
    /\ p = "SysVinit" => s \notin NotSupported

----------------------------------------------------------------------------
(* service(name)                                                           *)

Service(t, s) ==
    /\ pc[t] = "idle"
    /\ name' = [name EXCEPT ![t] = s]
    /\ IF provider = None
       THEN /\ pc' = [pc EXCEPT ![t] = "create"]
            /\ left' = [left EXCEPT ![t] = Order]
       ELSE /\ pc' = [pc EXCEPT ![t] = "cached"]
            /\ left' = [left EXCEPT ![t] = <<provider>>]
    /\ obj' = [obj EXCEPT ![t] = None]
    /\ answer' = [answer EXCEPT ![t] = "none"]
    /\ missed' = [missed EXCEPT ![t] = FALSE]
    /\ UNCHANGED <<host, running, sudo, provider, plan, calm>>

Trying(t) == pc[t] \in {"cached", "create"} /\ left[t] # <<>>
Returned(t) == [provider |-> Head(left[t]), name |-> name[t]]

\* Mutant: the provider that is remembered is not asked.
AcceptCached(t) ==
    /\ Trying(t)
    /\ ~ TupleWithSudo(Head(left[t]), name[t])
    /\ \/ /\ pc[t] = "cached"
          /\ pc' = [pc EXCEPT ![t] = "idle"]
          /\ obj' = [obj EXCEPT ![t] = Returned(t)]
          /\ UNCHANGED provider
       \/ /\ pc[t] = "create"
          /\ Handles(Head(left[t]), name[t])
          /\ pc' = [pc EXCEPT ![t] = "store"]
          /\ provider' = Head(left[t])
          /\ UNCHANGED obj
    /\ UNCHANGED <<host, running, sudo, name, left, plan, answer, missed, calm>>

\* The constructor returns; _create_service stores the provider at once.
Accept(t) ==
    /\ Trying(t)
    /\ Handles(Head(left[t]), name[t]) /\ ~ TupleWithSudo(Head(left[t]), name[t])
    /\ \/ /\ pc[t] = "cached"
          /\ pc' = [pc EXCEPT ![t] = "idle"]
          /\ obj' = [obj EXCEPT ![t] = Returned(t)]
          /\ UNCHANGED provider
       \/ /\ pc[t] = "create"
          /\ pc' = [pc EXCEPT ![t] = "store"]
          /\ provider' = Head(left[t])
          /\ UNCHANGED obj
    /\ UNCHANGED <<host, running, sudo, name, left, plan, answer, missed, calm>>

\* service() stores it once more and returns the object.
Store(t) ==
    /\ pc[t] = "store"
    /\ provider' = Head(left[t])
    /\ obj' = [obj EXCEPT ![t] = Returned(t)]
    /\ pc' = [pc EXCEPT ![t] = "idle"]
    /\ UNCHANGED <<host, running, sudo, name, left, plan, answer, missed, calm>>

\* Mutant: no other provider is tried when the remembered one declines.
DeclineEnds(t) ==
    /\ Trying(t)
    /\ missed' = [missed EXCEPT ![t] = @ \/ Handles(Head(left[t]), name[t])]
    /\ left' = [left EXCEPT ![t] = Tail(@)]
    /\ IF Tail(left[t]) = <<>>
       THEN /\ pc' = [pc EXCEPT ![t] = "idle"]
            /\ answer' = [answer EXCEPT ![t] = "no provider"]
       ELSE UNCHANGED <<pc, answer>>
    /\ UNCHANGED <<host, running, sudo, provider, name, plan, obj, calm>>

\* CanNotHandle: the service is not listed, or `which` or the list had no answer;
\* with sudo too, since `which` is a list and comes before the tuple.
Decline(t) ==
    /\ Trying(t)
    /\ missed' = [missed EXCEPT ![t] = @ \/ Handles(Head(left[t]), name[t])]
    /\ IF Tail(left[t]) # <<>>
       THEN /\ left' = [left EXCEPT ![t] = Tail(@)]
            /\ UNCHANGED <<pc, answer>>
       ELSE IF pc[t] = "cached"
       THEN /\ left' = [left EXCEPT ![t] = Order]
            /\ pc' = [pc EXCEPT ![t] = "create"]
            /\ UNCHANGED answer
       ELSE /\ left' = [left EXCEPT ![t] = <<>>]
            /\ pc' = [pc EXCEPT ![t] = "idle"]
            /\ answer' = [answer EXCEPT ![t] = "no provider"]
    /\ UNCHANGED <<host, running, sudo, provider, name, plan, obj, calm>>

\* Any other exception leaves service(): the connection fails, or sudo is set.
ProbeRaises(t) ==
    /\ Trying(t)
    /\ pc' = [pc EXCEPT ![t] = "idle"]
    /\ left' = [left EXCEPT ![t] = <<>>]
    /\ answer' = [answer EXCEPT ![t] = "raised"]
    /\ UNCHANGED <<host, running, sudo, provider, name, plan, obj, missed, calm>>

----------------------------------------------------------------------------
(* The operations of the returned object.                                  *)

Has(t) == pc[t] = "idle" /\ obj[t] # None
IsInitCtl(t) == obj[t].provider = "InitCtl"
Finish(t, a) == pc' = [pc EXCEPT ![t] = "idle"] /\ answer' = [answer EXCEPT ![t] = a]
Disturbs(t, s) == calm' = [u \in Threads |-> calm[u] /\ (u = t \/ obj[u] = None \/ obj[u].name # s)]

\* initctl refuses to start what runs and to stop, restart or reload what does not.
Refuses(t, op) == IsInitCtl(t) /\ ((op = "start") = (obj[t].name \in running))
After(op, s) ==
    CASE op = "stop"   -> running \ {s}
      [] op = "reload" -> running
      [] OTHER         -> running \cup {s}

\* A command that changes the service works, or it is refused or fails.
Execute(t, op) ==
    LET s == obj[t].name
    IN  \/ /\ ~ Refuses(t, op)
           /\ running' = After(op, s)
           /\ Finish(t, "True")
           /\ Disturbs(t, s)
        \/ /\ Finish(t, "False")
           /\ calm' = [calm EXCEPT ![t] = @ /\ Refuses(t, op)]
           /\ UNCHANGED running

Toggle(t, op) ==
    /\ Has(t)
    /\ op = "restart" => ~ IsInitCtl(t)
    /\ Execute(t, op)
    /\ UNCHANGED <<host, sudo, provider, name, left, plan, obj, missed>>

\* status(): a command that fails means False, for InitCtl an exception.
Status(t) ==
    /\ Has(t)
    /\ \/ Finish(t, IF obj[t].name \in running THEN "True" ELSE "False")
       \/ Finish(t, IF IsInitCtl(t) THEN "raised" ELSE "False")
    /\ UNCHANGED <<host, running, sudo, provider, name, left, plan, obj, missed, calm>>

\* is_enabled, enable, disable, mask and unmask: what they leave on the host is
\* not tracked; InitCtl, and SysVinit for a part of them, do not implement them.
Manage(t) ==
    /\ Has(t)
    /\ \/ ~ IsInitCtl(t) /\ \E a \in {"True", "False"} : Finish(t, a)
       \/ obj[t].provider # "Systemd" /\ Finish(t, "raised")
    /\ UNCHANGED <<host, running, sudo, provider, name, left, plan, obj, missed, calm>>

\* Mutant: restart is the command, whatever the status.
RestartLookNot(t) ==
    /\ Has(t) /\ IsInitCtl(t)
    /\ pc' = [pc EXCEPT ![t] = "restart"]
    /\ plan' = [plan EXCEPT ![t] = "restart"]
    /\ calm' = [calm EXCEPT ![t] = TRUE]
    /\ UNCHANGED <<host, running, sudo, provider, name, left, obj, answer, missed>>

\* InitCtl.restart asks for the status first.
RestartLook(t) ==
    /\ Has(t) /\ IsInitCtl(t)
    /\ pc' = [pc EXCEPT ![t] = "restart"]
    /\ plan' = [plan EXCEPT ![t] = IF obj[t].name \in running THEN "restart" ELSE "start"]
    /\ calm' = [calm EXCEPT ![t] = TRUE]
    /\ UNCHANGED <<host, running, sudo, provider, name, left, obj, answer, missed>>

RestartAct(t) ==
    /\ pc[t] = "restart"
    /\ Execute(t, plan[t])
    /\ UNCHANGED <<host, sudo, provider, name, left, plan, obj, missed>>

\* The connection fails in the middle of an operation.
OperationRaises(t) ==
    /\ Has(t) \/ pc[t] = "restart"
    /\ Finish(t, "raised")
    /\ UNCHANGED <<host, running, sudo, provider, name, left, plan, obj, missed, calm>>

----------------------------------------------------------------------------
\* Another caller asks for an executor with sudo; the host changes a service.
SetSudo ==
    /\ sudo' = TRUE
    /\ UNCHANGED <<host, running, provider, pc, name, left, plan, obj, answer, missed, calm>>

HostChanges(s) ==
    /\ running' = IF s \in running THEN running \ {s} ELSE running \cup {s}
    /\ Disturbs(None, s)
    /\ UNCHANGED <<host, sudo, provider, pc, name, left, plan, obj, answer, missed>>

Next ==
    \/ SetSudo
    \/ \E s \in Services : HostChanges(s)
    \/ \E t \in Threads :
        \/ \E s \in Services : Service(t, s)
        \/ Accept(t) \/ Store(t) \/ Decline(t) \/ ProbeRaises(t)
        \/ \E op \in {"start", "stop", "restart", "reload"} : Toggle(t, op)
        \/ Status(t) \/ Manage(t) \/ RestartLook(t) \/ RestartAct(t) \/ OperationRaises(t)

Spec == Init /\ [][Next]_vars

----------------------------------------------------------------------------
(* Properties.                                                             *)

(* The object that service() returns belongs to a provider that can handle the
   service, however other threads change the remembered provider meanwhile
   (host.py:338-350). *)
ObjectHandled ==
    \A t \in Threads : obj[t] # None => Handles(obj[t].provider, obj[t].name)

(* "Can not find suitable service provider" (host.py:315) is said only when no
   provider of the host can handle the service: a remembered provider that
   cannot, chosen for some special service, does not hide the others.  A call
   in which a `which` or a listing of an able provider had no answer is not
   judged (missed). *)
NotFoundTruthful ==
    \A t \in Threads :
        answer[t] = "no provider" /\ ~ missed[t] =>
            \A p \in Providers : ~ Handles(p, name[t])

(* A restart under InitCtl that nobody disturbs between its two commands, and
   whose command does not fail by itself, works for a running and for a stopped
   service: "this command can only be used when there is an instance"
   (service.py:289-296). *)
RestartWorks ==
    [][\A t \in Threads :
          pc[t] = "restart" /\ pc'[t] = "idle" /\ answer'[t] # "raised" /\ calm'[t] =>
             answer'[t] = "True" /\ obj[t].name \in running']_vars

=============================================================================
