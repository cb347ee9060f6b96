--------------------------- MODULE PackageManager ---------------------------
(***************************************************************************)
(* package_manager.py: the proxy that picks the manager of a host, and the *)
(* methods of the managers, called by several threads on one host whose    *)
(* set of installed packages they share.  Every command is a step; it may  *)
(* fail with a status or lose its connection.                              *)
(***************************************************************************)
EXTENDS Naturals, Sequences, FiniteSets

CONSTANTS
    Threads,
    Packages,
    Similar,        \* of each package: those whose name contains its name
    Requires,       \* of each package: those it needs, directly or not
    Columns,        \* of each package: what the rest of its line in dnf's list,
                    \* version and repository, names to dnf
    Patterns,       \* the sets of packages that a pattern may match
    Setups,         \* the hosts: what they have, Host.sudo, whether the user is root
    MaxCalls        \* bound: calls made by each thread

Managers == {"dnf", "yum", "apt", "rpm"}
Order == <<"dnf", "yum", "apt", "rpm">>

ASSUME PackageAssumption ==
    /\ Similar \in [Packages -> SUBSET Packages]
    /\ \A p \in Packages : p \in Similar[p]
    /\ Requires \in [Packages -> SUBSET Packages]
    /\ Columns \in [Packages -> SUBSET Packages]
    /\ Patterns \subseteq SUBSET Packages
    /\ Setups \subseteq [available : SUBSET Managers, sudo : BOOLEAN, root : BOOLEAN]
    /\ MaxCalls \in Nat

Needs(some) == UNION {Requires[p] : p \in some}

VARIABLES
    setup,          \* the host, which stays as it is
    installed,      \* the packages of the host
    manager,        \* PackageManagerProxy._manager, or "none"
    pc,             \* where each thread is
    op,             \* the method it calls
    names,          \* the packages it names: one, or what its pattern matches
    using,          \* the manager it uses, "none" while the proxy has to choose
    next,           \* the position in Order of the next manager to look for
    found,          \* what exist() answered, or the packages a list has shown
    answer,         \* "none" while the call runs, else "true", "false", "error",
                    \* "unsent" if the executor cannot handle the command
    calls,          \* calls made
    disturbed,      \* whether a package it names came meanwhile (history)
    misled,         \* whether a query failed that was not unanswered (history)
    skipped         \* the managers of the host whose probe has failed (history)

job  == <<setup, op, names, calls>>
vars == <<setup, installed, manager, pc, op, names, using, next, found, answer, calls,
          disturbed, misled, skipped>>

Ops == {"exist", "install", "remove", "remove pattern", "update", "list"}

TypeOK ==
    /\ setup \in Setups
    /\ installed \subseteq Packages
    /\ manager \in Managers \cup {"none"}
    /\ pc \in [Threads -> {"idle", "probe", "dispatch", "query", "list", "change"}]
    /\ op \in [Threads -> Ops]
    /\ names \in [Threads -> SUBSET Packages]
    /\ using \in [Threads -> Managers \cup {"none"}]
    /\ \A t \in Threads : pc[t] \in {"query", "list", "change"} => using[t] # "none"
    /\ next \in [Threads -> 1 .. Len(Order) + 1]
    /\ found \in [Threads -> SUBSET Packages]
    /\ answer \in [Threads -> {"none", "true", "false", "error", "unsent"}]
    /\ calls \in [Threads -> 0 .. MaxCalls]
    /\ disturbed \in [Threads -> BOOLEAN]
    /\ misled \in [Threads -> BOOLEAN]
    /\ skipped \subseteq Managers

Init ==
    /\ setup \in Setups
    /\ installed \in {some \in SUBSET Packages : Needs(some) \subseteq some}
    /\ manager = "none"
    /\ pc = [t \in Threads |-> "idle"]
    /\ op = [t \in Threads |-> "exist"]
    /\ names = [t \in Threads |-> {}]
    /\ using = [t \in Threads |-> "none"]
    /\ next = [t \in Threads |-> 1]
    /\ found = [t \in Threads |-> {}]
    /\ answer = [t \in Threads |-> "none"]
    /\ calls = [t \in Threads |-> 0]
    /\ disturbed = [t \in Threads |-> FALSE]
    /\ misled = [t \in Threads |-> FALSE]
    /\ skipped = {}

----------------------------------------------------------------------------
(* Calls, through the proxy or of a manager picked by name.                *)

\* What a method is called with.
Arguments(what) ==
    CASE what = "remove pattern" -> Patterns
      [] what = "list" -> {{}}
      [] what = "update" -> {{}} \cup {{p} : p \in Packages}
      [] OTHER -> {{p} : p \in Packages}

\* The first command of each method; an exist() comes before a change.
First(what) ==
    CASE what \in {"exist", "install", "remove"} -> "query"
      [] what \in {"remove pattern", "list"} -> "list"
      [] what = "update" -> "change"

Call(t, what) ==
    /\ pc[t] = "idle" /\ calls[t] < MaxCalls
    /\ calls' = [calls EXCEPT ![t] = @ + 1]
    /\ op' = [op EXCEPT ![t] = what]
    /\ \E n \in Arguments(what) : names' = [names EXCEPT ![t] = n]
    /\ answer' = [answer EXCEPT ![t] = "none"]
    /\ found' = [found EXCEPT ![t] = {}]
    /\ next' = [next EXCEPT ![t] = 1]
    /\ disturbed' = [disturbed EXCEPT ![t] = FALSE]
    /\ misled' = [misled EXCEPT ![t] = FALSE]
    /\ \/ \E m \in setup.available :
             /\ using' = [using EXCEPT ![t] = m]
             /\ pc' = [pc EXCEPT ![t] = First(what)]
       \/ /\ using' = [using EXCEPT ![t] = "none"]
          /\ pc' = [pc EXCEPT ![t] = IF manager = "none" THEN "probe" ELSE "dispatch"]
    /\ UNCHANGED <<setup, installed, manager, skipped>>

Answer(t, a) ==
    /\ answer' = [answer EXCEPT ![t] = a]
    /\ pc' = [pc EXCEPT ![t] = "idle"]

\* Mutant: the loop starts behind the first manager.
ProbeSkipsFirst(t) ==
    /\ pc[t] = "probe" /\ next[t] <= Len(Order)
    /\ IF Order[next[t]] \in setup.available /\ next[t] > 1
       THEN /\ manager' = Order[next[t]]
            /\ pc' = [pc EXCEPT ![t] = "dispatch"]
            /\ UNCHANGED next
       ELSE next' = [next EXCEPT ![t] = @ + 1] /\ UNCHANGED <<manager, pc>>
    /\ UNCHANGED <<installed, job, using, found, answer, disturbed, misled, skipped>>

\* manager.is_available(self.host): which <binary>
Probe(t) ==
    /\ pc[t] = "probe" /\ next[t] <= Len(Order)
    /\ IF Order[next[t]] \in setup.available
       THEN /\ manager' = Order[next[t]]
            /\ pc' = [pc EXCEPT ![t] = "dispatch"]
            /\ UNCHANGED next
       ELSE next' = [next EXCEPT ![t] = @ + 1] /\ UNCHANGED <<manager, pc>>
    /\ UNCHANGED <<installed, job, using, found, answer, disturbed, misled, skipped>>

(* is_available is "not rc": where "which" has another status than 0, be it -1 of
   a connection that was lost, a manager that is there is passed over. *)
ProbeMisses(t) ==
    /\ pc[t] = "probe" /\ next[t] <= Len(Order)
    /\ Order[next[t]] \in setup.available
    /\ skipped' = skipped \cup {Order[next[t]]}
    /\ next' = [next EXCEPT ![t] = @ + 1]
    /\ UNCHANGED <<installed, manager, pc, job, using, found, answer, disturbed, misled>>

\* RuntimeError("Can not determine package manager for %s")
Undetermined(t) ==
    /\ pc[t] = "probe" /\ next[t] > Len(Order)
    /\ Answer(t, "error")
    /\ UNCHANGED <<installed, manager, job, using, next, found, disturbed, misled, skipped>>

\* getattr(self._manager, name)
Dispatch(t) ==
    /\ pc[t] = "dispatch"
    /\ using' = [using EXCEPT ![t] = manager]
    /\ pc' = [pc EXCEPT ![t] = First(op[t])]
    /\ UNCHANGED <<installed, manager, job, next, found, answer, disturbed, misled, skipped>>

\* The connection is lost: the exception leaves the method.
Loses(t) ==
    /\ pc[t] \in {"probe", "query", "list", "change"}
    /\ Answer(t, "error")
    /\ UNCHANGED <<installed, manager, job, using, next, found, disturbed, misled, skipped>>

----------------------------------------------------------------------------
(* exist(), and list_().                                                   *)

\* What the exist command shows of a package: apt's is a grep for its name.
Shown(m, p) == IF m = "apt" THEN Similar[p] \cap installed ELSE {p} \cap installed

\* A package that is there is removed, one that is not is installed.
Decided(t) == IF op[t] = "install" THEN found'[t] = {} ELSE found'[t] # {}

\* What follows exist(): nothing to do is a success.
Continue(t) ==
    CASE op[t] = "exist" ->
            Answer(t, IF found'[t] # {} THEN "true" ELSE "false")
      [] op[t] # "exist" /\ Decided(t) ->
            pc' = [pc EXCEPT ![t] = "change"] /\ UNCHANGED answer
      [] OTHER -> Answer(t, "true")

Query(t) ==
    /\ pc[t] = "query"
    /\ \E p \in names[t] : found' = [found EXCEPT ![t] = Shown(using[t], p)]
    /\ Continue(t)
    /\ UNCHANGED <<installed, manager, job, using, next, disturbed, misled, skipped>>

\* The query fails, which looks like a package that is not there.
QueryFails(t) ==
    /\ pc[t] = "query"
    /\ found' = [found EXCEPT ![t] = {}]
    /\ misled' = [misled EXCEPT ![t] = TRUE]
    /\ Continue(t)
    /\ UNCHANGED <<installed, manager, job, using, next, disturbed, skipped>>

(* list_, with the packages as its value; or the first stages of the pipeline
   of remove(pattern=True), whose failure xargs does not see. *)
List(t) ==
    /\ pc[t] = "list" /\ (setup.sudo => op[t] = "remove pattern")
    /\ found' = [found EXCEPT ![t] = installed]
    /\ IF op[t] = "list"
       THEN Answer(t, "true")
       ELSE pc' = [pc EXCEPT ![t] = "change"] /\ UNCHANGED answer
    /\ UNCHANGED <<installed, manager, job, using, next, disturbed, misled, skipped>>

\* CommandExecutionFailure, or a pipeline that goes on with nothing.
ListFails(t) ==
    /\ pc[t] = "list" /\ (setup.sudo => op[t] = "remove pattern")
    /\ misled' = [misled EXCEPT ![t] = TRUE]
    /\ IF op[t] = "list"
       THEN Answer(t, "error")
       ELSE pc' = [pc EXCEPT ![t] = "change"] /\ UNCHANGED answer
    /\ UNCHANGED <<installed, manager, job, using, next, found, disturbed, skipped>>

\* The list command is a tuple: run_cmd of a sudo executor cannot insert.
ListTuple(t) ==
    /\ pc[t] = "list" /\ setup.sudo /\ op[t] = "list"
    /\ Answer(t, "unsent")
    /\ UNCHANGED <<installed, manager, job, using, next, found, disturbed, misled, skipped>>

----------------------------------------------------------------------------
(* The commands that change the host.                                      *)

\* "sudo" is put before the first command of a pipeline only.
Privileged(t) == setup.root \/ (setup.sudo /\ op[t] # "remove pattern")

(* The packages the command is given.  dnf's removal by a pattern passes whole
   lines of its list, which names more to dnf than the packages that match. *)
Chosen(t) ==
    IF op[t] # "remove pattern" THEN names[t]
    ELSE LET hits == found[t] \cap names[t]
         IN IF using[t] = "dnf" THEN hits \cup UNION {Columns[p] : p \in hits} ELSE hits

\* What requires a package goes with it, except that rpm refuses.
Gone(t) ==
    Chosen(t) \cup (IF using[t] = "rpm" THEN {}
                    ELSE {p \in Packages : Requires[p] \cap Chosen(t) # {}})

\* What may go too, as nobody asked for it and nobody needs it any more.
Idle(t) == IF using[t] = "rpm" THEN {{}} ELSE SUBSET Needs(Gone(t))

(* What a successful command may leave: with the dependencies of what comes, and
   without what depends on what goes. *)
Packs(t) ==
    CASE op[t] = "install" \/ (op[t] = "update" /\ using[t] = "rpm") ->
            {installed \cup Chosen(t) \cup Needs(Chosen(t))}
      [] op[t] \in {"remove", "remove pattern"} ->
            {left \in {installed \ (Gone(t) \cup idle) : idle \in Idle(t)} :
                Needs(left) \cap Needs(Gone(t)) \subseteq left}
      [] OTHER -> {installed}

(* rpm refuses to install what is there or lacks what it requires, and to remove
   what is not there or is required. *)
Refused(t) ==
    /\ using[t] = "rpm"
    /\ \/ op[t] = "install" /\ Chosen(t) \cap installed # {}
       \/ op[t] \in {"install", "update"} /\ ~ Needs(Chosen(t)) \subseteq installed
       \/ /\ op[t] \in {"remove", "remove pattern"}
          /\ \/ ~ Chosen(t) \subseteq installed
             \/ Needs(installed \ Chosen(t)) \cap Chosen(t) # {}

\* Mutant: the status of the command is not looked at.
ChangeUnchecked(t) ==
    /\ pc[t] = "change"
    /\ installed' \in {installed} \cup Packs(t)
    /\ disturbed' = disturbed
    /\ Answer(t, "true")
    /\ UNCHANGED <<manager, job, using, next, found, misled, skipped>>

Change(t) ==
    /\ pc[t] = "change"
    /\ Privileged(t) /\ ~ Refused(t) /\ Chosen(t) # {}
    /\ installed' \in Packs(t)
    /\ disturbed' = [x \in Threads |->
          disturbed[x] \/ (x # t /\ (installed' \ installed) \cap names[x] # {})]
    /\ Answer(t, "true")
    /\ UNCHANGED <<manager, job, using, next, found, misled, skipped>>

\* A status other than 0: any manager may fail for reasons of its own.
ChangeFails(t) ==
    /\ pc[t] = "change"
    /\ Answer(t, "false")
    /\ UNCHANGED <<installed, manager, job, using, next, found, disturbed, misled, skipped>>

\* xargs with nothing to pass on; some managers take no package as success.
ChangeNothing(t) ==
    /\ pc[t] = "change" /\ Chosen(t) = {}
    /\ Answer(t, "true")
    /\ UNCHANGED <<installed, manager, job, using, next, found, disturbed, misled, skipped>>

Step(t) ==
    \/ Probe(t) \/ ProbeMisses(t) \/ Undetermined(t) \/ Dispatch(t)
    \/ Query(t) \/ QueryFails(t) \/ List(t) \/ ListFails(t) \/ ListTuple(t)
    \/ Change(t) \/ ChangeFails(t) \/ ChangeNothing(t)

Next == \E t \in Threads : Step(t) \/ Loses(t) \/ \E what \in Ops : Call(t, what)

Spec == Init /\ [][Next]_vars

----------------------------------------------------------------------------
(* Properties.                                                             *)

(* "True, if package installation success", "True, if package(s) removal
   success" (package_manager.py:142, 172), at the moment the last command of the
   call ran and although the call looked before (package_manager.py:151, 202):
   other calls, and what they do to dependencies, may come in between.  When
   install() has answered True the package is on the host; with apt, it or one
   whose name contains its name.  When remove() has, the package is gone, unless
   the look failed, which remove() takes for a missing package; with a pattern,
   all that match are gone, unless one of them came after the list was made. *)
AnswersTruthful ==
    [][\A t \in Threads :
          answer[t] = "none" /\ answer'[t] = "true"
             => /\ op[t] = "install" => \A p \in names[t] : Shown(using[t], p)' # {}
                /\ op[t] = "remove" /\ ~ misled'[t] => names[t] \cap installed' = {}
                /\ op[t] = "remove pattern" /\ ~ misled'[t] /\ ~ disturbed'[t]
                      => names[t] \cap installed' = {}]_vars

(* However many threads choose at once, the manager is one the host has, a
   manager before it in "order" is missing unless its probe has failed in some
   thread, and a host is found to have no manager only if the probes of all it
   has have failed (package_manager.py:337-355). *)
ProperManager ==
    /\ manager # "none" => manager \in setup.available
    /\ \A i \in 1 .. Len(Order) :
          manager = Order[i] =>
              \A j \in 1 .. i - 1 : Order[j] \notin setup.available \ skipped
    /\ \A t \in Threads :
          pc[t] = "probe" /\ next[t] > Len(Order) => setup.available \subseteq skipped

=============================================================================
