------------------------ MODULE PackageManagerProofs ------------------------
(***************************************************************************)
(* Theorems about PackageManager: which manager any number of threads that *)
(* share the proxy come to use, and that the answers of install and remove *)
(* are true of the host they share.                                        *)
(***************************************************************************)
EXTENDS PackageManager, TLAPS

\* The managers in front of the one that is looked for are not on the host, or
\* their probe has failed.
ProbeInv ==
    \A t \in Threads : pc[t] = "probe" =>
        \A j \in 1 .. next[t] - 1 : Order[j] \notin setup.available \ skipped

\* Which methods are at which command, and that the choice precedes dispatch.
PlaceInv ==
    \A t \in Threads :
        /\ pc[t] = "dispatch" => manager # "none"
        /\ pc[t] = "query" => op[t] \in {"exist", "install", "remove"}
        /\ pc[t] = "list" => op[t] \in {"remove pattern", "list"}
        /\ pc[t] = "change" => op[t] \in {"install", "remove", "remove pattern", "update"}

IInv == TypeOK /\ ProbeInv /\ PlaceInv /\ ProperManager

LEMMA OrderFacts ==
    /\ Len(Order) = 4
    /\ Order \in Seq(Managers)
    /\ \A i \in 1 .. 4 : Order[i] \in Managers
    /\ \A i, j \in 1 .. 4 : Order[i] = Order[j] => i = j
    /\ \A m \in Managers : \E i \in 1 .. 4 : Order[i] = m
  BY DEF Order, Managers

LEMMA ArgumentsType ==
    ASSUME NEW what \in Ops, NEW n \in Arguments(what) PROVE n \subseteq Packages
<1>1. CASE what = "remove pattern"
  BY <1>1, PackageAssumption DEF PackageAssumption, Arguments
<1>2. CASE what = "list"
  BY <1>2 DEF Arguments
<1>3. CASE what = "update"
  BY <1>3 DEF Arguments
<1>4. CASE what \in {"exist", "install", "remove"}
  <2>1. Arguments(what) = {{p} : p \in Packages}
    BY <1>4 DEF Arguments
  <2> QED
    BY <2>1
<1> QED
  BY <1>1, <1>2, <1>3, <1>4 DEF Ops

LEMMA FirstPlace ==
    ASSUME NEW what \in Ops
    PROVE  /\ First(what) \in {"query", "list", "change"}
           /\ First(what) = "query" => what \in {"exist", "install", "remove"}
           /\ First(what) = "list" => what \in {"remove pattern", "list"}
           /\ First(what) = "change" => what = "update"
  BY DEF First, Ops

LEMMA InitInv == Init => IInv
<1> SUFFICES ASSUME Init PROVE IInv
  OBVIOUS
<1> USE PackageAssumption DEF PackageAssumption, Init
<1>1. TypeOK
  BY OrderFacts DEF TypeOK, Ops
<1>2. ProbeInv /\ PlaceInv
  BY DEF ProbeInv, PlaceInv
<1>3. ProperManager
  BY OrderFacts DEF ProperManager, Managers
<1> QED
  BY <1>1, <1>2, <1>3 DEF IInv

----------------------------------------------------------------------------
(* One lemma per action or group of actions of one shape.                  *)

LEMMA CallInv ==
    ASSUME IInv, NEW t \in Threads, NEW what \in Ops, Call(t, what)
    PROVE  IInv'
<1> USE DEF IInv, Call
<1>1. PICK n \in Arguments(what) : names' = [names EXCEPT ![t] = n]
  OBVIOUS
<1>2. n \subseteq Packages
  BY ArgumentsType
<1>3. \A m \in setup.available : m \in Managers
  BY PackageAssumption DEF PackageAssumption, TypeOK
<1>4. "none" \notin Managers
  BY DEF Managers
<1>5. /\ First(what) \in {"query", "list", "change"}
      /\ First(what) = "query" => what \in {"exist", "install", "remove"}
      /\ First(what) = "list" => what \in {"remove pattern", "list"}
      /\ First(what) = "change" => what = "update"
  BY FirstPlace
<1>6. /\ \A u \in Threads : u # t => pc'[u] = pc[u] /\ op'[u] = op[u] /\ next'[u] = next[u]
      /\ op'[t] = what /\ next'[t] = 1
      /\ pc'[t] \in {First(what), "probe", "dispatch"}
      /\ pc'[t] = "dispatch" => manager # "none"
  BY <1>5 DEF TypeOK
<1>7. TypeOK'
  <2>1. /\ installed' \subseteq Packages /\ setup' \in Setups /\ manager' \in Managers \cup {"none"}
        /\ op' \in [Threads -> Ops] /\ names' \in [Threads -> SUBSET Packages]
        /\ found' \in [Threads -> SUBSET Packages] /\ skipped' \subseteq Managers
    BY <1>1, <1>2 DEF TypeOK
  <2>2. /\ pc' \in [Threads -> {"idle", "probe", "dispatch", "query", "list", "change"}]
        /\ using' \in [Threads -> Managers \cup {"none"}]
        /\ \A u \in Threads : pc'[u] \in {"query", "list", "change"} => using'[u] # "none"
    <3>1. CASE \E m \in setup.available : /\ using' = [using EXCEPT ![t] = m]
                                          /\ pc' = [pc EXCEPT ![t] = First(what)]
      <4>1. PICK m \in Managers : /\ using' = [using EXCEPT ![t] = m]
                                  /\ pc' = [pc EXCEPT ![t] = First(what)]
        BY <1>3, <3>1
      <4> QED
        BY <1>4, <1>5, <4>1 DEF TypeOK
    <3>2. ASSUME using' = [using EXCEPT ![t] = "none"],
                 NEW x \in {"probe", "dispatch"}, pc' = [pc EXCEPT ![t] = x]
          PROVE  /\ pc' \in [Threads -> {"idle", "probe", "dispatch", "query", "list", "change"}]
                 /\ using' \in [Threads -> Managers \cup {"none"}]
                 /\ \A u \in Threads : pc'[u] \in {"query", "list", "change"} => using'[u] # "none"
      BY <3>2 DEF TypeOK
    <3> QED
      BY <3>1, <3>2
  <2>4. calls' \in [Threads -> 0 .. MaxCalls] /\ next' \in [Threads -> 1 .. Len(Order) + 1]
    BY PackageAssumption, OrderFacts DEF PackageAssumption, TypeOK
  <2>5. /\ answer' \in [Threads -> {"none", "true", "false", "error", "unsent"}]
        /\ disturbed' \in [Threads -> BOOLEAN] /\ misled' \in [Threads -> BOOLEAN]
    BY DEF TypeOK
  <2> QED
    BY <2>1, <2>2, <2>4, <2>5 DEF TypeOK
<1>a. ProbeInv'
  <2>1. ASSUME NEW u \in Threads, pc'[u] = "probe", u # t, NEW j \in 1 .. next'[u] - 1
        PROVE  Order[j] \notin setup.available \ skipped
    BY <1>6, <2>1 DEF ProbeInv
  <2>2. \A j \in 1 .. next'[t] - 1 : FALSE
    BY <1>6
  <2> QED
    BY <2>1, <2>2 DEF ProbeInv
<1>b. PlaceInv'
  BY <1>5, <1>6 DEF PlaceInv
<1>8. ProperManager'
  <2>1. ASSUME NEW u \in Threads, pc'[u] = "probe", next'[u] > Len(Order)
        PROVE  setup.available \subseteq skipped
    BY <1>6, <2>1, OrderFacts DEF ProperManager
  <2> QED
    BY <2>1 DEF ProperManager
<1> QED
  BY <1>7, <1>8, <1>a, <1>b

\* A thread that has gone through the order has met all that the host has.
LEMMA AllMet ==
    ASSUME TypeOK, NEW missed, \A j \in 1 .. 4 : Order[j] \notin setup.available \ missed
    PROVE  setup.available \subseteq missed
<1>1. setup.available \subseteq Managers
  BY PackageAssumption DEF PackageAssumption, TypeOK
<1> QED
  BY <1>1, OrderFacts

LEMMA ProbeFinds ==
    ASSUME IInv, NEW t \in Threads, Probe(t), Order[next[t]] \in setup.available
    PROVE  IInv'
<1> USE OrderFacts DEF IInv, Probe, job
<1>1. next[t] \in 1 .. 4
  BY DEF TypeOK
<1>2. manager' \in Managers /\ next' = next /\ pc' = [pc EXCEPT ![t] = "dispatch"]
  BY <1>1
<1>3. pc'[t] = "dispatch" /\ \A u \in Threads : u # t => pc'[u] = pc[u]
  BY <1>2 DEF TypeOK
<1>4. TypeOK'
  <2> HIDE OrderFacts
  <2> QED
    BY <1>2, <1>3 DEF TypeOK
<1>5. ProbeInv'
  BY DEF ProbeInv, TypeOK
<1>6. manager' # "none"
  BY <1>1 DEF Managers
<1>7. PlaceInv'
  BY <1>3, <1>6 DEF PlaceInv
<1>8. \A j \in 1 .. next[t] - 1 : Order[j] \notin setup.available \ skipped
  BY DEF ProbeInv
<1>9. ASSUME NEW i \in 1 .. 4, Order[i] = Order[next[t]] PROVE i = next[t]
  BY <1>1, <1>9
<1>10. \A i \in 1 .. 4 : manager' = Order[i] =>
          \A j \in 1 .. i - 1 : Order[j] \notin setup.available \ skipped
  BY <1>1, <1>8, <1>9
<1>11. \A u \in Threads :
          pc'[u] = "probe" /\ next'[u] > Len(Order) => setup.available \subseteq skipped
  BY <1>2, <1>3 DEF ProperManager
<1> QED
  BY <1>4, <1>5, <1>7, <1>6, <1>10, <1>11 DEF ProperManager

\* The manager is not there, or its probe has failed: on to the next one.
LEMMA ProbePasses ==
    ASSUME IInv, NEW t \in Threads, pc[t] = "probe", next[t] <= Len(Order),
           next' = [next EXCEPT ![t] = @ + 1],
           UNCHANGED <<installed, manager, pc, job, using, found, answer, disturbed, misled>>,
           skipped' \subseteq Managers, skipped \subseteq skipped',
           Order[next[t]] \notin setup.available \ skipped'
    PROVE  IInv'
<1> USE OrderFacts DEF IInv, job
<1>1. next[t] \in 1 .. 4
  BY DEF TypeOK
<1>2. next' \in [Threads -> 1 .. Len(Order) + 1] /\ next'[t] = next[t] + 1
  <2>1. next[t] + 1 \in 1 .. Len(Order) + 1
    BY <1>1
  <2>2. next' = [next EXCEPT ![t] = next[t] + 1] /\ next \in [Threads -> 1 .. Len(Order) + 1]
    BY DEF TypeOK
  <2> HIDE OrderFacts DEF IInv
  <2> QED
    BY <2>1, <2>2
<1>3. TypeOK'
  BY <1>2 DEF TypeOK
<1>4. ASSUME NEW j \in 1 .. next[t] PROVE Order[j] \notin setup.available \ skipped'
  <2>1. j \in 1 .. next[t] - 1 \/ j = next[t]
    BY <1>1
  <2> QED
    BY <2>1 DEF ProbeInv
<1>5. 1 .. next'[t] - 1 = 1 .. next[t] /\ \A u \in Threads : u # t => next'[u] = next[u]
  BY <1>1, <1>2 DEF TypeOK
<1>6. ProbeInv'
  BY <1>4, <1>5 DEF ProbeInv
<1>7. ASSUME NEW u \in Threads, pc[u] = "probe", next'[u] > Len(Order)
      PROVE  setup.available \subseteq skipped'
  <2>1. CASE u = t
    <3>1. next[t] = 4
      BY <1>1, <1>2, <1>7, <2>1
    <3> QED
      BY <1>4, <3>1, AllMet
  <2>2. CASE u # t
    BY <1>5, <1>7, <2>2 DEF ProperManager
  <2> QED
    BY <2>1, <2>2
<1>8. PlaceInv' /\ ProperManager'
  BY <1>7 DEF PlaceInv, ProperManager
<1> QED
  BY <1>3, <1>6, <1>8

LEMMA ProbeStep ==
    ASSUME IInv, NEW t \in Threads, Probe(t) \/ ProbeMisses(t)
    PROVE  IInv'
<1>1. CASE Probe(t) /\ Order[next[t]] \in setup.available
  BY <1>1, ProbeFinds
<1>2. CASE Probe(t) /\ Order[next[t]] \notin setup.available
  <2>1. skipped' = skipped /\ skipped \subseteq Managers
    BY <1>2 DEF Probe, IInv, TypeOK
  <2> QED
    BY <1>2, <2>1, ProbePasses DEF Probe
<1>3. CASE ProbeMisses(t)
  <2>1. next[t] \in 1 .. 4
    BY <1>3, OrderFacts DEF ProbeMisses, IInv, TypeOK
  <2>2. skipped' \subseteq Managers /\ skipped \subseteq skipped' /\ Order[next[t]] \in skipped'
    BY <1>3, <2>1, OrderFacts DEF ProbeMisses, IInv, TypeOK
  <2> QED
    BY <1>3, <2>2, ProbePasses DEF ProbeMisses
<1> QED
  BY <1>1, <1>2, <1>3

LEMMA DispatchStep ==
    ASSUME IInv, NEW t \in Threads, Dispatch(t)
    PROVE  IInv'
<1> USE DEF IInv, Dispatch, job
<1>1. op[t] \in Ops /\ manager \in Managers
  BY DEF TypeOK, PlaceInv
<1>2. "none" \notin Managers
  BY DEF Managers
<1>a. /\ First(op[t]) \in {"query", "list", "change"}
      /\ First(op[t]) = "query" => op[t] \in {"exist", "install", "remove"}
      /\ First(op[t]) = "list" => op[t] \in {"remove pattern", "list"}
      /\ First(op[t]) = "change" => op[t] = "update"
  BY <1>1, FirstPlace
<1>b. pc'[t] = First(op[t]) /\ \A u \in Threads : u # t => pc'[u] = pc[u]
  BY DEF TypeOK
<1>3. TypeOK'
  BY <1>1, <1>2, <1>a DEF TypeOK
<1>4. ProbeInv' /\ ProperManager'
  BY <1>a, <1>b DEF ProbeInv, ProperManager
<1>5. PlaceInv'
  BY <1>a, <1>b DEF PlaceInv
<1> QED
  BY <1>3, <1>4, <1>5

\* Any step that ends a call or goes on to the change, and chooses nothing.
LEMMA AfterCommand ==
    ASSUME IInv, NEW t \in Threads,
           UNCHANGED <<setup, manager, op, names, using, next, calls, skipped>>,
           installed' \subseteq Packages,
           found' \in [Threads -> SUBSET Packages],
           disturbed' \in [Threads -> BOOLEAN],
           misled' \in [Threads -> BOOLEAN],
           \/ \E a \in {"true", "false", "error", "unsent"} : Answer(t, a)
           \/ /\ pc' = [pc EXCEPT ![t] = "change"] /\ UNCHANGED answer
              /\ pc[t] \in {"query", "list"} /\ op[t] \notin {"exist", "list"}
    PROVE  IInv'
<1> USE DEF IInv, Answer
<1>a. /\ pc' \in [Threads -> {"idle", "probe", "dispatch", "query", "list", "change"}]
      /\ answer' \in [Threads -> {"none", "true", "false", "error", "unsent"}]
  <2>1. ASSUME NEW a \in {"true", "false", "error", "unsent"}, Answer(t, a)
        PROVE  /\ pc' \in [Threads -> {"idle", "probe", "dispatch", "query", "list", "change"}]
               /\ answer' \in [Threads -> {"none", "true", "false", "error", "unsent"}]
    BY <2>1 DEF TypeOK
  <2>2. CASE pc' = [pc EXCEPT ![t] = "change"] /\ UNCHANGED answer
    BY <2>2 DEF TypeOK
  <2> QED
    BY <2>1, <2>2
<1>b. \A u \in Threads : pc'[u] \in {"query", "list", "change"} => using'[u] # "none"
  BY DEF TypeOK
<1>1. TypeOK'
  BY <1>a, <1>b DEF TypeOK
<1>2. ProbeInv' /\ ProperManager'
  BY DEF ProbeInv, TypeOK, ProperManager
<1>c. /\ \A u \in Threads : u # t => pc'[u] = pc[u]
      /\ pc'[t] = "idle" \/ (pc'[t] = "change" /\ pc[t] \in {"query", "list"}
                               /\ op[t] \notin {"exist", "list"})
  BY DEF TypeOK
<1>3. PlaceInv'
  BY <1>c DEF PlaceInv
<1> QED
  BY <1>1, <1>2, <1>3

LEMMA QuerySteps ==
    ASSUME IInv, NEW t \in Threads, Query(t) \/ QueryFails(t)
    PROVE  IInv'
<1> USE DEF IInv, job
<1>1. /\ pc[t] = "query" /\ Continue(t)
      /\ UNCHANGED <<setup, manager, op, names, using, next, calls, installed, disturbed, skipped>>
  BY DEF Query, QueryFails
<1>2. found' \in [Threads -> SUBSET Packages] /\ misled' \in [Threads -> BOOLEAN]
  <2>1. CASE Query(t)
    <3>1. \A p : Shown(using[t], p) \subseteq Packages
      BY DEF Shown, TypeOK
    <3> QED
      BY <2>1, <3>1 DEF Query, TypeOK
  <2>2. CASE QueryFails(t)
    BY <2>2 DEF QueryFails, TypeOK
  <2> QED
    BY <2>1, <2>2
<1>3. \/ \E a \in {"true", "false", "error", "unsent"} : Answer(t, a)
      \/ pc' = [pc EXCEPT ![t] = "change"] /\ UNCHANGED answer /\ op[t] # "exist"
  BY <1>1 DEF Continue
<1>4. op[t] # "list"
  BY <1>1 DEF PlaceInv
<1> QED
  BY <1>1, <1>2, <1>3, <1>4, AfterCommand DEF TypeOK

LEMMA ListSteps ==
    ASSUME IInv, NEW t \in Threads, List(t) \/ ListFails(t) \/ ListTuple(t)
    PROVE  IInv'
<1> USE DEF IInv, job
<1>1. /\ pc[t] = "list"
      /\ UNCHANGED <<setup, manager, op, names, using, next, calls, installed, disturbed, skipped>>
  BY DEF List, ListFails, ListTuple
<1>2. found' \in [Threads -> SUBSET Packages] /\ misled' \in [Threads -> BOOLEAN]
  BY DEF List, ListFails, ListTuple, TypeOK
<1>3. \/ \E a \in {"true", "false", "error", "unsent"} : Answer(t, a)
      \/ pc' = [pc EXCEPT ![t] = "change"] /\ UNCHANGED answer /\ op[t] # "list"
  BY DEF List, ListFails, ListTuple
<1>4. op[t] # "exist"
  BY <1>1 DEF PlaceInv
<1> QED
  BY <1>1, <1>2, <1>3, <1>4, AfterCommand DEF TypeOK

\* What a change leaves are packages.
LEMMA PacksType ==
    ASSUME IInv, NEW t \in Threads, pc[t] = "change", NEW left \in Packs(t)
    PROVE  left \subseteq Packages
<1>1. installed \subseteq Packages /\ names[t] \subseteq Packages
  BY DEF IInv, TypeOK
<1>2. CASE op[t] = "install" \/ (op[t] = "update" /\ using[t] = "rpm")
  <2>1. left = installed \cup Chosen(t) \cup Needs(Chosen(t))
    BY <1>2 DEF Packs
  <2>2. Chosen(t) = names[t]
    BY <1>2 DEF Chosen
  <2>3. Needs(names[t]) \subseteq Packages
    BY <1>1, PackageAssumption DEF PackageAssumption, Needs
  <2> QED
    BY <1>1, <2>1, <2>2, <2>3
<1>3. CASE op[t] \in {"remove", "remove pattern"}
  <2>1. left \subseteq installed
    BY <1>3 DEF Packs
  <2> QED
    BY <1>1, <2>1
<1>4. CASE op[t] = "update" /\ using[t] # "rpm"
  <2>1. left = installed
    BY <1>4 DEF Packs
  <2> QED
    BY <1>1, <2>1
<1> QED
  BY <1>2, <1>3, <1>4 DEF IInv, PlaceInv

LEMMA ChangeSteps ==
    ASSUME IInv, NEW t \in Threads, Change(t) \/ ChangeFails(t) \/ ChangeNothing(t)
    PROVE  IInv'
<1> USE DEF IInv, job
<1>1. UNCHANGED <<setup, manager, op, names, using, next, calls, found, misled, skipped>>
  BY DEF Change, ChangeFails, ChangeNothing
<1>2. \E a \in {"true", "false", "error", "unsent"} : Answer(t, a)
  BY DEF Change, ChangeFails, ChangeNothing
<1>3. installed' \subseteq Packages
  <2>1. CASE Change(t)
    BY <2>1, PacksType DEF Change
  <2>2. CASE ChangeFails(t) \/ ChangeNothing(t)
    BY <2>2 DEF ChangeFails, ChangeNothing, TypeOK
  <2> QED
    BY <2>1, <2>2
<1>4. disturbed' \in [Threads -> BOOLEAN]
  <2>1. CASE Change(t)
    BY <2>1 DEF Change, TypeOK
  <2>2. CASE ChangeFails(t) \/ ChangeNothing(t)
    BY <2>2 DEF ChangeFails, ChangeNothing, TypeOK
  <2> QED
    BY <2>1, <2>2
<1> QED
  BY <1>1, <1>2, <1>3, <1>4, AfterCommand DEF TypeOK

LEMMA ErrorSteps ==
    ASSUME IInv, NEW t \in Threads, Undetermined(t) \/ Loses(t)
    PROVE  IInv'
<1>1. /\ Answer(t, "error")
      /\ UNCHANGED <<setup, manager, op, names, using, next, calls, installed, found, disturbed, misled, skipped>>
  BY DEF Undetermined, Loses, job
<1> QED
  BY <1>1, AfterCommand DEF IInv, TypeOK

LEMMA NextInv == IInv /\ [Next]_vars => IInv'
<1> SUFFICES ASSUME IInv, [Next]_vars PROVE IInv'
  OBVIOUS
<1>1. CASE Next
  <2>1. PICK t \in Threads : Step(t) \/ Loses(t) \/ \E what \in Ops : Call(t, what)
    BY <1>1 DEF Next
  <2>2. CASE \E what \in Ops : Call(t, what)
    BY <2>2, CallInv
  <2>3. CASE Step(t) \/ Loses(t)
    BY <2>3, ProbeStep, DispatchStep, QuerySteps, ListSteps, ChangeSteps, ErrorSteps DEF Step
  <2> QED
    BY <2>1, <2>2, <2>3
<1>2. CASE UNCHANGED vars
  BY <1>2 DEF vars, IInv, TypeOK, ProbeInv, PlaceInv, ProperManager
<1> QED
  BY <1>1, <1>2

(* The choice, the places of the calls and the types agree in every state. *)
THEOREM Inductive == Spec => []IInv
<1> QED
  BY InitInv, NextInv, PTL DEF Spec

----------------------------------------------------------------------------
(* The state always has its types, and a thread has a manager before it runs
   a command of one (package_manager.py:337-355). *)
THEOREM TypeCorrect == Spec => []TypeOK
<1>1. IInv => TypeOK
  BY DEF IInv
<1> QED
  BY <1>1, Inductive, PTL

(* The manager that any number of threads choose is one the host has, and the
   first of the order except for those whose probe failed; none is found only if
   all probes that could have succeeded failed (package_manager.py:337-355). *)
THEOREM ManagerIsProper == Spec => []ProperManager
<1>1. IInv => ProperManager
  BY DEF IInv
<1> QED
  BY <1>1, Inductive, PTL

----------------------------------------------------------------------------
(* What an answer says of the packages.                                    *)

\* install() and remove() of a name are about one package.
NamesInv ==
    \A t \in Threads : op[t] \in {"install", "remove"} => \E p \in Packages : names[t] = {p}

\* What a pattern matched when the packages were listed is what it matches now.
PatternInv(t) ==
    pc[t] = "change" /\ op[t] = "remove pattern" /\ ~ misled[t] /\ ~ disturbed[t]
       => names[t] \cap installed \subseteq found[t]

AnswerInv == NamesInv /\ \A t \in Threads : PatternInv(t)

\* What the step of a thread leaves alone: all of the other calls.
LEMMA OthersKept ==
    ASSUME TypeOK, NEW t \in Threads, Step(t) \/ Loses(t) \/ \E what \in Ops : Call(t, what),
           NEW u \in Threads, u # t
    PROVE  /\ pc'[u] = pc[u] /\ op'[u] = op[u] /\ names'[u] = names[u] /\ found'[u] = found[u]
           /\ answer'[u] = answer[u] /\ misled'[u] = misled[u]
<1> USE DEF TypeOK, Answer, job
<1>1. CASE \E what \in Ops : Call(t, what)
  BY <1>1 DEF Call
<1>2. CASE Probe(t) \/ ProbeMisses(t) \/ Undetermined(t) \/ Dispatch(t) \/ Loses(t)
  BY <1>2 DEF Probe, ProbeMisses, Undetermined, Dispatch, Loses
<1>3. CASE Query(t) \/ QueryFails(t)
  <2>1. /\ pc'[u] = pc[u] /\ answer'[u] = answer[u]
    BY <1>3 DEF Query, QueryFails, Continue
  <2> QED
    BY <1>3, <2>1 DEF Query, QueryFails
<1>4. CASE List(t) \/ ListFails(t) \/ ListTuple(t)
  <2>1. CASE List(t)
    BY <2>1 DEF List
  <2>2. CASE ListFails(t)
    BY <2>2 DEF ListFails
  <2>3. CASE ListTuple(t)
    BY <2>3 DEF ListTuple
  <2> QED
    BY <1>4, <2>1, <2>2, <2>3
<1>5. CASE Change(t) \/ ChangeFails(t) \/ ChangeNothing(t)
  BY <1>5 DEF Change, ChangeFails, ChangeNothing
<1> QED
  BY <1>1, <1>2, <1>3, <1>4, <1>5 DEF Step

\* For who is not disturbed by a step no package it names has come.
LEMMA UndisturbedKept ==
    ASSUME TypeOK, NEW t \in Threads, Step(t) \/ Loses(t) \/ \E what \in Ops : Call(t, what),
           NEW u \in Threads, u # t, pc[u] # "idle", ~ disturbed'[u]
    PROVE  ~ disturbed[u] /\ names[u] \cap installed' \subseteq installed
<1>1. CASE Change(t)
  BY <1>1 DEF Change
<1>2. CASE \E what \in Ops : Call(t, what)
  BY <1>2 DEF Call, TypeOK
<1>3. CASE ~ Change(t) /\ ~ \E what \in Ops : Call(t, what)
  BY <1>3 DEF Step, Probe, ProbeMisses, Undetermined, Dispatch, Loses, Query, QueryFails, List,
              ListFails, ListTuple, ChangeFails, ChangeNothing, job
<1> QED
  BY <1>1, <1>2, <1>3

LEMMA SingleArgument ==
    ASSUME NEW what \in {"install", "remove"}, NEW n \in Arguments(what)
    PROVE  \E p \in Packages : n = {p}
<1>1. Arguments(what) = {{p} : p \in Packages}
  BY DEF Arguments
<1> QED
  BY <1>1

LEMMA NamesStep ==
    ASSUME IInv, NamesInv, NEW t \in Threads,
           Step(t) \/ Loses(t) \/ \E what \in Ops : Call(t, what)
    PROVE  NamesInv'
<1> SUFFICES ASSUME NEW u \in Threads, op'[u] \in {"install", "remove"}
             PROVE  \E p \in Packages : names'[u] = {p}
  BY DEF NamesInv
<1>1. CASE u # t
  <2>1. op'[u] = op[u] /\ names'[u] = names[u]
    BY <1>1, OthersKept DEF IInv
  <2> QED
    BY <2>1 DEF NamesInv
<1>2. CASE u = t /\ \E what \in Ops : Call(t, what)
  <2>1. PICK what \in Ops : Call(t, what)
    BY <1>2
  <2>2. op'[t] = what
    BY <2>1 DEF Call, IInv, TypeOK
  <2>3. PICK n \in Arguments(what) : names' = [names EXCEPT ![t] = n]
    BY <2>1 DEF Call
  <2>4. names'[t] = n
    BY <2>3 DEF IInv, TypeOK
  <2> QED
    BY <1>2, <2>2, <2>4, SingleArgument
<1>3. CASE Step(t) \/ Loses(t)
  <2>1. op' = op /\ names' = names
    BY <1>3 DEF Step, Loses, Probe, ProbeMisses, Undetermined, Dispatch, Query, QueryFails, List,
                ListFails, ListTuple, Change, ChangeFails, ChangeNothing, job
  <2> QED
    BY <2>1 DEF NamesInv
<1> QED
  BY <1>1, <1>2, <1>3

\* A thread comes to remove what a pattern matches by listing the packages.
LEMMA PatternReached ==
    ASSUME IInv, NEW t \in Threads, Step(t) \/ Loses(t) \/ \E what \in Ops : Call(t, what),
           pc'[t] = "change", op'[t] = "remove pattern", ~ misled'[t]
    PROVE  found'[t] = installed /\ installed' = installed
<1>1. CASE List(t)
  BY <1>1 DEF List, IInv, TypeOK, job
<1>2. ~ ListFails(t)
  BY DEF ListFails, IInv, TypeOK
<1>3. ~ \E what \in Ops : Call(t, what)
  <2> SUFFICES ASSUME NEW what \in Ops, Call(t, what) PROVE FALSE
    OBVIOUS
  <2>1. op'[t] = what
    BY DEF Call, IInv, TypeOK
  <2>2. pc'[t] \in {First(what), "probe", "dispatch"}
    BY DEF Call, IInv, TypeOK
  <2> QED
    BY <2>1, <2>2, FirstPlace
<1>4. ~ Query(t) /\ ~ QueryFails(t)
  BY DEF Query, QueryFails, IInv, PlaceInv, job
<1>5. ~ Dispatch(t)
  <2> SUFFICES ASSUME Dispatch(t) PROVE FALSE
    OBVIOUS
  <2>1. op[t] \in Ops /\ op[t] = "remove pattern" /\ pc'[t] = First(op[t])
    BY DEF Dispatch, IInv, TypeOK, job
  <2> QED
    BY <2>1, FirstPlace
<1>6. ~ Probe(t) /\ ~ ProbeMisses(t)
  BY DEF Probe, ProbeMisses, IInv, TypeOK
<1>7. ~ Undetermined(t) /\ ~ Loses(t) /\ ~ ListTuple(t)
      /\ ~ Change(t) /\ ~ ChangeFails(t) /\ ~ ChangeNothing(t)
  BY DEF Undetermined, Loses, ListTuple, Change, ChangeFails, ChangeNothing, Answer, IInv, TypeOK
<1> QED
  BY <1>1, <1>2, <1>3, <1>4, <1>5, <1>6, <1>7 DEF Step

LEMMA PatternStep ==
    ASSUME IInv, \A u \in Threads : PatternInv(u), NEW t \in Threads,
           Step(t) \/ Loses(t) \/ \E what \in Ops : Call(t, what),
           NEW u \in Threads
    PROVE  PatternInv(u)'
<1> SUFFICES ASSUME pc'[u] = "change", op'[u] = "remove pattern", ~ misled'[u], ~ disturbed'[u]
             PROVE  names'[u] \cap installed' \subseteq found'[u]
  BY DEF PatternInv
<1>1. CASE u # t
  <2>1. /\ pc'[u] = pc[u] /\ op'[u] = op[u] /\ names'[u] = names[u] /\ found'[u] = found[u]
        /\ misled'[u] = misled[u]
    BY <1>1, OthersKept DEF IInv
  <2>2. ~ disturbed[u] /\ names[u] \cap installed' \subseteq installed
    BY <1>1, <2>1, UndisturbedKept DEF IInv
  <2>3. PatternInv(u)
    OBVIOUS
  <2> QED
    BY <2>1, <2>2, <2>3 DEF PatternInv
<1>2. CASE u = t
  BY <1>2, PatternReached
<1> QED
  BY <1>1, <1>2

LEMMA AnswerStep == IInv /\ AnswerInv /\ [Next]_vars => AnswerInv'
<1> SUFFICES ASSUME IInv, AnswerInv, [Next]_vars PROVE AnswerInv'
  OBVIOUS
<1>1. CASE Next
  BY <1>1, NamesStep, PatternStep DEF Next, AnswerInv
<1>2. CASE UNCHANGED vars
  BY <1>2 DEF vars, AnswerInv, NamesInv, PatternInv
<1> QED
  BY <1>1, <1>2

\* The answers of a query.
LEMMA QueryAnswers ==
    ASSUME IInv, NamesInv, NEW t \in Threads, Query(t) \/ QueryFails(t),
           answer[t] = "none", answer'[t] = "true"
    PROVE  /\ op[t] = "install" => \A p \in names[t] : Shown(using[t], p)' # {}
           /\ op[t] = "remove" /\ ~ misled'[t] => names[t] \cap installed' = {}
<1> SUFFICES ASSUME op[t] \in {"install", "remove"}
             PROVE  /\ op[t] = "install" => \A p \in names[t] : Shown(using[t], p)' # {}
                    /\ op[t] = "remove" /\ ~ misled'[t] => names[t] \cap installed' = {}
  OBVIOUS
<1>1. PICK p \in Packages : names[t] = {p}
  BY DEF NamesInv
<1>2. ~ Decided(t)
  BY DEF Query, QueryFails, Continue, IInv, TypeOK
<1>3. installed' = installed /\ using' = using
  BY DEF Query, QueryFails
<1>4. CASE Query(t)
  <2>1. found'[t] = Shown(using[t], p)
    BY <1>1, <1>4 DEF Query, IInv, TypeOK
  <2>2. p \in Similar[p]
    BY PackageAssumption DEF PackageAssumption
  <2> QED
    BY <1>1, <1>2, <1>3, <2>1, <2>2 DEF Decided, Shown
<1>5. CASE QueryFails(t)
  <2>1. found'[t] = {} /\ misled'[t]
    BY <1>5 DEF QueryFails, IInv, TypeOK
  <2> QED
    BY <1>2, <2>1 DEF Decided
<1> QED
  BY <1>4, <1>5

\* The answers of a command that changes the packages.
LEMMA ChangeAnswers ==
    ASSUME IInv, AnswerInv, NEW t \in Threads, Change(t) \/ ChangeNothing(t)
    PROVE  /\ op[t] = "install" => \A p \in names[t] : Shown(using[t], p)' # {}
           /\ op[t] = "remove" => names[t] \cap installed' = {}
           /\ op[t] = "remove pattern" /\ ~ misled'[t] /\ ~ disturbed'[t]
                 => names[t] \cap installed' = {}
<1>1. pc[t] = "change" /\ misled' = misled /\ (disturbed[t] => disturbed'[t])
  BY DEF Change, ChangeNothing, IInv, TypeOK
<1>2. CASE op[t] = "install"
  <2>1. PICK p \in Packages : names[t] = {p}
    BY <1>2 DEF AnswerInv, NamesInv
  <2>2. p \in installed'
    <3>1. Chosen(t) = {p}
      BY <1>2, <2>1 DEF Chosen
    <3>2. installed' \in Packs(t)
      BY <3>1 DEF Change, ChangeNothing
    <3> QED
      BY <1>2, <3>1, <3>2 DEF Packs
  <2>3. p \in Similar[p]
    BY PackageAssumption DEF PackageAssumption
  <2>4. Shown(using[t], p)' # {}
    BY <2>2, <2>3 DEF Shown
  <2> QED
    BY <1>2, <2>1, <2>4
<1>3. CASE op[t] \in {"remove", "remove pattern"}
  <2>1. Chosen(t) \cap installed' = {}
    <3>1. CASE Change(t)
      <4>1. installed' \in Packs(t)
        BY <3>1 DEF Change
      <4>2. PICK idle \in Idle(t) : installed' = installed \ (Gone(t) \cup idle)
        BY <1>3, <4>1 DEF Packs
      <4> QED
        BY <4>2 DEF Gone
    <3>2. CASE ChangeNothing(t)
      BY <3>2 DEF ChangeNothing
    <3> QED
      BY <3>1, <3>2
  <2>2. installed' \subseteq installed
    BY <1>3 DEF Change, ChangeNothing, Packs
  <2>3. CASE op[t] = "remove"
    BY <2>1, <2>3 DEF Chosen
  <2>4. CASE op[t] = "remove pattern" /\ ~ misled'[t] /\ ~ disturbed'[t]
    <3>1. names[t] \cap installed \subseteq found[t]
      BY <1>1, <2>4 DEF AnswerInv, PatternInv
    <3>2. found[t] \cap names[t] \subseteq Chosen(t)
      BY <2>4 DEF Chosen
    <3> QED
      BY <2>1, <2>2, <2>4, <3>1, <3>2
  <2> QED
    BY <1>3, <2>3, <2>4
<1> QED
  BY <1>2, <1>3

(* What install() and remove() answer is true of the host, for any number of
   threads that install and remove at once and whatever the names of packages
   contain (package_manager.py:129-205). *)
THEOREM AnswersAreTruthful == Spec => AnswersTruthful
<1> DEFINE Truthful ==
        \A t \in Threads :
          answer[t] = "none" /\ answer'[t] = "true"
             => /\ op[t] = "install" => \A p \in names[t] : Shown(using[t], p)' # {}
                /\ op[t] = "remove" /\ ~ misled'[t] => names[t] \cap installed' = {}
                /\ op[t] = "remove pattern" /\ ~ misled'[t] /\ ~ disturbed'[t]
                      => names[t] \cap installed' = {}
<1>1. Init => AnswerInv
  BY DEF Init, AnswerInv, NamesInv, PatternInv
<1>2. IInv /\ AnswerInv /\ [Next]_vars => [Truthful]_vars
  <2> SUFFICES ASSUME IInv, AnswerInv, Next,
                      NEW u \in Threads, answer[u] = "none", answer'[u] = "true"
               PROVE  /\ op[u] = "install" => \A p \in names[u] : Shown(using[u], p)' # {}
                      /\ op[u] = "remove" /\ ~ misled'[u] => names[u] \cap installed' = {}
                      /\ op[u] = "remove pattern" /\ ~ misled'[u] /\ ~ disturbed'[u]
                            => names[u] \cap installed' = {}
    BY DEF Shown
  <2>1. PICK t \in Threads : Step(t) \/ Loses(t) \/ \E what \in Ops : Call(t, what)
    BY DEF Next
  <2>2. u = t
    BY <2>1, OthersKept DEF IInv
  <2>3. CASE Query(u) \/ QueryFails(u)
    <3>1. op[u] \in {"exist", "install", "remove"}
      BY <2>3 DEF Query, QueryFails, IInv, PlaceInv
    <3> QED
      BY <2>3, <3>1, QueryAnswers DEF AnswerInv
  <2>4. CASE Change(u) \/ ChangeNothing(u)
    BY <2>4, ChangeAnswers
  <2>5. CASE List(u)
    BY <2>5 DEF List, IInv, TypeOK
  <2>6. ~ \E what \in Ops : Call(u, what)
    BY DEF Call, IInv, TypeOK
  <2>7. /\ ~ Probe(u) /\ ~ ProbeMisses(u) /\ ~ Undetermined(u) /\ ~ Dispatch(u) /\ ~ Loses(u) /\ ~ ListFails(u)
        /\ ~ ListTuple(u) /\ ~ ChangeFails(u)
    BY DEF Probe, ProbeMisses, Undetermined, Dispatch, Loses, ListFails, ListTuple, ChangeFails, Answer, IInv, TypeOK
  <2> QED
    BY <2>1, <2>2, <2>3, <2>4, <2>5, <2>6, <2>7 DEF Step
<1> QED
  BY <1>1, <1>2, AnswerStep, Inductive, PTL DEF Spec, AnswersTruthful

=============================================================================
