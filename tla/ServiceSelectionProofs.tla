----------------------- MODULE ServiceSelectionProofs -----------------------
(***************************************************************************)
(* Theorems about ServiceSelection, for any number of threads that share   *)
(* the remembered provider, any services and any hosts.                    *)
(***************************************************************************)
EXTENDS ServiceSelection, TLAPS

\* What the loop over the providers still has to try.
Rests == {Order, <<"SysVinit", "InitCtl">>, <<"InitCtl">>}

\* The providers that are no longer in a rest of the loop.
Tried(rest) ==
    {p \in Providers : /\ p = "Systemd" => rest # Order
                       /\ p = "SysVinit" => rest = <<"InitCtl">>
                       /\ p # "InitCtl"}

\* The places of service(); what is stored comes from a provider that agreed.
PlaceInv(t) ==
    /\ pc[t] = "cached" => \E p \in Providers : left[t] = <<p>>
    /\ pc[t] = "create" => left[t] \in Rests
    /\ pc[t] = "store" => left[t] # <<>> /\ Handles(Head(left[t]), name[t])

\* A provider that the loop has passed cannot handle the service.
LoopInv(t) ==
    pc[t] = "create" /\ ~ missed[t] => \A p \in Tried(left[t]) : ~ Handles(p, name[t])

\* While nobody disturbs a restart, its plan fits the service.
RestartInv(t) ==
    pc[t] = "restart" =>
        /\ obj[t] # None
        /\ calm[t] => (plan[t] = "restart" <=> obj[t].name \in running)

\* What thread t has from its last call: ObjectHandled and NotFoundTruthful.
ResultInv(t) ==
    /\ obj[t] # None => Handles(obj[t].provider, obj[t].name)
    /\ answer[t] = "no provider" /\ ~ missed[t] => \A p \in Providers : ~ Handles(p, name[t])

ThreadInv(t) == PlaceInv(t) /\ LoopInv(t) /\ RestartInv(t) /\ ResultInv(t)

IInv == TypeOK /\ \A t \in Threads : ThreadInv(t)

----------------------------------------------------------------------------
(* Facts about the definitions.                                            *)

LEMMA RestFacts ==
    ASSUME NEW r \in Rests
    PROVE  /\ r \in Seq(Providers) /\ r # <<>>
           /\ Head(r) \in Providers
           /\ Tail(r) # <<>> => /\ Tail(r) \in Rests
                                /\ Tried(Tail(r)) = Tried(r) \cup {Head(r)}
           /\ Tail(r) = <<>> => Providers = Tried(r) \cup {Head(r)}
<1> USE DEF Providers, Tried
<1> DEFINE a == <<"Systemd", "SysVinit", "InitCtl">>
           b == <<"SysVinit", "InitCtl">>
           c == <<"InitCtl">>
<1>1. a # b /\ a # c /\ b # c
  <2>1. Len(a) = 3 /\ Len(b) = 2 /\ Len(c) = 1
    OBVIOUS
  <2> QED
    BY <2>1
<1>2. /\ Head(a) = "Systemd" /\ Tail(a) = b
      /\ Head(b) = "SysVinit" /\ Tail(b) = c
      /\ Head(c) = "InitCtl" /\ Tail(c) = <<>>
  OBVIOUS
<1>3. a \in Seq(Providers) /\ b \in Seq(Providers) /\ c \in Seq(Providers)
  OBVIOUS
<1>4. a # <<>> /\ b # <<>> /\ c # <<>>
  OBVIOUS
<1>5. Order = a
  BY DEF Order
<1> HIDE DEF a, b, c
<1>6. Rests = {a, b, c} /\ b = <<"SysVinit", "InitCtl">> /\ c = <<"InitCtl">>
  BY <1>5 DEF Rests, b, c
<1>7. CASE r = a
  BY <1>1, <1>2, <1>3, <1>4, <1>5, <1>6, <1>7
<1>8. CASE r = b
  BY <1>1, <1>2, <1>3, <1>4, <1>5, <1>6, <1>8
<1>9. CASE r = c
  BY <1>1, <1>2, <1>3, <1>4, <1>5, <1>6, <1>9
<1> QED
  BY <1>6, <1>7, <1>8, <1>9

LEMMA OrderRest == Order \in Rests /\ Tried(Order) = {}
  BY DEF Rests, Tried, Order, Providers

\* The host stays as it is, and so does what its providers can handle.
LEMMA HandlesKept ==
    ASSUME host' = host, NEW p, NEW s
    PROVE  Handles(p, s)' <=> Handles(p, s)
  BY Zenon DEF Handles, HasCommand, HasUnit, HasScript, HasJob

LEMMA AfterFacts ==
    ASSUME running \subseteq Services, NEW s \in Services,
           NEW what \in {"start", "stop", "restart", "reload"}
    PROVE  /\ After(what, s) \subseteq Services
           /\ \A x \in Services : x # s => (x \in After(what, s) <=> x \in running)
           /\ what \in {"start", "restart"} => s \in After(what, s)
<1>1. CASE what = "stop"
  BY <1>1 DEF After
<1>2. CASE what = "reload"
  BY <1>2 DEF After
<1>3. CASE what \in {"start", "restart"}
  BY <1>3 DEF After
<1> QED
  BY <1>1, <1>2, <1>3

LEMMA InitInv == Init => IInv
<1> SUFFICES ASSUME Init PROVE IInv
  OBVIOUS
<1> USE DEF Init
<1>1. left \in [Threads -> Seq(Providers)]
  <2>1. <<>> \in Seq(Providers)
    OBVIOUS
  <2> QED
    BY <2>1
<1>2. TypeOK
  BY <1>1 DEF TypeOK
<1>3. ASSUME NEW t \in Threads PROVE ThreadInv(t)
  BY DEF ThreadInv, PlaceInv, LoopInv, RestartInv, ResultInv
<1> QED
  BY <1>2, <1>3 DEF IInv

----------------------------------------------------------------------------
(* What a step leaves alone.                                               *)

\* A thread whose own state stays, and whose restart is disturbed only if its
\* service changes, keeps its invariant.
LEMMA OthersKept ==
    ASSUME NEW u \in Threads, ThreadInv(u), host' = host,
           pc'[u] = pc[u], name'[u] = name[u], left'[u] = left[u], plan'[u] = plan[u],
           obj'[u] = obj[u], answer'[u] = answer[u], missed'[u] = missed[u],
           calm'[u] => calm[u],
           calm'[u] /\ obj[u] # None => (obj[u].name \in running' <=> obj[u].name \in running)
    PROVE  ThreadInv(u)'
<1> USE HandlesKept
<1>1. PlaceInv(u)'
  BY DEF ThreadInv, PlaceInv
<1>2. LoopInv(u)'
  BY DEF ThreadInv, LoopInv, Tried
<1>3. RestartInv(u)'
  BY DEF ThreadInv, RestartInv
<1>4. ResultInv(u)'
  BY DEF ThreadInv, ResultInv
<1> QED
  BY <1>1, <1>2, <1>3, <1>4 DEF ThreadInv

\* A step of t alone, which changes nothing on the host.
Alone(t) ==
    /\ host' = host /\ running' = running
    /\ \A u \in Threads \ {t} :
          /\ pc'[u] = pc[u] /\ name'[u] = name[u] /\ left'[u] = left[u] /\ plan'[u] = plan[u]
          /\ obj'[u] = obj[u] /\ answer'[u] = answer[u] /\ missed'[u] = missed[u]
          /\ calm'[u] = calm[u]

LEMMA LocalStep ==
    ASSUME IInv, TypeOK', NEW t \in Threads, Alone(t), ThreadInv(t)'
    PROVE  IInv'
<1>1. ASSUME NEW u \in Threads, u # t PROVE ThreadInv(u)'
  <2>1. ThreadInv(u)
    BY DEF IInv
  <2> QED
    BY <1>1, <2>1, OthersKept DEF Alone
<1> QED
  BY <1>1 DEF IInv

----------------------------------------------------------------------------
(* service(name)                                                           *)

LEMMA ServiceStep ==
    ASSUME IInv, NEW t \in Threads, NEW s \in Services, Service(t, s)
    PROVE  IInv'
<1> USE DEF Service
<1>1. left' \in [Threads -> Seq(Providers)]
  <2>1. Order \in Seq(Providers)
    BY OrderRest, RestFacts
  <2>2. ASSUME NEW p \in Providers PROVE <<p>> \in Seq(Providers)
    OBVIOUS
  <2> QED
    BY <2>1, <2>2 DEF IInv, TypeOK
<1>2. TypeOK'
  BY <1>1 DEF IInv, TypeOK
<1>3. /\ name'[t] = s /\ obj'[t] = None /\ answer'[t] = "none" /\ missed'[t] = FALSE
      /\ \/ pc'[t] = "create" /\ left'[t] = Order
         \/ pc'[t] = "cached" /\ left'[t] = <<provider>> /\ provider \in Providers
  BY DEF IInv, TypeOK
<1>4. ThreadInv(t)'
  BY <1>3, OrderRest DEF ThreadInv, PlaceInv, LoopInv, RestartInv, ResultInv, Tried
<1>5. Alone(t)
  BY DEF Alone, IInv, TypeOK
<1> QED
  BY <1>2, <1>4, <1>5, LocalStep

LEMMA TryingFacts ==
    ASSUME IInv, NEW t \in Threads, Trying(t)
    PROVE  /\ Head(left[t]) \in Providers /\ Tail(left[t]) \in Seq(Providers)
           /\ Returned(t) \in Objects
           /\ pc[t] = "cached" => Tail(left[t]) = <<>>
           /\ pc[t] = "create" => left[t] \in Rests
<1>1. left[t] \in Seq(Providers) /\ left[t] # <<>> /\ name[t] \in Services
  BY DEF IInv, TypeOK, Trying
<1>2. Head(left[t]) \in Providers /\ Tail(left[t]) \in Seq(Providers)
  BY <1>1
<1>3. pc[t] = "cached" => \E p \in Providers : left[t] = <<p>>
  BY DEF IInv, ThreadInv, PlaceInv
<1>4. \A p : Tail(<<p>>) = <<>>
  OBVIOUS
<1>5. pc[t] = "create" => left[t] \in Rests
  BY DEF IInv, ThreadInv, PlaceInv
<1> QED
  BY <1>1, <1>2, <1>3, <1>4, <1>5 DEF Returned, Objects

LEMMA AcceptStep ==
    ASSUME IInv, NEW t \in Threads, Accept(t)
    PROVE  IInv'
<1>1. Trying(t) /\ Handles(Head(left[t]), name[t])
  BY DEF Accept
<1>2. Head(left[t]) \in Providers /\ Returned(t) \in Objects
  BY <1>1, TryingFacts
<1>3. /\ UNCHANGED <<host, running, sudo, name, left, plan, answer, missed, calm>>
      /\ \/ /\ pc' = [pc EXCEPT ![t] = "idle"] /\ obj' = [obj EXCEPT ![t] = Returned(t)]
            /\ UNCHANGED provider
         \/ /\ pc' = [pc EXCEPT ![t] = "store"] /\ provider' = Head(left[t]) /\ UNCHANGED obj
  BY DEF Accept
<1>4. TypeOK'
  <2>1. /\ pc' \in [Threads -> {"idle", "cached", "create", "store", "restart"}] /\ obj' \in [Threads -> Objects \cup {None}]
        /\ provider' \in Providers \cup {None}
    <3>1. /\ pc \in [Threads -> {"idle", "cached", "create", "store", "restart"}]
          /\ obj \in [Threads -> Objects \cup {None}] /\ provider \in Providers \cup {None}
      BY DEF IInv, TypeOK
    <3>2. CASE pc' = [pc EXCEPT ![t] = "idle"] /\ obj' = [obj EXCEPT ![t] = Returned(t)]
               /\ UNCHANGED provider
      BY <1>2, <3>1, <3>2
    <3>3. CASE pc' = [pc EXCEPT ![t] = "store"] /\ provider' = Head(left[t]) /\ UNCHANGED obj
      BY <1>2, <3>1, <3>3
    <3> QED
      BY <1>3, <3>2, <3>3
  <2> QED
    BY <1>3, <2>1 DEF IInv, TypeOK
<1>5. Alone(t)
  BY <1>3 DEF Alone, IInv, TypeOK
<1>6. \/ pc'[t] = "idle" /\ obj'[t] = Returned(t)
      \/ pc'[t] = "store" /\ obj'[t] = obj[t]
  BY <1>3 DEF IInv, TypeOK
<1>7. Returned(t).provider = Head(left[t]) /\ Returned(t).name = name[t]
  BY DEF Returned
<1>8. left[t] # <<>>
  BY <1>1 DEF Trying
<1>9. ThreadInv(t)
  BY DEF IInv
<1>a. ThreadInv(t)'
  <2>1. PlaceInv(t)'
    BY <1>1, <1>3, <1>6, <1>8, HandlesKept DEF PlaceInv
  <2>2. LoopInv(t)' /\ RestartInv(t)'
    BY <1>6 DEF LoopInv, RestartInv
  <2>3. ResultInv(t)'
    BY <1>1, <1>3, <1>6, <1>7, <1>9, HandlesKept DEF ThreadInv, ResultInv
  <2> QED
    BY <2>1, <2>2, <2>3 DEF ThreadInv
<1> QED
  BY <1>4, <1>5, <1>a, LocalStep

LEMMA StoreStep ==
    ASSUME IInv, NEW t \in Threads, Store(t)
    PROVE  IInv'
<1>1. /\ left[t] # <<>> /\ Handles(Head(left[t]), name[t])
      /\ left[t] \in Seq(Providers) /\ name[t] \in Services
  BY DEF Store, IInv, ThreadInv, PlaceInv, TypeOK
<1>2. Head(left[t]) \in Providers /\ Returned(t) \in Objects
  BY <1>1 DEF Returned, Objects
<1>3. TypeOK'
  BY <1>2 DEF Store, IInv, TypeOK
<1>4. Alone(t)
  BY DEF Store, Alone, IInv, TypeOK
<1>5. pc'[t] = "idle" /\ obj'[t] = Returned(t)
  BY DEF Store, IInv, TypeOK
<1>6. Returned(t).provider = Head(left[t]) /\ Returned(t).name = name[t]
  BY DEF Returned
<1>7. ThreadInv(t)
  BY DEF IInv
<1>8. ThreadInv(t)'
  <2>1. PlaceInv(t)' /\ LoopInv(t)' /\ RestartInv(t)'
    BY <1>5 DEF PlaceInv, LoopInv, RestartInv
  <2>2. ResultInv(t)'
    BY <1>1, <1>5, <1>6, <1>7, HandlesKept DEF ThreadInv, ResultInv, Store
  <2> QED
    BY <2>1, <2>2 DEF ThreadInv
<1> QED
  BY <1>3, <1>4, <1>8, LocalStep

LEMMA DeclineStep ==
    ASSUME IInv, NEW t \in Threads, Decline(t)
    PROVE  IInv'
<1> DEFINE h == Head(left[t])
<1>1. Trying(t) /\ missed' = [missed EXCEPT ![t] = @ \/ Handles(h, name[t])]
  BY DEF Decline
<1>2. UNCHANGED <<host, running, sudo, provider, name, plan, obj, calm>>
  BY DEF Decline
<1>3. /\ h \in Providers /\ Tail(left[t]) \in Seq(Providers)
      /\ pc[t] = "cached" => Tail(left[t]) = <<>>
      /\ pc[t] = "create" => left[t] \in Rests
  BY <1>1, TryingFacts
<1>4. missed' \in [Threads -> BOOLEAN]
  BY <1>1 DEF IInv, TypeOK
<1>5. /\ ~ missed'[t] => ~ missed[t] /\ ~ Handles(h, name[t])
      /\ \A u \in Threads \ {t} : missed'[u] = missed[u]
  BY <1>1 DEF IInv, TypeOK
<1>6. ThreadInv(t)
  BY DEF IInv
<1>7. pc[t] \in {"cached", "create"}
  BY <1>1 DEF Trying
<1>8. CASE Tail(left[t]) # <<>>
  <2>1. left' = [left EXCEPT ![t] = Tail(@)] /\ UNCHANGED <<pc, answer>>
    BY <1>8 DEF Decline
  <2>2. pc[t] = "create" /\ left[t] \in Rests /\ left'[t] = Tail(left[t])
    BY <1>3, <1>7, <1>8, <2>1 DEF IInv, TypeOK
  <2>3. Tail(left[t]) \in Rests /\ Tried(Tail(left[t])) = Tried(left[t]) \cup {h}
    BY <1>8, <2>2, RestFacts
  <2>4. TypeOK'
    BY <1>2, <1>3, <1>4, <2>1 DEF IInv, TypeOK
  <2>5. Alone(t)
    BY <1>2, <1>5, <2>1 DEF Alone, IInv, TypeOK
  <2>6. PlaceInv(t)' /\ RestartInv(t)'
    BY <2>1, <2>2, <2>3 DEF PlaceInv, RestartInv
  <2>7. Tried(left[t])' = Tried(left[t]) \cup {h}
    BY <2>2, <2>3 DEF Tried
  <2>8. LoopInv(t)'
    BY <1>2, <1>5, <1>6, <2>2, <2>7, HandlesKept DEF ThreadInv, LoopInv
  <2>9. ResultInv(t)'
    BY <1>2, <1>5, <1>6, <2>1, HandlesKept DEF ThreadInv, ResultInv
  <2> QED
    BY <2>4, <2>5, <2>6, <2>8, <2>9, LocalStep DEF ThreadInv
<1>9. CASE Tail(left[t]) = <<>> /\ pc[t] = "cached"
  <2>1. left' = [left EXCEPT ![t] = Order] /\ pc' = [pc EXCEPT ![t] = "create"] /\ answer' = answer
    BY <1>9 DEF Decline
  <2>2. pc'[t] = "create" /\ left'[t] = Order
    BY <2>1 DEF IInv, TypeOK
  <2>3. Order \in Seq(Providers) /\ Order \in Rests /\ Tried(Order) = {}
    BY OrderRest, RestFacts
  <2>4. TypeOK'
    BY <1>2, <1>4, <2>1, <2>3 DEF IInv, TypeOK
  <2>5. Alone(t)
    BY <1>2, <1>5, <2>1 DEF Alone, IInv, TypeOK
  <2>6. PlaceInv(t)' /\ RestartInv(t)'
    BY <2>2, <2>3 DEF PlaceInv, RestartInv
  <2>7. Tried(left[t])' = {}
    BY <2>2, <2>3 DEF Tried
  <2>8. LoopInv(t)'
    BY <2>7 DEF LoopInv
  <2>9. ResultInv(t)'
    BY <1>2, <1>5, <1>6, <2>1, HandlesKept DEF ThreadInv, ResultInv
  <2> QED
    BY <2>4, <2>5, <2>6, <2>8, <2>9, LocalStep DEF ThreadInv
<1>a. CASE Tail(left[t]) = <<>> /\ pc[t] = "create"
  <2>1. /\ left' = [left EXCEPT ![t] = <<>>] /\ pc' = [pc EXCEPT ![t] = "idle"]
        /\ answer' = [answer EXCEPT ![t] = "no provider"]
    BY <1>a DEF Decline
  <2>2. pc'[t] = "idle"
    BY <2>1 DEF IInv, TypeOK
  <2>3. Providers = Tried(left[t]) \cup {h}
    BY <1>3, <1>a, RestFacts
  <2>4. TypeOK'
    <3>1. <<>> \in Seq(Providers)
      OBVIOUS
    <3> QED
      BY <1>2, <1>4, <2>1, <3>1 DEF IInv, TypeOK
  <2>5. Alone(t)
    BY <1>2, <1>5, <2>1 DEF Alone, IInv, TypeOK
  <2>6. PlaceInv(t)' /\ RestartInv(t)' /\ LoopInv(t)'
    BY <2>2 DEF PlaceInv, RestartInv, LoopInv
  <2>7. ~ missed'[t] => \A p \in Providers : ~ Handles(p, name[t])
    BY <1>5, <1>6, <1>a, <2>3 DEF ThreadInv, LoopInv
  <2>8. ResultInv(t)'
    BY <1>2, <1>6, <2>7, HandlesKept DEF ThreadInv, ResultInv
  <2> QED
    BY <2>4, <2>5, <2>6, <2>8, LocalStep DEF ThreadInv
<1> QED
  BY <1>7, <1>8, <1>9, <1>a

LEMMA RaiseStep ==
    ASSUME IInv, NEW t \in Threads, ProbeRaises(t)
    PROVE  IInv'
<1> USE DEF ProbeRaises
<1>1. TypeOK'
  <2>1. <<>> \in Seq(Providers)
    OBVIOUS
  <2> QED
    BY <2>1 DEF IInv, TypeOK
<1>2. Alone(t) /\ pc'[t] = "idle" /\ answer'[t] = "raised"
  BY DEF Alone, IInv, TypeOK
<1>3. ThreadInv(t)
  BY DEF IInv
<1>4. ThreadInv(t)'
  BY <1>2, <1>3, HandlesKept DEF ThreadInv, PlaceInv, LoopInv, RestartInv, ResultInv
<1> QED
  BY <1>1, <1>2, <1>4, LocalStep

----------------------------------------------------------------------------
(* The operations of the object.                                           *)

\* A thread that has an object and ends an operation keeps its invariant.
LEMMA EndsOperation ==
    ASSUME IInv, NEW t \in Threads, host' = host,
           NEW a \in {"True", "False", "raised"}, Finish(t, a),
           name'[t] = name[t], obj'[t] = obj[t]
    PROVE  ThreadInv(t)'
<1>1. pc'[t] = "idle" /\ answer'[t] = a
  BY DEF Finish, IInv, TypeOK
<1>2. ThreadInv(t)
  BY DEF IInv
<1>3. PlaceInv(t)' /\ LoopInv(t)' /\ RestartInv(t)'
  BY <1>1 DEF PlaceInv, LoopInv, RestartInv
<1>4. ResultInv(t)'
  BY <1>1, <1>2, HandlesKept DEF ThreadInv, ResultInv
<1> QED
  BY <1>3, <1>4 DEF ThreadInv

\* An operation that looks or fails, and changes nothing on the host.
LEMMA QuietOperation ==
    ASSUME IInv, NEW t \in Threads, NEW a \in {"True", "False", "raised"}, Finish(t, a),
           UNCHANGED <<host, running, sudo, provider, name, left, plan, obj, missed>>,
           calm' \in [Threads -> BOOLEAN], \A u \in Threads \ {t} : calm'[u] = calm[u]
    PROVE  IInv'
<1>1. TypeOK'
  BY DEF Finish, IInv, TypeOK
<1>2. Alone(t)
  BY DEF Finish, Alone, IInv, TypeOK
<1>3. ThreadInv(t)'
  BY EndsOperation
<1> QED
  BY <1>1, <1>2, <1>3, LocalStep

\* A change of service s by v, a thread or the host itself: the restarts that it
\* could mislead are marked.
LEMMA DisturbsOthers ==
    ASSUME IInv, NEW v, NEW s \in Services, Disturbs(v, s), host' = host,
           \A x \in Services : x # s => (x \in running' <=> x \in running),
           NEW u \in Threads, u # v,
           pc'[u] = pc[u], name'[u] = name[u], left'[u] = left[u], plan'[u] = plan[u],
           obj'[u] = obj[u], answer'[u] = answer[u], missed'[u] = missed[u]
    PROVE  ThreadInv(u)'
<1>1. calm'[u] = (calm[u] /\ (obj[u] = None \/ obj[u].name # s))
  BY DEF Disturbs
<1>2. obj[u] # None => obj[u].name \in Services
  BY DEF IInv, TypeOK, Objects
<1>3. calm'[u] /\ obj[u] # None => (obj[u].name \in running' <=> obj[u].name \in running)
  BY <1>1, <1>2
<1>4. ThreadInv(u) /\ (calm'[u] => calm[u])
  BY <1>1 DEF IInv
<1> QED
  BY <1>3, <1>4, OthersKept

LEMMA DisturbsType ==
    ASSUME IInv, NEW v, NEW s, Disturbs(v, s)
    PROVE  calm' \in [Threads -> BOOLEAN]
  BY DEF Disturbs, IInv, TypeOK

LEMMA ExecuteStep ==
    ASSUME IInv, NEW t \in Threads, NEW what \in {"start", "stop", "restart", "reload"},
           obj[t] # None, Execute(t, what),
           UNCHANGED <<host, sudo, provider, name, left, plan, obj, missed>>
    PROVE  IInv'
<1> DEFINE s == obj[t].name
<1>1. s \in Services
  BY DEF IInv, TypeOK, Objects
<1>2. CASE running' = After(what, s) /\ Finish(t, "True") /\ Disturbs(t, s)
  <2>1. /\ running' \subseteq Services
        /\ \A x \in Services : x # s => (x \in running' <=> x \in running)
    <3> HIDE DEF s
    <3>1. running \subseteq Services
      BY DEF IInv, TypeOK
    <3> QED
      BY <1>1, <1>2, <3>1, AfterFacts
  <2>2. calm' \in [Threads -> BOOLEAN]
    BY <1>2, DisturbsType
  <2>3. TypeOK'
    BY <1>2, <2>1, <2>2 DEF Finish, IInv, TypeOK
  <2>4. ThreadInv(t)'
    BY <1>2, EndsOperation
  <2>5. ASSUME NEW u \in Threads, u # t PROVE ThreadInv(u)'
    <3>1. pc'[u] = pc[u] /\ answer'[u] = answer[u]
      BY <1>2, <2>5 DEF Finish, IInv, TypeOK
    <3> HIDE DEF s
    <3> QED
      BY <1>1, <1>2, <2>1, <2>5, <3>1, DisturbsOthers
  <2> QED
    BY <2>3, <2>4, <2>5 DEF IInv
<1>3. CASE /\ Finish(t, "False") /\ UNCHANGED running
           /\ calm' = [calm EXCEPT ![t] = @ /\ Refuses(t, what)]
  <2>1. calm' \in [Threads -> BOOLEAN] /\ \A u \in Threads \ {t} : calm'[u] = calm[u]
    BY <1>3 DEF IInv, TypeOK
  <2> QED
    BY <1>3, <2>1, QuietOperation
<1> QED
  BY <1>2, <1>3 DEF Execute

LEMMA RestartLookStep ==
    ASSUME IInv, NEW t \in Threads, RestartLook(t)
    PROVE  IInv'
<1> USE DEF RestartLook
<1>1. TypeOK'
  BY DEF IInv, TypeOK
<1>2. Alone(t)
  BY DEF Alone, IInv, TypeOK
<1>3. /\ pc'[t] = "restart" /\ obj[t] # None
      /\ plan'[t] = IF obj[t].name \in running THEN "restart" ELSE "start"
  BY DEF Has, IInv, TypeOK
<1>4. ThreadInv(t)
  BY DEF IInv
<1>5. PlaceInv(t)' /\ LoopInv(t)'
  BY <1>3 DEF PlaceInv, LoopInv
<1>6. RestartInv(t)'
  BY <1>3 DEF RestartInv
<1>7. ResultInv(t)'
  BY <1>4, HandlesKept DEF ThreadInv, ResultInv
<1> QED
  BY <1>1, <1>2, <1>5, <1>6, <1>7, LocalStep DEF ThreadInv

LEMMA LookSteps ==
    ASSUME IInv, NEW t \in Threads, Status(t) \/ Manage(t) \/ OperationRaises(t)
    PROVE  IInv'
<1>1. UNCHANGED <<host, running, sudo, provider, name, left, plan, obj, missed, calm>>
  BY DEF Status, Manage, OperationRaises
<1>2. \E a \in {"True", "False", "raised"} : Finish(t, a)
  BY DEF Status, Manage, OperationRaises
<1>3. calm' \in [Threads -> BOOLEAN] /\ \A u \in Threads \ {t} : calm'[u] = calm[u]
  BY <1>1 DEF IInv, TypeOK
<1> QED
  BY <1>1, <1>2, <1>3, QuietOperation

LEMMA HostStep ==
    ASSUME IInv, NEW s \in Services, HostChanges(s)
    PROVE  IInv'
<1> USE DEF HostChanges
<1>1. /\ running' \subseteq Services
      /\ \A x \in Services : x # s => (x \in running' <=> x \in running)
  BY DEF IInv, TypeOK
<1>2. calm' \in [Threads -> BOOLEAN]
  BY DisturbsType
<1>3. TypeOK'
  BY <1>1, <1>2 DEF IInv, TypeOK
<1>4. ASSUME NEW u \in Threads PROVE ThreadInv(u)'
  <2>1. u # None
    BY ServiceAssumption DEF ServiceAssumption
  <2> QED
    BY <1>1, <2>1, DisturbsOthers
<1> QED
  BY <1>3, <1>4 DEF IInv

LEMMA NextInv == IInv /\ [Next]_vars => IInv'
<1> SUFFICES ASSUME IInv, [Next]_vars PROVE IInv'
  OBVIOUS
<1>1. CASE SetSudo \/ UNCHANGED vars
  <2>1. TypeOK'
    BY <1>1 DEF SetSudo, vars, IInv, TypeOK
  <2>2. ASSUME NEW u \in Threads PROVE ThreadInv(u)'
    <3>1. ThreadInv(u)
      BY DEF IInv
    <3> QED
      BY <1>1, <3>1, OthersKept DEF SetSudo, vars
  <2> QED
    BY <2>1, <2>2 DEF IInv
<1>2. ASSUME NEW s \in Services, HostChanges(s) PROVE IInv'
  BY <1>2, HostStep
<1>3. ASSUME NEW t \in Threads,
             \/ \E s \in Services : Service(t, s)
             \/ Accept(t) \/ Store(t) \/ Decline(t) \/ ProbeRaises(t)
      PROVE  IInv'
  BY <1>3, ServiceStep, AcceptStep, StoreStep, DeclineStep, RaiseStep
<1>4. ASSUME NEW t \in Threads, NEW what \in {"start", "stop", "restart", "reload"},
             Toggle(t, what)
      PROVE  IInv'
  BY <1>4, ExecuteStep DEF Toggle, Has
<1>5. ASSUME NEW t \in Threads, RestartAct(t) PROVE IInv'
  <2>1. obj[t] # None /\ plan[t] \in {"start", "restart"}
    BY <1>5 DEF RestartAct, IInv, ThreadInv, RestartInv, TypeOK
  <2> QED
    BY <1>5, <2>1, ExecuteStep DEF RestartAct
<1>6. ASSUME NEW t \in Threads, Status(t) \/ Manage(t) \/ RestartLook(t) \/ OperationRaises(t)
      PROVE  IInv'
  BY <1>6, LookSteps, RestartLookStep
<1> QED
  BY <1>1, <1>2, <1>3, <1>4, <1>5, <1>6 DEF Next

(* What each thread knows of its service is true in every state. *)
THEOREM Inductive == Spec => []IInv
<1> QED
  BY InitInv, NextInv, PTL DEF Spec

----------------------------------------------------------------------------
(* The state always has its types (host.py:303-350, service.py). *)
THEOREM TypeCorrect == Spec => []TypeOK
<1>1. IInv => TypeOK
  BY DEF IInv
<1> QED
  BY <1>1, Inductive, PTL

(* The object that service() returns belongs to a provider that can handle the
   service, for any number of threads that change the remembered provider
   (host.py:338-350). *)
THEOREM ObjectsAreHandled == Spec => []ObjectHandled
<1>1. IInv => ObjectHandled
  BY DEF IInv, ThreadInv, ResultInv, ObjectHandled
<1> QED
  BY <1>1, Inductive, PTL

(* service() says that there is no provider only when there is none, or when a
   provider could not be asked (host.py:310-350). *)
THEOREM NotFoundIsTrue == Spec => []NotFoundTruthful
<1>1. IInv => NotFoundTruthful
  BY DEF IInv, ThreadInv, ResultInv, NotFoundTruthful
<1> QED
  BY <1>1, Inductive, PTL

(* A restart of InitCtl that nobody disturbs and whose command does not fail by
   itself works from either state (service.py:289-296). *)
THEOREM RestartsWork == Spec => RestartWorks
<1> DEFINE Works ==
        \A t \in Threads :
          pc[t] = "restart" /\ pc'[t] = "idle" /\ answer'[t] # "raised" /\ calm'[t] =>
             answer'[t] = "True" /\ obj[t].name \in running'
<1>1. IInv /\ [Next]_vars => [Works]_vars
  <2> SUFFICES ASSUME IInv, Next, NEW t \in Threads, pc[t] = "restart", pc'[t] = "idle",
                      answer'[t] # "raised", calm'[t]
               PROVE  answer'[t] = "True" /\ obj[t].name \in running'
    BY DEF vars
  <2>1. /\ obj[t] # None /\ obj[t].name \in Services /\ plan[t] \in {"start", "restart"}
        /\ calm[t] => (plan[t] = "restart" <=> obj[t].name \in running)
    BY DEF IInv, ThreadInv, RestartInv, TypeOK, Objects
  <2>2. RestartAct(t)
    <3>1. ASSUME OperationRaises(t) PROVE FALSE
      BY <3>1 DEF OperationRaises, Finish, IInv, TypeOK
    <3>2. pc' # pc
      OBVIOUS
    <3>3. ~ SetSudo /\ \A s \in Services : ~ HostChanges(s)
      BY <3>2 DEF SetSudo, HostChanges
    <3>4. PICK u \in Threads :
            \/ \E s \in Services : Service(u, s)
            \/ Accept(u) \/ Store(u) \/ Decline(u) \/ ProbeRaises(u)
            \/ \E op \in {"start", "stop", "restart", "reload"} : Toggle(u, op)
            \/ Status(u) \/ Manage(u) \/ RestartLook(u) \/ RestartAct(u) \/ OperationRaises(u)
      BY <3>3 DEF Next
    <3>5. \E x : pc' = [pc EXCEPT ![u] = x]
      BY <3>2, <3>4 DEF Service, Accept, Store, Decline, ProbeRaises, Toggle, Execute, Status,
              Manage, RestartLook, RestartAct, OperationRaises, Finish
    <3>6. u = t
      BY <3>5 DEF IInv, TypeOK
    <3>7. ~ Has(t) /\ ~ Trying(t)
      BY DEF Has, Trying
    <3> QED
      BY <3>1, <3>4, <3>6, <3>7
         DEF Service, Accept, Store, Decline, ProbeRaises, Toggle, Status, Manage, RestartLook
  <2>3. CASE /\ ~ Refuses(t, plan[t]) /\ running' = After(plan[t], obj[t].name)
             /\ Finish(t, "True")
    <3>1. answer'[t] = "True"
      BY <2>3 DEF Finish, IInv, TypeOK
    <3>2. running \subseteq Services
      BY DEF IInv, TypeOK
    <3>3. obj[t].name \in After(plan[t], obj[t].name)
      BY <2>1, <3>2, AfterFacts
    <3> QED
      BY <2>3, <3>1, <3>3
  <2>4. CASE calm' = [calm EXCEPT ![t] = @ /\ Refuses(t, plan[t])]
    <3>1. calm[t] /\ Refuses(t, plan[t])
      BY <2>4 DEF IInv, TypeOK
    <3> QED
      BY <2>1, <3>1 DEF Refuses
  <2> QED
    BY <2>2, <2>3, <2>4 DEF RestartAct, Execute
<1> QED
  BY <1>1, Inductive, PTL DEF Spec, RestartWorks

=============================================================================
