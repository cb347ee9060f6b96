------------------------- MODULE HostExecutorProofs -------------------------
(***************************************************************************)
(* Proofs about HostExecutor for any number of threads, users and command   *)
(* lists.  One thread at a time adds users: with two of them add_user can   *)
(* raise ValueError or leave a duplicate, for nothing locks the list.       *)
(***************************************************************************)
EXTENDS HostExecutor, SequenceTheorems, TLAPS

OneAdder == \A t, u \in Adders : t = u

\* While add_user scans its copy, what is left of the copy holds every user
\* that still has the name of the one to be added.
ScanInv ==
    \A t \in Threads : pc[t] = "scan" =>
        /\ t \in Adders
        /\ adding[t] \in Users
        /\ \A i \in 1 .. Len(users) :
              Name[users[i]] = Name[adding[t]] =>
                 \E j \in 1 .. Len(rest[t]) : rest[t][j] = users[i]

IInv == TypeOK /\ UsersUnique /\ ScanInv

\* users without the element at position k.
Without(k) == SubSeq(users, 1, k - 1) \o SubSeq(users, k + 1, Len(users))

\* Removing an element shifts the later ones (host.py:181).
LEMMA RemovalShape ==
    ASSUME users \in Seq(Users), NEW k \in 1 .. Len(users)
    PROVE  /\ Without(k) \in Seq(Users)
           /\ Len(Without(k)) = Len(users) - 1
           /\ \A i \in 1 .. Len(users) - 1 :
                 Without(k)[i] = IF i < k THEN users[i] ELSE users[i + 1]
<1>1. Len(users) \in Nat /\ \A i \in 1 .. Len(users) : users[i] \in Users
  OBVIOUS
<1> DEFINE a == SubSeq(users, 1, k - 1)
           b == SubSeq(users, k + 1, Len(users))
<1>2. /\ a \in Seq(Users) /\ Len(a) = k - 1
      /\ \A i \in 1 .. k - 1 : a[i] = users[i]
  <2>1. \A i \in 1 .. k - 1 : users[i] \in Users
    BY <1>1
  <2> QED
    BY <1>1, <2>1, SubSeqProperties, Z3
<1>3. /\ b \in Seq(Users) /\ Len(b) = Len(users) - k
      /\ \A i \in 1 .. Len(users) - k : b[i] = users[k + i]
  <2>1. \A i \in k + 1 .. Len(users) : users[i] \in Users
    BY <1>1
  <2> QED
    BY <1>1, <2>1, SubSeqProperties, Z3
<1> HIDE DEF a, b
<1>4. /\ a \o b \in Seq(Users) /\ Len(a \o b) = Len(users) - 1
      /\ \A i \in 1 .. Len(users) - 1 :
            (a \o b)[i] = IF i <= k - 1 THEN a[i] ELSE b[i - (k - 1)]
  BY <1>1, <1>2, <1>3, ConcatProperties
<1>5. \A i \in 1 .. Len(users) - 1 : (a \o b)[i] = IF i < k THEN users[i] ELSE users[i + 1]
  <2> SUFFICES ASSUME NEW i \in 1 .. Len(users) - 1
               PROVE  (a \o b)[i] = IF i < k THEN users[i] ELSE users[i + 1]
    OBVIOUS
  <2>1. CASE i < k
    BY <1>1, <1>2, <1>4, <2>1
  <2>2. CASE ~ (i < k)
    <3>1. i - (k - 1) \in 1 .. Len(users) - k /\ k + (i - (k - 1)) = i + 1
      BY <1>1, <2>2
    <3>2. b[i - (k - 1)] = users[k + (i - (k - 1))]
      BY <1>3, <3>1
    <3> QED
      BY <1>1, <1>4, <2>2, <3>1, <3>2
  <2> QED
    BY <2>1, <2>2
<1> QED
  BY <1>4, <1>5 DEF Without, a, b

\* With unique names, list.remove removes the only user of that name.
LEMMA RemoveOnly ==
    ASSUME users \in Seq(Users), UsersUnique, NEW t \in Threads, NEW x, Remove(t, x)
    PROVE  \/ users' = users /\ \A i \in 1 .. Len(users) : users[i] # x
           \/ \E k \in 1 .. Len(users) :
                 /\ users[k] = x /\ users' = Without(k)
                 /\ UNCHANGED <<error, pc>>
<1> DEFINE S == {i \in 1 .. Len(users) : users[i] = x}
<1>1. CASE S = {}
  BY <1>1 DEF Remove
<1>2. CASE S # {}
  <2>1. \A i, j \in S : i = j
    BY DEF UsersUnique
  <2>2. PICK k \in S : TRUE
    BY <1>2
  <2>3. Least(S) = k
    <3>1. \E i \in S : \A j \in S : i <= j
      BY <2>1, <2>2
    <3> QED
      BY <2>1, <2>2, <3>1 DEF Least
  <2>4. users' = Without(k) /\ UNCHANGED <<error, pc>>
    BY <1>2, <2>3 DEF Remove, Without
  <2> QED
    BY <2>2, <2>4
<1> QED
  BY <1>1, <1>2

LEMMA InitHolds == Init => IInv
<1> SUFFICES ASSUME Init PROVE IInv
  OBVIOUS
<1>1. TypeOK
  <2>1. users \in Seq(Users)
    <3>1. <<>> \in Seq(Users) /\ \A u \in Users : <<u>> \in Seq(Users)
      OBVIOUS
    <3> QED
      BY <3>1 DEF Init
  <2>2. rest \in [Threads -> Seq(Users)]
    BY DEF Init
  <2>3. /\ words \in [Lists -> 0 .. MaxWords]
        /\ ran \in [Threads -> [sudos : 0 .. MaxWords, asked : BOOLEAN]]
    BY UsersAssumption DEF Init, UsersAssumption, NotRun
  <2>4. /\ asked \in [Threads -> Requests]
        /\ exec \in [Threads -> [user : Users \cup {None}, copied : BOOLEAN, pkey : BOOLEAN,
                                 sudo : BOOLEAN, asked : BOOLEAN]]
    BY DEF Init, Requests, NoRequest, NoExec
  <2>5. pos \in [Threads -> Nat \ {0}]
    <3>1. 1 \in Nat \ {0}
      OBVIOUS
    <3> QED
      BY <3>1 DEF Init
  <2> QED
    BY <2>1, <2>2, <2>3, <2>4, <2>5 DEF Init, TypeOK
<1>2. UsersUnique
  BY DEF Init, UsersUnique
<1>3. ScanInv
  BY DEF Init, ScanInv
<1> QED
  BY <1>1, <1>2, <1>3 DEF IInv

\* add_user begins: the copy holds every user.
LEMMA AddUserKeeps ==
    ASSUME IInv, NEW t \in Threads, NEW u \in Users, AddUser(t, u)
    PROVE  IInv'
<1>1. TypeOK'
  BY DEF IInv, TypeOK, AddUser
<1>2. UsersUnique'
  BY DEF IInv, UsersUnique, AddUser
<1>3. ScanInv'
  <2> SUFFICES ASSUME NEW w \in Threads, pc'[w] = "scan"
               PROVE  /\ w \in Adders /\ adding'[w] \in Users
                      /\ \A i \in 1 .. Len(users') :
                            Name[users'[i]] = Name[adding'[w]] =>
                               \E j \in 1 .. Len(rest'[w]) : rest'[w][j] = users'[i]
    BY DEF ScanInv
  <2>1. CASE w = t
    <3>1. users' = users /\ rest'[w] = users /\ adding'[w] = u /\ t \in Adders
      BY <2>1 DEF AddUser, IInv, TypeOK
    <3> QED
      BY <2>1, <3>1
  <2>2. CASE w # t
    <3>1. users' = users /\ rest'[w] = rest[w] /\ adding'[w] = adding[w] /\ pc[w] = "scan"
      BY <2>2 DEF AddUser, IInv, TypeOK
    <3> QED
      BY <3>1 DEF IInv, ScanInv
  <2> QED
    BY <2>1, <2>2
<1> QED
  BY <1>1, <1>2, <1>3 DEF IInv

\* One user of the copy: if it has the name it was the only one.
LEMMA ScanKeeps ==
    ASSUME OneAdder, IInv, NEW t \in Threads, Scan(t)
    PROVE  IInv'
<1> DEFINE x == Head(rest[t])
           old == rest[t]
<1>1. /\ users \in Seq(Users) /\ old \in Seq(Users) /\ old # <<>> /\ pc[t] = "scan"
      /\ t \in Adders /\ adding[t] \in Users
  BY DEF IInv, TypeOK, ScanInv, Scan
<1>2. /\ Head(old) = old[1] /\ x \in Users
      /\ Tail(old) \in Seq(Users) /\ Len(Tail(old)) = Len(old) - 1
      /\ \A j \in 1 .. Len(old) - 1 : Tail(old)[j] = old[j + 1]
  BY <1>1, HeadTailProperties
<1>3. rest' = [rest EXCEPT ![t] = Tail(old)] /\ rest'[t] = Tail(old)
  BY DEF Scan, IInv, TypeOK
<1>4. \A i \in 1 .. Len(users) :
         Name[users[i]] = Name[adding[t]] /\ users[i] # x =>
            \E j \in 1 .. Len(Tail(old)) : Tail(old)[j] = users[i]
  <2> SUFFICES ASSUME NEW i \in 1 .. Len(users),
                      Name[users[i]] = Name[adding[t]], users[i] # x
               PROVE  \E j \in 1 .. Len(Tail(old)) : Tail(old)[j] = users[i]
    OBVIOUS
  <2>1. PICK j \in 1 .. Len(old) : old[j] = users[i]
    BY <1>1 DEF IInv, ScanInv
  <2>2. j # 1
    BY <1>2, <2>1
  <2>3. j - 1 \in 1 .. Len(Tail(old)) /\ (j - 1) + 1 = j
    BY <1>1, <1>2, <2>2
  <2>4. Tail(old)[j - 1] = old[j]
    BY <1>2, <2>3
  <2> QED
    BY <2>1, <2>3, <2>4
<1>r. rest' \in [Threads -> Seq(Users)]
  BY <1>2, <1>3 DEF IInv, TypeOK
<1>u. UNCHANGED <<executorUser, hostSudo, password, words, given, adding, pos, asked, exec, ran>>
  BY DEF Scan
<1>5. \A w \in Threads : w # t => pc[w] # "scan"
  BY <1>1 DEF OneAdder, IInv, ScanInv
<1>6. CASE UNCHANGED <<users, error, pc>> /\ Name[x] # Name[adding[t]]
  <2>1. TypeOK'
    BY <1>6, <1>r, <1>u DEF IInv, TypeOK
  <2>2. UsersUnique'
    BY <1>6 DEF IInv, UsersUnique
  <2>3. ScanInv'
    <3> SUFFICES ASSUME NEW w \in Threads, pc[w] = "scan" PROVE ScanInv!(w)!2'
      BY <1>6 DEF ScanInv
    <3>1. w = t
      BY <1>5
    <3>2. /\ t \in Adders /\ adding'[t] = adding[t] /\ users' = users
          /\ rest'[t] = Tail(old)
      BY <1>1, <1>3, <1>6, <1>u
    <3>3. \A i \in 1 .. Len(users) :
             Name[users[i]] = Name[adding[t]] =>
                \E j \in 1 .. Len(Tail(old)) : Tail(old)[j] = users[i]
      BY <1>4, <1>6
    <3> QED
      BY <1>1, <3>1, <3>2, <3>3
  <2> QED
    BY <2>1, <2>2, <2>3 DEF IInv
<1>7. CASE Remove(t, x) /\ Name[x] = Name[adding[t]]
  <2>1. CASE users' = users /\ \A i \in 1 .. Len(users) : users[i] # x
    <3>1. TypeOK'
      <4>1. /\ error' = [error EXCEPT ![t] = "ValueError"]
            /\ pc' = [pc EXCEPT ![t] = "idle"]
        BY <1>7, <2>1 DEF Remove
      <4> QED
        BY <1>r, <1>u, <2>1, <4>1 DEF IInv, TypeOK
    <3>2. UsersUnique'
      BY <2>1 DEF IInv, UsersUnique
    <3>3. \A w \in Threads : pc'[w] # "scan"
      BY <1>1, <1>5, <1>7, <2>1 DEF Remove, IInv, TypeOK
    <3> QED
      BY <3>1, <3>2, <3>3 DEF IInv, ScanInv
  <2>2. CASE \E k \in 1 .. Len(users) :
               users[k] = x /\ users' = Without(k) /\ UNCHANGED <<error, pc>>
    <3>1. PICK k \in 1 .. Len(users) :
               users[k] = x /\ users' = Without(k) /\ UNCHANGED <<error, pc>>
      BY <2>2
    <3>2. /\ users' \in Seq(Users) /\ Len(users') = Len(users) - 1 /\ Len(users) \in Nat
          /\ \A i \in 1 .. Len(users) - 1 :
                users'[i] = IF i < k THEN users[i] ELSE users[i + 1]
      <4>1. /\ Without(k) \in Seq(Users) /\ Len(Without(k)) = Len(users) - 1
            /\ \A i \in 1 .. Len(users) - 1 :
                  Without(k)[i] = IF i < k THEN users[i] ELSE users[i + 1]
        BY <1>1, RemovalShape
      <4>2. Len(users) \in Nat
        BY <1>1
      <4> QED
        BY <3>1, <4>1, <4>2
    <3>3. TypeOK'
      <4> QED
        BY <1>2, <1>3, <1>u, <3>1, <3>2 DEF IInv, TypeOK
    <3> DEFINE at(i) == IF i < k THEN i ELSE i + 1
    <3>4. \A i \in 1 .. Len(users') :
             at(i) \in 1 .. Len(users) /\ at(i) # k /\ users'[i] = users[at(i)]
      BY <3>2
    <3>5. \A i, j \in 1 .. Len(users') : at(i) = at(j) => i = j
      BY <3>2
    <3> HIDE DEF at
    <3>6. UsersUnique'
      BY <3>4, <3>5 DEF IInv, UsersUnique
    <3>7. \A i \in 1 .. Len(users') : Name[users'[i]] # Name[adding[t]]
      BY <1>7, <3>1, <3>4 DEF IInv, UsersUnique
    <3>8. ScanInv'
      BY <1>1, <1>5, <3>1, <3>7 DEF ScanInv, Scan
    <3> QED
      BY <3>3, <3>6, <3>8 DEF IInv
  <2> QED
    BY <1>1, <1>7, <2>1, <2>2, RemoveOnly DEF IInv
<1> QED
  BY <1>6, <1>7 DEF Scan

\* The copy is used up: nobody has the name, and the user is appended.
LEMMA AppendKeeps ==
    ASSUME OneAdder, IInv, NEW t \in Threads, AppendUser(t)
    PROVE  IInv'
<1>1. /\ users \in Seq(Users) /\ rest[t] = <<>> /\ pc[t] = "scan"
      /\ t \in Adders /\ adding[t] \in Users
  BY DEF IInv, TypeOK, ScanInv, AppendUser
<1>2. \A i \in 1 .. Len(users) : Name[users[i]] # Name[adding[t]]
  BY <1>1 DEF IInv, ScanInv
<1>3. /\ users' \in Seq(Users) /\ Len(users) \in Nat /\ Len(users') = Len(users) + 1
      /\ \A i \in 1 .. Len(users) : users'[i] = users[i]
      /\ users'[Len(users) + 1] = adding[t]
  BY <1>1, AppendProperties DEF AppendUser
<1>4. TypeOK'
  BY <1>3 DEF IInv, TypeOK, AppendUser
<1>5. UsersUnique'
  <2> SUFFICES ASSUME NEW i \in 1 .. Len(users) + 1, NEW j \in 1 .. Len(users) + 1,
                      Name[users'[i]] = Name[users'[j]]
               PROVE  i = j
    BY <1>3 DEF UsersUnique
  <2>1. CASE i \in 1 .. Len(users) /\ j \in 1 .. Len(users)
    BY <1>3, <2>1 DEF IInv, UsersUnique
  <2>2. CASE i = Len(users) + 1 \/ j = Len(users) + 1
    BY <1>2, <1>3, <2>2
  <2> QED
    BY <1>3, <2>1, <2>2
<1>6. \A w \in Threads : pc'[w] # "scan"
  BY <1>1 DEF OneAdder, IInv, ScanInv, AppendUser, TypeOK
<1> QED
  BY <1>4, <1>5, <1>6 DEF IInv, ScanInv

\* A step of executor() or of an executor.
ExecutorStep(t) ==
    \/ \E u \in Explicit, pkey, sudo \in BOOLEAN : Ask(t, u, pkey, sudo)
    \/ Build(t) \/ Look(t) \/ NoUser(t)
    \/ (\E l \in Lists : Run(t, l)) \/ RunFails(t)

\* Making and using an executor leaves the list, and who scans it, alone.
LEMMA ExecutorFrame ==
    ASSUME TypeOK, NEW t \in Threads, ExecutorStep(t)
    PROVE  /\ UNCHANGED <<users, adding, rest>>
           /\ \A w \in Threads : pc'[w] = "scan" <=> pc[w] = "scan"
           /\ \/ error' = error
              \/ \E e \in {"none", "no user"} : error' = [error EXCEPT ![t] = e]
<1> DEFINE Frame ==
      /\ UNCHANGED <<users, adding, rest>>
      /\ \A w \in Threads : pc'[w] = "scan" <=> pc[w] = "scan"
      /\ \/ error' = error
         \/ \E e \in {"none", "no user"} : error' = [error EXCEPT ![t] = e]
<1> SUFFICES Frame
  OBVIOUS
<1> USE DEF TypeOK
<1>1. ASSUME NEW u \in Explicit, NEW pkey \in BOOLEAN, NEW sudo \in BOOLEAN,
             Ask(t, u, pkey, sudo)
      PROVE  Frame
  BY <1>1 DEF Ask
<1>2. CASE Build(t) \/ Look(t) \/ NoUser(t)
  BY <1>2 DEF Build, Look, NoUser, Make, Return
<1>3. CASE (\E l \in Lists : Run(t, l)) \/ RunFails(t)
  BY <1>3 DEF Run, RunFails
<1> QED
  BY <1>1, <1>2, <1>3 DEF ExecutorStep

Execs == [user : Users \cup {None}, copied : BOOLEAN, pkey : BOOLEAN,
          sudo : BOOLEAN, asked : BOOLEAN]

\* A position is a positive number.
LEMMA PosTypes ==
    ASSUME TypeOK, NEW t \in Threads,
           \/ pos' = [pos EXCEPT ![t] = 1]
           \/ pos' = [pos EXCEPT ![t] = pos[t] + 1]
    PROVE  pos' \in [Threads -> Nat \ {0}]
<1>1. pos \in [Threads -> Nat \ {0}]
  BY DEF TypeOK
<1>2. 1 \in Nat \ {0} /\ pos[t] + 1 \in Nat \ {0}
  BY <1>1
<1> QED
  BY <1>1, <1>2

\* The end of executor() keeps the types, given an executor or an exception.
LEMMA ReturnTypes ==
    ASSUME TypeOK, NEW t \in Threads, Return(t), exec' \in [Threads -> Execs],
           error' \in [Threads -> {"none", "ValueError", "no user"}]
    PROVE  TypeOK'
<1>1. NoRequest \in Requests
  BY DEF NoRequest, Requests
<1>2. /\ asked' \in [Threads -> Requests]
      /\ pc' \in [Threads -> {"idle", "scan", "build", "look"}]
  BY <1>1 DEF Return, TypeOK
<1>3. pos' \in [Threads -> Nat \ {0}]
  BY PosTypes DEF Return
<1> QED
  BY <1>2, <1>3 DEF Return, TypeOK, Execs

\* The executor made for a user of the host, or for one the caller passed.
LEMMA MakeTypes ==
    ASSUME TypeOK, NEW t \in Threads, NEW u \in Users, NEW copied \in BOOLEAN,
           Make(t, u, copied)
    PROVE  TypeOK'
<1> DEFINE e == [user |-> u, copied |-> copied, pkey |-> asked[t].pkey,
                 sudo |-> hostSudo, asked |-> asked[t].sudo]
<1>1. asked[t] \in Requests /\ hostSudo \in BOOLEAN
  BY DEF TypeOK
<1>2. e \in Execs
  BY <1>1 DEF Requests, Execs
<1>3. exec' = [exec EXCEPT ![t] = e] /\ error' = error
  BY DEF Make
<1> HIDE DEF e
<1>4. exec' \in [Threads -> Execs]
  BY <1>2, <1>3 DEF TypeOK, Execs
<1>5. error' \in [Threads -> {"none", "ValueError", "no user"}]
  BY <1>3 DEF TypeOK
<1> QED
  BY <1>4, <1>5, ReturnTypes DEF Make

LEMMA ExecutorTypes ==
    ASSUME TypeOK, NEW t \in Threads, ExecutorStep(t)
    PROVE  TypeOK'
<1>1. ASSUME NEW u \in Explicit, NEW pkey \in BOOLEAN, NEW sudo \in BOOLEAN,
             Ask(t, u, pkey, sudo)
      PROVE  TypeOK'
  <2>1. [user |-> u, pkey |-> pkey, sudo |-> sudo] \in Requests
    BY UsersAssumption DEF UsersAssumption, Requests
  <2>2. asked' \in [Threads -> Requests]
    BY <1>1, <2>1 DEF TypeOK, Ask
  <2>3. given' \subseteq Users
    BY <1>1, UsersAssumption DEF UsersAssumption, Ask, TypeOK
  <2>4. exec' \in [Threads -> Execs]
    <3>1. NoExec \in Execs
      BY DEF NoExec, Execs
    <3> QED
      BY <1>1, <3>1 DEF Ask, TypeOK, Execs
  <2>5. ran' \in [Threads -> [sudos : 0 .. MaxWords, asked : BOOLEAN]]
    <3>1. NotRun \in [sudos : 0 .. MaxWords, asked : BOOLEAN]
      BY UsersAssumption DEF UsersAssumption, NotRun
    <3> QED
      BY <1>1, <3>1 DEF Ask, TypeOK
  <2>6. /\ hostSudo' \in BOOLEAN
        /\ pc' \in [Threads -> {"idle", "scan", "build", "look"}]
        /\ error' \in [Threads -> {"none", "ValueError", "no user"}]
    BY <1>1 DEF Ask, TypeOK
  <2>7. UNCHANGED <<users, executorUser, password, words, adding, rest, pos>>
    BY <1>1 DEF Ask
  <2> QED
    BY <2>2, <2>3, <2>4, <2>5, <2>6, <2>7 DEF TypeOK, Execs
<1>2. CASE Build(t)
  <2>1. /\ asked[t].user \in Users \cup {None}
        /\ executorUser \in Users \cup {None}
    BY DEF TypeOK, Requests
  <2>2. CASE asked[t].user # None /\ Make(t, asked[t].user, FALSE)
    BY <2>1, <2>2, MakeTypes
  <2>3. CASE executorUser # None /\ Make(t, executorUser, TRUE)
    BY <2>1, <2>3, MakeTypes
  <2>4. CASE /\ pc' = [pc EXCEPT ![t] = "look"]
             /\ pos' = [pos EXCEPT ![t] = 1]
             /\ UNCHANGED <<users, executorUser, hostSudo, password, words, given, adding,
                            rest, asked, exec, ran, error>>
    <3>1. pos' \in [Threads -> Nat \ {0}]
      BY <2>4, PosTypes
    <3>2. pc' \in [Threads -> {"idle", "scan", "build", "look"}]
      BY <2>4 DEF TypeOK
    <3> QED
      BY <2>4, <3>1, <3>2 DEF TypeOK
  <2> QED
    BY <1>2, <2>2, <2>3, <2>4 DEF Build
<1>3. CASE Look(t)
  <2>1. CASE Make(t, users[pos[t]], TRUE)
    <3>1. users \in Seq(Users) /\ pos[t] \in Nat \ {0} /\ pos[t] <= Len(users)
      BY <1>3 DEF Look, TypeOK
    <3>2. pos[t] \in 1 .. Len(users)
      BY <3>1
    <3>3. users[pos[t]] \in Users
      BY <3>1, <3>2
    <3> QED
      BY <2>1, <3>3, MakeTypes
  <2>2. CASE /\ pos' = [pos EXCEPT ![t] = @ + 1]
             /\ UNCHANGED <<users, executorUser, hostSudo, password, words, given, pc,
                            adding, rest, asked, exec, ran, error>>
    <3>1. pos' \in [Threads -> Nat \ {0}]
      BY <2>2, PosTypes
    <3> QED
      BY <2>2, <3>1 DEF TypeOK
  <2> QED
    BY <1>3, <2>1, <2>2 DEF Look
<1>4. CASE NoUser(t)
  <2>1. /\ exec' \in [Threads -> Execs]
        /\ error' \in [Threads -> {"none", "ValueError", "no user"}]
    BY <1>4 DEF NoUser, TypeOK, Execs
  <2> QED
    BY <1>4, <2>1, ReturnTypes DEF NoUser
<1>5. ASSUME NEW l \in Lists, Run(t, l) PROVE TypeOK'
  <2>1. password' \subseteq Users
    BY <1>5 DEF Run, OpenSession, TypeOK
  <2>2. exec[t].sudo \in BOOLEAN /\ exec[t].asked \in BOOLEAN
    BY DEF TypeOK
  <2>3. words' \in [Lists -> 0 .. MaxWords] /\ words'[l] \in 0 .. MaxWords
    <3>1. words[l] \in 0 .. MaxWords /\ MaxWords \in Nat
      BY UsersAssumption DEF UsersAssumption, TypeOK
    <3>2. (IF exec[t].sudo THEN words[l] + 1 ELSE words[l]) \in 0 .. MaxWords
      BY <1>5, <3>1 DEF Run
    <3> QED
      BY <1>5, <3>2 DEF Run, TypeOK
  <2>4. ran' \in [Threads -> [sudos : 0 .. MaxWords, asked : BOOLEAN]]
    BY <1>5, <2>2, <2>3 DEF Run, TypeOK
  <2> QED
    BY <1>5, <2>1, <2>3, <2>4 DEF Run, TypeOK
<1>6. CASE RunFails(t)
  BY <1>6 DEF RunFails, OpenSession, TypeOK
<1> QED
  BY <1>1, <1>2, <1>3, <1>4, <1>5, <1>6 DEF ExecutorStep

\* Making and using an executor keeps what is true of the list.
LEMMA ExecutorKeeps ==
    ASSUME IInv, NEW t \in Threads, ExecutorStep(t)
    PROVE  IInv'
<1>1. /\ UNCHANGED <<users, adding, rest>>
      /\ \A w \in Threads : pc'[w] = "scan" <=> pc[w] = "scan"
  BY ExecutorFrame DEF IInv
<1>2. UsersUnique'
  BY <1>1 DEF IInv, UsersUnique
<1>3. ScanInv'
  BY <1>1 DEF IInv, ScanInv
<1>4. TypeOK'
  BY ExecutorTypes DEF IInv
<1> QED
  BY <1>2, <1>3, <1>4 DEF IInv

LEMMA StepHolds == OneAdder /\ IInv /\ [Next]_vars => IInv'
<1> SUFFICES ASSUME OneAdder, IInv, [Next]_vars PROVE IInv'
  OBVIOUS
<1>1. ASSUME NEW t \in Threads, NEW u \in Users, AddUser(t, u) PROVE IInv'
  BY <1>1, AddUserKeeps
<1>2. ASSUME NEW t \in Threads, Scan(t) \/ AppendUser(t) PROVE IInv'
  BY <1>2, ScanKeeps, AppendKeeps
<1>3. ASSUME NEW t \in Threads, ExecutorStep(t) PROVE IInv'
  BY <1>3, ExecutorKeeps
<1>4. CASE UNCHANGED vars
  <2>1. TypeOK'
    BY <1>4 DEF vars, IInv, TypeOK
  <2>2. UsersUnique'
    BY <1>4 DEF vars, IInv, UsersUnique
  <2>3. ScanInv'
    BY <1>4 DEF vars, IInv, ScanInv
  <2> QED
    BY <2>1, <2>2, <2>3 DEF IInv
<1> QED
  BY <1>1, <1>2, <1>3, <1>4 DEF Next, ExecutorStep

(* With one thread that adds users: types, unique names, and the copy that
   add_user scans (host.py:179-182). *)
THEOREM Inductive ==
    ASSUME OneAdder
    PROVE  Spec => []IInv
<1>1. IInv /\ [Next]_vars => IInv'
  BY StepHolds
<1> QED
  BY InitHolds, <1>1, PTL DEF Spec

(* The variables keep their types: the default user is a user of the host, and
   list.remove never meets a value that is not one (host.py:164-249). *)
THEOREM TypeCorrect ==
    ASSUME OneAdder
    PROVE  Spec => []TypeOK
<1>1. IInv => TypeOK
  BY DEF IInv
<1> QED
  BY <1>1, Inductive, PTL

(* add_user leaves no two users with one name, for any number of users and of
   threads that use executors meanwhile (host.py:172-182). *)
THEOREM NamesUnique ==
    ASSUME OneAdder
    PROVE  Spec => []UsersUnique
<1>1. IInv => UsersUnique
  BY DEF IInv
<1> QED
  BY <1>1, Inductive, PTL

----------------------------------------------------------------------------
(* Names: what is taken off the list is on its way back.                    *)

\* The copy holds users that are still on the list, each name once.
CopyInv ==
    \A t \in Threads : pc[t] = "scan" =>
        /\ \A j \in 1 .. Len(rest[t]) : \E i \in 1 .. Len(users) : users[i] = rest[t][j]
        /\ \A j, k \in 1 .. Len(rest[t]) : Name[rest[t][j]] = Name[rest[t][k]] => j = k

(* One thread adds users, so list.remove in add_user never meets a user that is
   gone (host.py:181). *)
RemovalsSucceed == \A t \in Threads : error[t] # "ValueError"

\* What list.remove does when the user is on the list.
LEMMA ScanRemoves ==
    ASSUME IInv, CopyInv, NEW t \in Threads, Scan(t), Name[Head(rest[t])] = Name[adding[t]]
    PROVE  \E k \in 1 .. Len(users) :
              /\ users[k] = Head(rest[t])
              /\ Len(users') = Len(users) - 1
              /\ \A i \in 1 .. Len(users) - 1 :
                    users'[i] = IF i < k THEN users[i] ELSE users[i + 1]
              /\ UNCHANGED <<error, pc>>
<1>1. users \in Seq(Users) /\ rest[t] \in Seq(Users) /\ rest[t] # <<>> /\ pc[t] = "scan"
  BY DEF IInv, TypeOK, Scan
<1>2. Head(rest[t]) = rest[t][1] /\ 1 \in 1 .. Len(rest[t])
  BY <1>1
<1>c. \A j \in 1 .. Len(rest[t]) : \E i \in 1 .. Len(users) : users[i] = rest[t][j]
  BY <1>1 DEF CopyInv
<1>3. \E i \in 1 .. Len(users) : users[i] = Head(rest[t])
  BY <1>2, <1>c
<1>4. Remove(t, Head(rest[t]))
  BY DEF Scan
<1>5. UsersUnique
  BY DEF IInv
<1>6. PICK k \in 1 .. Len(users) :
         users[k] = Head(rest[t]) /\ users' = Without(k) /\ UNCHANGED <<error, pc>>
  BY <1>1, <1>3, <1>4, <1>5, RemoveOnly
<1>7. /\ Len(Without(k)) = Len(users) - 1
      /\ \A i \in 1 .. Len(users) - 1 :
            Without(k)[i] = IF i < k THEN users[i] ELSE users[i + 1]
  BY <1>1, RemovalShape
<1> QED
  BY <1>6, <1>7

LEMMA CopyKept == OneAdder /\ IInv /\ CopyInv /\ [Next]_vars => CopyInv'
<1> SUFFICES ASSUME OneAdder, IInv, CopyInv, [Next]_vars PROVE CopyInv'
  OBVIOUS
<1>a. ASSUME UNCHANGED <<users, rest>>, \A w \in Threads : pc'[w] = "scan" => pc[w] = "scan"
      PROVE  CopyInv'
  BY <1>a DEF CopyInv
<1>1. ASSUME NEW t \in Threads, NEW u \in Users, AddUser(t, u) PROVE CopyInv'
  <2>1. users' = users /\ rest'[t] = users
    BY <1>1 DEF AddUser, IInv, TypeOK
  <2>2. \A w \in Threads : w # t => rest'[w] = rest[w] /\ pc'[w] = pc[w]
    BY <1>1 DEF AddUser, IInv, TypeOK
  <2> QED
    BY <2>1, <2>2 DEF CopyInv, IInv, UsersUnique
<1>2. ASSUME NEW t \in Threads, Scan(t) PROVE CopyInv'
  <2> DEFINE old == rest[t]
  <2>1. /\ users \in Seq(Users) /\ old \in Seq(Users) /\ old # <<>> /\ pc[t] = "scan"
        /\ t \in Adders
    BY <1>2 DEF IInv, TypeOK, ScanInv, Scan
  <2>2. /\ Head(old) = old[1] /\ Len(old) \in Nat /\ Len(Tail(old)) = Len(old) - 1
        /\ \A j \in 1 .. Len(old) - 1 : Tail(old)[j] = old[j + 1]
    BY <2>1, HeadTailProperties
  <2>c. /\ \A j \in 1 .. Len(old) : \E i \in 1 .. Len(users) : users[i] = old[j]
        /\ \A j, k \in 1 .. Len(old) : Name[old[j]] = Name[old[k]] => j = k
    BY <2>1 DEF CopyInv
  <2>3. rest'[t] = Tail(old)
    BY <1>2 DEF Scan, IInv, TypeOK
  <2>4. \A w \in Threads : w # t => pc[w] # "scan"
    BY <2>1 DEF OneAdder, IInv, ScanInv
  <2>5. \A j \in 1 .. Len(rest'[t]) :
           j + 1 \in 1 .. Len(old) /\ rest'[t][j] = old[j + 1] /\ j + 1 # 1
    BY <2>2, <2>3
  <2> HIDE DEF old
  <2>6. \A j, k \in 1 .. Len(rest'[t]) : Name[rest'[t][j]] = Name[rest'[t][k]] => j = k
    <3> SUFFICES ASSUME NEW j \in 1 .. Len(rest'[t]), NEW k \in 1 .. Len(rest'[t]),
                        Name[rest'[t][j]] = Name[rest'[t][k]]
                 PROVE  j = k
      OBVIOUS
    <3>0. /\ j + 1 \in 1 .. Len(old) /\ k + 1 \in 1 .. Len(old)
          /\ rest'[t][j] = old[j + 1] /\ rest'[t][k] = old[k + 1]
      BY <2>5
    <3>1. j + 1 = k + 1
      BY <2>c, <3>0
    <3> QED
      BY <2>2, <2>3, <3>1
  <2>7. CASE UNCHANGED <<users, error, pc>>
    <3>1. ASSUME NEW j \in 1 .. Len(rest'[t])
          PROVE  \E i \in 1 .. Len(users) : users[i] = rest'[t][j]
      <4>1. j + 1 \in 1 .. Len(old) /\ rest'[t][j] = old[j + 1]
        BY <2>5
      <4> QED
        BY <2>c, <4>1
    <3>2. \A w \in Threads : pc'[w] = "scan" => w = t
      BY <2>4, <2>7
    <3> QED
      BY <2>6, <2>7, <3>1, <3>2 DEF CopyInv
  <2>8. CASE Name[Head(rest[t])] = Name[adding[t]]
    <3>1. PICK k \in 1 .. Len(users) :
             /\ users[k] = Head(old)
             /\ Len(users') = Len(users) - 1
             /\ \A i \in 1 .. Len(users) - 1 :
                   users'[i] = IF i < k THEN users[i] ELSE users[i + 1]
             /\ UNCHANGED <<error, pc>>
      BY <1>2, <2>8, ScanRemoves DEF old
    <3>2. Len(users) \in Nat
      BY <2>1
    <3>3. ASSUME NEW j \in 1 .. Len(rest'[t])
          PROVE  \E i \in 1 .. Len(users') : users'[i] = rest'[t][j]
      <4>1. PICK i \in 1 .. Len(users) : users[i] = rest'[t][j]
        BY <2>5, <2>c
      <4>2. Name[rest'[t][j]] # Name[old[1]]
        <5>1. 1 \in 1 .. Len(old)
          BY <2>1, <2>2
        <5> QED
          BY <2>5, <2>c, <5>1
      <4>3. i # k
        BY <2>2, <3>1, <4>1, <4>2
      <4>4. CASE i < k
        BY <3>1, <3>2, <4>1, <4>4
      <4>5. CASE i > k
        <5>1. i - 1 \in 1 .. Len(users) - 1 /\ ~ (i - 1 < k) /\ (i - 1) + 1 = i
          BY <3>2, <4>5
        <5>2. users'[i - 1] = users[i]
          BY <3>1, <5>1
        <5> QED
          BY <3>1, <4>1, <5>1, <5>2
      <4> QED
        BY <4>3, <4>4, <4>5
    <3>4. \A w \in Threads : pc'[w] = "scan" => w = t
      BY <2>4, <3>1
    <3> QED
      BY <2>6, <3>3, <3>4 DEF CopyInv
  <2> QED
    BY <1>2, <2>7, <2>8 DEF Scan
<1>3. ASSUME NEW t \in Threads, AppendUser(t) PROVE CopyInv'
  <2>1. pc[t] = "scan" /\ pc'[t] = "idle" /\ \A w \in Threads : w # t => pc'[w] = pc[w]
    BY <1>3 DEF AppendUser, IInv, TypeOK
  <2>2. \A w \in Threads : pc'[w] # "scan"
    BY <2>1 DEF OneAdder, IInv, ScanInv
  <2> QED
    BY <2>2 DEF CopyInv
<1>4. ASSUME NEW t \in Threads, ExecutorStep(t) PROVE CopyInv'
  BY <1>4, <1>a, ExecutorFrame DEF IInv
<1>5. CASE UNCHANGED vars
  BY <1>a, <1>5 DEF vars
<1> QED
  BY <1>1, <1>2, <1>3, <1>4, <1>5 DEF Next, ExecutorStep

LEMMA RemovalStep ==
    ASSUME IInv, CopyInv, RemovalsSucceed, [Next]_vars
    PROVE  RemovalsSucceed'
<1> USE DEF RemovalsSucceed
<1>1. ASSUME NEW t \in Threads, Scan(t) PROVE error' = error
  BY <1>1, ScanRemoves DEF Scan
<1>2. ASSUME NEW t \in Threads, NEW u \in Users, AddUser(t, u) PROVE RemovalsSucceed'
  BY <1>2 DEF AddUser, IInv, TypeOK
<1>3. ASSUME NEW t \in Threads, ExecutorStep(t) PROVE RemovalsSucceed'
  BY <1>3, ExecutorFrame DEF IInv, TypeOK
<1>4. ASSUME NEW t \in Threads, AppendUser(t) PROVE error' = error
  BY <1>4 DEF AppendUser
<1> QED
  BY <1>1, <1>2, <1>3, <1>4 DEF Next, ExecutorStep, vars

LEMMA CopyInvHolds ==
    ASSUME OneAdder
    PROVE  Spec => [](IInv /\ CopyInv)
<1>1. Init => CopyInv
  BY DEF Init, CopyInv
<1>2. IInv /\ CopyInv /\ [Next]_vars => CopyInv'
  BY CopyKept
<1> QED
  BY <1>1, <1>2, Inductive, PTL DEF Spec

(* With one thread that adds users, add_user never ends in a ValueError, however
   many users have the name (host.py:179-182). *)
THEOREM AddUserSucceeds ==
    ASSUME OneAdder
    PROVE  Spec => []RemovalsSucceed
<1>1. Init => RemovalsSucceed
  BY DEF Init, RemovalsSucceed
<1>2. IInv /\ CopyInv /\ RemovalsSucceed /\ [Next]_vars => RemovalsSucceed'
  BY RemovalStep
<1> QED
  BY <1>1, <1>2, CopyInvHolds, PTL DEF Spec

\* The user taken off the list is replaced.
LEMMA NameStep ==
    ASSUME OneAdder, IInv, CopyInv, [Next]_vars, NEW n, OnItsWay(n)
    PROVE  OnItsWay(n)'
<1>0. users \in Seq(Users) /\ Adders \subseteq Threads
  BY UsersAssumption DEF UsersAssumption, IInv, TypeOK
<1>a. ASSUME users' = users, adding' = adding,
             \A w \in Adders : pc[w] = "scan" => pc'[w] = "scan"
      PROVE  OnItsWay(n)'
  BY <1>a DEF OnItsWay, Positions
<1>1. ASSUME NEW t \in Threads, NEW u \in Users, AddUser(t, u) PROVE OnItsWay(n)'
  <2>1. pc[t] = "idle" /\ t \in Adders /\ users' = users
    BY <1>1 DEF AddUser
  <2>2. \A w \in Adders : pc[w] # "scan"
    BY <2>1 DEF OneAdder
  <2> QED
    BY <2>1, <2>2 DEF OnItsWay, Positions
<1>2. ASSUME NEW t \in Threads, Scan(t) PROVE OnItsWay(n)'
  <2>1. pc[t] = "scan" /\ t \in Adders /\ adding' = adding
    BY <1>2 DEF Scan, IInv, ScanInv
  <2>2. CASE UNCHANGED <<users, error, pc>>
    BY <1>a, <2>1, <2>2
  <2>3. CASE Name[Head(rest[t])] = Name[adding[t]]
    <3>1. PICK k \in 1 .. Len(users) :
             /\ users[k] = Head(rest[t])
             /\ Len(users') = Len(users) - 1
             /\ \A i \in 1 .. Len(users) - 1 :
                   users'[i] = IF i < k THEN users[i] ELSE users[i + 1]
             /\ UNCHANGED <<error, pc>>
      BY <1>2, <2>3, ScanRemoves
    <3>2. Len(users) \in Nat
      BY <1>0
    <3>3. CASE n = Name[adding[t]]
      BY <2>1, <3>1, <3>3 DEF OnItsWay
    <3>4. CASE n # Name[adding[t]]
      <4>1. \A w \in Adders : w = t
        BY <2>1 DEF OneAdder
      <4>2. PICK i \in 1 .. Len(users) : Name[users[i]] = n
        BY <3>4, <4>1 DEF OnItsWay, Positions
      <4>3. i # k
        BY <2>3, <3>1, <3>4, <4>2
      <4>4. CASE i < k
        <5>1. i \in 1 .. Len(users') /\ users'[i] = users[i]
          BY <3>1, <3>2, <4>4
        <5> QED
          BY <4>2, <5>1 DEF OnItsWay, Positions
      <4>5. CASE i > k
        <5>1. i - 1 \in 1 .. Len(users') /\ ~ (i - 1 < k) /\ (i - 1) + 1 = i
          BY <3>1, <3>2, <4>5
        <5>2. users'[i - 1] = users[i]
          BY <3>1, <3>2, <5>1
        <5> QED
          BY <4>2, <5>1, <5>2 DEF OnItsWay, Positions
      <4> QED
        BY <4>3, <4>4, <4>5
    <3> QED
      BY <3>3, <3>4
  <2> QED
    BY <1>2, <2>2, <2>3 DEF Scan
<1>3. ASSUME NEW t \in Threads, AppendUser(t) PROVE OnItsWay(n)'
  <2>1. pc[t] = "scan" /\ t \in Adders /\ adding[t] \in Users
    BY <1>3 DEF AppendUser, IInv, ScanInv
  <2>2. /\ Len(users) \in Nat /\ Len(users') = Len(users) + 1
        /\ \A i \in 1 .. Len(users) : users'[i] = users[i]
        /\ users'[Len(users) + 1] = adding[t]
    BY <1>0, <1>3, <2>1, AppendProperties DEF AppendUser
  <2>3. CASE n = Name[adding[t]]
    <3>1. Len(users) + 1 \in 1 .. Len(users')
      BY <2>2
    <3> QED
      BY <2>2, <2>3, <3>1 DEF OnItsWay, Positions
  <2>4. CASE n # Name[adding[t]]
    <3>1. \A w \in Adders : w = t
      BY <2>1 DEF OneAdder
    <3>2. PICK i \in 1 .. Len(users) : Name[users[i]] = n
      BY <2>4, <3>1 DEF OnItsWay, Positions
    <3>3. i \in 1 .. Len(users') /\ users'[i] = users[i]
      BY <2>2
    <3> QED
      BY <3>2, <3>3 DEF OnItsWay, Positions
  <2> QED
    BY <2>3, <2>4
<1>4. ASSUME NEW t \in Threads, ExecutorStep(t) PROVE OnItsWay(n)'
  <2>1. UNCHANGED <<users, adding>>
    BY <1>4, ExecutorFrame DEF IInv
  <2>2. \A w \in Adders : pc[w] = "scan" => pc'[w] = "scan"
    BY <1>0, <1>4, ExecutorFrame DEF IInv
  <2> QED
    BY <1>a, <2>1, <2>2
<1>5. CASE UNCHANGED vars
  BY <1>a, <1>5 DEF vars
<1> QED
  BY <1>1, <1>2, <1>3, <1>4, <1>5 DEF Next, ExecutorStep

(* With one thread that adds users, a name that the host has, or that is being
   added, is never lost: readers that miss a user see a replacement that is
   under way (host.py:179-182). *)
THEOREM NamesKept ==
    ASSUME OneAdder
    PROVE  Spec => NoNameLost
<1>1. IInv /\ CopyInv /\ [Next]_vars =>
         [\A n \in {Name[u] : u \in Users} : OnItsWay(n) => OnItsWay(n)']_vars
  BY NameStep
<1> QED
  BY <1>1, CopyInvHolds, PTL DEF Spec, NoNameLost

----------------------------------------------------------------------------
(* Passwords: an executor holds a copy, or a user that a caller passed.     *)

\* A call with a key that passed its user, and an executor that did not copy it.
KeyInv ==
    /\ PasswordsKept
    /\ asked = [t \in Threads |-> asked[t]]
    /\ exec = [t \in Threads |-> exec[t]]
    /\ \A t \in Threads :
          /\ asked[t].pkey /\ asked[t].user # None => asked[t].user \in given
          /\ exec[t].pkey /\ ~ exec[t].copied => exec[t].user \in given

LEMMA KeyStep == KeyInv /\ [Next]_vars => KeyInv'
<1> SUFFICES ASSUME KeyInv, [Next]_vars PROVE KeyInv'
  OBVIOUS
<1> USE DEF KeyInv, PasswordsKept
<1>1. ASSUME NEW t \in Threads,
             (\E u \in Users : AddUser(t, u)) \/ Scan(t) \/ AppendUser(t)
      PROVE  KeyInv'
  BY <1>1 DEF AddUser, Scan, AppendUser
<1>2. ASSUME NEW t \in Threads, NEW u \in Explicit, NEW pkey \in BOOLEAN,
             NEW sudo \in BOOLEAN, Ask(t, u, pkey, sudo)
      PROVE  KeyInv'
  <2>1. /\ password' = password /\ given \subseteq given'
        /\ pkey /\ u # None => u \in given'
    BY <1>2 DEF Ask
  <2>2. /\ asked' = [asked EXCEPT ![t] = [user |-> u, pkey |-> pkey, sudo |-> sudo]]
        /\ exec' = [exec EXCEPT ![t] = NoExec]
    BY <1>2 DEF Ask
  <2> QED
    BY <2>1, <2>2 DEF NoExec
<1>3. ASSUME NEW t \in Threads, Return(t), exec' = exec PROVE KeyInv'
  BY <1>3 DEF Return, NoRequest
<1>4. ASSUME NEW t \in Threads, NEW u, NEW copied, Make(t, u, copied),
             asked[t].pkey /\ ~ copied => u \in given
      PROVE  KeyInv'
  <2>1. UNCHANGED <<password, given>>
    BY <1>4 DEF Make, Return
  <2>2. asked' = [asked EXCEPT ![t] = NoRequest]
    BY <1>4 DEF Make, Return
  <2>3. exec' = [exec EXCEPT ![t] =
                   [user |-> u, copied |-> copied, pkey |-> asked[t].pkey,
                    sudo |-> hostSudo, asked |-> asked[t].sudo]]
    BY <1>4 DEF Make
  <2> QED
    BY <1>4, <2>1, <2>2, <2>3 DEF NoRequest
<1>5. ASSUME NEW t \in Threads, Build(t) \/ Look(t) \/ NoUser(t) PROVE KeyInv'
  <2>1. CASE UNCHANGED <<password, given, asked, exec>>
    BY <2>1
  <2>2. CASE asked[t].user # None /\ Make(t, asked[t].user, FALSE)
    BY <1>4, <2>2
  <2>3. CASE Make(t, executorUser, TRUE) \/ Make(t, users[pos[t]], TRUE)
    BY <1>4, <2>3
  <2>4. CASE NoUser(t)
    BY <1>3, <2>4 DEF NoUser
  <2> QED
    BY <1>5, <2>1, <2>2, <2>3, <2>4 DEF Build, Look
<1>6. ASSUME NEW t \in Threads, (\E l \in Lists : Run(t, l)) \/ RunFails(t)
      PROVE  KeyInv'
  BY <1>6 DEF Run, RunFails, OpenSession
<1>7. CASE UNCHANGED vars
  BY <1>7 DEF vars
<1> QED
  BY <1>1, <1>2, <1>5, <1>6, <1>7 DEF Next

(* Whoever adds users and makes executors with a key meanwhile, a user of the
   host loses its password only if a caller passed that user together with pkey
   (host.py:203-204, 233-249, ssh.py:74). *)
THEOREM PasswordsAreKept == Spec => []PasswordsKept
<1>1. Init => KeyInv
  BY DEF Init, KeyInv, PasswordsKept, NoExec, NoRequest
<1>2. KeyInv /\ [Next]_vars => KeyInv'
  BY KeyStep
<1>3. KeyInv => PasswordsKept
  BY DEF KeyInv
<1> QED
  BY <1>1, <1>2, <1>3, PTL DEF Spec

----------------------------------------------------------------------------
(* Sudo: the flag is only ever raised, and what carries it knows it was.    *)

\* The functions are functions, and counters of the word are numbers.
SudoTypes ==
    /\ hostSudo \in BOOLEAN
    /\ words \in [Lists -> Nat]
    /\ pc = [t \in Threads |-> pc[t]]
    /\ asked = [t \in Threads |-> asked[t]]
    /\ exec = [t \in Threads |-> exec[t]]
    /\ ran = [t \in Threads |-> ran[t]]
    /\ \A t \in Threads : ran[t].sudos \in Nat

\* A call that waits to build, an executor, a list and a command sent.
SudoInv ==
    /\ SudoTypes
    /\ \A t \in Threads : asked[t].sudo => hostSudo
    /\ \A t \in Threads : exec[t].asked => exec[t].sudo
    /\ \A t \in Threads : exec[t].sudo => hostSudo
    /\ \A l \in Lists : words[l] > 0 => hostSudo
    /\ SudoHonoured

LEMMA SudoStep == SudoInv /\ [Next]_vars => SudoInv'
<1> SUFFICES ASSUME SudoInv, [Next]_vars PROVE SudoInv'
  OBVIOUS
<1> USE DEF SudoInv, SudoTypes, SudoHonoured
<1>1. ASSUME NEW t \in Threads,
             (\E u \in Users : AddUser(t, u)) \/ Scan(t) \/ AppendUser(t)
      PROVE  SudoInv'
  <2>1. /\ UNCHANGED <<hostSudo, words, asked, exec, ran>>
        /\ pc' = [w \in Threads |-> pc'[w]]
        /\ \A w \in Threads : pc'[w] = "build" => pc[w] = "build"
    BY <1>1 DEF AddUser, Scan, AppendUser, Remove
  <2> QED
    BY <2>1
<1>2. ASSUME NEW t \in Threads, NEW u \in Explicit, NEW pkey \in BOOLEAN,
             NEW sudo \in BOOLEAN, Ask(t, u, pkey, sudo)
      PROVE  SudoInv'
  <2>1. /\ UNCHANGED words
        /\ hostSudo' = (hostSudo \/ sudo)
    BY <1>2 DEF Ask
  <2>2. /\ asked' = [asked EXCEPT ![t] = [user |-> u, pkey |-> pkey, sudo |-> sudo]]
        /\ exec' = [exec EXCEPT ![t] = NoExec]
        /\ ran' = [ran EXCEPT ![t] = NotRun]
        /\ pc' = [w \in Threads |-> pc'[w]]
    BY <1>2 DEF Ask
  <2>3. \A w \in Threads : asked'[w].sudo => hostSudo'
    BY <2>1, <2>2
  <2>4. \A w \in Threads : /\ exec'[w].asked => exec'[w].sudo
                           /\ exec'[w].sudo => hostSudo'
    BY <2>1, <2>2 DEF NoExec
  <2>5. \A w \in Threads : ran'[w] = ran[w] \/ ran'[w] = NotRun
    BY <2>2
  <2>6. SudoHonoured' /\ \A w \in Threads : ran'[w].sudos \in Nat
    BY <2>1, <2>5 DEF NotRun
  <2>7. SudoTypes'
    BY <2>1, <2>2, <2>6
  <2> QED
    BY <2>1, <2>3, <2>4, <2>6, <2>7
<1>3. ASSUME NEW t \in Threads, Build(t) \/ Look(t) \/ NoUser(t) PROVE SudoInv'
  <2>1. UNCHANGED <<hostSudo, words, ran>> /\ pc' = [w \in Threads |-> pc'[w]]
    BY <1>3 DEF Build, Look, NoUser, Make, Return
  <2>2. asked' = asked \/ asked' = [asked EXCEPT ![t] = NoRequest]
    BY <1>3 DEF Build, Look, NoUser, Make, Return
  <2>3. \/ exec' = exec
        \/ \E u, copied :
              exec' = [exec EXCEPT ![t] =
                         [user |-> u, copied |-> copied, pkey |-> asked[t].pkey,
                          sudo |-> hostSudo, asked |-> asked[t].sudo]]
    BY <1>3 DEF Build, Look, NoUser, Make
  <2>4. \A w \in Threads : asked'[w].sudo => hostSudo
    BY <2>2 DEF NoRequest
  <2>5. \A w \in Threads : /\ exec'[w].asked => exec'[w].sudo
                           /\ exec'[w].sudo => hostSudo
    BY <2>3, <2>4
  <2>6. /\ asked' = [w \in Threads |-> asked'[w]]
        /\ exec' = [w \in Threads |-> exec'[w]]
    BY <2>2, <2>3
  <2> QED
    BY <2>1, <2>4, <2>5, <2>6
<1>4. ASSUME NEW t \in Threads, NEW l \in Lists, Run(t, l) PROVE SudoInv'
  <2>1. UNCHANGED <<hostSudo, pc, asked, exec>>
    BY <1>4 DEF Run
  <2>2. words' = [words EXCEPT ![l] = IF exec[t].sudo THEN @ + 1 ELSE @]
    BY <1>4 DEF Run
  <2>3. /\ words' \in [Lists -> Nat]
        /\ \A k \in Lists : words'[k] > 0 => hostSudo
        /\ exec[t].asked => words'[l] > 0
    BY <2>2
  <2>4. ran' = [ran EXCEPT ![t] = [sudos |-> words'[l], asked |-> exec[t].asked]]
    BY <1>4 DEF Run
  <2>5. /\ ran' = [w \in Threads |-> ran'[w]]
        /\ \A w \in Threads : ran'[w].sudos \in Nat
        /\ SudoHonoured'
    BY <2>1, <2>3, <2>4
  <2> QED
    BY <2>1, <2>3, <2>5
<1>5. ASSUME NEW t \in Threads, RunFails(t) PROVE SudoInv'
  BY <1>5 DEF RunFails
<1>6. CASE UNCHANGED vars
  BY <1>6 DEF vars
<1> QED
  BY <1>1, <1>2, <1>3, <1>4, <1>5, <1>6 DEF Next

(* Commands asked for with sudo are sent with it, and none is sent with it on a
   host that was never asked for it, for any number of threads, users and lists
   (host.py:233-249, ssh.py:133-134). *)
THEOREM SudoIsHonoured == Spec => []SudoHonoured
<1>1. Init => SudoInv
  <2> SUFFICES ASSUME Init PROVE SudoInv
    OBVIOUS
  <2>1. \A t \in Threads : /\ pc[t] = "idle" /\ exec[t].sudo = FALSE /\ exec[t].asked = FALSE
                           /\ ran[t].sudos = 0 /\ ran[t].asked = FALSE
    BY DEF Init, NoExec, NotRun
  <2>a. \A t \in Threads : asked[t].sudo = FALSE
    BY DEF Init, NoRequest
  <2>2. SudoTypes
    <3>1. hostSudo \in BOOLEAN /\ words \in [Lists -> Nat]
      BY DEF Init
    <3>2. pc = [t \in Threads |-> pc[t]] /\ asked = [t \in Threads |-> asked[t]]
      BY DEF Init
    <3>3. exec = [t \in Threads |-> exec[t]]
      BY DEF Init
    <3>4. ran = [t \in Threads |-> ran[t]]
      BY DEF Init
    <3> QED
      BY <2>1, <3>1, <3>2, <3>3, <3>4 DEF SudoTypes
  <2>3. \A l \in Lists : words[l] = 0
    BY DEF Init
  <2> QED
    BY <2>1, <2>a, <2>2, <2>3 DEF SudoInv, SudoHonoured
<1>2. SudoInv /\ [Next]_vars => SudoInv'
  BY SudoStep
<1>3. SudoInv => SudoHonoured
  BY DEF SudoInv
<1> QED
  BY <1>1, <1>2, <1>3, PTL DEF Spec

=============================================================================
