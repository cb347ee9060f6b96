---------------------------- MODULE HostExecutor ----------------------------
(***************************************************************************)
(* The users of a Host and the executors it makes (host.py:164-249), with   *)
(* what making and using an executor changes behind the caller's back: the *)
(* host's sudo flag, the user's password (ssh.py:58-76) and the list that   *)
(* holds the command (ssh.py:132-137).  Threads share the host.            *)
(***************************************************************************)
EXTENDS Naturals, Sequences

CONSTANTS
    Threads,
    Adders,         \* the threads that add users
    Users,          \* User objects
    Name,           \* their full names
    RootName,       \* RootUser.NAME
    KeyUsers,       \* the users that are UserWithPKey
    Lists,          \* the lists callers keep commands in
    Explicit,       \* the users callers pass as user=, None for none
    None,
    MaxWords        \* bound: how often a list is used with sudo

ASSUME UsersAssumption ==
    /\ Adders \subseteq Threads
    /\ None \notin Users
    /\ KeyUsers \subseteq Users
    /\ Explicit \subseteq Users \cup {None}
    /\ Users \subseteq DOMAIN Name
    /\ MaxWords \in Nat

VARIABLES
    users,          \* Host.users
    executorUser,   \* Host._executor_user, or None
    hostSudo,       \* Host.sudo
    password,       \* the users that have their password
    words,          \* of each list, how many "sudo" it begins with
    given,          \* history: the users passed explicitly together with pkey
    pc,             \* "idle", "scan" in add_user, "build" in executor, "look" in get_user
    adding,         \* the user add_user adds
    rest,           \* what is left of the copy add_user iterates
    pos,            \* the position of the list that get_user looks at
    asked,          \* what executor() was called with
    exec,           \* the executor each thread has
    ran,            \* what the last command was sent as, and had been asked as
    error           \* the exception the last call ended with, or "none"

vars == <<users, executorUser, hostSudo, password, words, given, pc, adding, rest,
          pos, asked, exec, ran, error>>

Requests == [user : Users \cup {None}, pkey : BOOLEAN, sudo : BOOLEAN]
NoExec == [user |-> None, copied |-> TRUE, pkey |-> FALSE, sudo |-> FALSE, asked |-> FALSE]
NoRequest == [user |-> None, pkey |-> FALSE, sudo |-> FALSE]
NotRun == [sudos |-> 0, asked |-> FALSE]

TypeOK ==
    /\ users \in Seq(Users)
    /\ executorUser \in Users \cup {None}
    /\ hostSudo \in BOOLEAN
    /\ password \subseteq Users
    /\ words \in [Lists -> 0 .. MaxWords]
    /\ pc \in [Threads -> {"idle", "scan", "build", "look"}]
    /\ given \subseteq Users
    /\ pos \in [Threads -> Nat \ {0}]
    /\ adding \in [Threads -> Users \cup {None}]
    /\ rest \in [Threads -> Seq(Users)]
    /\ asked \in [Threads -> Requests]
    /\ exec \in [Threads -> [user : Users \cup {None}, copied : BOOLEAN, pkey : BOOLEAN,
                             sudo : BOOLEAN, asked : BOOLEAN]]
    /\ ran \in [Threads -> [sudos : 0 .. MaxWords, asked : BOOLEAN]]
    /\ error \in [Threads -> {"none", "ValueError", "no user"}]

Init ==
    /\ users \in {<<>>} \cup {<<u>> : u \in Users}
    /\ executorUser = None
    /\ hostSudo = FALSE
    /\ password = Users \ KeyUsers
    /\ words = [l \in Lists |-> 0]
    /\ given = {}
    /\ pos = [t \in Threads |-> 1]
    /\ pc = [t \in Threads |-> "idle"]
    /\ adding = [t \in Threads |-> None]
    /\ rest = [t \in Threads |-> <<>>]
    /\ asked = [t \in Threads |-> NoRequest]
    /\ exec = [t \in Threads |-> NoExec]
    /\ ran = [t \in Threads |-> NotRun]
    /\ error = [t \in Threads |-> "none"]

----------------------------------------------------------------------------
(* add_user, and the assignment to executor_user, which adds the user.     *)

Positions(n) == {i \in 1 .. Len(users) : Name[users[i]] = n}
Least(S) == CHOOSE i \in S : \A j \in S : i <= j

AddUser(t, u) ==
    /\ pc[t] = "idle" /\ t \in Adders
    /\ adding' = [adding EXCEPT ![t] = u]
    /\ rest' = [rest EXCEPT ![t] = users]
    /\ pc' = [pc EXCEPT ![t] = "scan"]
    /\ error' = [error EXCEPT ![t] = "none"]
    /\ \/ UNCHANGED executorUser        \* add_user(u)
       \/ executorUser' = u             \* executor_user = u
    /\ UNCHANGED <<hostSudo, users, password, words, given, pos, asked, exec, ran>>

\* self.users.remove(x): the first one; ValueError if it is gone.
Remove(t, x) ==
    LET S == {i \in 1 .. Len(users) : users[i] = x}
    IN  IF S = {}
        THEN /\ error' = [error EXCEPT ![t] = "ValueError"]
             /\ pc' = [pc EXCEPT ![t] = "idle"]
             /\ UNCHANGED users
        ELSE /\ users' = SubSeq(users, 1, Least(S) - 1)
                            \o SubSeq(users, Least(S) + 1, Len(users))
             /\ UNCHANGED <<error, pc>>

\* Mutant: only the user itself is a duplicate.
ScanIdentical(t) ==
    /\ pc[t] = "scan" /\ rest[t] # <<>>
    /\ rest' = [rest EXCEPT ![t] = Tail(@)]
    /\ IF Head(rest[t]) = adding[t]
       THEN Remove(t, Head(rest[t]))
       ELSE UNCHANGED <<users, error, pc>>
    /\ UNCHANGED <<executorUser, hostSudo, password, words, given, adding, pos, asked, exec, ran>>

\* One user of the copy.
Scan(t) ==
    /\ pc[t] = "scan" /\ rest[t] # <<>>
    /\ rest' = [rest EXCEPT ![t] = Tail(@)]
    /\ IF Name[Head(rest[t])] = Name[adding[t]]
       THEN Remove(t, Head(rest[t]))
       ELSE UNCHANGED <<users, error, pc>>
    /\ UNCHANGED <<executorUser, hostSudo, password, words, given, adding, pos, asked, exec, ran>>

\* Mutant: a user that replaces another one is not added.
AppendFirst(t) ==
    /\ pc[t] = "scan" /\ rest[t] = <<>>
    /\ users' = IF users = <<>> THEN Append(users, adding[t]) ELSE users
    /\ pc' = [pc EXCEPT ![t] = "idle"]
    /\ adding' = [adding EXCEPT ![t] = None]
    /\ UNCHANGED <<executorUser, hostSudo, password, words, given, rest, pos, asked, exec,
                   ran, error>>

\* self.users.append(user)
AppendUser(t) ==
    /\ pc[t] = "scan" /\ rest[t] = <<>>
    /\ users' = Append(users, adding[t])
    /\ pc' = [pc EXCEPT ![t] = "idle"]
    /\ adding' = [adding EXCEPT ![t] = None]
    /\ UNCHANGED <<executorUser, hostSudo, password, words, given, rest, pos, asked, exec,
                   ran, error>>

----------------------------------------------------------------------------
(* executor(user, pkey, sudo)                                              *)

\* Mutant: a request without sudo takes the flag back.
AskResets(t, u, pkey, sudo) ==
    /\ pc[t] = "idle"
    /\ asked' = [asked EXCEPT ![t] = [user |-> u, pkey |-> pkey, sudo |-> sudo]]
    /\ hostSudo' = sudo
    /\ pc' = [pc EXCEPT ![t] = "build"]
    /\ error' = [error EXCEPT ![t] = "none"]
    /\ exec' = [exec EXCEPT ![t] = NoExec]
    /\ ran' = [ran EXCEPT ![t] = NotRun]
    /\ given' = IF pkey /\ u # None THEN given \cup {u} ELSE given
    /\ UNCHANGED <<users, executorUser, password, words, adding, rest, pos>>

\* The executor a thread asks for replaces the one it has.
Ask(t, u, pkey, sudo) ==
    /\ pc[t] = "idle"
    /\ asked' = [asked EXCEPT ![t] = [user |-> u, pkey |-> pkey, sudo |-> sudo]]
    /\ hostSudo' = (hostSudo \/ sudo)
    /\ pc' = [pc EXCEPT ![t] = "build"]
    /\ error' = [error EXCEPT ![t] = "none"]
    /\ exec' = [exec EXCEPT ![t] = NoExec]
    /\ ran' = [ran EXCEPT ![t] = NotRun]
    /\ given' = IF pkey /\ u # None THEN given \cup {u} ELSE given
    /\ UNCHANGED <<users, executorUser, password, words, adding, rest, pos>>

\* The end of executor(): its local variables are gone.
Return(t) ==
    /\ pc' = [pc EXCEPT ![t] = "idle"]
    /\ asked' = [asked EXCEPT ![t] = NoRequest]
    /\ pos' = [pos EXCEPT ![t] = 1]
    /\ UNCHANGED <<users, executorUser, hostSudo, password, words, given, adding, rest, ran>>

\* Mutant: the default user itself is handed out.
MakeOriginal(t, u, copied) ==
    /\ exec' = [exec EXCEPT ![t] =
                   [user |-> u, copied |-> FALSE, pkey |-> asked[t].pkey,
                    sudo |-> hostSudo, asked |-> asked[t].sudo]]
    /\ Return(t)
    /\ UNCHANGED error

\* executor_factory.build(self, user, sudo=self.sudo)
Make(t, u, copied) ==
    /\ exec' = [exec EXCEPT ![t] =
                   [user |-> u, copied |-> copied, pkey |-> asked[t].pkey,
                    sudo |-> hostSudo, asked |-> asked[t].sudo]]
    /\ Return(t)
    /\ UNCHANGED error

\* The user the caller passed is used as it is, of the host's one a copy is made;
\* without either the host is searched for its root user.
Build(t) ==
    /\ pc[t] = "build"
    /\ \/ asked[t].user # None /\ Make(t, asked[t].user, FALSE)
       \/ asked[t].user = None /\ executorUser # None /\ Make(t, executorUser, TRUE)
       \/ /\ asked[t].user = None /\ executorUser = None
          /\ pc' = [pc EXCEPT ![t] = "look"]
          /\ pos' = [pos EXCEPT ![t] = 1]
          /\ UNCHANGED <<users, executorUser, hostSudo, password, words, given, adding,
                         rest, asked, exec, ran, error>>

\* One step of get_user('root'), which walks the list itself by position.
Look(t) ==
    /\ pc[t] = "look" /\ pos[t] <= Len(users)
    /\ \/ Name[users[pos[t]]] = RootName /\ Make(t, users[pos[t]], TRUE)
       \/ /\ Name[users[pos[t]]] # RootName
          /\ pos' = [pos EXCEPT ![t] = @ + 1]
          /\ UNCHANGED <<users, executorUser, hostSudo, password, words, given, pc,
                         adding, rest, asked, exec, ran, error>>

\* get_user raises at the end of the list.
NoUser(t) ==
    /\ pc[t] = "look" /\ pos[t] > Len(users)
    /\ error' = [error EXCEPT ![t] = "no user"]
    /\ Return(t)
    /\ UNCHANGED exec

----------------------------------------------------------------------------
(* executor.run_cmd(cmd): Session.__init__, then Session.run_cmd.          *)

\* With pkey, the password of the executor's user object is dropped.
OpenSession(t) ==
    password' = IF exec[t].pkey /\ ~ exec[t].copied /\ exec[t].user \notin KeyUsers
                THEN password \ {exec[t].user} ELSE password

Run(t, l) ==
    /\ pc[t] = "idle" /\ exec[t] # NoExec
    /\ exec[t].sudo => words[l] < MaxWords
    /\ OpenSession(t)
    /\ words' = [words EXCEPT ![l] = IF exec[t].sudo THEN @ + 1 ELSE @]
    /\ ran' = [ran EXCEPT ![t] = [sudos |-> words'[l], asked |-> exec[t].asked]]
    /\ UNCHANGED <<users, executorUser, hostSudo, given, pc, adding, rest, pos, asked,
                   exec, error>>

\* The session is created and cannot be opened.
RunFails(t) ==
    /\ pc[t] = "idle" /\ exec[t] # NoExec
    /\ OpenSession(t)
    /\ UNCHANGED <<users, executorUser, hostSudo, words, given, pc, adding, rest, pos,
                   asked, exec, ran, error>>

Next ==
    \E t \in Threads :
        \/ \E u \in Users : AddUser(t, u)
        \/ Scan(t) \/ AppendUser(t)
        \/ \E u \in Explicit, pkey, sudo \in BOOLEAN : Ask(t, u, pkey, sudo)
        \/ Build(t) \/ Look(t) \/ NoUser(t)
        \/ \E l \in Lists : Run(t, l)
        \/ RunFails(t)

Spec == Init /\ [][Next]_vars

----------------------------------------------------------------------------
(* Properties.                                                             *)

(* "Adds user to users collection, and tries remove duplicities" (host.py:
   174): the users of a host have different names. *)
UsersUnique ==
    \A i, j \in 1 .. Len(users) : Name[users[i]] = Name[users[j]] => i = j

(* A session with a key takes the password from its executor's user (ssh.py:74),
   for good.  It costs a user of the host its password, and every later executor
   its login, only if a caller once passed that very user together with pkey:
   using a key with the default user does not, for executor_user hands out copies
   (host.py:203-204), whoever replaces users meanwhile. *)
PasswordsKept == (Users \ KeyUsers) \ password \subseteq given

(* While a user is replaced by one of the same name, which readers of the list
   may see as missing, it is on its way back: a name that the host has, or that
   is being added, is never lost (host.py:179-182). *)
OnItsWay(n) ==
    Positions(n) # {} \/ \E t \in Adders : pc[t] = "scan" /\ Name[adding[t]] = n
NoNameLost ==
    [][\A n \in {Name[u] : u \in Users} : OnItsWay(n) => OnItsWay(n)']_vars

(* Whatever other threads ask for between its call of executor() and its
   command, the command of an executor asked for with sudo is sent with it; and
   none is sent with it on a host that nobody asked for sudo, though the flag is
   the host's and the word stays in the caller's list (host.py:233-249, ssh.py:
   133-134). *)
SudoHonoured ==
    \A t \in Threads : /\ ran[t].asked => ran[t].sudos > 0
                       /\ ran[t].sudos > 0 => hostSudo

=============================================================================
