------------------------------ MODULE HostWork ------------------------------
(***************************************************************************)
(* The threads of a program on one host: file calls (HostFiles), requests  *)
(* for the public key (HostKeys), playbooks (PlaybookRun) and questions    *)
(* about the operating system (OsInfo), on the same files.  A thread does  *)
(* one thing at a time.                                                    *)
(***************************************************************************)
EXTENDS HostKeys, PlaybookRun, OsInfo

CONSTANT Plans      \* bounds: what is left to do of each kind, for each thread

Plan == [files : [Threads -> Nat], keys : [Threads -> Nat], runs : Nat,
         infos : [Threads -> Nat], upgrades : Nat]

ASSUME WorkAssumption ==
    /\ \A p \in Plans : p \in Plan
    /\ {Prv, Pub} \cap Own = {}

VARIABLE plan       \* the bounds in force

workVars == <<vars, keyVars, run, osVars, plan>>

WorkInit == Init /\ KeysInit /\ PlaybookInit /\ OsInit /\ plan \in Plans

Free(t) == keyAt[t] = "none" /\ osAt[t] = "none" /\ (t = Runner => stage = "none")

FileStep(t) ==
    /\ \/ Free(t) /\ calls[t] < plan.files[t] /\ Call(t) /\ UNCHANGED spoiled
       \/ Works(t) /\ spoiled' = (spoiled \/ ~ KeyFilesKept)
    /\ UNCHANGED <<keyAt, made, key, keyCalls, run, osVars>>

KeyStep(t) ==
    /\ \/ Free(t) /\ keyCalls[t] < plan.keys[t] /\ AskKey(t)
       \/ KeyWorks(t)
    /\ UNCHANGED <<run, osVars>>

OsStep ==
    /\ \/ \E t \in Threads :
             \/ Free(t) /\ osCalls[t] < plan.infos[t] /\ Inquire(t)
             \/ OsWorks(t)
       \/ changes < plan.upgrades /\ Upgrade
    /\ UNCHANGED <<keyVars, run>>

PlaybookStep ==
    /\ \/ Free(Runner) /\ runs < plan.runs /\ RunPlaybook
       \/ PlaybookWorks
    /\ UNCHANGED <<keyVars, osVars>>

WorkNext ==
    /\ UNCHANGED plan
    /\ OsStep \/ PlaybookStep \/ \E t \in Threads : FileStep(t) \/ KeyStep(t)

WorkSpec == WorkInit /\ [][WorkNext]_workVars

=============================================================================
