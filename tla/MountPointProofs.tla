-------------------------- MODULE MountPointProofs --------------------------
(***************************************************************************)
(* Theorems about MountPoint and NfsMounts on one host, for any number of  *)
(* objects, threads, sources and directories.                              *)
(***************************************************************************)
EXTENDS NfsMounts, SequenceTheorems, TLAPS

----------------------------------------------------------------------------
(* The invariant.                                                          *)

NfsTypes ==
    /\ nfsAt \in [Clients -> {"idle", "mkdir", "mount", "umount", "rmdir"}]
    /\ nfsTarget \in [Clients -> Targets]
    /\ nfsSource \in [Clients -> Sources \cup {None}]
    /\ \A c \in Clients : nfsAt[c] \in {"mkdir", "mount"} => nfsSource[c] \in Sources

\* The target of an object, and the steps that only some objects come to.
ObjectInv(o) ==
    /\ IF Tmp(o) THEN target[o] \in TmpDirs \cup {None} ELSE target[o] = Given[o]
    /\ pc[o] \in {"mktemp", "list", "rmdir"} => Tmp(o)
    /\ pc[o] = "remount" => mounted[o]
    /\ mounted[o] \/ block[o] = "body" => target[o] # None

\* No two objects have one temporary directory.
Distinct ==
    \A o, x \in Objects : Tmp(o) /\ target[o] = target[x] /\ target[o] # None => o = x

\* A temporary directory is mounted once, and not while it is made or removed.
SingleInv(o) ==
    Tmp(o) /\ target[o] # None =>
        /\ Len(mounts[target[o]]) <= 1
        /\ pc[o] \in {"mount", "list", "rmdir"} => mounts[target[o]] = <<>>

\* A directory that is no longer the object's to remove stays for a reason.
LeftInv(o) ==
    /\ pc[o] = "mktemp" /\ target[o] \in dirs => target[o] \in left
    /\ Tmp(o) /\ pc[o] = "umount" /\ ~ mounted[o] /\ target[o] \in dirs => target[o] \in left

\* _mounted and the host, at each step of a call.
TruthInv(o) ==
    clean[o] /\ Alone(o) /\ target[o] # None =>
        /\ pc[o] \in {"mktemp", "mount"} => ~ mounted[o]
        /\ pc[o] \in {"list", "rmdir"} => mounts[target[o]] = <<>>
        /\ pc[o] \notin {"list", "rmdir"} =>
              Len(mounts[target[o]]) = IF mounted[o] THEN 1 ELSE 0

Inv(o) == ObjectInv(o) /\ SingleInv(o) /\ LeftInv(o) /\ TruthInv(o)

\* Only directories that exist are mounted on.
MountsInv == \A p \in Paths : mounts[p] # <<>> => p \in dirs

\* Where mounts are stacked, or put on a directory that is being removed.
CrowdInv ==
    /\ crowded \subseteq Paths
    /\ \A p \in Paths : Len(mounts[p]) >= 2 => p \in crowded
    /\ \A c \in Clients : nfsAt[c] = "rmdir" /\ mounts[nfsTarget[c]] # <<>> => nfsTarget[c] \in crowded

StorageInv ==
    /\ TypeOK /\ NfsTypes /\ Distinct /\ MountsInv /\ TempDirsRemoved /\ CrowdInv
    /\ \A o \in Objects : Inv(o)

----------------------------------------------------------------------------
(* Lists of mounts, and the ends of calls.                                 *)

LEMMA Pushed ==
    ASSUME NEW s \in Seq(Sources), NEW e \in Sources
    PROVE  /\ Append(s, e) \in Seq(Sources)
           /\ Len(Append(s, e)) = Len(s) + 1
           /\ Append(s, e) # <<>>
  BY AppendProperties

LEMMA Popped ==
    ASSUME NEW s \in Seq(Sources), s # <<>>
    PROVE  /\ SubSeq(s, 1, Len(s) - 1) \in Seq(Sources)
           /\ Len(SubSeq(s, 1, Len(s) - 1)) = Len(s) - 1
           /\ Len(s) > 0
<1>1. Len(s) \in Nat /\ Len(s) # 0
  BY EmptySeq, LenProperties
<1>2. /\ 1 \in Int /\ Len(s) - 1 \in Int
      /\ \A i \in 1 .. Len(s) - 1 : s[i] \in Sources
  BY <1>1
<1> DEFINE n == Len(s) - 1
           r == SubSeq(s, 1, n)
<1>3. r \in Seq(Sources) /\ Len(r) = IF 1 <= n THEN n - 1 + 1 ELSE 0
  BY <1>2, SubSeqProperties
<1>4. n \in Nat
  BY <1>1
<1>5. Len(r) = n
  <2> HIDE DEF n, r
  <2> QED
    BY <1>3, <1>4
<1> QED
  BY <1>1, <1>3, <1>5

LEMMA Lengths ==
    ASSUME TypeOK, NEW p \in Paths
    PROVE  /\ mounts[p] \in Seq(Sources) /\ Len(mounts[p]) \in Nat
           /\ mounts[p] = <<>> <=> Len(mounts[p]) = 0
<1>1. mounts[p] \in Seq(Sources)
  BY DEF TypeOK
<1> QED
  BY <1>1

\* A call that ends changes the place of its object only.
LEMMA EndFacts ==
    ASSUME TypeOK, NEW o \in Objects, NEW how \in Outcomes, End(o, how)
    PROVE  /\ pc' = [pc EXCEPT ![o] = "idle"] /\ pc'[o] = "idle"
           /\ \A x \in Objects : x # o => pc'[x] = pc[x] /\ block'[x] = block[x]
           /\ pc' \in [Objects -> {"idle", "mktemp", "mount", "remount", "umount", "list", "rmdir"}]
           /\ block' \in [Objects -> {"no", "enter", "body", "exit"}]
           /\ raised' = raised /\ calls' = calls
           /\ outcome' \in [Objects -> Outcomes]
  BY DEF TypeOK, End, Outcomes

\* What a step of object x does, seen from outside of it.
Stepped(x) ==
    /\ \A o \in Objects : o # x =>
          /\ target'[o] = target[o] /\ mounted'[o] = mounted[o]
          /\ pc'[o] = pc[o] /\ clean'[o] = clean[o] /\ block'[o] = block[o]
    /\ \/ target'[x] = target[x]
       \/ /\ target'[x] \in TmpDirs \ dirs /\ Tmp(x)
          /\ \A o \in Objects : o # x => target[o] # target'[x]
    /\ \A p \in Paths : p # target[x] => mounts'[p] = mounts[p]
    /\ \A p \in Paths : Len(mounts'[p]) <= Len(mounts[p]) + 1
    /\ target[x] # None /\ mounts'[target[x]] # <<>> => target[x] \in dirs'
    /\ \A p \in dirs \ dirs' : p = target[x]
    /\ \A p \in dirs' \ dirs :
          /\ p \in TmpDirs /\ \A o \in Objects : o # x => target[o] # p
          /\ p \in left' \/ (Tmp(x) /\ target'[x] = p /\ pc'[x] # "idle")
    /\ left \subseteq left'
    /\ Tmp(x) /\ target[x] \in dirs' /\ (mounted[x] \/ pc[x] # "idle") =>
          target[x] \in left' \/ (target'[x] = target[x] /\ (mounted'[x] \/ pc'[x] # "idle"))

----------------------------------------------------------------------------
(* The calls.                                                              *)

LEMMA CallStep ==
    ASSUME StorageInv, NEW x \in Objects, Calls(x)
    PROVE  TypeOK' /\ Stepped(x) /\ Inv(x)'
<1> USE DEF StorageInv, Inv
<1>1. /\ pc[x] = "idle" /\ UNCHANGED <<dirs, mounts, full, target, mounted>>
      /\ pc'[x] \in {"idle", "mktemp", "mount", "remount", "umount"}
      /\ \A o \in Objects : o # x =>
            pc'[o] = pc[o] /\ clean'[o] = clean[o] /\ block'[o] = block[o]
  BY DEF Calls, Mount, Enter, Exit, Umount, UmountNowhere, Remount, RemountRefused,
         Count, StartMount, host, TypeOK
<1>2. /\ pc'[x] \in {"mktemp", "mount"} =>
            /\ pc'[x] = "mktemp" <=> Tmp(x)
            /\ clean'[x] = (clean[x] /\ ~ mounted[x])
            /\ left' = IF Tmp(x) /\ mounted[x] THEN left \cup {target[x]} ELSE left
      /\ pc'[x] \notin {"mktemp", "mount"} => clean'[x] = clean[x] /\ left' = left
      /\ pc'[x] = "remount" => mounted[x]
      /\ block'[x] = "body" => block[x] = "body"
  BY <1>1 DEF Calls, Mount, Enter, Exit, Umount, UmountNowhere, Remount, RemountRefused,
         Count, StartMount, host, TypeOK
<1>3. TypeOK'
  <2>0. calls' \in [Objects -> 0 .. MaxCalls]
    <3>1. CASE calls' = calls
      BY <3>1 DEF TypeOK
    <3>2. CASE Count(x)
      <4>1. MaxCalls \in Nat /\ calls[x] \in Nat /\ calls[x] < MaxCalls
        BY <3>2, MountAssumption DEF MountAssumption, Count, TypeOK
      <4>2. calls[x] + 1 \in 0 .. MaxCalls
        BY <4>1
      <4> QED
        BY <3>2, <4>2 DEF Count, TypeOK
    <3> QED
      BY <3>1, <3>2 DEF Calls, Mount, Enter, Exit, Umount, UmountNowhere, Remount, RemountRefused
  <2> USE <2>0 DEF TypeOK, Outcomes, host
  <2>1. CASE Mount(x) \/ Enter(x)
    <3>1. left' \subseteq TmpDirs
      <4>1. Tmp(x) /\ mounted[x] => target[x] \in TmpDirs
        BY DEF ObjectInv
      <4> QED
        BY <1>1, <1>2, <4>1
    <3>2. pc' = [pc EXCEPT ![x] = IF Tmp(x) THEN "mktemp" ELSE "mount"]
      BY <2>1 DEF Mount, Enter, StartMount
    <3>3. ~ Tmp(x) => target[x] # None
      BY DEF ObjectInv, Tmp
    <3> QED
      BY <2>1, <3>1, <3>2, <3>3 DEF Mount, Enter, StartMount
  <2>2. CASE Exit(x)
    BY <2>2 DEF Exit, ObjectInv
  <2>3. CASE Umount(x) \/ UmountNowhere(x)
    BY <2>3 DEF Umount, UmountNowhere
  <2>4. CASE Remount(x) \/ RemountRefused(x)
    BY <2>4 DEF Remount, RemountRefused, ObjectInv
  <2> QED
    BY <2>1, <2>2, <2>3, <2>4 DEF Calls
<1>4. Stepped(x)
  <2>1. \A p \in Paths : Len(mounts'[p]) <= Len(mounts[p]) + 1
    BY <1>1, Lengths
  <2> QED
    BY <1>1, <1>2, <2>1 DEF Stepped, MountsInv, TypeOK
<1>5. ObjectInv(x)' /\ SingleInv(x)'
  BY <1>1, <1>2 DEF ObjectInv, SingleInv, Tmp
<1>6. LeftInv(x)'
  <2>1. Tmp(x) /\ target[x] \in dirs /\ ~ mounted[x] => target[x] \in left
    <3> SUFFICES ASSUME Tmp(x), target[x] \in dirs, ~ mounted[x] PROVE target[x] \in left
      OBVIOUS
    <3>1. target[x] \in TmpDirs /\ target[x] # None
      BY MountAssumption DEF MountAssumption, ObjectInv, TypeOK
    <3>2. \A o \in Objects : Tmp(o) /\ target[o] = target[x] => o = x
      BY <3>1 DEF Distinct
    <3> QED
      BY <1>1, <3>1, <3>2 DEF TempDirsRemoved
  <2> QED
    BY <1>1, <1>2, <2>1 DEF LeftInv, Tmp
<1>7. TruthInv(x)'
  BY <1>1, <1>2 DEF TruthInv, Alone, Tmp
<1> QED
  BY <1>3, <1>4, <1>5, <1>6, <1>7

----------------------------------------------------------------------------
(* The commands.                                                           *)

\* What a step of a call that ends has in common.
LEMMA EndStep ==
    ASSUME StorageInv, NEW x \in Objects, NEW how \in Outcomes, End(x, how),
           target' = target, mounted' \in [Objects -> BOOLEAN], clean' \in [Objects -> BOOLEAN],
           left' \subseteq TmpDirs, how = "ok" \/ mounted'[x] => target[x] # None,
           dirs' \subseteq Paths, mounts' \in [Paths -> Seq(Sources)],
           full' \subseteq Sources \cup Paths
    PROVE  TypeOK' /\ ObjectInv(x)' /\ LeftInv(x)'
<1>1. TypeOK'
  BY EndFacts DEF StorageInv, TypeOK
<1>2. pc'[x] = "idle"
  BY EndFacts DEF StorageInv
<1>3. block'[x] = "body" => block[x] = "body" \/ how = "ok"
  BY DEF End, StorageInv, TypeOK
<1>4. ObjectInv(x)
  BY DEF StorageInv, Inv
<1> QED
  BY <1>1, <1>2, <1>3, <1>4 DEF ObjectInv, LeftInv, Tmp

\* Commands that fail, and those that leave the host as it is.
LEMMA FailStep ==
    ASSUME StorageInv, NEW x \in Objects,
           Loses(x) \/ StatusFails(x) \/ ListFiles(x) \/ RmdirFails(x)
    PROVE  TypeOK' /\ Stepped(x) /\ Inv(x)'
<1> USE DEF StorageInv, Inv
<1>1. PICK how \in Outcomes :
         End(x, how) /\ (how = "ok" => pc[x] \in {"list", "rmdir"})
  BY DEF Loses, StatusFails, ListFiles, RmdirFails, Outcomes
<1>2. /\ UNCHANGED <<dirs, mounts, full, target>>
      /\ pc[x] # "idle"
      /\ \/ /\ mounted' = mounted /\ clean' = [clean EXCEPT ![x] = FALSE]
            /\ left' = left \cup Own(x)
         \/ /\ pc[x] \in {"mktemp", "mount", "remount", "umount"}
            /\ mounted' = mounted /\ clean' = clean
            /\ left' = IF pc[x] = "mount" THEN left \cup Own(x) ELSE left
         \/ /\ pc[x] \in {"list", "rmdir"}
            /\ mounted' = [mounted EXCEPT ![x] = FALSE] /\ clean' = clean
            /\ left' = left \cup Own(x)
  BY DEF Loses, StatusFails, ListFiles, RmdirFails, host
<1>3. Own(x) \subseteq TmpDirs
  BY DEF Own, ObjectInv
<1>4. TypeOK' /\ ObjectInv(x)' /\ LeftInv(x)'
  <2>1. mounted' \in [Objects -> BOOLEAN] /\ clean' \in [Objects -> BOOLEAN]
    BY <1>2 DEF TypeOK
  <2>2. left' \subseteq TmpDirs
    BY <1>2, <1>3 DEF TypeOK
  <2>3. how = "ok" \/ mounted'[x] => target[x] # None
    BY <1>1, <1>2 DEF TypeOK, ObjectInv
  <2> QED
    BY <1>1, <1>2, <2>1, <2>2, <2>3, EndStep DEF TypeOK
<1>5. pc'[x] = "idle" /\ \A o \in Objects : o # x => pc'[o] = pc[o] /\ block'[o] = block[o]
  BY <1>1, EndFacts
<1>6. Stepped(x)
  <2>1. \A p \in Paths : Len(mounts'[p]) <= Len(mounts[p]) + 1
    BY <1>2, Lengths
  <2>2. Tmp(x) /\ target[x] \in dirs /\ ~ mounted'[x] => target[x] \in left'
    <3>1. target[x] \in dirs => target[x] # None
      BY MountAssumption DEF MountAssumption, TypeOK
    <3> QED
      BY <1>2, <3>1 DEF Own, LeftInv, ObjectInv
  <2> QED
    BY <1>2, <1>5, <2>1, <2>2 DEF Stepped, MountsInv, TypeOK
<1>7. SingleInv(x)'
  BY <1>2, <1>5 DEF SingleInv, Tmp
<1>8. TruthInv(x)'
  BY <1>2, <1>5, Lengths DEF TruthInv, Alone, Tmp, TypeOK
<1> QED
  BY <1>4, <1>6, <1>7, <1>8

\* The command took effect and its answer was lost.
LEMMA LosesAfterFacts ==
    ASSUME StorageInv, NEW x \in Objects, NEW p \in Paths, LosesAfter(x, p)
    PROVE  /\ \E how \in Outcomes \ {"ok"} : End(x, how)
           /\ target' = target /\ mounted' = mounted
           /\ clean' = [clean EXCEPT ![x] = FALSE]
           /\ left \subseteq left' /\ left' \subseteq TmpDirs
           /\ p \in TmpDirs => p \in left'
           /\ Tmp(x) /\ target[x] # None => target[x] \in left'
  BY DEF LosesAfter, Broken, Own, Outcomes, StorageInv, Inv, ObjectInv, TypeOK

LEMMA MktempStep ==
    ASSUME StorageInv, NEW x \in Objects, Mktemp(x)
    PROVE  TypeOK' /\ Stepped(x) /\ Inv(x)'
<1> USE DEF StorageInv, Inv
<1>1. PICK d \in TmpDirs \ dirs :
         /\ \A o \in Objects : o # x => target[o] # d
         /\ pc[x] = "mktemp" /\ dirs' = dirs \cup {d} /\ UNCHANGED <<mounts, full>>
         /\ \/ /\ target' = [target EXCEPT ![x] = d]
               /\ pc' = [pc EXCEPT ![x] = "mount"]
               /\ UNCHANGED <<mounted, block, raised, outcome, calls, clean, left>>
            \/ LosesAfter(x, d)
  BY DEF Mktemp
<1>2. Tmp(x) /\ d \in Paths /\ d # None /\ mounts[d] = <<>> /\ Len(mounts[d]) = 0
  BY <1>1, MountAssumption, Lengths DEF MountAssumption, Paths, ObjectInv, MountsInv
<1>3. /\ \A p \in Paths : Len(mounts'[p]) <= Len(mounts[p]) + 1
      /\ \A p \in Paths : mounts'[p] # <<>> => p \in dirs'
  BY <1>1, Lengths DEF MountsInv
<1>4. target[x] \in dirs => target[x] \in left
  BY <1>1 DEF LeftInv
<1>5. CASE LosesAfter(x, d)
  <2>1. TypeOK' /\ ObjectInv(x)' /\ LeftInv(x)'
    <3>1. PICK how \in Outcomes \ {"ok"} :
          /\ End(x, how)
          /\ target' = target /\ mounted' = mounted /\ left' \subseteq TmpDirs
          /\ clean' = [clean EXCEPT ![x] = FALSE]
      BY <1>2, <1>5, LosesAfterFacts
    <3>2. mounted'[x] => target[x] # None
      BY <3>1 DEF ObjectInv
    <3>3. /\ mounted' \in [Objects -> BOOLEAN] /\ clean' \in [Objects -> BOOLEAN]
          /\ dirs' \subseteq Paths /\ mounts' \in [Paths -> Seq(Sources)]
          /\ full' \subseteq Sources \cup Paths
      BY <1>1, <1>2, <3>1 DEF TypeOK
    <3> QED
      BY <3>1, <3>2, <3>3, EndStep
  <2>2. pc'[x] = "idle" /\ \A o \in Objects : o # x => pc'[o] = pc[o] /\ block'[o] = block[o]
    BY <1>2, <1>5, LosesAfterFacts, EndFacts
  <2>5. /\ target' = target /\ mounted' = mounted /\ d \in left' /\ left \subseteq left'
        /\ \A o \in Objects : o # x => clean'[o] = clean[o]
    BY <1>2, <1>5, LosesAfterFacts DEF TypeOK
  <2>3. Stepped(x)
    BY <1>1, <1>3, <1>4, <2>2, <2>5 DEF Stepped, TypeOK
  <2>4. SingleInv(x)' /\ TruthInv(x)'
    BY <1>1, <1>2, <1>5, <2>2, LosesAfterFacts DEF SingleInv, TruthInv, Tmp, TypeOK
  <2> QED
    BY <2>1, <2>3, <2>4
<1>6. CASE /\ target' = [target EXCEPT ![x] = d]
           /\ pc' = [pc EXCEPT ![x] = "mount"]
           /\ UNCHANGED <<mounted, block, raised, outcome, calls, clean, left>>
  <2>1. TypeOK'
    BY <1>1, <1>2, <1>6 DEF TypeOK
  <2>2. /\ target'[x] = d /\ pc'[x] = "mount"
        /\ \A o \in Objects : o # x => target'[o] = target[o] /\ pc'[o] = pc[o]
    BY <1>6 DEF TypeOK
  <2>3. Stepped(x)
    BY <1>1, <1>2, <1>3, <1>4, <1>6, <2>2 DEF Stepped, TypeOK
  <2>4. ObjectInv(x)' /\ LeftInv(x)' /\ SingleInv(x)'
    BY <1>1, <1>2, <1>6, <2>2 DEF ObjectInv, LeftInv, SingleInv, Tmp
  <2>5. clean[x] /\ Alone(x) => ~ mounted[x]
    BY <1>1 DEF TruthInv, ObjectInv
  <2>6. TruthInv(x)'
    BY <1>1, <1>2, <1>6, <2>2, <2>5 DEF TruthInv, Alone, Tmp
  <2> QED
    BY <2>1, <2>3, <2>4, <2>6
<1> QED
  BY <1>1, <1>5, <1>6

LEMMA MountStep ==
    ASSUME StorageInv, NEW x \in Objects, MountCommand(x)
    PROVE  TypeOK' /\ Stepped(x) /\ Inv(x)'
<1> USE DEF StorageInv, Inv
<1> DEFINE p == target[x]
<1>1. /\ pc[x] = "mount" /\ p \in dirs /\ p \in Paths /\ p # None
      /\ Source[x] \in Sources /\ mounts[p] \in Seq(Sources)
  BY MountAssumption DEF MountAssumption, MountCommand, MountEffect, TypeOK
<1>2. /\ mounts' = [mounts EXCEPT ![p] = Append(mounts[p], Source[x])]
      /\ UNCHANGED <<dirs, full>>
  BY DEF MountCommand, MountEffect
<1>3. /\ mounts' \in [Paths -> Seq(Sources)]
      /\ mounts'[p] # <<>> /\ Len(mounts'[p]) = Len(mounts[p]) + 1
      /\ \A q \in Paths : q # p => mounts'[q] = mounts[q]
  BY <1>1, <1>2, Pushed DEF TypeOK
<1>4. \A q \in Paths : Len(mounts'[q]) <= Len(mounts[q]) + 1
  BY <1>1, <1>3, Lengths
<1>5. PICK how \in Outcomes :
         /\ End(x, how) /\ target' = target
         /\ \/ mounted' = [mounted EXCEPT ![x] = TRUE] /\ clean' = clean /\ left' = left
            \/ /\ mounted' = mounted /\ clean' = [clean EXCEPT ![x] = FALSE]
               /\ left \subseteq left' /\ left' \subseteq TmpDirs
               /\ Tmp(x) => p \in left'
  BY <1>1, LosesAfterFacts DEF MountCommand, Outcomes
<1>6. TypeOK' /\ ObjectInv(x)' /\ LeftInv(x)'
  BY <1>1, <1>2, <1>3, <1>5, EndStep DEF TypeOK
<1>7. pc'[x] = "idle" /\ \A o \in Objects : o # x => pc'[o] = pc[o] /\ block'[o] = block[o]
  BY <1>5, EndFacts
<1>8. Stepped(x)
  BY <1>1, <1>2, <1>3, <1>4, <1>5, <1>7 DEF Stepped, TypeOK
<1>9. SingleInv(x)'
  BY <1>1, <1>3, <1>5, <1>7, Lengths DEF SingleInv, Tmp
<1>10. TruthInv(x)'
  BY <1>1, <1>3, <1>5, <1>7 DEF TruthInv, Alone, Tmp, TypeOK
<1> QED
  BY <1>6, <1>8, <1>9, <1>10

LEMMA UmountStep ==
    ASSUME StorageInv, NEW x \in Objects, UmountCommand(x)
    PROVE  TypeOK' /\ Stepped(x) /\ Inv(x)'
<1> USE DEF StorageInv, Inv
<1> DEFINE p == target[x]
<1>1. /\ pc[x] = "umount" /\ p \in Paths /\ p # None
      /\ mounts[p] # <<>> /\ mounts[p] \in Seq(Sources) /\ Len(mounts[p]) \in Nat
      /\ p \in dirs
  BY MountAssumption, Lengths DEF MountAssumption, UmountCommand, UmountEffect, TypeOK, MountsInv
<1>2. /\ mounts' = [mounts EXCEPT ![p] = SubSeq(mounts[p], 1, Len(mounts[p]) - 1)]
      /\ UNCHANGED <<dirs, full>>
  BY DEF UmountCommand, UmountEffect
<1>3. /\ mounts' \in [Paths -> Seq(Sources)]
      /\ Len(mounts'[p]) = Len(mounts[p]) - 1
      /\ \A q \in Paths : q # p => mounts'[q] = mounts[q]
  BY <1>1, <1>2, Popped DEF TypeOK
<1>4. \A q \in Paths : Len(mounts'[q]) <= Len(mounts[q]) + 1
  <2>1. Len(mounts[p]) - 1 <= Len(mounts[p]) + 1
    BY <1>1
  <2> QED
    BY <1>3, <2>1, Lengths
<1>5. CASE ~ (Tmp(x) /\ pc' = [pc EXCEPT ![x] = "list"])
  <2>1. PICK how \in Outcomes :
         /\ End(x, how) /\ target' = target
         /\ \/ /\ ~ Tmp(x) /\ mounted' = [mounted EXCEPT ![x] = FALSE]
               /\ clean' = clean /\ left' = left
            \/ /\ mounted' = mounted /\ clean' = [clean EXCEPT ![x] = FALSE]
               /\ left \subseteq left' /\ left' \subseteq TmpDirs
               /\ Tmp(x) => p \in left'
    BY <1>1, <1>5, LosesAfterFacts DEF UmountCommand, Outcomes
  <2>2. TypeOK' /\ ObjectInv(x)' /\ LeftInv(x)'
    BY <1>1, <1>2, <1>3, <2>1, EndStep DEF TypeOK
  <2>3. pc'[x] = "idle" /\ \A o \in Objects : o # x => pc'[o] = pc[o] /\ block'[o] = block[o]
    BY <2>1, EndFacts
  <2>4. Stepped(x)
    BY <1>1, <1>2, <1>3, <1>4, <2>1, <2>3 DEF Stepped, TypeOK
  <2>5. SingleInv(x)'
    BY <1>1, <1>3, <2>1, <2>3 DEF SingleInv, Tmp
  <2>6. TruthInv(x)'
    BY <1>1, <1>3, <2>1, <2>3 DEF TruthInv, Alone, Tmp, TypeOK
  <2> QED
    BY <2>2, <2>4, <2>5, <2>6
<1>6. CASE Tmp(x) /\ pc' = [pc EXCEPT ![x] = "list"]
  <2>1. UNCHANGED <<target, mounted, block, raised, outcome, calls, clean, left>>
    <3>1. ASSUME NEW how \in Outcomes, End(x, how) PROVE FALSE
      BY <1>6, <3>1, EndFacts DEF TypeOK
    <3> QED
      BY <1>1, <1>6, <3>1, LosesAfterFacts DEF UmountCommand
  <2>2. TypeOK'
    BY <1>1, <1>2, <1>3, <1>6, <2>1 DEF TypeOK
  <2>3. pc'[x] = "list" /\ \A o \in Objects : o # x => pc'[o] = pc[o] /\ block'[o] = block[o]
    BY <1>6, <2>1 DEF TypeOK
  <2>4. Stepped(x)
    BY <1>1, <1>2, <1>3, <1>4, <2>1, <2>3 DEF Stepped, TypeOK
  <2>5. Len(mounts'[p]) = 0 /\ mounts'[p] = <<>>
    <3>1. Len(mounts[p]) <= 1
      BY <1>1, <1>6 DEF SingleInv
    <3>2. Len(mounts'[p]) = 0
      <4>1. Len(mounts[p]) # 0
        BY <1>1, Lengths
      <4>2. \A n \in Nat : n <= 1 /\ n # 0 => n = 1
        OBVIOUS
      <4>3. Len(mounts[p]) = 1
        BY <1>1, <3>1, <4>1, <4>2, Zenon
      <4> QED
        BY <1>3, <4>3
    <3> QED
      BY <1>1, <1>3, <3>2, EmptySeq
  <2>6. ObjectInv(x)' /\ LeftInv(x)' /\ SingleInv(x)' /\ TruthInv(x)'
    BY <1>1, <1>6, <2>1, <2>3, <2>5 DEF ObjectInv, LeftInv, SingleInv, TruthInv, Tmp
  <2> QED
    BY <2>2, <2>4, <2>6
<1> QED
  BY <1>5, <1>6

LEMMA RmdirStep ==
    ASSUME StorageInv, NEW x \in Objects, Rmdir(x)
    PROVE  TypeOK' /\ Stepped(x) /\ Inv(x)'
<1> USE DEF StorageInv, Inv
<1> DEFINE p == target[x]
<1>1. /\ pc[x] = "rmdir" /\ Tmp(x) /\ p \in Paths /\ p # None
      /\ mounts[p] = <<>>
  BY MountAssumption DEF MountAssumption, Rmdir, TypeOK, ObjectInv, SingleInv
<1>2. /\ full' \subseteq full /\ dirs' = dirs \ {p} /\ mounts' = mounts
  BY <1>1 DEF Rmdir
<1>3. PICK how \in Outcomes :
         /\ End(x, how) /\ target' = target
         /\ \/ mounted' = [mounted EXCEPT ![x] = FALSE] /\ clean' = clean /\ left' = left
            \/ /\ mounted' = mounted /\ clean' = [clean EXCEPT ![x] = FALSE]
               /\ left \subseteq left' /\ left' \subseteq TmpDirs
  BY <1>1, LosesAfterFacts DEF Rmdir, Outcomes
<1>4. TypeOK' /\ ObjectInv(x)' /\ LeftInv(x)'
  BY <1>1, <1>2, <1>3, EndStep DEF TypeOK
<1>5. pc'[x] = "idle" /\ \A o \in Objects : o # x => pc'[o] = pc[o] /\ block'[o] = block[o]
  BY <1>3, EndFacts
<1>6. \A q \in Paths : Len(mounts'[q]) <= Len(mounts[q]) + 1
  BY <1>2, Lengths
<1>7. Stepped(x)
  BY <1>1, <1>2, <1>3, <1>5, <1>6 DEF Stepped, TypeOK
<1>8. SingleInv(x)'
  BY <1>2, <1>3, <1>5 DEF SingleInv, Tmp
<1>9. TruthInv(x)'
  BY <1>1, <1>2, <1>3, <1>5, Lengths DEF TruthInv, Alone, Tmp, TypeOK
<1> QED
  BY <1>4, <1>7, <1>8, <1>9

LEMMA LookStep ==
    ASSUME StorageInv, NEW x \in Objects, RemountCommand(x) \/ ListEmpty(x)
    PROVE  TypeOK' /\ Stepped(x) /\ Inv(x)'
<1> USE DEF StorageInv, Inv
<1>1. UNCHANGED <<dirs, mounts, full, target, mounted, clean, left>>
  BY DEF RemountCommand, ListEmpty, host
<1>2. \A q \in Paths : Len(mounts'[q]) <= Len(mounts[q]) + 1
  BY <1>1, Lengths
<1>3. CASE RemountCommand(x)
  <2>1. pc[x] = "remount" /\ mounted[x] /\ target[x] # None /\ End(x, "ok") /\ "ok" \in Outcomes
    BY <1>3 DEF RemountCommand, ObjectInv, Outcomes
  <2>2. TypeOK' /\ ObjectInv(x)' /\ LeftInv(x)'
    BY <1>1, <2>1, EndStep DEF TypeOK
  <2>3. pc'[x] = "idle" /\ \A o \in Objects : o # x => pc'[o] = pc[o] /\ block'[o] = block[o]
    BY <2>1, EndFacts
  <2>4. Stepped(x)
    BY <1>1, <1>2, <2>1, <2>3 DEF Stepped, MountsInv, TypeOK
  <2>5. SingleInv(x)' /\ TruthInv(x)'
    BY <1>1, <2>1, <2>3 DEF SingleInv, TruthInv, Alone, Tmp
  <2> QED
    BY <2>2, <2>4, <2>5
<1>4. CASE ListEmpty(x)
  <2>1. /\ pc[x] = "list" /\ pc' = [pc EXCEPT ![x] = "rmdir"]
        /\ UNCHANGED <<block, raised, outcome, calls>>
    BY <1>4 DEF ListEmpty
  <2>2. TypeOK'
    BY <1>1, <2>1 DEF TypeOK
  <2>3. pc'[x] = "rmdir" /\ \A o \in Objects : o # x => pc'[o] = pc[o] /\ block'[o] = block[o]
    BY <2>1 DEF TypeOK
  <2>4. Stepped(x)
    BY <1>1, <1>2, <2>1, <2>3 DEF Stepped, MountsInv, TypeOK
  <2>5. ObjectInv(x)' /\ LeftInv(x)' /\ SingleInv(x)' /\ TruthInv(x)'
    BY <1>1, <2>1, <2>3 DEF ObjectInv, LeftInv, SingleInv, TruthInv, Alone, Tmp
  <2> QED
    BY <2>2, <2>4, <2>5
<1> QED
  BY <1>3, <1>4

LEMMA CommandStep ==
    ASSUME StorageInv, NEW x \in Objects, Commands(x)
    PROVE  TypeOK' /\ Stepped(x) /\ Inv(x)'
  BY FailStep, MktempStep, MountStep, UmountStep, RmdirStep, LookStep DEF Commands

----------------------------------------------------------------------------
(* The objects, the directories and the threads together.                  *)

LEMMA CrowdStep ==
    ASSUME TypeOK, TypeOK', CrowdInv, UNCHANGED <<nfsAt, nfsTarget>>, NfsTypes,
           \A p \in Paths : Len(mounts'[p]) <= Len(mounts[p]) + 1,
           crowded' = crowded \cup {p \in Paths : Crowds(p)}
    PROVE  CrowdInv'
<1>1. ASSUME NEW p \in Paths, Len(mounts'[p]) >= 2 PROVE p \in crowded'
  <2>1. Len(mounts[p]) \in Nat /\ Len(mounts'[p]) \in Nat /\ (mounts[p] = <<>> <=> Len(mounts[p]) = 0)
    BY Lengths DEF TypeOK
  <2>2. CASE Len(mounts[p]) >= 2
    BY <2>2 DEF CrowdInv
  <2>3. CASE ~ (Len(mounts[p]) >= 2)
    <3>1. Len(mounts'[p]) > Len(mounts[p]) /\ mounts[p] # <<>>
      BY <1>1, <2>1, <2>3
    <3> QED
      BY <3>1 DEF Crowds
  <2> QED
    BY <2>2, <2>3
<1>2. ASSUME NEW c \in Clients, nfsAt[c] = "rmdir", mounts'[nfsTarget[c]] # <<>>
      PROVE  nfsTarget[c] \in crowded'
  <2> DEFINE p == nfsTarget[c]
  <2>1. p \in Paths
    BY DEF NfsTypes, Paths
  <2>2. /\ Len(mounts[p]) \in Nat /\ Len(mounts'[p]) \in Nat
        /\ mounts[p] = <<>> <=> Len(mounts[p]) = 0
        /\ mounts'[p] = <<>> <=> Len(mounts'[p]) = 0
    <3>1. mounts'[p] \in Seq(Sources)
      BY <2>1 DEF TypeOK
    <3> QED
      BY <2>1, <3>1, Lengths, EmptySeq
  <2>3. CASE mounts[p] # <<>>
    BY <1>2, <2>3 DEF CrowdInv
  <2>4. CASE mounts[p] = <<>>
    <3>1. Len(mounts'[p]) > Len(mounts[p])
      BY <1>2, <2>2, <2>4
    <3> QED
      BY <1>2, <2>1, <3>1 DEF Crowds
  <2> QED
    BY <2>3, <2>4
<1> QED
  BY <1>1, <1>2 DEF CrowdInv

LEMMA ObjectStep ==
    ASSUME StorageInv, NEW x \in Objects, TypeOK', Stepped(x), Inv(x)',
           UNCHANGED <<nfsAt, nfsTarget, nfsSource>>,
           crowded' = crowded \cup {p \in Paths : Crowds(p)}
    PROVE  StorageInv'
<1> USE DEF StorageInv
<1>1. NfsTypes' /\ CrowdInv'
  <2>1. \A p \in Paths : Len(mounts'[p]) <= Len(mounts[p]) + 1
    BY DEF Stepped
  <2> QED
    BY <2>1, CrowdStep DEF NfsTypes
<1>2. Distinct'
  <2> SUFFICES ASSUME NEW o \in Objects, NEW y \in Objects,
                      Tmp(o), target'[o] = target'[y], target'[o] # None, o # y
               PROVE  FALSE
    BY DEF Distinct, Tmp
  <2>1. ASSUME o # x, y # x PROVE FALSE
    BY <2>1 DEF Stepped, Distinct
  <2>2. ASSUME o = x PROVE FALSE
    BY <2>2 DEF Stepped, Distinct
  <2>3. ASSUME y = x PROVE FALSE
    BY <2>3 DEF Stepped, Distinct
  <2> QED
    BY <2>1, <2>2, <2>3
<1>3. MountsInv'
  <2> SUFFICES ASSUME NEW p \in Paths, mounts'[p] # <<>> PROVE p \in dirs'
    BY DEF MountsInv
  <2>1. CASE p = target[x]
    BY <2>1, MountAssumption DEF MountAssumption, Stepped
  <2>2. CASE p # target[x]
    BY <2>2 DEF Stepped, MountsInv
  <2> QED
    BY <2>1, <2>2
<1>4. TempDirsRemoved'
  <2> SUFFICES ASSUME NEW d \in TmpDirs \cap dirs', d \notin left'
               PROVE  \E o \in Objects : Tmp(o) /\ target'[o] = d /\ (mounted'[o] \/ pc'[o] # "idle")
    BY DEF TempDirsRemoved, Tmp
  <2>1. CASE d \in dirs
    <3>1. PICK o \in Objects : Tmp(o) /\ target[o] = d /\ (mounted[o] \/ pc[o] # "idle")
      BY <2>1 DEF TempDirsRemoved, Stepped
    <3> QED
      BY <2>1, <3>1 DEF Stepped
  <2>2. CASE d \notin dirs
    BY <2>2 DEF Stepped
  <2> QED
    BY <2>1, <2>2
<1>5. ASSUME NEW o \in Objects, o # x PROVE Inv(o)'
  <2>1. /\ target'[o] = target[o] /\ mounted'[o] = mounted[o] /\ pc'[o] = pc[o]
        /\ clean'[o] = clean[o] /\ block'[o] = block[o] /\ left \subseteq left'
    BY <1>5 DEF Stepped
  <2>2. ObjectInv(o)
    BY DEF Inv
  <2>3. ObjectInv(o)'
    BY <2>1, <2>2 DEF ObjectInv, Tmp
  <2>4. target[o] \in dirs' => target[o] \in dirs
    BY <1>5 DEF Stepped
  <2>5. LeftInv(o)'
    BY <2>1, <2>4 DEF Inv, LeftInv, Tmp
  <2>6. Tmp(o) /\ target[o] # None => mounts'[target[o]] = mounts[target[o]]
    BY <1>5 DEF Stepped, Distinct, TypeOK
  <2>7. SingleInv(o)'
    BY <2>1, <2>6 DEF Inv, SingleInv, Tmp
  <2>8. Alone(o) /\ target[o] # None => mounts'[target[o]] = mounts[target[o]]
    <3>1. CASE Tmp(o)
      BY <3>1, <2>6
    <3>2. CASE ~ Tmp(o) /\ Alone(o) /\ target[o] # None
      <4>1. target[o] = Given[o] /\ target[o] \in Targets
        BY <2>2, <3>2, MountAssumption DEF MountAssumption, ObjectInv, Tmp
      <4>2. target[o] # target[x]
        <5>1. ObjectInv(x)
          BY DEF Inv
        <5> QED
          BY <1>5, <3>2, <4>1, <5>1, MountAssumption DEF MountAssumption, ObjectInv, Alone
      <4> QED
        BY <4>1, <4>2 DEF Stepped, Paths
    <3> QED
      BY <3>1, <3>2
  <2>9. TruthInv(o)'
    BY <2>1, <2>8 DEF Inv, TruthInv, Alone, Tmp
  <2> QED
    BY <2>3, <2>5, <2>7, <2>9 DEF Inv
<1> QED
  BY <1>1, <1>2, <1>3, <1>4, <1>5

LEMMA WriteStep ==
    ASSUME StorageInv, NEW p \in Paths, Write(p), UNCHANGED <<nfsAt, nfsTarget, nfsSource>>,
           crowded' = crowded \cup {q \in Paths : Crowds(q)}
    PROVE  StorageInv'
<1> USE DEF StorageInv
<1>1. /\ UNCHANGED <<dirs, mounts, target, mounted, pc, block, raised, outcome, calls, clean, left>>
      /\ full' = full \cup {Visible(p)}
  BY DEF Write, object
<1>2. Visible(p) \in Sources \cup Paths
  <2>1. mounts[p] \in Seq(Sources) /\ (mounts[p] # <<>> => Len(mounts[p]) \in 1 .. Len(mounts[p]))
    BY Lengths
  <2> QED
    BY <2>1, ElementOfSeq DEF Visible
<1>3. TypeOK'
  BY <1>1, <1>2 DEF TypeOK
<1>4. CrowdInv'
  BY <1>1, <1>3, Lengths, CrowdStep
<1>5. NfsTypes' /\ Distinct' /\ MountsInv' /\ TempDirsRemoved'
  BY <1>1 DEF NfsTypes, Distinct, MountsInv, TempDirsRemoved, Tmp
<1>6. ASSUME NEW o \in Objects PROVE Inv(o)'
  BY <1>1 DEF Inv, ObjectInv, SingleInv, LeftInv, TruthInv, Alone, Tmp
<1> QED
  BY <1>3, <1>4, <1>5, <1>6

\* What a step of a thread with NFSService does to the directories.
NfsStepped(c) ==
    /\ dirs' \subseteq Paths /\ mounts' \in [Paths -> Seq(Sources)] /\ full' \subseteq Sources \cup Paths
    /\ dirs' \ dirs \subseteq Targets
    /\ \A p \in dirs \ dirs' : mounts'[p] = <<>>
    /\ \A p \in Paths : p # nfsTarget[c] => mounts'[p] = mounts[p]
    /\ \A p \in Paths : Len(mounts'[p]) <= Len(mounts[p]) + 1
    /\ \A p \in Paths : mounts'[p] # <<>> /\ mounts[p] = <<>> => p \in dirs
    /\ \A w \in Clients : w # c => nfsAt'[w] = nfsAt[w] /\ nfsTarget'[w] = nfsTarget[w]
    /\ nfsAt'[c] = "rmdir" => /\ nfsTarget'[c] = nfsTarget[c]
                              /\ mounts'[nfsTarget[c]] # <<>> => Len(mounts[nfsTarget[c]]) >= 2

LEMMA NfsWorkStep ==
    ASSUME StorageInv, NEW c \in Clients, NfsWorks(c)
    PROVE  NfsStepped(c) /\ NfsTypes'
<1> USE DEF StorageInv
<1> DEFINE p == nfsTarget[c]
<1>1. p \in Targets /\ p \in Paths /\ mounts[p] \in Seq(Sources)
  BY DEF NfsTypes, Paths, TypeOK
<1>2. \A q \in Paths : Len(mounts[q]) \in Nat /\ Len(mounts[q]) <= Len(mounts[q]) + 1
  BY Lengths
<1>3. CASE NfsMount(c) \/ NfsUmount(c)
  <2>1. NfsTypes'
    BY <1>3, NfsAssumption DEF NfsAssumption, NfsMount, NfsUmount, Goes, NfsTypes, Paths
  <2>2. /\ UNCHANGED host /\ nfsAt'[c] # "rmdir"
        /\ \A w \in Clients : w # c => nfsAt'[w] = nfsAt[w] /\ nfsTarget'[w] = nfsTarget[w]
    BY <1>3 DEF NfsMount, NfsUmount, Goes, NfsTypes
  <2> QED
    BY <1>2, <2>1, <2>2 DEF NfsStepped, host, TypeOK
<1>4. CASE NfsMkdir(c) \/ NfsFails(c)
  <2>1. NfsTypes'
    BY <1>4 DEF NfsMkdir, NfsFails, Goes, Returns, nfsCall, NfsTypes
  <2>2. /\ UNCHANGED <<mounts, full>> /\ nfsAt'[c] # "rmdir"
        /\ dirs' = dirs \/ dirs' = dirs \cup {p}
        /\ \A w \in Clients : w # c => nfsAt'[w] = nfsAt[w] /\ nfsTarget'[w] = nfsTarget[w]
    BY <1>4 DEF NfsMkdir, NfsFails, Goes, Returns, nfsCall, host, NfsTypes
  <2> QED
    BY <1>1, <1>2, <2>1, <2>2 DEF NfsStepped, TypeOK
<1>5. CASE NfsMountCommand(c)
  <2>1. NfsTypes'
    BY <1>5 DEF NfsMountCommand, Returns, nfsCall, NfsTypes
  <2>2. /\ p \in dirs /\ nfsSource[c] \in Sources
        /\ mounts' = [mounts EXCEPT ![p] = Append(mounts[p], nfsSource[c])]
        /\ UNCHANGED <<dirs, full>> /\ nfsAt'[c] # "rmdir"
        /\ \A w \in Clients : w # c => nfsAt'[w] = nfsAt[w] /\ nfsTarget'[w] = nfsTarget[w]
    BY <1>5 DEF NfsMountCommand, Returns, nfsCall, NfsTypes
  <2>3. /\ mounts' \in [Paths -> Seq(Sources)]
        /\ Len(mounts'[p]) = Len(mounts[p]) + 1
        /\ \A q \in Paths : q # p => mounts'[q] = mounts[q]
    BY <1>1, <2>2, Pushed DEF TypeOK
  <2>4. \A q \in Paths : Len(mounts'[q]) <= Len(mounts[q]) + 1
    BY <1>1, <1>2, <2>3
  <2> QED
    BY <2>1, <2>2, <2>3, <2>4 DEF NfsStepped, TypeOK
<1>6. CASE NfsUmountCommand(c)
  <2>1. NfsTypes'
    BY <1>6 DEF NfsUmountCommand, Goes, Returns, nfsCall, NfsTypes
  <2>2. /\ mounts[p] # <<>>
        /\ mounts' = [mounts EXCEPT ![p] = SubSeq(mounts[p], 1, Len(mounts[p]) - 1)]
        /\ UNCHANGED <<dirs, full>> /\ nfsTarget' = nfsTarget
        /\ \A w \in Clients : w # c => nfsAt'[w] = nfsAt[w]
    BY <1>6 DEF NfsUmountCommand, Goes, Returns, nfsCall, NfsTypes
  <2>3. /\ mounts' \in [Paths -> Seq(Sources)]
        /\ Len(mounts'[p]) = Len(mounts[p]) - 1
        /\ \A q \in Paths : q # p => mounts'[q] = mounts[q]
    BY <1>1, <2>2, Popped DEF TypeOK
  <2>4. \A q \in Paths : Len(mounts'[q]) <= Len(mounts[q]) + 1
    <3>1. Len(mounts[p]) - 1 <= Len(mounts[p]) + 1
      BY <1>1, <1>2
    <3> QED
      BY <1>2, <2>3, <3>1
  <2>5. mounts'[p] # <<>> => Len(mounts[p]) >= 2
    <3>1. mounts'[p] # <<>> => Len(mounts'[p]) \in Nat \ {0}
      BY <1>1, <2>3, EmptySeq
    <3>2. Len(mounts[p]) \in Nat
      BY <1>1, <1>2
    <3> QED
      BY <2>3, <3>1, <3>2
  <2> QED
    BY <2>1, <2>2, <2>3, <2>4, <2>5 DEF NfsStepped, TypeOK
<1>7. CASE NfsRmdir(c)
  <2>1. NfsTypes'
    BY <1>7 DEF NfsRmdir, Returns, nfsCall, NfsTypes
  <2>2. /\ full' \subseteq full /\ mounts' = mounts /\ nfsAt'[c] # "rmdir"
        /\ dirs' = IF mounts[p] = <<>> THEN dirs \ {p} ELSE dirs
        /\ \A w \in Clients : w # c => nfsAt'[w] = nfsAt[w] /\ nfsTarget'[w] = nfsTarget[w]
    BY <1>7 DEF NfsRmdir, Returns, nfsCall, NfsTypes
  <2> QED
    BY <1>2, <2>1, <2>2 DEF NfsStepped, TypeOK
<1> QED
  BY <1>3, <1>4, <1>5, <1>6, <1>7 DEF NfsWorks

LEMMA NfsStep ==
    ASSUME StorageInv, NEW c \in Clients, NfsStepped(c), NfsTypes',
           clean' = [o \in Objects |->
                clean[o] /\ (target[o] # None => mounts'[target[o]] = mounts[target[o]])],
           UNCHANGED <<target, mounted, pc, block, raised, outcome, calls, left>>,
           crowded' = crowded \cup {p \in Paths : Crowds(p)}
    PROVE  StorageInv'
<1> USE DEF StorageInv
<1> USE DEF NfsStepped
<1>1. TypeOK'
  BY DEF TypeOK
<1>2. Distinct' /\ TempDirsRemoved'
  BY MountAssumption DEF MountAssumption, Distinct, TempDirsRemoved, Tmp
<1>3. MountsInv'
  BY DEF MountsInv
<1>4. CrowdInv'
  <2>1. ASSUME NEW p \in Paths, Len(mounts'[p]) >= 2 PROVE p \in crowded'
    <3>1. Len(mounts[p]) \in Nat /\ Len(mounts'[p]) \in Nat /\ (mounts[p] = <<>> <=> Len(mounts[p]) = 0)
      BY Lengths
    <3>2. CASE Len(mounts[p]) >= 2
      BY <3>2 DEF CrowdInv
    <3>3. CASE ~ (Len(mounts[p]) >= 2)
      <4>1. Len(mounts'[p]) > Len(mounts[p]) /\ mounts[p] # <<>>
        BY <2>1, <3>1, <3>3
      <4> QED
        BY <4>1 DEF Crowds
    <3> QED
      BY <3>2, <3>3
  <2>2. ASSUME NEW w \in Clients, nfsAt'[w] = "rmdir", mounts'[nfsTarget'[w]] # <<>>
        PROVE  nfsTarget'[w] \in crowded'
    <3> DEFINE p == nfsTarget'[w]
    <3>1. p \in Paths /\ mounts'[p] \in Seq(Sources)
      BY DEF NfsTypes, Paths
    <3>2. CASE w = c
      BY <2>1, <2>2, <3>1, <3>2 DEF CrowdInv
    <3>3. CASE w # c /\ mounts[p] # <<>>
      BY <2>2, <3>3 DEF CrowdInv
    <3>4. CASE w # c /\ mounts[p] = <<>>
      <4>1. Len(mounts'[p]) > Len(mounts[p])
        BY <2>2, <3>1, <3>4, Lengths, EmptySeq
      <4> QED
        BY <2>2, <3>1, <3>4, <4>1 DEF Crowds
    <3> QED
      BY <3>2, <3>3, <3>4
  <2> QED
    BY <2>1, <2>2 DEF CrowdInv
<1>5. ASSUME NEW o \in Objects PROVE Inv(o)'
  <2>1. ObjectInv(o)
    BY DEF Inv
  <2>2. ObjectInv(o)'
    BY <2>1 DEF ObjectInv, Tmp
  <2>3. Tmp(o) /\ target[o] # None => mounts'[target[o]] = mounts[target[o]]
    <3> SUFFICES ASSUME Tmp(o), target[o] # None PROVE mounts'[target[o]] = mounts[target[o]]
      OBVIOUS
    <3>1. target[o] \in Paths /\ target[o] \notin Targets /\ nfsTarget[c] \in Targets
      BY <2>1, MountAssumption DEF MountAssumption, ObjectInv, NfsTypes, Paths
    <3> QED
      BY <3>1
  <2>4. Tmp(o) => (target[o] \in dirs' => target[o] \in dirs)
    BY <2>1, MountAssumption DEF MountAssumption, ObjectInv, Paths
  <2>5. SingleInv(o)' /\ LeftInv(o)'
    BY <2>1, <2>3, <2>4 DEF Inv, SingleInv, LeftInv, ObjectInv, Tmp
  <2>6. clean'[o] /\ target[o] # None => clean[o] /\ mounts'[target[o]] = mounts[target[o]]
    OBVIOUS
  <2>7. TruthInv(o)'
    BY <2>6 DEF Inv, TruthInv, Alone, Tmp
  <2> QED
    BY <2>2, <2>5, <2>7 DEF Inv
<1> QED
  BY <1>1, <1>2, <1>3, <1>4, <1>5

LEMMA StorageInit == NfsInit => StorageInv
<1> SUFFICES ASSUME NfsInit PROVE StorageInv
  OBVIOUS
<1> USE MountAssumption DEF MountAssumption, NfsInit, Init
<1>1. /\ TypeOK /\ \A p \in Paths : Len(mounts[p]) = 0 /\ mounts[p] = <<>>
  BY EmptySeq DEF TypeOK, Paths, Outcomes
<1>2. NfsTypes
  BY NfsAssumption DEF NfsAssumption, NfsTypes
<1>3. Distinct /\ MountsInv /\ TempDirsRemoved
  BY <1>1 DEF Distinct, MountsInv, TempDirsRemoved, Tmp, Paths
<1>4. CrowdInv
  BY <1>1, <1>2 DEF CrowdInv, NfsTypes, Paths
<1>5. ASSUME NEW o \in Objects PROVE Inv(o)
  <2>1. target[o] # None => target[o] \in Paths
    BY DEF Paths
  <2> QED
    BY <1>1, <2>1 DEF Inv, ObjectInv, SingleInv, LeftInv, TruthInv, Tmp
<1> QED
  BY <1>1, <1>2, <1>3, <1>4, <1>5 DEF StorageInv

LEMMA StorageStep == StorageInv /\ [StorageNext]_nfsVars => StorageInv'
<1> SUFFICES ASSUME StorageInv, [StorageNext]_nfsVars PROVE StorageInv'
  OBVIOUS
<1>1. ASSUME NEW o \in Objects, Calls(o) \/ Exit(o) \/ Commands(o),
             UNCHANGED <<nfsAt, nfsCall>>, crowded' = crowded \cup {p \in Paths : Crowds(p)}
      PROVE  StorageInv'
  <2>1. Calls(o) \/ Commands(o)
    BY <1>1 DEF Calls
  <2> QED
    BY <1>1, <2>1, CallStep, CommandStep, ObjectStep DEF nfsCall
<1>2. ASSUME NEW p \in Paths, Write(p),
             UNCHANGED <<nfsAt, nfsCall>>, crowded' = crowded \cup {q \in Paths : Crowds(q)}
      PROVE  StorageInv'
  BY <1>2, WriteStep DEF nfsCall
<1>3. ASSUME NEW c \in Clients, NfsWorks(c),
             clean' = [o \in Objects |->
                clean[o] /\ (target[o] # None => mounts'[target[o]] = mounts[target[o]])],
             UNCHANGED <<target, mounted, pc, block, raised, outcome, calls, left>>,
             crowded' = crowded \cup {p \in Paths : Crowds(p)}
      PROVE  StorageInv'
  BY <1>3, NfsWorkStep, NfsStep
<1>4. CASE UNCHANGED nfsVars
  <2>1. UNCHANGED <<dirs, mounts, full, target, mounted, pc, block, raised, outcome, calls,
                    clean, left, nfsAt, nfsSource, nfsTarget, crowded>>
    BY <1>4 DEF nfsVars, vars, host, object, nfsCall
  <2>2. TypeOK' /\ NfsTypes' /\ Distinct' /\ MountsInv' /\ TempDirsRemoved' /\ CrowdInv'
    BY <2>1 DEF StorageInv, TypeOK, NfsTypes, Distinct, MountsInv, TempDirsRemoved, CrowdInv, Tmp
  <2>3. ASSUME NEW o \in Objects PROVE Inv(o)'
    BY <2>1 DEF StorageInv, Inv, ObjectInv, SingleInv, LeftInv, TruthInv, Alone, Tmp
  <2> QED
    BY <2>2, <2>3 DEF StorageInv
<1> QED
  BY <1>1, <1>2, <1>3, <1>4 DEF StorageNext

(* The objects, the directories and the threads agree in every state. *)
THEOREM Inductive == StorageSpec => []StorageInv
  BY StorageInit, StorageStep, PTL DEF StorageSpec

(* The variables keep their types; an object that is past mktemp has a target
   (filesystem.py:343-441). *)
THEOREM TypeCorrect == StorageSpec => []TypeOK
<1>1. StorageInv => TypeOK
  BY DEF StorageInv
<1> QED
  BY <1>1, Inductive, PTL

(* Between the calls of an object whose connections held, which was not mounted
   twice and whose directory nobody else used, _mounted is what the host has
   mounted there, whichever commands failed (filesystem.py:410, 423). *)
THEOREM MountedTellsTheTruth == StorageSpec => []MountedIsTrue
<1>1. StorageInv => MountedIsTrue
  <2> SUFFICES ASSUME StorageInv, NEW o \in Objects,
                      pc[o] = "idle", clean[o], Alone(o), target[o] # None
               PROVE  mounted[o] <=> mounts[target[o]] # <<>>
    BY DEF MountedIsTrue
  <2>1. Len(mounts[target[o]]) = IF mounted[o] THEN 1 ELSE 0
    BY DEF StorageInv, Inv, TruthInv
  <2>2. mounts[target[o]] = <<>> <=> Len(mounts[target[o]]) = 0
    BY Lengths DEF StorageInv, TypeOK
  <2> QED
    BY <2>1, <2>2
<1> QED
  BY <1>1, Inductive, PTL

(* A temporary directory outlives the calls of its object, while that is not
   mounted, only for a reason that is known (filesystem.py:396-423). *)
THEOREM TempDirsAreRemoved == StorageSpec => []TempDirsRemoved
<1>1. StorageInv => TempDirsRemoved
  BY DEF StorageInv
<1> QED
  BY <1>1, Inductive, PTL

(* rm -rf erases a mounted source only where mounts were stacked, or put on a
   directory that was being removed, however objects and threads share the
   directories (filesystem.py:421-423, storage.py:83-88). *)
THEOREM SourcesAreKept == StorageSpec => SourcesKept
<1> DEFINE Kept == \A s \in (full \cap Sources) \ full' : \E p \in crowded : s = Visible(p)
<1>1. StorageInv /\ [StorageNext]_nfsVars => [Kept]_nfsVars
  <2> SUFFICES ASSUME StorageInv, StorageNext, NEW s \in (full \cap Sources) \ full'
               PROVE  \E p \in crowded : s = Visible(p)
    BY DEF StorageNext
  <2> USE DEF StorageInv
  <2>0. \A p \in Paths : mounts[p] = <<>> => s # Visible(p)
    BY MountAssumption DEF MountAssumption, Visible
  <2>1. ASSUME NEW o \in Objects, Calls(o) \/ Exit(o) PROVE FALSE
    BY <2>1 DEF Calls, Mount, Enter, Exit, Umount, UmountNowhere, Remount, RemountRefused, host
  <2>2. ASSUME NEW o \in Objects, Commands(o) PROVE FALSE
    <3>1. CASE Rmdir(o)
      <4>1. s = Visible(target[o])
        BY <3>1 DEF Rmdir
      <4>2. target[o] \in Paths /\ mounts[target[o]] = <<>>
        BY <3>1 DEF Rmdir, TypeOK, Inv, ObjectInv, SingleInv
      <4> QED
        BY <2>0, <4>1, <4>2
    <3>2. CASE ~ Rmdir(o)
      BY <2>2, <3>2 DEF Commands, Loses, StatusFails, Mktemp, MountCommand, MountEffect,
         RemountCommand, UmountCommand, UmountEffect, ListEmpty, ListFiles, RmdirFails, host
    <3> QED
      BY <3>1, <3>2
  <2>3. ASSUME NEW p \in Paths, Write(p) PROVE FALSE
    BY <2>3 DEF Write
  <2>4. ASSUME NEW c \in Clients, NfsWorks(c) PROVE \E p \in crowded : s = Visible(p)
    <3>1. CASE NfsRmdir(c)
      <4>1. s = Visible(nfsTarget[c]) /\ nfsAt[c] = "rmdir" /\ nfsTarget[c] \in Paths
        BY <3>1 DEF NfsRmdir, NfsTypes, Paths
      <4> QED
        BY <2>0, <4>1 DEF CrowdInv
    <3>2. CASE ~ NfsRmdir(c)
      BY <2>4, <3>2 DEF NfsWorks, NfsMount, NfsMkdir, NfsMountCommand, NfsUmount,
         NfsUmountCommand, NfsFails, host
    <3> QED
      BY <3>1, <3>2
  <2> QED
    BY <2>1, <2>2, <2>3, <2>4 DEF StorageNext
<1> QED
  BY <1>1, Inductive, PTL DEF StorageSpec, SourcesKept

=============================================================================
