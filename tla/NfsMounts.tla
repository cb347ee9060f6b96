----------------------------- MODULE NfsMounts ------------------------------
(***************************************************************************)
(* NFSService (storage.py:10-88) on the host of MountPoint: threads mount   *)
(* sources on a given directory or on the one fixed default, and unmount   *)
(* and remove a directory with rm -rf.  The service keeps no state, so     *)
(* nothing relates an umount to the mount it undoes.                       *)
(***************************************************************************)
EXTENDS MountPoint

CONSTANTS
    Clients,        \* the threads that use the service
    Default,        \* '/tmp/mnt_point'
    Plans           \* bounds: calls of each object and of each client

ASSUME NfsAssumption ==
    /\ Default \in Targets
    /\ \A p \in Plans : p.objects \in [Objects -> Nat] /\ p.clients \in [Clients -> Nat]

VARIABLES
    nfsAt,      \* the next command of each client
    nfsSource, nfsTarget,   \* what its call is about
    removes,    \* remove_mount_point=
    nfsAnswer,  \* how the last call ended
    nfsCalls,   \* number of calls made
    crowded,    \* paths on which a second mount was put (history)
    plan        \* the bounds in force

nfsCall == <<nfsSource, nfsTarget, removes, nfsCalls>>
nfsVars == <<vars, nfsAt, nfsCall, nfsAnswer, crowded, plan>>

NfsInit ==
    /\ Init
    /\ nfsAt = [c \in Clients |-> "idle"]
    /\ nfsSource = [c \in Clients |-> None] /\ nfsTarget = [c \in Clients |-> Default]
    /\ removes = [c \in Clients |-> FALSE]
    /\ nfsAnswer = [c \in Clients |-> "none"]
    /\ nfsCalls = [c \in Clients |-> 0]
    /\ crowded = {} /\ plan \in Plans

----------------------------------------------------------------------------
Goes(c, step) == nfsAt' = [nfsAt EXCEPT ![c] = step] /\ UNCHANGED nfsAnswer

Returns(c, v) ==
    /\ nfsAt' = [nfsAt EXCEPT ![c] = "idle"]
    /\ nfsAnswer' = [nfsAnswer EXCEPT ![c] = v]

Counted(c) ==
    /\ nfsAt[c] = "idle" /\ nfsCalls[c] < plan.clients[c]
    /\ nfsCalls' = [nfsCalls EXCEPT ![c] = @ + 1]

\* mount(source, target=None)
NfsMount(c) ==
    /\ Counted(c)
    /\ \E s \in Sources, p \in Targets \cup {None} :
          /\ nfsSource' = [nfsSource EXCEPT ![c] = s]
          /\ nfsTarget' = [nfsTarget EXCEPT ![c] = IF p = None THEN Default ELSE p]
    /\ Goes(c, "mkdir")
    /\ UNCHANGED <<host, removes>>

\* umount(mount_point, remove_mount_point=True)
NfsUmount(c) ==
    /\ Counted(c)
    /\ \E p \in Targets, b \in BOOLEAN :
          /\ nfsTarget' = [nfsTarget EXCEPT ![c] = p]
          /\ removes' = [removes EXCEPT ![c] = b]
    /\ Goes(c, "umount")
    /\ UNCHANGED <<host, nfsSource>>

\* mkdir -p target
NfsMkdir(c) ==
    /\ nfsAt[c] = "mkdir"
    /\ dirs' = dirs \cup {nfsTarget[c]}
    /\ Goes(c, "mount") \/ Returns(c, "raised")
    /\ UNCHANGED <<mounts, full, nfsCall>>

\* mount source target
NfsMountCommand(c) ==
    /\ nfsAt[c] = "mount" /\ nfsTarget[c] \in dirs
    /\ mounts' = [mounts EXCEPT ![nfsTarget[c]] = Append(@, nfsSource[c])]
    /\ \E v \in {"target", "raised"} : Returns(c, v)
    /\ UNCHANGED <<dirs, full, nfsCall>>

\* Mutant: the status of umount is not looked at.
NfsUmountUnchecked(c) ==
    /\ nfsAt[c] = "umount"
    /\ mounts' \in {mounts, [mounts EXCEPT ![nfsTarget[c]] = <<>>]}
    /\ \/ removes[c] /\ Goes(c, "rmdir")
       \/ ~ removes[c] /\ Returns(c, "True")
    /\ UNCHANGED <<dirs, full, nfsCall>>

\* umount target -v [-f]: the mount that was put there last.
NfsUmountCommand(c) ==
    /\ nfsAt[c] = "umount"
    /\ mounts[nfsTarget[c]] # <<>>
    /\ mounts' = [mounts EXCEPT ![nfsTarget[c]] = SubSeq(@, 1, Len(@) - 1)]
    /\ \/ removes[c] /\ Goes(c, "rmdir")
       \/ ~ removes[c] /\ Returns(c, "True")
       \/ Returns(c, "raised")
    /\ UNCHANGED <<dirs, full, nfsCall>>

\* host.fs.rmdir: rm -rf of what is seen there; a mount point itself is busy.
NfsRmdir(c) ==
    /\ nfsAt[c] = "rmdir"
    /\ full' = full \ {Visible(nfsTarget[c])}
    /\ dirs' = IF mounts[nfsTarget[c]] = <<>> THEN dirs \ {nfsTarget[c]} ELSE dirs
    /\ \E v \in {IF mounts[nfsTarget[c]] = <<>> THEN "True" ELSE "False", "raised"} : Returns(c, v)
    /\ UNCHANGED <<mounts, nfsCall>>

\* A status other than 0, or a connection that is lost before the command.
NfsFails(c) ==
    /\ nfsAt[c] # "idle"
    /\ \E v \in {IF nfsAt[c] \in {"mkdir", "mount"} THEN "None" ELSE "False", "raised"} : Returns(c, v)
    /\ UNCHANGED <<host, nfsCall>>

NfsWorks(c) ==
    \/ NfsMount(c) \/ NfsMkdir(c) \/ NfsMountCommand(c)
    \/ NfsUmount(c) \/ NfsUmountCommand(c) \/ NfsRmdir(c) \/ NfsFails(c)

\* A mount on a mounted directory, or on one that is about to be removed.
Crowds(p) ==
    /\ Len(mounts'[p]) > Len(mounts[p])
    /\ mounts[p] # <<>> \/ \E c \in Clients : nfsAt[c] = "rmdir" /\ nfsTarget[c] = p

StorageNext ==
    /\ \/ /\ \/ \E o \in Objects : (calls[o] < plan.objects[o] /\ Calls(o)) \/ Exit(o) \/ Commands(o)
             \/ \E p \in Paths : Write(p)
          /\ UNCHANGED <<nfsAt, nfsCall, nfsAnswer>>
       \/ /\ \E c \in Clients : NfsWorks(c)
          /\ clean' = [o \in Objects |->
                clean[o] /\ (target[o] # None => mounts'[target[o]] = mounts[target[o]])]
          /\ UNCHANGED <<target, mounted, pc, block, raised, outcome, calls, left>>
    /\ crowded' = crowded \cup {p \in Paths : Crowds(p)}
    /\ UNCHANGED plan

StorageSpec == NfsInit /\ [][StorageNext]_nfsVars

----------------------------------------------------------------------------
(* Properties.                                                             *)

(* rm -rf runs after a listing whose failure looks like an empty directory
   (filesystem.py:55-58, 421-422), or with no look at all (storage.py:83-88),
   yet it erases a mounted source only if somebody had put another mount on
   the same directory: with one mount on each, umount leaves nothing to
   erase. *)
SourcesKept ==
    [][\A s \in (full \cap Sources) \ full' :
          \E p \in crowded : s = Visible(p)]_nfsVars

=============================================================================
