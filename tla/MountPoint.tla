----------------------------- MODULE MountPoint -----------------------------
(***************************************************************************)
(* filesystem.MountPoint (filesystem.py:343-441) on one host: mounting a    *)
(* source on a given or a temporary directory, remounting, unmounting and  *)
(* removing the temporary directory, directly or in a with block.  Every   *)
(* command is a step of its own, may fail with a status, and may lose its  *)
(* connection before or after it took effect on the host.                  *)
(***************************************************************************)
EXTENDS Naturals, Sequences

CONSTANTS
    Objects,        \* the MountPoint objects, each used by one thread
    Sources,        \* what is mounted
    Targets,        \* directories given as target=
    TmpDirs,        \* names mktemp may choose
    Source,         \* source= of each object
    Given,          \* target= of each object, or None
    None,           \* no target
    MaxCalls        \* bound: calls made on one object

Paths == Targets \cup TmpDirs

ASSUME MountAssumption ==
    /\ Source \in [Objects -> Sources]
    /\ Given \in [Objects -> Targets \cup {None}]
    /\ None \notin Paths /\ Targets \cap TmpDirs = {} /\ Sources \cap Paths = {}
    /\ MaxCalls \in Nat

VARIABLES
    dirs,       \* the directories that exist
    mounts,     \* what is mounted on each, the visible one last
    full,       \* the sources, and the directories below mounts, that have files
    target,     \* MountPoint.target
    mounted,    \* MountPoint._mounted
    pc,         \* the next command of the call that runs, or "idle"
    block,      \* "no", "enter", "body" or "exit" of a with block
    raised,     \* whether the body of the block raised
    outcome,    \* how the last call or block ended
    calls,      \* number of calls made
    clean,      \* no lost connection, no mount() while mounted, no NFSService (history)
    left        \* temporary directories that stay behind for a reason (history)

object == <<target, mounted, pc, block, raised, outcome, calls, clean>>
host   == <<dirs, mounts, full>>
vars   == <<host, object, left>>

Outcomes == {"none", "ok", "mount error", "refused", "other error", "body error"}

TypeOK ==
    /\ dirs \subseteq Paths
    /\ mounts \in [Paths -> Seq(Sources)]
    /\ full \subseteq Sources \cup Paths
    /\ target \in [Objects -> Paths \cup {None}]
    /\ mounted \in [Objects -> BOOLEAN]
    /\ pc \in [Objects -> {"idle", "mktemp", "mount", "remount", "umount", "list", "rmdir"}]
    /\ \A o \in Objects : pc[o] \notin {"idle", "mktemp"} => target[o] # None
    /\ block \in [Objects -> {"no", "enter", "body", "exit"}]
    /\ raised \in [Objects -> BOOLEAN]
    /\ outcome \in [Objects -> Outcomes]
    /\ calls \in [Objects -> 0 .. MaxCalls]
    /\ clean \in [Objects -> BOOLEAN]
    /\ left \subseteq TmpDirs

Init ==
    /\ dirs = Targets
    /\ mounts = [p \in Paths |-> <<>>]
    /\ full \in SUBSET Sources
    /\ target = Given
    /\ mounted = [o \in Objects |-> FALSE]
    /\ pc = [o \in Objects |-> "idle"]
    /\ block = [o \in Objects |-> "no"]
    /\ raised = [o \in Objects |-> FALSE]
    /\ outcome = [o \in Objects |-> "none"]
    /\ calls = [o \in Objects |-> 0]
    /\ clean = [o \in Objects |-> TRUE]
    /\ left = {}

Tmp(o) == Given[o] = None

\* What is seen at a path: the source mounted last, or the directory itself.
Visible(p) == IF mounts[p] = <<>> THEN p ELSE mounts[p][Len(mounts[p])]

----------------------------------------------------------------------------
(* Calls: mount(), umount(), remount(), and entering or leaving a block.   *)

Count(o) == calls[o] < MaxCalls /\ calls' = [calls EXCEPT ![o] = @ + 1]

StartMount(o) ==
    /\ pc' = [pc EXCEPT ![o] = IF Tmp(o) THEN "mktemp" ELSE "mount"]
    /\ clean' = [clean EXCEPT ![o] = @ /\ ~ mounted[o]]
    /\ left' = IF Tmp(o) /\ mounted[o] THEN left \cup {target[o]} ELSE left

Mount(o) ==
    /\ pc[o] = "idle"
    /\ Count(o)
    /\ StartMount(o)
    /\ UNCHANGED <<host, target, mounted, block, raised, outcome>>

\* __enter__
Enter(o) ==
    /\ pc[o] = "idle" /\ block[o] = "no"
    /\ Count(o)
    /\ StartMount(o)
    /\ block' = [block EXCEPT ![o] = "enter"]
    /\ UNCHANGED <<host, target, mounted, raised, outcome>>

\* umount() of an object that was given a target, or mounted once.
Umount(o) ==
    /\ pc[o] = "idle" /\ target[o] # None
    /\ Count(o)
    /\ pc' = [pc EXCEPT ![o] = "umount"]
    /\ UNCHANGED <<host, target, mounted, block, raised, outcome, clean, left>>

\* Before the temporary directory is made there is no target to put into the
\* command: TypeError.
UmountNowhere(o) ==
    /\ pc[o] = "idle" /\ target[o] = None
    /\ Count(o)
    /\ outcome' = [outcome EXCEPT ![o] = "other error"]
    /\ UNCHANGED <<host, target, mounted, pc, block, raised, clean, left>>

\* __exit__, after a body that raised or not.
Exit(o) ==
    /\ pc[o] = "idle" /\ block[o] = "body"
    /\ block' = [block EXCEPT ![o] = "exit"]
    /\ \E raises \in BOOLEAN : raised' = [raised EXCEPT ![o] = raises]
    /\ pc' = [pc EXCEPT ![o] = "umount"]
    /\ UNCHANGED <<host, target, mounted, outcome, calls, clean, left>>

Remount(o) ==
    /\ pc[o] = "idle" /\ mounted[o]
    /\ Count(o)
    /\ pc' = [pc EXCEPT ![o] = "remount"]
    /\ UNCHANGED <<host, target, mounted, block, raised, outcome, clean, left>>

\* FailToRemount(self, '', 'not mounted!')
RemountRefused(o) ==
    /\ pc[o] = "idle" /\ ~ mounted[o]
    /\ Count(o)
    /\ outcome' = [outcome EXCEPT ![o] = "refused"]
    /\ UNCHANGED <<host, target, mounted, pc, block, raised, clean, left>>

----------------------------------------------------------------------------
(* How a call ends, and the with block around it.                          *)

End(o, how) ==
    /\ pc' = [pc EXCEPT ![o] = "idle"]
    /\ block' = [block EXCEPT ![o] = IF @ = "enter" /\ how = "ok" THEN "body"
                                     ELSE IF @ = "body" THEN @ ELSE "no"]
    /\ outcome' = [outcome EXCEPT ![o] =
                     IF block[o] = "exit" /\ raised[o] /\ how \in {"ok", "mount error"}
                     THEN "body error" ELSE how]
    /\ UNCHANGED <<raised, calls>>

\* A path the object may leave behind, if it made it itself.
Own(o) == IF Tmp(o) /\ target[o] # None THEN {target[o]} ELSE {}

\* The connection fails before the command had an effect on the host.
Loses(o) ==
    /\ pc[o] # "idle"
    /\ clean' = [clean EXCEPT ![o] = FALSE]
    /\ left' = left \cup Own(o)
    /\ End(o, "other error")
    /\ UNCHANGED <<host, target, mounted>>

\* What a broken connection is to the caller: an exception, or the status -1,
\* which mount and umount make a MountError of.
Broken(o) == {"other error"} \cup (IF pc[o] \in {"mount", "umount"} THEN {"mount error"} ELSE {})

\* The connection fails after an effect on the host; p is a directory it may leave.
LosesAfter(o, p) ==
    /\ clean' = [clean EXCEPT ![o] = FALSE]
    /\ left' = left \cup ((Own(o) \cup {p}) \cap TmpDirs)
    /\ \E how \in Broken(o) : End(o, how)
    /\ UNCHANGED <<target, mounted>>

\* A status other than 0, of the commands whose status is looked at.
StatusFails(o) ==
    /\ pc[o] \in {"mktemp", "mount", "remount", "umount"}
    /\ left' = IF pc[o] = "mount" THEN left \cup Own(o) ELSE left
    /\ End(o, IF pc[o] = "mktemp" THEN "other error" ELSE "mount error")
    /\ UNCHANGED <<host, target, mounted, clean>>

----------------------------------------------------------------------------
(* The commands that have an effect.                                       *)

\* mktemp -d: a random name, never one that another object still knows.
Mktemp(o) ==
    /\ pc[o] = "mktemp"
    /\ \E d \in TmpDirs \ (dirs \cup {target[x] : x \in Objects \ {o}}) :
          /\ dirs' = dirs \cup {d}
          /\ UNCHANGED <<mounts, full>>
          /\ \/ /\ target' = [target EXCEPT ![o] = d]
                /\ pc' = [pc EXCEPT ![o] = "mount"]
                /\ UNCHANGED <<mounted, block, raised, outcome, calls, clean, left>>
             \/ LosesAfter(o, d)

MountEffect(o) ==
    /\ target[o] \in dirs
    /\ mounts' = [mounts EXCEPT ![target[o]] = Append(@, Source[o])]
    /\ UNCHANGED <<dirs, full>>

\* mount -v [-t type] [-o opts] source target
MountCommand(o) ==
    /\ pc[o] = "mount"
    /\ MountEffect(o)
    /\ \/ /\ mounted' = [mounted EXCEPT ![o] = TRUE]
          /\ End(o, "ok")
          /\ UNCHANGED <<target, clean, left>>
       \/ LosesAfter(o, target[o])

\* mount -v -o remount,opts target
RemountCommand(o) ==
    /\ pc[o] = "remount"
    /\ mounts[target[o]] # <<>>
    /\ End(o, "ok")
    /\ UNCHANGED <<host, target, mounted, clean, left>>

UmountEffect(o) ==
    /\ mounts[target[o]] # <<>>
    /\ mounts' = [mounts EXCEPT ![target[o]] = SubSeq(@, 1, Len(@) - 1)]
    /\ UNCHANGED <<dirs, full>>

\* Mutant: the temporary directory is kept.
UmountCommandKeeps(o) ==
    /\ pc[o] = "umount"
    /\ UmountEffect(o)
    /\ \/ /\ mounted' = [mounted EXCEPT ![o] = FALSE]
          /\ End(o, "ok")
          /\ UNCHANGED <<target, clean, left>>
       \/ LosesAfter(o, target[o])

\* Mutant: the status of umount is not looked at.
UmountCommandUnchecked(o) ==
    /\ pc[o] = "umount"
    /\ UmountEffect(o) \/ UNCHANGED host
    /\ \/ /\ Tmp(o)
          /\ pc' = [pc EXCEPT ![o] = "list"]
          /\ UNCHANGED <<target, mounted, block, raised, outcome, calls, clean, left>>
       \/ /\ ~ Tmp(o)
          /\ mounted' = [mounted EXCEPT ![o] = FALSE]
          /\ End(o, "ok")
          /\ UNCHANGED <<target, clean, left>>

\* Mutant: _mounted is only reset after the directory was removed.
UmountCommandForgets(o) ==
    /\ pc[o] = "umount"
    /\ UmountEffect(o)
    /\ \/ /\ Tmp(o)
          /\ pc' = [pc EXCEPT ![o] = "list"]
          /\ UNCHANGED <<target, mounted, block, raised, outcome, calls, clean, left>>
       \/ /\ ~ Tmp(o)
          /\ End(o, "ok")
          /\ UNCHANGED <<target, mounted, clean, left>>
       \/ LosesAfter(o, target[o])

\* umount -v [-f] target
UmountCommand(o) ==
    /\ pc[o] = "umount"
    /\ UmountEffect(o)
    /\ \/ /\ Tmp(o)
          /\ pc' = [pc EXCEPT ![o] = "list"]
          /\ UNCHANGED <<target, mounted, block, raised, outcome, calls, clean, left>>
       \/ /\ ~ Tmp(o)
          /\ mounted' = [mounted EXCEPT ![o] = FALSE]
          /\ End(o, "ok")
          /\ UNCHANGED <<target, clean, left>>
       \/ LosesAfter(o, target[o])

(* listdir: ls -A1 target.  Its status is not looked at, so a failure looks
   like an empty directory. *)
ListEmpty(o) ==
    /\ pc[o] = "list"
    /\ pc' = [pc EXCEPT ![o] = "rmdir"]
    /\ UNCHANGED <<host, target, mounted, block, raised, outcome, calls, clean, left>>

ListFiles(o) ==
    /\ pc[o] = "list"
    /\ Visible(target[o]) \in full
    /\ mounted' = [mounted EXCEPT ![o] = FALSE]
    /\ left' = left \cup Own(o)
    /\ End(o, "ok")
    /\ UNCHANGED <<host, target, clean>>

(* rmdir: rm -rf target.  It erases what it sees; a directory under a mount
   is busy and stays.  Its status is not looked at. *)
Rmdir(o) ==
    /\ pc[o] = "rmdir"
    /\ full' = full \ {Visible(target[o])}
    /\ dirs' = IF mounts[target[o]] = <<>> THEN dirs \ {target[o]} ELSE dirs
    /\ UNCHANGED mounts
    /\ \/ /\ mounted' = [mounted EXCEPT ![o] = FALSE]
          /\ End(o, "ok")
          /\ UNCHANGED <<target, clean, left>>
       \/ LosesAfter(o, target[o])

\* rm -rf that removes nothing.
RmdirFails(o) ==
    /\ pc[o] = "rmdir"
    /\ mounted' = [mounted EXCEPT ![o] = FALSE]
    /\ left' = left \cup Own(o)
    /\ End(o, "ok")
    /\ UNCHANGED <<host, target, clean>>

\* The body, or anyone on the host, puts a file where the path leads.
Write(p) ==
    /\ p \in dirs
    /\ Visible(p) \notin full
    /\ full' = full \cup {Visible(p)}
    /\ UNCHANGED <<dirs, mounts, object, left>>

Calls(o) ==
    \/ Mount(o) \/ Enter(o) \/ Exit(o)
    \/ Umount(o) \/ UmountNowhere(o)
    \/ Remount(o) \/ RemountRefused(o)

Commands(o) ==
    \/ Loses(o) \/ StatusFails(o)
    \/ Mktemp(o) \/ MountCommand(o) \/ RemountCommand(o) \/ UmountCommand(o)
    \/ ListEmpty(o) \/ ListFiles(o) \/ Rmdir(o) \/ RmdirFails(o)

Next == (\E o \in Objects : Calls(o) \/ Commands(o)) \/ (\E p \in Paths : Write(p))

Spec == Init /\ [][Next]_vars

----------------------------------------------------------------------------
(* Properties.                                                             *)

(* Of an object whose connections held and that was not mounted twice,
   _mounted tells what the host has mounted on its target, as long as nobody
   else mounts or unmounts there (filesystem.py:410, 423). *)
Alone(o) == \A x \in Objects \ {o} : Tmp(o) \/ Given[x] # Given[o]
MountedIsTrue ==
    \A o \in Objects :
        pc[o] = "idle" /\ clean[o] /\ Alone(o) /\ target[o] # None =>
            (mounted[o] <=> mounts[target[o]] # <<>>)

(* A temporary directory exists only while its object is mounted or at work,
   or for a reason: mount failed or was called twice, files were found in it,
   it could not be removed, a connection was lost (filesystem.py:396-423). *)
TempDirsRemoved ==
    \A d \in TmpDirs \cap dirs :
        \/ d \in left
        \/ \E o \in Objects : Tmp(o) /\ target[o] = d /\ (mounted[o] \/ pc[o] # "idle")

=============================================================================
