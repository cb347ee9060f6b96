---------------------------- MODULE MCMountPoint ----------------------------
(* Instances of NfsMounts for TLC: an object with a temporary directory, one
   with a given target, and two users of NFSService, of two sources. *)
EXTENDS NfsMounts

CONSTANTS o1, o2, c1, c2, disk, share, mnt, tmp1, tmp2

TwoSources == [o \in Objects |-> IF o = o1 THEN disk ELSE share]
OneTemporary == [o \in Objects |-> IF o = o1 THEN None ELSE mnt]

Bounds(n1, n2, m1, m2) == [objects |-> [o \in Objects |-> IF o = o1 THEN n1 ELSE n2],
                           clients |-> [c \in Clients |-> IF c = c1 THEN m1 ELSE m2]]
StoragePlans == {Bounds(2, 2, 0, 0), Bounds(0, 2, 1, 1), Bounds(0, 0, 2, 2)}

=============================================================================
