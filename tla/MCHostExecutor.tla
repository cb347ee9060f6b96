--------------------------- MODULE MCHostExecutor ---------------------------
(* Instances of HostExecutor for TLC: two root users, which replace each
   other, and a tester. *)
EXTENDS HostExecutor

CONSTANTS root1, root2, tester

Names == [u \in Users |-> IF u = tester THEN "tester" ELSE "root"]

=============================================================================
