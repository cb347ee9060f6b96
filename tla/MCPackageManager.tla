-------------------------- MODULE MCPackageManager --------------------------
(* Instances of PackageManager for TLC: the name of vim is part of the name
   of vimx; a pattern may match both.  vimx requires vim, and its repository has
   the name of a group of dnf that vim belongs to. *)
EXTENDS PackageManager

CONSTANTS vim, vimx

SimilarNames == [p \in Packages |-> IF p = vim THEN {vim, vimx} ELSE {vimx}]
Required == [p \in Packages |-> IF p = vimx THEN {vim} ELSE {}]
OtherColumns == [p \in Packages |-> IF p = vimx THEN {vim} ELSE {}]
SomePatterns == {{vimx}, {vim, vimx}}

Host(have, sudo, root) == [available |-> have, sudo |-> sudo, root |-> root]

SomeHosts == {Host({"dnf", "rpm"}, FALSE, TRUE), Host({"apt", "rpm"}, TRUE, FALSE),
              Host({}, FALSE, TRUE)}

=============================================================================
