---------------------------- MODULE HeldSession ----------------------------
(***************************************************************************)
(* network._session (network.py:19-46): one SSH session shared by nested   *)
(* calls of the methods decorated with keep_session, counted in _c and     *)
(* closed by the outermost of them.                                        *)
(***************************************************************************)
EXTENDS Naturals

CONSTANT MaxLost    \* bound of a run: how often creating the session fails

ASSUME MaxLostAssumption == MaxLost \in Nat

VARIABLES
    depth,      \* the decorated calls that are active
    c,          \* _session._c
    s,          \* _session._s: "none", "new" (not opened), "open", "broken"
    lost        \* how often __enter__ has raised (history)

heldVars == <<depth, c, s, lost>>

HeldTypeOK ==
    /\ depth \in Nat
    /\ c \in Nat
    /\ s \in {"none", "new", "open", "broken"}
    /\ lost \in Nat

HeldInit == depth = 0 /\ c = 0 /\ s = "none" /\ lost = 0

\* __enter__ of the outermost call: count, create the session, open it.
EnterOpens ==
    /\ s = "none"
    /\ c' = c + 1
    /\ s' = "open"
    /\ depth' = depth + 1
    /\ UNCHANGED lost

\* Mutant: a failed open closes the session and takes the count back.
OpenFailsClean ==
    /\ s = "none"
    /\ lost' = lost + 1
    /\ UNCHANGED <<depth, c, s>>

(* __enter__ where opening the session raises.  The with statement does not
   run __exit__ then: _c stays incremented and _s keeps the unopened session. *)
OpenFails ==
    /\ s = "none"
    /\ c' = c + 1
    /\ s' = "new"
    /\ lost' = lost + 1
    /\ UNCHANGED depth

(* __enter__ where creating the session raises, as a private key that cannot be
   read does (ssh.py:64-74): _c stays incremented and _s is None as before. *)
CreateFails ==
    /\ s = "none"
    /\ lost < MaxLost
    /\ c' = c + 1
    /\ lost' = lost + 1
    /\ UNCHANGED <<depth, s>>

EnterFails == OpenFails \/ CreateFails

\* Mutant: a nested call is not counted.
EnterHeldUncounted ==
    /\ s # "none"
    /\ depth' = depth + 1
    /\ UNCHANGED <<c, s, lost>>

\* __enter__ of a nested call.
EnterHeld ==
    /\ s # "none"
    /\ c' = c + 1
    /\ depth' = depth + 1
    /\ UNCHANGED <<s, lost>>

\* __exit__, on return or on an exception; closing may itself raise.
Leave ==
    /\ depth > 0
    /\ depth' = depth - 1
    /\ c' = c - 1
    /\ s' = IF c = 1 THEN "none" ELSE s
    /\ UNCHANGED lost

\* The connection under the session is lost.
Breaks ==
    /\ s = "open"
    /\ s' = "broken"
    /\ UNCHANGED <<depth, c, lost>>

HeldNext == EnterOpens \/ EnterFails \/ EnterHeld \/ Leave \/ Breaks

HeldSpec == HeldInit /\ [][HeldNext]_heldVars

----------------------------------------------------------------------------
(* As long as no __enter__ raised, the counter is the nesting depth and a
   session is held exactly inside a decorated call (network.py:34-46): no
   call closes the session under an outer one, none leaves one behind. *)
SessionHeld ==
    lost = 0 =>
        /\ c = depth
        /\ depth > 0 <=> s \in {"open", "broken"}
        /\ depth = 0 <=> s = "none"

(* Each __enter__ that raised leaves the counter one further ahead of the
   nesting depth; only one of them can have left an unopened session. *)
FailureIsSticky ==
    /\ c = depth + lost
    /\ depth > 0 => s # "none"
    /\ s = "new" => lost > 0

(* Once an __enter__ has raised, no call closes the session any more, be it the
   unopened one or the one that a later call opens (network.py:36, 43). *)
NeverClosed == [][lost > 0 /\ s # "none" => s' # "none"]_heldVars

=============================================================================
