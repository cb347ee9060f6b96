----------------------------- MODULE RemoteCall -----------------------------
(***************************************************************************)
(* What a caller of RemoteExecutor.run_cmd, CommandReader.read_lines or    *)
(* FileSystem.wget may rely on: the program is started at most once, the   *)
(* caller gets one answer, and an answer is complete only if the program   *)
(* has ended.  A "truncated" answer looks like a complete one to the       *)
(* caller: the code does not tell a broken connection from an ended        *)
(* program otherwise than by the status -1.                                *)
(***************************************************************************)

VARIABLES
    phase,      \* the program: "idle", "running" (perhaps) or "exited"
    answer      \* what the caller got

Answers == {"complete", "truncated", "raised", "abandoned"}

Init == phase = "idle" /\ answer = "none"

Start == phase = "idle" /\ phase' = "running" /\ UNCHANGED answer

Exit == phase = "running" /\ phase' = "exited" /\ UNCHANGED answer

\* The phases in which an answer may be given.
Earliest(a) ==
    CASE a = "complete" -> {"exited"}
      [] a \in {"truncated", "abandoned"} -> {"running", "exited"}
      [] a = "raised" -> {"idle", "running", "exited"}

Answer(a) ==
    /\ answer = "none"
    /\ phase \in Earliest(a)
    /\ answer' = a
    /\ UNCHANGED phase

Next == (answer = "none" /\ (Start \/ Exit)) \/ \E a \in Answers : Answer(a)

Spec == Init /\ [][Next]_<<phase, answer>>

=============================================================================
