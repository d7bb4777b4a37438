---------------------------- MODULE TaskContract ----------------------------
(***************************************************************************)
(* What the task runtime promises about the life of a task, without        *)
(* agents, messages or reviews: the tables may be changed by any number of *)
(* concurrent handlers, but a task is only submitted after an execution of *)
(* it succeeded, only reviewed after it was submitted, only completed with *)
(* success out of a review, and never comes back once it is deleted.       *)
(*                                                                         *)
(* Between those steps a task is `open`: published, accepted, executing or *)
(* failed.  The code may re-open a task at any time (see the findings).    *)
(***************************************************************************)
CONSTANT Tasks

VARIABLES
    stage,      \* where the task is in its life
    proven      \* the tasks some execution succeeded on

vars == <<stage, proven>>

Stage == {"unborn", "open", "submitted", "review", "success", "gone"}

Present(t) == stage[t] \notin {"unborn", "gone"}

Init ==
    /\ stage = [t \in Tasks |-> "unborn"]
    /\ proven = {}

\* Any disjunct below moves one task to stage s.
Move(t, s) ==
    /\ stage' = [stage EXCEPT ![t] = s]
    /\ UNCHANGED proven

Execute(t) ==
    /\ proven' = proven \cup {t}
    /\ UNCHANGED stage

Open(t) == stage[t] # "gone" /\ Move(t, "open")
Submit(t) == Present(t) /\ t \in proven /\ Move(t, "submitted")
Begin(t) == stage[t] = "submitted" /\ Move(t, "review")
Approve(t) == stage[t] = "review" /\ Move(t, "success")
Delete(t) == Present(t) /\ Move(t, "gone")

Next ==
    \E t \in Tasks :
        \/ Execute(t) \/ Open(t) \/ Submit(t)
        \/ Begin(t) \/ Approve(t) \/ Delete(t)

Spec == Init /\ [][Next]_vars

=============================================================================
