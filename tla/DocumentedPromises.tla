------------------------- MODULE DocumentedPromises -------------------------
(***************************************************************************)
(* What comments and documents of the repository say of the task runtime   *)
(* and the code does not keep, where keeping it takes more than one actor. *)
(* Each property is refuted by a run of its own on TaskSystem; the README  *)
(* tells the story of each counterexample.                                 *)
(***************************************************************************)
EXTENDS TaskSystem

\* "The task is closed" (task/model.rs:192): a completed task stays completed
\* until it is deleted.
CompletedIsFinal ==
    [][\A t \in Tasks : status[t] \in Completed
          => status'[t] \in Completed \cup {"gone"}]_systemVars

\* "The recovery scan keeps a task from being stuck in submitted for ever"
\* (docs/task_runtime_flow.md:54): every submitted task gets into review.  A
\* review row left by an earlier, overlapping execution hides the task from
\* the scan, and a crash loses the event that would help.
SubmittedIsReviewed ==
    \A t \in Tasks : status[t] = "submitted" ~> status[t] # "submitted"

=============================================================================
