----------------------------- MODULE TaskTable -----------------------------
(***************************************************************************)
(* The PostgreSQL tables `tasks` and `task_reviews` of the multi-agent     *)
(* server, and the SQL statements its actors run on them.                  *)
(*                                                                         *)
(* No actor opens a transaction around its task statements, so each        *)
(* statement is one atomic step and everything between two statements of   *)
(* a handler may interleave with the statements of every other handler.    *)
(* The statements are action operators over the four table variables; the  *)
(* actor modules (AgentActor, DagOrchestrator) add the actor-local part.   *)
(***************************************************************************)
EXTENDS Integers

CONSTANTS
    Tasks,          \* ids of tasks, numbered in the order of their created_at
    Agents,         \* ids of the rows of table agents
    NoAgent,        \* SQL NULL in tasks.assigned_agent_id
    Workspaces,     \* names of the rows of table workspaces
    NoWorkspace,    \* SQL NULL in tasks.workspace_name
    Home,           \* agents.workspace_name
    MaxNotices,     \* bound on undelivered success events per task
    Mishaps,        \* kinds of disturbance this instance may suffer
    MaxMishaps      \* bound on the number of disturbances of a behaviour

ASSUME TaskAssumption == Tasks \subseteq Nat \ {0}
ASSUME AgentAssumption == NoAgent \notin Agents
ASSUME WorkspaceAssumption ==
    /\ NoWorkspace \notin Workspaces
    /\ Home \in [Agents -> Workspaces]
ASSUME BoundAssumption ==
    /\ MaxNotices \in Nat
    /\ Mishaps \subseteq {"stop", "crash", "db_error"}
    /\ MaxMishaps \in Nat

NoTask == 0

\* TaskStatus::as_str, and two values for a row that is not there: never
\* inserted ("unborn") and deleted ("gone").
RowStatus == {"published", "accepted", "executing", "submitted",
              "under_review", "completed_success", "completed_failure",
              "cancelled"}
Status == RowStatus \cup {"unborn", "gone"}
Completed == {"completed_success", "completed_failure", "cancelled"}

\* task_reviews.review_approved of the task's row, "none" without a row.
Verdict == {"approved", "refused"}
Review == Verdict \cup {"none"}

VARIABLES
    status,         \* tasks.status
    assigned,       \* tasks.assigned_agent_id
    workspace,      \* tasks.workspace_name
    review,         \* task_reviews
    notices,        \* mcp_result/success events in DagOrchestrActor's mailbox
    succeeded,      \* history: the tasks some MCP execution succeeded on
    mishaps         \* number of disturbances so far, at most MaxMishaps

table == <<status, assigned, workspace, review>>
shared == <<table, notices, succeeded, mishaps>>

TablesTyped ==
    /\ status \in [Tasks -> Status]
    /\ assigned \in [Tasks -> Agents \cup {NoAgent}]
    /\ workspace \in [Tasks -> Workspaces \cup {NoWorkspace}]
    /\ review \in [Tasks -> Review]

TableTypeOK ==
    /\ TablesTyped
    /\ notices \in [Tasks -> Nat]
    /\ succeeded \in SUBSET Tasks
    /\ mishaps \in Nat

TableInit ==
    /\ status = [t \in Tasks |-> "unborn"]
    /\ assigned = [t \in Tasks |-> NoAgent]
    /\ workspace = [t \in Tasks |-> NoWorkspace]
    /\ review = [t \in Tasks |-> "none"]
    /\ notices = [t \in Tasks |-> 0]
    /\ succeeded = {}
    /\ mishaps = 0

HasRow(t) == status[t] \in RowStatus

\* A disturbance of kind k (an agent is stopped, the process crashes, a
\* statement or a mailbox fails) happens: it must be enabled and within the bound.
Mishap(k) ==
    /\ k \in Mishaps
    /\ mishaps < MaxMishaps
    /\ mishaps' = mishaps + 1

-----------------------------------------------------------------------------
(* Statements that write table tasks. A WHERE id = $1 that matches no row   *)
(* changes nothing.                                                         *)

\* INSERT INTO tasks of SubmitTask: ids are taken in creation order.
InsertTask(t) ==
    /\ status[t] = "unborn"
    /\ \A u \in Tasks : u < t => status[u] # "unborn"
    /\ status' = [status EXCEPT ![t] = "published"]
    /\ UNCHANGED <<assigned, workspace, review>>

\* UPDATE tasks SET workspace_name WHERE id (no agent was available).
BindWorkspace(t, w) ==
    /\ workspace' = IF HasRow(t) THEN [workspace EXCEPT ![t] = w] ELSE workspace
    /\ UNCHANGED <<status, assigned, review>>

\* UPDATE tasks SET workspace_name, assigned_agent_id, status WHERE id. The
\* reassignment after a rejection leaves workspace_name as it is.
AssignTask(t, w, a) ==
    /\ IF HasRow(t)
       THEN /\ status' = [status EXCEPT ![t] = "accepted"]
            /\ assigned' = [assigned EXCEPT ![t] = a]
            /\ workspace' = [workspace EXCEPT ![t] = w]
       ELSE UNCHANGED <<status, assigned, workspace>>
    /\ UNCHANGED review

\* UPDATE tasks SET status WHERE id: promotion to executing, MCP outcome.
SetStatus(t, s) ==
    /\ status' = IF HasRow(t) THEN [status EXCEPT ![t] = s] ELSE status
    /\ UNCHANGED <<assigned, workspace, review>>

\* UPDATE tasks SET status WHERE id AND status = from.
MoveStatus(t, from, s) ==
    /\ status' = IF status[t] = from THEN [status EXCEPT ![t] = s] ELSE status
    /\ UNCHANGED <<assigned, workspace, review>>

\* The auto-claim UPDATE of an idle agent: the oldest published task of the
\* agent's workspace that has no agent.
Claimable(a) == {t \in Tasks : /\ status[t] = "published"
                               /\ assigned[t] = NoAgent
                               /\ workspace[t] = Home[a]}
ClaimTask(a, t) ==
    /\ t \in Claimable(a)
    /\ \A u \in Claimable(a) : t <= u
    /\ status' = [status EXCEPT ![t] = "executing"]
    /\ assigned' = [assigned EXCEPT ![t] = a]
    /\ UNCHANGED <<workspace, review>>

\* UPDATE ... SET status = 'published', assigned_agent_id = NULL
\* WHERE id AND status = 'under_review' (rejection by the user).
ResetTask(t) ==
    /\ IF status[t] = "under_review"
       THEN /\ status' = [status EXCEPT ![t] = "published"]
            /\ assigned' = [assigned EXCEPT ![t] = NoAgent]
       ELSE UNCHANGED <<status, assigned>>
    /\ UNCHANGED <<workspace, review>>

\* DELETE FROM tasks WHERE id; the review row goes with it (ON DELETE CASCADE).
DropTask(t) ==
    IF HasRow(t)
    THEN /\ status' = [status EXCEPT ![t] = "gone"]
         /\ assigned' = [assigned EXCEPT ![t] = NoAgent]
         /\ workspace' = [workspace EXCEPT ![t] = NoWorkspace]
         /\ review' = [review EXCEPT ![t] = "none"]
    ELSE UNCHANGED table

-----------------------------------------------------------------------------
(* Statements that write table task_reviews.                                *)

\* INSERT ... ON CONFLICT DO UPDATE; the foreign key refuses it without a task.
RecordReview(t, v) ==
    /\ review' = IF HasRow(t) THEN [review EXCEPT ![t] = v] ELSE review
    /\ UNCHANGED <<status, assigned, workspace>>

\* DELETE FROM task_reviews WHERE task_id.
EraseReview(t) ==
    /\ review' = [review EXCEPT ![t] = "none"]
    /\ UNCHANGED <<status, assigned, workspace>>

-----------------------------------------------------------------------------
(* The query of AgentActor for its own work: executing before accepted,     *)
(* then oldest first, LIMIT 1.                                              *)

Mine(a) == {t \in Tasks : /\ status[t] \in {"accepted", "executing"}
                          /\ assigned[t] = a}
Before(t, u) ==
    \/ status[t] = "executing" /\ status[u] = "accepted"
    \/ status[t] = status[u] /\ t <= u
NextAssigned(a) == {t \in Mine(a) : \A u \in Mine(a) : Before(t, u)}

=============================================================================
