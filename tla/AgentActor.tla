----------------------------- MODULE AgentActor -----------------------------
(***************************************************************************)
(* AgentActor (agsnets/actor_agent.rs): one actor per agent.  It looks for *)
(* work every few seconds (RunAssignedTaskCheck), executes the task it     *)
(* found through McpAgentActor, writes the outcome to table tasks and      *)
(* reports it to DagOrchestrActor.                                         *)
(*                                                                         *)
(* A check is a future that interleaves at every await, and nothing keeps  *)
(* a second check from starting while the first one waits for the          *)
(* database; the same holds for the executions the checks spawn.  Each     *)
(* agent therefore has a set of check slots and a set of execution slots;  *)
(* their sizes bound the concurrency TLC explores, not the behaviour.      *)
(***************************************************************************)
EXTENDS TaskTable

CONSTANTS
    Checks,         \* slots for concurrent RunAssignedTaskCheck futures
    Execs           \* slots for concurrent MCP execution futures

VARIABLES
    life,           \* AgentActor.lifecycle
    taskId,         \* AgentActor.task_id
    inflight,       \* AgentActor.mcp_inflight_task_id
    lastFailed,     \* AgentActor.mcp_last_failed_task_id
    cooling,        \* now < AgentActor.mcp_next_retry_at
    boot,           \* the future of AgentActor::started
    check,          \* the futures of RunAssignedTaskCheck
    exec            \* the MCP futures spawned by the checks

agentLocal == <<taskId, inflight, lastFailed, cooling>>
agentVars == <<life, agentLocal, boot, check, exec>>

\* "Stopping" lasts only for the handler of ShutdownAgent.
Lifecycle == {"Stopped", "Starting", "Running"}

\* What ExecuteMcp can end with: success; not successful and not to be
\* retried; an error of the MCP actor or of its mailbox; to be retried, or no
\* answer within 60 s.
Outcome == {"success", "failed", "error", "retry"}

Boot == [pc : {"off", "query", "promote", "resume"}, task : Tasks \cup {NoTask}]
Check == [pc : {"idle", "claim", "promote", "resume"},
          task : Tasks \cup {NoTask}]
Exec == [pc : {"idle", "running", "write", "settle"},
         task : Tasks \cup {NoTask}, outcome : Outcome \cup {"none"}]

NoBoot == [pc |-> "off", task |-> NoTask]
NoCheck == [pc |-> "idle", task |-> NoTask]
NoExec == [pc |-> "idle", task |-> NoTask, outcome |-> "none"]

AgentTypeOK ==
    /\ TableTypeOK
    /\ life \in [Agents -> Lifecycle]
    /\ taskId \in [Agents -> Tasks \cup {NoTask}]
    /\ inflight \in [Agents -> Tasks \cup {NoTask}]
    /\ lastFailed \in [Agents -> Tasks \cup {NoTask}]
    /\ cooling \in [Agents -> BOOLEAN]
    /\ boot \in [Agents -> Boot]
    /\ check \in [Agents -> [Checks -> Check]]
    /\ exec \in [Agents -> [Execs -> Exec]]

AgentInit ==
    /\ life = [a \in Agents |-> "Stopped"]
    /\ taskId = [a \in Agents |-> NoTask]
    /\ inflight = [a \in Agents |-> NoTask]
    /\ lastFailed = [a \in Agents |-> NoTask]
    /\ cooling = [a \in Agents |-> FALSE]
    /\ boot = [a \in Agents |-> NoBoot]
    /\ check = [a \in Agents |-> [c \in Checks |-> NoCheck]]
    /\ exec = [a \in Agents |-> [e \in Execs |-> NoExec]]

Live(a) == life[a] # "Stopped"

\* What GetRuntimeStatus must answer for CheckAvailableAgent to take a.
Idle(a) ==
    /\ life[a] = "Running"
    /\ taskId[a] = NoTask
    /\ inflight[a] = NoTask

-----------------------------------------------------------------------------
(* AgentActor::started: the actor recovers the task it left unfinished.     *)

\* The manager creates the actor with empty fields and starts it.
StartAgent(a) ==
    /\ ~Live(a)
    /\ life' = [life EXCEPT ![a] = "Starting"]
    /\ boot' = [boot EXCEPT ![a] = [pc |-> "query", task |-> NoTask]]
    /\ UNCHANGED <<agentLocal, check, exec, shared>>

\* Mutant of NextPc: accepted tasks are not promoted.
NextPcSkips(t) == "resume"

\* A task found still "accepted" is promoted before the actor runs.
NextPc(t) == IF status[t] = "accepted" THEN "promote" ELSE "resume"

BootQuery(a) ==
    /\ boot[a].pc = "query"
    /\ \/ /\ Mine(a) = {}
          /\ boot' = [boot EXCEPT ![a].pc = "resume"]
       \/ \E t \in NextAssigned(a) :
             boot' = [boot EXCEPT ![a] = [pc |-> NextPc(t), task |-> t]]
    /\ UNCHANGED <<life, agentLocal, check, exec, shared>>

BootPromote(a) ==
    /\ boot[a].pc = "promote"
    /\ SetStatus(boot[a].task, "executing")
    /\ boot' = [boot EXCEPT ![a].pc = "resume"]
    /\ UNCHANGED <<life, agentLocal, check, exec, notices, succeeded, mishaps>>

\* Either statement fails: the actor runs on without a task.
BootFails(a) ==
    /\ boot[a].pc \in {"query", "promote"}
    /\ Mishap("db_error")
    /\ boot' = [boot EXCEPT ![a] = [pc |-> "resume", task |-> NoTask]]
    /\ UNCHANGED <<life, agentLocal, check, exec, table, notices, succeeded>>

BootResume(a) ==
    /\ boot[a].pc = "resume"
    /\ taskId' = [taskId EXCEPT ![a] = boot[a].task]
    /\ life' = [life EXCEPT ![a] = "Running"]
    /\ boot' = [boot EXCEPT ![a] = NoBoot]
    /\ UNCHANGED <<inflight, lastFailed, cooling, check, exec, shared>>

-----------------------------------------------------------------------------
(* Handler<RunAssignedTaskCheck>: the query and the optional second         *)
(* statement run in the future, the rest when its result is back on the     *)
(* actor.  The interval timer sends the message to running actors only (the *)
(* manager's TriggerAgentPoll, which would send it to others, has no sender).*)

\* Mutant of CheckQuery: an agent without a task of its own does not look for
\* published ones.
CheckQueryNoClaim(a, c) ==
    /\ life[a] = "Running"
    /\ check[a][c].pc = "idle"
    /\ \/ /\ Mine(a) = {}
          /\ check' = [check EXCEPT ![a][c] = [pc |-> "resume", task |-> NoTask]]
       \/ \E t \in NextAssigned(a) :
             check' = [check EXCEPT ![a][c] = [pc |-> NextPc(t), task |-> t]]
    /\ UNCHANGED <<life, agentLocal, boot, exec, shared>>

CheckQuery(a, c) ==
    /\ life[a] = "Running"
    /\ check[a][c].pc = "idle"
    /\ \/ /\ Mine(a) = {}
          /\ check' = [check EXCEPT ![a][c] = [pc |-> "claim", task |-> NoTask]]
       \/ \E t \in NextAssigned(a) :
             check' = [check EXCEPT ![a][c] = [pc |-> NextPc(t), task |-> t]]
    /\ UNCHANGED <<life, agentLocal, boot, exec, shared>>

CheckClaim(a, c) ==
    /\ check[a][c].pc = "claim"
    /\ \/ /\ Claimable(a) = {}
          /\ check' = [check EXCEPT ![a][c].pc = "resume"]
          /\ UNCHANGED table
       \/ \E t \in Tasks :
             /\ ClaimTask(a, t)
             /\ check' = [check EXCEPT ![a][c] = [pc |-> "resume", task |-> t]]
    /\ UNCHANGED <<life, agentLocal, boot, exec, notices, succeeded, mishaps>>

CheckPromote(a, c) ==
    /\ check[a][c].pc = "promote"
    /\ SetStatus(check[a][c].task, "executing")
    /\ check' = [check EXCEPT ![a][c].pc = "resume"]
    /\ UNCHANGED <<life, agentLocal, boot, exec, notices, succeeded, mishaps>>

\* Any of the statements fails; the actor treats it like "no task".
CheckFails(a, c) ==
    /\ life[a] = "Running"
    /\ check[a][c].pc # "resume"
    /\ Mishap("db_error")
    /\ check' = [check EXCEPT ![a][c] = [pc |-> "resume", task |-> NoTask]]
    /\ UNCHANGED <<life, agentLocal, boot, exec, table, notices, succeeded>>

\* Ok(None) and Err(_): forget the task and the execution in flight.
ResumeWithoutTask(a, c) ==
    /\ check[a][c] = [pc |-> "resume", task |-> NoTask]
    /\ taskId' = [taskId EXCEPT ![a] = NoTask]
    /\ inflight' = [inflight EXCEPT ![a] = NoTask]
    /\ check' = [check EXCEPT ![a][c] = NoCheck]
    /\ UNCHANGED <<life, lastFailed, cooling, boot, exec, shared>>

\* A task other than the current one clears the back-off of the former.
SwitchTo(a, t) ==
    /\ taskId' = [taskId EXCEPT ![a] = t]
    /\ IF taskId[a] # t
       THEN /\ lastFailed' = [lastFailed EXCEPT ![a] = NoTask]
            /\ cooling' = [cooling EXCEPT ![a] = FALSE]
       ELSE UNCHANGED <<lastFailed, cooling>>

\* The task is already in flight, or inside its back-off window.
MustWait(a, t) ==
    \/ inflight[a] = t
    \/ taskId[a] = t /\ lastFailed[a] = t /\ cooling[a]

ResumeAndWait(a, c) ==
    LET t == check[a][c].task IN
    /\ check[a][c].pc = "resume"
    /\ t # NoTask
    /\ MustWait(a, t)
    /\ SwitchTo(a, t)
    /\ check' = [check EXCEPT ![a][c] = NoCheck]
    /\ UNCHANGED <<life, inflight, boot, exec, shared>>

ResumeAndExecute(a, c, e) ==
    LET t == check[a][c].task IN
    /\ check[a][c].pc = "resume"
    /\ t # NoTask
    /\ ~MustWait(a, t)
    /\ exec[a][e].pc = "idle"
    /\ SwitchTo(a, t)
    /\ inflight' = [inflight EXCEPT ![a] = t]
    /\ exec' = [exec EXCEPT ![a][e] =
                   [pc |-> "running", task |-> t, outcome |-> "none"]]
    /\ check' = [check EXCEPT ![a][c] = NoCheck]
    /\ UNCHANGED <<life, boot, shared>>

-----------------------------------------------------------------------------
(* The MCP future: timeout(ExecuteMcp), then the status write, then the     *)
(* closure that settles the actor's fields and sends the event.             *)

\* Mutant of NextStatus: an error of the MCP actor is taken for a result.
NextStatusLenient(o) == IF o = "failed" THEN "completed_failure" ELSE "submitted"

Writes == {"success", "failed", "error"}
NextStatus(o) == IF o = "success" THEN "submitted" ELSE "completed_failure"

ExecReturns(a, e, o) ==
    /\ exec[a][e].pc = "running"
    /\ exec' = [exec EXCEPT ![a][e].pc = IF o \in Writes THEN "write" ELSE "settle",
                            ![a][e].outcome = o]
    /\ succeeded' = IF o = "success" THEN succeeded \cup {exec[a][e].task}
                                     ELSE succeeded
    /\ UNCHANGED <<life, agentLocal, boot, check, table, notices, mishaps>>

ExecWrites(a, e) ==
    /\ exec[a][e].pc = "write"
    /\ SetStatus(exec[a][e].task, NextStatus(exec[a][e].outcome))
    /\ exec' = [exec EXCEPT ![a][e].pc = "settle"]
    /\ UNCHANGED <<life, agentLocal, boot, check, notices, succeeded, mishaps>>

\* The write fails: the error is logged and the future goes on.
ExecWriteFails(a, e) ==
    /\ exec[a][e].pc = "write"
    /\ Mishap("db_error")
    /\ exec' = [exec EXCEPT ![a][e].pc = "settle"]
    /\ UNCHANGED <<life, agentLocal, boot, check, table, notices, succeeded>>

\* On success the back-off is cleared and the review is requested.
SettleSuccess(a, e) ==
    LET t == exec[a][e].task IN
    /\ exec[a][e].pc = "settle" /\ exec[a][e].outcome = "success"
    /\ notices[t] < MaxNotices
    /\ notices' = [notices EXCEPT ![t] = @ + 1]
    /\ inflight' = [inflight EXCEPT ![a] = NoTask]
    /\ taskId' = [taskId EXCEPT ![a] = NoTask]
    /\ lastFailed' = [lastFailed EXCEPT ![a] = NoTask]
    /\ cooling' = [cooling EXCEPT ![a] = FALSE]
    /\ exec' = [exec EXCEPT ![a][e] = NoExec]
    /\ UNCHANGED <<life, boot, check, table, succeeded, mishaps>>

\* Mutant of SettleFailure: the in-flight mark is only cleared on success.
SettleFailureKeepsMark(a, e) ==
    LET t == exec[a][e].task IN
    /\ exec[a][e].pc = "settle" /\ exec[a][e].outcome # "success"
    /\ taskId' = IF exec[a][e].outcome = "failed"
                 THEN [taskId EXCEPT ![a] = NoTask] ELSE taskId
    /\ lastFailed' = [lastFailed EXCEPT ![a] = t]
    /\ cooling' = [cooling EXCEPT ![a] = TRUE]
    /\ exec' = [exec EXCEPT ![a][e] = NoExec]
    /\ UNCHANGED <<life, inflight, boot, check, shared>>

\* Otherwise a back-off window opens; only a result that must not be retried
\* makes the agent forget the task.
SettleFailure(a, e) ==
    LET t == exec[a][e].task IN
    /\ exec[a][e].pc = "settle" /\ exec[a][e].outcome # "success"
    /\ inflight' = [inflight EXCEPT ![a] = NoTask]
    /\ taskId' = IF exec[a][e].outcome = "failed"
                 THEN [taskId EXCEPT ![a] = NoTask] ELSE taskId
    /\ lastFailed' = [lastFailed EXCEPT ![a] = t]
    /\ cooling' = [cooling EXCEPT ![a] = TRUE]
    /\ exec' = [exec EXCEPT ![a][e] = NoExec]
    /\ UNCHANGED <<life, boot, check, shared>>

\* mcp_next_retry_at has passed.
CoolDown(a) ==
    /\ cooling[a]
    /\ cooling' = [cooling EXCEPT ![a] = FALSE]
    /\ UNCHANGED <<life, taskId, inflight, lastFailed, boot, check, exec, shared>>

-----------------------------------------------------------------------------
(* ShutdownAgent and process crashes drop the actors with their futures; a  *)
(* new actor starts with empty fields.                                      *)

\* Mutant of Dropped: the in-flight mark survives the actor.
DroppedKeepsMark(A) ==
    /\ life' = [a \in Agents |-> IF a \in A THEN "Stopped" ELSE life[a]]
    /\ taskId' = [a \in Agents |-> IF a \in A THEN NoTask ELSE taskId[a]]
    /\ UNCHANGED <<inflight, lastFailed, cooling>>
    /\ boot' = [a \in Agents |-> IF a \in A THEN NoBoot ELSE boot[a]]
    /\ check' = [a \in Agents |-> IF a \in A THEN [c \in Checks |-> NoCheck]
                                             ELSE check[a]]
    /\ exec' = [a \in Agents |-> IF a \in A THEN [e \in Execs |-> NoExec]
                                            ELSE exec[a]]

Dropped(A) ==
    /\ life' = [a \in Agents |-> IF a \in A THEN "Stopped" ELSE life[a]]
    /\ taskId' = [a \in Agents |-> IF a \in A THEN NoTask ELSE taskId[a]]
    /\ inflight' = [a \in Agents |-> IF a \in A THEN NoTask ELSE inflight[a]]
    /\ lastFailed' = [a \in Agents |-> IF a \in A THEN NoTask ELSE lastFailed[a]]
    /\ cooling' = [a \in Agents |-> IF a \in A THEN FALSE ELSE cooling[a]]
    /\ boot' = [a \in Agents |-> IF a \in A THEN NoBoot ELSE boot[a]]
    /\ check' = [a \in Agents |-> IF a \in A THEN [c \in Checks |-> NoCheck]
                                             ELSE check[a]]
    /\ exec' = [a \in Agents |-> IF a \in A THEN [e \in Execs |-> NoExec]
                                            ELSE exec[a]]

StopAgent(a) ==
    /\ Live(a)
    /\ Mishap("stop")
    /\ Dropped({a})
    /\ UNCHANGED <<table, notices, succeeded>>

\* The whole process dies and is restarted by its operator.
CrashAgents ==
    /\ Mishap("crash")
    /\ Dropped(Agents)
    /\ notices' = [t \in Tasks |-> 0]
    /\ UNCHANGED <<table, succeeded>>

-----------------------------------------------------------------------------
BootStep(a) == BootQuery(a) \/ BootPromote(a) \/ BootFails(a) \/ BootResume(a)

CheckStep(a, c) ==
    \/ CheckQuery(a, c) \/ CheckClaim(a, c) \/ CheckPromote(a, c)
    \/ CheckFails(a, c) \/ ResumeWithoutTask(a, c) \/ ResumeAndWait(a, c)
    \/ \E e \in Execs : ResumeAndExecute(a, c, e)

ExecStep(a, e) ==
    \/ \E o \in Outcome : ExecReturns(a, e, o)
    \/ ExecWrites(a, e) \/ ExecWriteFails(a, e)
    \/ SettleSuccess(a, e) \/ SettleFailure(a, e)

AgentStep(a) ==
    \/ BootStep(a) \/ CoolDown(a) \/ StopAgent(a)
    \/ \E c \in Checks : CheckStep(a, c)
    \/ \E e \in Execs : ExecStep(a, e)

\* What the agents rely on: the rest of the system changes the tables by one
\* of DagOrchestrActor's statements at a time, in whatever order, takes events
\* out of its mailbox, and leaves the agents' fields alone.
OrchestratorStatement(t) ==
    \/ InsertTask(t)
    \/ \E w \in Workspaces : BindWorkspace(t, w)
    \/ \E w \in Workspaces, a \in Agents : AssignTask(t, w, a)
    \/ MoveStatus(t, "submitted", "under_review")
    \/ \E s \in {"completed_success", "completed_failure"} :
          MoveStatus(t, "under_review", s)
    \/ ResetTask(t)
    \/ \E v \in Verdict : RecordReview(t, v)
    \/ EraseReview(t)
    \/ DropTask(t)

TableChanges ==
    /\ \E t \in Tasks : OrchestratorStatement(t)
    /\ UNCHANGED <<agentVars, notices, succeeded, mishaps>>

TakeNotice ==
    /\ \E t \in Tasks : /\ notices[t] > 0
                        /\ notices' = [notices EXCEPT ![t] = @ - 1]
    /\ UNCHANGED <<agentVars, table, succeeded, mishaps>>

OtherFailure ==
    /\ Mishap("db_error")
    /\ UNCHANGED <<agentVars, table, notices, succeeded>>

AgentEnvironment == TableChanges \/ TakeNotice \/ OtherFailure

AgentNext ==
    \/ \E a \in Agents : StartAgent(a) \/ AgentStep(a)
    \/ CrashAgents
    \/ AgentEnvironment

AgentSpecInit == TableInit /\ AgentInit

AgentSpec == AgentSpecInit /\ [][AgentNext]_<<shared, agentVars>>

-----------------------------------------------------------------------------
(* Properties.                                                              *)

\* The in-flight mark of an agent is never left behind: while it names a task
\* there is a future of that agent executing that task, whose closure will
\* clear it (actor_agent.rs:344-391).  A mark without a future would make
\* every later check skip the task for ever.
InflightBacked ==
    \A a \in Agents : inflight[a] # NoTask =>
        \E e \in Execs : exec[a][e].pc # "idle" /\ exec[a][e].task = inflight[a]

\* A task reaches `submitted` only by a successful execution, and every success
\* event in the orchestrator's mailbox names a task that had one, whatever
\* the interleaving of checks, executions and restarts.
SubmittedWasExecuted ==
    \A t \in Tasks : status[t] = "submitted" \/ notices[t] > 0 => t \in succeeded

-----------------------------------------------------------------------------
(* SubmittedWasExecuted is not inductive by itself: a future that is about  *)
(* to write `submitted` or to send a success event must name a task that    *)
(* succeeded.  AgentInv is what every step of the agents keeps.             *)

\* An execution future that carries a success names a task that had one.
CarriedWasExecuted ==
    \A a \in Agents, e \in Execs :
        exec[a][e].outcome = "success" => exec[a][e].task \in succeeded

\* Every execution future has a task.
ExecutionHasTask ==
    \A a \in Agents, e \in Execs :
        exec[a][e].pc # "idle" => exec[a][e].task \in Tasks

AgentInv ==
    /\ AgentTypeOK
    /\ ExecutionHasTask
    /\ InflightBacked
    /\ SubmittedWasExecuted
    /\ CarriedWasExecuted

-----------------------------------------------------------------------------
(* Liveness.  Agents are started by the startup scan of their manager, the  *)
(* interval timer fires, futures are polled, and the timeout around         *)
(* ExecuteMcp makes it return: weak fairness.  Strong fairness where a step *)
(* waits for a slot or a place in `notices`, which the code does not bound. *)

AgentFairness ==
    \A a \in Agents :
        /\ WF_agentVars(StartAgent(a))
        /\ WF_agentVars(BootQuery(a))
        /\ WF_agentVars(BootPromote(a))
        /\ WF_agentVars(BootResume(a))
        /\ WF_agentVars(CoolDown(a))
        /\ \A c \in Checks :
              /\ WF_agentVars(CheckQuery(a, c))
              /\ WF_agentVars(CheckClaim(a, c))
              /\ WF_agentVars(CheckPromote(a, c))
              /\ WF_agentVars(ResumeWithoutTask(a, c))
              /\ WF_agentVars(ResumeAndWait(a, c))
              /\ SF_agentVars(\E e \in Execs : ResumeAndExecute(a, c, e))
        /\ \A e \in Execs :
              /\ WF_agentVars(\E o \in Outcome : ExecReturns(a, e, o))
              /\ WF_agentVars(ExecWrites(a, e))
              /\ SF_agentVars(SettleSuccess(a, e))
              /\ WF_agentVars(SettleFailure(a, e))

\* A task is never in flight for ever: the timeout of 60 s around ExecuteMcp
\* bounds every execution, and whatever its outcome the mark is cleared or
\* the actor is gone (actor_agent.rs:348-392).
InflightIsReleased ==
    \A a \in Agents, t \in Tasks : inflight[a] = t ~> inflight[a] # t

\* A task assigned to an agent does not stay accepted, although the check that
\* reads it may fail, or promote it after it has moved on - unless the agent
\* has another task executing.  The condition is the code's: the query orders
\* executing tasks first (actor_agent.rs:212), and an execution that ends with
\* "retry" or in the timeout writes no status (actor_agent.rs:357-369), so a
\* task that never succeeds or fails keeps the later ones waiting for ever.
AcceptedIsTaken ==
    \A a \in Agents, t \in Tasks :
        status[t] = "accepted" /\ assigned[t] = a
        ~> \/ ~(status[t] = "accepted" /\ assigned[t] = a)
           \/ \E u \in Mine(a) \ {t} : status[u] = "executing"

\* A published task that nobody was available for is picked up by an agent of
\* its workspace (the auto-claim of actor_agent.rs:223-269), unless the agent
\* has a task of its own: only an agent without one looks for published tasks.
PublishedIsClaimed ==
    \A a \in Agents, t \in Tasks :
        t \in Claimable(a) ~> t \notin Claimable(a) \/ Mine(a) # {}

=============================================================================
