-------------------------- MODULE TaskSystemProofs --------------------------
(***************************************************************************)
(* Theorems about the task runtime, for every set of tasks, agents and     *)
(* slots.                                                                  *)
(*                                                                         *)
(* First the agents against an arbitrary orchestrator: the environment     *)
(* steps only need that no statement of the orchestrator writes            *)
(* `submitted`.                                                            *)
(*                                                                         *)
(* Then the composition, which keeps the promises its two sides make each  *)
(* other: every behaviour of TaskSystem is one of AgentSpec, whose         *)
(* environment stands for the orchestrator, and one of DagSpec, whose      *)
(* environment stands for the agents.  What was proved of either side      *)
(* alone then holds of the system.                                         *)
(*                                                                         *)
(* The orchestrator relies on agents writing only to tasks that have a     *)
(* workspace, or whose row is gone.  An agent remembers a task across its  *)
(* awaits, so this needs an invariant of its own: a task that some future  *)
(* of an agent holds stays bound until its row is deleted.                 *)
(***************************************************************************)
EXTENDS TaskSystem, DagOrchestratorProofs

-----------------------------------------------------------------------------
(* The statements of the orchestrator keep the tables well-typed and never  *)
(* make a task submitted.                                                   *)

\* A single UPDATE of the status keeps the tables well-typed, and makes
\* nothing submitted unless it writes that status.
LEMMA SetStatusEffect ==
    ASSUME TablesTyped, NEW t, NEW s \in Status, SetStatus(t, s)
    PROVE  /\ TablesTyped'
           /\ \A u \in Tasks : status'[u] = "submitted" =>
                 status[u] = "submitted" \/ (u = t /\ s = "submitted")
  BY DEF TablesTyped, SetStatus

LEMMA ClaimEffect ==
    ASSUME TablesTyped, NEW a \in Agents, NEW t \in Tasks, ClaimTask(a, t)
    PROVE  /\ TablesTyped'
           /\ \A u \in Tasks : status'[u] = "submitted" => status[u] = "submitted"
  BY DEF TablesTyped, ClaimTask, Status, RowStatus

LEMMA OrchestratorEffect ==
    ASSUME TablesTyped, NEW t \in Tasks, OrchestratorStatement(t)
    PROVE  /\ TablesTyped'
           /\ \A u \in Tasks : status'[u] = "submitted" => status[u] = "submitted"
  <1>1. CASE InsertTask(t)
    BY <1>1 DEF TablesTyped, InsertTask, Status, RowStatus
  <1>2. CASE \E w \in Workspaces : BindWorkspace(t, w)
    BY <1>2 DEF TablesTyped, BindWorkspace
  <1>3. CASE \E w \in Workspaces, a \in Agents : AssignTask(t, w, a)
    BY <1>3 DEF TablesTyped, AssignTask, Status, RowStatus
  <1>4. CASE MoveStatus(t, "submitted", "under_review")
    BY <1>4 DEF TablesTyped, MoveStatus, Status, RowStatus
  <1>5. CASE \E s \in {"completed_success", "completed_failure"} :
                MoveStatus(t, "under_review", s)
    BY <1>5 DEF TablesTyped, MoveStatus, Status, RowStatus
  <1>6. CASE ResetTask(t)
    BY <1>6 DEF TablesTyped, ResetTask, Status, RowStatus
  <1>7. CASE \E v \in Verdict : RecordReview(t, v)
    BY <1>7 DEF TablesTyped, RecordReview, Review
  <1>8. CASE EraseReview(t)
    BY <1>8 DEF TablesTyped, EraseReview, Review
  <1>9. CASE DropTask(t)
    BY <1>9 DEF TablesTyped, DropTask, Status, Review, table
  <1> QED BY <1>1, <1>2, <1>3, <1>4, <1>5, <1>6, <1>7, <1>8, <1>9
          DEF OrchestratorStatement

-----------------------------------------------------------------------------
(* The invariant, one step per action.                                      *)

agentAll == <<shared, agentVars>>

USE DEF NoTask

LEMMA AgentInitInv == ASSUME TableInit, AgentInit PROVE AgentInv
  <1> USE DEF TableInit, AgentInit
  <1>1. AgentTypeOK
    BY DEF AgentTypeOK, TableTypeOK, TablesTyped, Status, Review, Lifecycle, Boot, NoBoot,
           Check, NoCheck, Exec, NoExec
  <1>2. InflightBacked /\ SubmittedWasExecuted /\ CarriedWasExecuted /\ ExecutionHasTask
    BY DEF ExecutionHasTask, InflightBacked, SubmittedWasExecuted, CarriedWasExecuted, NoExec
  <1> QED BY <1>1, <1>2 DEF AgentInv

LEMMA AgentStepInv == ASSUME AgentInv, [AgentNext]_agentAll PROVE AgentInv'
  <1> USE DEF AgentInv
  <1>types. /\ TableTypeOK /\ TablesTyped /\ AgentTypeOK
    BY DEF AgentTypeOK, TableTypeOK, TablesTyped
  <1>idle. NoExec \in Exec /\ NoCheck \in Check /\ NoBoot \in Boot
    BY DEF NoExec, NoCheck, NoBoot, Exec, Check, Boot
  \* Steps that touch none of status, notices, succeeded, inflight and exec
  \* keep the safety conjuncts.
  <1>quiet. ASSUME UNCHANGED <<status, notices, succeeded, inflight, exec>>
            PROVE  /\ InflightBacked' /\ SubmittedWasExecuted' /\ CarriedWasExecuted'
                   /\ ExecutionHasTask'
    BY <1>quiet DEF ExecutionHasTask, InflightBacked, SubmittedWasExecuted, CarriedWasExecuted
  <1>1. ASSUME NEW a \in Agents, StartAgent(a) PROVE AgentInv'
    <2>1. AgentTypeOK'
      BY <1>1 DEF AgentTypeOK, TableTypeOK, TablesTyped, StartAgent, agentLocal, shared, table,
                  Lifecycle, Boot
    <2> QED BY <1>1, <2>1, <1>quiet DEF StartAgent, agentLocal, shared, table
  <1>2. ASSUME NEW a \in Agents, BootQuery(a) PROVE AgentInv'
    <2>1. boot' \in [Agents -> Boot]
      <3>1. /\ [boot[a] EXCEPT !.pc = "resume"] \in Boot
            /\ \A t \in Tasks : [pc |-> NextPc(t), task |-> t] \in Boot
        BY DEF AgentTypeOK, Boot, NextPc
      <3> QED BY <1>2, <3>1 DEF AgentTypeOK, BootQuery, NextAssigned, Mine
    <2>2. AgentTypeOK'
      BY <1>2, <2>1 DEF AgentTypeOK, TableTypeOK, TablesTyped, BootQuery, agentLocal, shared, table
    <2> QED BY <1>2, <2>2, <1>quiet DEF BootQuery, agentLocal, shared, table
  <1>3. ASSUME NEW a \in Agents, BootPromote(a) PROVE AgentInv'
    <2>1. /\ TablesTyped'
          /\ \A u \in Tasks : status'[u] = "submitted" => status[u] = "submitted"
      BY <1>3, <1>types, SetStatusEffect, "executing" \in Status
         DEF BootPromote, Status, RowStatus
    <2>2. [boot[a] EXCEPT !.pc = "resume"] \in Boot
      BY DEF AgentTypeOK, Boot
    <2>3. AgentTypeOK'
      BY <1>3, <2>1, <2>2 DEF AgentTypeOK, TableTypeOK, TablesTyped, BootPromote,
                        agentLocal
    <2> QED BY <1>3, <2>1, <2>3 DEF BootPromote, agentLocal, ExecutionHasTask, InflightBacked,
                                   SubmittedWasExecuted, CarriedWasExecuted
  <1>4. ASSUME NEW a \in Agents, BootFails(a) PROVE AgentInv'
    <2>1. AgentTypeOK'
      BY <1>4 DEF AgentTypeOK, TableTypeOK, TablesTyped, BootFails, Mishap, agentLocal, table, Boot
    <2> QED BY <1>4, <2>1, <1>quiet DEF BootFails, agentLocal, table
  <1>5. ASSUME NEW a \in Agents, BootResume(a) PROVE AgentInv'
    <2>1. boot[a].task \in Tasks \cup {NoTask}
      BY DEF AgentTypeOK, Boot
    <2>2. AgentTypeOK'
      BY <1>5, <2>1, <1>idle DEF AgentTypeOK, TableTypeOK, TablesTyped, BootResume, shared, table,
                                 Lifecycle
    <2> QED BY <1>5, <2>2, <1>quiet DEF BootResume, shared, table
  <1>6. ASSUME NEW a \in Agents, NEW c \in Checks, CheckStep(a, c) PROVE AgentInv'
    <2>slot. \A new \in Check :
               [check EXCEPT ![a][c] = new] \in [Agents -> [Checks -> Check]]
      BY DEF AgentTypeOK
    <2>pc. \A p \in {"idle", "claim", "promote", "resume"} :
               [check EXCEPT ![a][c].pc = p] \in [Agents -> [Checks -> Check]]
      <3>1. check[a][c] \in Check
        BY DEF AgentTypeOK
      <3>2. ASSUME NEW p \in {"idle", "claim", "promote", "resume"}
            PROVE  [check[a][c] EXCEPT !.pc = p] \in Check
        BY <3>1 DEF Check
      <3> QED BY <3>2 DEF AgentTypeOK
    <2>new. \A p \in {"idle", "claim", "promote", "resume"} :
              \A t \in Tasks \cup {NoTask} : [pc |-> p, task |-> t] \in Check
      BY DEF Check
    <2>task. check[a][c].task \in Tasks \cup {NoTask}
      BY DEF AgentTypeOK, Check
    <2>1. CASE CheckQuery(a, c)
      <3>1. check' \in [Agents -> [Checks -> Check]]
        <4>1. ASSUME NEW t \in NextAssigned(a) PROVE [pc |-> NextPc(t), task |-> t] \in Check
          BY DEF NextAssigned, Mine, NextPc, Check
        <4>2. [pc |-> "claim", task |-> NoTask] \in Check
          BY DEF Check
        <4> QED BY <2>1, <2>slot, <4>1, <4>2 DEF CheckQuery
      <3>2. AgentTypeOK'
        BY <2>1, <3>1 DEF AgentTypeOK, TableTypeOK, TablesTyped, CheckQuery, agentLocal, shared, table
      <3> QED BY <2>1, <3>2, <1>quiet DEF CheckQuery, agentLocal, shared, table
    <2>2. CASE CheckClaim(a, c)
      <3>1. check' \in [Agents -> [Checks -> Check]]
        BY <2>2, <2>slot, <2>pc, <2>new DEF CheckClaim
      <3>2. /\ TablesTyped'
            /\ \A u \in Tasks : status'[u] = "submitted" => status[u] = "submitted"
        BY <2>2, <1>types, ClaimEffect DEF CheckClaim, table, TablesTyped
      <3>3. AgentTypeOK'
        BY <2>2, <3>1, <3>2 DEF AgentTypeOK, TableTypeOK, TablesTyped, CheckClaim, agentLocal
      <3> QED BY <2>2, <3>2, <3>3 DEF CheckClaim, agentLocal, ExecutionHasTask, InflightBacked,
                                     SubmittedWasExecuted, CarriedWasExecuted
    <2>3. CASE CheckPromote(a, c)
      <3>1. check' \in [Agents -> [Checks -> Check]]
        BY <2>3, <2>pc DEF CheckPromote
      <3>2. /\ TablesTyped'
            /\ \A u \in Tasks : status'[u] = "submitted" => status[u] = "submitted"
        BY <2>3, <1>types, SetStatusEffect DEF CheckPromote, Status, RowStatus
      <3>3. AgentTypeOK'
        BY <2>3, <3>1, <3>2 DEF AgentTypeOK, TableTypeOK, TablesTyped, CheckPromote,
                                agentLocal
      <3> QED BY <2>3, <3>2, <3>3 DEF CheckPromote, agentLocal, ExecutionHasTask, InflightBacked,
                                     SubmittedWasExecuted, CarriedWasExecuted
    <2>4. CASE CheckFails(a, c)
      <3>1. AgentTypeOK'
        BY <2>4, <2>slot, <2>new DEF AgentTypeOK, TableTypeOK, TablesTyped, CheckFails, Mishap,
                                     agentLocal, table
      <3> QED BY <2>4, <3>1, <1>quiet DEF CheckFails, agentLocal, table
    <2>5. CASE ResumeWithoutTask(a, c)
      <3>1. AgentTypeOK'
        BY <2>5, <2>slot, <1>idle DEF AgentTypeOK, TableTypeOK, TablesTyped, ResumeWithoutTask,
                                      shared, table
      <3> QED BY <2>5, <3>1 DEF ResumeWithoutTask, shared, table, AgentTypeOK, ExecutionHasTask,
                  InflightBacked, SubmittedWasExecuted, CarriedWasExecuted
    <2>6. CASE ResumeAndWait(a, c)
      <3>1. AgentTypeOK'
        BY <2>6, <2>slot, <2>task, <1>idle
           DEF AgentTypeOK, TableTypeOK, TablesTyped, ResumeAndWait, SwitchTo, shared, table
      <3> QED BY <2>6, <3>1, <1>quiet DEF ResumeAndWait, shared, table
    <2>7. ASSUME NEW e \in Execs, ResumeAndExecute(a, c, e) PROVE AgentInv'
      <3>1. [pc |-> "running", task |-> check[a][c].task, outcome |-> "none"] \in Exec
        BY <2>task DEF Exec
      <3>2. AgentTypeOK'
        BY <2>7, <2>slot, <2>task, <3>1, <1>idle
           DEF AgentTypeOK, TableTypeOK, TablesTyped, ResumeAndExecute, SwitchTo, shared, table
      <3>3. InflightBacked'
        BY <2>7 DEF ResumeAndExecute, AgentTypeOK, InflightBacked
      <3>4. SubmittedWasExecuted' /\ CarriedWasExecuted' /\ ExecutionHasTask'
        BY <2>7, <2>task DEF ResumeAndExecute, AgentTypeOK, SubmittedWasExecuted,
                    CarriedWasExecuted, ExecutionHasTask, shared, table
      <3> QED BY <3>2, <3>3, <3>4
    <2> QED BY <1>6, <2>1, <2>2, <2>3, <2>4, <2>5, <2>6, <2>7 DEF CheckStep
  <1>7. ASSUME NEW a \in Agents, NEW e \in Execs, ExecStep(a, e) PROVE AgentInv'
    <2> DEFINE t == exec[a][e].task
    <2>rec. exec[a][e] \in Exec
      BY DEF AgentTypeOK
    <2>slot. \A new \in Exec :
               [exec EXCEPT ![a][e] = new] \in [Agents -> [Execs -> Exec]]
      BY DEF AgentTypeOK
    <2>task. exec[a][e].pc # "idle" => t \in Tasks
      BY DEF ExecutionHasTask
    <2>moved. ASSUME NEW new \in Exec, exec' = [exec EXCEPT ![a][e] = new],
                     new.pc # "idle", new.task = t, exec[a][e].pc # "idle",
                     inflight' = inflight
              PROVE  InflightBacked' /\ ExecutionHasTask'
      BY <2>moved, <2>task DEF InflightBacked, ExecutionHasTask, AgentTypeOK
    <2>1. ASSUME NEW o \in Outcome, ExecReturns(a, e, o) PROVE AgentInv'
      <3> DEFINE new == [exec[a][e] EXCEPT
                           !.pc = IF o \in Writes THEN "write" ELSE "settle",
                           !.outcome = o]
      <3>1. /\ new \in Exec /\ new.task = t /\ new.outcome = o
            /\ new.pc # "idle"
        BY <2>rec DEF Exec
      <3>2. exec' = [exec EXCEPT ![a][e] = new]
        BY <2>1 DEF ExecReturns, AgentTypeOK
      <3> HIDE DEF new
      <3>3. /\ exec[a][e].pc # "idle" /\ succeeded' \in {succeeded, succeeded \cup {t}}
            /\ UNCHANGED <<life, taskId, inflight, lastFailed, cooling, boot, check,
                           table, notices, mishaps>>
        BY <2>1 DEF ExecReturns, agentLocal
      <3>4. AgentTypeOK'
        BY <2>slot, <2>task, <3>1, <3>2, <3>3 DEF AgentTypeOK, TableTypeOK, TablesTyped, table
      <3>5. SubmittedWasExecuted'
        BY <2>1 DEF SubmittedWasExecuted, ExecReturns, table
      <3>6. CarriedWasExecuted'
        BY <2>1, <3>1, <3>2 DEF CarriedWasExecuted, ExecReturns, AgentTypeOK
      <3> QED BY <2>moved, <3>1, <3>2, <3>3, <3>4, <3>5, <3>6
    <2>2. CASE ExecWrites(a, e)
      <3> DEFINE new == [exec[a][e] EXCEPT !.pc = "settle"]
                 s == NextStatus(exec[a][e].outcome)
      <3>1. /\ new \in Exec /\ new.task = t /\ new.pc # "idle"
            /\ new.outcome = exec[a][e].outcome
        BY <2>rec DEF Exec
      <3>2. exec' = [exec EXCEPT ![a][e] = new]
        BY <2>2 DEF ExecWrites, AgentTypeOK
      <3> HIDE DEF new
      <3>3. /\ exec[a][e].pc # "idle"
            /\ UNCHANGED <<life, taskId, inflight, lastFailed, cooling, boot, check,
                           notices, succeeded, mishaps>>
        BY <2>2 DEF ExecWrites, agentLocal
      <3>4. s \in Status /\ (s = "submitted" => exec[a][e].outcome = "success")
        BY DEF NextStatus, Status, RowStatus
      <3> HIDE DEF s
      <3>5. SetStatus(t, s)
        BY <2>2 DEF ExecWrites, s
      <3>6. /\ TablesTyped'
            /\ \A u \in Tasks : status'[u] = "submitted" =>
                  status[u] = "submitted" \/ (u = t /\ s = "submitted")
        BY <3>4, <3>5, <1>types, SetStatusEffect
      <3>7. AgentTypeOK'
        BY <2>slot, <3>1, <3>2, <3>3, <3>6 DEF AgentTypeOK, TableTypeOK, TablesTyped
      <3>8. SubmittedWasExecuted'
        BY <3>3, <3>4, <3>6 DEF SubmittedWasExecuted, CarriedWasExecuted
      <3>9. CarriedWasExecuted'
        BY <3>1, <3>2, <3>3 DEF CarriedWasExecuted, AgentTypeOK
      <3> QED BY <2>moved, <3>1, <3>2, <3>3, <3>7, <3>8, <3>9
    <2>3. CASE ExecWriteFails(a, e)
      <3> DEFINE new == [exec[a][e] EXCEPT !.pc = "settle"]
      <3>1. /\ new \in Exec /\ new.task = t /\ new.pc # "idle"
            /\ new.outcome = exec[a][e].outcome
        BY <2>rec DEF Exec
      <3>2. exec' = [exec EXCEPT ![a][e] = new]
        BY <2>3 DEF ExecWriteFails, AgentTypeOK
      <3> HIDE DEF new
      <3>3. /\ exec[a][e].pc # "idle" /\ mishaps' = mishaps + 1
            /\ UNCHANGED <<life, taskId, inflight, lastFailed, cooling, boot, check,
                           table, notices, succeeded>>
        BY <2>3 DEF ExecWriteFails, Mishap, agentLocal
      <3>4. AgentTypeOK'
        BY <2>slot, <3>1, <3>2, <3>3 DEF AgentTypeOK, TableTypeOK, TablesTyped, table
      <3>5. SubmittedWasExecuted' /\ CarriedWasExecuted'
        BY <3>1, <3>2, <3>3 DEF SubmittedWasExecuted, CarriedWasExecuted, AgentTypeOK,
                                table
      <3> QED BY <2>moved, <3>1, <3>2, <3>3, <3>4, <3>5
    <2>4. CASE SettleSuccess(a, e)
      <3>events. notices' \in [Tasks -> Nat]
        BY <2>4, <2>task DEF AgentTypeOK, TableTypeOK, TablesTyped, SettleSuccess
      <3>slots. exec' \in [Agents -> [Execs -> Exec]]
        BY <2>4, <2>slot, <1>idle DEF SettleSuccess
      <3>1. AgentTypeOK'
        BY <2>4, <3>events, <3>slots DEF AgentTypeOK, TableTypeOK, TablesTyped, SettleSuccess, table
      <3>2. InflightBacked' /\ ExecutionHasTask' /\ CarriedWasExecuted'
        BY <2>4 DEF SettleSuccess, InflightBacked, ExecutionHasTask,
                    CarriedWasExecuted, AgentTypeOK, NoExec
      <3>3. t \in succeeded
        BY <2>4 DEF SettleSuccess, CarriedWasExecuted
      <3>4. SubmittedWasExecuted'
        BY <2>4, <3>3 DEF SettleSuccess, SubmittedWasExecuted, AgentTypeOK,
                          TableTypeOK, TablesTyped, table
      <3> QED BY <3>1, <3>2, <3>4
    <2>5. CASE SettleFailure(a, e)
      <3>1. AgentTypeOK'
        BY <2>5, <2>slot, <2>task, <1>idle
           DEF AgentTypeOK, TableTypeOK, TablesTyped, SettleFailure, shared, table
      <3>2. InflightBacked' /\ ExecutionHasTask' /\ CarriedWasExecuted'
        BY <2>5 DEF SettleFailure, InflightBacked, ExecutionHasTask,
                    CarriedWasExecuted, AgentTypeOK, NoExec, shared
      <3>3. SubmittedWasExecuted'
        BY <2>5 DEF SettleFailure, SubmittedWasExecuted, shared, table
      <3> QED BY <3>1, <3>2, <3>3
    <2> QED BY <1>7, <2>1, <2>2, <2>3, <2>4, <2>5 DEF ExecStep
  <1>8. ASSUME NEW a \in Agents, CoolDown(a) PROVE AgentInv'
    <2>1. AgentTypeOK'
      BY <1>8 DEF AgentTypeOK, TableTypeOK, TablesTyped, CoolDown, shared, table
    <2> QED BY <1>8, <2>1, <1>quiet DEF CoolDown, shared, table
  \* Dropping actors only takes futures and in-flight marks away.
  <1>drop. ASSUME NEW A \in SUBSET Agents, Dropped(A)
           PROVE  /\ life' \in [Agents -> Lifecycle]
                  /\ taskId' \in [Agents -> Tasks \cup {NoTask}]
                  /\ inflight' \in [Agents -> Tasks \cup {NoTask}]
                  /\ lastFailed' \in [Agents -> Tasks \cup {NoTask}]
                  /\ cooling' \in [Agents -> BOOLEAN]
                  /\ boot' \in [Agents -> Boot]
                  /\ check' \in [Agents -> [Checks -> Check]]
                  /\ exec' \in [Agents -> [Execs -> Exec]]
                  /\ InflightBacked' /\ ExecutionHasTask'
                  /\ succeeded' = succeeded => CarriedWasExecuted'
    <2>1. [c \in Checks |-> NoCheck] \in [Checks -> Check]
      BY <1>idle
    <2>2. [e \in Execs |-> NoExec] \in [Execs -> Exec]
      BY <1>idle
    <2>3. /\ life' \in [Agents -> Lifecycle] /\ cooling' \in [Agents -> BOOLEAN]
          /\ taskId' \in [Agents -> Tasks \cup {NoTask}]
          /\ inflight' \in [Agents -> Tasks \cup {NoTask}]
          /\ lastFailed' \in [Agents -> Tasks \cup {NoTask}]
      BY <1>drop DEF Dropped, AgentTypeOK, Lifecycle
    <2>4. /\ boot' \in [Agents -> Boot]
          /\ check' \in [Agents -> [Checks -> Check]]
          /\ exec' \in [Agents -> [Execs -> Exec]]
      BY <1>drop, <1>idle, <2>1, <2>2 DEF Dropped, AgentTypeOK
    <2>5. \A a \in Agents, e \in Execs :
             exec'[a][e] = exec[a][e] \/ (a \in A /\ exec'[a][e] = NoExec)
      BY <1>drop DEF Dropped
    <2>6. \A a \in Agents : inflight'[a] = NoTask \/ (a \notin A /\ inflight'[a] = inflight[a])
      BY <1>drop DEF Dropped
    <2>7. InflightBacked'
      BY <2>5, <2>6 DEF InflightBacked
    <2>8. ExecutionHasTask' /\ (succeeded' = succeeded => CarriedWasExecuted')
      BY <2>5 DEF ExecutionHasTask, CarriedWasExecuted, NoExec
    <2> QED BY <2>3, <2>4, <2>7, <2>8
  <1>9. ASSUME NEW a \in Agents, StopAgent(a) PROVE AgentInv'
    <2>1. {a} \in SUBSET Agents /\ Dropped({a}) /\ succeeded' = succeeded
      BY <1>9 DEF StopAgent
    <2>2. SubmittedWasExecuted' /\ TableTypeOK'
      BY <1>9 DEF StopAgent, SubmittedWasExecuted, Mishap, AgentTypeOK, TableTypeOK, TablesTyped, table
    <2> QED BY <1>drop, <2>1, <2>2 DEF AgentTypeOK
  <1>10. CASE CrashAgents
    <2>1. Dropped(Agents) /\ succeeded' = succeeded
      BY <1>10 DEF CrashAgents
    <2>2. SubmittedWasExecuted' /\ TableTypeOK'
      BY <1>10 DEF CrashAgents, SubmittedWasExecuted, Mishap, AgentTypeOK, TableTypeOK, TablesTyped, table
    <2> QED BY <1>drop, <2>1, <2>2 DEF AgentTypeOK
  <1>11. CASE TableChanges
    <2>1. /\ TablesTyped'
          /\ \A u \in Tasks : status'[u] = "submitted" => status[u] = "submitted"
      BY <1>11, <1>types, OrchestratorEffect DEF TableChanges
    <2>2. AgentTypeOK'
      BY <1>11, <2>1 DEF TableChanges, AgentTypeOK, TableTypeOK, TablesTyped, agentVars,
                         agentLocal
    <2> QED BY <1>11, <2>1, <2>2 DEF TableChanges, agentVars, agentLocal,
               ExecutionHasTask, InflightBacked, SubmittedWasExecuted, CarriedWasExecuted
  <1>12. CASE TakeNotice
    <2>1. AgentTypeOK'
      BY <1>12 DEF TakeNotice, AgentTypeOK, TableTypeOK, TablesTyped, agentVars, agentLocal, table
    <2> QED BY <1>12, <2>1 DEF TakeNotice, agentVars, agentLocal, table, AgentTypeOK,
               TableTypeOK, TablesTyped, ExecutionHasTask, InflightBacked, SubmittedWasExecuted,
               CarriedWasExecuted
  <1>13. CASE OtherFailure
    <2>1. AgentTypeOK'
      BY <1>13 DEF OtherFailure, Mishap, AgentTypeOK, TableTypeOK, TablesTyped, agentVars, agentLocal,
                   table
    <2> QED BY <1>13, <2>1, <1>quiet DEF OtherFailure, agentVars, agentLocal, table
  <1>14. CASE UNCHANGED agentAll
    <2>1. AgentTypeOK'
      BY <1>14 DEF agentAll, AgentTypeOK, TableTypeOK, TablesTyped, agentVars, agentLocal, shared, table
    <2> QED BY <1>14, <2>1, <1>quiet DEF agentAll, agentVars, agentLocal, shared, table
  <1> QED BY <1>1, <1>2, <1>3, <1>4, <1>5, <1>6, <1>7, <1>8, <1>9, <1>10, <1>11,
             <1>12, <1>13, <1>14
          DEF AgentNext, AgentStep, BootStep, AgentEnvironment

-----------------------------------------------------------------------------
(* The theorems about the agents.                                           *)

\* The invariant holds in every reachable state of AgentSpec, for any number
\* of agents, tasks and concurrent checks and executions.
THEOREM AgentInvariant == AgentSpec => []AgentInv
  <1>1. TableInit /\ AgentInit => AgentInv
    BY AgentInitInv
  <1>2. AgentInv /\ [AgentNext]_<<shared, agentVars>> => AgentInv'
    BY AgentStepInv DEF agentAll
  <1> QED BY <1>1, <1>2, PTL DEF AgentSpec, AgentSpecInit

\* Every variable of the agents and of the tables keeps its type.
THEOREM AgentTypes == AgentSpec => []AgentTypeOK
  <1>1. AgentInv => AgentTypeOK
    BY DEF AgentInv
  <1> QED BY <1>1, AgentInvariant, PTL

\* An in-flight mark always has a live execution behind it
\* (actor_agent.rs:340-392), so no task is skipped because of a stale mark.
THEOREM InflightIsBacked == AgentSpec => []InflightBacked
  <1>1. AgentInv => InflightBacked
    BY DEF AgentInv
  <1> QED BY <1>1, AgentInvariant, PTL

\* Only tasks with a successful execution are submitted or reported
\* (actor_agent.rs:357-386, 421-433).
THEOREM SubmittedOnlyExecuted == AgentSpec => []SubmittedWasExecuted
  <1>1. AgentInv => SubmittedWasExecuted
    BY DEF AgentInv
  <1> QED BY <1>1, AgentInvariant, PTL

-----------------------------------------------------------------------------
(* The composition.                                                         *)

\* A future with the local variables v holds a bound task or none, and one
\* that is about to promote a task holds one.
HoldsBound(v) ==
    /\ v.task \in Tasks => Bound(v.task)
    /\ v.pc = "promote" => v.task \in Tasks

AgentsHoldBound ==
    \A a \in Agents :
        /\ HoldsBound(boot[a])
        /\ \A c \in Checks : HoldsBound(check[a][c])
        /\ \A e \in Execs : HoldsBound(exec[a][e])

SystemInv == AgentInv /\ DagInv /\ AgentsHoldBound

-----------------------------------------------------------------------------
(* A step of the orchestrator, seen from the agents.                        *)

\* What a step may do to the shared variables: one statement, one event taken
\* out of the mailbox, one failure, or nothing.
SharedByDag ==
    \/ /\ \E t \in Tasks : OrchestratorStatement(t)
       /\ UNCHANGED <<notices, succeeded, mishaps>>
    \/ /\ \E t \in Tasks : notices[t] > 0 /\ notices' = [notices EXCEPT ![t] = @ - 1]
       /\ UNCHANGED <<table, succeeded, mishaps>>
    \/ Mishap("db_error") /\ UNCHANGED <<table, notices, succeeded>>
    \/ UNCHANGED shared

LEMMA DagStepShares == ASSUME DagInv, DagStep PROVE SharedByDag
  <1> USE DEF shared, ownFrame, jobFrame
  <1>1. CASE DeliveryStep
    BY <1>1 DEF DeliveryStep, RegisterTaskReviewer, RetryPending, ScanQuery, ScanResume,
                NotifyTaskExecutionEvent, SharedByDag
  <1>2. ASSUME NEW r \in Reviews, ReviewStep(r) PROVE SharedByDag
    <2>1. reviewer[r].pc # "idle" => reviewer[r].task \in Tasks
      BY DEF DagInv, CarriersExecuted, DagTypeOK, TableTypeOK
    <2>2. CASE BeginTaskReview(r)
      BY <2>1, <2>2 DEF BeginTaskReview, OrchestratorStatement, SharedByDag
    <2>3. ASSUME NEW v \in Verdict, CompleteTaskReview(r, v) PROVE SharedByDag
      BY <2>1, <2>3 DEF CompleteTaskReview, OrchestratorStatement, SharedByDag
    <2>4. CASE \E t \in Tasks : ReviewTakes(r, t)
      BY <2>4 DEF ReviewTakes, SharedByDag
    <2>5. CASE ReviewFails(r)
      BY <2>5 DEF ReviewFails, SharedByDag
    <2> QED BY <1>2, <2>2, <2>3, <2>4, <2>5 DEF ReviewStep
  <1>3. ASSUME NEW j \in Jobs, JobStep(j) PROVE SharedByDag
    <2>1. Remembers(job[j]) /\ TablesTyped
      BY DEF DagInv, JobsBound, TableSafe
    <2>2. job[j].pc # "idle" => job[j].task \in Tasks
      BY <2>1 DEF Remembers
    <2>3. ASSUME NEW t \in Tasks, SubmitTask(j, t) PROVE SharedByDag
      BY <2>3 DEF SubmitTask, OrchestratorStatement, SharedByDag
    <2>4. CASE PlaceNowhere(j)
      BY <2>2, <2>4 DEF PlaceNowhere, OrchestratorStatement, SharedByDag
    <2>5. CASE AssignChosen(j)
      <3> DEFINE t == job[j].task
                 w == IF job[j].op = "submit" THEN job[j].ws ELSE workspace[t]
      <3>1. AssignTask(t, w, job[j].agent) /\ UNCHANGED <<notices, succeeded, mishaps>>
        BY <2>5 DEF AssignChosen
      <3>2. t \in Tasks /\ job[j].agent \in Agents /\ job[j].op \in {"submit", "reject"}
            /\ job[j].ws \in Workspaces
        BY <2>1, <2>5 DEF Remembers, AssignChosen
      <3>3. CASE HasRow(t)
        <4>1. w \in Workspaces
          BY <2>1, <3>2, <3>3 DEF Remembers, Bound, TablesTyped
        <4> QED BY <3>1, <3>2, <4>1 DEF OrchestratorStatement, SharedByDag
      <3>4. CASE ~HasRow(t)
        BY <3>1, <3>4 DEF AssignTask, SharedByDag, table
      <3> QED BY <3>3, <3>4
    <2>6. CASE RejectResets(j)
      BY <2>2, <2>6 DEF RejectResets, OrchestratorStatement, SharedByDag
    <2>7. CASE RejectErases(j)
      BY <2>2, <2>7 DEF RejectErases, OrchestratorStatement, SharedByDag
    <2>8. CASE Decide(j)
      <3>1. \E s \in {"completed_success", "completed_failure"} :
               MoveStatus(job[j].task, "under_review", s)
        BY <2>8 DEF Decide, FinalStatus
      <3> QED BY <2>2, <2>8, <3>1 DEF Decide, OrchestratorStatement, SharedByDag
    <2>9. CASE DeletePurges(j)
      BY <2>2, <2>9 DEF DeletePurges, OrchestratorStatement, SharedByDag
    <2>10. CASE DeleteDrops(j)
      BY <2>2, <2>10 DEF DeleteDrops, OrchestratorStatement, SharedByDag
    <2>11. CASE \/ SubmitWithoutWorkspace(j) \/ DecideMissing(j)
                \/ \E t \in Tasks : \/ RejectResult(j, t) \/ AcceptResult(j, t)
                                    \/ DeleteTask(j, t)
                                    \/ \E v \in Verdict : ChatDecision(j, t, v)
      BY <2>11 DEF SubmitWithoutWorkspace, DecideMissing, RejectResult,
                   AcceptResult, DeleteTask, ChatDecision, SharedByDag
    <2>12. CASE JobFails(j)
      BY <2>12 DEF JobFails, SharedByDag
    <2> QED BY <1>3, <2>3, <2>4, <2>5, <2>6, <2>7, <2>8, <2>9, <2>10, <2>11, <2>12
            DEF JobStep
  <1> QED BY <1>1, <1>2, <1>3 DEF DagStep

-----------------------------------------------------------------------------
(* A step of an agent, seen from the orchestrator.                          *)

SharedByAgents ==
    \/ /\ \E t \in Tasks : AgentStatement(t)
       /\ UNCHANGED <<notices, succeeded, mishaps>>
    \/ /\ \E t \in Tasks : succeeded' = succeeded \cup {t}
       /\ UNCHANGED <<table, notices, mishaps>>
    \/ /\ \E t \in succeeded : /\ notices[t] < MaxNotices
                               /\ notices' = [notices EXCEPT ![t] = @ + 1]
       /\ UNCHANGED <<table, succeeded, mishaps>>
    \/ /\ \E k \in Mishaps \ {"crash"} : Mishap(k)
       /\ UNCHANGED <<table, notices, succeeded>>
    \/ UNCHANGED shared

\* An agent's status write to a task it holds: allowed by AgentStatement while
\* the row exists, without effect when the row is gone.
LEMMA StatusWriteShares ==
    ASSUME NEW t \in Tasks, Bound(t),
           NEW s \in {"executing", "completed_failure", "submitted"},
           s = "submitted" => t \in succeeded,
           SetStatus(t, s), UNCHANGED <<notices, succeeded, mishaps>>
    PROVE  SharedByAgents
  <1>1. CASE HasRow(t)
    BY <1>1 DEF Bound, AgentStatement, SharedByAgents
  <1>2. CASE ~HasRow(t)
    BY <1>2 DEF SetStatus, SharedByAgents, shared, table
  <1> QED BY <1>1, <1>2

LEMMA AgentStepShares ==
    ASSUME SystemInv, NEW a \in Agents, StartAgent(a) \/ AgentStep(a)
    PROVE  SharedByAgents
  <1>held. /\ HoldsBound(boot[a])
           /\ \A c \in Checks : HoldsBound(check[a][c])
           /\ \A e \in Execs : HoldsBound(exec[a][e])
    BY DEF SystemInv, AgentsHoldBound
  <1>1. CASE StartAgent(a) \/ BootQuery(a) \/ BootResume(a) \/ CoolDown(a)
    BY <1>1 DEF StartAgent, BootQuery, BootResume, CoolDown, SharedByAgents
  <1>2. CASE BootPromote(a)
    BY <1>2, <1>held, StatusWriteShares DEF BootPromote, HoldsBound
  <1>3. CASE BootFails(a)
    BY <1>3 DEF BootFails, Mishap, SharedByAgents
  <1>4. CASE StopAgent(a)
    BY <1>4 DEF StopAgent, Mishap, SharedByAgents
  <1>5. ASSUME NEW c \in Checks, CheckStep(a, c) PROVE SharedByAgents
    <2>1. CASE CheckQuery(a, c) \/ ResumeWithoutTask(a, c) \/ ResumeAndWait(a, c)
               \/ \E e \in Execs : ResumeAndExecute(a, c, e)
      BY <2>1 DEF CheckQuery, ResumeWithoutTask, ResumeAndWait, ResumeAndExecute,
                  SharedByAgents
    <2>2. CASE CheckClaim(a, c)
      BY <2>2 DEF CheckClaim, AgentStatement, SharedByAgents, shared
    <2>3. CASE CheckPromote(a, c)
      BY <2>3, <1>held, StatusWriteShares DEF CheckPromote, HoldsBound
    <2>4. CASE CheckFails(a, c)
      BY <2>4 DEF CheckFails, Mishap, SharedByAgents
    <2> QED BY <1>5, <2>1, <2>2, <2>3, <2>4 DEF CheckStep
  <1>6. ASSUME NEW e \in Execs, ExecStep(a, e) PROVE SharedByAgents
    <2>1. exec[a][e].pc # "idle" => exec[a][e].task \in Tasks
      BY DEF SystemInv, AgentInv, ExecutionHasTask
    <2>2. exec[a][e].outcome = "success" => exec[a][e].task \in succeeded
      BY DEF SystemInv, AgentInv, CarriedWasExecuted
    <2>3. ASSUME NEW o \in Outcome, ExecReturns(a, e, o) PROVE SharedByAgents
      BY <2>1, <2>3 DEF ExecReturns, SharedByAgents, shared
    <2>4. CASE ExecWrites(a, e)
      <3>1. exec[a][e].task \in Tasks /\ Bound(exec[a][e].task)
        BY <1>held, <2>1, <2>4 DEF ExecWrites, HoldsBound
      <3> QED BY <2>2, <2>4, <3>1, StatusWriteShares DEF ExecWrites, NextStatus
    <2>5. CASE ExecWriteFails(a, e)
      BY <2>5 DEF ExecWriteFails, Mishap, SharedByAgents
    <2>6. CASE SettleSuccess(a, e)
      BY <2>2, <2>6 DEF SettleSuccess, SharedByAgents
    <2>7. CASE SettleFailure(a, e)
      BY <2>7 DEF SettleFailure, SharedByAgents
    <2> QED BY <1>6, <2>3, <2>4, <2>5, <2>6, <2>7 DEF ExecStep
  <1> QED BY <1>1, <1>2, <1>3, <1>4, <1>5, <1>6 DEF AgentStep, BootStep

-----------------------------------------------------------------------------
(* Whatever either side does, a bound task stays bound.                     *)

BoundKept == \A u \in Tasks : Bound(u) => Bound(u)'

LEMMA TableKeepsBound == ASSUME UNCHANGED table PROVE BoundKept
  BY DEF BoundKept, Bound, HasRow, table

LEMMA DagKeepsBound == ASSUME TablesTyped, SharedByDag PROVE BoundKept
  <1> USE DEF BoundKept, Bound, HasRow, TablesTyped, Status, RowStatus
  <1>1. ASSUME NEW t \in Tasks, OrchestratorStatement(t) PROVE BoundKept
    <2>1. CASE InsertTask(t)
      BY <2>1 DEF InsertTask
    <2>2. CASE \E w \in Workspaces : BindWorkspace(t, w)
      BY <2>2, WorkspaceAssumption DEF BindWorkspace
    <2>3. CASE \E w \in Workspaces, b \in Agents : AssignTask(t, w, b)
      BY <2>3, WorkspaceAssumption DEF AssignTask
    <2>4. CASE \/ MoveStatus(t, "submitted", "under_review")
               \/ \E s \in {"completed_success", "completed_failure"} :
                     MoveStatus(t, "under_review", s)
      BY <2>4 DEF MoveStatus
    <2>5. CASE ResetTask(t)
      BY <2>5 DEF ResetTask
    <2>6. CASE EraseReview(t) \/ \E v \in Verdict : RecordReview(t, v)
      BY <2>6 DEF EraseReview, RecordReview
    <2>7. CASE DropTask(t)
      BY <2>7 DEF DropTask, table
    <2> QED BY <1>1, <2>1, <2>2, <2>3, <2>4, <2>5, <2>6, <2>7 DEF OrchestratorStatement
  <1>2. CASE UNCHANGED table
    BY <1>2, TableKeepsBound
  <1> QED BY <1>1, <1>2 DEF SharedByDag, shared

LEMMA AgentsKeepBound == ASSUME TablesTyped, SharedByAgents PROVE BoundKept
  <1>1. ASSUME NEW t \in Tasks, AgentStatement(t) PROVE BoundKept
    BY <1>1 DEF AgentStatement, ClaimTask, Claimable, SetStatus, BoundKept, Bound, HasRow,
                TablesTyped, Status, RowStatus
  <1>2. CASE UNCHANGED table
    BY <1>2, TableKeepsBound
  <1> QED BY <1>1, <1>2 DEF SharedByAgents, shared

-----------------------------------------------------------------------------
(* The agents only take hold of bound tasks.                                *)

LEMMA NothingHeld ==
    /\ NoTask \notin Tasks
    /\ NoBoot.task \notin Tasks /\ NoBoot.pc = "off"
    /\ NoCheck.task \notin Tasks /\ NoCheck.pc = "idle"
    /\ NoExec.task \notin Tasks /\ NoExec.pc = "idle"
  BY TaskAssumption DEF NoBoot, NoCheck, NoExec, NoTask

LEMMA HeldStays ==
    ASSUME BoundKept, NEW v, HoldsBound(v)
    PROVE  /\ v.task \in Tasks => Bound(v.task)'
           /\ v.pc = "promote" => v.task \in Tasks
  BY DEF BoundKept, HoldsBound

LEMMA FoundIsBound ==
    ASSUME OrphanStaysPublished, NEW a, NEW t \in NextAssigned(a) PROVE Bound(t)
  BY DEF OrphanStaysPublished, NextAssigned, Mine, Bound, HasRow, RowStatus

\* Slots of other agents, and those an action leaves alone, keep their tasks.
LEMMA HoldingsStay ==
    ASSUME AgentsHoldBound, BoundKept, UNCHANGED <<boot, check, exec>>
    PROVE  AgentsHoldBound'
  BY HeldStays DEF AgentsHoldBound, HoldsBound

LEMMA BootHolds ==
    ASSUME SystemInv, BoundKept, NEW a \in Agents, NEW new \in Boot,
           boot' = [boot EXCEPT ![a] = new], UNCHANGED <<check, exec>>,
           new.task \in Tasks => Bound(new.task)', new.pc = "promote" => new.task \in Tasks
    PROVE  AgentsHoldBound'
  <1>1. boot \in [Agents -> Boot]
    BY DEF SystemInv, AgentInv, AgentTypeOK
  <1>2. ASSUME NEW b \in Agents PROVE HoldsBound(boot[b])'
    BY <1>1, HeldStays DEF SystemInv, AgentsHoldBound, HoldsBound
  <1>3. ASSUME NEW b \in Agents
        PROVE  /\ \A c \in Checks : HoldsBound(check[b][c])'
               /\ \A e \in Execs : HoldsBound(exec[b][e])'
    BY HeldStays DEF SystemInv, AgentsHoldBound, HoldsBound
  <1> QED BY <1>2, <1>3 DEF AgentsHoldBound

LEMMA CheckHolds ==
    ASSUME SystemInv, BoundKept, NEW a \in Agents, NEW c \in Checks, NEW new \in Check,
           check' = [check EXCEPT ![a][c] = new], UNCHANGED <<boot, exec>>,
           new.task \in Tasks => Bound(new.task)', new.pc = "promote" => new.task \in Tasks
    PROVE  AgentsHoldBound'
  <1>1. check \in [Agents -> [Checks -> Check]]
    BY DEF SystemInv, AgentInv, AgentTypeOK
  <1>2. ASSUME NEW b \in Agents, NEW d \in Checks PROVE HoldsBound(check[b][d])'
    <2>1. CASE b = a /\ d = c
      BY <1>1, <2>1 DEF HoldsBound
    <2>2. CASE ~(b = a /\ d = c)
      <3>1. check'[b][d] = check[b][d]
        BY <1>1, <2>2
      <3> QED BY <3>1, HeldStays DEF SystemInv, AgentsHoldBound, HoldsBound
    <2> QED BY <2>1, <2>2
  <1>3. ASSUME NEW b \in Agents
        PROVE  HoldsBound(boot[b])' /\ \A e \in Execs : HoldsBound(exec[b][e])'
    BY HeldStays DEF SystemInv, AgentsHoldBound, HoldsBound
  <1> QED BY <1>2, <1>3 DEF AgentsHoldBound

LEMMA ExecHolds ==
    ASSUME SystemInv, BoundKept, NEW a \in Agents, NEW e \in Execs, NEW new \in Exec,
           exec' = [exec EXCEPT ![a][e] = new],
           new.task \in Tasks => Bound(new.task)',
           UNCHANGED boot,
           \A b \in Agents, c \in Checks : check'[b][c] \in {check[b][c], NoCheck}
    PROVE  AgentsHoldBound'
  <1>1. exec \in [Agents -> [Execs -> Exec]]
    BY DEF SystemInv, AgentInv, AgentTypeOK
  <1>2. ASSUME NEW b \in Agents, NEW d \in Execs PROVE HoldsBound(exec[b][d])'
    <2>1. CASE b = a /\ d = e
      <3>1. exec'[b][d] = new /\ new.pc # "promote"
        BY <1>1, <2>1 DEF Exec
      <3> QED BY <3>1 DEF HoldsBound
    <2>2. CASE ~(b = a /\ d = e)
      <3>1. exec'[b][d] = exec[b][d]
        BY <1>1, <2>2
      <3> QED BY <3>1, HeldStays DEF SystemInv, AgentsHoldBound, HoldsBound
    <2> QED BY <2>1, <2>2
  <1>3. ASSUME NEW b \in Agents PROVE HoldsBound(boot[b])'
    BY HeldStays DEF SystemInv, AgentsHoldBound, HoldsBound
  <1>4. ASSUME NEW b \in Agents, NEW c \in Checks PROVE HoldsBound(check[b][c])'
    <2>1. CASE check'[b][c] = check[b][c]
      BY <2>1, HeldStays DEF SystemInv, AgentsHoldBound, HoldsBound
    <2>2. CASE check'[b][c] = NoCheck
      <3>1. check'[b][c].task \notin Tasks /\ check'[b][c].pc = "idle"
        BY <2>2, NothingHeld
      <3> QED BY <3>1 DEF HoldsBound
    <2> QED BY <2>1, <2>2
  <1> QED BY <1>2, <1>3, <1>4 DEF AgentsHoldBound

-----------------------------------------------------------------------------
(* The invariant of the composition.                                        *)

\* The actors in A and their futures are gone.
LEMMA DroppedHolds ==
    ASSUME AgentsHoldBound, BoundKept, NEW A, Dropped(A) PROVE AgentsHoldBound'
  <1> SUFFICES ASSUME NEW b \in Agents
               PROVE  /\ HoldsBound(boot[b])'
                      /\ \A c \in Checks : HoldsBound(check[b][c])'
                      /\ \A e \in Execs : HoldsBound(exec[b][e])'
    BY DEF AgentsHoldBound
  <1>1. CASE b \in A
    <2>1. /\ boot'[b] = NoBoot
          /\ \A c \in Checks : check'[b][c] = NoCheck
          /\ \A e \in Execs : exec'[b][e] = NoExec
      BY <1>1 DEF Dropped
    <2> QED BY <2>1, NothingHeld DEF HoldsBound
  <1>2. CASE b \notin A
    <2>1. boot'[b] = boot[b] /\ check'[b] = check[b] /\ exec'[b] = exec[b]
      BY <1>2 DEF Dropped
    <2> QED BY <2>1, HeldStays DEF AgentsHoldBound, HoldsBound
  <1> QED BY <1>1, <1>2

LEMMA AgentStepHolds ==
    ASSUME SystemInv, NEW a \in Agents, StartAgent(a) \/ AgentStep(a)
    PROVE  AgentsHoldBound'
  <1>kept. BoundKept /\ AgentsHoldBound
    BY AgentStepShares, AgentsKeepBound DEF SystemInv, DagInv, TableSafe
  <1>typed. boot[a] \in Boot /\ OrphanStaysPublished
    BY DEF SystemInv, AgentInv, AgentTypeOK, DagInv, TableSafe
  <1>1. CASE StartAgent(a)
    <2>1. PICK new \in Boot : new = [pc |-> "query", task |-> NoTask]
      BY DEF Boot
    <2> QED BY <1>1, <1>kept, <2>1, BootHolds, NothingHeld DEF StartAgent
  <1>2. CASE BootQuery(a)
    <2>1. CASE boot' = [boot EXCEPT ![a].pc = "resume"]
      <3>1. PICK new \in Boot : new = [boot[a] EXCEPT !.pc = "resume"]
        BY <1>typed DEF Boot
      <3>2. new.task = boot[a].task /\ new.pc = "resume"
        BY <3>1, <1>typed DEF Boot
      <3> QED BY <1>2, <1>kept, <2>1, <3>1, <3>2, BootHolds, HeldStays
              DEF BootQuery, AgentsHoldBound
    <2>2. ASSUME NEW t \in NextAssigned(a),
                 boot' = [boot EXCEPT ![a] = [pc |-> NextPc(t), task |-> t]]
          PROVE  AgentsHoldBound'
      <3>1. t \in Tasks /\ Bound(t)'
        BY <1>kept, <1>typed, <2>2, FoundIsBound DEF BoundKept, NextAssigned, Mine
      <3>2. [pc |-> NextPc(t), task |-> t] \in Boot
        BY <3>1 DEF Boot, NextPc
      <3>3. PICK new \in Boot : new = [pc |-> NextPc(t), task |-> t]
        BY <3>2
      <3> QED BY <1>2, <1>kept, <2>2, <3>1, <3>3, BootHolds DEF BootQuery
    <2> QED BY <1>2, <2>1, <2>2 DEF BootQuery
  <1>3. CASE BootPromote(a)
    <2>1. PICK new \in Boot : new = [boot[a] EXCEPT !.pc = "resume"]
      BY <1>typed DEF Boot
    <2>2. new.task = boot[a].task /\ new.pc = "resume"
      BY <2>1, <1>typed DEF Boot
    <2> QED BY <1>3, <1>kept, <2>1, <2>2, BootHolds, HeldStays
            DEF BootPromote, AgentsHoldBound
  <1>4. CASE BootFails(a)
    <2>1. PICK new \in Boot : new = [pc |-> "resume", task |-> NoTask]
      BY DEF Boot
    <2> QED BY <1>4, <1>kept, <2>1, BootHolds, NothingHeld DEF BootFails
  <1>5. CASE BootResume(a)
    <2>1. NoBoot \in Boot
      BY DEF NoBoot, Boot
    <2> QED BY <1>5, <1>kept, <2>1, BootHolds, NothingHeld DEF BootResume
  <1>6. CASE CoolDown(a)
    BY <1>6, <1>kept, HoldingsStay DEF CoolDown
  <1>7. CASE StopAgent(a)
    BY <1>7, <1>kept, DroppedHolds DEF StopAgent
  <1>8. ASSUME NEW c \in Checks, CheckStep(a, c) PROVE AgentsHoldBound'
    <2>typed. check[a][c] \in Check /\ NoCheck \in Check
      BY DEF SystemInv, AgentInv, AgentTypeOK, NoCheck, Check
    <2>old. PICK v \in Check : v = check[a][c]
      BY <2>typed
    <2>held. v.task \in Tasks => Bound(v.task)'
      BY <1>kept, <2>old, HeldStays DEF AgentsHoldBound
    <2>resume. ASSUME check' = [check EXCEPT ![a][c].pc = "resume"], UNCHANGED <<boot, exec>>
               PROVE  AgentsHoldBound'
      <3>1. PICK new \in Check : new = [check[a][c] EXCEPT !.pc = "resume"]
        BY <2>typed DEF Check
      <3>2. new.task = v.task /\ new.pc = "resume"
        BY <3>1, <2>old DEF Check
      <3>3. check' = [check EXCEPT ![a][c] = new]
        BY <2>resume, <3>1
      <3>4. new.task \in Tasks => Bound(new.task)'
        BY <2>held, <3>2
      <3>5. UNCHANGED <<boot, exec>> /\ new.pc # "promote"
        BY <2>resume, <3>2
      <3> QED BY <1>kept, <3>3, <3>4, <3>5, CheckHolds
    <2>1. CASE CheckQuery(a, c)
      <3>1. CASE check' = [check EXCEPT ![a][c] = [pc |-> "claim", task |-> NoTask]]
        <4>1. PICK new \in Check : new = [pc |-> "claim", task |-> NoTask]
          BY DEF Check
        <4> QED BY <1>kept, <2>1, <3>1, <4>1, CheckHolds, NothingHeld DEF CheckQuery
      <3>2. ASSUME NEW t \in NextAssigned(a),
                   check' = [check EXCEPT ![a][c] = [pc |-> NextPc(t), task |-> t]]
            PROVE  AgentsHoldBound'
        <4>1. t \in Tasks /\ Bound(t)'
          BY <1>kept, <1>typed, <3>2, FoundIsBound DEF BoundKept, NextAssigned, Mine
        <4>2. [pc |-> NextPc(t), task |-> t] \in Check
          BY <4>1 DEF Check, NextPc
        <4>3. PICK new \in Check : new = [pc |-> NextPc(t), task |-> t]
          BY <4>2
        <4> QED BY <1>kept, <2>1, <3>2, <4>1, <4>3, CheckHolds DEF CheckQuery
      <3> QED BY <2>1, <3>1, <3>2 DEF CheckQuery
    <2>2. CASE CheckClaim(a, c)
      <3>1. CASE check' = [check EXCEPT ![a][c].pc = "resume"]
        BY <2>2, <2>resume, <3>1 DEF CheckClaim
      <3>2. ASSUME NEW t \in Tasks, ClaimTask(a, t),
                   check' = [check EXCEPT ![a][c] = [pc |-> "resume", task |-> t]]
            PROVE  AgentsHoldBound'
        <4>1. Bound(t)
          BY <3>2, WorkspaceAssumption DEF ClaimTask, Claimable, Bound, HasRow, RowStatus
        <4>2. Bound(t)'
          BY <1>kept, <4>1 DEF BoundKept
        <4>3. PICK new \in Check : new = [pc |-> "resume", task |-> t]
          BY DEF Check
        <4> QED BY <1>kept, <2>2, <3>2, <4>2, <4>3, CheckHolds DEF CheckClaim
      <3> QED BY <2>2, <3>1, <3>2 DEF CheckClaim
    <2>3. CASE CheckPromote(a, c)
      BY <2>3, <2>resume DEF CheckPromote
    <2>4. CASE CheckFails(a, c)
      <3>1. PICK new \in Check : new = [pc |-> "resume", task |-> NoTask]
        BY DEF Check
      <3> QED BY <1>kept, <2>4, <3>1, CheckHolds, NothingHeld DEF CheckFails
    <2>5. CASE ResumeWithoutTask(a, c) \/ ResumeAndWait(a, c)
      <3>1. check' = [check EXCEPT ![a][c] = NoCheck] /\ UNCHANGED <<boot, exec>>
        BY <2>5 DEF ResumeWithoutTask, ResumeAndWait
      <3> QED BY <1>kept, <2>typed, <3>1, CheckHolds, NothingHeld
    <2>6. ASSUME NEW e \in Execs, ResumeAndExecute(a, c, e) PROVE AgentsHoldBound'
      <3>1. PICK new \in Exec :
               new = [pc |-> "running", task |-> check[a][c].task, outcome |-> "none"]
        BY <2>typed DEF Check, Exec
      <3>2. exec' = [exec EXCEPT ![a][e] = new] /\ new.task = v.task
        BY <2>6, <2>old, <3>1 DEF ResumeAndExecute
      <3>3. \A b \in Agents, d \in Checks : check'[b][d] \in {check[b][d], NoCheck}
        <4>1. check \in [Agents -> [Checks -> Check]]
          BY DEF SystemInv, AgentInv, AgentTypeOK
        <4>2. check' = [check EXCEPT ![a][c] = NoCheck]
          BY <2>6 DEF ResumeAndExecute
        <4> QED BY <4>1, <4>2
      <3>4. UNCHANGED boot
        BY <2>6 DEF ResumeAndExecute
      <3> QED BY <1>kept, <2>held, <3>2, <3>3, <3>4, ExecHolds
    <2> QED BY <1>8, <2>1, <2>2, <2>3, <2>4, <2>5, <2>6 DEF CheckStep
  <1>9. ASSUME NEW e \in Execs, ExecStep(a, e) PROVE AgentsHoldBound'
    <2>typed. exec[a][e] \in Exec /\ NoExec \in Exec
      BY DEF SystemInv, AgentInv, AgentTypeOK, NoExec, Exec
    <2>old. PICK v \in Exec : v = exec[a][e]
      BY <2>typed
    <2>held. v.task \in Tasks => Bound(v.task)'
      BY <1>kept, <2>old, HeldStays DEF AgentsHoldBound
    <2>same. ASSUME NEW new \in Exec, new.task = v.task,
                    exec' = [exec EXCEPT ![a][e] = new], UNCHANGED <<boot, check>>
             PROVE  AgentsHoldBound'
      BY <1>kept, <2>held, <2>same, ExecHolds
    <2>1. ASSUME NEW o \in Outcome, ExecReturns(a, e, o) PROVE AgentsHoldBound'
      <3>1. PICK new \in Exec :
               new = [exec[a][e] EXCEPT !.pc = IF o \in Writes THEN "write" ELSE "settle",
                                        !.outcome = o]
        BY <2>typed DEF Exec
      <3>2. new.task = v.task
        BY <3>1, <2>old DEF Exec
      <3>3. exec' = [exec EXCEPT ![a][e] = new]
        <4>1. exec' = [exec EXCEPT ![a][e].pc = IF o \in Writes THEN "write" ELSE "settle",
                                   ![a][e].outcome = o]
          BY <2>1 DEF ExecReturns
        <4>2. exec \in [Agents -> [Execs -> Exec]]
          BY DEF SystemInv, AgentInv, AgentTypeOK
        <4> QED BY <3>1, <4>1, <4>2
      <3> QED BY <2>1, <2>same, <3>2, <3>3 DEF ExecReturns
    <2>2. CASE ExecWrites(a, e) \/ ExecWriteFails(a, e)
      <3>1. PICK new \in Exec : new = [exec[a][e] EXCEPT !.pc = "settle"]
        BY <2>typed DEF Exec
      <3>2. new.task = v.task
        BY <3>1, <2>old DEF Exec
      <3>3. exec' = [exec EXCEPT ![a][e] = new] /\ UNCHANGED <<boot, check>>
        BY <2>2, <3>1 DEF ExecWrites, ExecWriteFails
      <3> QED BY <2>same, <3>2, <3>3
    <2>3. CASE SettleSuccess(a, e) \/ SettleFailure(a, e)
      <3>1. exec' = [exec EXCEPT ![a][e] = NoExec] /\ UNCHANGED <<boot, check>>
        BY <2>3 DEF SettleSuccess, SettleFailure
      <3> QED BY <1>kept, <2>typed, <3>1, ExecHolds, NothingHeld
    <2> QED BY <1>9, <2>1, <2>2, <2>3 DEF ExecStep
  <1> QED BY <1>1, <1>2, <1>3, <1>4, <1>5, <1>6, <1>7, <1>8, <1>9 DEF AgentStep, BootStep

-----------------------------------------------------------------------------
(* Every step of the system is a step of either side.                       *)

LEMMA StepOfAgents == ASSUME SystemInv, SystemNext PROVE [AgentNext]_agentAll
  <1> USE DEF agentAll
  <1>1. ASSUME NEW a \in Agents, StartAgent(a) \/ AgentStep(a) PROVE AgentNext
    BY <1>1 DEF AgentNext
  <1>2. CASE DagStep /\ UNCHANGED agentVars
    <2>1. SharedByDag
      BY <1>2, DagStepShares DEF SystemInv
    <2> QED BY <1>2, <2>1 DEF SharedByDag, AgentNext, AgentEnvironment, TableChanges,
                              TakeNotice, OtherFailure
  <1>3. ASSUME NEW j \in Jobs, NEW w \in Workspaces, NEW a \in Agents,
               CheckAvailableAgent(j, w, a)
        PROVE  UNCHANGED agentAll
    BY <1>3 DEF CheckAvailableAgent, PickAgent
  <1>4. ASSUME NEW j \in Jobs, StartChosenAgent(j) PROVE [AgentNext]_agentAll
    <2>1. job[j].agent \in Agents
      BY <1>4 DEF SystemInv, DagInv, JobsBound, Remembers, StartChosenAgent, AgentStarted
    <2>2. UNCHANGED shared
      BY <1>4 DEF StartChosenAgent, AgentStarted
    <2> QED BY <1>4, <2>1, <2>2 DEF StartChosenAgent, AgentNext
  <1>5. CASE Crash
    BY <1>5 DEF Crash, AgentNext
  <1> QED BY <1>1, <1>2, <1>3, <1>4, <1>5 DEF SystemNext

LEMMA StepOfOrchestrator == ASSUME SystemInv, SystemNext PROVE [DagNext]_dagAll
  <1> USE DEF dagAll
  <1>1. ASSUME NEW a \in Agents, StartAgent(a) \/ AgentStep(a), UNCHANGED dagVars
        PROVE  [DagNext]_dagAll
    <2>1. SharedByAgents
      BY <1>1, AgentStepShares
    <2> QED BY <1>1, <2>1 DEF SharedByAgents, DagNext, DagEnvironment, AgentsWrite,
                              AgentSucceeds, AgentReports, AgentSideMishap
  <1>2. CASE DagStep
    BY <1>2 DEF DagNext
  <1>3. ASSUME NEW j \in Jobs, NEW w \in Workspaces, NEW a \in Agents,
               CheckAvailableAgent(j, w, a)
        PROVE  DagNext
    BY <1>3 DEF CheckAvailableAgent, DagNext
  <1>4. ASSUME NEW j \in Jobs, StartChosenAgent(j) PROVE DagNext
    BY <1>4 DEF StartChosenAgent, DagNext
  <1>5. CASE Crash
    BY <1>5 DEF Crash, DagNext
  <1> QED BY <1>1, <1>2, <1>3, <1>4, <1>5 DEF SystemNext

LEMMA SystemStepInv == SystemInv /\ [SystemNext]_systemVars => SystemInv'
  <1> SUFFICES ASSUME SystemInv, [SystemNext]_systemVars PROVE SystemInv'
    OBVIOUS
  <1>1. CASE SystemNext
    <2>1. AgentInv'
      BY <1>1, StepOfAgents, AgentStepInv DEF SystemInv
    <2>2. DagInv'
      BY <1>1, StepOfOrchestrator, DagStepInv DEF SystemInv, dagAll
    <2>3. AgentsHoldBound'
      <3>1. ASSUME NEW a \in Agents, StartAgent(a) \/ AgentStep(a) PROVE AgentsHoldBound'
        BY <3>1, AgentStepHolds
      <3>2. CASE DagStep /\ UNCHANGED agentVars
        <4>1. BoundKept
          BY <3>2, DagStepShares, DagKeepsBound DEF SystemInv, DagInv, TableSafe
        <4> QED BY <3>2, <4>1, HoldingsStay DEF SystemInv, agentVars
      <3>3. ASSUME NEW j \in Jobs, NEW w \in Workspaces, NEW a \in Agents,
                   CheckAvailableAgent(j, w, a)
            PROVE  AgentsHoldBound'
        <4>1. BoundKept
          BY <3>3, TableKeepsBound DEF CheckAvailableAgent, PickAgent, shared
        <4> QED BY <3>3, <4>1, HoldingsStay DEF CheckAvailableAgent, SystemInv, agentVars
      <3>4. ASSUME NEW j \in Jobs, StartChosenAgent(j) PROVE AgentsHoldBound'
        <4>1. BoundKept
          BY <3>4, TableKeepsBound DEF StartChosenAgent, AgentStarted, shared
        <4>2. CASE UNCHANGED agentVars
          BY <4>1, <4>2, HoldingsStay DEF SystemInv, agentVars
        <4>3. CASE StartAgent(job[j].agent)
          <5>1. job[j].agent \in Agents
            BY <3>4 DEF SystemInv, DagInv, JobsBound, Remembers, StartChosenAgent,
                        AgentStarted
          <5> QED BY <4>3, <5>1, AgentStepHolds
        <4> QED BY <3>4, <4>2, <4>3 DEF StartChosenAgent
      <3>5. CASE Crash
        <4>1. BoundKept /\ Dropped(Agents)
          BY <3>5, TableKeepsBound DEF Crash, CrashAgents
        <4> QED BY <4>1, DroppedHolds DEF SystemInv
      <3> QED BY <1>1, <3>1, <3>2, <3>3, <3>4, <3>5 DEF SystemNext
    <2> QED BY <2>1, <2>2, <2>3 DEF SystemInv
  <1>2. CASE UNCHANGED systemVars
    <2>1. AgentInv' /\ DagInv'
      BY <1>2, AgentStepInv, DagStepInv DEF SystemInv, systemVars, agentAll
    <2>2. BoundKept
      BY <1>2, TableKeepsBound DEF systemVars, shared
    <2> QED BY <1>2, <2>1, <2>2, HoldingsStay DEF SystemInv, systemVars, agentVars
  <1> QED BY <1>1, <1>2

-----------------------------------------------------------------------------
(* A submitted task is always on its way to the review.                     *)

\* A future with the local variables v has yet to report t.
Reports(v, t) == v.pc = "settle" /\ v.outcome = "success" /\ v.task = t

\* Who carries t, as SubmittedHasCourier lists them.
HasCourier(t) ==
    \/ \E a \in Agents, e \in Execs : Reports(exec[a][e], t)
    \/ notices[t] > 0
    \/ t \in pending
    \/ inbox[t] > 0
    \/ \E r \in Reviews : reviewer[r] = [pc |-> "begin", task |-> t]

LEMMA CourierMeans ==
    SubmittedHasCourier <=>
        \A t \in Tasks : status[t] = "submitted" /\ mishaps = 0 => HasCourier(t)
  BY DEF SubmittedHasCourier, HasCourier, Reports

\* A step keeps the promise if it gives a task that becomes submitted a
\* courier, and takes the courier only from tasks that are not submitted.
LEMMA CouriersCarryOn ==
    ASSUME SubmittedHasCourier, mishaps' = mishaps,
           \A t \in Tasks : status'[t] = "submitted" =>
               status[t] = "submitted" \/ HasCourier(t)',
           \A t \in Tasks : status'[t] = "submitted" /\ HasCourier(t) => HasCourier(t)'
    PROVE  SubmittedHasCourier'
  <1>1. \A t \in Tasks : status'[t] = "submitted" /\ mishaps' = 0 => HasCourier(t)'
    BY CourierMeans
  <1> QED BY <1>1 DEF SubmittedHasCourier, HasCourier, Reports

LEMMA MishapExcuses ==
    ASSUME mishaps \in Nat, NEW k, Mishap(k) PROVE SubmittedHasCourier'
  BY DEF Mishap, SubmittedHasCourier

\* A statement that submits nothing takes no courier.
LEMMA NothingSubmitted ==
    ASSUME SubmittedHasCourier, mishaps' = mishaps,
           UNCHANGED <<exec, notices, pending, inbox, reviewer>>,
           \A t \in Tasks : status'[t] = "submitted" => status[t] = "submitted"
    PROVE  SubmittedHasCourier'
  <1>1. \A t \in Tasks : HasCourier(t) => HasCourier(t)'
    BY DEF HasCourier, Reports
  <1> QED BY <1>1, CouriersCarryOn

\* An execution slot that holds no report may be given any other content.
LEMMA ReportsStay ==
    ASSUME exec \in [Agents -> [Execs -> Exec]], NEW a \in Agents, NEW e \in Execs,
           NEW new \in Exec, exec' = [exec EXCEPT ![a][e] = new],
           UNCHANGED <<notices, pending, inbox, reviewer>>,
           NEW t \in Tasks, HasCourier(t),
           ~Reports(exec[a][e], t)
    PROVE  HasCourier(t)'
  <1>1. ASSUME NEW b \in Agents, NEW d \in Execs, Reports(exec[b][d], t)
        PROVE  Reports(exec'[b][d], t)
    <2>1. ~(b = a /\ d = e)
      BY <1>1
    <2>2. exec'[b][d] = exec[b][d]
      BY <2>1
    <2> QED BY <1>1, <2>2
  <1> QED BY <1>1 DEF HasCourier, Reports

LEMMA AgentStepCarries ==
    ASSUME SystemInv, SubmittedHasCourier, NEW a \in Agents,
           StartAgent(a) \/ AgentStep(a), UNCHANGED dagVars
    PROVE  SubmittedHasCourier'
  <1>typed. /\ status \in [Tasks -> Status] /\ notices \in [Tasks -> Nat]
            /\ mishaps \in Nat
            /\ exec \in [Agents -> [Execs -> Exec]]
            /\ check \in [Agents -> [Checks -> Check]]
    BY DEF SystemInv, AgentInv, AgentTypeOK, TableTypeOK, TablesTyped
  <1>dag. UNCHANGED <<pending, inbox, reviewer>>
    BY DEF dagVars
  <1>mishap. ASSUME NEW k, Mishap(k) PROVE SubmittedHasCourier'
    BY <1>typed, <1>mishap, MishapExcuses
  <1>quiet. ASSUME UNCHANGED <<exec, notices, mishaps>>,
                   \A t \in Tasks : status'[t] = "submitted" => status[t] = "submitted"
            PROVE  SubmittedHasCourier'
    BY <1>dag, <1>quiet, NothingSubmitted
  <1>slot. ASSUME NEW e \in Execs, NEW new \in Exec, exec' = [exec EXCEPT ![a][e] = new],
                  UNCHANGED <<notices, mishaps>>,
                  \A t \in Tasks : status'[t] = "submitted" =>
                      status[t] = "submitted" \/ Reports(new, t),
                  \A t \in Tasks : ~Reports(exec[a][e], t)
           PROVE  SubmittedHasCourier'
    <2>1. exec'[a][e] = new
      BY <1>typed, <1>slot
    <2>2. \A t \in Tasks : Reports(new, t) => HasCourier(t)'
      BY <2>1 DEF HasCourier, Reports
    <2>3. \A t \in Tasks : HasCourier(t) => HasCourier(t)'
      BY <1>typed, <1>dag, <1>slot, ReportsStay
    <2> QED BY <1>slot, <2>2, <2>3, CouriersCarryOn
  <1>promote. ASSUME NEW t, SetStatus(t, "executing")
              PROVE  \A u \in Tasks : status'[u] = "submitted" => status[u] = "submitted"
    BY <1>typed, <1>promote DEF SetStatus
  <1>1. CASE \/ StartAgent(a) \/ BootQuery(a) \/ BootResume(a) \/ CoolDown(a)
    BY <1>1, <1>quiet DEF StartAgent, BootQuery, BootResume, CoolDown, shared, table
  <1>2. CASE BootPromote(a)
    BY <1>2, <1>quiet, <1>promote DEF BootPromote
  <1>3. CASE BootFails(a) \/ StopAgent(a)
    BY <1>3, <1>mishap DEF BootFails, StopAgent
  <1>4. ASSUME NEW c \in Checks, CheckStep(a, c) PROVE SubmittedHasCourier'
    <2>1. CASE CheckQuery(a, c) \/ ResumeWithoutTask(a, c) \/ ResumeAndWait(a, c)
      BY <2>1, <1>quiet DEF CheckQuery, ResumeWithoutTask, ResumeAndWait, shared, table
    <2>2. CASE CheckClaim(a, c)
      <3>1. \A u \in Tasks : status'[u] = "submitted" => status[u] = "submitted"
        BY <1>typed, <2>2 DEF CheckClaim, ClaimTask, table
      <3> QED BY <2>2, <3>1, <1>quiet DEF CheckClaim
    <2>3. CASE CheckPromote(a, c)
      BY <2>3, <1>quiet, <1>promote DEF CheckPromote
    <2>4. CASE CheckFails(a, c)
      BY <2>4, <1>mishap DEF CheckFails
    <2>5. ASSUME NEW e \in Execs, ResumeAndExecute(a, c, e) PROVE SubmittedHasCourier'
      <3>1. check[a][c].task \in Tasks \cup {NoTask}
        BY <1>typed DEF Check
      <3>2. PICK new \in Exec :
               new = [pc |-> "running", task |-> check[a][c].task, outcome |-> "none"]
        BY <3>1 DEF Exec
      <3>3. exec' = [exec EXCEPT ![a][e] = new] /\ UNCHANGED shared
        BY <2>5, <3>2 DEF ResumeAndExecute
      <3>4. \A t \in Tasks : ~Reports(exec[a][e], t)
        BY <2>5 DEF ResumeAndExecute, Reports
      <3> QED BY <3>3, <3>4, <1>slot DEF shared, table
    <2> QED BY <1>4, <2>1, <2>2, <2>3, <2>4, <2>5 DEF CheckStep
  <1>5. ASSUME NEW e \in Execs, ExecStep(a, e) PROVE SubmittedHasCourier'
    <2>old. PICK v \in Exec : v = exec[a][e]
      BY <1>typed
    <2>1. ASSUME NEW o \in Outcome, ExecReturns(a, e, o) PROVE SubmittedHasCourier'
      <3>1. PICK new \in Exec :
               new = [v EXCEPT !.pc = IF o \in Writes THEN "write" ELSE "settle",
                               !.outcome = o]
        BY DEF Exec
      <3>2. exec' = [exec EXCEPT ![a][e] = new]
        <4>1. exec' = [exec EXCEPT ![a][e].pc = IF o \in Writes THEN "write" ELSE "settle",
                                   ![a][e].outcome = o]
          BY <2>1 DEF ExecReturns
        <4> QED BY <1>typed, <2>old, <3>1, <4>1
      <3>3. \A t \in Tasks : ~Reports(exec[a][e], t)
        BY <2>1 DEF ExecReturns, Reports
      <3> QED BY <2>1, <3>2, <3>3, <1>slot DEF ExecReturns, table
    <2>2. CASE ExecWrites(a, e)
      <3>1. PICK new \in Exec : new = [v EXCEPT !.pc = "settle"]
        BY DEF Exec
      <3>2. exec' = [exec EXCEPT ![a][e] = new]
        BY <2>2, <2>old, <3>1 DEF ExecWrites
      <3>3. \A t \in Tasks : ~Reports(exec[a][e], t)
        BY <2>2 DEF ExecWrites, Reports
      <3>4. \A t \in Tasks : status'[t] = "submitted" =>
               status[t] = "submitted" \/ Reports(new, t)
        <4>1. new.pc = "settle" /\ new.outcome = v.outcome /\ new.task = v.task
          BY <3>1 DEF Exec
        <4>2. SetStatus(v.task, NextStatus(v.outcome))
          BY <2>2, <2>old DEF ExecWrites
        <4> QED BY <1>typed, <4>1, <4>2 DEF SetStatus, NextStatus, Reports
      <3> QED BY <2>2, <3>2, <3>3, <3>4, <1>slot DEF ExecWrites
    <2>3. CASE ExecWriteFails(a, e)
      BY <2>3, <1>mishap DEF ExecWriteFails
    <2>4. CASE SettleSuccess(a, e)
      <3>1. /\ notices' = [notices EXCEPT ![v.task] = @ + 1]
            /\ exec' = [exec EXCEPT ![a][e] = NoExec]
            /\ v.pc = "settle" /\ v.outcome = "success"
            /\ UNCHANGED <<table, mishaps>>
        BY <2>4, <2>old DEF SettleSuccess
      <3>2. ASSUME NEW t \in Tasks, HasCourier(t) PROVE HasCourier(t)'
        <4>1. CASE t = v.task
          <5>1. notices'[t] > 0
            BY <1>typed, <3>1, <4>1
          <5> QED BY <5>1 DEF HasCourier
        <4>2. CASE t # v.task
          <5>1. notices'[t] = notices[t]
            BY <1>typed, <3>1, <4>2
          <5>2. ASSUME NEW b \in Agents, NEW d \in Execs, Reports(exec[b][d], t)
                PROVE  Reports(exec'[b][d], t)
            <6>1. ~(b = a /\ d = e)
              BY <2>old, <4>2, <5>2 DEF Reports
            <6>2. exec'[b][d] = exec[b][d]
              BY <1>typed, <3>1, <6>1
            <6> QED BY <5>2, <6>2
          <5> QED BY <1>dag, <3>2, <5>1, <5>2 DEF HasCourier, Reports
        <4> QED BY <4>1, <4>2
      <3> QED BY <3>1, <3>2, CouriersCarryOn DEF table
    <2>5. CASE SettleFailure(a, e)
      <3>1. PICK new \in Exec : new = NoExec
        BY DEF Exec, NoExec
      <3>2. exec' = [exec EXCEPT ![a][e] = new] /\ UNCHANGED shared
        BY <2>5, <3>1 DEF SettleFailure
      <3>3. \A t \in Tasks : ~Reports(exec[a][e], t)
        BY <2>5 DEF SettleFailure, Reports
      <3> QED BY <3>2, <3>3, <1>slot DEF shared, table
    <2> QED BY <1>5, <2>1, <2>2, <2>3, <2>4, <2>5 DEF ExecStep
  <1> QED BY <1>1, <1>2, <1>3, <1>4, <1>5 DEF AgentStep, BootStep

\* What a step does to the queues between the execution and the reviewer is
\* all there is to look at when it touches neither.
LEMMA QueuesDecide ==
    ASSUME UNCHANGED <<exec, reviewer>>, NEW t \in Tasks, HasCourier(t),
           notices[t] > 0 \/ t \in pending \/ inbox[t] > 0 =>
               notices'[t] > 0 \/ t \in pending' \/ inbox'[t] > 0
    PROVE  HasCourier(t)'
  <1>1. CASE notices[t] > 0 \/ t \in pending \/ inbox[t] > 0
    BY <1>1 DEF HasCourier
  <1>2. CASE \E a \in Agents, e \in Execs : Reports(exec[a][e], t)
    BY <1>2 DEF HasCourier, Reports
  <1>3. CASE \E r \in Reviews : reviewer[r] = [pc |-> "begin", task |-> t]
    BY <1>3 DEF HasCourier
  <1> QED BY <1>1, <1>2, <1>3 DEF HasCourier

LEMMA DeliveryCarries ==
    ASSUME SystemInv, SubmittedHasCourier, DeliveryStep, UNCHANGED agentVars
    PROVE  SubmittedHasCourier'
  <1>typed. /\ notices \in [Tasks -> Nat] /\ inbox \in [Tasks -> Nat]
            /\ pending \subseteq Tasks /\ scan \subseteq Tasks
    BY DagAssumption DEF SystemInv, DagInv, DagTypeOK, TableTypeOK
  <1>agents. UNCHANGED exec
    BY DEF agentVars
  <1>carried. ASSUME UNCHANGED <<status, mishaps>>,
                     \A t \in Tasks : HasCourier(t) => HasCourier(t)'
              PROVE  SubmittedHasCourier'
    BY <1>carried, CouriersCarryOn
  <1>1. CASE RegisterTaskReviewer \/ ScanQuery
    BY <1>1, <1>agents, NothingSubmitted
       DEF RegisterTaskReviewer, ScanQuery, shared, table
  <1>sent. ASSUME NEW sent \in SUBSET Tasks, Deliver(sent), UNCHANGED <<exec, notices, reviewer>>,
                  NEW t \in Tasks, t \in pending => t \in pending' \/ t \in sent,
                  HasCourier(t)
           PROVE  HasCourier(t)'
    <2>1. inbox'[t] >= inbox[t] /\ (t \in sent => inbox'[t] > 0)
      BY <1>typed, <1>sent DEF Deliver
    <2>2. inbox[t] > 0 => inbox'[t] > 0
      BY <1>typed, <1>sent, <2>1 DEF Deliver
    <2> QED BY <1>sent, <2>1, <2>2, QueuesDecide
  <1>2. CASE RetryPending
    <2>1. UNCHANGED <<status, mishaps, notices, exec, reviewer>>
      BY <1>2, <1>agents DEF RetryPending, shared, table
    <2>2. PICK sent \in SUBSET pending : Deliver(sent) /\ pending' = pending \ sent
      BY <1>2 DEF RetryPending
    <2>3. ASSUME NEW t \in Tasks, HasCourier(t) PROVE HasCourier(t)'
      BY <1>typed, <1>sent, <2>1, <2>2, <2>3
    <2> QED BY <1>carried, <2>1, <2>3
  <1>3. CASE ScanResume
    <2>1. UNCHANGED <<status, mishaps, notices, exec, reviewer>>
      BY <1>3, <1>agents DEF ScanResume, shared, table
    <2>2. CASE UNCHANGED <<inbox, pending>>
      BY <2>1, <2>2, NothingSubmitted
    <2>3. ASSUME NEW sent \in SUBSET (scan \ pending), Deliver(sent),
                 pending' = pending \cup (scan \ sent)
          PROVE  SubmittedHasCourier'
      <3>1. ASSUME NEW t \in Tasks, HasCourier(t) PROVE HasCourier(t)'
        BY <1>typed, <1>sent, <2>1, <2>3, <3>1
      <3> QED BY <1>carried, <2>1, <3>1
    <2> QED BY <1>3, <2>2, <2>3 DEF ScanResume
  <1>4. ASSUME NEW u \in Tasks, NotifyTaskExecutionEvent(u) PROVE SubmittedHasCourier'
    <2>1. /\ UNCHANGED <<status, mishaps, exec, reviewer>>
          /\ notices' = [notices EXCEPT ![u] = @ - 1]
      BY <1>4, <1>agents DEF NotifyTaskExecutionEvent, table
    <2>2. CASE Deliver({u}) /\ pending' = pending \ {u}
      <3>1. inbox'[u] > 0
        BY <1>typed, <2>2 DEF Deliver
      <3>2. ASSUME NEW t \in Tasks, HasCourier(t) PROVE HasCourier(t)'
        <4>1. t # u => /\ inbox'[t] = inbox[t] /\ notices'[t] = notices[t]
                       /\ t \in pending => t \in pending'
          BY <1>typed, <2>1, <2>2 DEF Deliver
        <4>2. \/ notices'[t] > 0 \/ t \in pending' \/ inbox'[t] > 0
              \/ ~(notices[t] > 0 \/ t \in pending \/ inbox[t] > 0)
          BY <3>1, <4>1
        <4> QED BY <2>1, <3>2, <4>2, QueuesDecide
      <3> QED BY <1>carried, <2>1, <3>2
    <2>3. CASE pending' = pending \cup {u} /\ UNCHANGED inbox
      <3>1. \A t \in Tasks \ {u} : notices'[t] = notices[t]
        BY <1>typed, <2>1
      <3>2. \A t \in Tasks : HasCourier(t) => HasCourier(t)'
        BY <2>1, <2>3, <3>1, QueuesDecide
      <3> QED BY <1>carried, <2>1, <3>2
    <2> QED BY <1>4, <2>2, <2>3 DEF NotifyTaskExecutionEvent
  <1> QED BY <1>1, <1>2, <1>3, <1>4 DEF DeliveryStep

LEMMA ReviewCarries ==
    ASSUME SystemInv, SubmittedHasCourier, NEW r \in Reviews, ReviewStep(r),
           UNCHANGED agentVars
    PROVE  SubmittedHasCourier'
  <1>typed. /\ status \in [Tasks -> Status] /\ mishaps \in Nat
            /\ inbox \in [Tasks -> Nat]
            /\ reviewer \in [Reviews -> Reviewing]
    BY DagAssumption DEF SystemInv, DagInv, DagTypeOK, TableTypeOK, TablesTyped
  <1>agents. UNCHANGED exec
    BY DEF agentVars
  <1>others. ASSUME NEW t \in Tasks, NEW new, reviewer' = [reviewer EXCEPT ![r] = new],
                    reviewer[r] # [pc |-> "begin", task |-> t],
                    UNCHANGED <<notices, pending>>, inbox'[t] = inbox[t], HasCourier(t)
             PROVE  HasCourier(t)'
    <2>1. ASSUME NEW q \in Reviews, reviewer[q] = [pc |-> "begin", task |-> t]
          PROVE  reviewer'[q] = [pc |-> "begin", task |-> t]
      BY <1>typed, <1>others, <2>1
    <2> QED BY <1>agents, <1>others, <2>1 DEF HasCourier, Reports
  <1>1. ASSUME NEW u \in Tasks, ReviewTakes(r, u) PROVE SubmittedHasCourier'
    <2>1. /\ UNCHANGED <<status, mishaps, notices, pending>>
          /\ inbox' = [inbox EXCEPT ![u] = @ - 1]
          /\ reviewer' = [reviewer EXCEPT ![r] = [pc |-> "begin", task |-> u]]
          /\ reviewer[r].pc = "idle"
      BY <1>1 DEF ReviewTakes, shared, table
    <2>2. HasCourier(u)'
      <3>1. reviewer'[r] = [pc |-> "begin", task |-> u]
        BY <1>typed, <2>1
      <3> QED BY <3>1 DEF HasCourier
    <2>3. ASSUME NEW t \in Tasks, t # u, HasCourier(t) PROVE HasCourier(t)'
      <3>1. inbox'[t] = inbox[t] /\ reviewer[r] # [pc |-> "begin", task |-> t]
        BY <1>typed, <2>1, <2>3
      <3> QED BY <1>others, <2>1, <2>3, <3>1
    <2> QED BY <2>1, <2>2, <2>3, CouriersCarryOn
  <1>2. CASE BeginTaskReview(r)
    <2>1. /\ UNCHANGED <<mishaps, notices, pending, inbox>>
          /\ MoveStatus(reviewer[r].task, "submitted", "under_review")
      BY <1>2 DEF BeginTaskReview
    <2>2. PICK new : new = [reviewer[r] EXCEPT !.pc = "judge"]
      OBVIOUS
    <2>3. reviewer' = [reviewer EXCEPT ![r] = new]
      BY <1>2, <2>2 DEF BeginTaskReview
    <2>4. ASSUME NEW t \in Tasks, status'[t] = "submitted"
          PROVE  status[t] = "submitted" /\ reviewer[r].task # t
      BY <1>typed, <2>1, <2>4 DEF MoveStatus
    <2>5. ASSUME NEW t \in Tasks, status'[t] = "submitted", HasCourier(t)
          PROVE  HasCourier(t)'
      <3>1. reviewer[r] # [pc |-> "begin", task |-> t]
        BY <2>4, <2>5
      <3> QED BY <1>others, <2>1, <2>3, <2>5, <3>1
    <2> QED BY <2>1, <2>4, <2>5, CouriersCarryOn
  <1>3. ASSUME NEW v \in Verdict, CompleteTaskReview(r, v) PROVE SubmittedHasCourier'
    <2>1. /\ UNCHANGED <<status, mishaps, notices, pending, inbox>>
          /\ reviewer' = [reviewer EXCEPT ![r] = NoReview]
          /\ reviewer[r].pc = "judge"
      BY <1>3 DEF CompleteTaskReview, RecordReview
    <2>2. ASSUME NEW t \in Tasks, HasCourier(t) PROVE HasCourier(t)'
      <3>1. reviewer[r] # [pc |-> "begin", task |-> t]
        BY <2>1
      <3> QED BY <1>others, <2>1, <2>2, <3>1
    <2> QED BY <2>1, <2>2, CouriersCarryOn
  <1>4. CASE ReviewFails(r)
    BY <1>4, <1>typed, MishapExcuses DEF ReviewFails
  <1> QED BY <1>1, <1>2, <1>3, <1>4 DEF ReviewStep

\* No statement of a handler submits a task, and no handler carries one.
LEMMA JobCarries ==
    ASSUME SystemInv, SubmittedHasCourier, NEW j \in Jobs, JobStep(j), UNCHANGED agentVars
    PROVE  SubmittedHasCourier'
  <1> USE DEF jobFrame, ownFrame, shared, table
  <1>typed. /\ status \in [Tasks -> Status] /\ mishaps \in Nat
    BY DEF SystemInv, DagInv, DagTypeOK, TableTypeOK, TablesTyped
  <1>quiet. ASSUME UNCHANGED <<notices, mishaps, pending, inbox, reviewer>>,
                   \A t \in Tasks : status'[t] = "submitted" => status[t] = "submitted"
            PROVE  SubmittedHasCourier'
    BY <1>quiet, NothingSubmitted DEF agentVars
  <1>1. ASSUME NEW t \in Tasks, SubmitTask(j, t) PROVE SubmittedHasCourier'
    BY <1>1, <1>typed, <1>quiet DEF SubmitTask, InsertTask
  <1>2. CASE PlaceNowhere(j)
    BY <1>2, <1>quiet DEF PlaceNowhere, BindWorkspace
  <1>3. CASE AssignChosen(j)
    BY <1>3, <1>typed, <1>quiet DEF AssignChosen, AssignTask
  <1>4. CASE RejectResets(j)
    BY <1>4, <1>typed, <1>quiet DEF RejectResets, ResetTask
  <1>5. CASE RejectErases(j) \/ DeletePurges(j)
    BY <1>5, <1>quiet DEF RejectErases, DeletePurges, EraseReview
  <1>6. CASE Decide(j)
    BY <1>6, <1>typed, <1>quiet DEF Decide, MoveStatus, FinalStatus
  <1>7. CASE DeleteDrops(j)
    BY <1>7, <1>typed, <1>quiet DEF DeleteDrops, DropTask
  <1>8. CASE JobFails(j)
    BY <1>8, <1>typed, MishapExcuses DEF JobFails
  <1>9. CASE \/ SubmitWithoutWorkspace(j) \/ DecideMissing(j)
             \/ \E t \in Tasks : \/ RejectResult(j, t) \/ AcceptResult(j, t)
                                 \/ DeleteTask(j, t)
                                 \/ \E v \in Verdict : ChatDecision(j, t, v)
    BY <1>9, <1>quiet DEF SubmitWithoutWorkspace, DecideMissing, RejectResult,
                          AcceptResult, DeleteTask, ChatDecision
  <1> QED BY <1>1, <1>2, <1>3, <1>4, <1>5, <1>6, <1>7, <1>8, <1>9 DEF JobStep

LEMMA SystemStepCarries ==
    ASSUME SystemInv, SubmittedHasCourier, [SystemNext]_systemVars
    PROVE  SubmittedHasCourier'
  <1>1. ASSUME NEW a \in Agents, StartAgent(a) \/ AgentStep(a), UNCHANGED dagVars
        PROVE  SubmittedHasCourier'
    BY <1>1, AgentStepCarries
  <1>2. CASE DagStep /\ UNCHANGED agentVars
    BY <1>2, DeliveryCarries, ReviewCarries, JobCarries DEF DagStep
  <1>3. ASSUME NEW j \in Jobs, NEW w \in Workspaces, NEW a \in Agents,
               CheckAvailableAgent(j, w, a)
        PROVE  SubmittedHasCourier'
    BY <1>3, NothingSubmitted DEF CheckAvailableAgent, PickAgent, shared, table, jobFrame,
                                  agentVars
  <1>4. ASSUME NEW j \in Jobs, StartChosenAgent(j) PROVE SubmittedHasCourier'
    BY <1>4, NothingSubmitted DEF StartChosenAgent, AgentStarted, StartAgent, shared, table,
                                  jobFrame, agentVars
  <1>5. CASE Crash
    BY <1>5, MishapExcuses DEF Crash, CrashAgents, SystemInv, DagInv, DagTypeOK, TableTypeOK
  <1>6. CASE UNCHANGED systemVars
    BY <1>6, NothingSubmitted DEF systemVars, shared, table, agentVars, dagVars
  <1> QED BY <1>1, <1>2, <1>3, <1>4, <1>5, <1>6 DEF SystemNext

-----------------------------------------------------------------------------
(* Theorems.                                                                *)

\* Both invariants hold in the composition, and no future of an agent ever
\* holds a task whose row exists without a workspace.
THEOREM SystemInvariant == SystemSpec => []SystemInv
  <1>1. SystemInit => SystemInv
    <2> SUFFICES ASSUME SystemInit PROVE SystemInv
      OBVIOUS
    <2>1. AgentInv /\ DagInv
      BY AgentInitInv, DagInitInv DEF SystemInit
    <2>2. AgentsHoldBound
      BY NothingHeld DEF SystemInit, AgentInit, AgentsHoldBound, HoldsBound
    <2> QED BY <2>1, <2>2 DEF SystemInv
  <1> QED BY <1>1, SystemStepInv, PTL DEF SystemSpec

\* As long as nothing was disturbed, a submitted task is always on its way to
\* the review: every hand-over between AgentActor, DagOrchestrActor and
\* TaskAgent passes it on, in whatever order their messages are handled.
THEOREM SubmittedKeepsCourier == SystemSpec => []SubmittedHasCourier
  <1>1. SystemInit => SubmittedHasCourier
    BY DEF SystemInit, TableInit, SubmittedHasCourier
  <1>2. SystemInv /\ SubmittedHasCourier /\ [SystemNext]_systemVars => SubmittedHasCourier'
    BY SystemStepCarries
  <1> QED BY <1>1, <1>2, SystemInvariant, PTL DEF SystemSpec

\* The orchestrator never does to the agents what AgentSpec's environment may
\* not do: AgentInvariant and what follows from it hold of the whole system.
THEOREM SystemImplementsAgents == SystemSpec => AgentSpec
  <1>1. SystemInit => AgentSpecInit
    BY DEF SystemInit, AgentSpecInit
  <1>2. SystemInv /\ [SystemNext]_systemVars => [AgentNext]_<<shared, agentVars>>
    BY StepOfAgents DEF systemVars, agentAll
  <1> QED BY <1>1, <1>2, SystemInvariant, PTL DEF SystemSpec, AgentSpec

\* The agents never do to the orchestrator what DagSpec's environment may not
\* do: whatever they hold across their awaits, they only write to tasks that
\* are bound to a workspace, and only submit what they executed.
THEOREM SystemImplementsOrchestrator == SystemSpec => DagSpec
  <1>1. SystemInit => DagSpecInit
    BY DEF SystemInit, DagSpecInit
  <1>2. SystemInv /\ [SystemNext]_systemVars => [DagNext]_<<shared, dagVars>>
    BY StepOfOrchestrator DEF systemVars, dagAll
  <1> QED BY <1>1, <1>2, SystemInvariant, PTL DEF SystemSpec, DagSpec

\* The whole system keeps the contract of a task's life.
THEOREM SystemKeepsContract == SystemSpec => KeepsContract
  BY SystemImplementsOrchestrator, DagImplementsContract, PTL

=============================================================================
