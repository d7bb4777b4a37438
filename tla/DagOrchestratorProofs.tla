----------------------- MODULE DagOrchestratorProofs -----------------------
(***************************************************************************)
(* Theorems about DagOrchestrator for every set of tasks, handler slots    *)
(* and review slots, whatever the agents do within DagEnvironment.         *)
(*                                                                         *)
(* The invariant has three parts: what the tables must satisfy after each  *)
(* statement (TableSafe), that every message and future that asks for a    *)
(* review names a task that was executed (CarriersExecuted), and that a    *)
(* handler which will write an assignment still has a workspace to write   *)
(* it for (JobsBound).                                                     *)
(***************************************************************************)
EXTENDS DagOrchestrator, TLAPS

\* A row that was never inserted has no agent.
UnbornIsFree == \A t \in Tasks : status[t] = "unborn" => assigned[t] = NoAgent

TableSafe ==
    /\ TablesTyped
    /\ UnbornIsFree
    /\ ReviewedWasExecuted
    /\ OrphanStaysPublished

\* The task was inserted, and as long as its row exists it has a workspace.
Bound(t) == status[t] # "unborn" /\ (HasRow(t) => workspace[t] # NoWorkspace)

\* Whatever leads to a review names a task that was executed successfully.
CarriersExecuted ==
    /\ pending \subseteq succeeded
    /\ scan \subseteq succeeded
    /\ \A t \in Tasks : inbox[t] > 0 \/ notices[t] > 0 => t \in succeeded
    /\ \A r \in Reviews : reviewer[r].pc # "idle" => reviewer[r].task \in succeeded

\* What the handler with the local variables v may rely on.
Remembers(v) ==
    /\ v.pc # "idle" => v.task \in Tasks
    /\ v.pc \in {"place", "start", "assign"} => v.op \in {"submit", "reject"}
    /\ v.pc \in {"start", "assign"} => v.ws \in Workspaces /\ v.agent \in Agents
    /\ v.op = "reject" => v.task \in Tasks /\ v.ws \in Workspaces /\ Bound(v.task)
    /\ v.pc \in {"reset", "erase"} => v.op = "reject"
JobsBound == \A j \in Jobs : Remembers(job[j])

DagInv == DagTypeOK /\ TableSafe /\ CarriersExecuted /\ JobsBound

-----------------------------------------------------------------------------
(* Every statement that the orchestrator or an agent may run on the tables. *)

Statement(t) ==
    \/ InsertTask(t)
    \/ \E w \in Workspaces : BindWorkspace(t, w)
    \/ \E w \in Workspaces \cup {NoWorkspace}, a \in Agents :
          (HasRow(t) => w # NoWorkspace) /\ AssignTask(t, w, a)
    \/ MoveStatus(t, "submitted", "under_review")
    \/ \E v \in Review : MoveStatus(t, "under_review", FinalStatus(v))
    \/ ResetTask(t)
    \/ t \in succeeded /\ \E v \in Verdict : RecordReview(t, v)
    \/ EraseReview(t)
    \/ DropTask(t)
    \/ AgentStatement(t)

LEMMA StatementSafe ==
    ASSUME TableSafe, NEW t \in Tasks, Statement(t), succeeded' = succeeded
    PROVE  TableSafe' /\ \A u \in Tasks : Bound(u) => Bound(u)'
  <1> USE DEF TableSafe, TablesTyped, UnbornIsFree, ReviewedWasExecuted,
              OrphanStaysPublished, Bound, HasRow, Status, RowStatus
  <1>1. CASE InsertTask(t)
    BY <1>1 DEF InsertTask
  <1>2. CASE \E w \in Workspaces : BindWorkspace(t, w)
    BY <1>2, WorkspaceAssumption DEF BindWorkspace
  <1>3. CASE \E w \in Workspaces \cup {NoWorkspace}, a \in Agents :
                (HasRow(t) => w # NoWorkspace) /\ AssignTask(t, w, a)
    BY <1>3 DEF AssignTask
  <1>4. CASE MoveStatus(t, "submitted", "under_review")
    BY <1>4 DEF MoveStatus
  <1>5. CASE \E v \in Review : MoveStatus(t, "under_review", FinalStatus(v))
    BY <1>5 DEF MoveStatus, FinalStatus
  <1>6. CASE ResetTask(t)
    BY <1>6 DEF ResetTask
  <1>7. CASE t \in succeeded /\ \E v \in Verdict : RecordReview(t, v)
    BY <1>7 DEF RecordReview, Review
  <1>8. CASE EraseReview(t)
    BY <1>8 DEF EraseReview, Review
  <1>9. CASE DropTask(t)
    BY <1>9 DEF DropTask, Review, table
  <1>10. CASE AgentStatement(t)
    <2>1. CASE \E a \in Agents : ClaimTask(a, t)
      BY <2>1, WorkspaceAssumption DEF ClaimTask, Claimable
    <2>2. CASE workspace[t] # NoWorkspace /\ SetStatus(t, "executing")
      BY <2>2 DEF SetStatus
    <2>3. CASE workspace[t] # NoWorkspace /\ SetStatus(t, "completed_failure")
      BY <2>3 DEF SetStatus
    <2>4. CASE workspace[t] # NoWorkspace /\ t \in succeeded /\ SetStatus(t, "submitted")
      BY <2>4 DEF SetStatus
    <2> QED BY <1>10, <2>1, <2>2, <2>3, <2>4 DEF AgentStatement
  <1> QED BY <1>1, <1>2, <1>3, <1>4, <1>5, <1>6, <1>7, <1>8, <1>9, <1>10 DEF Statement

-----------------------------------------------------------------------------
(* The invariant, one step per action.                                      *)

dagAll == <<shared, dagVars>>

USE DEF NoTask

LEMMA NothingIsTyped == NoReview \in Reviewing /\ NoJob \in Job
  BY DEF NoReview, Reviewing, NoJob, Job, Review

LEMMA DagInitInv == ASSUME TableInit, DagInit PROVE DagInv
  <1> USE DEF TableInit, DagInit
  <1>1. TableSafe
    BY DEF TableSafe, TablesTyped, UnbornIsFree, ReviewedWasExecuted,
           OrphanStaysPublished, HasRow, Status, RowStatus, Review
  <1>2. TableTypeOK
    BY <1>1 DEF TableTypeOK, TablesTyped, TableSafe, TablesTyped
  <1>3. DagTypeOK
    <2>1. inbox \in [Tasks -> 0..MaxInbox]
      BY DagAssumption
    <2> QED BY <1>2, <2>1, NothingIsTyped DEF DagTypeOK
  <1>4. CarriersExecuted
    BY DEF CarriersExecuted, NoReview
  <1>5. JobsBound
    BY DEF JobsBound, Remembers, NoJob
  <1> QED BY <1>1, <1>3, <1>4, <1>5 DEF DagInv

\* What TableSafe says of the tables survives a step that leaves them alone.
LEMMA TablesKept ==
    ASSUME TableSafe, UNCHANGED <<table, succeeded>>
    PROVE  TableSafe' /\ \A u \in Tasks : Bound(u) => Bound(u)'
  BY DEF TableSafe, TablesTyped, UnbornIsFree, ReviewedWasExecuted,
         OrphanStaysPublished, Bound, HasRow, table

\* The handler in slot j moves to the local variables `new`.
LEMMA JobMoves ==
    ASSUME DagInv, NEW j \in Jobs, NEW new \in Job,
           job' = [job EXCEPT ![j] = new], Remembers(new)',
           TableSafe', \A u \in Tasks : Bound(u) => Bound(u)',
           UNCHANGED <<notices, succeeded, jobFrame>>,
           mishaps' \in Nat, requests' \in Nat, hooks' \in [Tasks -> SUBSET Hook]
    PROVE  DagInv'
  <1>1. job' \in [Jobs -> Job]
    BY DEF DagInv, DagTypeOK
  <1>2. DagTypeOK'
    BY <1>1 DEF DagInv, DagTypeOK, TableTypeOK, TablesTyped, TableSafe, TablesTyped, jobFrame
  <1>3. CarriersExecuted'
    BY DEF DagInv, CarriersExecuted, jobFrame
  <1>4. JobsBound'
    <2> SUFFICES ASSUME NEW i \in Jobs PROVE Remembers(job[i])'
      BY DEF JobsBound
    <2>1. CASE i = j
      BY <2>1 DEF DagInv, DagTypeOK, Remembers, Bound, HasRow
    <2>2. CASE i # j
      <3>1. job'[i] = job[i] /\ Remembers(job[i])
        BY <2>2 DEF DagInv, DagTypeOK, JobsBound
      <3>2. job[i].op = "reject" => job[i].task \in Tasks /\ Bound(job[i].task)'
        BY <3>1 DEF Remembers
      <3> QED BY <3>1, <3>2 DEF Remembers, Bound, HasRow
    <2> QED BY <2>1, <2>2
  <1> QED BY <1>2, <1>3, <1>4 DEF DagInv

-----------------------------------------------------------------------------
(* The handlers of the orchestrator.                                        *)

LEMMA JobStepInv == ASSUME DagInv, NEW j \in Jobs, JobStep(j) PROVE DagInv'
  <1> USE DEF jobFrame, ownFrame
  <1>slot. job[j] \in Job /\ Remembers(job[j]) /\ TableSafe
    BY DEF DagInv, DagTypeOK, JobsBound
  <1>typed. mishaps \in Nat /\ requests \in Nat /\ hooks \in [Tasks -> SUBSET Hook]
    BY DEF DagInv, DagTypeOK, TableTypeOK, TablesTyped
  <1>kept. ASSUME UNCHANGED <<table, succeeded>>
           PROVE  TableSafe' /\ \A u \in Tasks : Bound(u) => Bound(u)'
    BY <1>slot, <1>kept, TablesKept
  <1>return. ASSUME Return(j), TableSafe', \A u \in Tasks : Bound(u) => Bound(u)',
                    UNCHANGED <<notices, succeeded, jobFrame>>,
                    mishaps' \in Nat, requests' \in Nat, hooks' \in [Tasks -> SUBSET Hook]
             PROVE  DagInv'
    <2>1. Remembers(NoJob)'
      BY DEF Remembers, NoJob
    <2> QED BY <1>return, <2>1, JobMoves, NothingIsTyped DEF Return
  <1>1. ASSUME NEW t \in Tasks, SubmitTask(j, t) PROVE DagInv'
    <2>1. PICK new \in Job :
             new = [NoJob EXCEPT !.op = "submit", !.pc = "place", !.task = t]
      BY DEF NoJob, Job, Op, Review
    <2>2. Remembers(new)'
      BY <2>1 DEF Remembers, NoJob
    <2>3. job' = [job EXCEPT ![j] = new]
      BY <1>1, <2>1 DEF SubmitTask, Begin
    <2>4. TableSafe' /\ \A u \in Tasks : Bound(u) => Bound(u)'
      BY <1>1, <1>slot, StatementSafe DEF SubmitTask, Statement
    <2> QED BY <1>1, <1>typed, <2>2, <2>3, <2>4, JobMoves DEF SubmitTask
  <1>2. ASSUME NEW t \in Tasks, RejectResult(j, t) PROVE DagInv'
    <2>1. workspace[t] \in Workspaces /\ Bound(t)
      BY <1>2, <1>slot DEF RejectResult, Decidable, TableSafe, TablesTyped, Bound
    <2>2. PICK new \in Job : new = [NoJob EXCEPT !.op = "reject", !.pc = "reset",
                                                 !.task = t, !.ws = workspace[t]]
      BY <2>1 DEF NoJob, Job, Op, Review
    <2>3. job' = [job EXCEPT ![j] = new] /\ requests' \in Nat
      BY <1>2, <1>typed, <2>2 DEF RejectResult, Request, Begin
    <2>4. TableSafe' /\ \A u \in Tasks : Bound(u) => Bound(u)'
      BY <1>2, <1>kept DEF RejectResult, shared
    <2>5. Remembers(new)'
      BY <2>1, <2>2, <2>4 DEF Remembers, NoJob, Bound, HasRow
    <2> QED BY <1>2, <1>typed, <2>3, <2>4, <2>5, JobMoves DEF RejectResult, shared
  <1>3. ASSUME NEW t \in Tasks, AcceptResult(j, t) PROVE DagInv'
    <2>1. PICK new \in Job : new = [NoJob EXCEPT !.op = "accept", !.pc = "decide",
                                                 !.task = t, !.verdict = review[t]]
      BY <1>slot DEF NoJob, Job, Op, TableSafe, TablesTyped
    <2>2. job' = [job EXCEPT ![j] = new] /\ requests' \in Nat
      BY <1>3, <1>typed, <2>1 DEF AcceptResult, Request, Begin
    <2>3. Remembers(new)'
      BY <2>1 DEF Remembers, NoJob
    <2> QED BY <1>3, <1>kept, <1>typed, <2>2, <2>3, JobMoves DEF AcceptResult, shared
  <1>4. ASSUME NEW t \in Tasks, NEW v \in Verdict, ChatDecision(j, t, v) PROVE DagInv'
    <2>1. PICK new \in Job : new = [NoJob EXCEPT !.op = "chat", !.pc = "decide",
                                                 !.task = t, !.verdict = v]
      BY DEF NoJob, Job, Op, Review
    <2>2. job' = [job EXCEPT ![j] = new] /\ requests' \in Nat
      BY <1>4, <1>typed, <2>1 DEF ChatDecision, Request, Begin
    <2>3. Remembers(new)'
      BY <2>1 DEF Remembers, NoJob
    <2> QED BY <1>4, <1>kept, <1>typed, <2>2, <2>3, JobMoves DEF ChatDecision, shared
  <1>5. ASSUME NEW t \in Tasks, DeleteTask(j, t) PROVE DagInv'
    <2>1. PICK new \in Job :
             new = [NoJob EXCEPT !.op = "delete", !.pc = "purge", !.task = t]
      BY DEF NoJob, Job, Op, Review
    <2>2. job' = [job EXCEPT ![j] = new] /\ requests' \in Nat
      BY <1>5, <1>typed, <2>1 DEF DeleteTask, Request, Begin
    <2>3. Remembers(new)'
      BY <2>1 DEF Remembers, NoJob
    <2> QED BY <1>5, <1>kept, <1>typed, <2>2, <2>3, JobMoves DEF DeleteTask, shared
  <1>6. CASE SubmitWithoutWorkspace(j)
    BY <1>6, <1>return, <1>kept, <1>typed DEF SubmitWithoutWorkspace, shared
  <1>7. CASE PlaceNowhere(j)
    <2>1. CASE job[j].op = "submit"
      <3>1. job[j].task \in Tasks /\ Statement(job[j].task)
        BY <1>7, <1>slot, <2>1 DEF PlaceNowhere, Remembers, Statement
      <3> QED BY <1>7, <1>slot, <1>return, <1>typed, <3>1, StatementSafe DEF PlaceNowhere
    <2>2. CASE job[j].op # "submit"
      BY <1>7, <1>return, <1>kept, <1>typed, <2>2 DEF PlaceNowhere
    <2> QED BY <2>1, <2>2
  <1>8. CASE AssignChosen(j)
    <2> DEFINE t == job[j].task
               w == IF job[j].op = "submit" THEN job[j].ws ELSE workspace[t]
    <2>1. t \in Tasks /\ job[j].agent \in Agents
      BY <1>8, <1>slot DEF AssignChosen, Remembers
    <2>2. w \in Workspaces \cup {NoWorkspace} /\ (HasRow(t) => w # NoWorkspace)
      BY <1>8, <1>slot, <2>1, WorkspaceAssumption
      DEF AssignChosen, Remembers, Bound, TableSafe, TablesTyped
    <2>3. AssignTask(t, w, job[j].agent)
      BY <1>8 DEF AssignChosen
    <2> HIDE DEF w
    <2>4. Statement(t)
      BY <2>1, <2>2, <2>3 DEF Statement
    <2> QED BY <1>8, <1>slot, <1>return, <1>typed, <2>1, <2>4, StatementSafe DEF AssignChosen
  <1>9. CASE RejectResets(j)
    <2>1. PICK new \in Job : new = [job[j] EXCEPT !.pc = "erase"]
      BY <1>slot DEF Job
    <2>2. job' = [job EXCEPT ![j] = new]
      BY <1>9, <2>1 DEF RejectResets, Goto
    <2>3. job[j].op = "reject" /\ job[j].task \in Tasks
      BY <1>9, <1>slot DEF RejectResets, Remembers
    <2>4. TableSafe' /\ \A u \in Tasks : Bound(u) => Bound(u)'
      BY <1>9, <1>slot, <2>3, StatementSafe DEF RejectResets, Statement
    <2>5. Remembers(new)'
      <3>1. new.op = "reject" /\ new.pc = "erase" /\ new.task = job[j].task
            /\ new.ws = job[j].ws
        BY <1>slot, <2>1, <2>3 DEF Job
      <3>2. Bound(new.task)' /\ new.ws \in Workspaces
        BY <1>slot, <2>3, <2>4, <3>1 DEF Remembers
      <3> QED BY <2>3, <3>1, <3>2 DEF Remembers, Bound, HasRow
    <2> QED BY <1>9, <1>typed, <2>2, <2>4, <2>5, JobMoves DEF RejectResets
  <1>10. CASE RejectErases(j)
    <2>1. PICK new \in Job : new = [job[j] EXCEPT !.pc = "place"]
      BY <1>slot DEF Job
    <2>2. job' = [job EXCEPT ![j] = new]
      BY <1>10, <2>1 DEF RejectErases, Goto
    <2>3. job[j].op = "reject" /\ job[j].task \in Tasks
      BY <1>10, <1>slot DEF RejectErases, Remembers
    <2>4. TableSafe' /\ \A u \in Tasks : Bound(u) => Bound(u)'
      BY <1>10, <1>slot, <2>3, StatementSafe DEF RejectErases, Statement
    <2>5. Remembers(new)'
      <3>1. new.op = "reject" /\ new.pc = "place" /\ new.task = job[j].task
            /\ new.ws = job[j].ws
        BY <1>slot, <2>1, <2>3 DEF Job
      <3>2. Bound(new.task)' /\ new.ws \in Workspaces
        BY <1>slot, <2>3, <2>4, <3>1 DEF Remembers
      <3> QED BY <2>3, <3>1, <3>2 DEF Remembers, Bound, HasRow
    <2> QED BY <1>10, <1>typed, <2>2, <2>4, <2>5, JobMoves DEF RejectErases
  <1>11. CASE Decide(j)
    <2>1. job[j].task \in Tasks /\ job[j].verdict \in Review
      BY <1>11, <1>slot DEF Decide, Remembers, Job
    <2>2. Statement(job[j].task)
      BY <1>11, <2>1 DEF Decide, Statement
    <2>3. hooks' \in [Tasks -> SUBSET Hook]
      BY <1>11, <1>typed, <2>1 DEF Decide, HookOf, Hook
    <2> QED BY <1>11, <1>slot, <1>return, <1>typed, <2>1, <2>2, <2>3, StatementSafe
            DEF Decide
  <1>12. CASE DecideMissing(j)
    BY <1>12, <1>return, <1>kept, <1>typed DEF DecideMissing, shared
  <1>13. CASE DeletePurges(j)
    <2>1. PICK new \in Job : new = [job[j] EXCEPT !.pc = "drop"]
      BY <1>slot DEF Job
    <2>2. job' = [job EXCEPT ![j] = new]
      BY <1>13, <2>1 DEF DeletePurges, Goto
    <2>3. job[j].task \in Tasks
      BY <1>13, <1>slot DEF DeletePurges, Remembers
    <2>4. TableSafe' /\ \A u \in Tasks : Bound(u) => Bound(u)'
      BY <1>13, <1>slot, <2>3, StatementSafe DEF DeletePurges, Statement
    <2>5. Remembers(new)'
      <3>1. new.op = job[j].op /\ new.pc = "drop" /\ new.task = job[j].task
            /\ new.ws = job[j].ws
        BY <1>slot, <2>1 DEF Job
      <3>2. new.op = "reject" => Bound(new.task)' /\ new.ws \in Workspaces
        BY <1>slot, <2>3, <2>4, <3>1 DEF Remembers
      <3> QED BY <2>3, <3>1, <3>2 DEF Remembers, Bound, HasRow
    <2> QED BY <1>13, <1>typed, <2>2, <2>4, <2>5, JobMoves DEF DeletePurges
  <1>14. CASE DeleteDrops(j)
    <2>1. job[j].task \in Tasks /\ Statement(job[j].task)
      BY <1>14, <1>slot DEF DeleteDrops, Remembers, Statement
    <2> QED BY <1>14, <1>slot, <1>return, <1>typed, <2>1, StatementSafe DEF DeleteDrops
  <1>15. CASE JobFails(j)
    BY <1>15, <1>return, <1>kept, <1>typed DEF JobFails, Mishap
  <1> QED BY <1>1, <1>2, <1>3, <1>4, <1>5, <1>6, <1>7, <1>8, <1>9, <1>10, <1>11,
             <1>12, <1>13, <1>14, <1>15 DEF JobStep

-----------------------------------------------------------------------------
(* Delivery, review, crashes and the agents.                                *)

\* A step that leaves the handlers' slots alone.
LEMMA JobsStay ==
    ASSUME DagInv, UNCHANGED job, \A u \in Tasks : Bound(u) => Bound(u)'
    PROVE  JobsBound'
  <1> SUFFICES ASSUME NEW j \in Jobs PROVE Remembers(job[j])'
    BY DEF JobsBound
  <1>1. Remembers(job[j]) /\ job'[j] = job[j]
    BY DEF DagInv, JobsBound
  <1>2. job[j].op = "reject" => job[j].task \in Tasks /\ Bound(job[j].task)'
    BY <1>1 DEF Remembers
  <1> QED BY <1>1, <1>2 DEF Remembers, Bound, HasRow

\* More messages in TaskAgent's mailbox, all about executed tasks.
LEMMA DeliverKeeps ==
    ASSUME DagInv, NEW sent \in SUBSET Tasks, sent \subseteq succeeded, Deliver(sent)
    PROVE  /\ inbox' \in [Tasks -> 0..MaxInbox]
           /\ \A t \in Tasks : inbox'[t] > 0 => t \in succeeded
  BY DagAssumption DEF DagInv, DagTypeOK, CarriersExecuted, Deliver

LEMMA DeliveryStepInv == ASSUME DagInv, DeliveryStep PROVE DagInv'
  <1> USE DEF DagInv, shared
  <1>safe. ASSUME UNCHANGED <<table, succeeded>> PROVE TableSafe'
    BY <1>safe, TablesKept
  <1>jobs. ASSUME UNCHANGED <<table, succeeded, job>> PROVE JobsBound'
    BY <1>jobs, TablesKept, JobsStay
  <1>1. CASE RegisterTaskReviewer
    BY <1>1, <1>safe, <1>jobs
    DEF RegisterTaskReviewer, DagTypeOK, TableTypeOK, TablesTyped, TableSafe, TablesTyped, CarriersExecuted
  <1>2. CASE RetryPending
    <2>1. PICK sent \in SUBSET pending : Deliver(sent) /\ pending' = pending \ sent
      BY <1>2 DEF RetryPending
    <2>2. sent \in SUBSET Tasks /\ sent \subseteq succeeded
      BY DEF DagTypeOK, CarriersExecuted
    <2>3. /\ inbox' \in [Tasks -> 0..MaxInbox]
          /\ \A t \in Tasks : inbox'[t] > 0 => t \in succeeded
      BY <2>1, <2>2, DeliverKeeps
    <2>4. UNCHANGED <<shared, registered, scan, reviewer, job, requests, hooks>>
      BY <1>2 DEF RetryPending
    <2>5. DagTypeOK'
      BY <2>1, <2>3, <2>4, <1>safe
      DEF DagTypeOK, TableTypeOK, TablesTyped, TableSafe, TablesTyped
    <2>6. CarriersExecuted'
      BY <2>1, <2>3, <2>4 DEF CarriersExecuted
    <2> QED BY <2>4, <2>5, <2>6, <1>safe, <1>jobs
  <1>3. CASE ScanQuery
    <2>1. scan' \in SUBSET Tasks /\ scan' \subseteq succeeded
      BY <1>3 DEF ScanQuery, Unreviewed, TableSafe, ReviewedWasExecuted
    <2>2. UNCHANGED <<shared, registered, pending, inbox, reviewer, job, requests, hooks>>
      BY <1>3 DEF ScanQuery
    <2>3. DagTypeOK'
      BY <2>1, <2>2, <1>safe DEF DagTypeOK, TableTypeOK, TablesTyped, TableSafe, TablesTyped
    <2>4. CarriersExecuted'
      BY <2>1, <2>2 DEF CarriersExecuted
    <2> QED BY <2>2, <2>3, <2>4, <1>safe, <1>jobs
  <1>4. CASE ScanResume
    <2>1. UNCHANGED <<shared, registered, reviewer, job, requests, hooks>> /\ scan' = {}
      BY <1>4 DEF ScanResume
    <2>2. /\ inbox' \in [Tasks -> 0..MaxInbox]
          /\ \A t \in Tasks : inbox'[t] > 0 => t \in succeeded
          /\ pending' \in SUBSET Tasks /\ pending' \subseteq succeeded
      <3>1. CASE UNCHANGED <<inbox, pending>>
        BY <3>1 DEF DagTypeOK, CarriersExecuted
      <3>2. ASSUME NEW sent \in SUBSET (scan \ pending), Deliver(sent),
                   pending' = pending \cup (scan \ sent)
            PROVE  /\ inbox' \in [Tasks -> 0..MaxInbox]
                   /\ \A t \in Tasks : inbox'[t] > 0 => t \in succeeded
                   /\ pending' \in SUBSET Tasks /\ pending' \subseteq succeeded
        <4>1. sent \in SUBSET Tasks /\ sent \subseteq succeeded
          BY DEF DagTypeOK, CarriersExecuted
        <4> QED BY <3>2, <4>1, DeliverKeeps DEF DagTypeOK, CarriersExecuted
      <3> QED BY <1>4, <3>1, <3>2 DEF ScanResume
    <2>3. DagTypeOK'
      BY <2>1, <2>2, <1>safe DEF DagTypeOK, TableTypeOK, TablesTyped, TableSafe, TablesTyped
    <2>4. CarriersExecuted'
      BY <2>1, <2>2 DEF CarriersExecuted
    <2> QED BY <2>1, <2>3, <2>4, <1>safe, <1>jobs
  <1>5. ASSUME NEW t \in Tasks, NotifyTaskExecutionEvent(t) PROVE DagInv'
    <2>1. UNCHANGED <<table, succeeded, mishaps, registered, scan, reviewer, job,
                      requests, hooks>>
      BY <1>5 DEF NotifyTaskExecutionEvent
    <2>2. notices' \in [Tasks -> Nat] /\ t \in succeeded
          /\ \A u \in Tasks : notices'[u] > 0 => notices[u] > 0
      BY <1>5 DEF NotifyTaskExecutionEvent, DagTypeOK, TableTypeOK, TablesTyped, CarriersExecuted
    <2>3. /\ inbox' \in [Tasks -> 0..MaxInbox]
          /\ \A u \in Tasks : inbox'[u] > 0 => u \in succeeded
          /\ pending' \in SUBSET Tasks /\ pending' \subseteq succeeded
      <3>1. CASE Deliver({t}) /\ pending' = pending \ {t}
        BY <2>2, <3>1, DeliverKeeps DEF DagTypeOK, CarriersExecuted
      <3>2. CASE pending' = pending \cup {t} /\ UNCHANGED inbox
        BY <2>2, <3>2 DEF DagTypeOK, CarriersExecuted
      <3> QED BY <1>5, <3>1, <3>2 DEF NotifyTaskExecutionEvent
    <2>4. DagTypeOK'
      BY <2>1, <2>2, <2>3, <1>safe DEF DagTypeOK, TableTypeOK, TablesTyped, TableSafe, TablesTyped
    <2>5. CarriersExecuted'
      BY <2>1, <2>2, <2>3 DEF CarriersExecuted
    <2> QED BY <2>1, <2>4, <2>5, <1>safe, <1>jobs
  <1> QED BY <1>1, <1>2, <1>3, <1>4, <1>5 DEF DeliveryStep

LEMMA ReviewStepInv == ASSUME DagInv, NEW r \in Reviews, ReviewStep(r) PROVE DagInv'
  <1> USE DEF DagInv
  <1>reviewer. reviewer[r] \in Reviewing
               /\ (reviewer[r].pc # "idle" => reviewer[r].task \in succeeded)
    BY DEF DagTypeOK, CarriersExecuted
  <1>kept. ASSUME UNCHANGED <<table, succeeded>>
           PROVE  TableSafe' /\ \A u \in Tasks : Bound(u) => Bound(u)'
    BY <1>kept, TablesKept
  \* The review future moves to `new`.
  <1>moves. ASSUME NEW new \in Reviewing, reviewer' = [reviewer EXCEPT ![r] = new],
                   new.pc # "idle" => new.task \in succeeded,
                   TableSafe', \A u \in Tasks : Bound(u) => Bound(u)',
                   UNCHANGED <<notices, succeeded, registered, pending, scan, job,
                               requests, hooks>>,
                   inbox' \in [Tasks -> 0..MaxInbox], mishaps' \in Nat,
                   \A t \in Tasks : inbox'[t] > 0 => inbox[t] > 0
            PROVE  DagInv'
    <2>1. DagTypeOK'
      BY <1>moves DEF DagTypeOK, TableTypeOK, TablesTyped, TableSafe, TablesTyped
    <2>2. CarriersExecuted'
      <3>1. \A q \in Reviews : reviewer'[q].pc # "idle" => reviewer'[q].task \in succeeded
        BY <1>moves DEF DagTypeOK, CarriersExecuted
      <3> QED BY <1>moves, <3>1 DEF CarriersExecuted
    <2> QED BY <1>moves, <2>1, <2>2, JobsStay
  <1>1. ASSUME NEW t \in Tasks, ReviewTakes(r, t) PROVE DagInv'
    <2>1. PICK new \in Reviewing : new = [pc |-> "begin", task |-> t]
      BY DEF Reviewing
    <2>2. t \in succeeded
      BY <1>1 DEF ReviewTakes, CarriersExecuted
    <2>3. inbox' \in [Tasks -> 0..MaxInbox]
          /\ \A u \in Tasks : inbox'[u] > 0 => inbox[u] > 0
      BY <1>1, DagAssumption DEF ReviewTakes, DagTypeOK
    <2>4. UNCHANGED <<shared, registered, pending, scan, job, requests, hooks>>
          /\ reviewer' = [reviewer EXCEPT ![r] = new]
      BY <1>1, <2>1 DEF ReviewTakes
    <2> QED BY <2>1, <2>2, <2>3, <2>4, <1>kept, <1>moves
            DEF shared, DagTypeOK, TableTypeOK, TablesTyped
  <1>2. CASE BeginTaskReview(r)
    <2>1. PICK new \in Reviewing : new = [reviewer[r] EXCEPT !.pc = "judge"]
      BY <1>reviewer DEF Reviewing
    <2>2. new.task = reviewer[r].task /\ reviewer[r].task \in succeeded
      BY <1>2, <1>reviewer, <2>1 DEF BeginTaskReview, Reviewing
    <2>3. reviewer' = [reviewer EXCEPT ![r] = new]
      BY <1>2, <2>1 DEF BeginTaskReview
    <2>4. TableSafe' /\ \A u \in Tasks : Bound(u) => Bound(u)'
      BY <1>2, <2>2, StatementSafe DEF BeginTaskReview, Statement, DagTypeOK, TableTypeOK, TablesTyped
    <2> QED BY <1>2, <2>2, <2>3, <2>4, <1>moves DEF BeginTaskReview, DagTypeOK, TableTypeOK, TablesTyped
  <1>3. ASSUME NEW v \in Verdict, CompleteTaskReview(r, v) PROVE DagInv'
    <2>1. reviewer[r].task \in succeeded
      BY <1>3, <1>reviewer DEF CompleteTaskReview
    <2>2. TableSafe' /\ \A u \in Tasks : Bound(u) => Bound(u)'
      BY <1>3, <2>1, StatementSafe
      DEF CompleteTaskReview, Statement, DagTypeOK, TableTypeOK, TablesTyped
    <2>3. NoReview.pc = "idle"
      BY DEF NoReview
    <2> QED BY <1>3, <2>2, <2>3, <1>moves, NothingIsTyped
            DEF CompleteTaskReview, DagTypeOK, TableTypeOK, TablesTyped
  <1>4. CASE ReviewFails(r)
    <2>1. NoReview.pc = "idle"
      BY DEF NoReview
    <2>2. mishaps' \in Nat
      BY <1>4 DEF ReviewFails, Mishap, DagTypeOK, TableTypeOK, TablesTyped
    <2>3. TableSafe' /\ \A u \in Tasks : Bound(u) => Bound(u)'
      BY <1>4, <1>kept DEF ReviewFails
    <2> QED BY <1>4, <2>1, <2>2, <2>3, <1>moves, NothingIsTyped
            DEF ReviewFails, DagTypeOK, TableTypeOK, TablesTyped
  <1> QED BY <1>1, <1>2, <1>3, <1>4 DEF ReviewStep

LEMMA CrashInv == ASSUME DagInv, CrashOrchestrator PROVE DagInv'
  <1> USE DEF DagInv, CrashOrchestrator
  <1>1. TableSafe'
    BY TablesKept
  <1>2. mishaps' \in Nat
    BY DEF Mishap, DagTypeOK, TableTypeOK, TablesTyped
  <1>3. inbox' \in [Tasks -> 0..MaxInbox]
    BY DagAssumption
  <1>4. DagTypeOK'
    BY <1>1, <1>2, <1>3, NothingIsTyped
    DEF DagTypeOK, TableTypeOK, TablesTyped, TableSafe, TablesTyped
  <1>5. CarriersExecuted'
    BY DEF CarriersExecuted, NoReview
  <1>6. JobsBound'
    BY DEF JobsBound, Remembers, NoJob
  <1> QED BY <1>1, <1>4, <1>5, <1>6

LEMMA EnvironmentInv == ASSUME DagInv, DagEnvironment PROVE DagInv'
  <1> USE DEF DagInv, dagVars
  <1>kept. ASSUME UNCHANGED <<table, succeeded>>
           PROVE  TableSafe' /\ \A u \in Tasks : Bound(u) => Bound(u)'
    BY <1>kept, TablesKept
  <1>1. CASE AgentsWrite
    <2>1. PICK t \in Tasks : AgentStatement(t)
      BY <1>1 DEF AgentsWrite
    <2>2. UNCHANGED <<notices, succeeded, mishaps, dagVars>>
      BY <1>1 DEF AgentsWrite
    <2>3. TableSafe' /\ \A u \in Tasks : Bound(u) => Bound(u)'
      BY <2>1, <2>2, StatementSafe DEF Statement
    <2>4. DagTypeOK'
      BY <2>2, <2>3 DEF DagTypeOK, TableTypeOK, TablesTyped, TableSafe, TablesTyped
    <2> QED BY <2>2, <2>3, <2>4, JobsStay DEF CarriersExecuted
  <1>2. CASE AgentSucceeds
    <2>1. succeeded' \in SUBSET Tasks /\ succeeded \subseteq succeeded'
      BY <1>2 DEF AgentSucceeds, DagTypeOK, TableTypeOK, TablesTyped
    <2>2. UNCHANGED <<table, notices, mishaps, dagVars>>
      BY <1>2 DEF AgentSucceeds
    <2>3. TableSafe' /\ \A u \in Tasks : Bound(u) => Bound(u)'
      BY <2>1, <2>2 DEF TableSafe, TablesTyped, UnbornIsFree, ReviewedWasExecuted,
                        OrphanStaysPublished, Bound, HasRow, table
    <2>4. DagTypeOK'
      BY <2>1, <2>2, <2>3 DEF DagTypeOK, TableTypeOK, TablesTyped, TableSafe, TablesTyped
    <2> QED BY <2>1, <2>2, <2>3, <2>4, JobsStay DEF CarriersExecuted
  <1>3. CASE AgentReports
    <2>1. PICK t \in succeeded : notices' = [notices EXCEPT ![t] = @ + 1]
      BY <1>3 DEF AgentReports
    <2>2. UNCHANGED <<table, succeeded, mishaps, dagVars>>
      BY <1>3 DEF AgentReports
    <2>3. notices' \in [Tasks -> Nat]
          /\ \A u \in Tasks : notices'[u] > 0 => u \in succeeded
      BY <2>1 DEF DagTypeOK, TableTypeOK, TablesTyped, CarriersExecuted
    <2>4. DagTypeOK'
      BY <2>2, <2>3, <1>kept DEF DagTypeOK, TableTypeOK, TablesTyped, TableSafe, TablesTyped
    <2> QED BY <2>2, <2>3, <2>4, <1>kept, JobsStay DEF CarriersExecuted
  <1>4. CASE AgentSideMishap
    <2>1. UNCHANGED <<table, notices, succeeded, dagVars>> /\ mishaps' \in Nat
      BY <1>4 DEF AgentSideMishap, Mishap, DagTypeOK, TableTypeOK, TablesTyped
    <2>2. DagTypeOK'
      BY <2>1, <1>kept DEF DagTypeOK, TableTypeOK, TablesTyped, TableSafe, TablesTyped
    <2> QED BY <2>1, <2>2, <1>kept, JobsStay DEF CarriersExecuted
  <1> QED BY <1>1, <1>2, <1>3, <1>4 DEF DagEnvironment

-----------------------------------------------------------------------------
(* The two steps in which a handler deals with an agent.                    *)

LEMMA PickAgentInv ==
    ASSUME DagInv, NEW j \in Jobs, NEW w \in Workspaces, NEW a \in Agents,
           PickAgent(j, w, a)
    PROVE  DagInv'
  <1>1. job[j] \in Job /\ Remembers(job[j]) /\ TableSafe
        /\ mishaps \in Nat /\ requests \in Nat /\ hooks \in [Tasks -> SUBSET Hook]
    BY DEF DagInv, DagTypeOK, TableTypeOK, TablesTyped, JobsBound
  <1>2. PICK new \in Job : new = [job[j] EXCEPT !.pc = "start", !.ws = w, !.agent = a]
    BY <1>1 DEF Job
  <1>3. new.op = job[j].op /\ new.pc = "start" /\ new.task = job[j].task
        /\ new.ws = w /\ new.agent = a
    BY <1>1, <1>2 DEF Job
  <1>4. job' = [job EXCEPT ![j] = new]
    <2>1. job' = [job EXCEPT ![j].pc = "start", ![j].ws = w, ![j].agent = a]
      BY DEF PickAgent
    <2> QED BY <1>1, <1>2, <2>1 DEF DagInv, DagTypeOK
  <1>5. TableSafe' /\ \A u \in Tasks : Bound(u) => Bound(u)'
    BY <1>1, TablesKept DEF PickAgent, shared
  <1>6. Remembers(new)'
    <2>1. new.op \in {"submit", "reject"} /\ new.task \in Tasks
      BY <1>1, <1>3 DEF PickAgent, Remembers
    <2>2. new.op = "reject" => Bound(new.task)'
      BY <1>1, <1>3, <1>5, <2>1 DEF Remembers
    <2> QED BY <1>3, <2>1, <2>2 DEF Remembers, Bound, HasRow
  <1> QED BY <1>1, <1>4, <1>5, <1>6, JobMoves DEF PickAgent, shared

LEMMA AgentStartedInv ==
    ASSUME DagInv, NEW j \in Jobs, AgentStarted(j) PROVE DagInv'
  <1>1. job[j] \in Job /\ Remembers(job[j]) /\ TableSafe
        /\ mishaps \in Nat /\ requests \in Nat /\ hooks \in [Tasks -> SUBSET Hook]
    BY DEF DagInv, DagTypeOK, TableTypeOK, TablesTyped, JobsBound
  <1>2. PICK new \in Job : new = [job[j] EXCEPT !.pc = "assign"]
    BY <1>1 DEF Job
  <1>3. new.op = job[j].op /\ new.pc = "assign" /\ new.task = job[j].task
        /\ new.ws = job[j].ws /\ new.agent = job[j].agent
    BY <1>1, <1>2 DEF Job
  <1>4. job' = [job EXCEPT ![j] = new]
    BY <1>2 DEF AgentStarted, Goto
  <1>5. TableSafe' /\ \A u \in Tasks : Bound(u) => Bound(u)'
    BY <1>1, TablesKept DEF AgentStarted, shared
  <1>6. Remembers(new)'
    <2>1. /\ new.op \in {"submit", "reject"} /\ new.task \in Tasks
          /\ new.ws \in Workspaces /\ new.agent \in Agents
      BY <1>1, <1>3 DEF AgentStarted, Remembers
    <2>2. new.op = "reject" => Bound(new.task)'
      BY <1>1, <1>3, <1>5, <2>1 DEF Remembers
    <2> QED BY <1>3, <2>1, <2>2 DEF Remembers, Bound, HasRow
  <1> QED BY <1>1, <1>4, <1>5, <1>6, JobMoves DEF AgentStarted, shared

LEMMA DagStutterInv == ASSUME DagInv, UNCHANGED <<shared, dagVars>> PROVE DagInv'
  <1>1. TableSafe' /\ \A u \in Tasks : Bound(u) => Bound(u)'
    BY TablesKept DEF DagInv, shared
  <1>2. JobsBound'
    BY <1>1, JobsStay DEF dagVars
  <1>3. DagTypeOK' /\ CarriersExecuted'
    BY <1>1 DEF DagInv, DagTypeOK, TableTypeOK, TablesTyped, TableSafe, TablesTyped,
                CarriersExecuted, shared, dagVars
  <1> QED BY <1>1, <1>2, <1>3 DEF DagInv

LEMMA DagStepInv == DagInv /\ [DagNext]_<<shared, dagVars>> => DagInv'
  <1> SUFFICES ASSUME DagInv, [DagNext]_<<shared, dagVars>> PROVE DagInv'
    OBVIOUS
  <1>1. CASE DagStep
    BY <1>1, DeliveryStepInv, ReviewStepInv, JobStepInv DEF DagStep
  <1>2. CASE \E j \in Jobs : AgentStarted(j)
                             \/ \E w \in Workspaces, a \in Agents : PickAgent(j, w, a)
    BY <1>2, AgentStartedInv, PickAgentInv
  <1>3. CASE CrashOrchestrator
    BY <1>3, CrashInv
  <1>4. CASE DagEnvironment
    BY <1>4, EnvironmentInv
  <1>5. CASE UNCHANGED <<shared, dagVars>>
    BY <1>5, DagStutterInv
  <1> QED BY <1>1, <1>2, <1>3, <1>4, <1>5 DEF DagNext

-----------------------------------------------------------------------------
(* What a step may do to the tables.                                        *)

\* Every statement but the one that carries out a decision.
Routine(t) ==
    \/ InsertTask(t)
    \/ \E w \in Workspaces : BindWorkspace(t, w)
    \/ \E w, a : AssignTask(t, w, a)
    \/ MoveStatus(t, "submitted", "under_review")
    \/ ResetTask(t)
    \/ \E v \in Verdict : RecordReview(t, v)
    \/ EraseReview(t)
    \/ DropTask(t)
    \/ AgentStatement(t)

LEMMA StepKinds ==
    ASSUME DagInv, [DagNext]_<<shared, dagVars>>
    PROVE  \/ UNCHANGED <<status, succeeded>>
           \/ \E t \in Tasks : UNCHANGED status /\ succeeded' = succeeded \cup {t}
           \/ \E t \in Tasks : Routine(t) /\ UNCHANGED succeeded
           \/ \E j \in Jobs : Decide(j) /\ job[j].task \in Tasks /\ UNCHANGED succeeded
  <1> DEFINE Goal == \/ UNCHANGED <<status, succeeded>>
                     \/ \E t \in Tasks : UNCHANGED status /\ succeeded' = succeeded \cup {t}
                     \/ \E t \in Tasks : Routine(t) /\ UNCHANGED succeeded
                     \/ \E j \in Jobs : Decide(j) /\ job[j].task \in Tasks
                                        /\ UNCHANGED succeeded
  <1> USE DEF shared, table, ownFrame, jobFrame
  <1>1. CASE DeliveryStep
    BY <1>1 DEF DeliveryStep, RegisterTaskReviewer, RetryPending, ScanQuery,
                ScanResume, NotifyTaskExecutionEvent
  <1>2. ASSUME NEW r \in Reviews, ReviewStep(r) PROVE Goal
    <2>1. reviewer[r].pc # "idle" => reviewer[r].task \in Tasks
      BY DEF DagInv, CarriersExecuted, DagTypeOK, TableTypeOK, TablesTyped
    <2>2. CASE BeginTaskReview(r)
      BY <2>1, <2>2 DEF BeginTaskReview, Routine
    <2>3. ASSUME NEW v \in Verdict, CompleteTaskReview(r, v) PROVE Goal
      BY <2>1, <2>3 DEF CompleteTaskReview, Routine
    <2>4. CASE ReviewFails(r) \/ \E t \in Tasks : ReviewTakes(r, t)
      BY <2>4 DEF ReviewFails, ReviewTakes
    <2> QED BY <1>2, <2>2, <2>3, <2>4 DEF ReviewStep
  <1>3. ASSUME NEW j \in Jobs, JobStep(j) PROVE Goal
    <2>1. job[j].pc # "idle" => job[j].task \in Tasks
      BY DEF DagInv, JobsBound, Remembers
    <2>2. ASSUME NEW t \in Tasks, SubmitTask(j, t) PROVE Goal
      BY <2>2 DEF SubmitTask, Routine
    <2>3. CASE PlaceNowhere(j)
      BY <2>1, <2>3 DEF PlaceNowhere, Routine
    <2>4. CASE AssignChosen(j)
      BY <2>1, <2>4 DEF AssignChosen, Routine
    <2>5. CASE RejectResets(j)
      BY <2>1, <2>5 DEF RejectResets, Routine
    <2>6. CASE RejectErases(j)
      BY <2>1, <2>6 DEF RejectErases, Routine
    <2>7. CASE Decide(j)
      BY <2>1, <2>7 DEF Decide
    <2>8. CASE DeletePurges(j)
      BY <2>1, <2>8 DEF DeletePurges, Routine
    <2>9. CASE DeleteDrops(j)
      BY <2>1, <2>9 DEF DeleteDrops, Routine
    <2>10. CASE \/ SubmitWithoutWorkspace(j) \/ DecideMissing(j) \/ JobFails(j)
                \/ \E t \in Tasks : \/ RejectResult(j, t) \/ AcceptResult(j, t)
                                    \/ DeleteTask(j, t)
                                    \/ \E v \in Verdict : ChatDecision(j, t, v)
      BY <2>10 DEF SubmitWithoutWorkspace, DecideMissing, JobFails, RejectResult,
                   AcceptResult, DeleteTask, ChatDecision
    <2> QED BY <1>3, <2>2, <2>3, <2>4, <2>5, <2>6, <2>7, <2>8, <2>9, <2>10 DEF JobStep
  <1>4. CASE \E j \in Jobs : AgentStarted(j)
                             \/ \E w \in Workspaces, a \in Agents : PickAgent(j, w, a)
    BY <1>4 DEF AgentStarted, PickAgent
  <1>5. CASE CrashOrchestrator
    BY <1>5 DEF CrashOrchestrator
  <1>6. CASE DagEnvironment
    BY <1>6 DEF DagEnvironment, AgentsWrite, AgentSucceeds, AgentReports,
                AgentSideMishap, Routine
  <1>7. CASE UNCHANGED <<shared, dagVars>>
    BY <1>7
  <1> QED BY <1>1, <1>2, <1>3, <1>4, <1>5, <1>6, <1>7 DEF DagNext, DagStep

\* One row changes its status: the task's stage follows.
LEMMA StageFollows ==
    ASSUME TablesTyped, NEW t \in Tasks, NEW s \in Status,
           status' = [status EXCEPT ![t] = s]
    PROVE  stages' = [stages EXCEPT ![t] = StageOf(s)]
  <1>1. ASSUME NEW u \in Tasks PROVE stages'[u] = [stages EXCEPT ![t] = StageOf(s)][u]
    <2>1. CASE u = t
      BY <2>1 DEF stages, TablesTyped
    <2>2. CASE u # t
      BY <2>2 DEF stages, TablesTyped
    <2> QED BY <2>1, <2>2
  <1> QED BY <1>1 DEF stages

LEMMA StageCases ==
    ASSUME NEW s \in Status
    PROVE  /\ StageOf(s) = "unborn" <=> s = "unborn"
           /\ StageOf(s) = "gone" <=> s = "gone"
           /\ StageOf(s) = "submitted" <=> s = "submitted"
           /\ StageOf(s) = "review" <=> s = "under_review"
           /\ StageOf(s) = "success" <=> s = "completed_success"
           /\ s \in {"published", "accepted", "executing", "completed_failure"}
                => StageOf(s) = "open"
  BY DEF StageOf, Status, RowStatus

\* A routine statement leaves the task's status alone or moves it as the
\* contract allows.
LEMMA RoutineMoves ==
    ASSUME TablesTyped, NEW t \in Tasks, Routine(t)
    PROVE  \/ UNCHANGED status
           \/ \E s \in Status :
                /\ status' = [status EXCEPT ![t] = s]
                /\ \/ /\ s \in {"published", "accepted", "executing", "completed_failure"}
                      /\ status[t] # "gone"
                   \/ s = "submitted" /\ HasRow(t) /\ t \in succeeded
                   \/ s = "under_review" /\ status[t] = "submitted"
                   \/ s = "gone" /\ HasRow(t)
  <1> USE DEF Status, RowStatus, HasRow
  <1>1. CASE AgentStatement(t)
    BY <1>1 DEF AgentStatement, ClaimTask, Claimable, SetStatus
  <1>2. CASE DropTask(t)
    BY <1>2 DEF DropTask, table
  <1>3. CASE \E w, a : AssignTask(t, w, a)
    BY <1>3 DEF AssignTask
  <1> QED BY <1>1, <1>2, <1>3
          DEF Routine, InsertTask, BindWorkspace, MoveStatus, ResetTask, RecordReview,
              EraseReview

-----------------------------------------------------------------------------
(* Theorems.                                                                *)

\* The inductive invariant of the orchestrator holds in every behaviour.
THEOREM DagInvariant == DagSpec => []DagInv
  <1>1. TableInit /\ DagInit => DagInv
    BY DagInitInv
  <1> QED BY <1>1, DagStepInv, PTL DEF DagSpec, DagSpecInit

\* Every variable of the orchestrator, and the tables it shares, keep their types.
THEOREM DagTypes == DagSpec => []DagTypeOK
  <1>1. DagInv => DagTypeOK
    BY DEF DagInv
  <1> QED BY <1>1, DagInvariant, PTL

\* However events, retries, recovery scans, decisions and crashes interleave,
\* nothing is submitted, reviewed or completed that was never executed.
THEOREM ReviewedOnlyExecuted == DagSpec => []ReviewedWasExecuted
  <1>1. DagInv => ReviewedWasExecuted
    BY DEF DagInv, TableSafe
  <1> QED BY <1>1, DagInvariant, PTL

\* As long as a task has no workspace it is published and nobody's.
THEOREM OrphansStayPublished == DagSpec => []OrphanStaysPublished
  <1>1. DagInv => OrphanStaysPublished
    BY DEF DagInv, TableSafe
  <1> QED BY <1>1, DagInvariant, PTL

\* A task is completed with success only out of a review, by a step that
\* calls the reward hook.
THEOREM SuccessNeedsDecision == DagSpec => SuccessOnlyByDecision
  <1> DEFINE A == \A t \in Tasks :
                    status'[t] = "completed_success" /\ status[t] # "completed_success"
                    => status[t] = "under_review" /\ "reward" \in hooks'[t]
  <1>1. ASSUME DagInv, [DagNext]_<<shared, dagVars>> PROVE A
    <2> SUFFICES ASSUME NEW t \in Tasks, status'[t] = "completed_success",
                        status[t] # "completed_success"
                 PROVE  status[t] = "under_review" /\ "reward" \in hooks'[t]
      OBVIOUS
    <2>1. TablesTyped /\ hooks \in [Tasks -> SUBSET Hook]
      BY <1>1 DEF DagInv, TableSafe, DagTypeOK
    <2>2. ASSUME NEW u \in Tasks, Routine(u) PROVE FALSE
      <3>1. ~ UNCHANGED status
        OBVIOUS
      <3> QED BY <2>1, <2>2, <3>1, RoutineMoves DEF TablesTyped
    <2>3. PICK j \in Jobs : Decide(j) /\ job[j].task \in Tasks
      BY <1>1, <2>2, StepKinds
    <2>4. job[j].task = t /\ status[t] = "under_review" /\ job[j].verdict = "approved"
      BY <2>1, <2>3 DEF Decide, MoveStatus, FinalStatus, TablesTyped
    <2>5. "reward" \in hooks'[t]
      BY <2>1, <2>3, <2>4 DEF Decide, HookOf
    <2> QED BY <2>4, <2>5
  <1> QED BY <1>1, DagInvariant, PTL DEF DagSpec, SuccessOnlyByDecision

\* The orchestrator, its reviewer and whatever the agents do implement the
\* contract of a task's life: initial states map to initial states, and every
\* step to a step of the contract or to a stutter.
THEOREM DagImplementsContract == DagSpec => KeepsContract
  <1>1. TableInit => Contract!Init
    BY DEF TableInit, Contract!Init, stages, StageOf
  <1>2. ASSUME DagInv, [DagNext]_<<shared, dagVars>>
        PROVE  [Contract!Next]_(Contract!vars)
    <2> USE DEF Contract!Move, Contract!Present, Contract!vars
    <2>1. TablesTyped
      BY <1>2 DEF DagInv, TableSafe
    <2>2. ASSUME NEW t \in Tasks PROVE stages[t] = StageOf(status[t]) /\ status[t] \in Status
      BY <2>1 DEF stages, TablesTyped
    <2>3. UNCHANGED status => UNCHANGED stages
      BY DEF stages
    <2>4. CASE \E t \in Tasks : UNCHANGED status /\ succeeded' = succeeded \cup {t}
      BY <2>3, <2>4 DEF Contract!Next, Contract!Execute
    <2>5. ASSUME NEW t \in Tasks, NEW s \in Status, UNCHANGED succeeded,
                 status' = [status EXCEPT ![t] = s],
                 \/ /\ s \in {"published", "accepted", "executing", "completed_failure"}
                    /\ status[t] # "gone"
                 \/ s = "submitted" /\ HasRow(t) /\ t \in succeeded
                 \/ s = "under_review" /\ status[t] = "submitted"
                 \/ s = "completed_success" /\ status[t] = "under_review"
                 \/ s = "gone" /\ HasRow(t)
          PROVE  Contract!Next
      <3>1. stages' = [stages EXCEPT ![t] = StageOf(s)]
        BY <2>1, <2>5, StageFollows
      <3>2. HasRow(t) => stages[t] \notin {"unborn", "gone"}
        BY <2>2, StageCases DEF HasRow, RowStatus
      <3>3. stages[t] = "gone" <=> status[t] = "gone"
        BY <2>2, StageCases
      <3>4. CASE /\ s \in {"published", "accepted", "executing", "completed_failure"}
                 /\ status[t] # "gone"
        <4>1. Contract!Open(t)
          BY <2>5, <3>1, <3>3, <3>4, StageCases DEF Contract!Open
        <4> QED BY <4>1 DEF Contract!Next
      <3>5. CASE s = "submitted" /\ HasRow(t) /\ t \in succeeded
        <4>1. Contract!Submit(t)
          BY <2>5, <3>1, <3>2, <3>5, StageCases DEF Contract!Submit
        <4> QED BY <4>1 DEF Contract!Next
      <3>6. CASE s = "under_review" /\ status[t] = "submitted"
        <4>1. stages[t] = "submitted" /\ StageOf(s) = "review"
          BY <2>2, <3>6, StageCases
        <4>2. Contract!Begin(t)
          BY <2>5, <3>1, <4>1 DEF Contract!Begin
        <4> QED BY <4>2 DEF Contract!Next
      <3>7. CASE s = "completed_success" /\ status[t] = "under_review"
        <4>1. stages[t] = "review" /\ StageOf(s) = "success"
          BY <2>2, <3>7, StageCases
        <4>2. Contract!Approve(t)
          BY <2>5, <3>1, <4>1 DEF Contract!Approve
        <4> QED BY <4>2 DEF Contract!Next
      <3>8. CASE s = "gone" /\ HasRow(t)
        <4>1. Contract!Delete(t)
          BY <2>5, <3>1, <3>2, <3>8, StageCases DEF Contract!Delete
        <4> QED BY <4>1 DEF Contract!Next
      <3> QED BY <2>5, <3>4, <3>5, <3>6, <3>7, <3>8
    <2>6. ASSUME NEW t \in Tasks, Routine(t), UNCHANGED succeeded
          PROVE  [Contract!Next]_(Contract!vars)
      <3>1. CASE UNCHANGED status
        BY <2>3, <2>6, <3>1
      <3>2. CASE ~ UNCHANGED status
        BY <2>1, <2>5, <2>6, <3>2, RoutineMoves
      <3> QED BY <3>1, <3>2
    <2>7. ASSUME NEW j \in Jobs, Decide(j), job[j].task \in Tasks, UNCHANGED succeeded
          PROVE  [Contract!Next]_(Contract!vars)
      <3>1. CASE status[job[j].task] = "under_review"
        <4>1. PICK s \in {"completed_success", "completed_failure"} :
                 status' = [status EXCEPT ![job[j].task] = s]
          BY <2>7, <3>1 DEF Decide, MoveStatus, FinalStatus
        <4> QED BY <2>5, <2>7, <3>1, <4>1 DEF Status, RowStatus
      <3>2. CASE status[job[j].task] # "under_review"
        BY <2>3, <2>7, <3>2 DEF Decide, MoveStatus
      <3> QED BY <3>1, <3>2
    <2> QED BY <1>2, <2>3, <2>4, <2>6, <2>7, StepKinds
  <1> QED BY <1>1, <1>2, DagInvariant, PTL DEF DagSpec, DagSpecInit, KeepsContract, Contract!Spec

=============================================================================
