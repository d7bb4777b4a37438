--------------------------- MODULE DagOrchestrator ---------------------------
(***************************************************************************)
(* DagOrchestrActor (task/dag_orchestrator.rs) with the review half of     *)
(* TaskAgent (task/task_agent.rs).  The orchestrator submits tasks, asks   *)
(* TaskAgent to review the submitted ones (with a retry queue and a        *)
(* recovery scan for lost requests) and applies the user's decision.       *)
(*                                                                         *)
(* Its handlers are futures: each one that takes several statements is a   *)
(* job that occupies a slot of Jobs from its first to its last statement;  *)
(* the reviews TaskAgent runs occupy slots of Reviews.  The numbers of     *)
(* slots bound the concurrency TLC explores, not the behaviour.            *)
(***************************************************************************)
EXTENDS TaskTable

CONSTANTS
    Jobs,           \* slots for concurrent handler futures of the orchestrator
    Reviews,        \* slots for concurrent ReviewSubmittedTask futures
    MaxInbox,       \* review requests for one task that TaskAgent's mailbox holds
    MaxRequests     \* bound on the decisions and deletions users ask for

ASSUME DagAssumption == MaxInbox \in Nat /\ MaxRequests \in Nat

VARIABLES
    registered,     \* task_reviewer_actor is Some(_)
    pending,        \* keys of pending_review_deliveries
    inbox,          \* ReviewSubmittedTask messages in TaskAgent's mailbox
    scan,           \* rows RecoverSubmittedReviews has read, {} when idle
    reviewer,       \* the ReviewSubmittedTask futures
    job,            \* the handler futures of the orchestrator
    requests,       \* number of user requests so far, at most MaxRequests
    hooks           \* history: completion hooks called for each task

dagVars == <<registered, pending, inbox, scan, reviewer, job, requests, hooks>>

Hook == {"reward", "penalty"}

Reviewing == [pc : {"idle", "begin", "judge"}, task : Tasks \cup {NoTask}]

Op == {"submit", "reject", "accept", "chat", "delete"}
Job == [pc : {"idle", "place", "start", "assign", "reset", "erase",
              "decide", "purge", "drop"},
        op : Op \cup {"none"},
        task : Tasks \cup {NoTask},
        agent : Agents \cup {NoAgent},
        ws : Workspaces \cup {NoWorkspace},
        verdict : Review]

NoReview == [pc |-> "idle", task |-> NoTask]
NoJob == [pc |-> "idle", op |-> "none", task |-> NoTask, agent |-> NoAgent,
          ws |-> NoWorkspace, verdict |-> "none"]

DagTypeOK ==
    /\ TableTypeOK
    /\ registered \in BOOLEAN
    /\ pending \in SUBSET Tasks
    /\ inbox \in [Tasks -> 0..MaxInbox]
    /\ scan \in SUBSET Tasks
    /\ reviewer \in [Reviews -> Reviewing]
    /\ job \in [Jobs -> Job]
    /\ requests \in Nat
    /\ hooks \in [Tasks -> SUBSET Hook]

DagInit ==
    /\ registered = FALSE
    /\ pending = {}
    /\ inbox = [t \in Tasks |-> 0]
    /\ scan = {}
    /\ reviewer = [r \in Reviews |-> NoReview]
    /\ job = [j \in Jobs |-> NoJob]
    /\ requests = 0
    /\ hooks = [t \in Tasks |-> {}]

-----------------------------------------------------------------------------
(* Delivery of review requests.  try_send fails when TaskAgent's mailbox,   *)
(* which also takes chat messages, is full or closed.                       *)

\* The messages to the tasks in `sent` are accepted by the mailbox.
Deliver(sent) ==
    /\ \A t \in sent : inbox[t] < MaxInbox
    /\ inbox' = [t \in Tasks |-> IF t \in sent THEN inbox[t] + 1 ELSE inbox[t]]

RegisterTaskReviewer ==
    /\ registered' = TRUE
    /\ UNCHANGED <<shared, pending, inbox, scan, reviewer, job, requests, hooks>>

\* Mutant of NotifyTaskExecutionEvent: a request that cannot be delivered is
\* not remembered for the retry timer.
NotifyForgets(t) ==
    /\ notices[t] > 0
    /\ notices' = [notices EXCEPT ![t] = @ - 1]
    /\ \/ registered /\ Deliver({t})
       \/ UNCHANGED inbox
    /\ UNCHANGED <<table, succeeded, mishaps, registered, pending, scan, reviewer,
                   job, requests, hooks>>

\* Handler<NotifyTaskExecutionEvent> for mcp_result with success.
NotifyTaskExecutionEvent(t) ==
    /\ notices[t] > 0
    /\ notices' = [notices EXCEPT ![t] = @ - 1]
    /\ \/ /\ registered
          /\ Deliver({t})
          /\ pending' = pending \ {t}
       \/ /\ pending' = pending \cup {t}
          /\ UNCHANGED inbox
    /\ UNCHANGED <<table, succeeded, mishaps, registered, scan, reviewer, job,
                   requests, hooks>>

\* The 15 s timer: requests that are due are sent again; those the mailbox
\* refuses stay pending with a longer delay.
RetryPending ==
    /\ registered
    /\ \E sent \in SUBSET pending :
          /\ sent # {}
          /\ Deliver(sent)
          /\ pending' = pending \ sent
    /\ UNCHANGED <<shared, registered, scan, reviewer, job, requests, hooks>>

\* Mutant of Unreviewed: WHERE t.status = 'submitted' is dropped.
UnreviewedRows == {t \in Tasks : HasRow(t) /\ review[t] = "none"}

\* RecoverSubmittedReviews reads the submitted tasks without a review ...
Unreviewed == {t \in Tasks : status[t] = "submitted" /\ review[t] = "none"}

ScanQuery ==
    /\ scan = {}
    /\ scan' = Unreviewed
    /\ UNCHANGED <<shared, registered, pending, inbox, reviewer, job, requests, hooks>>

\* Mutant of ScanResume: the rows are logged and forgotten.
ScanResumeForgets ==
    /\ scan # {}
    /\ scan' = {}
    /\ UNCHANGED <<shared, registered, pending, inbox, reviewer, job, requests, hooks>>

\* ... and requests their review when the rows are back on the actor.
ScanResume ==
    /\ scan # {}
    /\ scan' = {}
    /\ \/ /\ ~registered
          /\ UNCHANGED <<inbox, pending>>
       \/ /\ registered
          /\ \E sent \in SUBSET (scan \ pending) :
                /\ Deliver(sent)
                /\ pending' = pending \cup (scan \ sent)
    /\ UNCHANGED <<shared, registered, reviewer, job, requests, hooks>>

-----------------------------------------------------------------------------
(* Handler<ReviewSubmittedTask> for TaskAgent.                              *)

ReviewTakes(r, t) ==
    /\ inbox[t] > 0
    /\ reviewer[r].pc = "idle"
    /\ inbox' = [inbox EXCEPT ![t] = @ - 1]
    /\ reviewer' = [reviewer EXCEPT ![r] = [pc |-> "begin", task |-> t]]
    /\ UNCHANGED <<shared, registered, pending, scan, job, requests, hooks>>

\* Mutant of BeginTaskReview: the UPDATE lost its AND status = 'submitted'.
BeginUnguarded(r) ==
    /\ reviewer[r].pc = "begin"
    /\ SetStatus(reviewer[r].task, "under_review")
    /\ reviewer' = [reviewer EXCEPT ![r].pc = "judge"]
    /\ UNCHANGED <<notices, succeeded, mishaps, registered, pending, inbox,
                   scan, job, requests, hooks>>

\* BeginTaskReview; whether a row was updated is not looked at.
BeginTaskReview(r) ==
    /\ reviewer[r].pc = "begin"
    /\ MoveStatus(reviewer[r].task, "submitted", "under_review")
    /\ reviewer' = [reviewer EXCEPT ![r].pc = "judge"]
    /\ UNCHANGED <<notices, succeeded, mishaps, registered, pending, inbox,
                   scan, job, requests, hooks>>

\* The model's verdict v (or the fall-back one) is stored by CompleteTaskReview.
CompleteTaskReview(r, v) ==
    /\ reviewer[r].pc = "judge"
    /\ RecordReview(reviewer[r].task, v)
    /\ reviewer' = [reviewer EXCEPT ![r] = NoReview]
    /\ UNCHANGED <<notices, succeeded, mishaps, registered, pending, inbox,
                   scan, job, requests, hooks>>

\* A statement or a mailbox fails: the ? operator abandons the review.
ReviewFails(r) ==
    /\ reviewer[r].pc # "idle"
    /\ Mishap("db_error")
    /\ reviewer' = [reviewer EXCEPT ![r] = NoReview]
    /\ UNCHANGED <<table, notices, succeeded, registered, pending, inbox, scan,
                   job, requests, hooks>>

-----------------------------------------------------------------------------
(* Jobs: the handlers that run several statements.                          *)

jobFrame == <<registered, pending, inbox, scan, reviewer>>
ownFrame == <<notices, succeeded, mishaps, jobFrame>>

Begin(j, new) == job[j].pc = "idle" /\ job' = [job EXCEPT ![j] = new]
Request(j, new) ==
    /\ Begin(j, new)
    /\ requests < MaxRequests
    /\ requests' = requests + 1
Goto(j, pc) == job' = [job EXCEPT ![j].pc = pc]
Return(j) == job' = [job EXCEPT ![j] = NoJob]

\* SubmitTask: INSERT, then the user's first workspace is asked for.
SubmitTask(j, t) ==
    /\ InsertTask(t)
    /\ Begin(j, [NoJob EXCEPT !.op = "submit", !.pc = "place", !.task = t])
    /\ UNCHANGED <<ownFrame, requests, hooks>>

\* The user has no workspace, or asking failed: the handler returns.
SubmitWithoutWorkspace(j) ==
    /\ job[j].op = "submit" /\ job[j].pc = "place"
    /\ Return(j)
    /\ UNCHANGED <<shared, jobFrame, requests, hooks>>

\* CheckAvailableAgent found nobody: a new task is only bound to the
\* workspace, a rejected one stays as it is.
PlaceNowhere(j) ==
    /\ job[j].pc = "place"
    /\ IF job[j].op = "submit"
       THEN \E w \in Workspaces : BindWorkspace(job[j].task, w)
       ELSE UNCHANGED table
    /\ Return(j)
    /\ UNCHANGED <<ownFrame, requests, hooks>>

\* CheckAvailableAgent answered with agent a for workspace w: an idle actor
\* of any workspace, or a row of this one.
PickAgent(j, w, a) ==
    /\ job[j].pc = "place"
    /\ job[j].op = "reject" => w = job[j].ws
    /\ job' = [job EXCEPT ![j].pc = "start", ![j].ws = w, ![j].agent = a]
    /\ UNCHANGED <<shared, jobFrame, requests, hooks>>

\* StartAgent has been answered.
AgentStarted(j) ==
    /\ job[j].pc = "start"
    /\ Goto(j, "assign")
    /\ UNCHANGED <<shared, jobFrame, requests, hooks>>

\* The last UPDATE of both handlers; neither looks at the task's status.
AssignChosen(j) ==
    LET t == job[j].task IN
    /\ job[j].pc = "assign"
    /\ AssignTask(t, IF job[j].op = "submit" THEN job[j].ws ELSE workspace[t],
                  job[j].agent)
    /\ Return(j)
    /\ UNCHANGED <<ownFrame, requests, hooks>>

\* ResolveTaskReviewDecision reads the task and its review.
Decidable(t) == status[t] = "under_review" /\ workspace[t] # NoWorkspace

RejectResult(j, t) ==
    /\ Decidable(t)
    /\ Request(j, [NoJob EXCEPT !.op = "reject", !.pc = "reset", !.task = t,
                              !.ws = workspace[t]])
    /\ UNCHANGED <<shared, jobFrame, hooks>>

AcceptResult(j, t) ==
    /\ Decidable(t)
    /\ Request(j, [NoJob EXCEPT !.op = "accept", !.pc = "decide", !.task = t,
                              !.verdict = review[t]])
    /\ UNCHANGED <<shared, jobFrame, hooks>>

\* Rejection: UPDATE, DELETE, then CheckAvailableAgent; the rows affected by
\* the UPDATE are not looked at.
RejectResets(j) ==
    /\ job[j].pc = "reset"
    /\ ResetTask(job[j].task)
    /\ Goto(j, "erase")
    /\ UNCHANGED <<ownFrame, requests, hooks>>

\* Mutant of RejectErases: the reassignment runs without asking for an agent.
RejectAssigns(j) ==
    /\ job[j].pc = "erase"
    /\ EraseReview(job[j].task)
    /\ Goto(j, "assign")
    /\ UNCHANGED <<ownFrame, requests, hooks>>

RejectErases(j) ==
    /\ job[j].pc = "erase"
    /\ EraseReview(job[j].task)
    /\ Goto(j, "place")
    /\ UNCHANGED <<ownFrame, requests, hooks>>

\* TaskAgent finds the user's latest task under review and reads a decision
\* from the chat message.
ChatDecision(j, t, v) ==
    /\ Decidable(t)
    /\ \A u \in Tasks : Decidable(u) /\ workspace[u] = workspace[t] => u <= t
    /\ Request(j, [NoJob EXCEPT !.op = "chat", !.pc = "decide", !.task = t,
                              !.verdict = v])
    /\ UNCHANGED <<shared, jobFrame, hooks>>

\* Accepting follows the review that was read (no row counts as refused); the
\* hook is called whether or not the UPDATE matched the row.
FinalStatus(v) == IF v = "approved" THEN "completed_success"
                                    ELSE "completed_failure"
HookOf(v) == IF v = "approved" THEN "reward" ELSE "penalty"

\* Mutant of Decide: the UPDATE lost its AND status = 'under_review'.
DecideUnguarded(j) ==
    LET t == job[j].task  v == job[j].verdict IN
    /\ job[j].pc = "decide"
    /\ SetStatus(t, FinalStatus(v))
    /\ hooks' = [hooks EXCEPT ![t] = @ \cup {HookOf(v)}]
    /\ Return(j)
    /\ UNCHANGED <<ownFrame, requests>>

Decide(j) ==
    LET t == job[j].task  v == job[j].verdict IN
    /\ job[j].pc = "decide"
    /\ MoveStatus(t, "under_review", FinalStatus(v))
    /\ hooks' = [hooks EXCEPT ![t] = @ \cup {HookOf(v)}]
    /\ Return(j)
    /\ UNCHANGED <<ownFrame, requests>>

\* FinalizeTaskDecision, which looks the task up again first, finds it gone.
DecideMissing(j) ==
    /\ job[j].pc = "decide" /\ job[j].op = "chat" /\ ~HasRow(job[j].task)
    /\ Return(j)
    /\ UNCHANGED <<shared, jobFrame, requests, hooks>>

\* DeleteTaskById: the status is checked once, then two DELETEs.
DeleteTask(j, t) ==
    /\ status[t] \in Completed /\ workspace[t] # NoWorkspace
    /\ Request(j, [NoJob EXCEPT !.op = "delete", !.pc = "purge", !.task = t])
    /\ UNCHANGED <<shared, jobFrame, hooks>>

DeletePurges(j) ==
    /\ job[j].pc = "purge"
    /\ EraseReview(job[j].task)
    /\ Goto(j, "drop")
    /\ UNCHANGED <<ownFrame, requests, hooks>>

DeleteDrops(j) ==
    /\ job[j].pc = "drop"
    /\ DropTask(job[j].task)
    /\ Return(j)
    /\ UNCHANGED <<ownFrame, requests, hooks>>

\* A statement fails: the handler gives up.
JobFails(j) ==
    /\ job[j].pc \in {"assign", "reset", "erase", "decide", "purge", "drop"}
    /\ Mishap("db_error")
    /\ Return(j)
    /\ UNCHANGED <<table, notices, succeeded, jobFrame, requests, hooks>>

-----------------------------------------------------------------------------
\* A crash of the process loses everything but the tables.
CrashOrchestrator ==
    /\ Mishap("crash")
    /\ registered' = FALSE
    /\ pending' = {}
    /\ inbox' = [t \in Tasks |-> 0]
    /\ scan' = {}
    /\ reviewer' = [r \in Reviews |-> NoReview]
    /\ job' = [j \in Jobs |-> NoJob]
    /\ notices' = [t \in Tasks |-> 0]
    /\ UNCHANGED <<table, succeeded, requests, hooks>>

DeliveryStep ==
    \/ RegisterTaskReviewer \/ RetryPending \/ ScanQuery \/ ScanResume
    \/ \E t \in Tasks : NotifyTaskExecutionEvent(t)

ReviewStep(r) ==
    \/ \E t \in Tasks : ReviewTakes(r, t)
    \/ BeginTaskReview(r)
    \/ \E v \in Verdict : CompleteTaskReview(r, v)
    \/ ReviewFails(r)

\* Steps of the job in slot j that involve no agent actor.
JobStep(j) ==
    \/ \E t \in Tasks :
          \/ SubmitTask(j, t) \/ RejectResult(j, t) \/ AcceptResult(j, t)
          \/ DeleteTask(j, t)
          \/ \E v \in Verdict : ChatDecision(j, t, v)
    \/ SubmitWithoutWorkspace(j) \/ PlaceNowhere(j) \/ AssignChosen(j)
    \/ RejectResets(j) \/ RejectErases(j)
    \/ Decide(j) \/ DecideMissing(j)
    \/ DeletePurges(j) \/ DeleteDrops(j)
    \/ JobFails(j)

DagStep ==
    \/ DeliveryStep
    \/ \E r \in Reviews : ReviewStep(r)
    \/ \E j \in Jobs : JobStep(j)

\* What the orchestrator relies on: agents only touch tasks that are bound to
\* a workspace, and only report and submit tasks they executed successfully.
AgentStatement(t) ==
    \/ \E a \in Agents : ClaimTask(a, t)
    \/ /\ workspace[t] # NoWorkspace
       /\ \/ SetStatus(t, "executing")
          \/ SetStatus(t, "completed_failure")
          \/ t \in succeeded /\ SetStatus(t, "submitted")

AgentsWrite ==
    /\ \E t \in Tasks : AgentStatement(t)
    /\ UNCHANGED <<notices, succeeded, mishaps, dagVars>>

AgentSucceeds ==
    /\ \E t \in Tasks : succeeded' = succeeded \cup {t}
    /\ UNCHANGED <<table, notices, mishaps, dagVars>>

AgentReports ==
    /\ \E t \in succeeded : /\ notices[t] < MaxNotices
                            /\ notices' = [notices EXCEPT ![t] = @ + 1]
    /\ UNCHANGED <<table, succeeded, mishaps, dagVars>>

AgentSideMishap ==
    /\ \E k \in Mishaps \ {"crash"} : Mishap(k)
    /\ UNCHANGED <<table, notices, succeeded, dagVars>>

DagEnvironment == AgentsWrite \/ AgentSucceeds \/ AgentReports \/ AgentSideMishap

DagNext ==
    \/ DagStep
    \/ \E j \in Jobs : \/ AgentStarted(j)
                       \/ \E w \in Workspaces, a \in Agents : PickAgent(j, w, a)
    \/ CrashOrchestrator
    \/ DagEnvironment

DagSpecInit == TableInit /\ DagInit

DagSpec == DagSpecInit /\ [][DagNext]_<<shared, dagVars>>

-----------------------------------------------------------------------------
(* Properties.                                                              *)

\* Nothing is reviewed or accepted that was never executed successfully
\* (docs/task_runtime_flow.md:51): whatever the order of late events, retries,
\* recovery scans, decisions and restarts, a task that is submitted, under
\* review or completed with success, or has a review, had a successful run.
ReviewedWasExecuted ==
    \A t \in Tasks :
        \/ status[t] \in {"submitted", "under_review", "completed_success"}
        \/ review[t] # "none"
        => t \in succeeded

\* A task without workspace (its submitter has none) stays published: no
\* handler may hand it to an agent or take it anywhere else, because every
\* page and decision of the user finds tasks through their workspace.
OrphanStaysPublished ==
    \A t \in Tasks : HasRow(t) /\ workspace[t] = NoWorkspace =>
        status[t] = "published" /\ assigned[t] = NoAgent

\* A task is completed with success only out of a review, by a step that
\* calls the reward hook (completion by the user's decision).
SuccessOnlyByDecision ==
    [][\A t \in Tasks :
          status'[t] = "completed_success" /\ status[t] # "completed_success"
          => status[t] = "under_review" /\ "reward" \in hooks'[t]]_<<shared, dagVars>>

\* The life of a task as TaskContract states it, read off the tables.
StageOf(s) ==
    CASE s = "unborn" -> "unborn"
      [] s = "submitted" -> "submitted"
      [] s = "under_review" -> "review"
      [] s = "completed_success" -> "success"
      [] s = "gone" -> "gone"
      [] OTHER -> "open"

stages == [t \in Tasks |-> StageOf(status[t])]

Contract == INSTANCE TaskContract WITH stage <- stages, proven <- succeeded

\* Every step of the orchestrator, its reviewer and its environment is a step
\* of the contract: submitted only after a success, reviewed only after being
\* submitted, successful only out of a review, deleted for ever.
KeepsContract == Contract!Spec

-----------------------------------------------------------------------------
(* Liveness.  Actor mailboxes are served, timers fire and futures are       *)
(* polled (weak fairness); TaskAgent keeps draining its mailbox, so that a  *)
(* delivery that is retried for ever meets a free place (strong fairness).  *)
(* No fairness is assumed of users, agents, crashes and failures.           *)

DagFairness ==
    /\ WF_dagVars(RegisterTaskReviewer)
    /\ WF_dagVars(ScanQuery)
    /\ WF_dagVars(ScanResume)
    /\ \A t \in Tasks :
          /\ WF_<<notices, dagVars>>(NotifyTaskExecutionEvent(t))
          /\ SF_dagVars(RetryPending /\ t \notin pending')
          /\ SF_dagVars(\E r \in Reviews : ReviewTakes(r, t))
    /\ \A r \in Reviews :
          /\ WF_<<table, dagVars>>(BeginTaskReview(r))
          /\ WF_<<table, dagVars>>(\E v \in Verdict : CompleteTaskReview(r, v))

\* A submitted task without a review leaves that state, even when its success
\* event was lost in a crash or the mailbox refused the request: the recovery
\* scan and the retry queue see to it (dag_orchestrator.rs:124).
UnreviewedIsRecovered ==
    \A t \in Tasks : t \in Unreviewed ~> t \notin Unreviewed

=============================================================================
