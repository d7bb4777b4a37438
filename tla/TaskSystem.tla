----------------------------- MODULE TaskSystem -----------------------------
(***************************************************************************)
(* The task runtime as a whole: the agents of AgentActor and the           *)
(* orchestrator and reviewer of DagOrchestrator over the tables of         *)
(* TaskTable.  Two steps involve both sides: choosing an agent reads the   *)
(* agents' runtime status, and starting the chosen one creates its actor.  *)
(***************************************************************************)
EXTENDS AgentActor, DagOrchestrator

systemVars == <<shared, agentVars, dagVars>>

\* CheckAvailableAgent: the first idle actor of the manager's map, whatever
\* its workspace; failing that any row of the workspace, busy or not.  The
\* actors are asked one after the other, so the fall-back may also be taken
\* while one of them has just become idle.
CheckAvailableAgent(j, w, a) ==
    /\ Idle(a) \/ Home[a] = w
    /\ PickAgent(j, w, a)
    /\ UNCHANGED agentVars

StartChosenAgent(j) ==
    /\ AgentStarted(j)
    /\ IF Live(job[j].agent) THEN UNCHANGED agentVars
                             ELSE StartAgent(job[j].agent)

Crash == CrashAgents /\ CrashOrchestrator

SystemInit == TableInit /\ AgentInit /\ DagInit

SystemNext ==
    \/ \E a \in Agents : (StartAgent(a) \/ AgentStep(a)) /\ UNCHANGED dagVars
    \/ DagStep /\ UNCHANGED agentVars
    \/ \E j \in Jobs :
          \/ \E w \in Workspaces, a \in Agents : CheckAvailableAgent(j, w, a)
          \/ StartChosenAgent(j)
    \/ Crash

SystemSpec == SystemInit /\ [][SystemNext]_systemVars

-----------------------------------------------------------------------------
(* Safety across the two sides.                                             *)

\* While nothing was disturbed, somebody always carries a submitted task to
\* its review: the execution that has yet to send the event, the event, the
\* retry queue, TaskAgent's mailbox, or the review that is about to begin.
\* The submission and the four hand-overs are steps of three actors, and a
\* hand-over that forgets the task leaves it to the recovery scan alone.
SubmittedHasCourier ==
    \A t \in Tasks : status[t] = "submitted" /\ mishaps = 0 =>
        \/ \E a \in Agents, e \in Execs :
              /\ exec[a][e].pc = "settle" /\ exec[a][e].outcome = "success"
              /\ exec[a][e].task = t
        \/ notices[t] > 0
        \/ t \in pending
        \/ inbox[t] > 0
        \/ \E r \in Reviews : reviewer[r] = [pc |-> "begin", task |-> t]

-----------------------------------------------------------------------------
(* Liveness: the fairness of both sides, and the futures of the handlers    *)
(* run to their end once they are started.                                  *)

JobProgress(j) ==
    \/ \E w \in Workspaces, a \in Agents : CheckAvailableAgent(j, w, a)
    \/ StartChosenAgent(j)
    \/ SubmitWithoutWorkspace(j) \/ PlaceNowhere(j) \/ AssignChosen(j)
    \/ RejectResets(j) \/ RejectErases(j) \/ Decide(j) \/ DecideMissing(j)
    \/ DeletePurges(j) \/ DeleteDrops(j)

SystemLiveSpec ==
    /\ SystemSpec /\ AgentFairness /\ DagFairness
    /\ \A j \in Jobs : WF_dagVars(JobProgress(j))

=============================================================================
