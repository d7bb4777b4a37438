---------------------------- MODULE AgentManager ----------------------------
(***************************************************************************)
(* AgentManagerActor: the table of agents, the map from an agent to the    *)
(* address of its actor, and the actors themselves, of which one agent may *)
(* have several.  Requests are jobs that wait for actors and statements;   *)
(* the start-up scan is one future that competes with them.                *)
(***************************************************************************)
EXTENDS Naturals, FiniteSets

CONSTANTS Agents,      \* ids of the agents
          Actors,      \* instances of AgentActor; each is created once
          Jobs,        \* requests in progress
          NoAgent, NoActor,
          MaxMishaps   \* bound on crashes and database errors

ASSUME ManagerAssumption ==
    /\ NoAgent \notin Agents
    /\ NoActor \notin Actors
    /\ MaxMishaps \in Nat

VARIABLES row,      \* row of an agent in the table: unborn, present or gone
          address,  \* the map agents: HashMap<AgentId, Addr<AgentActor>>
          actor,    \* every actor with its agent and life cycle
          job,      \* requests whose future is suspended
          scan,     \* the start-up scan
          lost,     \* history: actors whose address was overwritten
          mishaps

mgrVars == <<row, address, actor, job, scan, lost, mishaps>>

Instance == [agent : Agents \cup {NoAgent},
             life : {"unborn", "starting", "running", "stopped"}]
Unborn == [agent |-> NoAgent, life |-> "unborn"]

\* older is history: the actors the agent had when the request was accepted.
Request == [pc : {"idle", "shutdown", "erase", "ask", "start"},
            kind : {"stop", "delete", "pick"},
            agent : Agents \cup {NoAgent},
            target : Actors \cup {NoActor},
            owner : BOOLEAN,
            asks : [Agents -> Actors \cup {NoActor}],
            older : SUBSET Actors]
NoAsks == [a \in Agents |-> NoActor]
IdleJob == [pc |-> "idle", kind |-> "stop", agent |-> NoAgent, target |-> NoActor,
            owner |-> FALSE, asks |-> NoAsks, older |-> {}]

Scan == [pc : {"query", "resume", "done"}, found : SUBSET Agents]

Live(i) == actor[i].life \in {"starting", "running"}
ActorsOf(a) == {i \in Actors : Live(i) /\ actor[i].agent = a}
BeingShutDown(i) == \E j \in Jobs : job[j].pc = "shutdown" /\ job[j].target = i

ManagerInit ==
    /\ row \in [Agents -> {"unborn", "present"}]
    /\ address = [a \in Agents |-> NoActor]
    /\ actor = [i \in Actors |-> Unborn]
    /\ job = [j \in Jobs |-> IdleJob]
    /\ scan = [pc |-> "query", found |-> {}]
    /\ lost = {}
    /\ mishaps = 0

-----------------------------------------------------------------------------
\* The start-up scan: one SELECT, then every actor is created at once.

ScanQuery ==
    /\ scan.pc = "query"
    /\ scan' = [pc |-> "resume", found |-> {a \in Agents : row[a] = "present"}]
    /\ UNCHANGED <<row, address, actor, job, lost, mishaps>>

\* A database error counts as an empty table.
ScanFails ==
    /\ scan.pc = "query"
    /\ mishaps < MaxMishaps
    /\ mishaps' = mishaps + 1
    /\ scan' = [pc |-> "resume", found |-> {}]
    /\ UNCHANGED <<row, address, actor, job, lost>>

\* f names a fresh actor for every agent found.  insert replaces the address
\* of an actor that StartAgent created since.
ScanResume ==
    /\ scan.pc = "resume"
    /\ \E f \in [scan.found -> {i \in Actors : actor[i].life = "unborn"}] :
          /\ \A a, b \in scan.found : a # b => f[a] # f[b]
          /\ actor' = [i \in Actors |->
                         IF \E a \in scan.found : f[a] = i
                         THEN [agent |-> CHOOSE a \in scan.found : f[a] = i,
                               life |-> "starting"]
                         ELSE actor[i]]
          /\ address' = [a \in Agents |->
                           IF a \in scan.found THEN f[a] ELSE address[a]]
    /\ lost' = lost \cup {address[a] : a \in {b \in scan.found : address[b] # NoActor}}
    /\ scan' = [pc |-> "done", found |-> {}]
    /\ UNCHANGED <<row, job, mishaps>>

-----------------------------------------------------------------------------
\* Requests.

CreateAgent(a) ==
    /\ row[a] = "unborn"
    /\ row' = [row EXCEPT ![a] = "present"]
    /\ UNCHANGED <<address, actor, job, scan, lost, mishaps>>

\* Mutant of Start: a second actor whatever the map says.
StartTwice(a) ==
    \E i \in Actors :
        /\ actor[i].life = "unborn"
        /\ actor' = [actor EXCEPT ![i] = [agent |-> a, life |-> "starting"]]
        /\ address' = [address EXCEPT ![a] = i]

\* The handler itself, without awaits.  The row is not looked at.
Start(a) ==
    IF address[a] # NoActor
    THEN UNCHANGED <<address, actor>>
    ELSE \E i \in Actors :
            /\ actor[i].life = "unborn"
            /\ actor' = [actor EXCEPT ![i] = [agent |-> a, life |-> "starting"]]
            /\ address' = [address EXCEPT ![a] = i]

\* Ids come from the table; a client may have kept one that is deleted.
StartAgent(a) ==
    /\ row[a] # "unborn"
    /\ Start(a)
    /\ UNCHANGED <<row, job, scan, lost, mishaps>>

\* Both handlers forget the address at once; their futures wait for the actor.
Release(j, a, kind, owner) ==
    /\ job[j].pc = "idle"
    /\ row[a] # "unborn"
    /\ address' = [address EXCEPT ![a] = NoActor]
    /\ job' = [job EXCEPT ![j] = [IdleJob EXCEPT !.pc = "shutdown", !.kind = kind,
                                                 !.agent = a, !.target = address[a],
                                                 !.owner = owner,
                                                 !.older = ActorsOf(a)]]
    /\ UNCHANGED <<row, actor, scan, lost, mishaps>>

StopAgent(j, a) == Release(j, a, "stop", FALSE)

\* owner: whether the caller owns the row; it is looked at only in DeleteErases.
DeleteAgent(j, a, owner) == Release(j, a, "delete", owner)

\* Mutant of Released: the message is sent without waiting.
ReleasedAtOnce(j) == job[j].pc = "shutdown"

\* A reply, or the error that the actor is gone, resumes the future.
Released(j) ==
    \/ job[j].target = NoActor
    \/ job[j].target # NoActor /\ actor[job[j].target].life = "stopped"

StopReturns(j) ==
    /\ job[j].pc = "shutdown" /\ job[j].kind = "stop" /\ Released(j)
    /\ job' = [job EXCEPT ![j] = IdleJob]
    /\ UNCHANGED <<row, address, actor, scan, lost, mishaps>>

DeleteReleased(j) ==
    /\ job[j].pc = "shutdown" /\ job[j].kind = "delete" /\ Released(j)
    /\ job' = [job EXCEPT ![j].pc = "erase"]
    /\ UNCHANGED <<row, address, actor, scan, lost, mishaps>>

\* DELETE ... WHERE id AND owner_username: a stranger's request is refused here.
DeleteErases(j) ==
    /\ job[j].pc = "erase"
    /\ row' = IF job[j].owner THEN [row EXCEPT ![job[j].agent] = "gone"] ELSE row
    /\ job' = [job EXCEPT ![j] = IdleJob]
    /\ UNCHANGED <<address, actor, scan, lost, mishaps>>

DeleteFails(j) ==
    /\ job[j].pc = "erase"
    /\ mishaps < MaxMishaps
    /\ mishaps' = mishaps + 1
    /\ job' = [job EXCEPT ![j] = IdleJob]
    /\ UNCHANGED <<row, address, actor, scan, lost>>

\* DeleteWorkspace takes the rows of its agents along and leaves their actors.
DeleteWorkspace(a) ==
    /\ row[a] = "present"
    /\ row' = [row EXCEPT ![a] = "gone"]
    /\ UNCHANGED <<address, actor, job, scan, lost, mishaps>>

-----------------------------------------------------------------------------
\* Placing a task: CheckAvailableAgent asks the actors it saw one by one and
\* falls back on the table; the orchestrator then starts what it was told.

CheckAvailableAgent(j) ==
    /\ job[j].pc = "idle"
    /\ job' = [job EXCEPT ![j] = [IdleJob EXCEPT !.pc = "ask", !.kind = "pick",
                                                 !.asks = address]]
    /\ UNCHANGED <<row, address, actor, scan, lost, mishaps>>

\* A running actor answers whether it has a task; any other one is passed over.
AskAgent(j, a) ==
    /\ job[j].pc = "ask" /\ job[j].asks[a] # NoActor
    /\ \/ /\ actor[job[j].asks[a]].life = "running"
          /\ job' = [job EXCEPT ![j] = [IdleJob EXCEPT !.pc = "start",
                                                       !.kind = "pick", !.agent = a]]
       \/ job' = [job EXCEPT ![j].asks[a] = NoActor]
    /\ UNCHANGED <<row, address, actor, scan, lost, mishaps>>

\* Any agent of the task's workspace and owner, busy or not.
PickFromTable(j) ==
    /\ job[j].pc = "ask" /\ job[j].asks = NoAsks
    /\ \/ \E a \in Agents :
             /\ row[a] = "present"
             /\ job' = [job EXCEPT ![j].pc = "start", ![j].agent = a]
       \/ job' = [job EXCEPT ![j] = IdleJob]
    /\ UNCHANGED <<row, address, actor, scan, lost, mishaps>>

StartPicked(j) ==
    /\ job[j].pc = "start"
    /\ Start(job[j].agent)
    /\ job' = [job EXCEPT ![j] = IdleJob]
    /\ UNCHANGED <<row, scan, lost, mishaps>>

-----------------------------------------------------------------------------
\* The actors.

\* The end of started(): whatever the table said, the actor runs.
Boots(i) ==
    /\ actor[i].life = "starting"
    /\ actor' = [actor EXCEPT ![i].life = "running"]
    /\ UNCHANGED <<row, address, job, scan, lost, mishaps>>

\* ctx.stop() ends the actor in the same poll; messages left are refused.
ShutdownAgent(i) ==
    /\ Live(i) /\ BeingShutDown(i)
    /\ actor' = [actor EXCEPT ![i].life = "stopped"]
    /\ UNCHANGED <<row, address, job, scan, lost, mishaps>>

\* The process dies and is started again: only the table is left.
Restart ==
    /\ mishaps < MaxMishaps
    /\ mishaps' = mishaps + 1
    /\ address' = [a \in Agents |-> NoActor]
    /\ actor' = [i \in Actors |->
                    IF Live(i) THEN [actor[i] EXCEPT !.life = "stopped"] ELSE actor[i]]
    /\ job' = [j \in Jobs |-> IdleJob]
    /\ scan' = [pc |-> "query", found |-> {}]
    /\ lost' = {}
    /\ UNCHANGED row

-----------------------------------------------------------------------------
StartUp == ScanQuery \/ ScanFails \/ ScanResume

Requests ==
    \/ \E a \in Agents : CreateAgent(a) \/ StartAgent(a) \/ DeleteWorkspace(a)
    \/ \E j \in Jobs, a \in Agents :
          StopAgent(j, a) \/ DeleteAgent(j, a, TRUE) \/ DeleteAgent(j, a, FALSE)
    \/ \E j \in Jobs : CheckAvailableAgent(j)

JobSteps(j) ==
    \/ StopReturns(j) \/ DeleteReleased(j) \/ DeleteErases(j) \/ DeleteFails(j)
    \/ (\E a \in Agents : AskAgent(j, a))
    \/ PickFromTable(j) \/ StartPicked(j)

ManagerNext ==
    \/ StartUp \/ Requests \/ Restart
    \/ \E j \in Jobs : JobSteps(j)
    \/ \E i \in Actors : Boots(i) \/ ShutdownAgent(i)

ManagerSpec == ManagerInit /\ [][ManagerNext]_mgrVars

-----------------------------------------------------------------------------
(***************************************************************************)
(* Properties                                                              *)
(***************************************************************************)

\* Types of the table, the map, the actors and the requests; a request that
\* will start or delete an agent has one.
ManagerTypeOK ==
    /\ row \in [Agents -> {"unborn", "present", "gone"}]
    /\ address \in [Agents -> Actors \cup {NoActor}]
    /\ actor \in [Actors -> Instance]
    /\ \A i \in Actors : actor[i].life = "unborn" \/ actor[i].agent \in Agents
    /\ job \in [Jobs -> Request]
    /\ \A j \in Jobs : job[j].pc \in {"shutdown", "erase", "start"} =>
          job[j].agent \in Agents
    /\ scan \in Scan
    /\ lost \subseteq Actors
    /\ mishaps \in 0..MaxMishaps

\* Every live actor can be reached: the map names it, or a request is waiting
\* for its end, or the start-up scan has overwritten its address.  So two
\* actors of one agent run side by side only for the last two reasons.
LiveIsReachable ==
    \A i \in Actors : Live(i) =>
        \/ address[actor[i].agent] = i
        \/ BeingShutDown(i)
        \/ i \in lost

\* What the map names is an actor of that agent which no shutdown has reached:
\* StartAgent, which trusts the map, never reuses a dead actor.
MappedIsLive ==
    \A a \in Agents : address[a] # NoActor =>
        /\ Live(address[a]) /\ actor[address[a]].agent = a
        /\ ~BeingShutDown(address[a])

\* What a stop or a deletion relies on while it is in progress: the actors it
\* found have stopped, are waited for, or are out of everybody's reach.
OlderIsSettled ==
    \A j \in Jobs : job[j].pc \in {"shutdown", "erase"} =>
        /\ job[j].target \in job[j].older \cup {NoActor}
        /\ \A i \in job[j].older :
              /\ actor[i].life # "unborn"
              /\ ~Live(i) \/ i \in lost \/ BeingShutDown(i)

\* The invariant of the manager: what the map, the actors and the waiting requests
\* promise each other at every moment; its parts need one another to be inductive.
ManagerInv == ManagerTypeOK /\ LiveIsReachable /\ MappedIsLive /\ OlderIsSettled

\* When the shutdown a stop or a deletion waited for is over, every actor the
\* agent had when the request was accepted has stopped, or another request is
\* still waiting for it, or the start-up scan has overwritten its address.
StopIsEffective ==
    \A j \in Jobs :
        job[j].pc = "erase" \/ (job[j].pc = "shutdown" /\ Released(j)) =>
            \A i \in job[j].older :
                ~Live(i) \/ i \in lost
                \/ \E k \in Jobs \ {j} : job[k].pc = "shutdown" /\ job[k].target = i

=============================================================================
