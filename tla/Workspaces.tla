----------------------------- MODULE Workspaces -----------------------------
(***************************************************************************)
(* Users, workspaces and what belongs to them.  UserManagerActor,          *)
(* WorkspaceManageActor, AgentManagerActor and DagOrchestrActor answer     *)
(* their requests by futures that interleave between two SQL statements;   *)
(* a rename and the removal of a user are transactions (READ COMMITTED),   *)
(* which see what others committed and wait for the rows others hold.      *)
(* Directories are changed outside the transactions.                       *)
(***************************************************************************)
EXTENDS Naturals, FiniteSets

CONSTANTS Users, Names, Agents, Tasks, NoUser, NoName, NoAgent, NoTask,
          LegalNames,  \* letters and underscores only
          DefaultName, \* the name of a user's default workspace
          Jobs,        \* requests in progress
          MaxRequests  \* bound on the requests, faults and restarts

ASSUME WsAssumption ==
    /\ LegalNames \subseteq Names /\ DefaultName \in [Users -> Names]
    /\ NoUser \notin Users \cup Names /\ NoName \notin Users \cup Names
    /\ Users \cap Names = {} /\ NoAgent \notin Users
    /\ NoTask \notin Tasks \cup Names \cup {NoName} /\ MaxRequests \in Nat

VARIABLES users,     \* rows of the table users
          workspace, \* rows of workspaces: the owner of a name
          agent,     \* rows of agents
          task,      \* rows of tasks: the workspace's name, NoName when NULL
          folder,    \* names with a directory
          job,
          requests,
          disturbed, \* history: users and names on which requests overlapped
          deleted    \* history: names a DeleteWorkspace has freed

tables == <<users, workspace, agent, task>>
history == <<requests, disturbed, deleted>>
wsVars == <<tables, folder, job, history>>

\* A row of agents; "default" marks the one made by a registration.
AgentRow == [home : Names, owner : Users, origin : {"default", "own"}]

Kinds == {"register", "create", "agent", "delete", "rename", "remove", "submit"}
Steps == {"idle", "create", "folder", "agentFolder", "agent", "delete",
          "unfolder", "look", "claim", "moveAgents", "moveTasks", "dropOld",
          "commit", "moveFolder", "purgeTasks", "purgeAgents", "purgeSpaces",
          "purgeUser", "choose", "bind"}

\* names, agents and tasks are the rows an open transaction holds; lost are
\* the agents among them that a cascade deletes.
Job == [pc : Steps, kind : Kinds, user : Users \cup {NoUser},
        ws : Names \cup {NoName}, next : Names \cup {NoName},
        task : Tasks \cup {NoTask},
        names : SUBSET Names, agents : SUBSET Agents, tasks : SUBSET Tasks,
        lost : SUBSET Agents]

IdleJob == [pc |-> "idle", kind |-> "create", user |-> NoUser, ws |-> NoName,
            next |-> NoName, task |-> NoTask, names |-> {}, agents |-> {},
            tasks |-> {}, lost |-> {}]

Active == {j \in Jobs : job[j].pc # "idle"}
OwnedBy(u) == {n \in Names : workspace[n] = u}
AgentsIn(n) == {a \in Agents : agent[a] # NoAgent /\ agent[a].home = n}
AgentsOf(u) == {a \in Agents : agent[a] # NoAgent /\ agent[a].owner = u}
TasksIn(n) == {t \in Tasks : task[t] = n}
Started == {n \in Names : workspace[n] # NoUser}

\* The process has started on any database, and WorkspaceManageActor::started
\* has made the directories of all rows; a start that does not is Restart's.
\* No foreign key ties an owner to the table users.
WsInit ==
    /\ users \in SUBSET Users
    /\ workspace \in [Names -> Users \cup {NoUser}]
    /\ \A n \in Names \ LegalNames : workspace[n] = NoUser
    /\ agent \in [Agents -> {NoAgent} \cup
                   [home : Started, owner : Users, origin : {"own", "default"}]]
    /\ \A a \in Agents :
          agent[a] # NoAgent => (agent[a].origin = "default") =
                                  (agent[a].owner = workspace[agent[a].home])
    /\ task \in [Tasks -> {NoTask} \cup Started]
    /\ folder = Started
    /\ job = [j \in Jobs |-> IdleJob]
    /\ requests = 0 /\ disturbed = {} /\ deleted = {}

(***************************************************************************)
(* Locks.  Needs(j) are the rows j's next statement writes or references;  *)
(* it waits while a transaction of another job holds one of them.          *)
(***************************************************************************)
Rows(n, a, t) == [names |-> n, agents |-> a, tasks |-> t]
InAny(names) == UNION {AgentsIn(n) : n \in names}

Needs(j) ==
    LET b == job[j] IN
    CASE b.pc = "create" -> Rows({b.ws}, {}, {})
      [] b.pc = "agent" /\ b.ws \in Started -> Rows({b.ws}, {}, {})
      [] b.pc = "delete" /\ b.ws \in Started -> Rows({b.ws}, AgentsIn(b.ws), {})
      [] b.pc = "claim" -> Rows({b.next}, {}, {})
      [] b.pc = "moveAgents" -> Rows({}, AgentsIn(b.ws), {})
      [] b.pc = "moveTasks" -> Rows({}, {}, TasksIn(b.ws))
      [] b.pc = "dropOld" /\ workspace[b.ws] = b.user ->
            Rows({b.ws}, AgentsIn(b.ws), {})
      [] b.pc = "purgeTasks" ->
            Rows({}, {}, UNION {TasksIn(n) : n \in OwnedBy(b.user)})
      [] b.pc = "purgeAgents" -> Rows({}, AgentsOf(b.user), {})
      [] b.pc = "purgeSpaces" -> Rows(OwnedBy(b.user), InAny(OwnedBy(b.user)), {})
      [] b.pc = "bind" -> Rows({}, {}, {b.task})
      [] OTHER -> Rows({}, {}, {})

BlockedBy(j) ==
    LET rows == Needs(j) IN
    {k \in Jobs \ {j} : \/ job[k].names \cap rows.names # {}
                        \/ job[k].agents \cap rows.agents # {}
                        \/ job[k].tasks \cap rows.tasks # {}}

At(j, pc) == job[j].pc = pc /\ BlockedBy(j) = {}

Becomes(j, b) == job' = [job EXCEPT ![j] = b]
Goes(j, pc) == Becomes(j, [job[j] EXCEPT !.pc = pc])
\* The request is answered; an open transaction is rolled back.
Ends(j) == Becomes(j, IdleJob)

(***************************************************************************)
(* Requests.  Two of them overlap on what both name.                       *)
(***************************************************************************)
Scope(b) == {b.user, b.ws, b.next}
            \cup (IF b.kind = "remove" THEN OwnedBy(b.user) ELSE {})
Overlap(j, b) ==
    UNION {(Scope(b) \cap Scope(job[k])) \
             (IF "remove" \in {b.kind, job[k].kind} THEN {} ELSE Users)
           : k \in Active \ {j}}
Disturb(j, b) == disturbed' = disturbed \cup (Overlap(j, b) \ {NoUser, NoName})

Request(j, b) ==
    /\ job[j].pc = "idle" /\ requests < MaxRequests
    /\ requests' = requests + 1
    /\ Becomes(j, b)
    /\ Disturb(j, b)
    /\ UNCHANGED deleted

\* create_user_with_defaults: CreateUser, then the rest in a spawned task.
Register(j, u) ==
    /\ u \notin users
    /\ users' = users \cup {u}
    /\ Request(j, [IdleJob EXCEPT !.pc = "create", !.kind = "register",
                                  !.user = u, !.ws = DefaultName[u]])
    /\ UNCHANGED <<workspace, agent, task, folder>>

\* The owner is a name of the request's body, which nobody looks up.
AskCreateWorkspace(j, u, n) ==
    /\ Request(j, [IdleJob EXCEPT !.pc = "create", !.user = u, !.ws = n])
    /\ UNCHANGED <<tables, folder>>

\* So is the owner of an agent.
AskCreateAgent(j, u, n) ==
    /\ Request(j, [IdleJob EXCEPT !.pc = "agentFolder", !.kind = "agent",
                                  !.user = u, !.ws = n])
    /\ UNCHANGED <<tables, folder>>

AskDeleteWorkspace(j, n) ==
    /\ Request(j, [IdleJob EXCEPT !.pc = "delete", !.kind = "delete", !.ws = n])
    /\ UNCHANGED <<tables, folder>>

\* A rename to the same name changes only the description.  The user is the one
\* of the access token, which outlives the removal of its user.
AskUpdateWorkspace(j, u, cur, next) ==
    /\ cur # next /\ next \in LegalNames
    /\ Request(j, [IdleJob EXCEPT !.pc = "look", !.kind = "rename", !.user = u,
                                  !.ws = cur, !.next = next])
    /\ UNCHANGED <<tables, folder>>

AskDeleteUser(j, u) ==
    /\ Request(j, [IdleJob EXCEPT !.pc = "purgeTasks", !.kind = "remove",
                                  !.user = u])
    /\ UNCHANGED <<tables, folder>>

\* SubmitTask inserts the task without a workspace, then asks for one.
AskSubmitTask(j, u, t) ==
    /\ task[t] = NoTask
    /\ \A k \in Active : job[k].task # t
    /\ task' = [task EXCEPT ![t] = NoName]
    /\ Request(j, [IdleJob EXCEPT !.pc = "choose", !.kind = "submit",
                                  !.user = u, !.task = t])
    /\ UNCHANGED <<users, workspace, agent, folder>>

(***************************************************************************)
(* CreateWorkspace, CreateAgent, DeleteWorkspace: one statement each.      *)
(***************************************************************************)
\* A registration goes on although its workspace could not be made.
InsertWorkspaceUnchecked(j) ==
    /\ At(j, "create")
    /\ IF job[j].ws \in LegalNames \ Started
       THEN /\ workspace' = [workspace EXCEPT ![job[j].ws] = job[j].user]
            /\ Goes(j, "folder")
       ELSE /\ UNCHANGED workspace
            /\ IF job[j].kind = "register" THEN Goes(j, "agentFolder") ELSE Ends(j)
    /\ UNCHANGED <<users, agent, task, folder, history>>

\* An illegal name is refused before the statement.
InsertWorkspace(j) ==
    /\ At(j, "create")
    /\ IF job[j].ws \in LegalNames \ Started
       THEN /\ workspace' = [workspace EXCEPT ![job[j].ws] = job[j].user]
            /\ Goes(j, "folder")
       ELSE UNCHANGED workspace /\ Ends(j)
    /\ UNCHANGED <<users, agent, task, folder, history>>

MakeFolder(j) ==
    /\ At(j, "folder")
    /\ folder' = folder \cup {job[j].ws}
    /\ IF job[j].kind = "register" THEN Goes(j, "agentFolder") ELSE Ends(j)
    /\ UNCHANGED <<tables, history>>

MakeAgentFolder(j) ==
    /\ At(j, "agentFolder")
    /\ folder' = folder \cup {job[j].ws}
    /\ Goes(j, "agent")
    /\ UNCHANGED <<tables, history>>

Free == {a \in Agents : agent[a] = NoAgent}

\* The statement fails without a row of that name, and, a bound of the model,
\* when every element of Agents is in use.
InsertAgent(j) ==
    /\ At(j, "agent")
    /\ \/ /\ job[j].ws \in Started
          /\ \E a \in Free : agent' = [agent EXCEPT ![a] =
                [home |-> job[j].ws, owner |-> job[j].user,
                 origin |-> IF job[j].kind = "register" THEN "default" ELSE "own"]]
       \/ (job[j].ws \notin Started \/ Free = {}) /\ UNCHANGED agent
    /\ Ends(j)
    /\ UNCHANGED <<users, workspace, task, folder, history>>

\* The foreign key of agents cascades; tasks have none.
DeleteWorkspace(j) ==
    /\ At(j, "delete")
    /\ IF job[j].ws \in Started
       THEN /\ workspace' = [workspace EXCEPT ![job[j].ws] = NoUser]
            /\ agent' = [a \in Agents |-> IF a \in AgentsIn(job[j].ws) THEN NoAgent
                                          ELSE agent[a]]
            /\ deleted' = deleted \cup {job[j].ws}
            /\ Goes(j, "unfolder")
       ELSE UNCHANGED <<workspace, agent, deleted>> /\ Ends(j)
    /\ UNCHANGED <<users, task, folder, requests, disturbed>>

RemoveFolder(j) ==
    /\ At(j, "unfolder")
    /\ folder' = folder \ {job[j].ws}
    /\ Ends(j)
    /\ UNCHANGED <<tables, history>>

(***************************************************************************)
(* UpdateWorkspace: a transaction that inserts the new name, moves what    *)
(* refers to the old one and deletes it; then the directory.               *)
(***************************************************************************)
\* Both looks in one: what comes between them, the INSERT finds out as well.
LookAtNames(j) ==
    /\ At(j, "look")
    /\ IF workspace[job[j].ws] = job[j].user /\ job[j].next \notin Started
       THEN Goes(j, "claim")
       ELSE Ends(j)
    /\ UNCHANGED <<tables, folder, history>>

\* ON CONFLICT DO NOTHING.
ClaimNameOnConflict(j) ==
    /\ At(j, "claim")
    /\ Becomes(j, [job[j] EXCEPT !.pc = "moveAgents", !.names = {job[j].next}])
    /\ UNCHANGED <<tables, folder, history>>

\* The name is unique: the INSERT fails when it was taken since the look.
ClaimName(j) ==
    /\ At(j, "claim")
    /\ IF job[j].next \notin Started
       THEN Becomes(j, [job[j] EXCEPT !.pc = "moveAgents", !.names = {job[j].next}])
       ELSE Ends(j)
    /\ UNCHANGED <<tables, folder, history>>

MoveAgents(j) ==
    /\ At(j, "moveAgents")
    /\ Becomes(j, [job[j] EXCEPT !.pc = "moveTasks", !.agents = AgentsIn(job[j].ws)])
    /\ UNCHANGED <<tables, folder, history>>

\* The tasks are forgotten.
MoveNoTasks(j) ==
    /\ At(j, "moveTasks")
    /\ Goes(j, "dropOld")
    /\ UNCHANGED <<tables, folder, history>>

MoveTasks(j) ==
    /\ At(j, "moveTasks")
    /\ Becomes(j, [job[j] EXCEPT !.pc = "dropOld", !.tasks = TasksIn(job[j].ws)])
    /\ UNCHANGED <<tables, folder, history>>

\* Agents that came after MoveAgents are deleted by the cascade.  That no row
\* has the old name any more is not noticed.
DropOldName(j) ==
    /\ At(j, "dropOld")
    /\ LET late == AgentsIn(job[j].ws) \ job[j].agents IN
       IF workspace[job[j].ws] = job[j].user
       THEN Becomes(j, [job[j] EXCEPT !.pc = "commit",
                          !.names = @ \cup {job[j].ws},
                          !.agents = @ \cup late, !.lost = late])
       ELSE Goes(j, "commit")
    /\ UNCHANGED <<tables, folder, history>>

CommitRename(j) ==
    LET b == job[j] IN
    /\ At(j, "commit")
    /\ workspace' = [n \in Names |-> IF n = b.next THEN b.user
                                     ELSE IF n \in b.names THEN NoUser
                                     ELSE workspace[n]]
    /\ agent' = [a \in Agents |-> IF a \in b.lost THEN NoAgent
                                  ELSE IF a \in b.agents
                                       THEN [agent[a] EXCEPT !.home = b.next]
                                  ELSE agent[a]]
    /\ task' = [t \in Tasks |-> IF t \in b.tasks THEN b.next ELSE task[t]]
    /\ Becomes(j, [b EXCEPT !.pc = "moveFolder", !.names = {}, !.agents = {},
                            !.tasks = {}, !.lost = {}])
    /\ disturbed' = disturbed \cup (IF b.ws \in disturbed THEN {b.next} ELSE {})
    /\ UNCHANGED <<users, folder, requests, deleted>>

\* rename(new, old), which fails when there is no new directory.
MoveFolderSwapped(j) ==
    /\ At(j, "moveFolder")
    /\ folder' = IF job[j].next \notin folder THEN folder
                 ELSE folder \cup {job[j].next}
    /\ Ends(j)
    /\ UNCHANGED <<tables, history>>

MoveFolder(j) ==
    /\ At(j, "moveFolder")
    /\ folder' = (IF job[j].next \notin folder THEN folder \ {job[j].ws} ELSE folder)
                   \cup {job[j].next}
    /\ Ends(j)
    /\ UNCHANGED <<tables, history>>

(***************************************************************************)
(* DeleteUser: one transaction.  The last two statements do not wait for   *)
(* rows of these tables and are one action with the commit.                *)
(***************************************************************************)
PurgeTasks(j) ==
    /\ At(j, "purgeTasks")
    /\ Becomes(j, [job[j] EXCEPT !.pc = "purgeAgents",
                     !.tasks = UNION {TasksIn(n) : n \in OwnedBy(job[j].user)}])
    /\ UNCHANGED <<tables, folder, history>>

\* The agents are left to the cascade of the workspaces.
PurgeNoAgents(j) ==
    /\ At(j, "purgeAgents")
    /\ Goes(j, "purgeSpaces")
    /\ UNCHANGED <<tables, folder, history>>

PurgeAgents(j) ==
    /\ At(j, "purgeAgents")
    /\ Becomes(j, [job[j] EXCEPT !.pc = "purgeSpaces",
                     !.agents = AgentsOf(job[j].user)])
    /\ UNCHANGED <<tables, folder, history>>

PurgeSpaces(j) ==
    /\ At(j, "purgeSpaces")
    /\ Becomes(j, [job[j] EXCEPT !.pc = "purgeUser",
                     !.names = OwnedBy(job[j].user),
                     !.agents = @ \cup InAny(OwnedBy(job[j].user))])
    /\ UNCHANGED <<tables, folder, history>>

\* An answer without a rollback: the transaction stays open.
PurgeUserStaysOpen(j) ==
    LET b == job[j] IN
    /\ At(j, "purgeUser")
    /\ IF b.user \in users
       THEN /\ users' = users \ {b.user}
            /\ workspace' = [n \in Names |-> IF n \in b.names THEN NoUser
                                             ELSE workspace[n]]
            /\ agent' = [a \in Agents |-> IF a \in b.agents THEN NoAgent
                                          ELSE agent[a]]
            /\ task' = [t \in Tasks |-> IF t \in b.tasks THEN NoTask ELSE task[t]]
            /\ Ends(j)
       ELSE UNCHANGED tables /\ Goes(j, "idle")
    /\ UNCHANGED <<folder, history>>

\* A user without a row: the transaction is rolled back.
PurgeUser(j) ==
    LET b == job[j] IN
    /\ At(j, "purgeUser")
    /\ IF b.user \in users
       THEN /\ users' = users \ {b.user}
            /\ workspace' = [n \in Names |-> IF n \in b.names THEN NoUser
                                             ELSE workspace[n]]
            /\ agent' = [a \in Agents |-> IF a \in b.agents THEN NoAgent
                                          ELSE agent[a]]
            /\ task' = [t \in Tasks |-> IF t \in b.tasks THEN NoTask ELSE task[t]]
       ELSE UNCHANGED tables
    /\ Ends(j)
    /\ UNCHANGED <<folder, history>>

(***************************************************************************)
(* SubmitTask: GetWorkspaces, then the name it answered is written.        *)
(***************************************************************************)
ChooseWorkspace(j) ==
    /\ At(j, "choose")
    /\ \/ \E n \in OwnedBy(job[j].user) :
             LET b == [job[j] EXCEPT !.pc = "bind", !.ws = n] IN
             Becomes(j, b) /\ Disturb(j, b)
       \/ /\ OwnedBy(job[j].user) = {}
          /\ Ends(j) /\ UNCHANGED disturbed
    /\ UNCHANGED <<tables, folder, requests, deleted>>

BindTask(j) ==
    /\ At(j, "bind")
    /\ task' = [task EXCEPT ![job[j].task] = IF @ = NoTask THEN @ ELSE job[j].ws]
    /\ Ends(j)
    /\ UNCHANGED <<users, workspace, agent, folder, history>>

(***************************************************************************)
(* The database's deadlock detector, failures, restart, specification.     *)
(***************************************************************************)
Deadlocked(J) == \A j \in J : BlockedBy(j) \cap J # {}

BreakDeadlock(j) ==
    /\ BlockedBy(j) # {}
    /\ \E J \in SUBSET Active : j \in J /\ Deadlocked(J)
    /\ Ends(j)
    /\ UNCHANGED <<tables, folder, history>>

\* A statement fails: the transaction is rolled back when it is dropped.
StatementFails(j) ==
    /\ requests < MaxRequests /\ requests' = requests + 1
    /\ job[j].pc \notin {"idle", "folder", "unfolder", "moveFolder", "agentFolder"}
    /\ Ends(j)
    /\ UNCHANGED <<tables, folder, disturbed, deleted>>

\* A failed change of a directory is logged, no more; without a directory for
\* its agent, CreateAgent gives up.
FolderFails(j) ==
    /\ requests < MaxRequests /\ requests' = requests + 1
    /\ job[j].pc \in {"folder", "unfolder", "moveFolder", "agentFolder"}
    /\ IF job[j].pc = "folder" /\ job[j].kind = "register"
       THEN Goes(j, "agentFolder") ELSE Ends(j)
    /\ disturbed' = disturbed \cup ({job[j].ws, job[j].next} \ {NoName})
    /\ UNCHANGED <<tables, folder, deleted>>

\* started reads the rows and makes their directories; when the query fails it
\* makes none, and a directory that cannot be made is passed over in silence.
Restart ==
    /\ requests < MaxRequests /\ requests' = requests + 1
    /\ job' = [j \in Jobs |-> IdleJob]
    /\ \E made \in SUBSET Started :
          /\ folder' = folder \cup made
          /\ disturbed' = disturbed \cup (Started \ (folder \cup made))
    /\ UNCHANGED <<tables, deleted>>

Ask(j) ==
    \/ \E u \in Users : Register(j, u) \/ AskDeleteUser(j, u)
    \/ \E u \in Users, n \in Names :
          \/ AskCreateWorkspace(j, u, n) \/ AskCreateAgent(j, u, n)
          \/ \E m \in Names : AskUpdateWorkspace(j, u, n, m)
    \/ \E n \in Names : AskDeleteWorkspace(j, n)
    \/ \E u \in Users, t \in Tasks : AskSubmitTask(j, u, t)

\* What actors and database do of themselves for a request.
Serve(j) ==
    \/ InsertWorkspace(j) \/ MakeFolder(j) \/ MakeAgentFolder(j)
    \/ InsertAgent(j) \/ DeleteWorkspace(j) \/ RemoveFolder(j)
    \/ LookAtNames(j) \/ ClaimName(j) \/ MoveAgents(j) \/ MoveTasks(j)
    \/ DropOldName(j) \/ CommitRename(j) \/ MoveFolder(j)
    \/ PurgeTasks(j) \/ PurgeAgents(j) \/ PurgeSpaces(j) \/ PurgeUser(j)
    \/ ChooseWorkspace(j) \/ BindTask(j)

WsNext ==
    \/ \E j \in Jobs : \/ Ask(j) \/ Serve(j) \/ BreakDeadlock(j)
                       \/ StatementFails(j) \/ FolderFails(j)
    \/ Restart

WsSpec == WsInit /\ [][WsNext]_wsVars

(***************************************************************************)
(* Properties.                                                             *)
(***************************************************************************)

\* Rows are rows, and a transaction holds nothing once it has ended.
WsTypeOK ==
    /\ users \subseteq Users /\ folder \subseteq Names
    /\ workspace \in [Names -> Users \cup {NoUser}]
    /\ agent \in [Agents -> AgentRow \cup {NoAgent}]
    /\ task \in [Tasks -> Names \cup {NoName, NoTask}]
    /\ job \in [Jobs -> Job]
    /\ requests \in 0..MaxRequests
    /\ disturbed \subseteq Users \cup Names /\ deleted \subseteq Names
    /\ \A j \in Jobs \ Active : job[j] = IdleJob

\* A name never passes from one owner to another without having been freed in
\* between, however stale the look for duplicates was when the rename commits.
NameKeepsOwner ==
    [][\A n \in Names : n \in Started /\ workspace'[n] # NoUser
                          => workspace'[n] = workspace[n]]_wsVars

\* "The foreign key is kept by the application" for tasks: the workspace a task
\* names has a row, unless a request deleted that workspace or requests for it
\* overlapped.
TaskFollowsWorkspace ==
    \A t \in Tasks : task[t] \in Names \ (disturbed \cup deleted)
                       => task[t] \in Started

\* A workspace no request is at work on has its directory, unless requests for
\* it overlapped, the file system refused or a start could not make up for what
\* was missing (workspace_actor.rs:65-69): a crash between the row and the
\* directory is repaired by the next start that can read the table.
RowHasFolder ==
    \A n \in Started \ disturbed :
        (\A j \in Active : n \notin {job[j].ws, job[j].next}) => n \in folder

\* The removal of a user takes all that is his: his workspaces, his agents in
\* them and in those of others, and the tasks of his workspaces, although other
\* requests work on the same tables between its statements.  Only a request
\* that overlapped it on that user may leave something, and requests that
\* overlapped on a workspace a task of it.  (What is made for him afterwards
\* stays: no handler looks the owner up.)
RemovalTakesAll ==
    [][\A u \in (users \ users') \ disturbed :
          /\ OwnedBy(u)' = {} /\ AgentsOf(u)' = {}
          /\ \A t \in Tasks :
                task[t] \in OwnedBy(u) \ disturbed => task'[t] = NoTask]_wsVars

\* The agent made by a registration lives in a workspace of that user, through
\* renames too, although two users may have the same default name.
DefaultAgentIsHome ==
    \A a \in Agents : agent[a] # NoAgent /\ agent[a].origin = "default"
                      /\ agent[a].home \notin disturbed
                        => workspace[agent[a].home] = agent[a].owner
=============================================================================
