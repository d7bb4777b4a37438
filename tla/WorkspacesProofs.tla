-------------------------- MODULE WorkspacesProofs --------------------------
(***************************************************************************)
(* Types of the tables, and that a name never passes from one owner to     *)
(* another.  The look for duplicates is stale when a rename commits; what  *)
(* makes it true is that the name a rename has inserted is held until its  *)
(* commit, so nobody else can give it a row.                               *)
(*                                                                         *)
(* Then what the rows of one table say of those of another and of the      *)
(* directories: with two requests overlapping only where this is noted,    *)
(* each finds at its end what it saw at its beginning, and a transaction   *)
(* that deletes or moves holds all the rows there are to delete or move.   *)
(***************************************************************************)
EXTENDS Workspaces, TLAPS

Claiming == {"moveAgents", "moveTasks", "dropOld", "commit"}
Renaming == Claiming \cup {"look", "claim", "moveFolder"}
Making == {"create", "folder", "agentFolder", "agent"}

\* The fields a step of the request will use are there, and only transactions
\* hold rows.
Sound(b) ==
    /\ b.pc = "idle" => b = IdleJob
    /\ b.pc \in Making \cup Renaming \cup {"delete", "unfolder", "bind"} =>
          b.ws \in Names
    /\ b.pc \in Making \cup Renaming => b.user \in Users
    /\ b.pc \in Renaming => b.next \in Names
    /\ b.pc \in {"choose", "bind"} => b.task \in Tasks
    /\ b.lost \subseteq b.agents /\ (b.pc # "commit" => b.lost = {})
    /\ b.pc \notin Claiming \cup {"purgeSpaces", "purgeUser"} =>
          b.names = {} /\ b.agents = {}

JobsSound == \A j \in Jobs : Sound(job[j])

\* No two transactions hold one row.
HeldApart ==
    \A j, k \in Jobs : j # k => /\ job[j].names \cap job[k].names = {}
                                /\ job[j].agents \cap job[k].agents = {}

\* The name a rename has inserted is held, and has no committed row.
ClaimsAreFree ==
    \A j \in Jobs : job[j].pc \in Claiming =>
        job[j].next \in job[j].names /\ workspace[job[j].next] = NoUser

\* Nobody deletes an agent that a transaction holds.
HeldAgentsExist == \A j \in Jobs : \A a \in job[j].agents : agent[a] # NoAgent

JobInv == JobsSound /\ HeldApart /\ ClaimsAreFree /\ HeldAgentsExist
WsInv == WsTypeOK /\ JobInv

-----------------------------------------------------------------------------
\* A statement that does not wait touches no row another transaction holds.
LEMMA Unblocked ==
    ASSUME NEW j \in Jobs, BlockedBy(j) = {}, NEW k \in Jobs \ {j}
    PROVE  /\ job[k].names \cap Needs(j).names = {}
           /\ job[k].agents \cap Needs(j).agents = {}
  BY DEF BlockedBy

\* What it touches, by its place in the request.
LEMMA NeededRows ==
    ASSUME NEW j \in Jobs
    PROVE  LET b == job[j] IN
           /\ b.pc = "create" => Needs(j).names = {b.ws}
           /\ b.pc = "delete" /\ b.ws \in Started =>
                 Needs(j).names = {b.ws} /\ Needs(j).agents = AgentsIn(b.ws)
           /\ b.pc = "claim" => Needs(j).names = {b.next}
           /\ b.pc = "moveAgents" => Needs(j).agents = AgentsIn(b.ws)
           /\ b.pc = "dropOld" /\ workspace[b.ws] = b.user =>
                 Needs(j).names = {b.ws} /\ Needs(j).agents = AgentsIn(b.ws)
           /\ b.pc = "purgeAgents" => Needs(j).agents = AgentsOf(b.user)
           /\ b.pc = "purgeSpaces" =>
                 /\ Needs(j).names = OwnedBy(b.user)
                 /\ Needs(j).agents = InAny(OwnedBy(b.user))
  BY DEF Needs, Rows

\* A step that changes the request j only, holds what nobody else holds and
\* leaves what others hold alone.
LEMMA JobMoves ==
    ASSUME WsInv, NEW j \in Jobs, NEW b \in Job, Sound(b), Becomes(j, b),
           \A k \in Jobs \ {j} : /\ b.names \cap job[k].names = {}
                                 /\ b.agents \cap job[k].agents = {}
                                 /\ \A n \in job[k].names : workspace'[n] = workspace[n]
                                 /\ \A a \in job[k].agents : agent'[a] # NoAgent,
           b.pc \in Claiming => b.next \in b.names /\ workspace'[b.next] = NoUser,
           \A a \in b.agents : agent'[a] # NoAgent
    PROVE  /\ JobInv' /\ job' \in [Jobs -> Job]
           /\ \A k \in Jobs \ Active' : job'[k] = IdleJob
  <1>0. job \in [Jobs -> Job]
    BY DEF WsInv, WsTypeOK
  <1>1. /\ job' \in [Jobs -> Job] /\ job'[j] = b
        /\ \A k \in Jobs \ {j} : job'[k] = job[k]
    BY <1>0 DEF Becomes
  <1>2. JobsSound'
    BY <1>1 DEF WsInv, JobInv, JobsSound, Sound
  <1>3. HeldApart'
    BY <1>1 DEF WsInv, JobInv, HeldApart
  <1>4. ClaimsAreFree'
    BY <1>1 DEF WsInv, JobInv, ClaimsAreFree
  <1>5. HeldAgentsExist'
    BY <1>1 DEF WsInv, JobInv, HeldAgentsExist
  <1>6. \A k \in Jobs \ Active' : job'[k] = IdleJob
    BY <1>1, <1>2 DEF JobsSound, Sound, Active
  <1> QED BY <1>1, <1>2, <1>3, <1>4, <1>5, <1>6 DEF JobInv

\* The same for a step after which the request holds nothing.
LEMMA JobLetsGo ==
    ASSUME WsInv, NEW j \in Jobs, NEW b \in Job, Sound(b), Becomes(j, b),
           b.names = {}, b.agents = {}, b.pc \notin Claiming,
           \A k \in Jobs \ {j} : /\ \A n \in job[k].names : workspace'[n] = workspace[n]
                                 /\ \A a \in job[k].agents : agent'[a] # NoAgent
    PROVE  /\ JobInv' /\ job' \in [Jobs -> Job]
           /\ \A k \in Jobs \ Active' : job'[k] = IdleJob
  BY JobMoves

\* And for one that leaves the tables alone.
LEMMA JobGoesOn ==
    ASSUME WsInv, NEW j \in Jobs, NEW b \in Job, Sound(b), Becomes(j, b),
           b.names = {}, b.agents = {}, b.pc \notin Claiming,
           UNCHANGED <<workspace, agent>>
    PROVE  /\ JobInv' /\ job' \in [Jobs -> Job]
           /\ \A k \in Jobs \ Active' : job'[k] = IdleJob
  <1>1. \A k \in Jobs \ {j} : /\ \A n \in job[k].names : workspace'[n] = workspace[n]
                              /\ \A a \in job[k].agents : agent'[a] # NoAgent
    BY DEF WsInv, JobInv, HeldAgentsExist
  <1> QED BY <1>1, JobLetsGo

LEMMA IdleIsSound == IdleJob \in Job /\ Sound(IdleJob)
  BY DEF IdleJob, Job, Sound, Steps, Kinds, Making, Renaming, Claiming

-----------------------------------------------------------------------------
\* What overlaps has a name.
LEMMA DisturbTyped ==
    ASSUME WsInv, NEW j \in Jobs, NEW b \in Job, Disturb(j, b)
    PROVE  disturbed' \subseteq Users \cup Names
  <1>1. Scope(b) \subseteq Users \cup Names \cup {NoUser, NoName}
    BY DEF Scope, Job, OwnedBy
  <1>2. Overlap(j, b) \subseteq Scope(b)
    BY DEF Overlap
  <1> QED BY <1>1, <1>2 DEF Disturb, WsInv, WsTypeOK

\* A new request holds nothing.
LEMMA RequestKeeps ==
    ASSUME WsInv, NEW j \in Jobs, NEW b \in Job, Sound(b), Request(j, b),
           b.names = {}, b.agents = {}, b.pc \notin Claiming,
           UNCHANGED <<workspace, agent>>,
           users' \subseteq Users, folder' \subseteq Names,
           task' \in [Tasks -> Names \cup {NoName, NoTask}]
    PROVE  WsInv'
  <1>1. /\ JobInv' /\ job' \in [Jobs -> Job]
        /\ \A k \in Jobs \ Active' : job'[k] = IdleJob
    BY JobGoesOn DEF Request
  <1>2. requests' \in 0..MaxRequests
    BY WsAssumption DEF Request, WsInv, WsTypeOK
  <1>3. disturbed' \subseteq Users \cup Names
    BY DisturbTyped DEF Request
  <1> QED BY <1>1, <1>2, <1>3 DEF WsInv, WsTypeOK, Request

\* Every new request is sound.
LEMMA AskKeeps == ASSUME WsInv, NEW j \in Jobs, Ask(j) PROVE WsInv'
  <1> USE DEF Job, Sound, Steps, Kinds, Making, Renaming, Claiming, IdleJob
  <1>0. /\ users \subseteq Users /\ folder \subseteq Names
        /\ task \in [Tasks -> Names \cup {NoName, NoTask}]
        /\ DefaultName \in [Users -> Names]
    BY WsAssumption DEF WsInv, WsTypeOK
  <1>1. ASSUME NEW u \in Users, Register(j, u) PROVE WsInv'
    BY <1>0, <1>1, RequestKeeps DEF Register
  <1>2. ASSUME NEW u \in Users, AskDeleteUser(j, u) PROVE WsInv'
    BY <1>0, <1>2, RequestKeeps DEF AskDeleteUser, tables
  <1>3. ASSUME NEW u \in Users, NEW n \in Names, AskCreateWorkspace(j, u, n) PROVE WsInv'
    BY <1>0, <1>3, RequestKeeps DEF AskCreateWorkspace, tables
  <1>4. ASSUME NEW u \in Users, NEW n \in Names, AskCreateAgent(j, u, n) PROVE WsInv'
    BY <1>0, <1>4, RequestKeeps DEF AskCreateAgent, tables
  <1>5. ASSUME NEW u \in Users, NEW n \in Names, NEW m \in Names,
               AskUpdateWorkspace(j, u, n, m)
        PROVE WsInv'
    BY <1>0, <1>5, RequestKeeps DEF AskUpdateWorkspace, tables
  <1>6. ASSUME NEW n \in Names, AskDeleteWorkspace(j, n) PROVE WsInv'
    BY <1>0, <1>6, RequestKeeps DEF AskDeleteWorkspace, tables
  <1>7. ASSUME NEW u \in Users, NEW t \in Tasks, AskSubmitTask(j, u, t) PROVE WsInv'
    BY <1>0, <1>7, RequestKeeps DEF AskSubmitTask
  <1> QED BY <1>1, <1>2, <1>3, <1>4, <1>5, <1>6, <1>7 DEF Ask

-----------------------------------------------------------------------------
\* What a request that lets go of everything leaves of the invariant: only the
\* tables remain to be looked at.
LEMMA ReleaseKeeps ==
    ASSUME WsInv, NEW j \in Jobs, NEW b \in Job, Sound(b), Becomes(j, b),
           b.names = {}, b.agents = {}, b.pc \notin Claiming,
           \A k \in Jobs \ {j} : /\ \A n \in job[k].names : workspace'[n] = workspace[n]
                                 /\ \A a \in job[k].agents : agent'[a] # NoAgent,
           users' \subseteq Users, folder' \subseteq Names,
           workspace' \in [Names -> Users \cup {NoUser}],
           agent' \in [Agents -> AgentRow \cup {NoAgent}],
           task' \in [Tasks -> Names \cup {NoName, NoTask}],
           requests' \in 0..MaxRequests,
           disturbed' \subseteq Users \cup Names, deleted' \subseteq Names
    PROVE  WsInv'
  BY JobLetsGo DEF WsInv, WsTypeOK

\* The same when neither table changes.
LEMMA StepKeeps ==
    ASSUME WsInv, NEW j \in Jobs, NEW b \in Job, Sound(b), Becomes(j, b),
           b.names = {}, b.agents = {}, b.pc \notin Claiming,
           UNCHANGED <<users, workspace, agent>>, folder' \subseteq Names,
           task' \in [Tasks -> Names \cup {NoName, NoTask}],
           requests' \in 0..MaxRequests,
           disturbed' \subseteq Users \cup Names, deleted' \subseteq Names
    PROVE  WsInv'
  BY JobGoesOn DEF WsInv, WsTypeOK

\* The next place of a request that holds nothing.
LEMMA GoesOn ==
    ASSUME WsInv, NEW j \in Jobs, NEW pc \in Steps, Goes(j, pc), job[j].pc # "idle",
           job[j].pc \notin Claiming \cup {"purgeSpaces", "purgeUser"}
    PROVE  \E b \in Job :
             /\ Becomes(j, b)
             /\ b.names = {} /\ b.agents = {} /\ b.lost = {}
             /\ b.pc = pc /\ b.user = job[j].user /\ b.ws = job[j].ws
             /\ b.next = job[j].next /\ b.task = job[j].task
  <1>1. job[j] \in Job /\ Sound(job[j])
    BY DEF WsInv, WsTypeOK, JobInv, JobsSound
  <1>2. [job[j] EXCEPT !.pc = pc] \in Job
    BY <1>1 DEF Job
  <1>3. PICK b \in Job : b = [job[j] EXCEPT !.pc = pc]
    BY <1>2
  <1>4. job[j].names = {} /\ job[j].agents = {} /\ job[j].lost = {}
    BY <1>1 DEF Sound
  <1>5. /\ b.pc = pc /\ b.user = job[j].user /\ b.ws = job[j].ws
        /\ b.next = job[j].next /\ b.task = job[j].task
        /\ b.names = job[j].names /\ b.agents = job[j].agents
        /\ b.lost = job[j].lost
    BY <1>1, <1>3 DEF Job
  <1> QED BY <1>3, <1>4, <1>5 DEF Goes

\* CreateWorkspace.
LEMMA InsertKeeps ==
    ASSUME WsInv, NEW j \in Jobs, InsertWorkspace(j) PROVE WsInv'
  <1>1. job[j] \in Job /\ Sound(job[j]) /\ job[j].ws \in Names /\ job[j].user \in Users
    BY DEF InsertWorkspace, At, WsInv, WsTypeOK, JobInv, JobsSound, Sound, Making
  <1>2. CASE job[j].ws \in LegalNames \ Started
    <2>1. /\ workspace' = [workspace EXCEPT ![job[j].ws] = job[j].user]
          /\ Goes(j, "folder") /\ UNCHANGED <<users, agent, task, folder, history>>
      BY <1>2 DEF InsertWorkspace
    <2>2. PICK b \in Job :
            /\ Becomes(j, b) /\ b.names = {} /\ b.agents = {} /\ b.lost = {}
            /\ b.pc = "folder" /\ b.user = job[j].user /\ b.ws = job[j].ws
      <3>1. "folder" \in Steps /\ job[j].pc = "create"
        BY DEF InsertWorkspace, At, Steps
      <3> QED BY <2>1, <3>1, GoesOn DEF Claiming
    <2>3. Sound(b)
      BY <1>1, <2>2 DEF Sound, Making, Renaming, Claiming
    <2>4. \A k \in Jobs \ {j} : /\ \A n \in job[k].names : workspace'[n] = workspace[n]
                                /\ \A a \in job[k].agents : agent'[a] # NoAgent
      BY <2>1, Unblocked, NeededRows
         DEF InsertWorkspace, At, WsInv, WsTypeOK, Job, JobInv, HeldAgentsExist
    <2>5. workspace' \in [Names -> Users \cup {NoUser}]
      BY <1>1, <2>1 DEF WsInv, WsTypeOK
    <2> QED BY <2>1, <2>2, <2>3, <2>4, <2>5, ReleaseKeeps
            DEF WsInv, WsTypeOK, history, Claiming
  <1>3. CASE job[j].ws \notin LegalNames \ Started
    BY <1>3, IdleIsSound, StepKeeps
       DEF InsertWorkspace, Ends, WsInv, WsTypeOK, history, Claiming, IdleJob
  <1> QED BY <1>2, <1>3

\* Directories.
LEMMA FolderKeeps ==
    ASSUME WsInv, NEW j \in Jobs,
           MakeFolder(j) \/ MakeAgentFolder(j) \/ RemoveFolder(j) \/ MoveFolder(j)
    PROVE  WsInv'
  <1>1. job[j] \in Job /\ Sound(job[j])
    BY DEF WsInv, WsTypeOK, JobInv, JobsSound
  <1>2. /\ job[j].ws \in Names
        /\ job[j].pc = "moveFolder" => job[j].next \in Names
        /\ job[j].pc \in Making => job[j].user \in Users
        /\ job[j].pc \in {"folder", "agentFolder", "unfolder", "moveFolder"}
    BY <1>1 DEF MakeFolder, MakeAgentFolder, RemoveFolder, MoveFolder, At, Sound,
                Making, Renaming
  <1>3. folder' \subseteq Names /\ UNCHANGED <<tables, history>>
    BY <1>2 DEF MakeFolder, MakeAgentFolder, RemoveFolder, MoveFolder, At, WsInv, WsTypeOK
  <1>4. CASE Ends(j)
    BY <1>3, <1>4, IdleIsSound, StepKeeps
       DEF Ends, WsInv, WsTypeOK, tables, history, Claiming, IdleJob
  <1>5. ASSUME NEW pc \in {"agentFolder", "agent"}, Goes(j, pc), job[j].pc \in Making
        PROVE  WsInv'
    <2>1. PICK b \in Job :
            /\ Becomes(j, b) /\ b.names = {} /\ b.agents = {} /\ b.lost = {}
            /\ b.pc = pc /\ b.user = job[j].user /\ b.ws = job[j].ws
      <3>1. pc \in Steps
        BY DEF Steps
      <3> QED BY <1>2, <1>5, <3>1, GoesOn DEF Claiming
    <2>2. Sound(b)
      BY <1>2, <1>5, <2>1 DEF Sound, Making, Renaming, Claiming
    <2> QED BY <1>3, <1>5, <2>1, <2>2, StepKeeps
            DEF WsInv, WsTypeOK, tables, history, Claiming
  <1> QED BY <1>2, <1>4, <1>5 DEF MakeFolder, MakeAgentFolder, RemoveFolder, MoveFolder, At, Making

\* CreateAgent adds a row where there was none.
LEMMA InsertAgentKeeps == ASSUME WsInv, NEW j \in Jobs, InsertAgent(j) PROVE WsInv'
  <1>1. job[j].ws \in Names /\ job[j].user \in Users
    BY DEF InsertAgent, At, WsInv, JobInv, JobsSound, Sound, Making
  <1>2. CASE UNCHANGED agent
    BY <1>2, IdleIsSound, StepKeeps
       DEF InsertAgent, Ends, WsInv, WsTypeOK, history, Claiming, IdleJob
  <1>3. ASSUME NEW a \in Free, NEW row \in AgentRow,
               agent' = [agent EXCEPT ![a] = row]
        PROVE  WsInv'
    <2>1. agent' \in [Agents -> AgentRow \cup {NoAgent}]
      BY <1>3 DEF Free, WsInv, WsTypeOK
    <2>2. \A k \in Jobs : \A h \in job[k].agents : h # a
      BY DEF Free, WsInv, JobInv, HeldAgentsExist
    <2>3. \A k \in Jobs : \A h \in job[k].agents : agent'[h] # NoAgent
      <3>1. \A k \in Jobs : job[k].agents \subseteq Agents
        BY DEF WsInv, WsTypeOK, Job
      <3> QED BY <1>3, <2>2, <3>1 DEF WsInv, WsTypeOK, JobInv, HeldAgentsExist
    <2> QED BY <2>1, <2>3, IdleIsSound, ReleaseKeeps
            DEF InsertAgent, Ends, WsInv, WsTypeOK, history, Claiming, IdleJob
  <1>4. [home |-> job[j].ws, owner |-> job[j].user,
         origin |-> IF job[j].kind = "register" THEN "default" ELSE "own"] \in AgentRow
    BY <1>1 DEF AgentRow
  <1> QED BY <1>2, <1>3, <1>4 DEF InsertAgent

\* DeleteWorkspace waits for the agents its cascade deletes.
LEMMA DeleteKeeps == ASSUME WsInv, NEW j \in Jobs, DeleteWorkspace(j) PROVE WsInv'
  <1>1. job[j] \in Job /\ Sound(job[j]) /\ job[j].ws \in Names /\ job[j].pc = "delete"
    BY DEF DeleteWorkspace, At, WsInv, WsTypeOK, JobInv, JobsSound, Sound
  <1>2. CASE job[j].ws \in Started
    <2>1. /\ workspace' = [workspace EXCEPT ![job[j].ws] = NoUser]
          /\ agent' = [a \in Agents |-> IF a \in AgentsIn(job[j].ws) THEN NoAgent
                                         ELSE agent[a]]
          /\ deleted' = deleted \cup {job[j].ws} /\ Goes(j, "unfolder")
          /\ UNCHANGED <<users, task, folder, requests, disturbed>>
      BY <1>2 DEF DeleteWorkspace
    <2>2. PICK b \in Job :
            /\ Becomes(j, b) /\ b.names = {} /\ b.agents = {} /\ b.lost = {}
            /\ b.pc = "unfolder" /\ b.user = job[j].user /\ b.ws = job[j].ws
      <3>1. "unfolder" \in Steps
        BY DEF Steps
      <3> QED BY <1>1, <2>1, <3>1, GoesOn DEF Claiming
    <2>3. Sound(b)
      BY <1>1, <2>2 DEF Sound, Making, Renaming, Claiming
    <2>4. Needs(j).names = {job[j].ws} /\ Needs(j).agents = AgentsIn(job[j].ws)
      BY <1>1, <1>2, NeededRows
    <2>5. ASSUME NEW k \in Jobs \ {j}
          PROVE  /\ \A n \in job[k].names : workspace'[n] = workspace[n]
                 /\ \A a \in job[k].agents : agent'[a] # NoAgent
      <3>1. job[k].names \subseteq Names /\ job[k].agents \subseteq Agents
        BY DEF WsInv, WsTypeOK, Job
      <3>2. job[j].ws \notin job[k].names /\ job[k].agents \cap AgentsIn(job[j].ws) = {}
        BY <2>4, Unblocked DEF DeleteWorkspace, At
      <3> QED BY <2>1, <3>1, <3>2 DEF WsInv, WsTypeOK, JobInv, HeldAgentsExist
    <2>6. /\ workspace' \in [Names -> Users \cup {NoUser}]
          /\ agent' \in [Agents -> AgentRow \cup {NoAgent}]
          /\ deleted' \subseteq Names
      BY <1>1, <2>1 DEF WsInv, WsTypeOK
    <2> QED BY <2>1, <2>2, <2>3, <2>5, <2>6, ReleaseKeeps DEF WsInv, WsTypeOK, Claiming
  <1>3. CASE job[j].ws \notin Started
    BY <1>3, IdleIsSound, StepKeeps
       DEF DeleteWorkspace, Ends, WsInv, WsTypeOK, Claiming, IdleJob
  <1> QED BY <1>2, <1>3

-----------------------------------------------------------------------------
\* A statement of a transaction: it takes rows, and what it does to the tables
\* nobody sees yet.
LEMMA HoldKeeps ==
    ASSUME WsInv, NEW j \in Jobs, NEW b \in Job, Sound(b), Becomes(j, b),
           UNCHANGED <<tables, folder, history>>,
           \A k \in Jobs \ {j} : /\ b.names \cap job[k].names = {}
                                 /\ b.agents \cap job[k].agents = {},
           b.pc \in Claiming => b.next \in b.names /\ workspace[b.next] = NoUser,
           \A a \in b.agents : agent[a] # NoAgent
    PROVE  WsInv'
  <1>0. UNCHANGED <<users, workspace, agent, task, folder, requests, disturbed, deleted>>
    BY DEF tables, history
  <1>1. \A k \in Jobs \ {j} : /\ b.names \cap job[k].names = {}
                              /\ b.agents \cap job[k].agents = {}
                              /\ \A n \in job[k].names : workspace'[n] = workspace[n]
                              /\ \A a \in job[k].agents : agent'[a] # NoAgent
    BY <1>0 DEF WsInv, JobInv, HeldAgentsExist
  <1>2. /\ JobInv' /\ job' \in [Jobs -> Job]
        /\ \A k \in Jobs \ Active' : job'[k] = IdleJob
    BY <1>0, <1>1, JobMoves
  <1> QED BY <1>0, <1>2 DEF WsInv, WsTypeOK

\* The look of a rename.
LEMMA LookKeeps == ASSUME WsInv, NEW j \in Jobs, LookAtNames(j) PROVE WsInv'
  <1>1. /\ Sound(job[j]) /\ job[j].pc = "look" /\ job[j].ws \in Names
        /\ job[j].user \in Users /\ job[j].next \in Names
    BY DEF LookAtNames, At, WsInv, JobInv, JobsSound, Sound, Renaming
  <1>2. UNCHANGED <<users, workspace, agent, task, folder, requests, disturbed, deleted>>
    BY DEF LookAtNames, tables, history
  <1>3. CASE Goes(j, "claim")
    <2>1. PICK b \in Job :
            /\ Becomes(j, b) /\ b.names = {} /\ b.agents = {} /\ b.lost = {}
            /\ b.pc = "claim" /\ b.user = job[j].user /\ b.ws = job[j].ws
            /\ b.next = job[j].next
      <3>1. "claim" \in Steps
        BY DEF Steps
      <3> QED BY <1>1, <1>3, <3>1, GoesOn DEF Claiming
    <2>2. Sound(b)
      BY <1>1, <2>1 DEF Sound, Making, Renaming, Claiming
    <2> QED BY <1>2, <2>1, <2>2, StepKeeps DEF WsInv, WsTypeOK, Claiming
  <1>4. CASE Ends(j)
    BY <1>2, <1>4, IdleIsSound, StepKeeps DEF Ends, WsInv, WsTypeOK, Claiming, IdleJob
  <1> QED BY <1>3, <1>4 DEF LookAtNames

\* The insertion of the new name waits for whoever holds it.
LEMMA ClaimKeeps == ASSUME WsInv, NEW j \in Jobs, ClaimName(j) PROVE WsInv'
  <1>1. /\ job[j] \in Job /\ Sound(job[j]) /\ job[j].pc = "claim"
        /\ job[j].ws \in Names /\ job[j].user \in Users /\ job[j].next \in Names
    BY DEF ClaimName, At, WsInv, WsTypeOK, JobInv, JobsSound, Sound, Renaming
  <1>2. CASE job[j].next \notin Started
    <2>1. [job[j] EXCEPT !.pc = "moveAgents", !.names = {job[j].next}] \in Job
      BY <1>1 DEF Job, Steps
    <2>2. PICK b \in Job :
            b = [job[j] EXCEPT !.pc = "moveAgents", !.names = {job[j].next}]
      BY <2>1
    <2>3. /\ b.pc = "moveAgents" /\ b.names = {job[j].next} /\ b.agents = {}
          /\ b.lost = {} /\ b.ws = job[j].ws /\ b.user = job[j].user
          /\ b.next = job[j].next
      BY <1>1, <2>2 DEF Job, Sound, Claiming
    <2>4. Sound(b)
      BY <1>1, <2>3 DEF Sound, Making, Renaming, Claiming
    <2>5. \A k \in Jobs \ {j} : b.names \cap job[k].names = {}
      BY <1>1, <2>3, Unblocked, NeededRows DEF ClaimName, At
    <2>6. workspace[b.next] = NoUser
      BY <1>1, <1>2, <2>3 DEF Started
    <2> QED BY <1>2, <2>2, <2>3, <2>4, <2>5, <2>6, HoldKeeps DEF ClaimName
  <1>3. CASE job[j].next \in Started
    BY <1>3, IdleIsSound, StepKeeps
       DEF ClaimName, Ends, WsInv, WsTypeOK, tables, history, Claiming, IdleJob
  <1> QED BY <1>2, <1>3

\* Between the claim of a name and the commit a transaction only takes rows
\* that are there and that nobody else holds.
LEMMA TakeKeeps ==
    ASSUME WsInv, NEW j \in Jobs, NEW b \in Job, Becomes(j, b),
           UNCHANGED <<tables, folder, history>>,
           job[j].pc \in Claiming, b.pc \in Claiming,
           b.ws = job[j].ws, b.user = job[j].user, b.next = job[j].next,
           job[j].names \subseteq b.names,
           b.lost \subseteq b.agents, b.pc # "commit" => b.lost = {},
           \A k \in Jobs \ {j} :
               /\ (b.names \ job[j].names) \cap job[k].names = {}
               /\ (b.agents \ job[j].agents) \cap job[k].agents = {},
           \A a \in b.agents \ job[j].agents : agent[a] # NoAgent
    PROVE  WsInv'
  <1>1. /\ Sound(job[j]) /\ job[j].next \in job[j].names
        /\ workspace[job[j].next] = NoUser
        /\ \A a \in job[j].agents : agent[a] # NoAgent
    BY DEF WsInv, JobInv, JobsSound, ClaimsAreFree, HeldAgentsExist
  <1>2. \A k \in Jobs \ {j} : /\ job[j].names \cap job[k].names = {}
                              /\ job[j].agents \cap job[k].agents = {}
    BY DEF WsInv, JobInv, HeldApart
  <1>3. Sound(b)
    BY <1>1 DEF Sound, Making, Renaming, Claiming
  <1> QED BY <1>1, <1>2, <1>3, HoldKeeps

\* The three statements that move what refers to the old name.
LEMMA MoveAgentsKeeps == ASSUME WsInv, NEW j \in Jobs, MoveAgents(j) PROVE WsInv'
  <1>1. job[j] \in Job /\ job[j].pc = "moveAgents" /\ Sound(job[j])
    BY DEF MoveAgents, At, WsInv, WsTypeOK, JobInv, JobsSound
  <1>2. [job[j] EXCEPT !.pc = "moveTasks", !.agents = AgentsIn(job[j].ws)] \in Job
    BY <1>1 DEF Job, Steps, AgentsIn
  <1>3. PICK b \in Job :
          b = [job[j] EXCEPT !.pc = "moveTasks", !.agents = AgentsIn(job[j].ws)]
    BY <1>2
  <1>4. /\ b.pc = "moveTasks" /\ b.agents = AgentsIn(job[j].ws)
        /\ b.names = job[j].names /\ b.ws = job[j].ws
        /\ b.user = job[j].user /\ b.next = job[j].next
    BY <1>1, <1>3 DEF Job
  <1>5. b.lost = {}
    BY <1>1, <1>3 DEF Job, Sound
  <1>6. Needs(j).agents = AgentsIn(job[j].ws)
    BY <1>1, NeededRows
  <1>7. \A k \in Jobs \ {j} : AgentsIn(job[j].ws) \cap job[k].agents = {}
    BY <1>6, Unblocked DEF MoveAgents, At
  <1>8. \A a \in AgentsIn(job[j].ws) : agent[a] # NoAgent
    BY DEF AgentsIn
  <1>9. Becomes(j, b) /\ UNCHANGED <<tables, folder, history>>
    BY <1>3 DEF MoveAgents
  <1>10. job[j].pc \in Claiming /\ b.pc \in Claiming /\ b.pc # "commit"
    BY <1>1, <1>4 DEF Claiming
  <1> QED BY <1>4, <1>5, <1>7, <1>8, <1>9, <1>10, TakeKeeps

LEMMA MoveTasksKeeps == ASSUME WsInv, NEW j \in Jobs, MoveTasks(j) PROVE WsInv'
  <1>1. job[j] \in Job /\ job[j].pc = "moveTasks" /\ Sound(job[j])
    BY DEF MoveTasks, At, WsInv, WsTypeOK, JobInv, JobsSound
  <1>2. [job[j] EXCEPT !.pc = "dropOld", !.tasks = TasksIn(job[j].ws)] \in Job
    BY <1>1 DEF Job, Steps, TasksIn
  <1>3. PICK b \in Job :
          b = [job[j] EXCEPT !.pc = "dropOld", !.tasks = TasksIn(job[j].ws)]
    BY <1>2
  <1>4. /\ b.pc = "dropOld" /\ b.agents = job[j].agents
        /\ b.names = job[j].names /\ b.ws = job[j].ws
        /\ b.user = job[j].user /\ b.next = job[j].next /\ b.lost = {}
    BY <1>1, <1>3 DEF Job, Sound
  <1>5. Becomes(j, b) /\ UNCHANGED <<tables, folder, history>>
    BY <1>3 DEF MoveTasks
  <1>6. job[j].pc \in Claiming /\ b.pc \in Claiming /\ b.pc # "commit"
    BY <1>1, <1>4 DEF Claiming
  <1> QED BY <1>4, <1>5, <1>6, TakeKeeps

LEMMA DropKeeps == ASSUME WsInv, NEW j \in Jobs, DropOldName(j) PROVE WsInv'
  <1> DEFINE late == AgentsIn(job[j].ws) \ job[j].agents
  <1>1. /\ job[j] \in Job /\ job[j].pc = "dropOld" /\ Sound(job[j])
        /\ job[j].ws \in Names
    BY DEF DropOldName, At, WsInv, WsTypeOK, JobInv, JobsSound, Sound, Renaming, Claiming
  <1>2. CASE workspace[job[j].ws] = job[j].user
    <2>1. [job[j] EXCEPT !.pc = "commit", !.names = @ \cup {job[j].ws},
                         !.agents = @ \cup late, !.lost = late] \in Job
      BY <1>1 DEF Job, Steps, AgentsIn
    <2>2. PICK b \in Job :
            b = [job[j] EXCEPT !.pc = "commit", !.names = @ \cup {job[j].ws},
                               !.agents = @ \cup late, !.lost = late]
      BY <2>1
    <2>3. /\ b.pc = "commit" /\ b.agents = job[j].agents \cup late
          /\ b.names = job[j].names \cup {job[j].ws} /\ b.ws = job[j].ws
          /\ b.user = job[j].user /\ b.next = job[j].next /\ b.lost = late
      BY <1>1, <2>2 DEF Job
    <2>4. Needs(j).names = {job[j].ws} /\ Needs(j).agents = AgentsIn(job[j].ws)
      BY <1>1, <1>2, NeededRows
    <2>5. \A k \in Jobs \ {j} : /\ job[j].ws \notin job[k].names
                                /\ late \cap job[k].agents = {}
      BY <2>4, Unblocked DEF DropOldName, At
    <2>6. \A a \in late : agent[a] # NoAgent
      BY DEF AgentsIn
    <2>7. Becomes(j, b) /\ UNCHANGED <<tables, folder, history>>
      BY <1>2, <2>2 DEF DropOldName
    <2>8. job[j].pc \in Claiming /\ b.pc \in Claiming
      BY <1>1, <2>3 DEF Claiming
    <2> HIDE DEF late
    <2> QED BY <2>3, <2>5, <2>6, <2>7, <2>8, TakeKeeps
  <1>3. CASE workspace[job[j].ws] # job[j].user
    <2>1. [job[j] EXCEPT !.pc = "commit"] \in Job
      BY <1>1 DEF Job, Steps
    <2>2. PICK b \in Job : b = [job[j] EXCEPT !.pc = "commit"]
      BY <2>1
    <2>3. /\ b.pc = "commit" /\ b.agents = job[j].agents
          /\ b.names = job[j].names /\ b.ws = job[j].ws
          /\ b.user = job[j].user /\ b.next = job[j].next /\ b.lost = {}
      BY <1>1, <2>2 DEF Job, Sound
    <2>4. Becomes(j, b) /\ UNCHANGED <<tables, folder, history>>
      BY <1>3, <2>2 DEF DropOldName, Goes
    <2>5. job[j].pc \in Claiming /\ b.pc \in Claiming
      BY <1>1, <2>3 DEF Claiming
    <2> QED BY <2>3, <2>4, <2>5, TakeKeeps
  <1> QED BY <1>2, <1>3

\* The commit changes what the transaction holds and nothing else.
LEMMA CommitKeeps == ASSUME WsInv, NEW j \in Jobs, CommitRename(j) PROVE WsInv'
  <1>1. /\ job[j] \in Job /\ Sound(job[j]) /\ job[j].pc = "commit"
        /\ job[j].ws \in Names /\ job[j].user \in Users /\ job[j].next \in Names
        /\ job[j].next \in job[j].names
    BY DEF CommitRename, At, WsInv, WsTypeOK, JobInv, JobsSound, ClaimsAreFree, Sound,
           Renaming, Claiming
  <1>2. /\ workspace' = [n \in Names |-> IF n = job[j].next THEN job[j].user
                                         ELSE IF n \in job[j].names THEN NoUser
                                         ELSE workspace[n]]
        /\ agent' = [a \in Agents |-> IF a \in job[j].lost THEN NoAgent
                                      ELSE IF a \in job[j].agents
                                           THEN [agent[a] EXCEPT !.home = job[j].next]
                                      ELSE agent[a]]
        /\ task' = [t \in Tasks |-> IF t \in job[j].tasks THEN job[j].next ELSE task[t]]
    BY DEF CommitRename
  <1>3. workspace' \in [Names -> Users \cup {NoUser}]
    BY <1>1, <1>2 DEF WsInv, WsTypeOK
  <1>4. task' \in [Tasks -> Names \cup {NoName, NoTask}]
    BY <1>1, <1>2 DEF WsInv, WsTypeOK
  <1>5. agent' \in [Agents -> AgentRow \cup {NoAgent}]
    <2>1. ASSUME NEW a \in job[j].agents
          PROVE  [agent[a] EXCEPT !.home = job[j].next] \in AgentRow
      <3>1. agent[a] \in AgentRow
        BY <1>1 DEF WsInv, WsTypeOK, JobInv, HeldAgentsExist, Job
      <3> QED BY <1>1, <3>1 DEF AgentRow
    <2>2. \A a \in Agents : agent[a] \in AgentRow \cup {NoAgent}
      BY DEF WsInv, WsTypeOK
    <2> HIDE DEF AgentRow
    <2> QED BY <1>2, <2>1, <2>2
  <1>6. ASSUME NEW k \in Jobs \ {j}
        PROVE  /\ \A n \in job[k].names : workspace'[n] = workspace[n]
               /\ \A a \in job[k].agents : agent'[a] # NoAgent
    <2>1. job[k].names \subseteq Names /\ job[k].agents \subseteq Agents
      BY DEF WsInv, WsTypeOK, Job
    <2>2. /\ job[j].names \cap job[k].names = {}
          /\ job[j].agents \cap job[k].agents = {}
          /\ \A a \in job[k].agents : agent[a] # NoAgent
      BY DEF WsInv, JobInv, HeldApart, HeldAgentsExist
    <2>3. job[j].lost \subseteq job[j].agents
      BY <1>1 DEF Sound
    <2> QED BY <1>1, <1>2, <2>1, <2>2, <2>3
  <1>7. [job[j] EXCEPT !.pc = "moveFolder", !.names = {}, !.agents = {},
                       !.tasks = {}, !.lost = {}] \in Job
    BY <1>1 DEF Job, Steps
  <1>8. PICK b \in Job :
          b = [job[j] EXCEPT !.pc = "moveFolder", !.names = {}, !.agents = {},
                             !.tasks = {}, !.lost = {}]
    BY <1>7
  <1>9. /\ b.pc = "moveFolder" /\ b.names = {} /\ b.agents = {} /\ b.lost = {}
        /\ b.ws = job[j].ws /\ b.user = job[j].user /\ b.next = job[j].next
    BY <1>1, <1>8 DEF Job
  <1>10. Sound(b)
    BY <1>1, <1>9 DEF Sound, Making, Renaming, Claiming
  <1>11. /\ Becomes(j, b) /\ UNCHANGED <<users, folder, requests, deleted>>
         /\ disturbed' \subseteq Users \cup Names
    BY <1>1, <1>8 DEF CommitRename, WsInv, WsTypeOK
  <1>12. b.pc \notin Claiming
    BY <1>9 DEF Claiming
  <1> QED BY <1>3, <1>4, <1>5, <1>6, <1>9, <1>10, <1>11, <1>12, ReleaseKeeps
          DEF WsInv, WsTypeOK

-----------------------------------------------------------------------------
\* DeleteUser.
LEMMA PurgeTasksKeeps == ASSUME WsInv, NEW j \in Jobs, PurgeTasks(j) PROVE WsInv'
  <1> DEFINE held == UNION {TasksIn(n) : n \in OwnedBy(job[j].user)}
  <1>1. job[j] \in Job /\ Sound(job[j]) /\ job[j].pc = "purgeTasks"
    BY DEF PurgeTasks, At, WsInv, WsTypeOK, JobInv, JobsSound
  <1>2. held \subseteq Tasks
    BY DEF TasksIn
  <1> HIDE DEF held
  <1>3. [job[j] EXCEPT !.pc = "purgeAgents", !.tasks = held] \in Job
    BY <1>1, <1>2 DEF Job, Steps
  <1>4. PICK b \in Job : b = [job[j] EXCEPT !.pc = "purgeAgents", !.tasks = held]
    BY <1>3
  <1>5. /\ b.pc = "purgeAgents" /\ b.names = {} /\ b.agents = {} /\ b.lost = {}
    BY <1>1, <1>4 DEF Job, Sound, Claiming
  <1>6. Sound(b)
    BY <1>5 DEF Sound, Making, Renaming, Claiming
  <1>7. Becomes(j, b) /\ UNCHANGED <<tables, folder, history>>
    BY <1>4 DEF PurgeTasks, held
  <1> QED BY <1>5, <1>6, <1>7, HoldKeeps DEF Claiming

LEMMA PurgeAgentsKeeps == ASSUME WsInv, NEW j \in Jobs, PurgeAgents(j) PROVE WsInv'
  <1>1. job[j] \in Job /\ Sound(job[j]) /\ job[j].pc = "purgeAgents"
    BY DEF PurgeAgents, At, WsInv, WsTypeOK, JobInv, JobsSound
  <1>2. [job[j] EXCEPT !.pc = "purgeSpaces", !.agents = AgentsOf(job[j].user)] \in Job
    BY <1>1 DEF Job, Steps, AgentsOf
  <1>3. PICK b \in Job :
          b = [job[j] EXCEPT !.pc = "purgeSpaces", !.agents = AgentsOf(job[j].user)]
    BY <1>2
  <1>4. /\ b.pc = "purgeSpaces" /\ b.names = {} /\ b.lost = {}
        /\ b.agents = AgentsOf(job[j].user)
    BY <1>1, <1>3 DEF Job, Sound, Claiming
  <1>5. Sound(b)
    BY <1>4 DEF Sound, Making, Renaming, Claiming
  <1>6. Becomes(j, b) /\ UNCHANGED <<tables, folder, history>>
    BY <1>3 DEF PurgeAgents
  <1>7. Needs(j).agents = AgentsOf(job[j].user)
    BY <1>1, NeededRows
  <1>8. \A k \in Jobs \ {j} : b.agents \cap job[k].agents = {}
    BY <1>4, <1>7, Unblocked DEF PurgeAgents, At
  <1>9. \A a \in b.agents : agent[a] # NoAgent
    BY <1>4 DEF AgentsOf
  <1> QED BY <1>4, <1>5, <1>6, <1>8, <1>9, HoldKeeps DEF Claiming

LEMMA PurgeSpacesKeeps == ASSUME WsInv, NEW j \in Jobs, PurgeSpaces(j) PROVE WsInv'
  <1> DEFINE mine == OwnedBy(job[j].user)
             cascade == InAny(OwnedBy(job[j].user))
  <1>1. /\ job[j] \in Job /\ Sound(job[j]) /\ job[j].pc = "purgeSpaces"
        /\ \A k \in Jobs \ {j} : job[j].agents \cap job[k].agents = {}
        /\ \A a \in job[j].agents : agent[a] # NoAgent
    BY DEF PurgeSpaces, At, WsInv, WsTypeOK, JobInv, JobsSound, HeldApart, HeldAgentsExist
  <1>2. /\ mine \subseteq Names /\ cascade \subseteq Agents
        /\ \A a \in cascade : agent[a] # NoAgent
    BY DEF OwnedBy, InAny, AgentsIn
  <1>3. /\ Needs(j).names = mine /\ Needs(j).agents = cascade
    BY <1>1, NeededRows
  <1>4. \A k \in Jobs \ {j} : /\ mine \cap job[k].names = {}
                              /\ cascade \cap job[k].agents = {}
    BY <1>3, Unblocked DEF PurgeSpaces, At
  <1>5. Becomes(j, [job[j] EXCEPT !.pc = "purgeUser", !.names = mine,
                                  !.agents = @ \cup cascade])
        /\ UNCHANGED <<tables, folder, history>>
    BY DEF PurgeSpaces
  <1> HIDE DEF mine, cascade
  <1>6. [job[j] EXCEPT !.pc = "purgeUser", !.names = mine, !.agents = @ \cup cascade] \in Job
    BY <1>1, <1>2 DEF Job, Steps
  <1>7. PICK b \in Job :
          b = [job[j] EXCEPT !.pc = "purgeUser", !.names = mine, !.agents = @ \cup cascade]
    BY <1>6
  <1>8. /\ b.pc = "purgeUser" /\ b.names = mine /\ b.lost = {}
        /\ b.agents = job[j].agents \cup cascade
    BY <1>1, <1>7 DEF Job, Sound
  <1>9. Sound(b)
    BY <1>8 DEF Sound, Making, Renaming, Claiming
  <1>10. \A k \in Jobs \ {j} : /\ b.names \cap job[k].names = {}
                               /\ b.agents \cap job[k].agents = {}
    BY <1>1, <1>4, <1>8
  <1>11. \A a \in b.agents : agent[a] # NoAgent
    BY <1>1, <1>2, <1>8
  <1>12. b.pc \notin Claiming /\ Becomes(j, b)
    BY <1>5, <1>7, <1>8 DEF Claiming
  <1> QED BY <1>5, <1>9, <1>10, <1>11, <1>12, HoldKeeps

LEMMA PurgeUserKeeps == ASSUME WsInv, NEW j \in Jobs, PurgeUser(j) PROVE WsInv'
  <1>1. CASE job[j].user \in users
    <2>1. /\ users' = users \ {job[j].user}
          /\ workspace' = [n \in Names |-> IF n \in job[j].names THEN NoUser
                                           ELSE workspace[n]]
          /\ agent' = [a \in Agents |-> IF a \in job[j].agents THEN NoAgent
                                        ELSE agent[a]]
          /\ task' = [t \in Tasks |-> IF t \in job[j].tasks THEN NoTask ELSE task[t]]
          /\ Ends(j) /\ UNCHANGED <<folder, requests, disturbed, deleted>>
      BY <1>1 DEF PurgeUser, history
    <2>2. ASSUME NEW k \in Jobs \ {j}
          PROVE  /\ \A n \in job[k].names : workspace'[n] = workspace[n]
                 /\ \A a \in job[k].agents : agent'[a] # NoAgent
      <3>1. job[k].names \subseteq Names /\ job[k].agents \subseteq Agents
        BY DEF WsInv, WsTypeOK, Job
      <3>2. /\ job[j].names \cap job[k].names = {}
            /\ job[j].agents \cap job[k].agents = {}
            /\ \A a \in job[k].agents : agent[a] # NoAgent
        BY DEF WsInv, JobInv, HeldApart, HeldAgentsExist
      <3> QED BY <2>1, <3>1, <3>2
    <2>3. /\ users' \subseteq Users /\ workspace' \in [Names -> Users \cup {NoUser}]
          /\ agent' \in [Agents -> AgentRow \cup {NoAgent}]
          /\ task' \in [Tasks -> Names \cup {NoName, NoTask}]
      BY <2>1 DEF WsInv, WsTypeOK
    <2> QED BY <2>1, <2>2, <2>3, IdleIsSound, ReleaseKeeps
            DEF Ends, WsInv, WsTypeOK, Claiming, IdleJob
  <1>2. CASE job[j].user \notin users
    BY <1>2, IdleIsSound, StepKeeps
       DEF PurgeUser, Ends, WsInv, WsTypeOK, tables, history, Claiming, IdleJob
  <1> QED BY <1>1, <1>2

-----------------------------------------------------------------------------
\* SubmitTask.
LEMMA ChooseKeeps == ASSUME WsInv, NEW j \in Jobs, ChooseWorkspace(j) PROVE WsInv'
  <1>1. job[j] \in Job /\ Sound(job[j]) /\ job[j].pc = "choose" /\ job[j].task \in Tasks
    BY DEF ChooseWorkspace, At, WsInv, WsTypeOK, JobInv, JobsSound, Sound
  <1>2. UNCHANGED <<users, workspace, agent, task, folder, requests, deleted>>
    BY DEF ChooseWorkspace, tables
  <1>3. ASSUME NEW n \in OwnedBy(job[j].user),
               Becomes(j, [job[j] EXCEPT !.pc = "bind", !.ws = n]),
               Disturb(j, [job[j] EXCEPT !.pc = "bind", !.ws = n])
        PROVE  WsInv'
    <2>1. n \in Names
      BY DEF OwnedBy
    <2>2. [job[j] EXCEPT !.pc = "bind", !.ws = n] \in Job
      BY <1>1, <2>1 DEF Job, Steps
    <2>3. PICK b \in Job : b = [job[j] EXCEPT !.pc = "bind", !.ws = n]
      BY <2>2
    <2>4. /\ b.pc = "bind" /\ b.ws = n /\ b.task = job[j].task
          /\ b.names = {} /\ b.agents = {} /\ b.lost = {}
      BY <1>1, <2>3 DEF Job, Sound, Claiming
    <2>5. Sound(b)
      BY <1>1, <2>1, <2>4 DEF Sound, Making, Renaming, Claiming
    <2>6. Becomes(j, b) /\ disturbed' \subseteq Users \cup Names
      BY <1>3, <2>3, DisturbTyped
    <2> QED BY <1>2, <2>4, <2>5, <2>6, StepKeeps DEF WsInv, WsTypeOK, Claiming
  <1>4. CASE Ends(j) /\ UNCHANGED disturbed
    BY <1>2, <1>4, IdleIsSound, StepKeeps DEF Ends, WsInv, WsTypeOK, Claiming, IdleJob
  <1> QED BY <1>3, <1>4 DEF ChooseWorkspace

LEMMA BindKeeps == ASSUME WsInv, NEW j \in Jobs, BindTask(j) PROVE WsInv'
  <1>1. job[j].ws \in Names /\ job[j].task \in Tasks
    BY DEF BindTask, At, WsInv, JobInv, JobsSound, Sound
  <1>2. task' \in [Tasks -> Names \cup {NoName, NoTask}]
    BY <1>1 DEF BindTask, WsInv, WsTypeOK
  <1> QED BY <1>2, IdleIsSound, StepKeeps
          DEF BindTask, Ends, WsInv, WsTypeOK, history, Claiming, IdleJob

\* Failures and the deadlock detector roll back.
LEMMA FaultKeeps ==
    ASSUME WsInv, NEW j \in Jobs,
           BreakDeadlock(j) \/ StatementFails(j) \/ FolderFails(j)
    PROVE  WsInv'
  <1>1. /\ UNCHANGED <<users, workspace, agent, task, folder, deleted>>
        /\ requests' \in 0..MaxRequests
    BY WsAssumption DEF BreakDeadlock, StatementFails, FolderFails, tables, history, WsInv, WsTypeOK
  <1>2. disturbed' \subseteq Users \cup Names
    <2>1. \/ disturbed' = disturbed
          \/ disturbed' = disturbed \cup ({job[j].ws, job[j].next} \ {NoName})
      BY DEF BreakDeadlock, StatementFails, FolderFails, history
    <2>2. job[j].ws \in Names \cup {NoName} /\ job[j].next \in Names \cup {NoName}
      BY DEF WsInv, WsTypeOK, Job
    <2> QED BY <2>1, <2>2 DEF WsInv, WsTypeOK
  <1>3. CASE Ends(j)
    BY <1>1, <1>2, <1>3, IdleIsSound, StepKeeps
       DEF Ends, WsInv, WsTypeOK, Claiming, IdleJob
  <1>4. CASE Goes(j, "agentFolder") /\ job[j].pc = "folder"
    <2>1. job[j].ws \in Names /\ job[j].user \in Users
      BY <1>4 DEF WsInv, JobInv, JobsSound, Sound, Making
    <2>2. PICK b \in Job :
            /\ Becomes(j, b) /\ b.names = {} /\ b.agents = {} /\ b.lost = {}
            /\ b.pc = "agentFolder" /\ b.user = job[j].user /\ b.ws = job[j].ws
      <3>1. "agentFolder" \in Steps
        BY DEF Steps
      <3> QED BY <1>4, <3>1, GoesOn DEF Claiming
    <2>3. Sound(b)
      BY <2>1, <2>2 DEF Sound, Making, Renaming, Claiming
    <2> QED BY <1>1, <1>2, <2>2, <2>3, StepKeeps DEF WsInv, WsTypeOK, Claiming
  <1> QED BY <1>3, <1>4 DEF BreakDeadlock, StatementFails, FolderFails

LEMMA RestartKeeps == ASSUME WsInv, Restart PROVE WsInv'
  <1>1. /\ job' = [k \in Jobs |-> IdleJob]
        /\ UNCHANGED <<users, workspace, agent, task, deleted>>
        /\ folder' \subseteq Names /\ disturbed' \subseteq Users \cup Names
    BY DEF Restart, tables, Started, WsInv, WsTypeOK
  <1>2. requests' \in 0..MaxRequests
    BY WsAssumption DEF Restart, WsInv, WsTypeOK
  <1>3. JobInv'
    BY <1>1, IdleIsSound
       DEF JobInv, JobsSound, HeldApart, ClaimsAreFree, HeldAgentsExist, Claiming, IdleJob
  <1>4. job' \in [Jobs -> Job] /\ \A k \in Jobs : job'[k] = IdleJob
    BY <1>1, IdleIsSound
  <1> QED BY <1>1, <1>2, <1>3, <1>4 DEF WsInv, WsTypeOK

-----------------------------------------------------------------------------
\* The process starts without requests.
LEMMA InitInv == WsInit => WsInv
  <1> SUFFICES ASSUME WsInit PROVE WsInv
    OBVIOUS
  <1>1. job \in [Jobs -> Job] /\ \A j \in Jobs : job[j] = IdleJob
    BY IdleIsSound DEF WsInit
  <1>2. JobInv
    <2>1. /\ IdleJob.names = {} /\ IdleJob.agents = {}
          /\ IdleJob.pc \notin Claiming /\ Sound(IdleJob)
      BY IdleIsSound DEF IdleJob, Claiming
    <2> QED BY <1>1, <2>1
            DEF JobInv, JobsSound, HeldApart, ClaimsAreFree, HeldAgentsExist
  <1>3. agent \in [Agents -> AgentRow \cup {NoAgent}]
    <2>0. Started \subseteq Names
      BY DEF Started
    <2>1. ASSUME NEW r \in [home : Started, owner : Users, origin : {"own", "default"}]
          PROVE  r \in AgentRow
      BY <2>0 DEF AgentRow
    <2>2. agent \in [Agents -> {NoAgent} \cup
                       [home : Started, owner : Users, origin : {"own", "default"}]]
      BY DEF WsInit
    <2> HIDE DEF AgentRow
    <2> QED BY <2>1, <2>2
  <1>4. /\ users \subseteq Users /\ workspace \in [Names -> Users \cup {NoUser}]
        /\ folder \subseteq Names /\ task \in [Tasks -> Names \cup {NoName, NoTask}]
        /\ disturbed = {} /\ deleted = {}
    BY DEF WsInit, Started
  <1>5. requests \in 0..MaxRequests
    BY WsAssumption DEF WsInit
  <1> QED BY <1>1, <1>2, <1>3, <1>4, <1>5 DEF WsInv, WsTypeOK

\* Every step keeps the invariant.
LEMMA NextInv == WsInv /\ [WsNext]_wsVars => WsInv'
  <1> SUFFICES ASSUME WsInv, [WsNext]_wsVars PROVE WsInv'
    OBVIOUS
  <1>1. CASE UNCHANGED wsVars
    BY <1>1 DEF wsVars, tables, history, WsInv, WsTypeOK, JobInv, JobsSound, HeldApart,
                ClaimsAreFree, HeldAgentsExist, Active
  <1>2. ASSUME NEW j \in Jobs, Serve(j) PROVE WsInv'
    BY <1>2, InsertKeeps, FolderKeeps, InsertAgentKeeps, DeleteKeeps, LookKeeps,
       ClaimKeeps, MoveAgentsKeeps, MoveTasksKeeps, DropKeeps, CommitKeeps,
       PurgeTasksKeeps, PurgeAgentsKeeps, PurgeSpacesKeeps, PurgeUserKeeps,
       ChooseKeeps, BindKeeps
       DEF Serve
  <1> QED BY <1>1, <1>2, AskKeeps, FaultKeeps, RestartKeeps DEF WsNext

\* The tables, the requests and the histories have their types in every
\* reachable state of the request handlers, for any number of users, names and
\* requests.
THEOREM WsTypes == WsSpec => []WsTypeOK
  <1>1. WsInv => WsTypeOK
    BY DEF WsInv
  <1> QED BY InitInv, NextInv, <1>1, PTL DEF WsSpec

\* What INSERT INTO workspaces and the commit of a rename do to the owners.
LEMMA OwnersStay ==
    ASSUME WsInv, WsNext, NEW n \in Names, workspace[n] # NoUser, workspace'[n] # NoUser
    PROVE  workspace'[n] = workspace[n]
  <1>0. workspace \in [Names -> Users \cup {NoUser}]
    BY DEF WsInv, WsTypeOK
  <1>1. ASSUME NEW j \in Jobs, InsertWorkspace(j) PROVE workspace'[n] = workspace[n]
    BY <1>0, <1>1 DEF InsertWorkspace, Started
  <1>2. ASSUME NEW j \in Jobs, DeleteWorkspace(j) PROVE workspace'[n] = workspace[n]
    BY <1>0, <1>2 DEF DeleteWorkspace
  <1>3. ASSUME NEW j \in Jobs, CommitRename(j) PROVE workspace'[n] = workspace[n]
    <2>1. n # job[j].next
      BY <1>3 DEF CommitRename, At, WsInv, JobInv, ClaimsAreFree, Claiming
    <2> QED BY <1>3, <2>1 DEF CommitRename
  <1>4. ASSUME NEW j \in Jobs, PurgeUser(j) PROVE workspace'[n] = workspace[n]
    BY <1>0, <1>4 DEF PurgeUser, tables
  <1>5. ASSUME NEW j \in Jobs, Ask(j) PROVE workspace' = workspace
    BY <1>5 DEF Ask, Register, AskCreateWorkspace, AskCreateAgent, AskDeleteWorkspace,
                AskUpdateWorkspace, AskDeleteUser, AskSubmitTask, tables
  <1>6. ASSUME NEW j \in Jobs,
               \/ MakeFolder(j) \/ MakeAgentFolder(j) \/ InsertAgent(j) \/ RemoveFolder(j)
               \/ LookAtNames(j) \/ ClaimName(j) \/ MoveAgents(j) \/ MoveTasks(j)
               \/ DropOldName(j) \/ MoveFolder(j) \/ PurgeTasks(j) \/ PurgeAgents(j)
               \/ PurgeSpaces(j) \/ ChooseWorkspace(j) \/ BindTask(j)
        PROVE  workspace' = workspace
    BY <1>6 DEF MakeFolder, MakeAgentFolder, InsertAgent, RemoveFolder, LookAtNames,
                ClaimName, MoveAgents, MoveTasks, DropOldName, MoveFolder, PurgeTasks,
                PurgeAgents, PurgeSpaces, ChooseWorkspace, BindTask, tables
  <1>7. ASSUME NEW j \in Jobs, BreakDeadlock(j) \/ StatementFails(j) \/ FolderFails(j)
        PROVE  workspace' = workspace
    BY <1>7 DEF BreakDeadlock, StatementFails, FolderFails, tables
  <1>8. CASE Restart
    BY <1>8 DEF Restart, tables
  <1> QED BY <1>1, <1>2, <1>3, <1>4, <1>5, <1>6, <1>7, <1>8 DEF WsNext, Serve

\* A name never passes from one owner to another without having been freed in
\* between, whatever requests, failures and deadlocks interleave.
THEOREM NamesKeepOwners == WsSpec => NameKeepsOwner
  <1>1. WsInv /\ [WsNext]_wsVars =>
          [\A n \in Names : n \in Started /\ workspace'[n] # NoUser
                            => workspace'[n] = workspace[n]]_wsVars
    <2> SUFFICES ASSUME WsInv, WsNext, NEW n \in Names, n \in Started, workspace'[n] # NoUser
                 PROVE  workspace'[n] = workspace[n]
      OBVIOUS
    <2> QED BY OwnersStay DEF Started
  <1> QED BY InitInv, NextInv, <1>1, PTL DEF WsSpec, NameKeepsOwner

-----------------------------------------------------------------------------
(* What is undisturbed.  A request that overlaps with none about the same   *)
(* name finds at its end what it saw at its beginning; the histories        *)
(* `disturbed` and `deleted` note the names for which this is not so.       *)

Purging == {"purgeTasks", "purgeAgents", "purgeSpaces", "purgeUser"}
Calm(n) == n \in Names \ disturbed

\* The kinds of requests, by where they are.
KindSound(b) ==
    /\ b.kind = "remove" /\ b.pc # "idle" <=> b.pc \in Purging
    /\ b.pc \in Purging \cup {"choose"} => b.user \in Users
    /\ b.pc \in Renaming => b.ws # b.next
    /\ b.pc \in Claiming => b.names \subseteq {b.next, b.ws}
    /\ b.pc \in Claiming \ {"commit"} => b.names = {b.next}
    /\ b.pc = "purgeSpaces" => b.names = {}

Named(b) == {b.ws, b.next} \cap Names

\* Two requests about one name, or the removal of a user and a request of his.
OverlapsNoted ==
    \A j, k \in Active : j # k =>
        /\ Named(job[j]) \cap Named(job[k]) \subseteq disturbed
        /\ job[j].kind = "remove" /\ job[j].user = job[k].user
              => job[j].user \in disturbed

\* A workspace of a user who is being removed, and a request that has seen it.
Relying == {"look", "claim", "bind"} \cup Claiming
RemovalNoted ==
    \A j, k \in Active :
        /\ job[j].kind = "remove" /\ job[k].pc \in Relying
        /\ workspace[job[k].ws] = job[j].user
        => job[k].ws \in disturbed

\* What a request counts on about the workspace it names.
CountsOn(b) ==
    /\ b.kind = "register" /\ b.pc \in {"folder", "agentFolder", "agent"} /\ Calm(b.ws) =>
          workspace[b.ws] \in {b.user, NoUser}
    /\ b.pc \in {"claim"} \cup Claiming /\ Calm(b.ws) => workspace[b.ws] = b.user
    /\ b.pc = "commit" /\ Calm(b.ws) => b.ws \in b.names
    /\ b.pc = "bind" => b.ws \in Started \cup disturbed \cup deleted
    /\ b.pc \in {"unfolder", "moveFolder"} /\ Calm(b.ws) => b.ws \notin Started

\* The rows a transaction holds are all there are.
HoldsAll(b) ==
    /\ \A n \in b.names : AgentsIn(n) \subseteq b.agents
    /\ b.pc \in {"moveTasks", "dropOld", "commit"} => \A a \in b.agents : agent[a].home = b.ws
    /\ b.pc \in {"dropOld", "commit"} /\ Calm(b.ws) => TasksIn(b.ws) \subseteq b.tasks
    /\ b.pc \in Purging \ {"purgeTasks"} =>
          \A n \in OwnedBy(b.user) :
              Calm(n) /\ (n \notin deleted \/ b.user \notin disturbed)
                 => TasksIn(n) \subseteq b.tasks
    /\ b.pc \in {"purgeSpaces", "purgeUser"} /\ b.user \notin disturbed =>
          AgentsOf(b.user) \subseteq b.agents
    /\ b.pc = "purgeUser" => /\ b.names \subseteq OwnedBy(b.user)
                             /\ b.user \notin disturbed => OwnedBy(b.user) \subseteq b.names

\* The foreign key of agents.
HomesExist == \A a \in Agents : agent[a] # NoAgent => agent[a].home \in Started

\* A request will make the directory.
Owing(b, n) == \/ b.pc = "folder" /\ b.ws = n
               \/ b.pc = "moveFolder" /\ b.next = n
FolderComes ==
    \A n \in Started \ disturbed : n \in folder \/ \E j \in Jobs : Owing(job[j], n)

CalmJobs == \A j \in Jobs : KindSound(job[j]) /\ CountsOn(job[j]) /\ HoldsAll(job[j])
CalmInv ==
    /\ WsInv /\ OverlapsNoted /\ RemovalNoted /\ CalmJobs
    /\ HomesExist /\ FolderComes
    /\ TaskFollowsWorkspace /\ DefaultAgentIsHome

-----------------------------------------------------------------------------
\* What a step of the request j does to the rows others look at.
HeldUnchanged(j) ==
    \A k \in Jobs \ {j} :
        /\ \A n \in job[k].names : /\ workspace'[n] = workspace[n]
                                   /\ AgentsIn(n)' \subseteq AgentsIn(n)
        /\ \A a \in job[k].agents : agent'[a] = agent[a]

\* It frees or takes the names it was asked about; a removal frees what is held.
OwnerEffect(j) ==
    \A n \in Names : workspace'[n] # workspace[n] =>
        \/ /\ job[j].pc \notin {"idle", "bind"} \cup Purging /\ n \in Named(job[j])
           /\ NoUser \in {workspace[n], workspace'[n]}
           /\ workspace'[n] \in {job[j].user, NoUser}
        \/ job[j].pc = "purgeUser" /\ workspace[n] = job[j].user /\ workspace'[n] = NoUser

AgentEffect(j) ==
    \A u \in Users : \/ AgentsOf(u)' \subseteq AgentsOf(u)
                     \/ u = job[j].user /\ job[j].pc = "agent"

TaskEffect(j) ==
    \A n \in Names : \/ TasksIn(n)' \subseteq TasksIn(n)
                     \/ job[j].pc = "bind" /\ n = job[j].ws
                     \/ /\ job[j].pc = "commit" /\ n = job[j].next
                        /\ Calm(n)' => Calm(job[j].ws)

HistoryGrows == disturbed \subseteq disturbed' /\ deleted \subseteq deleted'

Effects(j) ==
    /\ HeldUnchanged(j) /\ OwnerEffect(j) /\ AgentEffect(j) /\ TaskEffect(j)
    /\ HistoryGrows

\* How its record goes on: it ends, it is a new one whose overlaps are noted, or
\* it is still about the same.
Continues(j, c) ==
    \/ c = IdleJob
    \/ Disturb(j, c) /\ UNCHANGED workspace /\ c.pc # "idle"
    \/ /\ job[j].pc # "idle"
       /\ c.kind = job[j].kind /\ c.user = job[j].user
       /\ c.ws = job[j].ws /\ c.next = job[j].next
       /\ c.pc \in Relying => job[j].pc \in Relying /\ UNCHANGED workspace

Keeps(b) == KindSound(b) /\ CountsOn(b) /\ HoldsAll(b)

LEMMA CalmTypes ==
    ASSUME CalmInv
    PROVE  /\ workspace \in [Names -> Users \cup {NoUser}]
           /\ agent \in [Agents -> AgentRow \cup {NoAgent}]
           /\ task \in [Tasks -> Names \cup {NoName, NoTask}]
           /\ job \in [Jobs -> Job]
           /\ \A k \in Jobs : Sound(job[k]) /\ Keeps(job[k])
           /\ \A k \in Jobs : job[k].pc = "idle" => job[k] = IdleJob
           /\ NoUser \notin Users \cup Names /\ NoName \notin Users \cup Names
           /\ Users \cap Names = {}
  BY WsAssumption DEF CalmInv, WsInv, WsTypeOK, JobInv, JobsSound, Active, CalmJobs, Keeps

\* Two requests that name one workspace at the same time.
LEMMA MeetIsNoted ==
    ASSUME CalmInv, NEW j \in Jobs, NEW k \in Jobs \ {j}, NEW n \in Names,
           job[j].pc # "idle", job[k].pc # "idle",
           n \in Named(job[j]), n \in Named(job[k])
    PROVE  n \in disturbed
  BY DEF CalmInv, OverlapsNoted, Active

\* The removal of a user and a request of that user.
LEMMA RemovalMeets ==
    ASSUME CalmInv, NEW j \in Jobs, NEW k \in Jobs \ {j},
           job[j].pc \in Purging, job[k].pc # "idle", job[k].user = job[j].user
    PROVE  job[j].user \in disturbed
  <1>1. job[j].kind = "remove" /\ job[j].pc # "idle"
    BY CalmTypes DEF Keeps, KindSound
  <1> QED BY <1>1 DEF CalmInv, OverlapsNoted, Active

LEMMA RemovalSeen ==
    ASSUME CalmInv, NEW j \in Jobs, NEW k \in Jobs,
           job[j].pc \in Purging, job[k].pc \in Relying,
           workspace[job[k].ws] = job[j].user
    PROVE  job[k].ws \in disturbed
  <1>1. job[j].kind = "remove" /\ job[j].pc # "idle"
    BY CalmTypes DEF Keeps, KindSound
  <1>2. job[k].pc # "idle"
    BY DEF Relying, Claiming
  <1> QED BY <1>1, <1>2 DEF CalmInv, RemovalNoted, Active

-----------------------------------------------------------------------------
\* The other requests still find what they count on.
LEMMA OthersCountOn ==
    ASSUME CalmInv, NEW j \in Jobs, NEW k \in Jobs \ {j}, Effects(j), job'[k] = job[k]
    PROVE  CountsOn(job[k])'
  <1> DEFINE b == job[k]  n == b.ws
  <1>1. CountsOn(b) /\ Sound(b) /\ b \in Job
    BY CalmTypes DEF Keeps
  <1>2. Calm(n)' => Calm(n)
    BY DEF Calm, Effects, HistoryGrows
  <1>3. SUFFICES ASSUME b.pc # "idle", n \in Names, workspace'[n] # workspace[n]
                 PROVE  CountsOn(job[k])'
    <2>1. CASE workspace'[n] = workspace[n]
      BY <1>1, <1>2, <2>1 DEF CountsOn, Started, Effects, HistoryGrows
    <2>2. CASE b.pc = "idle"
      BY <2>2 DEF CountsOn, Claiming
    <2>3. CASE n \notin Names
      BY <1>1, <2>3 DEF CountsOn, Calm, Sound, Making, Renaming, Claiming
    <2> QED BY <1>3, <2>1, <2>2, <2>3
  <1>4. CASE job[j].pc # "idle" /\ n \in Named(job[j])
    <2>1. n \in Named(b)
      BY <1>3 DEF Named
    <2>2. n \in disturbed'
      BY <1>3, <1>4, <2>1, MeetIsNoted DEF Effects, HistoryGrows
    <2> QED BY <2>2 DEF CountsOn, Calm
  <1>5. CASE job[j].pc = "purgeUser" /\ workspace[n] = job[j].user /\ workspace'[n] = NoUser
    <2>1. b.pc \in Relying => n \in disturbed'
      BY <1>5, RemovalSeen DEF Purging, Effects, HistoryGrows
    <2>2. b.pc \in Relying => ~Calm(n)' /\ n \in disturbed'
      BY <2>1 DEF Calm
    <2>3. n \notin Started'
      BY <1>5 DEF Started
    <2>4. b.pc \in {"claim"} \cup Claiming \cup {"commit", "bind"} => b.pc \in Relying
      BY DEF Relying, Claiming
    <2> QED BY <1>5, <2>2, <2>3, <2>4 DEF CountsOn
  <1> QED BY <1>3, <1>4, <1>5 DEF Effects, OwnerEffect

LEMMA OthersKindSound ==
    ASSUME CalmInv, NEW j \in Jobs, NEW k \in Jobs \ {j}, Effects(j), job'[k] = job[k]
    PROVE  KindSound(job[k])'
  BY CalmTypes DEF Keeps, KindSound

\* Nobody adds to what another transaction has taken hold of.
LEMMA OthersHoldAll ==
    ASSUME CalmInv, NEW j \in Jobs, NEW k \in Jobs \ {j}, Effects(j), job'[k] = job[k]
    PROVE  HoldsAll(job[k])'
  <1> DEFINE b == job[k]
  <1>1. HoldsAll(b) /\ Sound(b) /\ b \in Job /\ KindSound(b) /\ CountsOn(job[j])
        /\ Sound(job[j]) /\ NoUser \notin Users
    BY CalmTypes DEF Keeps
  <1>2. disturbed \subseteq disturbed' /\ deleted \subseteq deleted'
        /\ \A n \in Names : Calm(n)' => Calm(n)
    BY DEF Effects, HistoryGrows, Calm
  <1>3. /\ \A n \in b.names : workspace'[n] = workspace[n] /\ AgentsIn(n)' \subseteq b.agents
        /\ \A a \in b.agents : agent'[a] = agent[a]
    BY <1>1 DEF Effects, HeldUnchanged, HoldsAll
  <1>4. b.pc \in {"dropOld", "commit"} /\ Calm(b.ws)' => TasksIn(b.ws)' \subseteq b.tasks
    <2> SUFFICES ASSUME b.pc \in {"dropOld", "commit"}, Calm(b.ws)'
                 PROVE  TasksIn(b.ws)' \subseteq b.tasks
      OBVIOUS
    <2>1. b.ws \in Names /\ b.ws \in Named(b) /\ TasksIn(b.ws) \subseteq b.tasks
      BY <1>1, <1>2 DEF Sound, Renaming, Claiming, Named, HoldsAll
    <2>2. ~(job[j].pc # "idle" /\ b.ws \in Named(job[j]))
      BY <2>1, <1>2, MeetIsNoted DEF Calm
    <2>3. TasksIn(b.ws)' \subseteq TasksIn(b.ws)
      BY <2>1, <2>2 DEF Effects, TaskEffect, Named
    <2> QED BY <2>1, <2>3
  <1>5. b.pc \in Purging /\ b.user \notin disturbed' =>
          ~(job[j].pc # "idle" /\ job[j].user = b.user)
    BY <1>2, RemovalMeets
  <1>6. ASSUME b.pc \in Purging \ {"purgeTasks"}, NEW n \in OwnedBy(b.user)',
               Calm(n)', n \notin deleted' \/ b.user \notin disturbed'
        PROVE  TasksIn(n)' \subseteq b.tasks
    <2>1. /\ n \in Names /\ Calm(n) /\ workspace'[n] = b.user
          /\ n \notin deleted \/ b.user \notin disturbed
          /\ b.user \in Users /\ b.pc # "idle"
      BY <1>1, <1>2, <1>6 DEF OwnedBy, KindSound, Purging
    <2>2. CASE workspace[n] = b.user
      <3>1. TasksIn(n) \subseteq b.tasks
        BY <1>1, <1>6, <2>1, <2>2 DEF HoldsAll, OwnedBy
      <3>2. ~(job[j].pc = "bind" /\ n = job[j].ws)
        BY <1>6, <2>1, <2>2, RemovalSeen DEF Relying, Calm
      <3>3. ~(job[j].pc = "commit" /\ n = job[j].next)
        BY <1>1, <2>1, <2>2 DEF CalmInv, WsInv, JobInv, ClaimsAreFree, Claiming
      <3> QED BY <2>1, <3>1, <3>2, <3>3 DEF Effects, TaskEffect
    <2>3. CASE workspace[n] # b.user
      <3>1. /\ job[j].pc \notin {"idle", "bind"} /\ workspace[n] = NoUser
            /\ job[j].user = b.user
        BY <1>1, <2>1, <2>3 DEF Effects, OwnerEffect
      <3>2. TasksIn(n) = {}
        BY <1>2, <1>6, <1>5, <2>1, <3>1 DEF CalmInv, TaskFollowsWorkspace, TasksIn, Started, Calm
      <3>3. ~(job[j].pc = "commit" /\ n = job[j].next /\ Calm(job[j].ws))
        <4>1. job[j].pc = "commit" /\ Calm(job[j].ws) => workspace[job[j].ws] = b.user
          BY <1>1, <3>1 DEF CountsOn, Claiming
        <4> QED BY <1>6, <4>1, RemovalSeen DEF Relying, Claiming, Calm
      <3> QED BY <1>6, <2>1, <3>1, <3>2, <3>3 DEF Effects, TaskEffect
    <2> QED BY <2>2, <2>3
  <1>7. b.pc \in {"purgeSpaces", "purgeUser"} /\ b.user \notin disturbed' =>
          AgentsOf(b.user)' \subseteq b.agents
    BY <1>1, <1>2, <1>5 DEF HoldsAll, Effects, AgentEffect, KindSound, Purging
  <1>8. b.pc = "purgeUser" => /\ b.names \subseteq OwnedBy(b.user)'
                              /\ b.user \notin disturbed' => OwnedBy(b.user)' \subseteq b.names
    <2> SUFFICES ASSUME b.pc = "purgeUser"
                 PROVE  /\ b.names \subseteq OwnedBy(b.user)'
                        /\ b.user \notin disturbed' => OwnedBy(b.user)' \subseteq b.names
      OBVIOUS
    <2>1. /\ b.names \subseteq OwnedBy(b.user) /\ b.user \in Users
          /\ b.user \notin disturbed' => OwnedBy(b.user) \subseteq b.names
      BY <1>1, <1>2 DEF HoldsAll, KindSound, Purging
    <2>2. ASSUME b.user \notin disturbed', NEW n \in OwnedBy(b.user)' PROVE n \in b.names
      <3>1. n \in Names /\ workspace'[n] = b.user
        BY DEF OwnedBy
      <3>2. workspace'[n] = workspace[n]
        BY <1>1, <1>5, <2>1, <2>2, <3>1 DEF Effects, OwnerEffect, Purging
      <3> QED BY <2>1, <2>2, <3>1, <3>2 DEF OwnedBy
    <2> QED BY <1>3, <2>1, <2>2 DEF OwnedBy
  <1>9. \A a \in b.agents : b.pc \in {"moveTasks", "dropOld", "commit"} => agent'[a].home = b.ws
    BY <1>1, <1>3 DEF HoldsAll
  <1> QED BY <1>3, <1>4, <1>6, <1>7, <1>8, <1>9 DEF HoldsAll

-----------------------------------------------------------------------------
\* A step of the request j, whose record becomes c.
Moves(j, c) == c \in Job /\ Becomes(j, c) /\ Continues(j, c) /\ Effects(j)

LEMMA MovedJobs ==
    ASSUME CalmInv, NEW j \in Jobs, NEW c, Becomes(j, c)
    PROVE  job'[j] = c /\ \A k \in Jobs \ {j} : job'[k] = job[k]
  BY CalmTypes DEF Becomes

\* The overlaps of a new request are noted.
LEMMA NewIsNoted ==
    ASSUME CalmInv, NEW j \in Jobs, NEW c, NEW k \in Jobs \ {j},
           Disturb(j, c), job[k].pc # "idle"
    PROVE  \A x : /\ x \in Scope(c) /\ x \in Scope(job[k]) /\ x # NoUser /\ x # NoName
                  /\ x \in Names \/ "remove" \in {c.kind, job[k].kind}
                  => x \in disturbed'
  <1> SUFFICES ASSUME NEW x, x \in Scope(c), x \in Scope(job[k]), x # NoUser, x # NoName,
                      x \in Names \/ "remove" \in {c.kind, job[k].kind}
               PROVE  x \in disturbed'
    OBVIOUS
  <1>1. k \in Active \ {j}
    BY DEF Active
  <1>2. x \notin (IF "remove" \in {c.kind, job[k].kind} THEN {} ELSE Users)
    BY CalmTypes
  <1>3. x \in Overlap(j, c)
    BY <1>1, <1>2 DEF Overlap
  <1> QED BY <1>3 DEF Disturb

LEMMA OverlapsStayNoted ==
    ASSUME CalmInv, NEW j \in Jobs, NEW c, Moves(j, c), Keeps(c)', NEW k \in Jobs \ {j},
           c.pc # "idle", job[k].pc # "idle"
    PROVE  /\ Named(c) \cap Named(job[k]) \subseteq disturbed'
           /\ "remove" \in {c.kind, job[k].kind} /\ c.user = job[k].user
                 => c.user \in disturbed'
  <1>1. disturbed \subseteq disturbed'
        /\ NoUser \notin Users \cup Names /\ NoName \notin Users \cup Names
        /\ KindSound(job[k]) /\ Users \cap Names = {}
    BY CalmTypes DEF Moves, Effects, HistoryGrows, Keeps
  <1>2. CASE job[j].pc # "idle" /\ c.kind = job[j].kind /\ c.user = job[j].user
             /\ c.ws = job[j].ws /\ c.next = job[j].next
    <2>1. j \in Active /\ k \in Active
      BY <1>2 DEF Active
    <2> QED BY <1>1, <1>2, <2>1 DEF CalmInv, OverlapsNoted, Named
  <1>3. CASE Disturb(j, c)
    <2>0. \A x : /\ x \in Scope(c) /\ x \in Scope(job[k]) /\ x # NoUser /\ x # NoName
                 /\ x \in Names \/ "remove" \in {c.kind, job[k].kind}
                 => x \in disturbed'
      BY <1>3, NewIsNoted
    <2>1. Named(c) \cap Named(job[k]) \subseteq Scope(c) \cap Scope(job[k]) \cap Names
      BY DEF Named, Scope
    <2>2. Named(c) \cap Named(job[k]) \subseteq disturbed'
      BY <1>1, <2>0, <2>1
    <2>3. ASSUME "remove" \in {c.kind, job[k].kind}, c.user = job[k].user
          PROVE  c.user \in disturbed'
      <3>1. c.user \in Users
        BY <1>1, <2>3 DEF Keeps, KindSound
      <3>2. c.user \in Scope(c) \cap Scope(job[k])
        BY <2>3 DEF Scope
      <3> QED BY <1>1, <2>0, <2>3, <3>1, <3>2
    <2> QED BY <2>2, <2>3
  <1> QED BY <1>2, <1>3 DEF Moves, Continues, IdleJob

\* What j's request has seen of one who is being removed, and what k's has.
LEMMA RemovalsStayNoted ==
    ASSUME CalmInv, NEW j \in Jobs, NEW c, Moves(j, c), Keeps(c)', NEW k \in Jobs \ {j},
           c.pc # "idle", job[k].pc # "idle", Sound(c)
    PROVE  /\ c.kind = "remove" /\ job[k].pc \in Relying /\ workspace'[job[k].ws] = c.user
                 => job[k].ws \in disturbed'
           /\ job[k].kind = "remove" /\ c.pc \in Relying /\ workspace'[c.ws] = job[k].user
                 => c.ws \in disturbed'
  <1>1. /\ disturbed \subseteq disturbed'
        /\ NoUser \notin Users \cup Names /\ NoName \notin Users \cup Names
        /\ KindSound(job[k]) /\ KindSound(job[j]) /\ Sound(job[k])
    BY CalmTypes DEF Moves, Effects, HistoryGrows, Keeps
  <1>2. /\ job[k].pc \in Relying => job[k].ws \in Names
        /\ c.pc \in Relying => c.ws \in Names
    BY <1>1 DEF Sound, Relying, Renaming
  <1>3. CASE Disturb(j, c) /\ UNCHANGED workspace
    <2>0. \A x : /\ x \in Scope(c) /\ x \in Scope(job[k]) /\ x # NoUser /\ x # NoName
                 /\ x \in Names \/ "remove" \in {c.kind, job[k].kind}
                 => x \in disturbed'
      BY <1>3, NewIsNoted
    <2>1. ASSUME c.kind = "remove", job[k].pc \in Relying, workspace[job[k].ws] = c.user
          PROVE  job[k].ws \in disturbed'
      <3>1. job[k].ws \in Scope(c) \cap Scope(job[k])
        BY <1>2, <2>1 DEF Scope, OwnedBy
      <3> QED BY <1>1, <1>2, <2>0, <2>1, <3>1
    <2>2. ASSUME job[k].kind = "remove", c.pc \in Relying, workspace[c.ws] = job[k].user
          PROVE  c.ws \in disturbed'
      <3>1. c.ws \in Scope(c) \cap Scope(job[k])
        BY <1>2, <2>2 DEF Scope, OwnedBy
      <3> QED BY <1>1, <1>2, <2>0, <2>2, <3>1
    <2> QED BY <1>3, <2>1, <2>2
  <1>4. CASE /\ job[j].pc # "idle"
             /\ c.kind = job[j].kind /\ c.user = job[j].user
             /\ c.ws = job[j].ws /\ c.next = job[j].next
             /\ c.pc \in Relying => job[j].pc \in Relying /\ UNCHANGED workspace
    <2>1. ASSUME c.kind = "remove", job[k].pc \in Relying, workspace'[job[k].ws] = c.user
          PROVE  job[k].ws \in disturbed'
      <3>1. job[j].pc \in Purging /\ c.user \in Users
        BY <1>1, <1>4, <2>1 DEF KindSound
      <3>2. workspace[job[k].ws] = c.user
        BY <1>1, <1>2, <2>1, <3>1 DEF Moves, Effects, OwnerEffect
      <3> QED BY <1>1, <1>4, <2>1, <3>1, <3>2, RemovalSeen
    <2>2. ASSUME job[k].kind = "remove", c.pc \in Relying, workspace'[c.ws] = job[k].user
          PROVE  c.ws \in disturbed'
      <3>1. job[k].pc \in Purging
        BY <1>1, <2>2 DEF KindSound
      <3> QED BY <1>1, <1>4, <2>2, <3>1, RemovalSeen
    <2> QED BY <2>1, <2>2
  <1> QED BY <1>3, <1>4 DEF Moves, Continues, IdleJob

\* Requests of others, one of which frees or takes a name.
LEMMA OthersStayNoted ==
    ASSUME CalmInv, NEW j \in Jobs, Effects(j), NEW i \in Jobs \ {j}, NEW k \in Jobs \ {j},
           job[i].pc # "idle", job[k].pc # "idle",
           job[i].kind = "remove", job[k].pc \in Relying,
           workspace'[job[k].ws] = job[i].user
    PROVE  job[k].ws \in disturbed'
  <1>1. /\ disturbed \subseteq disturbed' /\ NoUser \notin Users
        /\ KindSound(job[i]) /\ Sound(job[k])
    BY CalmTypes DEF Effects, HistoryGrows, Keeps
  <1>2. job[i].pc \in Purging /\ job[i].user \in Users
    BY <1>1 DEF KindSound
  <1>3. job[k].ws \in Names
    BY <1>1 DEF Sound, Relying, Renaming
  <1>4. CASE workspace[job[k].ws] = job[i].user
    BY <1>1, <1>2, <1>4, RemovalSeen
  <1>5. CASE workspace'[job[k].ws] # workspace[job[k].ws]
    <2>1. job[j].pc # "idle" /\ job[k].ws \in Named(job[j])
      BY <1>1, <1>2, <1>3, <1>5 DEF Effects, OwnerEffect
    <2>2. job[k].ws \in Named(job[k])
      BY <1>3 DEF Named
    <2> QED BY <1>1, <1>3, <2>1, <2>2, MeetIsNoted
  <1> QED BY <1>4, <1>5

\* What is known of all requests stays known.
LEMMA CalmMoves ==
    ASSUME CalmInv, NEW j \in Jobs, NEW c, Moves(j, c), Keeps(c)', Sound(c)
    PROVE  OverlapsNoted' /\ RemovalNoted' /\ CalmJobs'
  <1>1. job'[j] = c /\ \A k \in Jobs \ {j} : job'[k] = job[k]
    BY MovedJobs DEF Moves
  <1>2. ASSUME NEW k \in Jobs PROVE Keeps(job[k])'
    <2>1. CASE k = j
      BY <1>1, <2>1 DEF Keeps, KindSound, CountsOn, HoldsAll
    <2>2. CASE k # j
      BY <1>1, <2>2, OthersKindSound, OthersCountOn, OthersHoldAll DEF Moves, Keeps
    <2> QED BY <2>1, <2>2
  <1>3. CalmJobs'
    BY <1>2 DEF CalmJobs, Keeps
  <1>4. ASSUME NEW i \in Jobs, NEW k \in Jobs, i # k, job'[i].pc # "idle", job'[k].pc # "idle"
        PROVE  /\ Named(job'[i]) \cap Named(job'[k]) \subseteq disturbed'
               /\ job'[i].kind = "remove" /\ job'[i].user = job'[k].user
                     => job'[i].user \in disturbed'
    <2>1. CASE i = j
      BY <1>1, <1>4, <2>1, OverlapsStayNoted
    <2>2. CASE k = j
      BY <1>1, <1>4, <2>2, OverlapsStayNoted
    <2>3. CASE i # j /\ k # j
      BY <1>1, <1>4, <2>3
         DEF CalmInv, OverlapsNoted, Active, Moves, Effects, HistoryGrows
    <2> QED BY <2>1, <2>2, <2>3
  <1>5. OverlapsNoted'
    BY <1>4 DEF OverlapsNoted, Active, Named
  <1>6. ASSUME NEW i \in Jobs, NEW k \in Jobs, job'[i].pc # "idle", job'[k].pc # "idle",
               job'[i].kind = "remove", job'[k].pc \in Relying,
               workspace'[job'[k].ws] = job'[i].user
        PROVE  job'[k].ws \in disturbed'
    <2>1. CASE i = k
      <3>1. KindSound(job[i])'
        BY <1>2 DEF Keeps
      <3> QED BY <1>6, <2>1, <3>1 DEF KindSound, Purging, Relying, Claiming
    <2>2. CASE i = j /\ k # j
      BY <1>1, <1>6, <2>2, RemovalsStayNoted
    <2>3. CASE k = j /\ i # j
      BY <1>1, <1>6, <2>3, RemovalsStayNoted
    <2>4. CASE i # j /\ k # j
      BY <1>1, <1>6, <2>4, OthersStayNoted DEF Moves
    <2> QED BY <2>1, <2>2, <2>3, <2>4
  <1>7. RemovalNoted'
    BY <1>6 DEF RemovalNoted, Active
  <1> QED BY <1>3, <1>5, <1>7

-----------------------------------------------------------------------------
\* A step that frees and fills no row others look at.
Quiet ==
    /\ UNCHANGED <<workspace, agent>> /\ HistoryGrows
    /\ \A n \in Names : TasksIn(n)' \subseteq TasksIn(n)

LEMMA QuietEffects == ASSUME CalmInv, NEW j \in Jobs, Quiet PROVE Effects(j)
  <1>1. HeldUnchanged(j)
    BY DEF Quiet, HeldUnchanged, AgentsIn
  <1>2. OwnerEffect(j) /\ AgentEffect(j) /\ TaskEffect(j)
    BY DEF Quiet, OwnerEffect, AgentEffect, AgentsOf, TaskEffect
  <1> QED BY <1>1, <1>2 DEF Effects, Quiet

TablesCalm ==
    HomesExist /\ TaskFollowsWorkspace /\ DefaultAgentIsHome

LEMMA QuietTables == ASSUME CalmInv, Quiet PROVE TablesCalm'
  <1>1. UNCHANGED <<workspace, agent>>
        /\ disturbed \subseteq disturbed' /\ deleted \subseteq deleted'
    BY DEF Quiet, HistoryGrows
  <1>2. HomesExist' /\ DefaultAgentIsHome'
    BY <1>1 DEF CalmInv, HomesExist, Started, DefaultAgentIsHome
  <1>3. TaskFollowsWorkspace'
    <2> SUFFICES ASSUME NEW t \in Tasks, task'[t] \in Names \ (disturbed' \cup deleted')
                 PROVE  task'[t] \in Started'
      BY DEF TaskFollowsWorkspace
    <2>1. t \in TasksIn(task'[t])
      BY DEF Quiet, TasksIn
    <2> QED BY <1>1, <2>1 DEF CalmInv, TaskFollowsWorkspace, TasksIn, Started
  <1> QED BY <1>2, <1>3 DEF TablesCalm

\* No directory is lost, and one that is owed is made or still owed.
FolderKept(j, c) ==
    \A n \in Started' \ disturbed' :
        /\ n \notin Started => Owing(c, n)
        /\ n \in Started /\ n \in folder => n \in folder'
        /\ Owing(job[j], n) => n \in folder' \/ Owing(c, n)

LEMMA FolderMoves ==
    ASSUME CalmInv, NEW j \in Jobs, NEW c, Becomes(j, c), HistoryGrows, FolderKept(j, c)
    PROVE  FolderComes'
  <1>1. job'[j] = c /\ \A k \in Jobs \ {j} : job'[k] = job[k]
    BY MovedJobs
  <1> SUFFICES ASSUME NEW n \in Started', n \notin disturbed'
               PROVE  n \in folder' \/ \E k \in Jobs : Owing(job'[k], n)
    BY DEF FolderComes, Owing
  <1>2. n \in Started => n \in folder \/ \E k \in Jobs : Owing(job[k], n)
    BY DEF CalmInv, FolderComes, HistoryGrows
  <1>3. Owing(c, n) => \E k \in Jobs : Owing(job'[k], n)
    BY <1>1
  <1>4. ASSUME NEW k \in Jobs, Owing(job[k], n)
        PROVE  n \in folder' \/ \E i \in Jobs : Owing(job'[i], n)
    <2>1. CASE k = j
      BY <1>3, <1>4, <2>1 DEF FolderKept
    <2>2. CASE k # j
      BY <1>1, <1>4, <2>2
    <2> QED BY <2>1, <2>2
  <1> QED BY <1>2, <1>3, <1>4 DEF FolderKept

LEMMA FolderStays ==
    ASSUME NEW j \in Jobs, NEW c, UNCHANGED workspace, folder \subseteq folder',
           job[j].pc \notin {"folder", "moveFolder"}
    PROVE  FolderKept(j, c)
  BY DEF FolderKept, Started, Owing

\* All together: what is left to show of an action.
LEMMA StepCalm ==
    ASSUME CalmInv, WsInv', NEW j \in Jobs, NEW c, Moves(j, c), Keeps(c)', FolderKept(j, c),
           TablesCalm'
    PROVE  CalmInv'
  <1>1. job'[j] = c
    BY MovedJobs DEF Moves
  <1>2. Sound(c)
    BY <1>1 DEF WsInv, JobInv, JobsSound, Sound
  <1>3. FolderComes'
    BY FolderMoves DEF Moves, Effects
  <1> QED BY <1>2, <1>3, CalmMoves DEF CalmInv, TablesCalm

LEMMA QuietCalm ==
    ASSUME CalmInv, WsInv', NEW j \in Jobs, NEW c \in Job, Becomes(j, c), Continues(j, c),
           Quiet, Keeps(c)', FolderKept(j, c)
    PROVE  CalmInv'
  BY QuietEffects, QuietTables, StepCalm DEF Moves

\* A step that only takes hold of rows, or goes on.
LEMMA HoldCalm ==
    ASSUME CalmInv, WsInv', NEW j \in Jobs, NEW c \in Job, Becomes(j, c),
           UNCHANGED <<tables, folder, history>>,
           job[j].pc \notin {"idle", "folder", "moveFolder"},
           c.kind = job[j].kind, c.user = job[j].user, c.ws = job[j].ws, c.next = job[j].next,
           c.pc \in Relying => job[j].pc \in Relying,
           Keeps(c)
    PROVE  CalmInv'
  <1>1. UNCHANGED <<users, workspace, agent, task, folder, disturbed, deleted>>
    BY DEF tables, history
  <1>2. Quiet
    BY <1>1 DEF Quiet, HistoryGrows, TasksIn
  <1>3. Keeps(c)'
    BY <1>1 DEF Keeps, KindSound, CountsOn, HoldsAll, Calm, Started, AgentsIn, AgentsOf,
                TasksIn, OwnedBy
  <1> QED BY <1>1, <1>2, <1>3, FolderStays, QuietCalm DEF Continues

LEMMA IdleKeeps == Keeps(IdleJob)'
  BY DEF IdleJob, Keeps, KindSound, CountsOn, HoldsAll, Claiming, Renaming, Purging

\* A request ends.
LEMMA EndsCalm ==
    ASSUME CalmInv, WsInv', NEW j \in Jobs, Ends(j), Quiet, FolderKept(j, IdleJob)
    PROVE  CalmInv'
  BY IdleKeeps, IdleIsSound, QuietCalm DEF Ends, Continues

-----------------------------------------------------------------------------
\* A new request.
LEMMA RequestCalm ==
    ASSUME CalmInv, WsInv', NEW j \in Jobs, NEW b \in Job, Request(j, b),
           UNCHANGED <<workspace, agent, folder>>,
           \A n \in Names : TasksIn(n)' \subseteq TasksIn(n),
           b.names = {},
           b.pc \in {"create", "agentFolder", "delete", "look", "purgeTasks", "choose"},
           b.kind = "remove" <=> b.pc = "purgeTasks",
           b.kind = "register" => b.pc = "create",
           b.pc \in {"purgeTasks", "choose"} => b.user \in Users,
           b.pc = "look" => b.ws # b.next
    PROVE  CalmInv'
  <1>1. job[j].pc = "idle" /\ Becomes(j, b) /\ Disturb(j, b) /\ HistoryGrows
    BY DEF Request, Disturb, HistoryGrows
  <1>2. KindSound(b)'
    BY DEF KindSound, Purging, Renaming, Claiming
  <1>3. CountsOn(b)' /\ HoldsAll(b)'
    BY DEF CountsOn, HoldsAll, Claiming, Purging
  <1>4. Continues(j, b)
    BY <1>1 DEF Continues
  <1>5. FolderKept(j, b)
    BY <1>1, FolderStays
  <1> QED BY <1>1, <1>2, <1>3, <1>4, <1>5, QuietCalm DEF Keeps, Quiet

LEMMA AskCalm == ASSUME CalmInv, WsInv', NEW j \in Jobs, Ask(j) PROVE CalmInv'
  <1> USE DEF Job, Steps, Kinds, IdleJob
  <1>0. DefaultName \in [Users -> Names] /\ NoTask \notin Names /\ NoName \notin Names
        /\ task \in [Tasks -> Names \cup {NoName, NoTask}]
    BY WsAssumption DEF CalmInv, WsInv, WsTypeOK
  <1>1. ASSUME NEW u \in Users, Register(j, u) PROVE CalmInv'
    <2>1. \A n \in Names : TasksIn(n)' \subseteq TasksIn(n)
      BY <1>1 DEF Register, TasksIn
    <2> QED BY <1>0, <1>1, <2>1, RequestCalm DEF Register
  <1>2. ASSUME NEW u \in Users, AskDeleteUser(j, u) PROVE CalmInv'
    <2>1. \A n \in Names : TasksIn(n)' \subseteq TasksIn(n)
      BY <1>2 DEF AskDeleteUser, TasksIn, tables
    <2> QED BY <1>0, <1>2, <2>1, RequestCalm DEF AskDeleteUser, tables
  <1>3. ASSUME NEW u \in Users, NEW n \in Names, AskCreateWorkspace(j, u, n) PROVE CalmInv'
    <2>1. \A m \in Names : TasksIn(m)' \subseteq TasksIn(m)
      BY <1>3 DEF AskCreateWorkspace, TasksIn, tables
    <2> QED BY <1>0, <1>3, <2>1, RequestCalm DEF AskCreateWorkspace, tables
  <1>4. ASSUME NEW u \in Users, NEW n \in Names, AskCreateAgent(j, u, n) PROVE CalmInv'
    <2>1. \A m \in Names : TasksIn(m)' \subseteq TasksIn(m)
      BY <1>4 DEF AskCreateAgent, TasksIn, tables
    <2> QED BY <1>0, <1>4, <2>1, RequestCalm DEF AskCreateAgent, tables
  <1>5. ASSUME NEW u \in Users, NEW n \in Names, NEW m \in Names,
               AskUpdateWorkspace(j, u, n, m)
        PROVE CalmInv'
    <2>1. \A i \in Names : TasksIn(i)' \subseteq TasksIn(i)
      BY <1>5 DEF AskUpdateWorkspace, TasksIn, tables
    <2> QED BY <1>0, <1>5, <2>1, RequestCalm DEF AskUpdateWorkspace, tables
  <1>6. ASSUME NEW n \in Names, AskDeleteWorkspace(j, n) PROVE CalmInv'
    <2>1. \A m \in Names : TasksIn(m)' \subseteq TasksIn(m)
      BY <1>6 DEF AskDeleteWorkspace, TasksIn, tables
    <2> QED BY <1>0, <1>6, <2>1, RequestCalm DEF AskDeleteWorkspace, tables
  <1>7. ASSUME NEW u \in Users, NEW t \in Tasks, AskSubmitTask(j, u, t) PROVE CalmInv'
    <2>1. \A n \in Names : TasksIn(n)' \subseteq TasksIn(n)
      BY <1>0, <1>7 DEF AskSubmitTask, TasksIn
    <2> QED BY <1>0, <1>7, <2>1, RequestCalm DEF AskSubmitTask
  <1> QED BY <1>1, <1>2, <1>3, <1>4, <1>5, <1>6, <1>7 DEF Ask

-----------------------------------------------------------------------------
\* A request that makes a directory never waits.
LEMMA FoldersNeverWait ==
    ASSUME NEW j \in Jobs, job[j].pc \in {"folder", "moveFolder"}
    PROVE  BlockedBy(j) = {}
  <1>1. Needs(j) = Rows({}, {}, {})
    BY DEF Needs
  <1> QED BY <1>1 DEF BlockedBy, Rows

LEMMA UnchangedIsQuiet ==
    ASSUME UNCHANGED <<workspace, agent, task>>,
           disturbed \subseteq disturbed', deleted \subseteq deleted'
    PROVE  Quiet
  BY DEF Quiet, HistoryGrows, TasksIn

\* The next place of a request: the rest of its record is as it was.
LEMMA NextPlace ==
    ASSUME CalmInv, NEW j \in Jobs, NEW pc \in Steps, Goes(j, pc)
    PROVE  \E b \in Job : /\ Becomes(j, b) /\ b.pc = pc
                          /\ b.kind = job[j].kind /\ b.user = job[j].user
                          /\ b.ws = job[j].ws /\ b.next = job[j].next
                          /\ b.names = job[j].names /\ b.agents = job[j].agents
                          /\ b.tasks = job[j].tasks
  <1>1. job[j] \in Job
    BY CalmTypes
  <1>2. [job[j] EXCEPT !.pc = pc] \in Job
    BY <1>1 DEF Job
  <1>3. PICK b \in Job : b = [job[j] EXCEPT !.pc = pc]
    BY <1>2
  <1>4. /\ b.pc = pc /\ b.kind = job[j].kind /\ b.user = job[j].user
        /\ b.ws = job[j].ws /\ b.next = job[j].next
        /\ b.names = job[j].names /\ b.agents = job[j].agents /\ b.tasks = job[j].tasks
    BY <1>1, <1>3 DEF Job
  <1> QED BY <1>3, <1>4 DEF Goes

\* A step of a request that holds nothing to one more that makes a directory or
\* an agent: after a failure the name is noted.
LEMMA GoesToAgent ==
    ASSUME CalmInv, WsInv', NEW j \in Jobs, NEW pc \in {"agentFolder", "agent"}, Goes(j, pc),
           job[j].pc \in {"folder", "agentFolder"},
           UNCHANGED <<workspace, agent, task, users, deleted>>,
           disturbed \subseteq disturbed', folder \subseteq folder',
           job[j].pc = "folder" => job[j].ws \in folder' \cup disturbed'
    PROVE  CalmInv'
  <1>1. /\ Keeps(job[j]) /\ Sound(job[j]) /\ pc \in Steps
        /\ \A n : Calm(n)' => Calm(n)
    BY CalmTypes DEF Steps, Calm
  <1>2. PICK b \in Job : /\ Becomes(j, b) /\ b.pc = pc
                         /\ b.kind = job[j].kind /\ b.user = job[j].user
                         /\ b.ws = job[j].ws /\ b.next = job[j].next
                         /\ b.names = job[j].names
    BY <1>1, NextPlace
  <1>3. KindSound(b)'
    BY <1>1, <1>2 DEF Keeps, KindSound, Purging, Renaming, Claiming
  <1>4. CountsOn(b)' /\ HoldsAll(b)'
    BY <1>1, <1>2 DEF Keeps, CountsOn, HoldsAll, Claiming, Purging, Sound
  <1>5. FolderKept(j, b)
    BY DEF FolderKept, Started, Owing
  <1>6. Quiet
    BY UnchangedIsQuiet
  <1>7. Continues(j, b)
    BY <1>2 DEF Continues, Relying, Claiming
  <1> QED BY <1>2, <1>3, <1>4, <1>5, <1>6, <1>7, QuietCalm DEF Keeps

LEMMA FaultCalm ==
    ASSUME CalmInv, WsInv', NEW j \in Jobs,
           BreakDeadlock(j) \/ StatementFails(j) \/ FolderFails(j)
    PROVE  CalmInv'
  <1>1. /\ UNCHANGED <<users, workspace, agent, task, folder, deleted>>
        /\ disturbed \subseteq disturbed'
    BY DEF BreakDeadlock, StatementFails, FolderFails, tables, history
  <1>2. Quiet
    BY <1>1, UnchangedIsQuiet
  <1>3. CASE BreakDeadlock(j) \/ StatementFails(j)
    <2>1. job[j].pc \notin {"folder", "moveFolder"} /\ Ends(j)
      BY <1>3, FoldersNeverWait DEF BreakDeadlock, StatementFails
    <2> QED BY <1>1, <1>2, <2>1, FolderStays, EndsCalm
  <1>4. CASE FolderFails(j)
    <2>1. /\ job[j].pc \in {"folder", "unfolder", "moveFolder", "agentFolder"}
          /\ job[j].ws \in Names => job[j].ws \in disturbed'
          /\ job[j].next \in Names => job[j].next \in disturbed'
      BY <1>4, WsAssumption DEF FolderFails
    <2>2. FolderKept(j, IdleJob)
      BY <1>1, <2>1 DEF FolderKept, Started, Owing
    <2>3. CASE Ends(j)
      BY <1>2, <2>2, <2>3, EndsCalm
    <2>4. CASE job[j].pc = "folder" /\ Goes(j, "agentFolder")
      <3>1. job[j].ws \in Names
        BY <2>4, CalmTypes DEF Sound, Making
      <3> QED BY <1>1, <2>1, <2>4, <3>1, GoesToAgent
    <2> QED BY <1>4, <2>3, <2>4 DEF FolderFails
  <1> QED BY <1>3, <1>4

\* A restart makes the directories of the rows, or notes those it could not make.
LEMMA RestartCalm == ASSUME CalmInv, WsInv', Restart PROVE CalmInv'
  <1>1. /\ \A k \in Jobs : job'[k] = IdleJob
        /\ UNCHANGED <<workspace, agent, task, deleted>>
        /\ disturbed \subseteq disturbed' /\ Started \subseteq folder' \cup disturbed'
    BY DEF Restart, tables
  <1>2. Quiet
    BY <1>1, UnchangedIsQuiet
  <1>3. OverlapsNoted' /\ RemovalNoted'
    BY <1>1 DEF OverlapsNoted, RemovalNoted, Active, IdleJob
  <1>4. CalmJobs'
    <2>1. \A k \in Jobs : Keeps(job[k])'
      BY <1>1, IdleKeeps DEF Keeps, KindSound, CountsOn, HoldsAll
    <2> QED BY <2>1 DEF CalmJobs, Keeps
  <1>5. FolderComes'
    BY <1>1 DEF FolderComes, Started
  <1> QED BY <1>2, <1>3, <1>4, <1>5, QuietTables DEF CalmInv, TablesCalm

-----------------------------------------------------------------------------
\* Directories.
LEMMA MakeFolderCalm ==
    ASSUME CalmInv, WsInv', NEW j \in Jobs, MakeFolder(j) \/ MakeAgentFolder(j)
    PROVE  CalmInv'
  <1>1. /\ job[j].pc \in {"folder", "agentFolder"} /\ folder' = folder \cup {job[j].ws}
        /\ UNCHANGED <<users, workspace, agent, task, disturbed, deleted>>
    BY DEF MakeFolder, MakeAgentFolder, At, tables, history
  <1>2. CASE Ends(j)
    <2>1. FolderKept(j, IdleJob)
      BY <1>1 DEF FolderKept, Started, Owing
    <2>2. Quiet
      BY <1>1, UnchangedIsQuiet
    <2> QED BY <1>2, <2>1, <2>2, EndsCalm
  <1>3. ASSUME NEW pc \in {"agentFolder", "agent"}, Goes(j, pc) PROVE CalmInv'
    BY <1>1, <1>3, GoesToAgent
  <1> QED BY <1>2, <1>3 DEF MakeFolder, MakeAgentFolder

LEMMA DropFolderCalm ==
    ASSUME CalmInv, WsInv', NEW j \in Jobs, RemoveFolder(j) \/ MoveFolder(j)
    PROVE  CalmInv'
  <1>1. /\ job[j].pc \in {"unfolder", "moveFolder"} /\ Ends(j)
        /\ folder \ {job[j].ws} \subseteq folder'
        /\ job[j].pc = "moveFolder" => job[j].next \in folder'
        /\ UNCHANGED <<users, workspace, agent, task, disturbed, deleted>>
    BY DEF RemoveFolder, MoveFolder, At, tables, history
  <1>2. job[j].ws \in Started => job[j].ws \in disturbed
    BY <1>1, CalmTypes DEF Keeps, CountsOn, Calm, Started
  <1>3. FolderKept(j, IdleJob)
    BY <1>1, <1>2 DEF FolderKept, Started, Owing
  <1> QED BY <1>1, <1>3, UnchangedIsQuiet, EndsCalm

\* CreateWorkspace gives a free name to a user.
LEMMA InsertCalm == ASSUME CalmInv, WsInv', NEW j \in Jobs, InsertWorkspace(j) PROVE CalmInv'
  <1> DEFINE ws == job[j].ws  user == job[j].user
  <1>1. /\ job[j].pc = "create" /\ BlockedBy(j) = {}
        /\ UNCHANGED <<users, agent, task, folder, disturbed, deleted>>
    BY DEF InsertWorkspace, At, history
  <1>2. /\ Keeps(job[j]) /\ job[j] \in Job /\ ws \in Names /\ user \in Users
        /\ NoUser \notin Users /\ workspace \in [Names -> Users \cup {NoUser}]
        /\ job[j].names = {} /\ \A k \in Jobs : job[k].names \subseteq Names
    BY <1>1, CalmTypes DEF Sound, Making, Claiming, Job
  <1>3. CASE ws \in LegalNames \ Started
    <2>1. /\ workspace' = [workspace EXCEPT ![ws] = user] /\ Goes(j, "folder")
          /\ workspace[ws] = NoUser
      BY <1>2, <1>3 DEF InsertWorkspace, Started
    <2>2. PICK b \in Job : /\ Becomes(j, b) /\ b.pc = "folder"
                           /\ b.kind = job[j].kind /\ b.user = user
                           /\ b.ws = ws /\ b.next = job[j].next
                           /\ b.names = {}
      BY <1>2, <2>1, NextPlace DEF Steps
    <2>3. workspace'[ws] = user /\ \A n \in Names \ {ws} : workspace'[n] = workspace[n]
      BY <1>2, <2>1
    <2>4. KindSound(b)'
      BY <1>1, <1>2, <2>2 DEF Keeps, KindSound, Purging, Renaming, Claiming
    <2>5. CountsOn(b)' /\ HoldsAll(b)'
      BY <2>2, <2>3 DEF CountsOn, HoldsAll, Claiming, Purging
    <2>6. HeldUnchanged(j)
      <3>1. \A k \in Jobs \ {j} : ws \notin job[k].names
        BY <1>1, Unblocked, NeededRows
      <3> QED BY <1>1, <1>2, <2>3, <3>1 DEF HeldUnchanged, AgentsIn
    <2>7. Effects(j)
      <3>1. OwnerEffect(j)
        BY <1>1, <1>2, <2>1, <2>3 DEF OwnerEffect, Named, Purging
      <3>2. AgentEffect(j) /\ TaskEffect(j) /\ HistoryGrows
        BY <1>1 DEF AgentEffect, AgentsOf, TaskEffect, TasksIn, HistoryGrows
      <3> QED BY <2>6, <3>1, <3>2 DEF Effects
    <2>8. Moves(j, b)
      BY <1>1, <2>2, <2>7 DEF Moves, Continues, Relying, Claiming
    <2>9. Started' = Started \cup {ws}
      BY <1>2, <2>3 DEF Started
    <2>10. FolderKept(j, b)
      BY <1>1, <2>2, <2>9 DEF FolderKept, Owing
    <2>11. HomesExist' /\ TaskFollowsWorkspace'
      BY <1>1, <2>9 DEF CalmInv, HomesExist, TaskFollowsWorkspace
    <2>12. DefaultAgentIsHome'
      <3>1. \A a \in Agents : agent[a] # NoAgent => agent[a].home \in Names \ {ws}
        BY <2>1 DEF CalmInv, HomesExist, Started
      <3> QED BY <1>1, <2>3, <3>1 DEF CalmInv, DefaultAgentIsHome
    <2> QED BY <2>4, <2>5, <2>8, <2>10, <2>11, <2>12, StepCalm DEF Keeps, TablesCalm
  <1>4. CASE ws \notin LegalNames \ Started
    <2>1. Ends(j) /\ UNCHANGED workspace
      BY <1>4 DEF InsertWorkspace
    <2>2. Quiet
      BY <1>1, <2>1, UnchangedIsQuiet
    <2> QED BY <1>1, <2>1, <2>2, FolderStays, EndsCalm
  <1> QED BY <1>3, <1>4

\* CreateAgent; a registration finds its own workspace, or none.
LEMMA InsertAgentCalm == ASSUME CalmInv, WsInv', NEW j \in Jobs, InsertAgent(j) PROVE CalmInv'
  <1> DEFINE ws == job[j].ws  user == job[j].user
  <1>1. /\ job[j].pc = "agent" /\ BlockedBy(j) = {} /\ Ends(j)
        /\ UNCHANGED <<users, workspace, task, folder, disturbed, deleted>>
    BY DEF InsertAgent, At, history
  <1>2. /\ Keeps(job[j]) /\ ws \in Names /\ user \in Users
        /\ agent \in [Agents -> AgentRow \cup {NoAgent}]
        /\ \A k \in Jobs : job[k].names \subseteq Names /\ job[k].agents \subseteq Agents
        /\ \A k \in Jobs : \A a \in job[k].agents : agent[a] # NoAgent
    BY <1>1, CalmTypes DEF Sound, Making, Job, CalmInv, WsInv, JobInv, HeldAgentsExist
  <1>3. CASE UNCHANGED agent
    <2>1. Quiet
      BY <1>1, <1>3, UnchangedIsQuiet
    <2> QED BY <1>1, <2>1, FolderStays, EndsCalm
  <1>4. ASSUME ws \in Started, NEW a \in Agents, agent[a] = NoAgent, NEW row,
               agent' = [agent EXCEPT ![a] = row], row.home = ws, row.owner = user,
               row.origin = "default" => job[j].kind = "register"
        PROVE  CalmInv'
    <2>1. agent'[a] = row /\ \A h \in Agents \ {a} : agent'[h] = agent[h]
      BY <1>2, <1>4
    <2>2. HeldUnchanged(j)
      <3>1. Needs(j).names = {ws}
        BY <1>1, <1>4 DEF Needs, Rows
      <3>2. \A k \in Jobs \ {j} : ws \notin job[k].names /\ a \notin job[k].agents
        BY <1>1, <1>2, <1>4, <3>1, Unblocked
      <3> QED BY <1>1, <1>2, <1>4, <2>1, <3>2 DEF HeldUnchanged, AgentsIn
    <2>3. Effects(j)
      <3>1. AgentEffect(j)
        BY <1>1, <1>4, <2>1 DEF AgentEffect, AgentsOf
      <3>2. OwnerEffect(j) /\ TaskEffect(j) /\ HistoryGrows
        BY <1>1 DEF OwnerEffect, TaskEffect, TasksIn, HistoryGrows
      <3> QED BY <2>2, <3>1, <3>2 DEF Effects
    <2>4. Moves(j, IdleJob)
      BY <1>1, <2>3, IdleIsSound DEF Moves, Ends, Continues
    <2>5. Started' = Started
      BY <1>1 DEF Started
    <2>6. HomesExist' /\ TaskFollowsWorkspace'
      BY <1>1, <1>4, <2>1, <2>5 DEF CalmInv, HomesExist, TaskFollowsWorkspace
    <2>7. DefaultAgentIsHome'
      <3>1. row.origin = "default" /\ ws \notin disturbed => workspace[ws] = user
        BY <1>1, <1>2, <1>4 DEF Keeps, CountsOn, Calm, Started
      <3> QED BY <1>1, <1>4, <2>1, <3>1 DEF CalmInv, DefaultAgentIsHome
    <2>8. FolderKept(j, IdleJob)
      BY <1>1, FolderStays
    <2> QED BY <2>4, <2>6, <2>7, <2>8, IdleKeeps, StepCalm DEF TablesCalm
  <1> QED BY <1>3, <1>4 DEF InsertAgent, Free

\* DeleteWorkspace, with the cascade.
LEMMA DeleteCalm == ASSUME CalmInv, WsInv', NEW j \in Jobs, DeleteWorkspace(j) PROVE CalmInv'
  <1> DEFINE ws == job[j].ws
  <1>1. /\ job[j].pc = "delete" /\ BlockedBy(j) = {}
        /\ UNCHANGED <<users, task, folder, disturbed>>
    BY DEF DeleteWorkspace, At
  <1>2. /\ Keeps(job[j]) /\ job[j] \in Job /\ ws \in Names /\ NoUser \notin Users
        /\ workspace \in [Names -> Users \cup {NoUser}]
        /\ agent \in [Agents -> AgentRow \cup {NoAgent}] /\ job[j].names = {}
        /\ \A k \in Jobs : job[k].names \subseteq Names /\ job[k].agents \subseteq Agents
    BY <1>1, CalmTypes DEF Sound, Claiming, Job
  <1>3. CASE ws \in Started
    <2>1. /\ workspace' = [workspace EXCEPT ![ws] = NoUser]
          /\ agent' = [a \in Agents |-> IF a \in AgentsIn(ws) THEN NoAgent ELSE agent[a]]
          /\ deleted' = deleted \cup {ws} /\ Goes(j, "unfolder")
      BY <1>3 DEF DeleteWorkspace
    <2>2. PICK b \in Job : /\ Becomes(j, b) /\ b.pc = "unfolder"
                           /\ b.kind = job[j].kind /\ b.user = job[j].user
                           /\ b.ws = ws /\ b.next = job[j].next
                           /\ b.names = {}
      BY <1>2, <2>1, NextPlace DEF Steps
    <2>3. workspace'[ws] = NoUser /\ \A n \in Names \ {ws} : workspace'[n] = workspace[n]
      BY <1>2, <2>1
    <2>4. /\ \A a \in Agents : agent'[a] # NoAgent =>
                agent'[a] = agent[a] /\ agent[a] # NoAgent /\ agent[a].home # ws
          /\ \A a \in Agents \ AgentsIn(ws) : agent'[a] = agent[a]
      BY <2>1 DEF AgentsIn
    <2>5. KindSound(b)'
      BY <1>1, <1>2, <2>2 DEF Keeps, KindSound, Purging, Renaming, Claiming
    <2>6. CountsOn(b)' /\ HoldsAll(b)'
      BY <2>2, <2>3 DEF CountsOn, HoldsAll, Claiming, Purging, Started
    <2>7. HeldUnchanged(j)
      <3>1. Needs(j).names = {ws} /\ Needs(j).agents = AgentsIn(ws)
        BY <1>1, <1>3, NeededRows
      <3>2. \A k \in Jobs \ {j} : ws \notin job[k].names /\ job[k].agents \cap AgentsIn(ws) = {}
        BY <1>1, <3>1, Unblocked
      <3> QED BY <1>2, <2>3, <2>4, <3>2 DEF HeldUnchanged, AgentsIn
    <2>8. Effects(j)
      <3>1. OwnerEffect(j)
        BY <1>1, <1>2, <2>3 DEF OwnerEffect, Named, Purging
      <3>2. AgentEffect(j)
        BY <2>4 DEF AgentEffect, AgentsOf
      <3>3. TaskEffect(j) /\ HistoryGrows
        BY <1>1, <2>1 DEF TaskEffect, TasksIn, HistoryGrows
      <3> QED BY <2>7, <3>1, <3>2, <3>3 DEF Effects
    <2>9. Moves(j, b)
      BY <1>1, <2>2, <2>8 DEF Moves, Continues, Relying, Claiming
    <2>10. Started' = Started \ {ws}
      BY <1>2, <2>3 DEF Started
    <2>11. FolderKept(j, b)
      BY <1>1, <2>2, <2>10 DEF FolderKept, Owing
    <2>12. HomesExist' /\ TaskFollowsWorkspace'
      BY <1>1, <2>1, <2>4, <2>10 DEF CalmInv, HomesExist, TaskFollowsWorkspace
    <2>13. DefaultAgentIsHome'
      <3>1. \A a \in Agents : agent[a] # NoAgent => agent[a].home \in Names
        BY DEF CalmInv, HomesExist, Started
      <3> QED BY <1>1, <2>3, <2>4, <3>1 DEF CalmInv, DefaultAgentIsHome
    <2> QED BY <2>5, <2>6, <2>9, <2>11, <2>12, <2>13, StepCalm DEF Keeps, TablesCalm
  <1>4. CASE ws \notin Started
    <2>1. Ends(j) /\ UNCHANGED <<workspace, agent, deleted>>
      BY <1>4 DEF DeleteWorkspace
    <2>2. Quiet
      BY <1>1, <2>1, UnchangedIsQuiet
    <2> QED BY <1>1, <2>1, <2>2, FolderStays, EndsCalm
  <1> QED BY <1>3, <1>4

-----------------------------------------------------------------------------
\* A rename, up to its commit.
LEMMA LookCalm == ASSUME CalmInv, WsInv', NEW j \in Jobs, LookAtNames(j) PROVE CalmInv'
  <1>1. job[j].pc = "look" /\ UNCHANGED <<tables, folder, history>>
    BY DEF LookAtNames, At
  <1>2. UNCHANGED <<users, workspace, agent, task, folder, disturbed, deleted>>
    BY <1>1 DEF tables, history
  <1>3. CASE Ends(j)
    BY <1>1, <1>2, <1>3, UnchangedIsQuiet, FolderStays, EndsCalm
  <1>4. CASE workspace[job[j].ws] = job[j].user /\ Goes(j, "claim")
    <2>1. Keeps(job[j]) /\ Sound(job[j]) /\ "claim" \in Steps
      BY CalmTypes DEF Steps
    <2>2. PICK b \in Job : /\ Becomes(j, b) /\ b.pc = "claim"
                           /\ b.kind = job[j].kind /\ b.user = job[j].user
                           /\ b.ws = job[j].ws /\ b.next = job[j].next
                           /\ b.names = job[j].names
      BY <1>4, <2>1, NextPlace
    <2>3. KindSound(b)
      BY <1>1, <2>1, <2>2 DEF Keeps, KindSound, Purging, Renaming, Claiming
    <2>4. CountsOn(b) /\ HoldsAll(b)
      BY <1>1, <1>4, <2>1, <2>2 DEF CountsOn, HoldsAll, Claiming, Purging, Sound
    <2> QED BY <1>1, <2>2, <2>3, <2>4, HoldCalm DEF Keeps, Relying
  <1> QED BY <1>3, <1>4 DEF LookAtNames

\* A name without a row is home to nobody.
LEMMA NobodyHome ==
    ASSUME CalmInv, NEW n \in Names, n \notin Started PROVE AgentsIn(n) = {}
  BY DEF CalmInv, HomesExist, AgentsIn

LEMMA ClaimCalm == ASSUME CalmInv, WsInv', NEW j \in Jobs, ClaimName(j) PROVE CalmInv'
  <1>1. job[j].pc = "claim" /\ UNCHANGED <<tables, folder, history>>
    BY DEF ClaimName, At
  <1>2. UNCHANGED <<users, workspace, agent, task, folder, disturbed, deleted>>
    BY <1>1 DEF tables, history
  <1>3. CASE Ends(j)
    BY <1>1, <1>2, <1>3, UnchangedIsQuiet, FolderStays, EndsCalm
  <1>4. CASE job[j].next \notin Started
    <2>1. /\ Keeps(job[j]) /\ Sound(job[j]) /\ job[j] \in Job
          /\ job[j].next \in Names /\ "moveAgents" \in Steps
      BY <1>1, CalmTypes DEF Sound, Renaming, Steps
    <2>2. [job[j] EXCEPT !.pc = "moveAgents", !.names = {job[j].next}] \in Job
      BY <2>1 DEF Job
    <2>3. PICK b \in Job : b = [job[j] EXCEPT !.pc = "moveAgents", !.names = {job[j].next}]
      BY <2>2
    <2>4. /\ Becomes(j, b) /\ b.pc = "moveAgents"
          /\ b.kind = job[j].kind /\ b.user = job[j].user
          /\ b.ws = job[j].ws /\ b.next = job[j].next
          /\ b.names = {job[j].next} /\ b.agents = job[j].agents
      BY <1>4, <2>1, <2>3 DEF ClaimName, Job
    <2>5. KindSound(b)
      BY <1>1, <2>1, <2>4 DEF Keeps, KindSound, Purging, Renaming, Claiming
    <2>6. CountsOn(b)
      BY <1>1, <2>1, <2>4 DEF Keeps, CountsOn, Claiming
    <2>7. HoldsAll(b)
      BY <1>4, <2>1, <2>4, NobodyHome DEF HoldsAll, Purging
    <2> QED BY <1>1, <2>4, <2>5, <2>6, <2>7, HoldCalm DEF Keeps, Relying
  <1> QED BY <1>3, <1>4 DEF ClaimName

LEMMA MoveAgentsCalm == ASSUME CalmInv, WsInv', NEW j \in Jobs, MoveAgents(j) PROVE CalmInv'
  <1>1. /\ job[j].pc = "moveAgents" /\ UNCHANGED <<tables, folder, history>>
        /\ Keeps(job[j]) /\ job[j] \in Job /\ "moveTasks" \in Steps
        /\ job[j].next \in Names \ Started
    BY CalmTypes DEF MoveAgents, At, Steps, Sound, Renaming, Claiming, CalmInv, WsInv,
                     JobInv, ClaimsAreFree, Started
  <1>2. AgentsIn(job[j].ws) \subseteq Agents
    BY DEF AgentsIn
  <1>3. [job[j] EXCEPT !.pc = "moveTasks", !.agents = AgentsIn(job[j].ws)] \in Job
    BY <1>1, <1>2 DEF Job
  <1>4. PICK b \in Job : b = [job[j] EXCEPT !.pc = "moveTasks", !.agents = AgentsIn(job[j].ws)]
    BY <1>3
  <1>5. /\ Becomes(j, b) /\ b.pc = "moveTasks"
        /\ b.kind = job[j].kind /\ b.user = job[j].user
        /\ b.ws = job[j].ws /\ b.next = job[j].next
        /\ b.names = job[j].names /\ b.agents = AgentsIn(job[j].ws)
    BY <1>1, <1>4 DEF MoveAgents, Job
  <1>6. KindSound(b)
    BY <1>1, <1>5 DEF Keeps, KindSound, Purging, Renaming, Claiming
  <1>7. CountsOn(b)
    BY <1>1, <1>5 DEF Keeps, CountsOn, Claiming
  <1>8. b.names = {job[j].next}
    BY <1>1, <1>5 DEF Keeps, KindSound, Claiming
  <1>9. HoldsAll(b)
    BY <1>1, <1>5, <1>8, NobodyHome DEF HoldsAll, Purging, AgentsIn
  <1> QED BY <1>1, <1>5, <1>6, <1>7, <1>9, HoldCalm DEF Keeps, Relying, Claiming

LEMMA MoveTasksCalm == ASSUME CalmInv, WsInv', NEW j \in Jobs, MoveTasks(j) PROVE CalmInv'
  <1>1. /\ job[j].pc = "moveTasks" /\ UNCHANGED <<tables, folder, history>>
        /\ Keeps(job[j]) /\ job[j] \in Job /\ "dropOld" \in Steps
    BY CalmTypes DEF MoveTasks, At, Steps
  <1>2. TasksIn(job[j].ws) \subseteq Tasks
    BY DEF TasksIn
  <1>3. [job[j] EXCEPT !.pc = "dropOld", !.tasks = TasksIn(job[j].ws)] \in Job
    BY <1>1, <1>2 DEF Job
  <1>4. PICK b \in Job : b = [job[j] EXCEPT !.pc = "dropOld", !.tasks = TasksIn(job[j].ws)]
    BY <1>3
  <1>5. /\ Becomes(j, b) /\ b.pc = "dropOld"
        /\ b.kind = job[j].kind /\ b.user = job[j].user
        /\ b.ws = job[j].ws /\ b.next = job[j].next
        /\ b.names = job[j].names /\ b.agents = job[j].agents
        /\ b.tasks = TasksIn(job[j].ws)
    BY <1>1, <1>4 DEF MoveTasks, Job
  <1>6. KindSound(b)
    BY <1>1, <1>5 DEF Keeps, KindSound, Purging, Renaming, Claiming
  <1>7. CountsOn(b)
    BY <1>1, <1>5 DEF Keeps, CountsOn, Claiming
  <1>8. HoldsAll(b)
    BY <1>1, <1>5 DEF Keeps, HoldsAll, Purging
  <1> QED BY <1>1, <1>5, <1>6, <1>7, <1>8, HoldCalm DEF Keeps, Relying, Claiming

LEMMA DropCalm == ASSUME CalmInv, WsInv', NEW j \in Jobs, DropOldName(j) PROVE CalmInv'
  <1> DEFINE ws == job[j].ws  late == AgentsIn(job[j].ws) \ job[j].agents
  <1>1. /\ job[j].pc = "dropOld" /\ UNCHANGED <<tables, folder, history>>
        /\ Keeps(job[j]) /\ job[j] \in Job /\ "commit" \in Steps /\ ws \in Names
    BY CalmTypes DEF DropOldName, At, Steps, Sound, Renaming, Claiming
  <1>2. late \subseteq Agents /\ \A a \in late : agent[a].home = ws
    BY DEF AgentsIn
  <1>3. CASE workspace[ws] = job[j].user
    <2>1. Becomes(j, [job[j] EXCEPT !.pc = "commit", !.names = @ \cup {ws},
                                    !.agents = @ \cup late, !.lost = late])
      BY <1>3 DEF DropOldName
    <2>2. AgentsIn(ws) \subseteq job[j].agents \cup late
      OBVIOUS
    <2> HIDE DEF late
    <2>3. [job[j] EXCEPT !.pc = "commit", !.names = @ \cup {ws},
                         !.agents = @ \cup late, !.lost = late] \in Job
      BY <1>1, <1>2 DEF Job
    <2>4. PICK b \in Job : b = [job[j] EXCEPT !.pc = "commit", !.names = @ \cup {ws},
                                              !.agents = @ \cup late, !.lost = late]
      BY <2>3
    <2>5. /\ Becomes(j, b) /\ b.pc = "commit"
          /\ b.kind = job[j].kind /\ b.user = job[j].user
          /\ b.ws = ws /\ b.next = job[j].next
          /\ b.names = job[j].names \cup {ws} /\ b.agents = job[j].agents \cup late
          /\ b.tasks = job[j].tasks
      BY <1>1, <2>1, <2>4 DEF Job
    <2>6. KindSound(b)
      BY <1>1, <2>5 DEF Keeps, KindSound, Purging, Renaming, Claiming
    <2>7. CountsOn(b)
      BY <1>1, <2>5 DEF Keeps, CountsOn, Claiming
    <2>8. HoldsAll(b)
      BY <1>1, <1>2, <2>2, <2>5 DEF Keeps, HoldsAll, Purging
    <2> QED BY <1>1, <2>5, <2>6, <2>7, <2>8, HoldCalm DEF Keeps, Relying, Claiming
  <1>4. CASE workspace[ws] # job[j].user
    <2>1. Goes(j, "commit")
      BY <1>4 DEF DropOldName
    <2>2. PICK b \in Job : /\ Becomes(j, b) /\ b.pc = "commit"
                           /\ b.kind = job[j].kind /\ b.user = job[j].user
                           /\ b.ws = ws /\ b.next = job[j].next
                           /\ b.names = job[j].names /\ b.agents = job[j].agents
                           /\ b.tasks = job[j].tasks
      BY <1>1, <2>1, NextPlace
    <2>3. KindSound(b)
      BY <1>1, <2>2 DEF Keeps, KindSound, Purging, Renaming, Claiming
    <2>4. CountsOn(b)
      BY <1>1, <1>4, <2>2 DEF Keeps, CountsOn, Claiming
    <2>5. HoldsAll(b)
      BY <1>1, <2>2 DEF Keeps, HoldsAll, Purging
    <2> QED BY <1>1, <2>2, <2>3, <2>4, <2>5, HoldCalm DEF Keeps, Relying, Claiming
  <1> QED BY <1>3, <1>4

-----------------------------------------------------------------------------
\* The removal of a user, up to its commit.
LEMMA PurgeTasksCalm == ASSUME CalmInv, WsInv', NEW j \in Jobs, PurgeTasks(j) PROVE CalmInv'
  <1> DEFINE held == UNION {TasksIn(n) : n \in OwnedBy(job[j].user)}
  <1>1. /\ job[j].pc = "purgeTasks" /\ UNCHANGED <<tables, folder, history>>
        /\ Keeps(job[j]) /\ job[j] \in Job /\ "purgeAgents" \in Steps
        /\ Becomes(j, [job[j] EXCEPT !.pc = "purgeAgents", !.tasks = held])
    BY CalmTypes DEF PurgeTasks, At, Steps
  <1>2. held \subseteq Tasks /\ \A n \in OwnedBy(job[j].user) : TasksIn(n) \subseteq held
    BY DEF TasksIn
  <1> HIDE DEF held
  <1>3. [job[j] EXCEPT !.pc = "purgeAgents", !.tasks = held] \in Job
    BY <1>1, <1>2 DEF Job
  <1>4. PICK b \in Job : b = [job[j] EXCEPT !.pc = "purgeAgents", !.tasks = held]
    BY <1>3
  <1>5. /\ Becomes(j, b) /\ b.pc = "purgeAgents"
        /\ b.kind = job[j].kind /\ b.user = job[j].user
        /\ b.ws = job[j].ws /\ b.next = job[j].next
        /\ b.names = job[j].names /\ b.agents = job[j].agents /\ b.tasks = held
    BY <1>1, <1>4 DEF Job
  <1>6. KindSound(b)
    BY <1>1, <1>5 DEF Keeps, KindSound, Purging, Renaming, Claiming
  <1>7. CountsOn(b)
    BY <1>5 DEF CountsOn, Claiming
  <1>8. HoldsAll(b)
    BY <1>1, <1>2, <1>5 DEF Keeps, HoldsAll, Purging
  <1> QED BY <1>1, <1>5, <1>6, <1>7, <1>8, HoldCalm DEF Keeps, Relying, Claiming

LEMMA PurgeAgentsCalm == ASSUME CalmInv, WsInv', NEW j \in Jobs, PurgeAgents(j) PROVE CalmInv'
  <1>1. /\ job[j].pc = "purgeAgents" /\ UNCHANGED <<tables, folder, history>>
        /\ Keeps(job[j]) /\ job[j] \in Job /\ "purgeSpaces" \in Steps
        /\ job[j].names = {}
    BY CalmTypes DEF PurgeAgents, At, Steps, Sound, Claiming
  <1>2. AgentsOf(job[j].user) \subseteq Agents
    BY DEF AgentsOf
  <1>3. [job[j] EXCEPT !.pc = "purgeSpaces", !.agents = AgentsOf(job[j].user)] \in Job
    BY <1>1, <1>2 DEF Job
  <1>4. PICK b \in Job :
          b = [job[j] EXCEPT !.pc = "purgeSpaces", !.agents = AgentsOf(job[j].user)]
    BY <1>3
  <1>5. /\ Becomes(j, b) /\ b.pc = "purgeSpaces"
        /\ b.kind = job[j].kind /\ b.user = job[j].user
        /\ b.ws = job[j].ws /\ b.next = job[j].next
        /\ b.names = {} /\ b.agents = AgentsOf(job[j].user) /\ b.tasks = job[j].tasks
    BY <1>1, <1>4 DEF PurgeAgents, Job
  <1>6. KindSound(b)
    BY <1>1, <1>5 DEF Keeps, KindSound, Purging, Renaming, Claiming
  <1>7. CountsOn(b)
    BY <1>5 DEF CountsOn, Claiming
  <1>8. HoldsAll(b)
    BY <1>1, <1>5 DEF Keeps, HoldsAll, Purging
  <1> QED BY <1>1, <1>5, <1>6, <1>7, <1>8, HoldCalm DEF Keeps, Relying, Claiming

LEMMA PurgeSpacesCalm == ASSUME CalmInv, WsInv', NEW j \in Jobs, PurgeSpaces(j) PROVE CalmInv'
  <1> DEFINE mine == OwnedBy(job[j].user)  cascade == InAny(OwnedBy(job[j].user))
  <1>1. /\ job[j].pc = "purgeSpaces" /\ UNCHANGED <<tables, folder, history>>
        /\ Keeps(job[j]) /\ job[j] \in Job /\ "purgeUser" \in Steps
        /\ Becomes(j, [job[j] EXCEPT !.pc = "purgeUser", !.names = mine,
                                     !.agents = @ \cup cascade])
    BY CalmTypes DEF PurgeSpaces, At, Steps
  <1>2. /\ mine \subseteq Names /\ cascade \subseteq Agents /\ mine = OwnedBy(job[j].user)
        /\ \A n \in mine : AgentsIn(n) \subseteq cascade
    BY DEF OwnedBy, InAny, AgentsIn
  <1> HIDE DEF mine, cascade
  <1>3. [job[j] EXCEPT !.pc = "purgeUser", !.names = mine, !.agents = @ \cup cascade] \in Job
    BY <1>1, <1>2 DEF Job
  <1>4. PICK b \in Job :
          b = [job[j] EXCEPT !.pc = "purgeUser", !.names = mine, !.agents = @ \cup cascade]
    BY <1>3
  <1>5. /\ Becomes(j, b) /\ b.pc = "purgeUser"
        /\ b.kind = job[j].kind /\ b.user = job[j].user
        /\ b.ws = job[j].ws /\ b.next = job[j].next
        /\ b.names = mine /\ b.agents = job[j].agents \cup cascade
        /\ b.tasks = job[j].tasks
    BY <1>1, <1>4 DEF Job
  <1>6. KindSound(b)
    BY <1>1, <1>5 DEF Keeps, KindSound, Purging, Renaming, Claiming
  <1>7. CountsOn(b)
    BY <1>5 DEF CountsOn, Claiming
  <1>8. HoldsAll(b)
    BY <1>1, <1>2, <1>5 DEF Keeps, HoldsAll, Purging
  <1> QED BY <1>1, <1>5, <1>6, <1>7, <1>8, HoldCalm DEF Keeps, Relying, Claiming

-----------------------------------------------------------------------------
\* SubmitTask: the workspace was there when it was chosen.
LEMMA ChooseCalm == ASSUME CalmInv, WsInv', NEW j \in Jobs, ChooseWorkspace(j) PROVE CalmInv'
  <1>1. /\ job[j].pc = "choose" /\ Keeps(job[j]) /\ Sound(job[j]) /\ job[j] \in Job
        /\ UNCHANGED <<users, workspace, agent, task, folder, deleted>> /\ NoUser \notin Users
    BY CalmTypes DEF ChooseWorkspace, At, tables
  <1>2. disturbed \subseteq disturbed'
    BY DEF ChooseWorkspace, Disturb
  <1>3. Quiet
    BY <1>1, <1>2, UnchangedIsQuiet
  <1>4. CASE Ends(j)
    BY <1>1, <1>3, <1>4, FolderStays, EndsCalm
  <1>5. ASSUME NEW n \in OwnedBy(job[j].user),
               Becomes(j, [job[j] EXCEPT !.pc = "bind", !.ws = n]),
               Disturb(j, [job[j] EXCEPT !.pc = "bind", !.ws = n])
        PROVE  CalmInv'
    <2>1. n \in Names /\ workspace[n] = job[j].user /\ job[j].user \in Users
      BY <1>1 DEF OwnedBy, Keeps, KindSound
    <2>2. [job[j] EXCEPT !.pc = "bind", !.ws = n] \in Job
      BY <1>1, <2>1 DEF Job, Steps
    <2>3. PICK b \in Job : b = [job[j] EXCEPT !.pc = "bind", !.ws = n]
      BY <2>2
    <2>4. /\ b.pc = "bind" /\ b.ws = n /\ b.kind = job[j].kind /\ b.user = job[j].user
          /\ b.names = {}
      BY <1>1, <2>3 DEF Job, Sound, Claiming
    <2>5. Becomes(j, b) /\ Continues(j, b)
      BY <1>1, <1>5, <2>3, <2>4 DEF Continues
    <2>6. KindSound(b)'
      BY <1>1, <1>2, <2>4 DEF Keeps, KindSound, Purging, Renaming, Claiming
    <2>7. CountsOn(b)' /\ HoldsAll(b)'
      BY <1>1, <2>1, <2>4 DEF CountsOn, HoldsAll, Claiming, Purging, Started
    <2> QED BY <1>1, <1>3, <2>5, <2>6, <2>7, FolderStays, QuietCalm DEF Keeps
  <1> QED BY <1>4, <1>5 DEF ChooseWorkspace

\* The task may have been withdrawn; what it names was there, or its end is noted.
LEMMA BindCalm == ASSUME CalmInv, WsInv', NEW j \in Jobs, BindTask(j) PROVE CalmInv'
  <1> DEFINE t == job[j].task  ws == job[j].ws
  <1>1. /\ job[j].pc = "bind" /\ Ends(j) /\ Keeps(job[j]) /\ t \in Tasks /\ ws \in Names
        /\ UNCHANGED <<users, workspace, agent, folder, disturbed, deleted>>
        /\ task \in [Tasks -> Names \cup {NoName, NoTask}]
        /\ ws \in Started \cup disturbed \cup deleted
    BY CalmTypes DEF BindTask, At, history, Sound, Keeps, CountsOn
  <1>2. /\ \A i \in Tasks \ {t} : task'[i] = task[i]
        /\ task'[t] \in {task[t], ws}
    BY <1>1 DEF BindTask
  <1>3. Effects(j)
    <2>1. HeldUnchanged(j)
      BY <1>1 DEF HeldUnchanged, AgentsIn
    <2>2. OwnerEffect(j) /\ AgentEffect(j) /\ HistoryGrows
      BY <1>1 DEF OwnerEffect, AgentEffect, AgentsOf, HistoryGrows
    <2>3. \A n \in Names \ {ws} : TasksIn(n)' \subseteq TasksIn(n)
      BY <1>1, <1>2 DEF TasksIn
    <2>4. TaskEffect(j)
      BY <1>1, <2>3 DEF TaskEffect
    <2> QED BY <2>1, <2>2, <2>4 DEF Effects
  <1>4. Moves(j, IdleJob)
    BY <1>1, <1>3, IdleIsSound DEF Moves, Ends, Continues
  <1>5. FolderKept(j, IdleJob)
    BY <1>1, FolderStays
  <1>6. HomesExist' /\ DefaultAgentIsHome'
    BY <1>1 DEF CalmInv, HomesExist, Started, DefaultAgentIsHome
  <1>7. TaskFollowsWorkspace'
    BY <1>1, <1>2 DEF CalmInv, TaskFollowsWorkspace, Started
  <1> QED BY <1>4, <1>5, <1>6, <1>7, IdleKeeps, StepCalm DEF TablesCalm

-----------------------------------------------------------------------------
\* The commit of a rename: what refers to the old name refers to the new one.
LEMMA CommitFacts ==
    ASSUME CalmInv, NEW j \in Jobs, CommitRename(j)
    PROVE  LET b == job[j] IN
           /\ b.pc = "commit" /\ Keeps(b) /\ b \in Job
           /\ b.ws \in Names /\ b.next \in Names /\ b.user \in Users /\ b.ws # b.next
           /\ b.next \in b.names /\ workspace[b.next] = NoUser
           /\ AgentsIn(b.next) = {}
           /\ workspace'[b.next] = b.user
           /\ b.ws \in b.names => workspace'[b.ws] = NoUser
           /\ b.ws \notin b.names => workspace'[b.ws] = workspace[b.ws]
           /\ \A n \in Names \ {b.next, b.ws} : workspace'[n] = workspace[n]
           /\ \A a \in Agents \ b.agents : agent'[a] = agent[a]
           /\ \A a \in b.agents : agent'[a] # NoAgent =>
                 /\ agent[a] # NoAgent /\ agent[a].home = b.ws
                 /\ agent'[a].home = b.next /\ agent'[a].owner = agent[a].owner
                 /\ agent'[a].origin = agent[a].origin
           /\ \A t \in Tasks : task'[t] = IF t \in b.tasks THEN b.next ELSE task[t]
           /\ UNCHANGED <<users, folder, deleted>> /\ disturbed \subseteq disturbed'
           /\ b.ws \in disturbed => b.next \in disturbed'
           /\ Calm(b.ws) => b.ws \in b.names /\ workspace[b.ws] = b.user
  <1> DEFINE b == job[j]
  <1>1. /\ b.pc = "commit" /\ Keeps(b) /\ b \in Job
        /\ b.ws \in Names /\ b.next \in Names /\ b.user \in Users
        /\ workspace \in [Names -> Users \cup {NoUser}]
        /\ agent \in [Agents -> AgentRow \cup {NoAgent}]
        /\ b.lost \subseteq b.agents /\ b.agents \subseteq Agents
    BY CalmTypes DEF CommitRename, At, Sound, Renaming, Claiming, Job
  <1>2. /\ b.ws # b.next /\ b.names \subseteq {b.next, b.ws}
        /\ \A a \in b.agents : agent[a].home = b.ws
        /\ Calm(b.ws) => b.ws \in b.names /\ workspace[b.ws] = b.user
    BY <1>1 DEF Keeps, KindSound, CountsOn, HoldsAll, Renaming, Claiming
  <1>3. /\ b.next \in b.names /\ workspace[b.next] = NoUser
        /\ \A a \in b.agents : agent[a] # NoAgent
    BY <1>1 DEF CalmInv, WsInv, JobInv, ClaimsAreFree, HeldAgentsExist, Claiming
  <1>4. AgentsIn(b.next) = {}
    BY <1>1, <1>3, NobodyHome DEF Started
  <1>5. /\ \A n \in Names : workspace'[n] = IF n = b.next THEN b.user
                                            ELSE IF n \in b.names THEN NoUser
                                            ELSE workspace[n]
        /\ \A t \in Tasks : task'[t] = IF t \in b.tasks THEN b.next ELSE task[t]
        /\ UNCHANGED <<users, folder, deleted>>
        /\ disturbed' = disturbed \cup (IF b.ws \in disturbed THEN {b.next} ELSE {})
    BY DEF CommitRename
  <1>6. \A a \in Agents : agent'[a] = IF a \in b.lost THEN NoAgent
                                      ELSE IF a \in b.agents
                                           THEN [agent[a] EXCEPT !.home = b.next]
                                      ELSE agent[a]
    BY DEF CommitRename
  <1>7. \A a \in Agents \ b.agents : agent'[a] = agent[a]
    BY <1>1, <1>6
  <1>8. ASSUME NEW a \in b.agents, agent'[a] # NoAgent
        PROVE  /\ agent'[a].home = b.next /\ agent'[a].owner = agent[a].owner
               /\ agent'[a].origin = agent[a].origin
    <2>1. agent'[a] = [agent[a] EXCEPT !.home = b.next] /\ agent[a] \in AgentRow
      BY <1>1, <1>3, <1>6, <1>8
    <2> QED BY <2>1 DEF AgentRow
  <1> QED BY <1>1, <1>2, <1>3, <1>4, <1>5, <1>7, <1>8

LEMMA CommitCalm == ASSUME CalmInv, WsInv', NEW j \in Jobs, CommitRename(j) PROVE CalmInv'
  <1> DEFINE b == job[j]
  <1>1. /\ b.pc = "commit" /\ Keeps(b) /\ b \in Job
        /\ b.ws \in Names /\ b.next \in Names /\ b.user \in Users /\ b.ws # b.next
        /\ b.next \in b.names /\ workspace[b.next] = NoUser
        /\ AgentsIn(b.next) = {} /\ NoUser \notin Users
    BY CommitFacts, CalmTypes
  <1>2. /\ workspace'[b.next] = b.user
        /\ b.ws \in b.names => workspace'[b.ws] = NoUser
        /\ b.ws \notin b.names => workspace'[b.ws] = workspace[b.ws]
        /\ \A n \in Names \ {b.next, b.ws} : workspace'[n] = workspace[n]
    BY CommitFacts
  <1>3. /\ \A a \in Agents \ b.agents : agent'[a] = agent[a]
        /\ \A a \in b.agents : agent'[a] # NoAgent =>
              /\ agent[a] # NoAgent /\ agent[a].home = b.ws
              /\ agent'[a].home = b.next /\ agent'[a].owner = agent[a].owner
              /\ agent'[a].origin = agent[a].origin
    BY CommitFacts
  <1>4. /\ \A t \in Tasks : task'[t] = IF t \in b.tasks THEN b.next ELSE task[t]
        /\ UNCHANGED <<users, folder, deleted>> /\ disturbed \subseteq disturbed'
        /\ b.ws \in disturbed => b.next \in disturbed'
        /\ Calm(b.ws) => b.ws \in b.names /\ workspace[b.ws] = b.user
    BY CommitFacts
  <1>5. PICK c \in Job : /\ Becomes(j, c) /\ c.pc = "moveFolder"
                         /\ c.kind = b.kind /\ c.user = b.user
                         /\ c.ws = b.ws /\ c.next = b.next /\ c.names = {}
    <2>1. [b EXCEPT !.pc = "moveFolder", !.names = {}, !.agents = {},
                    !.tasks = {}, !.lost = {}] \in Job
      BY <1>1 DEF Job, Steps
    <2>2. PICK c \in Job : c = [b EXCEPT !.pc = "moveFolder", !.names = {}, !.agents = {},
                                         !.tasks = {}, !.lost = {}]
      BY <2>1
    <2>3. /\ c.pc = "moveFolder" /\ c.kind = b.kind /\ c.user = b.user
          /\ c.ws = b.ws /\ c.next = b.next /\ c.names = {}
      BY <1>1, <2>2 DEF Job
    <2> QED BY <2>2, <2>3 DEF CommitRename
  <1>6. KindSound(c)'
    BY <1>1, <1>4, <1>5 DEF Keeps, KindSound, Purging, Renaming, Claiming
  <1>7. CountsOn(c)' /\ HoldsAll(c)'
    <2>1. b.ws \notin disturbed' => workspace'[b.ws] = NoUser
      BY <1>1, <1>2, <1>4 DEF Calm
    <2>2. CountsOn(c)'
      BY <1>5, <2>1 DEF CountsOn, Claiming, Started, Calm
    <2>3. HoldsAll(c)'
      BY <1>5 DEF HoldsAll, Purging
    <2> QED BY <2>2, <2>3
  <1>8. AgentsIn(b.ws) \subseteq b.agents \/ b.ws \notin b.names
    BY <1>1 DEF Keeps, HoldsAll
  <1>9. HeldUnchanged(j)
    <2> SUFFICES ASSUME NEW k \in Jobs \ {j}
                 PROVE  /\ \A n \in job[k].names : /\ workspace'[n] = workspace[n]
                                                   /\ AgentsIn(n)' \subseteq AgentsIn(n)
                        /\ \A a \in job[k].agents : agent'[a] = agent[a]
      BY DEF HeldUnchanged
    <2>1. /\ job[k].names \subseteq Names /\ job[k].agents \subseteq Agents
          /\ b.names \cap job[k].names = {} /\ b.agents \cap job[k].agents = {}
      BY CalmTypes DEF Job, CalmInv, WsInv, JobInv, HeldApart
    <2>2. \A n \in job[k].names : workspace'[n] = workspace[n] /\ n # b.next
      BY <1>1, <1>2, <2>1
    <2>3. \A n \in Names \ {b.next} : AgentsIn(n)' \subseteq AgentsIn(n)
      BY <1>3 DEF AgentsIn
    <2> QED BY <1>3, <2>1, <2>2, <2>3
  <1>10. Effects(j)
    <2>1. OwnerEffect(j)
      BY <1>1, <1>2, <1>8 DEF OwnerEffect, Named, Purging, Keeps, KindSound, Claiming,
                              CalmInv, WsInv, WsTypeOK
    <2>2. AgentEffect(j)
      BY <1>3 DEF AgentEffect, AgentsOf
    <2>3. TaskEffect(j)
      <3>1. \A n \in Names \ {b.next} : TasksIn(n)' \subseteq TasksIn(n)
        BY <1>4 DEF TasksIn
      <3>2. b.next \notin disturbed' => Calm(b.ws)
        BY <1>1, <1>4 DEF Calm
      <3>3. ASSUME NEW n \in Names, n = b.next, Calm(n)' PROVE Calm(b.ws)
        BY <3>2, <3>3 DEF Calm
      <3> QED BY <1>1, <3>1, <3>3 DEF TaskEffect
    <2>4. HistoryGrows
      BY <1>4 DEF HistoryGrows
    <2> QED BY <1>9, <2>1, <2>2, <2>3, <2>4 DEF Effects
  <1>11. Moves(j, c)
    BY <1>1, <1>5, <1>10 DEF Moves, Continues, Relying, Claiming
  <1>12. /\ b.next \in Started'
         /\ \A n \in Started : n \in Started' \/ (n = b.ws /\ b.ws \in b.names)
         /\ \A n \in Started' : n \in Started \/ n = b.next
    BY <1>1, <1>2 DEF Started
  <1>13. FolderKept(j, c)
    BY <1>1, <1>4, <1>5, <1>12 DEF FolderKept, Owing
  <1>14. HomesExist'
    <2> SUFFICES ASSUME NEW a \in Agents, agent'[a] # NoAgent
                 PROVE  agent'[a].home \in Started'
      BY DEF HomesExist
    <2>1. CASE a \in b.agents
      BY <1>3, <1>12, <2>1
    <2>2. CASE a \notin b.agents
      BY <1>3, <1>8, <1>12, <2>2 DEF CalmInv, HomesExist, AgentsIn
    <2> QED BY <2>1, <2>2
  <1>15. TaskFollowsWorkspace'
    <2> SUFFICES ASSUME NEW t \in Tasks, task'[t] \in Names \ (disturbed' \cup deleted')
                 PROVE  task'[t] \in Started'
      BY DEF TaskFollowsWorkspace
    <2>1. CASE t \in b.tasks
      BY <1>4, <1>12, <2>1
    <2>2. CASE t \notin b.tasks
      <3>1. task[t] \in Started /\ task'[t] = task[t]
        BY <1>4, <2>2 DEF CalmInv, TaskFollowsWorkspace
      <3>2. Calm(b.ws) => TasksIn(b.ws) \subseteq b.tasks
        BY <1>1 DEF Keeps, HoldsAll
      <3>3. task[t] # b.ws
        BY <1>1, <1>4, <2>2, <3>1, <3>2 DEF Calm, TasksIn
      <3> QED BY <1>12, <3>1, <3>3
    <2> QED BY <2>1, <2>2
  <1>16. DefaultAgentIsHome'
    <2> SUFFICES ASSUME NEW a \in Agents, agent'[a] # NoAgent, agent'[a].origin = "default",
                        agent'[a].home \notin disturbed'
                 PROVE  workspace'[agent'[a].home] = agent'[a].owner
      BY DEF DefaultAgentIsHome
    <2>1. CASE a \in b.agents
      <3>1. b.ws \notin disturbed
        BY <1>3, <1>4, <2>1
      <3>2. workspace[b.ws] = agent[a].owner
        BY <1>3, <2>1, <3>1 DEF CalmInv, DefaultAgentIsHome
      <3> QED BY <1>1, <1>2, <1>3, <1>4, <2>1, <3>1, <3>2 DEF Calm
    <2>2. CASE a \notin b.agents
      <3>1. agent'[a] = agent[a] /\ agent[a].home \in Started /\ a \in AgentsIn(agent[a].home)
        BY <1>3, <2>2 DEF CalmInv, HomesExist, AgentsIn
      <3>2. workspace[agent[a].home] = agent[a].owner
        BY <1>4, <3>1 DEF CalmInv, DefaultAgentIsHome
      <3>3. /\ agent[a].home # b.next
            /\ agent[a].home = b.ws => b.ws \notin b.names
        BY <1>1, <1>8, <2>2, <3>1 DEF Started
      <3> QED BY <1>2, <3>1, <3>2, <3>3 DEF Started
    <2> QED BY <2>1, <2>2
  <1> QED BY <1>6, <1>7, <1>11, <1>13, <1>14, <1>15, <1>16, StepCalm
          DEF Keeps, TablesCalm

-----------------------------------------------------------------------------
\* The commit of a removal: the rows held are all the user has.
LEMMA PurgeFacts ==
    ASSUME CalmInv, NEW j \in Jobs, PurgeUser(j), job[j].user \in users
    PROVE  LET b == job[j] IN
           /\ b.pc = "purgeUser" /\ Keeps(b) /\ b \in Job /\ b.user \in Users
           /\ b.names \subseteq OwnedBy(b.user)
           /\ \A n \in Names : workspace'[n] = IF n \in b.names THEN NoUser ELSE workspace[n]
           /\ \A a \in Agents : agent'[a] = IF a \in b.agents THEN NoAgent ELSE agent[a]
           /\ \A t \in Tasks : task'[t] = IF t \in b.tasks THEN NoTask ELSE task[t]
           /\ users' = users \ {b.user} /\ UNCHANGED <<folder, disturbed, deleted>>
           /\ Ends(j)
           /\ \A n \in b.names : AgentsIn(n) \subseteq b.agents
           /\ \A n \in b.names : Calm(n) /\ (n \notin deleted \/ b.user \notin disturbed)
                                    => TasksIn(n) \subseteq b.tasks
           /\ b.user \notin disturbed => /\ OwnedBy(b.user) \subseteq b.names
                                         /\ AgentsOf(b.user) \subseteq b.agents
  <1> DEFINE b == job[j]
  <1>1. b.pc = "purgeUser" /\ Keeps(b) /\ b \in Job
    BY CalmTypes DEF PurgeUser, At
  <1>2. /\ \A n \in Names : workspace'[n] = IF n \in b.names THEN NoUser ELSE workspace[n]
        /\ \A a \in Agents : agent'[a] = IF a \in b.agents THEN NoAgent ELSE agent[a]
        /\ \A t \in Tasks : task'[t] = IF t \in b.tasks THEN NoTask ELSE task[t]
        /\ users' = users \ {b.user} /\ UNCHANGED <<folder, disturbed, deleted>>
        /\ Ends(j)
    BY DEF PurgeUser, history
  <1>3. b.user \in Users
    BY <1>1 DEF Keeps, KindSound, Purging
  <1>4. /\ b.names \subseteq OwnedBy(b.user)
        /\ \A n \in b.names : AgentsIn(n) \subseteq b.agents
        /\ \A n \in OwnedBy(b.user) : Calm(n) /\ (n \notin deleted \/ b.user \notin disturbed)
                                       => TasksIn(n) \subseteq b.tasks
        /\ b.user \notin disturbed => /\ OwnedBy(b.user) \subseteq b.names
                                      /\ AgentsOf(b.user) \subseteq b.agents
    BY <1>1 DEF Keeps, HoldsAll, Purging
  <1> QED BY <1>1, <1>2, <1>3, <1>4

LEMMA PurgeUserCalm == ASSUME CalmInv, WsInv', NEW j \in Jobs, PurgeUser(j) PROVE CalmInv'
  <1> DEFINE b == job[j]
  <1>1. CASE b.user \in users
    <2>1. /\ b.pc = "purgeUser" /\ b.user \in Users /\ Ends(j)
          /\ b.names \subseteq OwnedBy(b.user) /\ NoUser \notin Users
          /\ users' = users \ {b.user} /\ UNCHANGED <<folder, disturbed, deleted>>
          /\ NoTask \notin Names
      BY <1>1, PurgeFacts, WsAssumption
    <2>2. \A n \in Names : workspace'[n] = IF n \in b.names THEN NoUser ELSE workspace[n]
      BY <1>1, PurgeFacts
    <2>3. /\ \A a \in Agents : agent'[a] # NoAgent =>
                agent'[a] = agent[a] /\ agent[a] # NoAgent /\ a \notin b.agents
          /\ \A a \in Agents \ b.agents : agent'[a] = agent[a]
      BY <1>1, PurgeFacts
    <2>4. \A t \in Tasks : task'[t] = IF t \in b.tasks THEN NoTask ELSE task[t]
      BY <1>1, PurgeFacts
    <2>5. /\ \A n \in b.names : AgentsIn(n) \subseteq b.agents
          /\ \A n \in b.names : Calm(n) /\ n \notin deleted => TasksIn(n) \subseteq b.tasks
          /\ b.user \notin disturbed => /\ OwnedBy(b.user) \subseteq b.names
                                        /\ AgentsOf(b.user) \subseteq b.agents
      BY <1>1, PurgeFacts
    <2>6. HeldUnchanged(j)
      <3> SUFFICES ASSUME NEW k \in Jobs \ {j}
                   PROVE  /\ \A n \in job[k].names : /\ workspace'[n] = workspace[n]
                                                     /\ AgentsIn(n)' \subseteq AgentsIn(n)
                          /\ \A a \in job[k].agents : agent'[a] = agent[a]
        BY DEF HeldUnchanged
      <3>1. /\ job[k].names \subseteq Names /\ job[k].agents \subseteq Agents
            /\ b.names \cap job[k].names = {} /\ b.agents \cap job[k].agents = {}
        BY CalmTypes DEF Job, CalmInv, WsInv, JobInv, HeldApart
      <3>2. \A n \in Names : AgentsIn(n)' \subseteq AgentsIn(n)
        BY <2>3 DEF AgentsIn
      <3> QED BY <2>2, <2>3, <3>1, <3>2
    <2>7. Effects(j)
      <3>1. OwnerEffect(j)
        BY <2>1, <2>2 DEF OwnerEffect, OwnedBy
      <3>2. AgentEffect(j)
        BY <2>3 DEF AgentEffect, AgentsOf
      <3>3. TaskEffect(j)
        BY <2>1, <2>4 DEF TaskEffect, TasksIn
      <3>4. HistoryGrows
        BY <2>1 DEF HistoryGrows, Purging
      <3> QED BY <2>6, <3>1, <3>2, <3>3, <3>4 DEF Effects
    <2>8. Moves(j, IdleJob)
      BY <2>1, <2>7, IdleIsSound DEF Moves, Ends, Continues
    <2>9. Started' = Started \ b.names
      BY <2>2 DEF Started
    <2>10. FolderKept(j, IdleJob)
      BY <2>1, <2>9 DEF FolderKept, Owing
    <2>11. HomesExist'
      BY <2>3, <2>5, <2>9 DEF CalmInv, HomesExist, AgentsIn
    <2>12. TaskFollowsWorkspace'
      <3> SUFFICES ASSUME NEW t \in Tasks, task'[t] \in Names \ (disturbed \cup deleted)
                   PROVE  task'[t] \in Started'
        BY <2>1 DEF TaskFollowsWorkspace
      <3>1. task'[t] = task[t] /\ t \notin b.tasks /\ task[t] \in Started
        BY <2>1, <2>4 DEF CalmInv, TaskFollowsWorkspace
      <3>2. task[t] \notin b.names
        BY <2>5, <3>1 DEF Calm, TasksIn
      <3> QED BY <2>9, <3>1, <3>2
    <2>13. DefaultAgentIsHome'
      <3> SUFFICES ASSUME NEW a \in Agents, agent'[a] # NoAgent, agent'[a].origin = "default",
                          agent'[a].home \notin disturbed
                   PROVE  workspace'[agent'[a].home] = agent'[a].owner
        BY <2>1 DEF DefaultAgentIsHome
      <3>1. /\ agent'[a] = agent[a] /\ agent[a] # NoAgent /\ a \notin b.agents
            /\ agent[a].home \in Names
        BY <2>3 DEF CalmInv, HomesExist, Started
      <3>2. agent[a].home \notin b.names
        BY <2>5, <3>1 DEF AgentsIn
      <3>3. workspace[agent[a].home] = agent[a].owner
        BY <3>1 DEF CalmInv, DefaultAgentIsHome
      <3> QED BY <2>2, <3>1, <3>2, <3>3
    <2> QED BY <2>8, <2>10, <2>11, <2>12, <2>13, IdleKeeps, StepCalm DEF TablesCalm
  <1>2. CASE b.user \notin users
    <2>1. /\ job[j].pc = "purgeUser" /\ Ends(j)
          /\ UNCHANGED <<users, workspace, agent, task, folder, disturbed, deleted>>
      BY <1>2 DEF PurgeUser, At, tables, history
    <2> QED BY <2>1, UnchangedIsQuiet, FolderStays, EndsCalm
  <1> QED BY <1>1, <1>2

-----------------------------------------------------------------------------
\* The database the process starts on keeps its foreign keys.
LEMMA InitCalm == WsInit => CalmInv
  <1> SUFFICES ASSUME WsInit PROVE CalmInv
    OBVIOUS
  <1>1. WsInv /\ \A j \in Jobs : job[j] = IdleJob
    BY InitInv DEF WsInit
  <1>2. OverlapsNoted /\ RemovalNoted /\ CalmJobs
    <2>1. KindSound(IdleJob) /\ CountsOn(IdleJob) /\ HoldsAll(IdleJob) /\ IdleJob.pc = "idle"
      BY DEF IdleJob, KindSound, CountsOn, HoldsAll, Claiming, Renaming, Purging
    <2> QED BY <1>1, <2>1 DEF OverlapsNoted, RemovalNoted, CalmJobs, Active
  <1>3. FolderComes
    BY DEF WsInit, FolderComes
  <1>4. ASSUME NEW a \in Agents, agent[a] # NoAgent
        PROVE  /\ agent[a].home \in Started
               /\ agent[a].origin = "default" => agent[a].owner = workspace[agent[a].home]
    <2>1. agent[a] \in [home : Started, owner : Users, origin : {"own", "default"}]
      BY <1>4 DEF WsInit
    <2>2. (agent[a].origin = "default") = (agent[a].owner = workspace[agent[a].home])
      BY <1>4 DEF WsInit
    <2> QED BY <2>1, <2>2
  <1>5. HomesExist /\ DefaultAgentIsHome
    BY <1>4 DEF HomesExist, DefaultAgentIsHome
  <1>6. TaskFollowsWorkspace
    BY WsAssumption DEF WsInit, TaskFollowsWorkspace
  <1> QED BY <1>1, <1>2, <1>3, <1>5, <1>6 DEF CalmInv

LEMMA NextCalm == CalmInv /\ [WsNext]_wsVars => CalmInv'
  <1> SUFFICES ASSUME CalmInv, [WsNext]_wsVars PROVE CalmInv'
    OBVIOUS
  <1>1. WsInv'
    BY NextInv DEF CalmInv
  <1>2. CASE UNCHANGED wsVars
    <2>1. UNCHANGED <<users, workspace, agent, task, folder, job, disturbed, deleted>>
      BY <1>2 DEF wsVars, tables, history
    <2>2. OverlapsNoted' /\ RemovalNoted' /\ FolderComes' /\ TablesCalm'
      BY <2>1 DEF CalmInv, OverlapsNoted, RemovalNoted, Active, Named, FolderComes, Owing,
                  Started, TablesCalm, HomesExist, TaskFollowsWorkspace,
                  DefaultAgentIsHome
    <2>3. CalmJobs'
      BY <2>1 DEF CalmInv, CalmJobs, KindSound, CountsOn, HoldsAll, Calm, Started,
                  AgentsIn, AgentsOf, TasksIn, OwnedBy
    <2> QED BY <1>1, <2>2, <2>3 DEF CalmInv, TablesCalm
  <1>3. ASSUME NEW j \in Jobs, Serve(j) PROVE CalmInv'
    BY <1>1, <1>3, InsertCalm, MakeFolderCalm, InsertAgentCalm, DeleteCalm, DropFolderCalm,
       LookCalm, ClaimCalm, MoveAgentsCalm, MoveTasksCalm, DropCalm, CommitCalm,
       PurgeTasksCalm, PurgeAgentsCalm, PurgeSpacesCalm, PurgeUserCalm,
       ChooseCalm, BindCalm
       DEF Serve
  <1> QED BY <1>1, <1>2, <1>3, AskCalm, FaultCalm, RestartCalm DEF WsNext

\* The workspace a task names has a row, although tasks have no foreign key and
\* are bound, moved and deleted by requests that interleave, unless a request
\* deleted that workspace or requests for it overlapped.
THEOREM TasksFollow == WsSpec => []TaskFollowsWorkspace
  <1>1. CalmInv => TaskFollowsWorkspace
    BY DEF CalmInv
  <1> QED BY InitCalm, NextCalm, <1>1, PTL DEF WsSpec

\* A workspace no request is at work on has its directory, whatever was made,
\* renamed and removed, and wherever the process was restarted, unless the file
\* system refused or a start could not make up for what was missing.
THEOREM RowsHaveFolders == WsSpec => []RowHasFolder
  <1>1. CalmInv => RowHasFolder
    <2> SUFFICES ASSUME CalmInv, NEW n \in Started, n \notin disturbed,
                        \A j \in Active : n \notin {job[j].ws, job[j].next}
                 PROVE  n \in folder
      BY DEF RowHasFolder
    <2>1. ~\E j \in Jobs : Owing(job[j], n)
      BY DEF Owing, Active
    <2> QED BY <2>1 DEF CalmInv, FolderComes
  <1> QED BY InitCalm, NextCalm, <1>1, PTL DEF WsSpec

\* Only the commit of a removal takes a user's row, and it holds all that is his.
LEMMA RemovalIsWhole ==
    ASSUME CalmInv, [WsNext]_wsVars, NEW u \in (users \ users') \ disturbed
    PROVE  /\ OwnedBy(u)' = {} /\ AgentsOf(u)' = {}
           /\ \A t \in Tasks : task[t] \in OwnedBy(u) \ disturbed => task'[t] = NoTask
  <1>1. \E j \in Jobs : PurgeUser(j) /\ job[j].user = u
    <2>1. CASE UNCHANGED wsVars \/ Restart
      BY <2>1 DEF wsVars, tables, Restart
    <2>2. ASSUME NEW j \in Jobs, Ask(j) PROVE users \subseteq users'
      BY <2>2 DEF Ask, Register, AskDeleteUser, AskCreateWorkspace, AskCreateAgent,
                  AskUpdateWorkspace, AskDeleteWorkspace, AskSubmitTask, tables
    <2>3. ASSUME NEW j \in Jobs, BreakDeadlock(j) \/ StatementFails(j) \/ FolderFails(j)
          PROVE  users' = users
      BY <2>3 DEF BreakDeadlock, StatementFails, FolderFails, tables
    <2>4. ASSUME NEW j \in Jobs, Serve(j) PROVE PurgeUser(j) \/ users' = users
      BY <2>4 DEF Serve, InsertWorkspace, MakeFolder, MakeAgentFolder, InsertAgent,
                  DeleteWorkspace, RemoveFolder, LookAtNames, ClaimName, MoveAgents,
                  MoveTasks, DropOldName, CommitRename, MoveFolder, PurgeTasks,
                  PurgeAgents, PurgeSpaces, ChooseWorkspace, BindTask, tables
    <2>5. ASSUME NEW j \in Jobs, PurgeUser(j) PROVE job[j].user = u
      BY <2>5 DEF PurgeUser, tables
    <2> QED BY <2>1, <2>2, <2>3, <2>4, <2>5 DEF WsNext
  <1>2. PICK j \in Jobs : PurgeUser(j) /\ job[j].user = u
    BY <1>1
  <1> DEFINE b == job[j]
  <1>3. /\ b.user = u /\ u \in users /\ u \notin disturbed
    BY <1>2
  <1>4. /\ u \in Users /\ NoUser \notin Users
        /\ b.names \subseteq OwnedBy(u)
        /\ OwnedBy(u) \subseteq b.names /\ AgentsOf(u) \subseteq b.agents
    BY <1>2, <1>3, PurgeFacts, WsAssumption
  <1>5. \A n \in b.names : Calm(n) => TasksIn(n) \subseteq b.tasks
    BY <1>2, <1>3, PurgeFacts
  <1>6. OwnedBy(u)' = {}
    <2>1. \A n \in Names : workspace'[n] = IF n \in b.names THEN NoUser ELSE workspace[n]
      BY <1>2, <1>3, PurgeFacts
    <2> QED BY <1>4, <2>1 DEF OwnedBy
  <1>7. AgentsOf(u)' = {}
    <2>1. \A a \in Agents : agent'[a] = IF a \in b.agents THEN NoAgent ELSE agent[a]
      BY <1>2, <1>3, PurgeFacts
    <2> QED BY <1>4, <2>1 DEF AgentsOf
  <1>8. ASSUME NEW t \in Tasks, task[t] \in OwnedBy(u) \ disturbed PROVE task'[t] = NoTask
    <2>1. \A i \in Tasks : task'[i] = IF i \in b.tasks THEN NoTask ELSE task[i]
      BY <1>2, <1>3, PurgeFacts
    <2> QED BY <1>4, <1>5, <1>8, <2>1 DEF TasksIn, OwnedBy, Calm
  <1> QED BY <1>6, <1>7, <1>8

\* The removal of a user takes all his workspaces, agents and tasks, whatever
\* others do to them between its statements, unless a request of his overlapped it.
THEOREM RemovalsTakeAll == WsSpec => RemovalTakesAll
  <1>1. CalmInv /\ [WsNext]_wsVars =>
          [\A u \in (users \ users') \ disturbed :
              /\ OwnedBy(u)' = {} /\ AgentsOf(u)' = {}
              /\ \A t \in Tasks :
                    task[t] \in OwnedBy(u) \ disturbed => task'[t] = NoTask]_wsVars
    BY RemovalIsWhole
  <1> QED BY InitCalm, NextCalm, <1>1, PTL DEF WsSpec, RemovalTakesAll

\* The agent made by a registration lives in a workspace of its owner, through
\* renames and name clashes.
THEOREM DefaultAgentsAreHome == WsSpec => []DefaultAgentIsHome
  <1>1. CalmInv => DefaultAgentIsHome
    BY DEF CalmInv
  <1> QED BY InitCalm, NextCalm, <1>1, PTL DEF WsSpec

=============================================================================
