# A TLA+ model of the multi-agent task system

The repository is a server, written in Rust with the actix actor framework, that
lets users talk to a chat agent, turns some of their messages into tasks, gives
the tasks to agents that execute them with MCP tools, has the results reviewed
by a language model and lets the user decide.  This directory models its task
runtime, its tool registry, its chat and the memory behind it, its accounts,
workspaces and tokens, and its settings in TLA+, checks them with TLC and proves
the main safety properties with TLAPS.  File names below are relative to `src/src/` unless they say otherwise.

## 1. Inventory

| Component | State it keeps | Operations | Hard behaviour |
|---|---|---|---|
| PostgreSQL tables `tasks`, `task_reviews` (`postgre_database/actor_database.rs`, `task/model.rs`) | status, assignee and workspace of every task; one review row per task | single statements, sent by several actors without transactions | every sequence of statements can be interleaved; guarded and unguarded UPDATEs of one column |
| `AgentActor` (`agsnets/actor_agent.rs`), one per agent | life cycle, current task, in-flight mark, last failed task, back-off | start-up recovery, periodic check with auto-claim, MCP execution, settlement, shutdown | overlapping checks, results applied after the fact, timeouts, loss of all fields at a restart |
| `AgentManagerActor` (`agsnets/actor_agents_manage.rs`) | map of agent id to actor address | start, stop, create, delete, list, find an available agent | start-up scan racing with StartAgent; availability that is read and used later |
| `DagOrchestrActor` (`task/dag_orchestrator.rs`) | the reviewer's address, the queue of undelivered review requests | submit, execution events, review begin/complete, user decisions, deletion, retry timer, recovery scan | handlers of several statements that race for one row; `try_send` to a full mailbox; crash between statements |
| `TaskAgent` (`task/task_agent.rs`) | none (futures only) | classification of messages, review of a submitted task, decision by chat | several reviews of one task at a time, abandoned reviews |
| `McpAgentActor` (`mcp/`) | tool registry in tables and files | select or create a tool, execute with retries, upsert, delete | retries behind a caller that gave up |
| `WorkspaceManageActor` (`workspace/`) | workspaces in a table and as directories | create, rename, delete, list | a rename is a transaction plus a directory move; a directory that is missing is made up for by the next start only |
| `ChannelManagerActor` (`channel/`) | queue of notifications not yet broadcast, subscribers, one INSERT future per message | save, query, subscribe, unsubscribe, flush | inserts that interleave and fail unseen, unbounded queue, sessions that come and go |
| `OpenAIProxyActor` (`chat/openai_actor.rs`) | none | model call with retries | retries longer than the caller waits |
| `OpenAIProxyActor`'s table of providers (`main.rs`, `chat/openai_actor.rs`) | the providers and which is the default | built once at the start | a default that names a block which is not there, blocks of one name |
| Settings (`core/config.rs`, `agsnets/handler.rs`) | `config/default.toml` | create, renew the secret, read; save the settings of a provider | the file is edited as text, values are put between quotes as they are, and written in place by every start and by concurrent requests; it is read as TOML at the next start only |
| Chat (`chat/`) | chat sessions | chat turn | turns that overlap, parts of answers |
| Graph memory (`graph_memory/`, `chat/chat_agent.rs`) | a Neo4j graph, the assistant's name | start, query, update by a language model with retries, edits over HTTP | partial updates and their retry, MERGE without a constraint, replies that are lost, a panic that ends the actor |
| Users and tokens (`api/`) | users, refresh tokens in Redis | register, login, refresh, delete | token read and deleted by two commands; tokens as fine as a second; accounts created in several steps by three actors, the last ones after the answer; owners of rows that nobody looks up |
| Console, monitoring, utilities | none that matters | I/O | - |

How they interact: actors exchange messages through mailboxes (16 places by
default; `try_send` fails when the mailbox is full, `send().await` waits,
`do_send` is never refused).  A handler that returns a future is put on its
actor's context and interleaves with the actor's other futures at every
`await`; stopping an actor drops its futures.  The tables are the only state
shared between the actors of the task runtime.  What makes each component correct:

* **Agents**: work that is assigned is found and done, one task after the other; the
  in-flight mark is never left behind; only what was executed successfully is submitted.
* **Orchestrator and reviewer**: a submitted task is reviewed although events,
  mailboxes and processes fail; nothing is reviewed, rewarded or completed that
  was not executed; decisions act on tasks under review; tasks without
  workspace are touched by nobody.
* **The whole**: each side keeps the promises the other relies on.
* **Agent manager**: no actor runs out of everybody's reach; a stop that is over
  has stopped what it found.
* **Tools**: registry and directory agree; what users edit and executions create
  survives restarts and overlapping executions.
* **Chat**: a question is answered; answers and notifications are neither lost,
  doubled nor reordered; what is shown is in the history.
* **Memory**: an update that succeeds in the end has been applied once, whatever
  its failed attempts left; entities are not doubled; the assistant keeps its name.
* **Accounts and workspaces**: a name has one owner; agents, tasks and the
  directory follow a workspace through a rename; the removal of a user takes all that is his.
* **Tokens**: a token is exchanged once; the latest one works.
* **Settings**: what is saved is served after the next start; a start never
  fails for what starts and saves of legible texts have written.

The places where this code is hard to test are listed, each at its line, under
`hazards` in `PROJECT.json`, with the properties that cover them or the reason
why none does.

## 2. Plan

The order is by importance.  Done in this version:

1. `TaskTable` - the tables and their statements.
2. `AgentActor` - the agents against an arbitrary orchestrator.
3. `DagOrchestrator`, `DagOrchestratorProofs` - orchestrator and reviewer
   against arbitrary agents; `TaskContract` is the abstract life of a task that
   it implements.
4. `TaskSystem` - the composition; it implements both sides' specifications.
5. `DocumentedPromises` - what documents and comments say and the code does not do.
6. `TaskSystemProofs` - the theorems about the agents, and: the composition implements
   both sides' specifications for every value of the constants, so that the theorems
   of 2 and 3 hold of it.
7. `AgentManager`, `AgentManagerProofs` - the map of addresses with several
   actors of one agent: start-up scan against StartAgent, StopAgent and
   DeleteAgent.
8. `McpTools` - the registry of tools, its files, its editing and the executions.
9. `Chat` - sessions, channel manager, turns and what they ask of the memory.
10. `Workspaces`, `WorkspacesProofs` - registration, workspaces with their rows, locks and
    directories, and the removal of users.
11. `GraphStore`, `GraphMemory`, `GraphMemoryProofs` - the graph with the statements on
    it, and the actor, updates, retries and edits that send them.
12. `ConfigFile`, `Sessions`, `ServerLife` - the settings file, the tokens, and the
    starts of the server, which renew the secret of both.
13. `McpToolsProofs`, `ServerLifeProofs`, `ChatProofs` - the invariants of the registry
    of tools, of tokens and settings, and of the chat.

Left for later, in this order:

* `LlmProxy` - the time budget of a model call with retries against the 60 s an
  agent waits (`chat/openai_actor.rs:156`);
* `TextCut` - truncation of texts at byte positions, as operators over small inputs.

## 3. Modules and how they correspond to the code

**TaskTable.**  `status`, `assigned`, `workspace` and `review` are the columns
of the two tables; a row that does not exist is `unborn` or `gone`.  Every SQL
statement is one operator (`InsertTask`, `AssignTask`, `MoveStatus`, ...), with
its WHERE clause as the condition under which it changes something; a statement
that matches no row is a legal no-op, as in the code.  `notices` is the part of
the orchestrator's mailbox that matters, the success events.  `succeeded` is a
history variable: the tasks some MCP execution succeeded on.  `mishaps` counts
the disturbances (stop, crash, database or mailbox error) that TLC explores;
proofs do not depend on the bound.

**AgentActor.**  Every future is a slot with a program counter: `boot` for
`started()`, `check` for `RunAssignedTaskCheck`, `exec` for the MCP future a
check spawns.  One action per statement or per closure that runs on the actor:
`CheckQuery`, `CheckClaim`, `CheckPromote`, then `ResumeWithoutTask`,
`ResumeAndWait` or `ResumeAndExecute`; `ExecReturns`, `ExecWrites`,
`SettleSuccess`, `SettleFailure`.  `Outcome` groups what `ExecuteMcp` can end
with by what the code does next.  The back-off is a Boolean, `cooling`; its
doubling length is not modelled.  An auto-claim that loses the race for the row
and a claim that fails are the same for the actor, which forgets its task either
way.  The environment (`AgentEnvironment`) may run any of the orchestrator's
statements at any time.  `TriggerAgentPoll` has no sender in the program, so
checks start from the interval timer only.  Starting and stopping an actor is
atomic here; `AgentManager` takes it apart.

**DagOrchestrator.**  A handler of several statements is a *job* with its local
variables; `ReviewSubmittedTask` futures are `reviewer` slots.  `SubmitTask`
inserts, then `PlaceNowhere`, `SubmitWithoutWorkspace` or `PickAgent`,
`AgentStarted` and `AssignChosen` follow; `RejectResult`, `RejectResets` and
`RejectErases` share the last three.  `AcceptResult` and `ChatDecision` end in
`Decide`, which calls the completion hooks (`hooks` records them).  A user's
request starts when its handler's first SELECT has run.  `PlaceNowhere` is
allowed although an idle agent may exist: the code gives up on a mailbox or
database error, and the fall-back also compares the owner, which is not
modelled.  The recovery scan reads (`ScanQuery`) and resumes (`ScanResume`) in
two steps; one scan runs at a time (the timer's period is at least 5 s).  The
environment (`DagEnvironment`) lets agents write what `AgentStatement` allows.

**TaskContract** is the abstract specification: a task is unborn, open,
submitted, in review, successful or gone.

**TaskSystem** conjoins the two sides.  Two steps are joint: asking for an agent
reads the agents' runtime status (`Idle`), starting the chosen one creates its
actor.  A crash hits both sides at once.

**AgentManager.**  `row` is the table of agents, `address` the map
`agents: HashMap<AgentId, Addr<AgentActor>>`, and `actor` every `AgentActor` ever
created with its life cycle, because an agent may have several: `ScanResume`
creates one for each row the start-up SELECT found and overwrites what
`StartAgent` has put into the map since (`lost` remembers whom).  A suspended
request is a job: `StopAgent` and `DeleteAgent` take the address out of the map
and wait for the shutdown (`Released`), `CheckAvailableAgent` asks one actor after
the other, or picks from the table, and then starts what it found.

**McpTools.**  `known` is `mcp_list`; `file` is the directory `.mcps`, where a
file may be torn by a write that did not end and may hold a tool of another name
(shipped files with hyphens, while `sanitize_tool_id` makes underscores).  An
execution works on the copy of the registry it got with its first message
(`LoadContext`), selects or creates a tool, calls it with retries, and puts a
created tool into the registry at its end (`Finish`).  A panic of
`String::truncate` in the terminal tool happens in a future on the actor and
ends it until the next restart (`CallPanics`, `alive`).  Whether the model selects
or creates, and whether a call succeeds, is a choice.

**Chat.**  `session` are the `ChatWsSession` actors; `mail`, `queue`,
`subscribers` and `inserting` the channel manager: every `SaveMessage` puts a
notification into the broadcast queue and starts an INSERT future, and the flush
hands the queue to whoever is subscribed.  A *turn* is the future of one
question: save it, learn the assistant's name, recall, ask the model, then save
and push the parts of the answer.  A graph error in `QueryMemory` ends the memory
actor (`RecallFails`), whose address every later turn unwraps (`PromptPanics`).
Texts are their places: part 0 of a turn is the question.

**Workspaces.**  `users`, `workspace` (name to owner), `agent` and `task` are
committed rows; `folder` the directories.  A request is a job with one action per
statement.  What an open transaction has written stays in its job (`names`,
`agents`, `tasks`, `lost`) until `CommitRename` or `PurgeUser` makes it visible;
`Needs` says which rows the next statement writes or references, and the
statement waits while another job holds one (`BlockedBy`).  Inserts of one unique
name wait for each other in the same way.  `BreakDeadlock` is the database's
deadlock detector, `StatementFails` any other error; both roll back.  The
directory is changed after the commit, in a step of its own.  No handler looks up
the owner a request names, and no foreign key does: every `Ask...` is open to users
who were removed, or never were, and the rows of the start may belong to such.
`Restart` makes all, some or none of the missing directories, because a failed SELECT
makes none and a directory that cannot be made is passed over.  The map of
`WorkspaceActor` addresses is left out: those actors get no messages.  Three
history variables serve the properties: `disturbed` holds the names and users on
which two requests overlapped, the file system refused or a start passed a missing
directory over, `deleted` the names a
`DeleteWorkspace` has freed, `origin` marks the agent of a registration.

**GraphStore** is the graph as a value: nodes with an id, a label and a name, and
relations between ids.  A node is named by label and name (`Key`), which may match
several nodes or none.  `Statements` expands an operation of the model into the
statements `extract_operation_type` sends, one per property in any order;
`Executed` is what one does.  A MERGE that began before another transaction created
the node does not see it (`blind`); only MERGE writes the relation type without
backticks, so `Rejected` depends on its characters, of which three kinds matter:
`Types` are sequences of "K" (a capital or a digit), "u" (an underscore) and "x" (the
rest), `Plain` those that need no backticks, and `Sanitize` makes one of what people
type.  Ids and the numbers of parallel relations come from `NodeIds` and
`RelNumbers`; a statement that may create waits while they are used up (`Room`,
`Numbers`), a bound that no checked behaviour reaches for the ids.

**GraphMemory.**  `actor` goes through the steps of `new()` (`InitRoot`, which may
`CreateRoot`, then `GetRootName`, `ExtractName`, `StoreName`), serves, and may die
(`QueryPanics`).  An *update* is one task of `spawn_memory_update_with_retry`: `Answer`
asks the model for a plan and takes one of the orders its statements may come in
(`Expansions`), `Execute` and `FailStatement` run it statement by statement, `Failed`,
`Retry` and `Resent` are the loop.  A failed statement may have been executed, its reply
lost; a future that ends with its actor leaves a statement under way (`cut`,
`Land`).  The edits over HTTP are one statement each; a PUT without a name writes an
empty one (`Blank`).  The history in an update, `base` and `plan`, is what the graph
said when it began and what the model answered, as long as nobody else has written and
the model repeats itself.  `Outcome` is what a plan should make of a summary, operation
by operation and without a word about statements: the reference for `RetryConverges`.

**ConfigFile** is `config/default.toml` as a value and what is made of it: `Saved`
are the edits of `save_agent_provider_options_handler` on lines, as their effect on
[llm] and on the list of [[providers]] blocks; `Proxy` is what `main` builds.
`whole` stands for the sections that no code writes.  A save writes provider, model,
address and key between quotes as they are.  `Reads` is what TOML makes of a text that
stands there: the same, another text (an escape; a quote and a comment after it), or
`Broken`, which keeps the whole file from being read (`Loads`).  A block holds the
values read and, apart from them, the text of its name line (`line`), because saves
look for lines (`Found`) and `main` for names.  The request is checked for empty texts
only.  A text with a line break is one that is not read; that it also moves the lines
behind it is not modelled, since nothing more is said of a file that cannot be read.

**Sessions.**  A token is its user, the second it was issued in and the run whose
secret signed it.  A request goes through `Look` (GET), `Consume` (DEL), `Mint` and
`Store` (SETEX); any of them may fail.  Three histories: `spent` are the tokens that
were exchanged and not issued again, `overlapped` those a request found while another
that had found them was still to delete them, `spoiled` those about which `held` makes
no promise.

**ServerLife** joins both by the start of the server: `BeginStart`, `WriteSecret`,
`LoadSettings`; a save is `ReadFile`, `Truncate`, `WriteFile`, because other workers
may read between the two halves of `fs::write`.

**DocumentedPromises** states what comments and documents claim.

`MC*` modules give TLC the constants that are functions, and the symmetry sets of
the runs without liveness or refinement that use them.  Operators whose comment
starts with "Mutant of" are not part of the model: each is a plausible bug that
some property must catch, and `PROJECT.json` says which.

## 4. Runs

| Run | What it shows |
|---|---|
| `agent` | One agent, one task, two concurrent checks and executions, any orchestrator, one disturbance.  The inductive invariant `AgentInv`, `InflightBacked` (a mark without a future would block the task for ever), `SubmittedWasExecuted`. |
| `orchestrator` | One task, two jobs, two reviews, two user requests, any agents, one crash or error.  `DagInv` (a task without workspace is nobody's, among others), `ReviewedWasExecuted`, `SuccessOnlyByDecision`, and `KeepsContract`: the orchestrator implements `TaskContract`. |
| `system` | The composition under fairness, with two stops, crashes or errors.  It implements `AgentSpec` and `DagSpec`, so neither environment was chosen too kindly; `SubmittedHasCourier`: while nothing is disturbed some future, message or queue always carries a submitted task to its review; `InflightIsReleased`, `AcceptedIsTaken`, `PublishedIsClaimed`, `UnreviewedIsRecovered`: after at most two disturbances the work goes on. |
| `manager` | Two agents, three actors, two requests at a time, one crash or error: `ManagerInv` (no live actor is out of reach, the map names no dead one, and what a stop relies on while it waits), `StopIsEffective`. |
| `mcp` | Two executions of one task, four names of which one is an alias and one a generated id, users who edit under all of them, one crash, torn write or error: `McpInv` (what the registry holds is stored, and only shipped tools give up), `EditsAreDurable`, `CreatedIsAdopted`. |
| `chat` | Two overlapping turns and two notifications over one connection that may close, one crash or error: `SubscribersMissNothing`, `PushedIsSaved`, `TranscriptInOrder`, and under fairness `AskedIsAnswered`. |
| `workspaces` | From every database of two names of users, two legal names, one agent and one task, owned by users or not: three requests, failures or restarts, two at a time.  `NameKeepsOwner`, `TaskFollowsWorkspace`, `RowHasFolder`, `RemovalTakesAll` (what the four statements of a removal have seen is all there is at its commit), `DefaultAgentIsHome`. |
| `graph_memory` | Two updates of two attempts, five plans of up to two operations, one fault, edit or death, one restart.  `RetryConverges`: an update that succeeds at any attempt makes of the graph what its plan says, once.  `OneNodePerEntity`, `NameIsKept`, `GraphTypeOK` (no relation without its ends), and under fairness `UpdateSettles`. |
| `server` | Two starts from four settings files, two clients of one user, two requests and two saves at a time, one failure; saves of names and models that read as they are, as another and not at all.  `UsedOnce` (no token is exchanged twice, unless two requests had found it), `LatestIsHonoured`, `FileStaysWhole` (the next start succeeds), `SavedIsServed`, and in `ServerTypeOK` that the default provider is one the server knows. |
| `doc_completed_final`, `doc_stuck_submitted`, `doc_token_used_once` | Three documented promises that the code breaks, below. |

**Bounds.**  `agent`, `orchestrator` and `system` have one task.  That is enough for
safety: each of these properties is about one row, the code never compares two tasks
except to choose the oldest, and what the choice can do to one task (not being chosen)
is also done by an idle timer; the theorems hold for any number.  It is not enough
for liveness without a condition.  An agent works on one task, those executing
first (`actor_agent.rs:212`), and an execution that ends with "retry" or in the timeout
writes no status (`actor_agent.rs:357-369`): a task that always does keeps every other
task of the agent accepted, and every published one unclaimed, for ever.  So
`AcceptedIsTaken` and `PublishedIsClaimed` promise something only while no other task
of the agent is in the way.  `system`, with its single task, never meets that
exception.  The composition with two tasks, without reviews and disturbances, was run by
hand: both hold, and both are violated without the condition.

Two checks, executions, jobs or reviews are the least that can overlap, and each
overlap the code allows is pairwise; `agent` and `orchestrator` have two of each,
`system` one.  `MaxNotices = MaxInbox = 1` makes queues fill up, which is when
`try_send` fails.  `MaxMishaps` puts one disturbance (in `system` two) at any point;
more are covered by the theorems, which have no bound.  `MaxRequests` bounds the
decisions and deletions of users: two in `orchestrator`, none in `system`, where
requests of users are covered by `SystemImplementsAgents` and
`SystemImplementsOrchestrator`; a run of the composition without fairness and with one
request and one disturbance was also made by hand and passes.

In `manager` three actors are one more than the scan and a request can give one
agent.  In `mcp` two executions are the least that can create one tool twice.
`chat` has one session, one message per answer and one mishap; two sessions with two
notifications and one turn, and two sessions with one notification and two turns,
were also run by hand and pass.  In `workspaces` the database is arbitrary at the
start, so that three requests are enough to have two overlap and a third find what
they left; the theorems have no bound.  `Agents` bounds the rows: when all are in use
an insert fails.

In `graph_memory` `MaxRetries` is 2 where the code has 3: what a second attempt can
find a third finds too.  Two updates are what one chat turn starts.  The plans were
chosen so that every kind of operation occurs, with a relation type that only
backticks make legal, an operation without a field it needs, and the removal of a
name; twelve node ids are more than the plans can create.  In `server` a token lives
two seconds of the model, so that it expires, and two are issued in one second; one
failure (of Redis, the disk or the process) at any point; the four files are none,
one without providers, one whose default has no block and whose block is spelled as
the code does not look for it, and one without [llm].  Of the four requests to save,
two read as they are, one names `qwen" #`, which reads as the name `qwen` that another
one uses, and one has a quote in its model and cannot be read.

**Fairness.**  Weak fairness of timers, mailboxes and futures: actix serves
mailboxes and polls futures, `run_interval` fires again and again, the 60 s
timeout makes `ExecuteMcp` return, agents are started by the manager's start-up
scan.  Strong fairness only where a step needs a free slot or mailbox place that
the code itself does not bound, and for a delivery that is retried for ever to a
mailbox that keeps being drained.  No fairness is assumed of users, stops,
crashes or failures.  `UnreviewedIsRecovered` also leans on the outcome `retry`
not being excluded: an agent may retry for ever, and the properties hold all the same.
For `AskedIsAnswered`: mailboxes are served, futures polled, INSERTs answered, and
a model call ends, with an answer or an error, because it makes three attempts
with a timeout each.  For `UpdateSettles`: weak fairness of the steps of an update, since model calls and
statements end with an answer or an error and the runtime wakes a task that sleeps;
it has to hold although the actor may have died.
`workspaces`, `manager`, `mcp` and `server` state no liveness and need no fairness.

**Counterexamples.**

* `CompletedIsFinal` (comment `task/model.rs:192`).  A check reads the task and
  is suspended; the execution in flight writes `completed_failure` and clears
  the mark; the check resumes, executes the closed task again and its
  unconditional UPDATE (line 372) overwrites the final status.
* `SubmittedIsReviewed` (`src/docs/task_runtime_flow.md:54`).  Two overlapping
  executions submit a task twice; the first review leaves its row behind; the
  process crashes before the second success event is handled.  The recovery
  scan only reads tasks without a review row (`task/dag_orchestrator.rs:971`).
* `OnlyOnce` (comment `api/redis_actor.rs:85`, `src/docs/auth_api_standard.md:20`).  A
  client sends one refresh token twice; both GETs find it before either DEL, and both
  requests go on to new tokens (`api/redis_actor.rs:83-88`).  `UsedOnce` is what is
  left of the promise: this is the only way.

**Observed divergences without a run.**

Task runtime:
* two executions of one task at a time, against the comment at
  `actor_agent.rs:329`: a later check that meets a database error, or finds no
  task, clears the in-flight mark (527-534), and the next one finds the task
  still executing;
* a failed check makes the agent forget its task, so the next one clears the
  back-off it was in (`actor_agent.rs:312-316`, comment at 331);
* an error of the MCP actor closes the task and announces a retry
  (`actor_agent.rs:367` and 450-462, `dag_orchestrator.rs:1155`);
* the reward hook is called although the guarded UPDATE has matched no row, when an
  overlapping execution overwrote the status after the decision had read it
  (`dag_orchestrator.rs:704-716`, comment `task/model.rs:190`);
* `DeleteTaskById` checks the status once and may delete a task that was
  re-opened (`dag_orchestrator.rs:861-876`);
* `String::truncate(280)` panics inside a character (`dag_orchestrator.rs:1123`)
  and ends the orchestrator's actor: for the safety properties a crash after
  which it takes no step, which the liveness properties exclude;
* `CheckAvailableAgent` offers idle agents of other workspaces
  (`actor_agents_manage.rs:485-497`, `src/README.md:23`).

Agents: `DeleteAgent` stops the actor before it checks the owner
(`actor_agents_manage.rs:274`); a second `StopAgent` for one agent answers before
the first shutdown is over; an actor may be started for an agent whose row is gone;
the status "stopping" is never reported; `GET /agent/{agent_id}` is registered
before `/agent/provider-options` and takes its requests; a `CreateAgent` that fails
leaves its directory.

Tools: deleting a generated tool changes nothing, because its id does not survive
`sanitize_tool_id` (`mcp/mcp_actor.rs:880`, `docs/agent_mcp_api.md:194`); two
executions of one task may leave memory and file with different definitions.

Chat: an empty list from the model pushes nothing, and the client waits for ever
(`chat_agent.rs:256`); the history shows the assistant's messages to all users; a
notification is broadcast whether or not its INSERT succeeds.

Memory:
* one graph error in `QueryMemory` ends `AgentMemoryActor` until the process is
  restarted, because the reply is unwrapped in a future on the actor
  (`graph_memory/actor_memory.rs:229`); the turn that asked goes on as the text at
  `chat/chat_agent.rs:162` says (memory offline), every later one panics before it
  gets there, because `GetMyName` is unwrapped first (121);
* nothing creates the uniqueness constraint whose violation `actor_memory.rs:324-333`
  expects: overlapping MERGEs make two nodes of one entity, for good
  (`OneNodePerEntity` excludes them);
* `UpdateRelationship` deletes between backticks and creates without: a new type that
  needs them loses the relation, and every retry fails at the same place;
* an operation may remove the property "name", also of the assistant's own node, and
  a PUT without a name writes an empty one; the next start then takes the assistant
  for nameless or for "" (`NameIsKept` excludes both);
* a row that cannot be read counts as no root and makes a second one
  (`actor_memory.rs:165-169`); the error of storing the name is dropped (102);
* the second update of a turn shows the model the summary from before the first one
  (`chat_agent.rs:274`);
* `src/README.md:155` calls Neo4j optional, and `main.rs:163` ends the process without it.

Tokens and settings:
* tokens of one user and one second are the same string, so that the use of one uses
  up the other (`LatestIsHonoured` excludes a token issued while it is stored or used);
* `refresh` answers 200 with a token that Redis may have refused (`user/handler.rs:293`);
* every start has a new secret, so that no token outlives a restart although Redis
  keeps it for seven days; the removal of a user ends none of his sessions;
* the settings file the server creates lacks sections without a default, so that the
  first start without a file fails, and so do all later ones (`config.rs:164-251`);
* `fs::write` empties the file first: a save that is cut short leaves an empty file, a
  save that reads it then writes a file with one block, overlapping saves undo each
  other (`FileStaysWhole` and `SavedIsServed` exclude all three by `doubt`);
* a block whose name is spelled with other spacing is not found: a second one is
  added, and which of the two counts depends on whether it is the default; without
  [llm] the chosen default is not stored, and the answer is success;
* what is saved is not escaped (`agsnets/handler.rs:195-307`, emptiness is checked at
  164): a quote, a backslash or a line break in a provider, model, address or token
  reads as another text at the next start, or makes the whole file unreadable, and the
  next start fails at `core/config.rs:295` (`FileStaysWhole` and `SavedIsServed` except
  the second by `doubt`, and promise of the first only that no other provider suffers);
  a name that reads as another is added again by every save of that other name;
* an empty token in a save erases the stored key (`agsnets/handler.rs:257`);
* every model call leaves provider and model open, so that those stored with an agent
  are never used.

Accounts and workspaces:
* a user without letters in his name gets no default workspace, because
  `workspace{id}` holds digits (`api/user/handler.rs:55`,
  `workspace_actor.rs:117`), nor does a second user with the same letters, against
  `docs/auth_api_standard.md:41`;
* `DeleteWorkspace` leaves tasks with a name that no row has, against the comment
  at `actor_database.rs:132` (`TaskFollowsWorkspace` excludes such names);
* a rename does not look whether its DELETE found the old row: when another
  request renamed or deleted the workspace in between, the result is a second,
  empty workspace, or one that comes back after its deletion;
* an agent that is inserted between the two UPDATEs of a rename and its DELETE is
  deleted by the cascade (`DropOldName`); a `SubmitTask` that asked for a workspace
  before a rename writes the old name after it;
* a creation whose INSERT comes after the DELETE of the same name, but whose
  directory is made before the deletion removes it, has no directory until the
  next start; a directory left behind under the new name keeps a rename from
  moving the old one;
* `remove_dir_all` of the agents' directory after that of its parent always fails
  and logs a warning (`workspace_actor.rs:201`);
* rows are made for users who are gone: the owner of a workspace or an agent comes from
  the body of the request (`workspace/handler.rs:45-51`, `agsnets/handler.rs:39-45`),
  nothing looks it up and no foreign key ties it to `users`
  (`actor_database.rs:56-63`), an access token outlives the removal of its user
  (`api/auth.rs:65-76`), and what he has in progress goes on (`RemovalTakesAll` says
  what is gone when the removal commits, not afterwards);
* when the SELECT of the start-up fails, or a directory cannot be made, rows stay
  without directories and nothing is logged (`workspace_actor.rs:65-69`;
  `RowHasFolder` excludes both).

## 5. Proofs

Forty-two theorems in eight modules: every invariant and every action property of the
passing runs, and every refinement, is the subject of one.  All hold for every set of
tasks, agents, actors, slots, users, workspaces, tools, clients, providers, sessions,
turns and updates and every bound, from the named assumptions of the modules only, which
TLC evaluates in every run:
* `TaskTable`, `DagOrchestrator`, `AgentManager`, `Workspaces`: task ids are positive,
  the null values are not ids, every agent has a home, every user a default name,
  bounds are naturals;
* `McpTools`: sanitizing a sanitized name changes nothing; the generated ids of two
  tasks differ, are not sanitized names (they hold the hyphens of a uuid) and no
  shipped file has one; a file that was shipped with a tool of another name has a name
  that sanitizing changes;
* `Sessions`, `ConfigFile`, `ServerLife`: tokens live for a while, the values that
  stand for "none" are none, what TOML reads is a text or `Broken`, the empty text and
  the default address read as they are, a file that is there at first can be read;
* `Chat`: turns are not notifications, an answer has at least one message;
* `GraphStore`, `GraphMemory`: the labels and names the program writes itself are labels
  and names, a missing name is not a name, plans are sequences of operations with
  finite sets of properties, what people type are sequences of characters, there is at
  least one attempt.  `NodeIds` may be infinite.

`TaskSystemProofs` begins with the agents: `AgentInvariant`, and from it `AgentTypes`,
`InflightIsBacked` and `SubmittedOnlyExecuted`.  `InflightBacked` is inductive
with the types and the fact that an execution always has a task;
`SubmittedWasExecuted` needs the strengthening `CarriedWasExecuted`: an execution
about to write `submitted` or to send the success event has succeeded.  The
effect of the table statements is stated once in three lemmas.

`DagOrchestratorProofs`: `DagInvariant`, and from it `DagTypes`,
`ReviewedOnlyExecuted`, `OrphansStayPublished`, `SuccessNeedsDecision` and
`DagImplementsContract`.  The invariant says what the tables satisfy after every
statement (`TableSafe`), that every message and future asking for a review names
an executed task (`CarriersExecuted`: the mailbox, the retry queue, the rows of
the scan, the reviews in progress), and that a handler which will write an
assignment still has a workspace to write it for (`JobsBound`: a bound task
never becomes unbound, because the only statement that clears the workspace
deletes the row).  `StatementSafe` proves the first part once for all
statements; `JobMoves` the third once for all handlers.  The two last theorems
rest on `StepKinds`, which sorts every step by what it may do to the tables.

`TaskSystemProofs`, the composition: the agents were proved correct against any
orchestrator and the orchestrator against any agents; `SystemInvariant`, `SystemImplementsAgents`
and `SystemImplementsOrchestrator` close the circle: a step of either side is one
the other's environment allows.  The orchestrator relies on agents to write only
to tasks with a workspace, or without a row, so the invariant needs one part of
its own, `AgentsHoldBound`: a task that some future of an agent holds across an
await stays bound until its row is deleted.  `SystemKeepsContract` is what follows
for the whole.

`AgentManagerProofs`: `ManagerInvariant` and from it `LiveStaysReachable`,
`MappedStaysLive` and `StopsAreEffective`.  `StopIsEffective` speaks of the end of
a stop and is not inductive; `OlderIsSettled` says what holds while it waits: of the
actors it found, each has stopped, is being shut down by somebody or was
overwritten by the scan.

`WorkspacesProofs`: `WsTypes`, `NamesKeepOwners`, `TasksFollow`, `RowsHaveFolders`,
`RemovalsTakeAll` and `DefaultAgentsAreHome`.  That a rename looked for
duplicates proves nothing at its commit; what does is that the name its INSERT
claimed is held until then and has no committed row (`ClaimsAreFree`).  To be
inductive this needs that no two transactions hold one row (`HeldApart`, from the
waiting of every statement, `Unblocked`), that a held agent is not deleted by a
cascade (`HeldAgentsExist`, for the types after the commit) and that a request has
the fields its next statement uses (`JobsSound`).  `JobMoves` reduces every handler
to what it holds afterwards and to what it leaves of the rows others hold.

The last four relate tables to each other and to the directories, and hold where the
history `disturbed` has noted nothing; `CalmInv` is the invariant they have in common.
`OverlapsNoted` and `RemovalNoted` say that the history misses no overlap: two requests
about one name, the removal of a user and a request of his, a removal and a request
that has seen one of the user's workspaces.  So a request about an undisturbed name
finds at its end what it saw at its beginning (`CountsOn`), and a transaction holds
every row that refers to the names it will free (`HoldsAll`): the agents of the name a
rename drops, the tasks, workspaces and agents of a removed user.  `HomesExist` is the
foreign key of agents, `FolderComes` says who will make the directory of a row that has
none.  `Effects` is what a step of one request may do to the rows others count on; the
lemmas `OthersCountOn`, `OthersHoldAll`, `OthersKindSound` and `CalmMoves` prove once
that this suffices for everybody else, and `StepCalm` leaves to each action its own
request and the tables.  The hardest case is a workspace that is renamed into the hands
of a user who is being removed: its tasks come along, and are not among those the
removal has collected; the rename must have seen the old workspace as his, so it is
noted.

`McpToolsProofs`: `RegistryInvariant`, and from it `EditsStayDurable` and
`CreatedStaysAdopted`.  Tools are known by
their id and stored in files by name, and the two may differ, so a write or a deletion
of one tool could change what is stored of another.  It does
not: a file that holds a tool of another name came with the repository, and no write
goes to such a file (`FilesSound`, `Ours`).  The rest says what the futures rely on:
an execution that has created a tool has stored it under the id of its task
(`CreatorSound`), and a tool that was not shipped always has a retry left (`Retried`).

`ServerLifeProofs`: five theorems over one server with its restarts.
`TokensAreUsedOnce` rests on `SpentIsGone`, that a token exchanged is not in Redis, and
on `MarkedTwice`: a token that a request has found is marked as `overlapped` if it is
spent or another request has found it too, so the exchange of a spent token is one of
a marked one.
`LatestStaysHonoured` needs more: a live
token has one holder (`OneHolder`), only that client has a request about it
(`OwnRequest`), and it is in Redis or in the hand of a request that took it out and
has not answered yet (`LiveIsKept`).  `FileKeepsWhole` says of a file nobody doubts
that what it holds, or what is about to be written into it, can be read; at most one
save is under way, and if that one has emptied the file, it has in hand what was there;
what can be read stays so when the texts put into it can (`SavedLoads`).
`SavedStaysServed` follows what the saves asked for through text editing and restarts:
every provider that was asked for in texts that read as they are has exactly one block
of that name, the code finds it, and it has the content asked for, in whatever a start
would read (`Kept`, `KeepsSaved`) - although other saves, of names that read as others
among them, replace and add blocks.  That the
code finds a first block at all needs that a finite set of positions has a least one.
`ServerTypeCorrect` holds the types and that the default provider is a known one.

`ChatProofs`: `ChatTypes`, `NothingIsMissed`, `PushedStaysSaved` and
`TranscriptsInOrder`.  Two arguments that hardly meet.  A message of a turn is in one
place at a time - mailbox, INSERT, table or lost - and the turn waits for it (`Apart`,
`TransitSound`, `SettledSoFar`), which gives INSERT futures without an order the order
of the turn.  The notifications still to be broadcast are the last of those accepted,
in their order (`QueueIsTheEnd`), and what a session shows is from before
(`ShownFromBefore`, `ShownInOrder`).

`SubmittedKeepsCourier` (`TaskSystemProofs`) is about three actors: each hand-over is
shown to give the task to the next before it lets go of it, and `CouriersCarryOn`
reduces every step to the tasks it makes submitted and the couriers it dismisses.

`GraphMemoryProofs`: `MemoryInvariant`, and from it `GraphTypes`, `EntityIsUnique`,
`NameSurvives` and `RetriesConverge`.  The invariant has five parts.
* `MemoryTyped`: the graph is well-formed and the updates are sound.  A relation keeps
  its ends because every deletion is a DETACH, and a MERGE finds both in the graph.
* `AloneAtStart`: there are no updates while `new()` runs, so that a start sees no
  statement of them.
* `NameKnown`: the roots have no other name than the one last answered to.  A name is
  extracted only where none was known, so it can be stored without contradicting one.
* `NoTwin`: that no entity has two nodes is not inductive, because a MERGE creates what
  it did not find when it began.  What it did not find is still missing, and no two
  statements under way merge the same node (`Apart`); `NoTwinOfStep` shows once that
  this survives a step of anybody.
* `Converging`: a failed attempt may stop anywhere, so nothing can be said about the
  graph between two attempts except that it differs from the first summary in what the
  plan decides at most.  An *atom* is an entity or a fact about two of them; a statement
  makes it true, makes it false or leaves it alone (`Gains`, `Loses`).  The statements
  left lead to the outcome if the last one to decide an atom decides it as the outcome
  says (`Leads`), and if the graph agrees with the outcome about all that they do not
  decide (`Near`).  `ExecutedSays` computes what a statement does to the summary of any
  graph, twins included; `ExpansionsLead` shows that every order of a plan's statements
  leads to its outcome from any summary that differs only in what the plan decides, so
  a second attempt need not know where the first one stopped.  At the end nothing is
  left to decide, and two summaries that agree on every atom are equal (`SameSummary`).

The lemmas about `Remaining` and `Outcomes`, which are recursive functions over the
length of a plan, are proved from the least counterexample (`LeastOf`): the induction
theorems of the library take an operator, and a set of natural numbers that is not
empty has a least element without them.

Only model-checked: liveness (`InflightIsReleased`, `AcceptedIsTaken`,
`PublishedIsClaimed`, `UnreviewedIsRecovered`, `AskedIsAnswered`, `UpdateSettles`), which
needs fairness and ENABLED and is out of the prover's reach.

## 6. What is not modelled

The components with status `not_modelled` in `PROJECT.json`, for the reasons given
there (listings, consoles, logs, formatting); in the modelled ones, priorities and `depends_on` (the code stores them
and never reads them), the owner of a task beside its workspace, texts, and
everything that is only read for display.  `SaveTaskToDb` and
`task/task_notify_queue.rs` have no callers.
