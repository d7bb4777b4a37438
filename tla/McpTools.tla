------------------------------ MODULE McpTools ------------------------------
(***************************************************************************)
(* McpAgentActor: the registry of tools in memory and in the directory     *)
(* .mcps, its editing by users, and the executions, futures that work on a *)
(* copy of the registry and may create a tool.                             *)
(***************************************************************************)
EXTENDS Naturals, FiniteSets

CONSTANTS Names,      \* strings that serve as tool ids and as file names
          Sanitize,   \* sanitize_tool_id
          Tasks,
          GeneratedId,\* the id build_generated_tool makes for a task
          Shipped,    \* tool id in each file that comes with the repository
          Revisions,  \* texts of a definition that can be told apart
          Retries,    \* values of max_retries in requests and shipped files
          Jobs,       \* executions in progress
          NoName, NoTask, NoTool, Torn,
          MaxMishaps  \* bound on crashes, write errors and lost tasks

\* Generated ids hold the hyphens of a UUID, so no sanitized string equals one, no
\* two tasks share one, and no shipped file has one for its name; a shipped file
\* not named after its tool has a hyphen in its name.
ASSUME McpAssumption ==
    /\ Sanitize \in [Names -> Names]
    /\ \A n \in Names : Sanitize[Sanitize[n]] = Sanitize[n]
    /\ GeneratedId \in [Tasks -> Names]
    /\ \A t \in Tasks : Sanitize[GeneratedId[t]] # GeneratedId[t]
    /\ \A t, u \in Tasks : GeneratedId[t] = GeneratedId[u] => t = u
    /\ Shipped \in [Names -> Names \cup {NoName}]
    /\ \A t \in Tasks : Shipped[GeneratedId[t]] = NoName
    /\ \A f \in Names : Shipped[f] \notin {f, NoName} => Sanitize[f] # f
    /\ NoName \notin Names /\ NoTask \notin Tasks
    /\ Revisions # {} /\ Retries \subseteq Nat /\ MaxMishaps \in Nat

VARIABLES file,     \* content of <name>.json
          known,    \* mcp_list, the registry in memory
          job,      \* ExecuteMcp futures
          alive,    \* the actor
          mishaps

mcpVars == <<file, known, job, alive, mishaps>>

\* maker is history: who wrote the definition.
Tool == [id : Names, maker : {"shipped", "user", "generated"},
         rev : Revisions, retries : Nat]

ASSUME McpNullAssumption == NoTool \notin Tool /\ Torn \notin Tool /\ NoTool # Torn

Execution == [pc : {"idle", "context", "select", "run", "explain"},
              task : Tasks \cup {NoTask},
              tools : [Names -> Tool \cup {NoTool}],
              tool : Tool \cup {NoTool},
              created : BOOLEAN, success : BOOLEAN,
              attempts : Nat]
NoTools == [n \in Names |-> NoTool]
IdleExecution == [pc |-> "idle", task |-> NoTask, tools |-> NoTools,
                  tool |-> NoTool, created |-> FALSE, success |-> FALSE,
                  attempts |-> 0]

Readable(f) == file[f] \notin {NoTool, Torn}

-----------------------------------------------------------------------------
\* load_all_configs reads the files in the order of the directory; when two
\* hold one tool id the later one stays.  late: names for which that is a file
\* not named after the tool.
Load(late) ==
    LET own(n)     == {f \in {n} : Readable(f) /\ file[f].id = n}
        foreign(n) == {f \in Names \ {n} : Readable(f) /\ file[f].id = n}
        winner(n)  == IF own(n) = {} \/ (n \in late /\ foreign(n) # {})
                      THEN foreign(n) ELSE own(n)
    IN  [n \in Names |-> IF winner(n) = {} THEN NoTool
                         ELSE file[CHOOSE f \in winner(n) : TRUE]]

ShippedFiles(retries) ==
    [f \in Names |-> IF Shipped[f] = NoName THEN NoTool
                     ELSE [id |-> Shipped[f], maker |-> "shipped",
                           rev |-> CHOOSE r \in Revisions : TRUE,
                           retries |-> retries[f]]]

McpInit ==
    /\ \E retries \in [Names -> Retries] : file = ShippedFiles(retries)
    /\ known = Load({})
    /\ job = [j \in Jobs |-> IdleExecution]
    /\ alive = TRUE /\ mishaps = 0

Mishap == mishaps < MaxMishaps /\ mishaps' = mishaps + 1

-----------------------------------------------------------------------------
\* Editing by users: handlers without awaits.

\* The request's id is sanitized, max_retries 0 becomes 1.
Accepted(n, rev, retries) ==
    [id |-> Sanitize[n], maker |-> "user", rev |-> rev,
     retries |-> IF retries = 0 THEN 1 ELSE retries]

\* The file is written first; without it the registry stays as it is.
UpsertMcpTool(n, rev, retries) ==
    LET tool == Accepted(n, rev, retries)
    IN  /\ file' = [file EXCEPT ![tool.id] = tool]
        /\ known' = [known EXCEPT ![tool.id] = tool]
        /\ UNCHANGED <<job, alive, mishaps>>

\* fs::write truncates the file before it can fail.
UpsertFails(n) ==
    /\ Mishap
    /\ file' \in {file, [file EXCEPT ![Sanitize[n]] = Torn]}
    /\ UNCHANGED <<known, job, alive>>

\* Mutant of DeleteMcpTool: the registry keeps the tool.
DeleteFileOnly(n) ==
    /\ file' = [file EXCEPT ![Sanitize[n]] = NoTool]
    /\ UNCHANGED <<known, job, alive, mishaps>>

\* Without the file it is no error, and the registry entry is removed.
DeleteMcpTool(n) ==
    /\ file' = [file EXCEPT ![Sanitize[n]] = NoTool]
    /\ known' = [known EXCEPT ![Sanitize[n]] = NoTool]
    /\ UNCHANGED <<job, alive, mishaps>>

-----------------------------------------------------------------------------
\* ExecuteMcp.

\* The registry is copied when the request is taken.
ExecuteMcp(j, t) ==
    /\ alive /\ job[j].pc = "idle"
    /\ job' = [job EXCEPT ![j] = [IdleExecution EXCEPT !.pc = "context", !.task = t,
                                                       !.tools = known]]
    /\ UNCHANGED <<file, known, alive, mishaps>>

\* The agents' tool list has no column, so every tool of the copy is usable.
LoadContext(j) ==
    /\ job[j].pc = "context"
    /\ job' = [job EXCEPT ![j].pc = "select"]
    /\ UNCHANGED <<file, known, alive, mishaps>>

\* The task is gone, or the database or the reply of the model is unusable.
EndsWithError(j) ==
    /\ job[j].pc \in {"context", "select"}
    /\ Mishap
    /\ job' = [job EXCEPT ![j] = IdleExecution]
    /\ UNCHANGED <<file, known, alive>>

Offered(j) == {n \in Names : job[j].tools[n] # NoTool}

\* The copy is of no use after the selection.
\* The only tool, the one the model names, or the first when it names none.
SelectTool(j, n) ==
    /\ job[j].pc = "select" /\ n \in Offered(j)
    /\ job' = [job EXCEPT ![j].pc = "run", ![j].tool = job[j].tools[n],
                          ![j].tools = NoTools]
    /\ UNCHANGED <<file, known, alive, mishaps>>

\* build_generated_tool; the description comes from the model.
Generated(t, rev) == [id |-> GeneratedId[t], maker |-> "generated",
                      rev |-> rev, retries |-> 1]

\* No tool is offered, or the model asks for a new one: it is written to its
\* file now, and to the registry only when the execution ends.
CreateTool(j, rev) ==
    /\ job[j].pc = "select" /\ Cardinality(Offered(j)) # 1
    /\ LET tool == Generated(job[j].task, rev)
       IN  /\ file' = [file EXCEPT ![tool.id] = tool]
           /\ job' = [job EXCEPT ![j].pc = "run", ![j].tool = tool,
                                 ![j].tools = NoTools, ![j].created = TRUE]
    /\ UNCHANGED <<known, alive, mishaps>>

CreateFails(j) ==
    /\ job[j].pc = "select" /\ Cardinality(Offered(j)) # 1
    /\ Mishap
    /\ file' \in {file, [file EXCEPT ![GeneratedId[job[j].task]] = Torn]}
    /\ job' = [job EXCEPT ![j] = IdleExecution]
    /\ UNCHANGED <<known, alive>>

Attempts(tool) == IF tool.retries = 0 THEN 1 ELSE tool.retries

\* One call of the tool, whose arguments the model or a fall-back has made.
CallSucceeds(j) ==
    /\ job[j].pc = "run"
    /\ job' = [job EXCEPT ![j].pc = "explain", ![j].success = TRUE,
                          ![j].attempts = @ + 1]
    /\ UNCHANGED <<file, known, alive, mishaps>>

CallFails(j) ==
    /\ job[j].pc = "run"
    /\ job' = [job EXCEPT ![j].attempts = @ + 1,
                          ![j].pc = IF job[j].attempts + 1 < Attempts(job[j].tool)
                                    THEN "run" ELSE "explain"]
    /\ UNCHANGED <<file, known, alive, mishaps>>

\* Long output of a command is cut at a byte, which panics inside a character.
\* The future runs on its actor, which dies with the other executions, and
\* nothing starts another: every later request fails.
CallPanics(j) ==
    /\ job[j].pc = "run"
    /\ alive' = FALSE /\ known' = NoTools
    /\ job' = [k \in Jobs |-> IdleExecution]
    /\ UNCHANGED <<file, mishaps>>

\* The result as AgentActor sees it: success, retry or failed.
Result(j) == IF job[j].success THEN "success"
             ELSE IF job[j].tool.retries > 0 THEN "retry" ELSE "failed"

\* Mutant of Finish: every tool used is put back into the registry.
FinishAlways(j) ==
    /\ job[j].pc = "explain"
    /\ known' = [known EXCEPT ![job[j].tool.id] = job[j].tool]
    /\ job' = [job EXCEPT ![j] = IdleExecution]
    /\ UNCHANGED <<file, alive, mishaps>>

\* Mutant of Finish: a tool that failed is not put into the registry.
FinishOnSuccess(j) ==
    /\ job[j].pc = "explain"
    /\ known' = IF job[j].created /\ job[j].success
                THEN [known EXCEPT ![job[j].tool.id] = job[j].tool] ELSE known
    /\ job' = [job EXCEPT ![j] = IdleExecution]
    /\ UNCHANGED <<file, alive, mishaps>>

\* The interpretation cannot fail; a created tool enters the registry.
Finish(j) ==
    /\ job[j].pc = "explain"
    /\ known' = IF job[j].created
                THEN [known EXCEPT ![job[j].tool.id] = job[j].tool] ELSE known
    /\ job' = [job EXCEPT ![j] = IdleExecution]
    /\ UNCHANGED <<file, alive, mishaps>>

\* The process dies, perhaps in the middle of a write, and is started again.
BeingWritten == {Sanitize[n] : n \in Names}
                \cup {GeneratedId[job[j].task] : j \in {k \in Jobs : job[k].pc = "select"}}
TwiceStored == {n \in Names : \E f \in Names \ {n} : Readable(f) /\ file[f].id = n}
Restart ==
    /\ Mishap
    /\ \/ UNCHANGED file
       \/ alive /\ \E n \in BeingWritten : file' = [file EXCEPT ![n] = Torn]
    /\ \E late \in SUBSET TwiceStored : known' = Load(late)'
    /\ job' = [j \in Jobs |-> IdleExecution]
    /\ alive' = TRUE

-----------------------------------------------------------------------------
Editing ==
    /\ alive
    /\ \E n \in Names :
         \/ DeleteMcpTool(n) \/ UpsertFails(n)
         \/ \E rev \in Revisions, retries \in Retries : UpsertMcpTool(n, rev, retries)

ExecutionStep(j) ==
    \/ LoadContext(j) \/ EndsWithError(j)
    \/ (\E n \in Names : SelectTool(j, n))
    \/ (\E rev \in Revisions : CreateTool(j, rev)) \/ CreateFails(j)
    \/ CallSucceeds(j) \/ CallFails(j) \/ CallPanics(j) \/ Finish(j)

McpNext ==
    \/ Editing
    \/ \E j \in Jobs, t \in Tasks : ExecuteMcp(j, t)
    \/ \E j \in Jobs : ExecutionStep(j)
    \/ Restart

McpSpec == McpInit /\ [][McpNext]_mcpVars

-----------------------------------------------------------------------------
(***************************************************************************)
(* Properties                                                              *)
(***************************************************************************)

\* Types of the files, the registry and the executions.
McpTypeOK ==
    /\ file \in [Names -> Tool \cup {NoTool, Torn}]
    /\ known \in [Names -> Tool \cup {NoTool}]
    /\ \A n \in Names : known[n] # NoTool => known[n].id = n
    /\ job \in [Jobs -> Execution]
    /\ \A j \in Jobs : job[j].pc \in {"run", "explain"} => job[j].tool \in Tool
    /\ alive \in BOOLEAN /\ mishaps \in 0..MaxMishaps

\* A tool in the registry would be found again after a restart, unless a write
\* of its file has failed: some file holds a definition of it.
KnownIsStored ==
    \A n \in Names : known[n] # NoTool =>
        file[n] = Torn \/ \E f \in Names : Readable(f) /\ file[f].id = n

\* What users created, changed or deleted is the same in the registry and on
\* disk, whatever executions and restarts come between, for every tool that no
\* shipped file of another name holds too, while the actor lives.
EditsAreDurable ==
    alive => \A n \in Names :
        /\ Sanitize[n] = n /\ file[n] # Torn
        /\ \A f \in Names \ {n} : Readable(f) => file[f].id # n
        => known[n] = file[n]

\* A tool that an execution created is never lost while the actor lives: it is
\* in the registry, or the execution that will put it there is in progress.
CreatedIsAdopted ==
    alive => \A t \in Tasks : Readable(GeneratedId[t]) =>
        \/ known[GeneratedId[t]] # NoTool
        \/ \E j \in Jobs : job[j].created /\ job[j].task = t

\* A task is closed for a failed tool only if the tool came with max_retries 0
\* in a shipped file: definitions of users and of executions are retried.
OnlyShippedToolsGiveUp ==
    \A j \in Jobs : job[j].pc = "explain" /\ Result(j) = "failed" =>
        job[j].tool.maker = "shipped"

\* The invariant of the registry: nothing is in it that the directory does not
\* hold, and no execution gives up a task that it should have retried.
McpInv == McpTypeOK /\ KnownIsStored /\ OnlyShippedToolsGiveUp

=============================================================================
