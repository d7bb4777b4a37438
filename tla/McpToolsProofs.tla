--------------------------- MODULE McpToolsProofs ---------------------------
(***************************************************************************)
(* The registry of tools keeps its promises for every set of names, tasks  *)
(* and executions.  The argument: a file that holds a tool of another name *)
(* came with the repository, and nothing that writes a file writes to such *)
(* a one; so a write changes what is stored of one tool only.              *)
(***************************************************************************)
EXTENDS McpTools, TLAPS

\* A definition that is not shipped is tried again when it fails.
Retried(tool) == tool.maker # "shipped" => tool.retries > 0

\* The files that hold a tool.
Holders(n) == {f \in Names : Readable(f) /\ file[f].id = n}

FilesSound ==
    /\ file \in [Names -> Tool \cup {NoTool, Torn}]
    /\ \A f \in Names : Readable(f) =>
          /\ file[f].id = f \/ file[f].id = Shipped[f]
          /\ Retried(file[f])

KnownSound ==
    /\ known \in [Names -> Tool \cup {NoTool}]
    /\ \A n \in Names : known[n] # NoTool => known[n].id = n /\ Retried(known[n])

ToolsSound(j) ==
    /\ \A n \in Names : job[j].tools[n] # NoTool => Retried(job[j].tools[n])
    /\ job[j].pc \in {"run", "explain"} => job[j].tool \in Tool /\ Retried(job[j].tool)

\* An execution that has created a tool has stored it under the id of its task.
CreatorSound(j) ==
    /\ job[j].pc # "idle" => job[j].task \in Tasks
    /\ job[j].created =>
          /\ job[j].pc \in {"run", "explain"}
          /\ job[j].tool.id = GeneratedId[job[j].task]
          /\ file[GeneratedId[job[j].task]] # NoTool

JobsSound ==
    /\ job \in [Jobs -> Execution]
    /\ \A j \in Jobs : ToolsSound(j) /\ CreatorSound(j)

McpSafe ==
    /\ FilesSound /\ KnownSound /\ JobsSound
    /\ alive \in BOOLEAN /\ mishaps \in 0..MaxMishaps
    /\ KnownIsStored /\ EditsAreDurable /\ CreatedIsAdopted

-----------------------------------------------------------------------------
\* What a write to the file of one tool does.
Ours(n) == n \in Names /\ Shipped[n] \in {n, NoName}

LEMMA SanitizedIsOurs ==
    ASSUME NEW n \in Names
    PROVE  /\ Ours(Sanitize[n])
           /\ \A t \in Tasks : GeneratedId[t] # Sanitize[n]
  BY McpAssumption DEF Ours

LEMMA GeneratedIsOurs ==
    ASSUME NEW t \in Tasks
    PROVE  Ours(GeneratedId[t]) /\ Sanitize[GeneratedId[t]] # GeneratedId[t]
  BY McpAssumption DEF Ours

\* A file of ours holds its own tool, if it holds one.
LEMMA OursIsOwn ==
    ASSUME FilesSound, NEW n, Ours(n), Readable(n)
    PROVE  file[n].id = n
  <1>1. file[n] \in Tool
    BY DEF FilesSound, Ours, Readable
  <1>2. file[n].id # NoName
    BY <1>1, McpAssumption DEF Tool
  <1> QED BY <1>2 DEF FilesSound, Ours

\* Writing such a file, or leaving half of it, changes nothing about other tools.
LEMMA Written ==
    ASSUME FilesSound, NEW n, Ours(n), NEW x \in Tool \cup {NoTool, Torn},
           x \in Tool => x.id = n /\ Retried(x),
           file' = [file EXCEPT ![n] = x]
    PROVE  /\ FilesSound'
           /\ file'[n] = x /\ \A f \in Names \ {n} : file'[f] = file[f]
           /\ \A m \in Names \ {n} : Holders(m)' = Holders(m)
  <1>1. file \in [Names -> Tool \cup {NoTool, Torn}] /\ n \in Names
    BY DEF FilesSound, Ours
  <1>2. /\ file' \in [Names -> Tool \cup {NoTool, Torn}]
        /\ file'[n] = x /\ \A f \in Names \ {n} : file'[f] = file[f]
    BY <1>1
  <1>3. ASSUME NEW f \in Names, Readable(f)'
        PROVE  (file'[f].id = f \/ file'[f].id = Shipped[f]) /\ Retried(file'[f])
    <2>1. CASE f = n
      BY <2>1, <1>2, <1>3 DEF Readable
    <2>2. CASE f # n
      <3>1. file'[f] = file[f] /\ Readable(f)
        BY <2>2, <1>2, <1>3 DEF Readable
      <3> QED BY <3>1 DEF FilesSound
    <2> QED BY <2>1, <2>2
  <1>4. ASSUME NEW m \in Names \ {n}, NEW f \in Names
        PROVE  Readable(f)' /\ file'[f].id = m <=> Readable(f) /\ file[f].id = m
    <2>1. CASE f = n
      <3>1. ~(Readable(f) /\ file[f].id = m)
        BY <2>1, OursIsOwn
      <3>2. ~(Readable(f)' /\ file'[f].id = m)
        BY <2>1, <1>2 DEF Readable
      <3> QED BY <3>1, <3>2
    <2>2. CASE f # n
      BY <2>2, <1>2 DEF Readable
    <2> QED BY <2>1, <2>2
  <1>5. \A m \in Names \ {n} : Holders(m)' = Holders(m)
    BY <1>4 DEF Holders
  <1> QED BY <1>2, <1>3, <1>5 DEF FilesSound

\* What load_all_configs finds.
LoadsHolders ==
    \A late \in SUBSET Names :
        /\ Load(late) \in [Names -> Tool \cup {NoTool}]
        /\ \A n \in Names : \/ Holders(n) = {} /\ Load(late)[n] = NoTool
                            \/ \E f \in Holders(n) : Load(late)[n] = file[f]

LEMMA Loaded == FilesSound => LoadsHolders
  <1> SUFFICES ASSUME FilesSound, NEW late \in SUBSET Names
      PROVE  /\ Load(late) \in [Names -> Tool \cup {NoTool}]
             /\ \A n \in Names : \/ Holders(n) = {} /\ Load(late)[n] = NoTool
                                 \/ \E f \in Holders(n) : Load(late)[n] = file[f]
    BY DEF LoadsHolders
  <1> DEFINE own(n) == {f \in {n} : Readable(f) /\ file[f].id = n}
             foreign(n) == {f \in Names \ {n} : Readable(f) /\ file[f].id = n}
             winner(n) == IF own(n) = {} \/ (n \in late /\ foreign(n) # {})
                          THEN foreign(n) ELSE own(n)
             loaded(n) == IF winner(n) = {} THEN NoTool
                          ELSE file[CHOOSE f \in winner(n) : TRUE]
  <1>1. Load(late) = [n \in Names |-> loaded(n)]
    BY DEF Load
  <1>2. ASSUME NEW n \in Names
        PROVE  \/ Holders(n) = {} /\ loaded(n) = NoTool
               \/ \E f \in Holders(n) : loaded(n) = file[f]
    <2>1. Holders(n) = own(n) \cup foreign(n)
      BY DEF Holders
    <2>2. winner(n) \subseteq Holders(n) /\ (winner(n) = {} => Holders(n) = {})
      BY <2>1
    <2>3. winner(n) # {} => (CHOOSE f \in winner(n) : TRUE) \in winner(n)
      OBVIOUS
    <2> HIDE DEF winner
    <2> QED BY <2>2, <2>3
  <1>3. ASSUME NEW n \in Names, NEW f \in Holders(n)
        PROVE  file[f] \in Tool
    BY DEF FilesSound, Holders, Readable
  <1> HIDE DEF loaded
  <1>4. \A n \in Names : loaded(n) \in Tool \cup {NoTool}
    BY <1>2, <1>3
  <1> QED BY <1>1, <1>2, <1>4

LEMMA LoadedNext == FilesSound' => LoadsHolders'
  BY Loaded, PTL

-----------------------------------------------------------------------------
\* The executions.

GeneratedFilesStay ==
    \A t \in Tasks : file[GeneratedId[t]] # NoTool => file'[GeneratedId[t]] # NoTool

LEMMA JobsKeep ==
    ASSUME JobsSound, UNCHANGED job, GeneratedFilesStay
    PROVE  JobsSound'
  BY DEF JobsSound, ToolsSound, CreatorSound, GeneratedFilesStay

\* One execution moves, and what it has become is sound.
LEMMA JobMoves ==
    ASSUME JobsSound, NEW j \in Jobs, NEW e \in Execution, job' = [job EXCEPT ![j] = e],
           GeneratedFilesStay,
           \A n \in Names : e.tools[n] # NoTool => Retried(e.tools[n]),
           e.pc \in {"run", "explain"} => e.tool \in Tool /\ Retried(e.tool),
           e.pc # "idle" => e.task \in Tasks,
           e.created => /\ e.pc \in {"run", "explain"}
                        /\ e.tool.id = GeneratedId[e.task]
                        /\ file'[GeneratedId[e.task]] # NoTool
    PROVE  JobsSound' /\ job'[j] = e /\ \A k \in Jobs \ {j} : job'[k] = job[k]
  <1>1. /\ job' \in [Jobs -> Execution] /\ job'[j] = e
        /\ \A k \in Jobs \ {j} : job'[k] = job[k]
    BY DEF JobsSound
  <1>2. ASSUME NEW k \in Jobs \ {j}
        PROVE  ToolsSound(k)' /\ CreatorSound(k)'
    BY <1>1 DEF JobsSound, ToolsSound, CreatorSound, GeneratedFilesStay
  <1>3. ToolsSound(j)' /\ CreatorSound(j)'
    BY <1>1 DEF ToolsSound, CreatorSound
  <1> QED BY <1>1, <1>2, <1>3 DEF JobsSound

LEMMA IdleIsSound ==
    /\ IdleExecution \in Execution
    /\ \A n \in Names : IdleExecution.tools[n] = NoTool
    /\ IdleExecution.pc = "idle" /\ ~IdleExecution.created
    /\ IdleExecution.task = NoTask
  BY DEF IdleExecution, Execution, NoTools

LEMMA JobEnds ==
    ASSUME JobsSound, NEW j \in Jobs, job' = [job EXCEPT ![j] = IdleExecution],
           GeneratedFilesStay
    PROVE  JobsSound' /\ job'[j] = IdleExecution /\ \A k \in Jobs \ {j} : job'[k] = job[k]
  BY IdleIsSound, JobMoves

LEMMA AllEnd ==
    ASSUME job' = [j \in Jobs |-> IdleExecution]
    PROVE  JobsSound'
  BY IdleIsSound DEF JobsSound, ToolsSound, CreatorSound

-----------------------------------------------------------------------------
\* Writes by users: to the file of a sanitized name.
LEMMA UserWrites ==
    ASSUME McpSafe, NEW n \in Names, NEW x \in Tool \cup {NoTool, Torn},
           x \in Tool => x.id = Sanitize[n] /\ Retried(x),
           file' = [file EXCEPT ![Sanitize[n]] = x], UNCHANGED job
    PROVE  FilesSound' /\ JobsSound'
  <1>1. /\ Ours(Sanitize[n])
        /\ \A t \in Tasks : GeneratedId[t] # Sanitize[n] /\ GeneratedId[t] \in Names
    BY SanitizedIsOurs, McpAssumption
  <1>2. FilesSound' /\ \A f \in Names \ {Sanitize[n]} : file'[f] = file[f]
    BY <1>1, Written DEF McpSafe
  <1>3. GeneratedFilesStay
    BY <1>1, <1>2 DEF GeneratedFilesStay
  <1> QED BY <1>2, <1>3, JobsKeep DEF McpSafe

\* What a write to the file of one tool, and to its entry, leaves of the promises.
LEMMA OthersKept ==
    ASSUME McpSafe, NEW n, Ours(n), NEW x \in Tool \cup {NoTool, Torn},
           x \in Tool => x.id = n /\ Retried(x),
           file' = [file EXCEPT ![n] = x],
           NEW m \in Names \ {n}, known'[m] = known[m]
    PROVE  /\ known'[m] # NoTool => file'[m] = Torn \/ Holders(m)' # {}
           /\ Sanitize[m] = m /\ file'[m] # Torn /\ Holders(m)' \subseteq {m} /\ alive
              => known'[m] = file'[m]
  <1>1. Holders(m)' = Holders(m) /\ file'[m] = file[m]
    BY Written DEF McpSafe
  <1>2. known[m] # NoTool => file[m] = Torn \/ Holders(m) # {}
    BY DEF McpSafe, KnownIsStored, Holders
  <1>3. Sanitize[m] = m /\ file[m] # Torn /\ Holders(m) \subseteq {m} /\ alive
        => known[m] = file[m]
    BY DEF McpSafe, EditsAreDurable, Holders
  <1> QED BY <1>1, <1>2, <1>3

\* It is enough to look at the promises for that tool.
LEMMA PromisesKept ==
    ASSUME McpSafe, NEW n, Ours(n), NEW x \in Tool \cup {NoTool, Torn},
           x \in Tool => x.id = n /\ Retried(x),
           file' = [file EXCEPT ![n] = x], UNCHANGED alive,
           \A m \in Names \ {n} : known'[m] = known[m],
           known'[n] # NoTool => x = Torn \/ x \in Tool,
           Sanitize[n] = n /\ x # Torn /\ alive => known'[n] = x
    PROVE  KnownIsStored' /\ EditsAreDurable'
  <1>1. n \in Names /\ file'[n] = x
    BY Written DEF Ours, McpSafe
  <1>2. x \in Tool => n \in Holders(n)'
    BY <1>1, McpNullAssumption DEF Holders, Readable
  <1>3. ASSUME NEW m \in Names
        PROVE  known'[m] # NoTool => file'[m] = Torn \/ Holders(m)' # {}
    <2>1. CASE m = n
      BY <2>1, <1>1, <1>2
    <2>2. CASE m \in Names \ {n}
      BY <2>2, OthersKept
    <2> QED BY <2>1, <2>2
  <1>4. ASSUME NEW m \in Names, alive, Sanitize[m] = m, file'[m] # Torn, Holders(m)' \subseteq {m}
        PROVE  known'[m] = file'[m]
    <2>1. CASE m = n
      BY <2>1, <1>1, <1>4
    <2>2. CASE m \in Names \ {n}
      BY <2>2, <1>4, OthersKept
    <2> QED BY <2>1, <2>2
  <1>5. KnownIsStored'
    BY <1>3 DEF KnownIsStored, Holders
  <1>6. EditsAreDurable'
    BY <1>4 DEF EditsAreDurable, Holders
  <1> QED BY <1>5, <1>6

\* Users do not write the files of generated tools.
LEMMA AdoptedKept ==
    ASSUME McpSafe, UNCHANGED <<job, alive>>,
           \A t \in Tasks : /\ file'[GeneratedId[t]] = file[GeneratedId[t]]
                            /\ known'[GeneratedId[t]] = known[GeneratedId[t]]
    PROVE  CreatedIsAdopted'
  BY DEF McpSafe, CreatedIsAdopted, Readable

LEMMA UpsertSafe ==
    ASSUME McpSafe, alive, NEW n \in Names, NEW rev \in Revisions, NEW retries \in Retries,
           UpsertMcpTool(n, rev, retries)
    PROVE  McpSafe'
  <1> DEFINE x == Accepted(n, rev, retries)
  <1>1. x \in Tool /\ x.id = Sanitize[n] /\ Retried(x) /\ Sanitize[n] \in Names
    BY McpAssumption DEF Accepted, Tool, Retried
  <1>2. /\ file' = [file EXCEPT ![Sanitize[n]] = x]
        /\ known' = [known EXCEPT ![Sanitize[n]] = x]
        /\ UNCHANGED <<job, alive, mishaps>>
    BY <1>1 DEF UpsertMcpTool
  <1> HIDE DEF x
  <1>3. FilesSound' /\ JobsSound'
    BY <1>1, <1>2, UserWrites
  <1>4. Ours(Sanitize[n]) /\ \A t \in Tasks : GeneratedId[t] \in Names \ {Sanitize[n]}
    BY SanitizedIsOurs, McpAssumption
  <1>5. /\ file'[Sanitize[n]] = x /\ known'[Sanitize[n]] = x
        /\ \A m \in Names \ {Sanitize[n]} : known'[m] = known[m] /\ file'[m] = file[m]
    BY <1>1, <1>2 DEF McpSafe, FilesSound, KnownSound
  <1>6. KnownSound'
    BY <1>1, <1>2, <1>5 DEF McpSafe, KnownSound
  <1>7. KnownIsStored' /\ EditsAreDurable'
    BY <1>1, <1>2, <1>4, <1>5, PromisesKept
  <1>8. CreatedIsAdopted'
    BY <1>2, <1>4, <1>5, AdoptedKept
  <1> QED BY <1>2, <1>3, <1>6, <1>7, <1>8 DEF McpSafe

LEMMA DeleteSafe ==
    ASSUME McpSafe, alive, NEW n \in Names, DeleteMcpTool(n)
    PROVE  McpSafe'
  <1>1. /\ file' = [file EXCEPT ![Sanitize[n]] = NoTool]
        /\ known' = [known EXCEPT ![Sanitize[n]] = NoTool]
        /\ UNCHANGED <<job, alive, mishaps>>
        /\ NoTool \notin Tool
    BY McpNullAssumption DEF DeleteMcpTool
  <1>2. FilesSound' /\ JobsSound'
    BY <1>1, UserWrites
  <1>3. Ours(Sanitize[n]) /\ \A t \in Tasks : GeneratedId[t] \in Names \ {Sanitize[n]}
    BY SanitizedIsOurs, McpAssumption
  <1>4. /\ file'[Sanitize[n]] = NoTool /\ known'[Sanitize[n]] = NoTool
        /\ \A m \in Names \ {Sanitize[n]} : known'[m] = known[m] /\ file'[m] = file[m]
    BY <1>1, <1>3 DEF McpSafe, FilesSound, KnownSound, Ours
  <1>5. KnownSound'
    BY <1>1, <1>4 DEF McpSafe, KnownSound
  <1>6. KnownIsStored' /\ EditsAreDurable'
    BY <1>1, <1>3, <1>4, PromisesKept
  <1>7. CreatedIsAdopted'
    BY <1>1, <1>3, <1>4, AdoptedKept
  <1> QED BY <1>1, <1>2, <1>5, <1>6, <1>7 DEF McpSafe

LEMMA UpsertFailsSafe ==
    ASSUME McpSafe, alive, NEW n \in Names, UpsertFails(n)
    PROVE  McpSafe'
  <1>1. /\ UNCHANGED <<known, job, alive>> /\ mishaps' \in 0..MaxMishaps
        /\ Torn \notin Tool
    BY McpAssumption, McpNullAssumption DEF UpsertFails, Mishap, McpSafe
  <1>2. CASE file' = file
    BY <1>1, <1>2 DEF McpSafe, FilesSound, KnownSound, JobsSound, ToolsSound, CreatorSound,
                      KnownIsStored, EditsAreDurable, CreatedIsAdopted, Readable
  <1>3. CASE file' = [file EXCEPT ![Sanitize[n]] = Torn]
    <2>1. FilesSound' /\ JobsSound'
      BY <1>1, <1>3, UserWrites
    <2>2. Ours(Sanitize[n]) /\ \A t \in Tasks : GeneratedId[t] \in Names \ {Sanitize[n]}
      BY SanitizedIsOurs, McpAssumption
    <2>3. /\ file'[Sanitize[n]] = Torn
          /\ \A m \in Names \ {Sanitize[n]} : file'[m] = file[m]
      BY <1>3, <2>2 DEF McpSafe, FilesSound, Ours
    <2>4. KnownSound'
      BY <1>1 DEF McpSafe, KnownSound
    <2>5. KnownIsStored' /\ EditsAreDurable'
      BY <1>1, <1>3, <2>2, PromisesKept
    <2>6. CreatedIsAdopted'
      BY <1>1, <2>2, <2>3, AdoptedKept
    <2> QED BY <1>1, <2>1, <2>4, <2>5, <2>6 DEF McpSafe
  <1> QED BY <1>2, <1>3 DEF UpsertFails

-----------------------------------------------------------------------------
\* Steps of the executions that touch neither files nor registry.
LEMMA RegistryKept ==
    ASSUME McpSafe, UNCHANGED <<file, known, alive>>
    PROVE  /\ FilesSound' /\ KnownSound' /\ KnownIsStored' /\ EditsAreDurable'
           /\ GeneratedFilesStay
  BY DEF McpSafe, FilesSound, KnownSound, KnownIsStored, EditsAreDurable, Readable,
         GeneratedFilesStay

\* Such a step keeps the created tools in hand if the execution that moves does.
LEMMA AdoptedByJobs ==
    ASSUME McpSafe, UNCHANGED <<file, known, alive>>, NEW j \in Jobs,
           \A k \in Jobs \ {j} : job'[k] = job[k],
           job[j].created => job'[j].created /\ job'[j].task = job[j].task
    PROVE  CreatedIsAdopted'
  BY DEF McpSafe, CreatedIsAdopted, Readable

LEMMA QuietStep ==
    ASSUME McpSafe, NEW j \in Jobs, NEW e \in Execution, job' = [job EXCEPT ![j] = e],
           UNCHANGED <<file, known, alive>>, mishaps' \in 0..MaxMishaps,
           \A n \in Names : e.tools[n] # NoTool => Retried(e.tools[n]),
           e.pc \in {"run", "explain"} => e.tool \in Tool /\ Retried(e.tool),
           e.pc # "idle" => e.task \in Tasks,
           e.created = job[j].created,
           e.created => e.task = job[j].task /\ e.tool = job[j].tool /\ e.pc \in {"run", "explain"}
    PROVE  McpSafe'
  <1>1. /\ FilesSound' /\ KnownSound' /\ KnownIsStored' /\ EditsAreDurable'
        /\ GeneratedFilesStay
    BY RegistryKept
  <1>2. e.created => /\ e.tool.id = GeneratedId[e.task]
                     /\ file'[GeneratedId[e.task]] # NoTool
    BY DEF McpSafe, JobsSound, CreatorSound
  <1>3. JobsSound' /\ job'[j] = e /\ \A k \in Jobs \ {j} : job'[k] = job[k]
    <2>1. JobsSound
      BY DEF McpSafe
    <2> QED BY <1>1, <1>2, <2>1, JobMoves
  <1>4. CreatedIsAdopted'
    BY <1>3, AdoptedByJobs
  <1> QED BY <1>1, <1>3, <1>4 DEF McpSafe

LEMMA ExecuteSafe ==
    ASSUME McpSafe, NEW j \in Jobs, NEW t \in Tasks, ExecuteMcp(j, t)
    PROVE  McpSafe'
  <1> DEFINE e == [IdleExecution EXCEPT !.pc = "context", !.task = t, !.tools = known]
  <1>1. /\ e \in Execution /\ e.pc = "context" /\ e.task = t /\ e.tools = known
        /\ ~e.created
    BY IdleIsSound DEF Execution, McpSafe, KnownSound
  <1>2. ~job[j].created
    BY DEF ExecuteMcp, McpSafe, JobsSound, CreatorSound
  <1>3. \A n \in Names : e.tools[n] # NoTool => Retried(e.tools[n])
    BY <1>1 DEF McpSafe, KnownSound
  <1>4. job' = [job EXCEPT ![j] = e] /\ UNCHANGED <<file, known, alive, mishaps>>
    BY DEF ExecuteMcp
  <1> HIDE DEF e
  <1>5. mishaps' \in 0..MaxMishaps /\ e.created = job[j].created
    BY <1>1, <1>2, <1>4, IdleIsSound DEF McpSafe, JobsSound, Execution
  <1> QED BY <1>1, <1>2, <1>3, <1>4, <1>5, QuietStep

LEMMA JobTyped ==
    ASSUME McpSafe, NEW j \in Jobs
    PROVE  /\ job[j] \in Execution /\ ToolsSound(j) /\ CreatorSound(j)
           /\ mishaps \in 0..MaxMishaps
  BY DEF McpSafe, JobsSound

LEMMA LoadContextSafe ==
    ASSUME McpSafe, NEW j \in Jobs, LoadContext(j)
    PROVE  McpSafe'
  <1> DEFINE e == [job[j] EXCEPT !.pc = "select"]
  <1>1. /\ e \in Execution /\ e.pc = "select" /\ e.created = job[j].created
        /\ e.tools = job[j].tools /\ e.task = job[j].task /\ ~job[j].created
        /\ job[j].pc # "idle"
    BY JobTyped DEF LoadContext, Execution, CreatorSound
  <1>2. job' = [job EXCEPT ![j] = e] /\ UNCHANGED <<file, known, alive, mishaps>>
    BY DEF LoadContext
  <1> HIDE DEF e
  <1>3. mishaps' \in 0..MaxMishaps
    BY <1>2, JobTyped
  <1>4. \A n \in Names : e.tools[n] # NoTool => Retried(e.tools[n])
    BY <1>1, JobTyped DEF ToolsSound
  <1>5. e.task \in Tasks
    BY <1>1, JobTyped DEF CreatorSound
  <1> QED BY <1>1, <1>2, <1>3, <1>4, <1>5, QuietStep

LEMMA SelectSafe ==
    ASSUME McpSafe, NEW j \in Jobs, NEW n \in Names, SelectTool(j, n)
    PROVE  McpSafe'
  <1> DEFINE e == [job[j] EXCEPT !.pc = "run", !.tool = job[j].tools[n], !.tools = NoTools]
  <1>1. /\ job[j] \in Execution /\ job[j].pc = "select" /\ job[j].tools[n] # NoTool
        /\ ~job[j].created
    BY JobTyped DEF SelectTool, Offered, CreatorSound
  <1>2. job[j].tools[n] \in Tool /\ Retried(job[j].tools[n]) /\ job[j].task \in Tasks
    <2>1. job[j].tools \in [Names -> Tool \cup {NoTool}]
      BY <1>1 DEF Execution
    <2> QED BY <1>1, <2>1, JobTyped DEF ToolsSound, CreatorSound
  <1>3. /\ e \in Execution /\ e.pc = "run" /\ e.created = job[j].created
        /\ e.tools = NoTools /\ e.task = job[j].task /\ e.tool = job[j].tools[n]
    BY <1>1, <1>2 DEF Execution, NoTools
  <1>4. job' = [job EXCEPT ![j] = e] /\ UNCHANGED <<file, known, alive, mishaps>>
    BY DEF SelectTool, McpSafe, JobsSound
  <1> HIDE DEF e
  <1>5. mishaps' \in 0..MaxMishaps /\ \A m \in Names : e.tools[m] = NoTool
    BY <1>3, <1>4, JobTyped DEF NoTools
  <1> QED BY <1>1, <1>2, <1>3, <1>4, <1>5, QuietStep

\* A call changes the counters of its execution only.
LEMMA CallSafe ==
    ASSUME McpSafe, NEW j \in Jobs, job[j].pc = "run", NEW e \in Execution,
           job' = [job EXCEPT ![j] = e], UNCHANGED <<file, known, alive, mishaps>>,
           e.pc \in {"run", "explain"}, e.created = job[j].created,
           e.tools = job[j].tools, e.task = job[j].task, e.tool = job[j].tool
    PROVE  McpSafe'
  <1>1. /\ mishaps' \in 0..MaxMishaps /\ job[j].task \in Tasks
        /\ job[j].tool \in Tool /\ Retried(job[j].tool)
        /\ \A n \in Names : job[j].tools[n] # NoTool => Retried(job[j].tools[n])
    BY JobTyped DEF ToolsSound, CreatorSound
  <1> QED BY <1>1, QuietStep

LEMMA CallSucceedsSafe ==
    ASSUME McpSafe, NEW j \in Jobs, CallSucceeds(j)
    PROVE  McpSafe'
  <1> DEFINE count == job[j].attempts + 1
             e == [job[j] EXCEPT !.pc = "explain", !.success = TRUE, !.attempts = count]
  <1>1. job[j].pc = "run" /\ count \in Nat
    BY JobTyped DEF CallSucceeds, Execution
  <1>3. job' = [job EXCEPT ![j] = e] /\ UNCHANGED <<file, known, alive, mishaps>>
    BY DEF CallSucceeds, McpSafe, JobsSound
  <1> HIDE DEF count
  <1>2. /\ e \in Execution /\ e.pc = "explain" /\ e.created = job[j].created
        /\ e.tools = job[j].tools /\ e.task = job[j].task /\ e.tool = job[j].tool
    BY <1>1, JobTyped DEF Execution
  <1> HIDE DEF e
  <1> QED BY <1>1, <1>2, <1>3, CallSafe

LEMMA CallFailsSafe ==
    ASSUME McpSafe, NEW j \in Jobs, CallFails(j)
    PROVE  McpSafe'
  <1> DEFINE next == IF job[j].attempts + 1 < Attempts(job[j].tool) THEN "run" ELSE "explain"
             count == job[j].attempts + 1
             e == [job[j] EXCEPT !.attempts = count, !.pc = next]
  <1>1. job[j].pc = "run" /\ count \in Nat
    BY JobTyped DEF CallFails, Execution
  <1>2. next \in {"run", "explain"}
    OBVIOUS
  <1>3. job' = [job EXCEPT ![j] = e] /\ UNCHANGED <<file, known, alive, mishaps>>
    BY DEF CallFails, McpSafe, JobsSound
  <1> HIDE DEF next, count
  <1>4. /\ e \in Execution /\ e.pc = next /\ e.created = job[j].created
        /\ e.tools = job[j].tools /\ e.task = job[j].task /\ e.tool = job[j].tool
    BY <1>1, <1>2, JobTyped DEF Execution
  <1> HIDE DEF e
  <1> QED BY <1>1, <1>2, <1>3, <1>4, CallSafe

LEMMA EndsWithErrorSafe ==
    ASSUME McpSafe, NEW j \in Jobs, EndsWithError(j)
    PROVE  McpSafe'
  <1>1. /\ job' = [job EXCEPT ![j] = IdleExecution] /\ UNCHANGED <<file, known, alive>>
        /\ mishaps' \in 0..MaxMishaps
    BY McpAssumption DEF EndsWithError, Mishap, McpSafe
  <1>2. ~job[j].created
    BY JobTyped DEF EndsWithError, CreatorSound
  <1>3. IdleExecution.created = job[j].created
    BY <1>2, JobTyped, IdleIsSound DEF Execution
  <1> QED BY <1>1, <1>3, IdleIsSound, QuietStep

LEMMA CallPanicsSafe ==
    ASSUME McpSafe, NEW j \in Jobs, CallPanics(j)
    PROVE  McpSafe'
  <1>1. JobsSound'
    BY AllEnd DEF CallPanics
  <1> QED BY <1>1 DEF CallPanics, McpSafe, FilesSound, KnownSound, NoTools, KnownIsStored,
                      EditsAreDurable, CreatedIsAdopted, Readable

-----------------------------------------------------------------------------
\* Steps that write the file of a generated tool, and the end of an execution.
LEMMA GeneratedWrite ==
    ASSUME McpSafe, NEW t \in Tasks, NEW x \in Tool \cup {NoTool, Torn},
           x \in Tool => x.id = GeneratedId[t] /\ Retried(x), x # NoTool,
           file' = [file EXCEPT ![GeneratedId[t]] = x], UNCHANGED <<known, alive>>
    PROVE  /\ FilesSound' /\ KnownSound' /\ KnownIsStored' /\ EditsAreDurable'
           /\ GeneratedFilesStay
           /\ \A u \in Tasks \ {t} : file'[GeneratedId[u]] = file[GeneratedId[u]]
           /\ file'[GeneratedId[t]] = x
  <1>1. Ours(GeneratedId[t]) /\ Sanitize[GeneratedId[t]] # GeneratedId[t]
    BY GeneratedIsOurs
  <1>2. /\ FilesSound' /\ file'[GeneratedId[t]] = x
        /\ \A f \in Names \ {GeneratedId[t]} : file'[f] = file[f]
    BY <1>1, Written DEF McpSafe
  <1>3. \A u \in Tasks \ {t} : GeneratedId[u] \in Names \ {GeneratedId[t]}
    BY McpAssumption
  <1>4. KnownIsStored' /\ EditsAreDurable'
    BY <1>1, PromisesKept
  <1>5. KnownSound' /\ GeneratedFilesStay
    BY <1>2, <1>3 DEF McpSafe, KnownSound, GeneratedFilesStay
  <1> QED BY <1>2, <1>3, <1>4, <1>5

LEMMA CreateToolSafe ==
    ASSUME McpSafe, NEW j \in Jobs, NEW rev \in Revisions, CreateTool(j, rev)
    PROVE  McpSafe'
  <1> DEFINE t == job[j].task
             x == Generated(t, rev)
             e == [job[j] EXCEPT !.pc = "run", !.tool = x, !.tools = NoTools, !.created = TRUE]
  <1>1. job[j] \in Execution /\ job[j].pc = "select" /\ t \in Tasks /\ ~job[j].created
    BY JobTyped DEF CreateTool, CreatorSound
  <1>2. x \in Tool /\ x.id = GeneratedId[t] /\ Retried(x)
    BY <1>1, McpAssumption DEF Generated, Tool, Retried
  <1>3. /\ file' = [file EXCEPT ![GeneratedId[t]] = x]
        /\ job' = [job EXCEPT ![j] = e] /\ UNCHANGED <<known, alive, mishaps>>
    BY <1>2 DEF CreateTool, McpSafe, JobsSound
  <1> HIDE DEF x
  <1>4. /\ e \in Execution /\ e.pc = "run" /\ e.created /\ e.tools = NoTools
        /\ e.task = t /\ e.tool = x
    BY <1>1, <1>2 DEF Execution, NoTools
  <1> HIDE DEF e
  <1>5. /\ FilesSound' /\ KnownSound' /\ KnownIsStored' /\ EditsAreDurable'
        /\ GeneratedFilesStay /\ file'[GeneratedId[t]] = x
        /\ \A u \in Tasks \ {t} : file'[GeneratedId[u]] = file[GeneratedId[u]]
    BY <1>1, <1>2, <1>3, McpNullAssumption, GeneratedWrite
  <1>6. x # NoTool /\ \A m \in Names : e.tools[m] = NoTool
    BY <1>2, <1>4, McpNullAssumption DEF NoTools
  <1>7. JobsSound' /\ job'[j] = e /\ \A k \in Jobs \ {j} : job'[k] = job[k]
    <2>1. JobsSound
      BY DEF McpSafe
    <2> HIDE DEF t
    <2>2. \A n \in Names : e.tools[n] # NoTool => Retried(e.tools[n])
      BY <1>6
    <2>3. e.tool \in Tool /\ Retried(e.tool) /\ e.task \in Tasks
      BY <1>1, <1>2, <1>4
    <2>4. e.tool.id = GeneratedId[e.task] /\ file'[GeneratedId[e.task]] # NoTool
      BY <1>2, <1>4, <1>5, <1>6
    <2> QED BY <1>3, <1>4, <1>5, <2>1, <2>2, <2>3, <2>4, JobMoves
  <1>8. CreatedIsAdopted'
    <2>1. ASSUME NEW u \in Tasks, alive, Readable(GeneratedId[u])', u # t
          PROVE  \/ known[GeneratedId[u]] # NoTool
                 \/ \E k \in Jobs : job[k].created /\ job[k].task = u
      BY <1>5, <2>1 DEF McpSafe, CreatedIsAdopted, Readable
    <2>2. ASSUME NEW u \in Tasks, NEW k \in Jobs, job[k].created
          PROVE  job'[k] = job[k]
      BY <1>1, <1>7, <2>2
    <2> QED BY <1>3, <1>4, <1>7, <2>1, <2>2 DEF CreatedIsAdopted
  <1> QED BY <1>3, <1>5, <1>7, <1>8 DEF McpSafe

LEMMA CreateFailsSafe ==
    ASSUME McpSafe, NEW j \in Jobs, CreateFails(j)
    PROVE  McpSafe'
  <1> DEFINE t == job[j].task
  <1>1. t \in Tasks /\ ~job[j].created
    BY JobTyped DEF CreateFails, CreatorSound
  <1>2. /\ job' = [job EXCEPT ![j] = IdleExecution] /\ UNCHANGED <<known, alive>>
        /\ mishaps' \in 0..MaxMishaps
    BY McpAssumption DEF CreateFails, Mishap, McpSafe
  <1>3. CASE file' = file
    <2>1. IdleExecution.created = job[j].created
      BY <1>1, JobTyped, IdleIsSound DEF Execution
    <2> QED BY <1>2, <1>3, <2>1, IdleIsSound, QuietStep
  <1>4. CASE file' = [file EXCEPT ![GeneratedId[t]] = Torn]
    <2>1. /\ FilesSound' /\ KnownSound' /\ KnownIsStored' /\ EditsAreDurable'
          /\ GeneratedFilesStay /\ file'[GeneratedId[t]] = Torn
          /\ \A u \in Tasks \ {t} : file'[GeneratedId[u]] = file[GeneratedId[u]]
      BY <1>1, <1>2, <1>4, McpNullAssumption, GeneratedWrite
    <2>2. /\ JobsSound' /\ job'[j] = IdleExecution
          /\ \A k \in Jobs \ {j} : job'[k] = job[k]
      BY <1>2, <2>1, JobEnds DEF McpSafe
    <2>3. CreatedIsAdopted'
      BY <1>1, <1>2, <2>1, <2>2 DEF McpSafe, CreatedIsAdopted, Readable
    <2> QED BY <1>2, <2>1, <2>2, <2>3 DEF McpSafe
  <1> QED BY <1>3, <1>4 DEF CreateFails

LEMMA FinishSafe ==
    ASSUME McpSafe, NEW j \in Jobs, Finish(j)
    PROVE  McpSafe'
  <1> DEFINE tool == job[j].tool
             g == GeneratedId[job[j].task]
  <1>1. /\ job' = [job EXCEPT ![j] = IdleExecution] /\ UNCHANGED <<file, alive, mishaps>>
        /\ tool \in Tool /\ Retried(tool) /\ job[j].task \in Tasks
    BY JobTyped DEF Finish, ToolsSound, CreatorSound
  <1>2. GeneratedFilesStay /\ FilesSound'
    BY <1>1 DEF GeneratedFilesStay, McpSafe, FilesSound, Readable
  <1>3. JobsSound' /\ job'[j] = IdleExecution /\ \A k \in Jobs \ {j} : job'[k] = job[k]
    BY <1>1, <1>2, JobEnds DEF McpSafe
  <1>4. CASE ~job[j].created
    <2>1. known' = known
      BY <1>4 DEF Finish
    <2> QED BY <1>1, <1>2, <1>3, <1>4, <2>1, RegistryKept, AdoptedByJobs DEF McpSafe
  <1>5. CASE job[j].created
    <2>1. tool.id = g /\ file[g] # NoTool
      BY <1>5, JobTyped DEF CreatorSound
    <2>2. known' = [known EXCEPT ![g] = tool]
      BY <1>5, <2>1 DEF Finish
    <2>3. /\ Ours(g) /\ g \in Names /\ Sanitize[g] # g
          /\ \A u \in Tasks \ {job[j].task} : GeneratedId[u] \in Names \ {g}
      BY <1>1, GeneratedIsOurs, McpAssumption
    <2>4. known'[g] = tool /\ \A m \in Names \ {g} : known'[m] = known[m]
      BY <2>2, <2>3 DEF McpSafe, KnownSound
    <2>5. KnownSound'
      BY <1>1, <2>1, <2>2, <2>3, <2>4 DEF McpSafe, KnownSound
    <2>6. file[g] = Torn \/ (Readable(g) /\ file[g].id = g)
      BY <2>1, <2>3, OursIsOwn DEF McpSafe, Readable
    <2>7. KnownIsStored'
      BY <1>1, <2>3, <2>4, <2>6 DEF McpSafe, KnownIsStored, Readable
    <2>8. EditsAreDurable'
      BY <1>1, <2>3, <2>4 DEF McpSafe, EditsAreDurable, Readable
    <2>9. CreatedIsAdopted'
      BY <1>1, <1>3, <2>3, <2>4, McpNullAssumption DEF McpSafe, CreatedIsAdopted, Readable
    <2> QED BY <1>1, <1>2, <1>3, <2>5, <2>7, <2>8, <2>9 DEF McpSafe
  <1> QED BY <1>4, <1>5

-----------------------------------------------------------------------------
\* A registry just loaded from sound files, at the start or after a restart, keeps
\* every promise.
Started ==
    /\ FilesSound /\ JobsSound
    /\ alive \in BOOLEAN /\ mishaps \in 0..MaxMishaps
    /\ \E late \in SUBSET Names : known = Load(late)

LoadSound(n) ==
    /\ known[n] # NoTool => /\ Holders(n) # {} /\ known[n] \in Tool
                            /\ known[n].id = n /\ Retried(known[n])
    /\ Holders(n) \subseteq {n} /\ Sanitize[n] = n /\ file[n] # Torn => known[n] = file[n]
    /\ Holders(n) # {} => known[n] # NoTool

LEMMA LoadedIsSound ==
    ASSUME Started
    PROVE  known \in [Names -> Tool \cup {NoTool}] /\ \A n \in Names : LoadSound(n)
  <1>1. /\ known \in [Names -> Tool \cup {NoTool}]
        /\ \A n \in Names : \/ Holders(n) = {} /\ known[n] = NoTool
                            \/ \E f \in Holders(n) : known[n] = file[f]
    BY Loaded DEF LoadsHolders, Started
  <1>2. ASSUME NEW n \in Names, NEW f \in Holders(n)
        PROVE  file[f] \in Tool /\ file[f].id = n /\ Retried(file[f]) /\ file[f] # NoTool
    BY McpNullAssumption DEF Started, FilesSound, Holders, Readable
  <1>3. ASSUME NEW n \in Names, Sanitize[n] = n, Holders(n) = {}, file[n] # Torn
        PROVE  file[n] = NoTool
    <2>1. SUFFICES ASSUME Readable(n) PROVE FALSE
      BY <1>3 DEF Readable
    <2>2. Ours(n)
      BY <1>3, SanitizedIsOurs
    <2> QED BY <1>3, <2>1, <2>2, OursIsOwn DEF Holders, Started
  <1>4. ASSUME NEW n \in Names
        PROVE  LoadSound(n)
    <2>1. CASE Holders(n) = {} /\ known[n] = NoTool
      BY <2>1, <1>3 DEF LoadSound
    <2>2. CASE \E f \in Holders(n) : known[n] = file[f]
      BY <2>2, <1>2 DEF LoadSound
    <2> QED BY <1>1, <2>1, <2>2
  <1> QED BY <1>1, <1>4

LEMMA StartSafe == Started => McpSafe
  <1> SUFFICES ASSUME Started PROVE McpSafe
    OBVIOUS
  <1>5. known \in [Names -> Tool \cup {NoTool}] /\ \A n \in Names : LoadSound(n)
    BY LoadedIsSound
  <1>1. KnownSound
    BY <1>5 DEF KnownSound, LoadSound
  <1>2. KnownIsStored
    BY <1>5 DEF KnownIsStored, LoadSound, Holders
  <1>3. EditsAreDurable
    BY <1>5 DEF EditsAreDurable, LoadSound, Holders
  <1>4. CreatedIsAdopted
    <2>1. ASSUME NEW t \in Tasks, Readable(GeneratedId[t])
          PROVE  known[GeneratedId[t]] # NoTool
      <3>1. Ours(GeneratedId[t])
        BY GeneratedIsOurs
      <3>2. GeneratedId[t] \in Holders(GeneratedId[t])
        BY <2>1, <3>1, OursIsOwn DEF Holders, Ours, Started
      <3> QED BY <1>5, <3>1, <3>2 DEF LoadSound, Ours
    <2> QED BY <2>1 DEF CreatedIsAdopted
  <1> QED BY <1>1, <1>2, <1>3, <1>4 DEF McpSafe, Started

LEMMA StartSafeNext == Started' => McpSafe'
  BY StartSafe, PTL

LEMMA InitSafe ==
    ASSUME McpInit
    PROVE  McpSafe
  <1>1. PICK retries \in [Names -> Retries] : file = ShippedFiles(retries)
    BY DEF McpInit
  <1>2. FilesSound
    <2> DEFINE rev == CHOOSE r \in Revisions : TRUE
    <2>1. rev \in Revisions
      BY McpAssumption
    <2> HIDE DEF rev
    <2> QED BY <1>1, <2>1, McpAssumption, McpNullAssumption
         DEF FilesSound, ShippedFiles, Tool, Retried, Readable
  <1>3. JobsSound
    BY IdleIsSound DEF McpInit, JobsSound, ToolsSound, CreatorSound
  <1>4. known = Load({}) /\ {} \in SUBSET Names /\ alive = TRUE /\ mishaps = 0
    BY DEF McpInit
  <1>5. mishaps \in 0..MaxMishaps
    BY <1>4, McpAssumption
  <1> QED BY <1>2, <1>3, <1>4, <1>5, StartSafe DEF Started

LEMMA RestartSafe ==
    ASSUME McpSafe, Restart
    PROVE  McpSafe'
  <1>1. /\ mishaps' \in 0..MaxMishaps /\ alive' \in BOOLEAN
        /\ \E late \in SUBSET Names : known' = Load(late)'
    <2>1. mishaps' \in 0..MaxMishaps /\ alive' \in BOOLEAN
      BY McpAssumption DEF Restart, Mishap, McpSafe
    <2>2. PICK late \in SUBSET TwiceStored : known' = Load(late)'
      BY DEF Restart
    <2>3. late \in SUBSET Names
      BY DEF TwiceStored
    <2> QED BY <2>1, <2>2, <2>3
  <1>2. JobsSound'
    BY AllEnd DEF Restart
  <1>3. FilesSound'
    <2>1. CASE UNCHANGED file
      BY <2>1 DEF McpSafe, FilesSound, Readable
    <2>2. CASE \E n \in BeingWritten : file' = [file EXCEPT ![n] = Torn]
      <3>1. PICK n \in BeingWritten : file' = [file EXCEPT ![n] = Torn]
        BY <2>2
      <3>2. \A j \in Jobs : job[j].pc = "select" => job[j].task \in Tasks
        BY JobTyped DEF CreatorSound
      <3>3. Ours(n)
        BY <3>1, <3>2, SanitizedIsOurs, GeneratedIsOurs DEF BeingWritten
      <3> QED BY <3>1, <3>3, McpNullAssumption, Written DEF McpSafe
    <2> QED BY <2>1, <2>2 DEF Restart
  <1>4. Started'
    BY <1>1, <1>2, <1>3 DEF Started
  <1> QED BY <1>4, StartSafeNext

-----------------------------------------------------------------------------
LEMMA StepSafe ==
    ASSUME McpSafe, [McpNext]_mcpVars
    PROVE  McpSafe'
  <1>1. CASE Editing
    BY <1>1, DeleteSafe, UpsertFailsSafe, UpsertSafe DEF Editing
  <1>2. ASSUME NEW j \in Jobs, NEW t \in Tasks, ExecuteMcp(j, t)
        PROVE  McpSafe'
    BY <1>2, ExecuteSafe
  <1>3. ASSUME NEW j \in Jobs, ExecutionStep(j)
        PROVE  McpSafe'
    BY <1>3, LoadContextSafe, EndsWithErrorSafe, SelectSafe, CreateToolSafe, CreateFailsSafe,
       CallSucceedsSafe, CallFailsSafe, CallPanicsSafe, FinishSafe DEF ExecutionStep
  <1>4. CASE Restart
    BY <1>4, RestartSafe
  <1>5. CASE UNCHANGED mcpVars
    BY <1>5 DEF mcpVars, McpSafe, FilesSound, KnownSound, JobsSound, ToolsSound, CreatorSound,
                KnownIsStored, EditsAreDurable, CreatedIsAdopted, Readable
  <1> QED BY <1>1, <1>2, <1>3, <1>4, <1>5 DEF McpNext

LEMMA McpAlwaysSafe == McpSpec => []McpSafe
  BY InitSafe, StepSafe, PTL DEF McpSpec

\* The registry holds nothing that the directory does not hold, up to files whose
\* writing failed, and a task is given up only for a shipped tool that says so: after
\* any edits, executions, panics and restarts.
THEOREM RegistryInvariant == McpSpec => []McpInv
  <1>1. McpSafe => McpInv
    <2> SUFFICES ASSUME McpSafe PROVE McpInv
      OBVIOUS
    <2>1. McpTypeOK
      BY DEF McpSafe, McpTypeOK, FilesSound, KnownSound, JobsSound, ToolsSound
    <2>2. ASSUME NEW j \in Jobs, job[j].pc = "explain", Result(j) = "failed"
          PROVE  job[j].tool.maker = "shipped"
      <3>1. job[j].tool \in Tool /\ Retried(job[j].tool)
        BY <2>2, JobTyped DEF ToolsSound
      <3>2. ~(job[j].tool.retries > 0)
        BY <2>2 DEF Result
      <3> QED BY <3>1, <3>2 DEF Retried
    <2>3. OnlyShippedToolsGiveUp
      BY <2>2 DEF OnlyShippedToolsGiveUp
    <2> QED BY <2>1, <2>3 DEF McpInv, McpSafe
  <1> QED BY <1>1, McpAlwaysSafe, PTL

\* What users edited is the same in memory and on disk, whatever executions, which
\* work on old copies of the registry, and restarts come between.
THEOREM EditsStayDurable == McpSpec => []EditsAreDurable
  <1>1. McpSafe => EditsAreDurable
    BY DEF McpSafe
  <1> QED BY <1>1, McpAlwaysSafe, PTL

\* A created tool is in the registry, or an execution is about to put it there.
THEOREM CreatedStaysAdopted == McpSpec => []CreatedIsAdopted
  <1>1. McpSafe => CreatedIsAdopted
    BY DEF McpSafe
  <1> QED BY <1>1, McpAlwaysSafe, PTL

=============================================================================
