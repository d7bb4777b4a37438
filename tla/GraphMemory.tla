---------------------------- MODULE GraphMemory ----------------------------
(***************************************************************************)
(* The assistant's long-term memory: AgentMemoryActor, which finds the     *)
(* assistant's name when the server starts and lets a language model       *)
(* rewrite the graph after each message, the background updates of the     *)
(* chat with their retries, and the edits people make over HTTP.           *)
(***************************************************************************)
EXTENDS GraphStore

CONSTANTS MaxUpdates,  \* bound on the calls of spawn_memory_update_with_retry
          Plans,       \* the lists of operations the model may answer with
          ModelNames,  \* the names it may extract from the personality file
          HandNames, RawTypes, \* what people may type
          Blank,       \* the name of a node whose request leaves it out: empty
          MaxRetries,
          MaxDisturbances, \* bound on the faults and the edits by hand
          MaxCrashes       \* bound

ASSUME MemoryAssumption ==
    /\ ModelNames \cup HandNames \cup {Blank} \subseteq Names
    /\ "Memory" \in Labels
    /\ Plans \subseteq Seq(Operation) /\ RawTypes \subseteq Types
    /\ MaxRetries \in Nat \ {0}
    /\ {MaxUpdates, MaxDisturbances, MaxCrashes} \subseteq Nat

VARIABLES graph,
          actor,     \* AgentMemoryActor: the steps of new(), then up or dead
          aiName,    \* its ai_name
          update,
          count,     \* how many disturbances and crashes there were
          lastName,  \* history: the name the assistant last answered to
          nameDoubt, \* history: a root was edited, or its name not read or not stored
          twinDoubt  \* history: two MERGEs of a node overlapped, or names were given by hand

\* The updates, in the order in which they begin.
Updates == 1..MaxUpdates

memoryVars == <<graph, actor, aiName, update, count, lastName, nameDoubt, twinDoubt>>

Booting == {"root", "read", "extract", "rename"}

\* The state of an update: its attempt, the answer of the model and the
\* statements left of it, the keys the statement under way did not find; and, as
\* history, what the graph said when the update began: {} once somebody else has
\* written, or the model has changed its answer.
Idle == [pc |-> "idle", attempt |-> 0, plan |-> <<>>, todo |-> <<>>, absent |-> {},
         base |-> {}]
Forget(v) == [v EXCEPT !.base = {}, !.plan = <<>>]
Ended(how) == [Idle EXCEPT !.pc = how]
Active == {"asking", "writing", "cut", "waiting"}

-----------------------------------------------------------------------------
\* What fetch_all_entities reads and format_graph_to_string shows to the model:
\* every node, and every relation by the names of its ends.  The ids shown for
\* nodes without a name, and the properties, are left out.
Shown(n) == [label |-> n.label, name |-> n.name]
Summary(g) ==
    LET at(i) == Shown(CHOOSE n \in g.nodes : n.id = i)
    IN  [entities |-> {Shown(n) : n \in g.nodes},
         facts |-> {<<at(r.from), r.type, at(r.to)>> : r \in g.rels}]

Roots(g) == {n \in g.nodes : n.label = Root}
RootNames(g) == {n.name : n \in Roots(g)}

MemoryInit ==
    /\ graph = Empty /\ actor = "root" /\ aiName = Wo
    /\ update = [u \in Updates |-> Idle]
    /\ count = [disturbances |-> 0, crashes |-> 0]
    /\ lastName = Wo /\ nameDoubt = FALSE /\ twinDoubt = FALSE

Disturbance == /\ count.disturbances < MaxDisturbances
               /\ count' = [count EXCEPT !.disturbances = @ + 1]

-----------------------------------------------------------------------------
\* AgentMemoryActor::new, before the server serves anything.

\* init_root_node.  A row that cannot be read counts as no root.
CreateRoot == /\ Ids(graph.nodes) # NodeIds
              /\ graph' = AddNode(graph, [label |-> Root, name |-> Wo])

InitRoot ==
    /\ actor = "root"
    /\ actor' = "read"
    /\ \/ /\ IF Roots(graph) = {} THEN CreateRoot ELSE UNCHANGED graph
          /\ UNCHANGED <<count, nameDoubt, twinDoubt>>
       \/ /\ Disturbance /\ CreateRoot
          /\ nameDoubt' = TRUE /\ twinDoubt' = TRUE
    /\ UNCHANGED <<aiName, update, lastName>>

Serve(name) == actor' = "up" /\ aiName' = name /\ lastName' = name

\* Mutant: the name is extracted at every start.
UseNameNever(name) == actor' = "extract" /\ UNCHANGED <<aiName, lastName>>

\* get_root_name and the choice new() makes: the name of any root, unless it is
\* still Wo or missing.
UseName(name) ==
    IF name \in {Wo, NoName}
    THEN actor' = "extract" /\ UNCHANGED <<aiName, lastName>>
    ELSE Serve(name)

\* A row that cannot be read counts as Wo.
GetRootName ==
    /\ actor = "read"
    /\ \/ \E name \in RootNames(graph) : UseName(name) /\ UNCHANGED <<count, nameDoubt>>
       \/ Disturbance /\ UseName(Wo) /\ nameDoubt' = TRUE
    /\ UNCHANGED <<graph, update, twinDoubt>>

\* extract_ai_name; the model or its answer may fail.
ExtractName ==
    /\ actor = "extract"
    /\ \/ /\ aiName' \in ModelNames
          /\ actor' = "rename" /\ UNCHANGED <<count, lastName>>
       \/ Disturbance /\ Serve(Wo)
    /\ UNCHANGED <<graph, update, nameDoubt, twinDoubt>>

\* update_root_name_static, whose error is dropped.
StoreName ==
    /\ actor = "rename"
    /\ Serve(aiName)
    /\ \/ /\ graph' = Rename(graph, Ids(Roots(graph)), aiName)
          /\ twinDoubt' = (twinDoubt \/ \E m, n \in Roots(graph) : m # n)
          /\ UNCHANGED <<count, nameDoubt>>
       \/ Disturbance /\ nameDoubt' = TRUE /\ UNCHANGED <<graph, twinDoubt>>
    /\ UNCHANGED update

-----------------------------------------------------------------------------
\* The updates.

\* The graph becomes g and the updates become new; those in others see that
\* somebody else has written.
Write(g, new, others) ==
    /\ graph' = g
    /\ update' = [v \in Updates |->
                    IF v \in others /\ g # graph THEN Forget(new[v]) ELSE new[v]]
    /\ nameDoubt' = (nameDoubt \/ RootNames(g) # RootNames(graph))

\* A turn has its summary and hands an update to the actor.
StartUpdate(u) ==
    /\ actor = "up" /\ update[u].pc = "idle"
    /\ \A v \in 1..(u - 1) : update[v].pc # "idle"
    /\ update' = [update EXCEPT ![u] =
                     [@ EXCEPT !.pc = "asking", !.attempt = 1, !.base = {Summary(graph)}]]
    /\ UNCHANGED <<graph, actor, aiName, count, lastName, nameDoubt, twinDoubt>>

\* Mutant: a failure starts the count of attempts anew.
FailedUncounted(v) ==
    [v EXCEPT !.pc = "waiting", !.attempt = 1, !.todo = <<>>, !.absent = {}]

\* What becomes of an update when an attempt fails.
Failed(v) ==
    IF v.attempt >= MaxRetries THEN Ended("gaveup")
    ELSE [v EXCEPT !.pc = "waiting", !.todo = <<>>, !.absent = {}]

\* The update goes on to its next statement, which reads g, or is done.
Onward(v, todo, g) ==
    IF todo = <<>> THEN Ended("done")
    ELSE [v EXCEPT !.pc = "writing", !.todo = todo, !.absent = Absent(g, Head(todo))]

\* Two statements under way MERGE the same node.
Overlaps(u, new) ==
    new.pc = "writing" /\
    \E v \in Updates \ {u} :
        /\ update[v].pc \in {"writing", "cut"}
        /\ MergedKeys(Head(update[v].todo)) \cap MergedKeys(Head(new.todo)) # {}

\* The statements of a plan from its i-th operation on, in the orders the code
\* may take.
Joined(S, T) == {st \o rest : st \in S, rest \in T}
Remaining(plan) ==
    LET from[i \in 1..(Len(plan) + 1)] ==
            IF i > Len(plan) THEN {<<>>} ELSE Joined(Statements(plan[i]), from[i + 1])
    IN  from
Expansions(plan) == Remaining(plan)[1]

\* The answer of the model to one attempt.  Each attempt asks anew.
Answer(u) ==
    /\ update[u].pc = "asking"
    /\ \/ \E plan \in Plans : \E todo \in Expansions(plan) :
             LET kept == update[u].base # {} /\ update[u].plan \in {<<>>, plan}
                 v == IF kept THEN [update[u] EXCEPT !.plan = plan] ELSE Forget(update[u])
             IN  /\ update' = [update EXCEPT ![u] = Onward(v, todo, graph)]
                 /\ twinDoubt' = (twinDoubt \/ Overlaps(u, Onward(v, todo, graph)))
                 /\ UNCHANGED count
       \/ /\ Disturbance
          /\ update' = [update EXCEPT ![u] = Failed(@)]
          /\ UNCHANGED twinDoubt
    /\ UNCHANGED <<graph, actor, aiName, lastName, nameDoubt>>

\* A statement ends; MERGE may not see what was created since it began.
Execute(u) ==
    LET st == Head(update[u].todo)
        hidden == {k \in update[u].absent : Matching(graph, k) # {}}
    IN  /\ update[u].pc = "writing" /\ ~Rejected(st)
        /\ Room(graph, st)
        /\ \E blind \in SUBSET hidden :
             LET g == Executed(graph, st, blind)
                 next == Onward(update[u], Tail(update[u].todo), g)
             IN  /\ Write(g, [update EXCEPT ![u] = next], Updates \ {u})
                 /\ twinDoubt' = (twinDoubt \/ Overlaps(u, next))
        /\ UNCHANGED <<actor, aiName, count, lastName>>

\* Mutant: an operation that fails is skipped.
FailStatementSkips(u) ==
    /\ update[u].pc = "writing" /\ Disturbance
    /\ Write(graph, [update EXCEPT ![u] = Onward(@, Tail(@.todo), graph)], {})
    /\ UNCHANGED <<actor, aiName, lastName, twinDoubt>>

\* A statement fails: it is rejected, or it does not arrive, or its reply is lost.
\* The statements before it stay.
FailStatement(u) ==
    LET st == Head(update[u].todo)
        failed == [update EXCEPT ![u] = Failed(@)]
    IN  /\ update[u].pc = "writing"
        /\ \/ Rejected(st) /\ Write(graph, failed, {}) /\ UNCHANGED count
           \/ /\ ~Rejected(st) /\ Disturbance
              /\ Room(graph, st)
              /\ \E g \in {graph, Executed(graph, st, {})} : Write(g, failed, Updates \ {u})
        /\ UNCHANGED <<actor, aiName, lastName, twinDoubt>>

\* After the delay the update is sent again; a dead actor is a failed attempt.
Resent(v) ==
    LET next == [v EXCEPT !.attempt = @ + 1]
    IN  IF actor = "up" THEN [next EXCEPT !.pc = "asking"] ELSE Failed(next)

Retry(u) ==
    /\ update[u].pc = "waiting"
    /\ update' = [update EXCEPT ![u] = Resent(@)]
    /\ UNCHANGED <<graph, actor, aiName, count, lastName, nameDoubt, twinDoubt>>

\* QueryMemory fails to read the graph and panics: the actor ends with all its
\* futures, and nothing starts it again.
QueryPanics ==
    /\ actor = "up" /\ Disturbance
    /\ actor' = "dead"
    /\ update' = [u \in Updates |->
                    CASE update[u].pc = "asking" -> Failed(update[u])
                      [] update[u].pc = "writing" -> [update[u] EXCEPT !.pc = "cut"]
                      [] OTHER -> update[u]]
    /\ UNCHANGED <<graph, aiName, lastName, nameDoubt, twinDoubt>>

\* The statement of a future that has gone may be executed all the same.
Land(u) ==
    LET st == Head(update[u].todo)
    IN  /\ update[u].pc = "cut"
        /\ Room(graph, st)
        /\ \E g \in {graph} \cup (IF Rejected(st) THEN {} ELSE {Executed(graph, st, {})}) :
             Write(g, [update EXCEPT ![u] = Failed(@)], Updates \ {u})
        /\ UNCHANGED <<actor, aiName, count, lastName, twinDoubt>>

-----------------------------------------------------------------------------
\* Edits over HTTP: one statement each.

Edit == actor = "up" /\ Disturbance

CreateMemoryNode ==
    /\ Edit /\ Ids(graph.nodes) # NodeIds
    /\ \E name \in HandNames :
         Write(AddNode(graph, [label |-> "Memory", name |-> name]), update, Updates)
    /\ twinDoubt' = TRUE
    /\ UNCHANGED <<actor, aiName, lastName>>

\* A name the request leaves out is written as empty.
UpdateMemoryNode ==
    /\ Edit
    /\ \E n \in graph.nodes, name \in HandNames \cup {Blank} :
         Write(Rename(graph, {n.id}, name), update, Updates)
    /\ twinDoubt' = TRUE
    /\ UNCHANGED <<actor, aiName, lastName>>

DeleteMemoryNode ==
    /\ Edit
    /\ \E n \in graph.nodes : Write(DetachDelete(graph, {n.id}), update, Updates)
    /\ UNCHANGED <<actor, aiName, lastName, twinDoubt>>

CreateMemoryRelationship ==
    /\ Edit
    /\ \E m, n \in graph.nodes, raw \in RawTypes :
         /\ Numbers(graph, m.id, Sanitize(raw), n.id) # RelNumbers
         /\ Write(AddRelation(graph, m.id, Sanitize(raw), n.id), update, Updates)
    /\ UNCHANGED <<actor, aiName, lastName, twinDoubt>>

DeleteMemoryRelationship ==
    /\ Edit
    /\ \E r \in graph.rels : Write(DropRelations(graph, {r}), update, Updates)
    /\ UNCHANGED <<actor, aiName, lastName, twinDoubt>>

-----------------------------------------------------------------------------
\* The process ends and is started again: the updates are gone, the graph is not.
Crash ==
    /\ actor # "root" /\ count.crashes < MaxCrashes
    /\ count' = [count EXCEPT !.crashes = @ + 1]
    /\ actor' = "root" /\ aiName' = Wo
    /\ update' = [u \in Updates |-> IF update[u].pc \in Active THEN Ended("lost") ELSE update[u]]
    /\ UNCHANGED <<graph, lastName, nameDoubt, twinDoubt>>

Boot == InitRoot \/ GetRootName \/ ExtractName \/ StoreName
Step(u) == Answer(u) \/ Execute(u) \/ FailStatement(u) \/ Retry(u) \/ Land(u)
ByHand == \/ CreateMemoryNode \/ UpdateMemoryNode \/ DeleteMemoryNode
          \/ CreateMemoryRelationship \/ DeleteMemoryRelationship

Settled == /\ actor \in {"up", "dead"}
           /\ \A u \in Updates : update[u].pc \notin Active
           /\ actor = "up" => \A u \in Updates : update[u].pc # "idle"
           /\ UNCHANGED memoryVars

MemoryNext == \/ Boot \/ QueryPanics \/ ByHand \/ Crash \/ Settled
              \/ \E u \in Updates : StartUpdate(u) \/ Step(u)

\* Model calls and statements come back with an answer or an error, and the
\* runtime wakes the sleeping updates.
MemorySpec == /\ MemoryInit /\ [][MemoryNext]_memoryVars
              /\ \A u \in Updates : WF_memoryVars(Step(u))

-----------------------------------------------------------------------------
\* Types, and: ids of nodes are unique and no relation lacks one of its ends,
\* whatever merges, renames, deletions and retries have met in the graph.
GraphTypeOK ==
    /\ graph.nodes \subseteq Node
    /\ \A m, n \in graph.nodes : m.id = n.id => m = n
    /\ \A r \in graph.rels :
          /\ {r.from, r.to} \subseteq Ids(graph.nodes) /\ Plain(r.type) /\ r.nr \in RelNumbers
    /\ actor \in Booting \cup {"up", "dead"}
    /\ {aiName, lastName} \subseteq Names
    /\ \A u \in Updates :
          /\ update[u].pc \in Active \cup {"idle", "done", "gaveup", "lost"}
          /\ update[u].attempt \in 0..MaxRetries
          /\ (update[u].todo # <<>>) <=> (update[u].pc \in {"writing", "cut"})

\* Retries, lost replies, deaths of the actor and restarts do not make a second node of
\* an entity: that takes two overlapping MERGEs of it, a name given by hand, or a start that renames several roots or misses the one there is.
OneNodePerEntity ==
    ~twinDoubt => \A m, n \in graph.nodes :
                     m.name # NoName /\ Shown(m) = Shown(n) => m = n

\* What an operation should make of the summary.
Applied(s, op) ==
    LET without(k) == {f \in s.facts : f[1] # k /\ f[3] # k}
        fact(t) == <<op.a, t, op.b>>
    IN  CASE op.do = "CreateNode" -> [s EXCEPT !.entities = @ \cup {op.a}]
          [] op.do = "DeleteNode" -> [entities |-> s.entities \ {op.a}, facts |-> without(op.a)]
          [] op.do = "CreateRelationship" ->
                [entities |-> s.entities \cup {op.a, op.b}, facts |-> s.facts \cup {fact(op.t)}]
          [] op.do = "DeleteRelationship" -> [s EXCEPT !.facts = @ \ {fact(op.t)}]
          [] op.do = "UpdateRelationship" ->
                [entities |-> s.entities \cup {op.a, op.b},
                 facts |-> (s.facts \ {fact(op.t)}) \cup {fact(op.new)}]
          [] OTHER -> s

\* The summaries a plan leads through.
Outcomes(s, plan) ==
    LET after[i \in 0..Len(plan)] == IF i = 0 THEN s ELSE Applied(after[i - 1], plan[i])
    IN  after
Outcome(s, plan) == Outcomes(s, plan)[Len(plan)]

Unnames(op) == op.do = "DeleteNodeProperty" /\ "name" \in op.props

\* An update that succeeds, at whatever attempt and whatever its failed attempts
\* have left, makes of the graph what its plan says, once: provided that the
\* model gave the same plan each time, which takes no names away, and that
\* nobody else wrote.
RetryConverges ==
    [][\A u \in Updates :
         /\ update[u].pc = "writing" /\ update'[u].pc = "done"
         /\ \A i \in DOMAIN update[u].plan : ~Unnames(update[u].plan[i])
         => \A s \in update[u].base :
               Summary(graph') = Outcome(s, update[u].plan)]_memoryVars

\* The assistant answers to the same name after every restart, unless its node
\* was edited, or the name could not be read or stored.
NameIsKept ==
    [][actor' = "up" /\ actor # "up" /\ lastName # Wo /\ ~nameDoubt'
       => aiName' = lastName]_memoryVars

\* Every update is done, given up or lost with the process.
UpdateSettles ==
    \A u \in Updates :
        update[u].pc \in Active ~> update[u].pc \in {"done", "gaveup", "lost"}

=============================================================================
