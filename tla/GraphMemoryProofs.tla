------------------------- MODULE GraphMemoryProofs -------------------------
(***************************************************************************)
(* Theorems about GraphMemory for every number of updates, every plan the  *)
(* model may answer with, and every number of faults, edits and crashes.   *)
(***************************************************************************)
EXTENDS GraphMemory, FiniteSetTheorems, WellFoundedInduction, TLAPS

-----------------------------------------------------------------------------
(* What each step keeps.                                                    *)

Relation == [from : NodeIds, type : Types, to : NodeIds, nr : RelNumbers]
Graph == [nodes : SUBSET Node, rels : SUBSET Relation]

\* Ids are unique, relations have both ends, and their types need no backticks.
WellFormed(g) ==
    /\ g \in Graph
    /\ \A m, n \in g.nodes : m.id = n.id => m = n
    /\ \A r \in g.rels : {r.from, r.to} \subseteq Ids(g.nodes) /\ Plain(r.type)

Thing == [label : Labels, name : Names \cup {NoName}]
Summaries == [entities : SUBSET Thing, facts : SUBSET (Thing \X Types \X Thing)]

Update == [pc : Active \cup {"idle", "done", "gaveup", "lost"}, attempt : 0..MaxRetries,
           plan : Seq(Operation), todo : Seq(Statement), absent : SUBSET Key,
           base : SUBSET Summaries]

\* An update has statements left exactly while one of them is under way, tries
\* again only while it may, and the keys its statement did not find are among
\* those it merges.
Sound(v) ==
    /\ v \in Update
    /\ (v.todo # <<>>) <=> (v.pc \in {"writing", "cut"})
    /\ v.pc = "waiting" => v.attempt < MaxRetries
    /\ v.pc = "writing" => v.absent \subseteq MergedKeys(Head(v.todo))

MemoryTyped ==
    /\ WellFormed(graph)
    /\ actor \in Booting \cup {"up", "dead"}
    /\ aiName \in Names /\ lastName \in Names
    /\ update \in [Updates -> Update]
    /\ \A u \in Updates : Sound(update[u])

\* No update outlives its process.
AloneAtStart == actor \in Booting => \A u \in Updates : update[u].pc \notin Active

\* The name of the assistant is that of its node, until the node is edited or its name
\* could not be read or stored; a name is extracted for a node without one only.
NameKnown ==
    ~nameDoubt =>
        /\ RootNames(graph) \subseteq {lastName}
        /\ actor # "root" \/ lastName # Wo => RootNames(graph) # {}
        /\ actor \in {"extract", "rename"} => lastName = Wo

\* No two statements under way merge the same node.
Apart(u, v) ==
    update[u].pc \in {"writing", "cut"} /\ update[v].pc \in {"writing", "cut"} =>
        MergedKeys(Head(update[u].todo)) \cap MergedKeys(Head(update[v].todo)) = {}

\* What a statement did not find when it began is still missing, and nobody else is
\* about to create it.
NoTwin ==
    ~twinDoubt =>
        /\ \A m, n \in graph.nodes : m.name # NoName /\ Shown(m) = Shown(n) => m = n
        /\ \A u \in Updates : update[u].pc = "writing" =>
              \A k \in update[u].absent : Matching(graph, k) = {}
        /\ \A u, v \in Updates : u # v => Apart(u, v)

\* What a summary may say: that there is an entity, or a fact about two of them.
Atom == [kind : {"entity", "fact"}, a : Thing, t : Types, b : Thing]
Says(s, x) ==
    IF x.kind = "fact" THEN <<x.a, x.t, x.b>> \in s.facts ELSE x.a \in s.entities

\* What a statement makes true, what it makes false, and what it decides therefore.
Gains(st, x) ==
    \/ x.kind = "entity" /\ x.a \in MergedKeys(st)
    \/ x.kind = "fact" /\ st.do = "relate" /\ x.a = st.a /\ x.t = st.t /\ x.b = st.b
Loses(st, x) ==
    \/ st.do = "delete" /\ (x.a = st.a \/ (x.kind = "fact" /\ x.b = st.a))
    \/ x.kind = "fact" /\ st.do = "unrelate" /\ x.a = st.a /\ x.t = st.t /\ x.b = st.b
Decides(st, x) == Gains(st, x) \/ Loses(st, x)
Decided(todo, x) == \E i \in DOMAIN todo : Decides(todo[i], x)
LastWord(todo, i, x) ==
    Decides(todo[i], x) /\ \A j \in DOMAIN todo : j > i => ~Decides(todo[j], x)

\* The statements todo lead to the summary end as far as they decide, and from s as far
\* as they do not.
Leads(todo, end) ==
    \A x \in Atom, i \in DOMAIN todo : LastWord(todo, i, x) => (Says(end, x) <=> Gains(todo[i], x))
Near(s, end, todo) ==
    \A x \in Atom : ~Decided(todo, x) => (Says(s, x) <=> Says(end, x))

\* A plan decides what one of its expansions does.
PlanDecides(plan, x) == \E todo \in Expansions(plan) : Decided(todo, x)

Unnaming(st) == st.do = "remove" /\ st.p = "name"
Keeping(plan) == \A i \in DOMAIN plan : ~Unnames(plan[i])

\* As long as nobody else has written, the graph differs from what it was only in what
\* the plan decides, and the statements left lead to what the plan should make of it.
OnCourse(v, g) ==
    /\ v.base # {} => v.pc \in Active
    /\ v.base # {} /\ v.pc = "writing" => \A k \in v.absent : Matching(g, k) = {}
    /\ Keeping(v.plan) =>
         \A s \in v.base :
            /\ \A x \in Atom : ~PlanDecides(v.plan, x) => (Says(Summary(g), x) <=> Says(s, x))
            /\ v.pc \in {"writing", "cut"} =>
                  /\ Leads(v.todo, Outcome(s, v.plan))
                  /\ Near(Summary(g), Outcome(s, v.plan), v.todo)
                  /\ \A x \in Atom : Decided(v.todo, x) => PlanDecides(v.plan, x)
                  /\ \A i \in DOMAIN v.todo : ~Unnaming(v.todo[i])
Converging == \A u \in Updates : OnCourse(update[u], graph)

MemoryInv == MemoryTyped /\ AloneAtStart /\ NameKnown /\ NoTwin /\ Converging

-----------------------------------------------------------------------------
(* The statements, one by one: what they make of a graph.                   *)

\* What an assignment to one field of a graph makes.
LEMMA FieldsOfGraph ==
    ASSUME NEW g \in Graph, NEW x
    PROVE  /\ [g EXCEPT !.nodes = x] = [nodes |-> x, rels |-> g.rels]
           /\ [g EXCEPT !.rels = x] = [nodes |-> g.nodes, rels |-> x]
           /\ g.nodes \subseteq Node /\ g.rels \subseteq Relation
  <1>1. PICK n \in SUBSET Node, r \in SUBSET Relation : g = [nodes |-> n, rels |-> r]
    BY DEF Graph
  <1>2. /\ [[nodes |-> n, rels |-> r] EXCEPT !.nodes = x] = [nodes |-> x, rels |-> r]
        /\ [[nodes |-> n, rels |-> r] EXCEPT !.rels = x] = [nodes |-> n, rels |-> x]
    OBVIOUS
  <1> QED BY <1>1, <1>2

\* The new node of a CREATE, when there is an id left.
LEMMA AddNodeAdds ==
    ASSUME NEW g, WellFormed(g), NEW k \in Key, Ids(g.nodes) # NodeIds
    PROVE  \E i \in NodeIds \ Ids(g.nodes) :
              /\ AddNode(g, k).nodes =
                    g.nodes \cup {[id |-> i, label |-> k.label, name |-> k.name]}
              /\ AddNode(g, k).rels = g.rels
              /\ AddNode(g, k) \in Graph
  <1>1. g \in Graph /\ g.nodes \subseteq Node /\ g.rels \subseteq Relation
    BY FieldsOfGraph DEF WellFormed
  <1>2. Ids(g.nodes) \subseteq NodeIds
    BY <1>1 DEF Ids, Node
  <1> DEFINE i == CHOOSE j \in NodeIds : j \notin Ids(g.nodes)
             new == [id |-> i, label |-> k.label, name |-> k.name]
  <1>3. i \in NodeIds /\ i \notin Ids(g.nodes)
    BY <1>2
  <1>4. new \in Node
    BY <1>3 DEF Node, Key
  <1> HIDE DEF i, new
  <1>5. AddNode(g, k) = [nodes |-> g.nodes \cup {new}, rels |-> g.rels]
    BY <1>1, FieldsOfGraph DEF AddNode, new, i
  <1>6. [nodes |-> g.nodes \cup {new}, rels |-> g.rels] \in Graph
    BY <1>1, <1>4 DEF Graph
  <1> QED BY <1>3, <1>5, <1>6 DEF new

LEMMA AddNodeOK ==
    ASSUME NEW g, WellFormed(g), NEW k \in Key, Ids(g.nodes) # NodeIds
    PROVE  WellFormed(AddNode(g, k))
  <1>1. PICK i \in NodeIds \ Ids(g.nodes) :
              /\ AddNode(g, k).nodes =
                    g.nodes \cup {[id |-> i, label |-> k.label, name |-> k.name]}
              /\ AddNode(g, k).rels = g.rels
              /\ AddNode(g, k) \in Graph
    BY AddNodeAdds
  <1>2. \A m, n \in AddNode(g, k).nodes : m.id = n.id => m = n
    BY <1>1 DEF WellFormed, Ids
  <1>3. Ids(g.nodes) \subseteq Ids(AddNode(g, k).nodes)
    BY <1>1 DEF Ids
  <1> QED BY <1>1, <1>2, <1>3 DEF WellFormed

\* Without blind keys MERGE creates nothing that is there.
LEMMA MergeNodeOK ==
    ASSUME NEW g, WellFormed(g), NEW k \in Key, NEW blind, Ids(g.nodes) # NodeIds
    PROVE  /\ WellFormed(MergeNode(g, k, blind))
           /\ MergeNode(g, k, blind).rels = g.rels
           /\ g.nodes \subseteq MergeNode(g, k, blind).nodes
           /\ Ids(Merged(g, k, blind)) \subseteq Ids(MergeNode(g, k, blind).nodes)
  <1>1. WellFormed(AddNode(g, k)) /\ AddNode(g, k).rels = g.rels /\ g.nodes \subseteq AddNode(g, k).nodes
    BY AddNodeOK, AddNodeAdds
  <1>2. /\ WellFormed(MergeNode(g, k, blind)) /\ MergeNode(g, k, blind).rels = g.rels
        /\ g.nodes \subseteq MergeNode(g, k, blind).nodes
    BY <1>1 DEF MergeNode
  <1>3. Merged(g, k, blind) \subseteq MergeNode(g, k, blind).nodes
    BY <1>2 DEF Merged, Matching
  <1> QED BY <1>2, <1>3 DEF Ids

\* One MERGE takes at most one id.
LEMMA MergeTakesOne ==
    ASSUME NEW g, WellFormed(g), NEW k \in Key, NEW blind,
           NEW i \in NodeIds \ Ids(g.nodes), NEW j \in NodeIds \ Ids(g.nodes), i # j
    PROVE  Ids(MergeNode(g, k, blind).nodes) # NodeIds
  <1>1. PICK l \in NodeIds : Ids(AddNode(g, k).nodes) \subseteq Ids(g.nodes) \cup {l}
    BY AddNodeAdds DEF Ids
  <1>2. Ids(MergeNode(g, k, blind).nodes) \subseteq Ids(g.nodes) \cup {l}
    BY <1>1 DEF MergeNode
  <1> QED BY <1>2

LEMMA MergeRelationOK ==
    ASSUME NEW g, WellFormed(g), NEW a \in Key, NEW b \in Key, NEW t, Plain(t), NEW blind,
           \E i, j \in NodeIds \ Ids(g.nodes) : i # j
    PROVE  WellFormed(MergeRelation(g, a, t, b, blind))
  <1> DEFINE g1 == MergeNode(g, a, blind)
             g2 == MergeNode(g1, b, blind \ {a})
             new == {p \in Ids(Merged(g, a, blind)) \X Ids(Merged(g1, b, blind \ {a})) :
                        ~ \E r \in g.rels : r.from = p[1] /\ r.type = t /\ r.to = p[2]}
             rels == {[from |-> p[1], type |-> t, to |-> p[2], nr |-> 1] : p \in new}
  <1>1. WellFormed(g1) /\ g1.rels = g.rels /\ Ids(Merged(g, a, blind)) \subseteq Ids(g1.nodes)
    BY MergeNodeOK
  <1>2. Ids(g1.nodes) # NodeIds
    BY MergeTakesOne
  <1> HIDE DEF g1
  <1>3. /\ WellFormed(g2) /\ g2.rels = g.rels /\ g1.nodes \subseteq g2.nodes
        /\ Ids(Merged(g1, b, blind \ {a})) \subseteq Ids(g2.nodes)
    BY <1>1, <1>2, MergeNodeOK
  <1> HIDE DEF g2
  <1>4. /\ Ids(Merged(g, a, blind)) \subseteq Ids(g2.nodes)
        /\ Ids(g2.nodes) \subseteq NodeIds
    <2>1. g2.nodes \subseteq Node
      BY <1>3, FieldsOfGraph DEF WellFormed
    <2> QED BY <1>1, <1>3, <2>1 DEF Ids, Node
  <1>5. \A p \in new : p[1] \in Ids(g2.nodes) /\ p[2] \in Ids(g2.nodes)
    BY <1>3, <1>4
  <1> HIDE DEF new
  <1>6. \A r \in rels : /\ r \in Relation /\ Plain(r.type)
                        /\ r.from \in Ids(g2.nodes) /\ r.to \in Ids(g2.nodes)
    BY <1>4, <1>5, StoreAssumption DEF Relation, Plain
  <1> HIDE DEF rels
  <1>7. MergeRelation(g, a, t, b, blind) = [g2 EXCEPT !.rels = g2.rels \cup rels]
    BY DEF MergeRelation, g2, g1, rels, new
  <1>8. MergeRelation(g, a, t, b, blind) = [nodes |-> g2.nodes, rels |-> g2.rels \cup rels]
    BY <1>3, <1>7, FieldsOfGraph DEF WellFormed
  <1> DEFINE h == [nodes |-> g2.nodes, rels |-> g2.rels \cup rels]
  <1>9. h.nodes = g2.nodes /\ h.rels = g2.rels \cup rels
    OBVIOUS
  <1>10. h \in Graph
    BY <1>3, <1>6, FieldsOfGraph DEF WellFormed, Graph
  <1> HIDE DEF h
  <1>11. WellFormed(h)
    BY <1>3, <1>6, <1>9, <1>10 DEF WellFormed
  <1> QED BY <1>8, <1>11 DEF h

LEMMA DetachDeleteOK ==
    ASSUME NEW g, WellFormed(g), NEW ids
    PROVE  WellFormed(DetachDelete(g, ids))
  <1> DEFINE h == DetachDelete(g, ids)
  <1>1. h.nodes = {n \in g.nodes : n.id \notin ids}
    BY DEF DetachDelete
  <1>2. h.rels = {r \in g.rels : r.from \notin ids /\ r.to \notin ids}
    BY DEF DetachDelete
  <1>3. h \in Graph
    BY FieldsOfGraph DEF WellFormed, DetachDelete, Graph
  <1> HIDE DEF h
  <1> QED BY <1>1, <1>2, <1>3 DEF WellFormed, h, Ids

LEMMA DropRelationsOK ==
    ASSUME NEW g, WellFormed(g), NEW rs
    PROVE  WellFormed(DropRelations(g, rs))
  <1> DEFINE h == DropRelations(g, rs)
  <1>1. h = [nodes |-> g.nodes, rels |-> g.rels \ rs]
    BY FieldsOfGraph DEF WellFormed, DropRelations
  <1>2. h.nodes = g.nodes /\ h.rels = g.rels \ rs /\ h \in Graph
    BY <1>1, FieldsOfGraph DEF WellFormed, Graph
  <1> HIDE DEF h
  <1> QED BY <1>2 DEF WellFormed, h

\* SET n.name changes neither the ids nor the labels.
LEMMA RenameRenames ==
    ASSUME NEW g, WellFormed(g), NEW ids, NEW name
    PROVE  /\ Rename(g, ids, name).rels = g.rels
           /\ Rename(g, ids, name).nodes =
                 {IF n.id \in ids THEN [id |-> n.id, label |-> n.label, name |-> name] ELSE n :
                    n \in g.nodes}
           /\ name \in Names \cup {NoName} => Rename(g, ids, name) \in Graph
  <1>1. \A n \in Node : /\ [n EXCEPT !.name = name] = [id |-> n.id, label |-> n.label, name |-> name]
                        /\ n.id \in NodeIds /\ n.label \in Labels
    BY DEF Node
  <1>2. g \in Graph /\ g.nodes \subseteq Node /\ g.rels \subseteq Relation
    BY FieldsOfGraph DEF WellFormed
  <1> DEFINE N == {IF n.id \in ids THEN [n EXCEPT !.name = name] ELSE n : n \in g.nodes}
             M == {IF n.id \in ids THEN [id |-> n.id, label |-> n.label, name |-> name] ELSE n :
                     n \in g.nodes}
  <1>3. N = M
    BY <1>1, <1>2
  <1>4. Rename(g, ids, name) = [nodes |-> N, rels |-> g.rels]
    BY <1>2, FieldsOfGraph DEF Rename
  <1>5. name \in Names \cup {NoName} => M \subseteq Node
    BY <1>2 DEF Node
  <1> HIDE DEF N, M
  <1>6. name \in Names \cup {NoName} => [nodes |-> N, rels |-> g.rels] \in Graph
    BY <1>2, <1>3, <1>5 DEF Graph
  <1>7. [nodes |-> N, rels |-> g.rels].nodes = N /\ [nodes |-> N, rels |-> g.rels].rels = g.rels
    OBVIOUS
  <1> QED BY <1>3, <1>4, <1>6, <1>7 DEF M

LEMMA RenameOK ==
    ASSUME NEW g, WellFormed(g), NEW ids, NEW name \in Names \cup {NoName}
    PROVE  WellFormed(Rename(g, ids, name))
  <1> DEFINE h == Rename(g, ids, name)
             new(n) == IF n.id \in ids THEN [id |-> n.id, label |-> n.label, name |-> name] ELSE n
  <1>1. h.rels = g.rels /\ h \in Graph /\ h.nodes = {new(n) : n \in g.nodes}
    BY RenameRenames
  <1>2. \A n \in g.nodes : new(n).id = n.id
    OBVIOUS
  <1> HIDE DEF h, new
  <1>3. Ids(h.nodes) = Ids(g.nodes)
    BY <1>1, <1>2 DEF Ids
  <1>4. \A m, n \in h.nodes : m.id = n.id => m = n
    BY <1>1, <1>2 DEF WellFormed
  <1> QED BY <1>1, <1>3, <1>4 DEF WellFormed, h

LEMMA AddRelationOK ==
    ASSUME NEW g, WellFormed(g), NEW from \in Ids(g.nodes), NEW to \in Ids(g.nodes),
           NEW t, Plain(t), Numbers(g, from, t, to) # RelNumbers
    PROVE  WellFormed(AddRelation(g, from, t, to))
  <1>1. g \in Graph /\ g.nodes \subseteq Node /\ g.rels \subseteq Relation
    BY FieldsOfGraph DEF WellFormed
  <1>2. Numbers(g, from, t, to) \subseteq RelNumbers
    BY <1>1 DEF Numbers, Relation
  <1> DEFINE nr == CHOOSE i \in RelNumbers : i \notin Numbers(g, from, t, to)
             new == [from |-> from, type |-> t, to |-> to, nr |-> nr]
  <1>3. nr \in RelNumbers
    BY <1>2
  <1> HIDE DEF nr
  <1>4. /\ new \in Relation /\ Plain(new.type)
        /\ {new.from, new.to} \subseteq Ids(g.nodes)
    BY <1>1, <1>3 DEF Ids, Node, Relation, Plain
  <1> HIDE DEF new
  <1> DEFINE h == AddRelation(g, from, t, to)
  <1>5. h = [nodes |-> g.nodes, rels |-> g.rels \cup {new}]
    BY <1>1, FieldsOfGraph DEF AddRelation, new, nr
  <1>6. h.nodes = g.nodes /\ h.rels = g.rels \cup {new} /\ h \in Graph
    BY <1>1, <1>4, <1>5 DEF Graph
  <1> HIDE DEF h
  <1> QED BY <1>4, <1>6 DEF WellFormed, h

\* Whatever people type, a type made of it needs no backticks.
LEMMA SanitizePlain == ASSUME NEW raw \in Types PROVE Plain(Sanitize(raw))
  <1> DEFINE kept == {i \in DOMAIN raw :
                         \/ raw[i] = "K"
                         \/ /\ i > 1 /\ raw[i - 1] = "K"
                            /\ \E j \in DOMAIN raw : j > i /\ raw[j] = "K"}
             order == SetToSortSeq(kept, <)
             made == [n \in 1..Cardinality(kept) |->
                         IF raw[order[n]] = "K" THEN "K" ELSE "u"]
  <1>1. kept \subseteq 1..Len(raw)
    BY DEF Types
  <1> HIDE DEF kept
  <1>2. IsFiniteSet(kept)
    <2>1. Len(raw) \in Int /\ 1 \in Int
      BY DEF Types
    <2>2. IsFiniteSet(1..Len(raw))
      BY <2>1, FS_Interval
    <2> QED BY <1>1, <2>2, FS_Subset
  <1>3. Cardinality(kept) \in Nat /\ (kept # {} => Cardinality(kept) # 0)
    BY <1>2, FS_CardinalityType, FS_EmptySet
  <1>4. Sanitize(raw) = IF kept = {} THEN RelatedTo ELSE made
    BY DEF Sanitize, kept
  <1> HIDE DEF order
  <1>5. ASSUME kept # {} PROVE Plain(made)
    BY <1>3, <1>5 DEF Plain, Types
  <1>6. Plain(RelatedTo)
    BY DEF Plain, RelatedTo, Types
  <1> QED BY <1>4, <1>5, <1>6

-----------------------------------------------------------------------------
(* Plans and their statements.                                              *)

LEMMA PerPropTyped ==
    ASSUME NEW st \in Statement, NEW props \in SUBSET STRING, IsFiniteSet(props)
    PROVE  PerProp(st, props) \subseteq Seq(Statement)
  <1> SUFFICES ASSUME NEW q \in SetToSeqs(props)
               PROVE  [i \in DOMAIN q |-> [st EXCEPT !.p = q[i]]] \in Seq(Statement)
    BY DEF PerProp
  <1>1. Cardinality(props) \in Nat
    BY FS_CardinalityType
  <1>2. q \in [1..Cardinality(props) -> props]
    BY DEF SetToSeqs
  <1>3. \A p \in STRING : [st EXCEPT !.p = p] \in Statement
    BY DEF Statement
  <1> QED BY <1>1, <1>2, <1>3

LEMMA StmtTyped ==
    ASSUME NEW do \in Verbs, NEW a \in Key, NEW t \in Types, NEW b \in Key,
           NEW p \in STRING \cup {"none"}
    PROVE  Stmt(do, a, t, b, p) \in Statement
  BY DEF Stmt, Statement

\* Whatever the model asks for, each statement of it is one the store knows.
LEMMA StatementsTyped ==
    ASSUME NEW op \in Operation
    PROVE  Statements(op) \subseteq Seq(Statement)
  <1>1. /\ op.t \in Types /\ op.new \in Types
        /\ op.props \in SUBSET STRING /\ IsFiniteSet(op.props)
        /\ op.a \in Key /\ op.b \in Key /\ op.do \in STRING
    BY DEF Operation
  <1> DEFINE one(do, t) == Stmt(do, op.a, t, op.b, "none")
  <1>2. ASSUME NEW do \in Verbs, NEW t \in Types
        PROVE  one(do, t) \in Statement
    BY <1>1, <1>2, StmtTyped
  <1> HIDE DEF one
  <1>3. /\ one("merge", op.t) \in Statement /\ one("relate", op.t) \in Statement
        /\ one("delete", op.t) \in Statement /\ one("unrelate", op.t) \in Statement
        /\ one("malformed", op.t) \in Statement /\ one("relate", op.new) \in Statement
    BY <1>1, <1>2 DEF Verbs
  <1>4. ASSUME NEW do \in Verbs
        PROVE  /\ PerProp(one(do, op.t), op.props) \subseteq Seq(Statement)
               /\ PerProp(one(do, op.t), op.props \ {"name"}) \subseteq Seq(Statement)
    <2>1. IsFiniteSet(op.props \ {"name"}) /\ op.props \ {"name"} \in SUBSET STRING
      BY <1>1, FS_Subset
    <2>2. one(do, op.t) \in Statement
      BY <1>1, <1>2
    <2> QED BY <1>1, <2>1, <2>2, PerPropTyped
  <1>5. \A x, y \in Statement : <<x>> \in Seq(Statement) /\ <<x, y>> \in Seq(Statement)
    OBVIOUS
  <1>6. \/ Statements(op) = PerProp(one("set", op.t), op.props \ {"name"})
        \/ Statements(op) = PerProp(one("remove", op.t), op.props)
        \/ Statements(op) = PerProp(one("set_rel", op.t), op.props)
        \/ Statements(op) = PerProp(one("remove_rel", op.t), op.props)
        \/ Statements(op) = {<<one("unrelate", op.t), one("relate", op.new)>>}
        \/ \E do \in {"merge", "relate", "delete", "unrelate", "malformed"} :
              Statements(op) = {<<one(do, op.t)>>}
    BY Zenon DEF Statements, one
  <1>7. \A do \in {"merge", "relate", "delete", "unrelate", "malformed"} :
           {<<one(do, op.t)>>} \subseteq Seq(Statement)
    BY <1>3, <1>5
  <1>8. {<<one("unrelate", op.t), one("relate", op.new)>>} \subseteq Seq(Statement)
    BY <1>3, <1>5
  <1>9. /\ PerProp(one("set", op.t), op.props \ {"name"}) \subseteq Seq(Statement)
        /\ PerProp(one("remove", op.t), op.props) \subseteq Seq(Statement)
        /\ PerProp(one("set_rel", op.t), op.props) \subseteq Seq(Statement)
        /\ PerProp(one("remove_rel", op.t), op.props) \subseteq Seq(Statement)
    BY <1>4 DEF Verbs
  <1> QED BY <1>6, <1>7, <1>8, <1>9

LEMMA LeastOf ==
    ASSUME NEW S \in SUBSET Nat, S # {}
    PROVE  \E m \in S : \A k \in S : m <= k
  <1> DEFINE T == {1..n : n \in S}
  <1>1. T \subseteq FiniteSubsetsOf(Nat)
    <2> SUFFICES ASSUME NEW n \in S PROVE 1..n \in FiniteSubsetsOf(Nat)
      OBVIOUS
    <2>1. n \in Int /\ 1 \in Int /\ 1..n \subseteq Nat
      OBVIOUS
    <2>2. IsFiniteSet(1..n)
      BY <2>1, FS_Interval
    <2> QED BY <2>1, <2>2 DEF FiniteSubsetsOf
  <1>2. T # {}
    OBVIOUS
  <1>3. IsWellFoundedOn(StrictSubsetOrdering(Nat), FiniteSubsetsOf(Nat))
    BY FS_StrictSubsetOrderingWellFounded
  <1> HIDE DEF T
  <1>4. \E x \in T : \A y \in T : ~ (<<y, x>> \in StrictSubsetOrdering(Nat))
    BY <1>1, <1>2, <1>3, WFMin
  <1>5. PICK m \in S : \A y \in T : ~ (<<y, 1..m>> \in StrictSubsetOrdering(Nat))
    BY <1>4 DEF T
  <1>6. ASSUME NEW k \in S PROVE m <= k
    <2>1. 1..k \in T /\ 1..k \subseteq Nat /\ 1..m \subseteq Nat
      BY DEF T
    <2>2. ~ (1..k \subseteq 1..m /\ 1..k # 1..m)
      BY <1>5, <2>1 DEF StrictSubsetOrdering
    <2>3. ASSUME k < m PROVE 1..k \subseteq 1..m /\ m \in 1..m /\ m \notin 1..k
      BY <2>3
    <2> QED BY <2>2, <2>3
  <1> QED BY <1>6

\* The definition of Remaining, which calls itself, has a solution on every plan.
LEMMA RemainingIs ==
    ASSUME NEW plan \in Seq(Operation)
    PROVE  Remaining(plan) = [i \in 1..(Len(plan) + 1) |->
              IF i > Len(plan) THEN {<<>>}
              ELSE Joined(Statements(plan[i]), Remaining(plan)[i + 1])]
  <1> DEFINE N == Len(plan) + 1
             F(g, i) == IF i > Len(plan) THEN {<<>>} ELSE Joined(Statements(plan[i]), g[i + 1])
             Solves(g, n) == g = [i \in (N - n)..N |-> F(g, i)]
             Unsolved == {n \in 0..(N - 1) : ~ \E g : Solves(g, n)}
  <1>1. Len(plan) \in Nat /\ N \in Nat /\ N = Len(plan) + 1
    OBVIOUS
  <1> HIDE DEF N
  <1>all. \A n : n \in Unsolved <=> n \in 0..(N - 1) /\ ~ \E g : Solves(g, n)
    OBVIOUS
  <1> HIDE DEF Solves, Unsolved
  <1>2. Unsolved = {}
    <2> SUFFICES ASSUME Unsolved # {} PROVE FALSE
      OBVIOUS
    <2>1. PICK m \in Unsolved : \A k \in Unsolved : m <= k
      BY <1>1, <1>all, LeastOf, Unsolved \subseteq Nat
    <2>2. m \in 0..(N - 1) /\ ~ \E g : Solves(g, m)
      BY <2>1, <1>all
    <2>3. CASE m = 0
      <3> DEFINE g == [i \in (N - m)..N |-> {<<>>}]
      <3>1. \A i \in (N - m)..N : F(g, i) = {<<>>}
        BY <1>1, <2>3
      <3>2. Solves(g, m)
        BY <3>1 DEF Solves
      <3> QED BY <2>2, <3>2
    <2>4. CASE m # 0
      <3>1. m - 1 \in 0..(N - 1) /\ m - 1 \notin Unsolved
        BY <1>1, <2>1, <2>2, <2>4
      <3>2. PICK h : Solves(h, m - 1)
        BY <1>all, <3>1
      <3>3. \A i \in (N - (m - 1))..N : h[i] = F(h, i)
        BY <3>2 DEF Solves
      <3> DEFINE g == [i \in (N - m)..N |-> IF i = N - m THEN F(h, i) ELSE h[i]]
      <3>4. ASSUME NEW i \in (N - m)..N PROVE g[i] = F(g, i)
        <4>1. CASE i > Len(plan)
          <5>1. i \in (N - (m - 1))..N /\ i # N - m
            BY <1>1, <2>2, <2>4, <4>1
          <5> QED BY <3>3, <4>1, <5>1
        <4>2. CASE ~(i > Len(plan))
          <5>1. i + 1 \in (N - (m - 1))..N /\ i + 1 \in (N - m)..N /\ i + 1 # N - m
            BY <1>1, <2>2, <2>4, <4>2
          <5>2. g[i + 1] = h[i + 1]
            BY <5>1
          <5>3. g[i] = F(h, i)
            <6>1. CASE i = N - m
              BY <6>1
            <6>2. CASE i # N - m
              <7>1. i \in (N - (m - 1))..N
                BY <1>1, <2>2, <6>2
              <7> QED BY <3>3, <6>2, <7>1
            <6> QED BY <6>1, <6>2
          <5> QED BY <4>2, <5>2, <5>3
        <4> QED BY <4>1, <4>2
      <3>5. Solves(g, m)
        <4>1. \A i \in (N - m)..N : g[i] = F(g, i)
          BY <3>4
        <4>2. g = [i \in (N - m)..N |-> g[i]]
          OBVIOUS
        <4> HIDE DEF g, F
        <4> QED BY <4>1, <4>2 DEF Solves
      <3> QED BY <2>2, <3>5
    <2> QED BY <2>3, <2>4
  <1>3. \E g : Solves(g, N - 1)
    BY <1>1, <1>2, <1>all
  <1>4. N - (N - 1) = 1
    BY <1>1
  <1>5. \E g : g = [i \in 1..N |-> F(g, i)]
    BY <1>3, <1>4 DEF Solves
  <1>6. Remaining(plan) = CHOOSE g : g = [i \in 1..N |-> F(g, i)]
    BY DEF Remaining, N
  <1> QED BY <1>5, <1>6 DEF N

LEMMA JoinedTyped ==
    ASSUME NEW A, NEW S \in SUBSET Seq(A), NEW T \in SUBSET Seq(A)
    PROVE  Joined(S, T) \subseteq Seq(A)
  <1>1. ASSUME NEW x \in Joined(S, T) PROVE x \in Seq(A)
    <2>1. PICK s \in S, t \in T : x = s \o t
      BY DEF Joined
    <2>2. s \in Seq(A) /\ t \in Seq(A)
      OBVIOUS
    <2> QED BY <2>1, <2>2
  <1> QED BY <1>1

\* What Remaining is at the end of a plan, and before it.
LEMMA RemainingAt ==
    ASSUME NEW plan \in Seq(Operation)
    PROVE  /\ Remaining(plan)[Len(plan) + 1] = {<<>>}
           /\ \A i \in 1..Len(plan) :
                 Remaining(plan)[i] = Joined(Statements(plan[i]), Remaining(plan)[i + 1])
  <1> DEFINE R == Remaining(plan)
             F(i) == IF i > Len(plan) THEN {<<>>} ELSE Joined(Statements(plan[i]), R[i + 1])
  <1>1. Len(plan) \in Nat
    OBVIOUS
  <1>2. R = [i \in 1..(Len(plan) + 1) |-> F(i)]
    BY RemainingIs
  <1> HIDE DEF R
  <1>3. \A i \in 1..(Len(plan) + 1) : R[i] = F(i)
    BY <1>2
  <1>4. F(Len(plan) + 1) = {<<>>} /\ Len(plan) + 1 \in 1..(Len(plan) + 1)
    BY <1>1
  <1>5. ASSUME NEW i \in 1..Len(plan)
        PROVE  F(i) = Joined(Statements(plan[i]), R[i + 1]) /\ i \in 1..(Len(plan) + 1)
    BY <1>1
  <1> HIDE DEF F
  <1> QED BY <1>3, <1>4, <1>5 DEF R

LEMMA RemainingTyped ==
    ASSUME NEW plan \in Seq(Operation), NEW i \in 1..(Len(plan) + 1)
    PROVE  Remaining(plan)[i] \subseteq Seq(Statement)
  <1> DEFINE R == Remaining(plan)
             Untyped == {n \in Nat : /\ n <= Len(plan)
                                     /\ ~(R[Len(plan) + 1 - n] \subseteq Seq(Statement))}
  <1>1. Len(plan) \in Nat
    OBVIOUS
  <1>2. R[Len(plan) + 1] = {<<>>} /\ \A k \in 1..Len(plan) : R[k] = Joined(Statements(plan[k]), R[k + 1])
    BY RemainingAt
  <1> HIDE DEF R
  <1>all. \A n : n \in Untyped <=> /\ n \in Nat /\ n <= Len(plan)
                                  /\ ~(R[Len(plan) + 1 - n] \subseteq Seq(Statement))
    OBVIOUS
  <1> HIDE DEF Untyped
  <1>3. Untyped = {}
    <2> SUFFICES ASSUME Untyped # {} PROVE FALSE
      OBVIOUS
    <2>1. PICK m \in Untyped : \A k \in Untyped : m <= k
      <3>1. Untyped \subseteq Nat
        BY <1>all
      <3> QED BY <3>1, LeastOf
    <2>m. m \in Nat /\ m <= Len(plan) /\ ~(R[Len(plan) + 1 - m] \subseteq Seq(Statement))
      BY <1>all, <2>1
    <2>2. m # 0
      <3>1. {<<>>} \subseteq Seq(Statement)
        OBVIOUS
      <3>2. Len(plan) + 1 - 0 = Len(plan) + 1
        BY <1>1
      <3> QED BY <1>2, <2>m, <3>1, <3>2
    <2>3. m - 1 \in Nat /\ m - 1 <= Len(plan) /\ ~(m <= m - 1)
      BY <1>1, <2>m, <2>2
    <2>3a. R[Len(plan) + 1 - (m - 1)] \subseteq Seq(Statement)
      BY <1>all, <2>1, <2>3
    <2> DEFINE k == Len(plan) + 1 - m
    <2>4. k \in 1..Len(plan) /\ k + 1 = Len(plan) + 1 - (m - 1)
      BY <1>1, <2>m, <2>2
    <2>5. R[k + 1] \subseteq Seq(Statement)
      BY <2>3a, <2>4
    <2>6. Statements(plan[k]) \subseteq Seq(Statement)
      BY <2>4, StatementsTyped
    <2>7. R[k] \subseteq Seq(Statement)
      BY <1>2, <2>4, <2>5, <2>6, JoinedTyped
    <2> QED BY <2>m, <2>7
  <1>4. Len(plan) + 1 - i \in Nat /\ Len(plan) + 1 - i <= Len(plan)
        /\ Len(plan) + 1 - (Len(plan) + 1 - i) = i
    BY <1>1
  <1> QED BY <1>all, <1>3, <1>4 DEF R

LEMMA ExpansionsTyped ==
    ASSUME NEW plan \in Seq(Operation)
    PROVE  Expansions(plan) \subseteq Seq(Statement)
  <1>1. 1 \in 1..(Len(plan) + 1)
    OBVIOUS
  <1> QED BY <1>1, RemainingTyped DEF Expansions

-----------------------------------------------------------------------------
(* Statements and summaries of a whole graph.                               *)

LEMMA RoomIsRoom ==
    ASSUME NEW g, NEW st, Room(g, st), MergedKeys(st) # {}
    PROVE  (\E i, j \in NodeIds \ Ids(g.nodes) : i # j) /\ Ids(g.nodes) # NodeIds
  BY DEF Room

\* No statement that the store accepts breaks the graph.
LEMMA ExecutedOK ==
    ASSUME NEW g, WellFormed(g), NEW st \in Statement, ~Rejected(st), Room(g, st), NEW blind
    PROVE  WellFormed(Executed(g, st, blind))
  <1>1. st.a \in Key /\ st.b \in Key
    BY DEF Statement
  <1>2. CASE st.do = "merge"
    <2>1. MergedKeys(st) # {}
      BY <1>2 DEF MergedKeys
    <2>2. WellFormed(MergeNode(g, st.a, blind))
      BY <1>1, <2>1, RoomIsRoom, MergeNodeOK
    <2> QED BY <1>2, <2>2 DEF Executed
  <1>3. CASE st.do = "relate"
    <2>1. MergedKeys(st) # {} /\ Plain(st.t)
      BY <1>3 DEF MergedKeys, Rejected
    <2>2. WellFormed(MergeRelation(g, st.a, st.t, st.b, blind))
      BY <1>1, <2>1, RoomIsRoom, MergeRelationOK
    <2> QED BY <1>3, <2>2 DEF Executed
  <1>4. CASE st.do = "delete"
    BY <1>4, DetachDeleteOK DEF Executed
  <1>5. CASE st.do = "unrelate"
    BY <1>5, DropRelationsOK DEF Executed
  <1>6. CASE st.do = "remove"
    BY <1>6, RenameOK DEF Executed
  <1>7. CASE st.do \notin {"merge", "relate", "delete", "unrelate", "remove"}
    BY <1>7 DEF Executed
  <1> QED BY <1>2, <1>3, <1>4, <1>5, <1>6, <1>7

\* The node an id stands for.
NodeOf(g, i) == CHOOSE n \in g.nodes : n.id = i

LEMMA NodeOfId ==
    ASSUME NEW g, WellFormed(g), NEW n \in g.nodes
    PROVE  NodeOf(g, n.id) = n
  BY DEF WellFormed, NodeOf

LEMMA ShownTyped == ASSUME NEW n \in Node PROVE Shown(n) \in Thing
  BY DEF Node, Shown, Thing

LEMMA SummaryTyped ==
    ASSUME NEW g, WellFormed(g)
    PROVE  /\ Summary(g) \in Summaries
           /\ Summary(g).entities = {Shown(n) : n \in g.nodes}
           /\ Summary(g).facts = {<<Shown(NodeOf(g, r.from)), r.type, Shown(NodeOf(g, r.to))>> :
                                     r \in g.rels}
  <1> DEFINE E == {Shown(n) : n \in g.nodes}
             at(i) == Shown(NodeOf(g, i))
             F == {<<at(r.from), r.type, at(r.to)>> : r \in g.rels}
  <1>1. g.nodes \subseteq Node /\ g.rels \subseteq Relation
    BY FieldsOfGraph DEF WellFormed
  <1>2. E \subseteq Thing
    BY <1>1, ShownTyped
  <1>3. \A i \in Ids(g.nodes) : at(i) \in Thing
    <2> SUFFICES ASSUME NEW n \in g.nodes PROVE at(n.id) \in Thing
      BY DEF Ids
    <2> QED BY <1>1, NodeOfId, ShownTyped
  <1>4. Summary(g) = [entities |-> E, facts |-> F]
    BY DEF Summary, NodeOf
  <1>5. \A r \in g.rels : at(r.from) \in Thing /\ at(r.to) \in Thing /\ r.type \in Types
    BY <1>1, <1>3 DEF WellFormed, Relation
  <1> HIDE DEF at
  <1>6. F \subseteq Thing \X Types \X Thing
    BY <1>5
  <1> HIDE DEF E, F
  <1>7. [entities |-> E, facts |-> F] \in Summaries
    BY <1>2, <1>6 DEF Summaries
  <1>8. [entities |-> E, facts |-> F].entities = E /\ [entities |-> E, facts |-> F].facts = F
    OBVIOUS
  <1> QED BY <1>4, <1>7, <1>8 DEF E, F, at

-----------------------------------------------------------------------------
(* What becomes of an update.                                               *)

\* The record of an update after the assignments that change it.
Moved(v, pc, todo, absent) == [v EXCEPT !.pc = pc, !.todo = todo, !.absent = absent]
WithPc(v, pc) == [v EXCEPT !.pc = pc]

LEMMA MovedIs ==
    ASSUME NEW v \in Update, NEW pc \in Active \cup {"idle", "done", "gaveup", "lost"},
           NEW todo \in Seq(Statement), NEW absent \in SUBSET Key
    PROVE  /\ Moved(v, pc, todo, absent) \in Update
           /\ Moved(v, pc, todo, absent).pc = pc
           /\ Moved(v, pc, todo, absent).todo = todo
           /\ Moved(v, pc, todo, absent).absent = absent
           /\ Moved(v, pc, todo, absent).attempt = v.attempt
           /\ Moved(v, pc, todo, absent).base = v.base
           /\ Moved(v, pc, todo, absent).plan = v.plan
  BY DEF Update, Moved

LEMMA WithPcIs ==
    ASSUME NEW v \in Update, NEW pc \in Active \cup {"idle", "done", "gaveup", "lost"}
    PROVE  /\ WithPc(v, pc) \in Update
           /\ WithPc(v, pc).pc = pc
           /\ WithPc(v, pc).todo = v.todo
           /\ WithPc(v, pc).absent = v.absent
           /\ WithPc(v, pc).attempt = v.attempt
           /\ WithPc(v, pc).base = v.base
           /\ WithPc(v, pc).plan = v.plan
  BY DEF Update, WithPc

LEMMA RetriesIsNat == MaxRetries \in Nat /\ MaxRetries > 0
  BY MemoryAssumption

LEMMA IdleSound ==
    /\ Sound(Idle)
    /\ \A how \in {"done", "gaveup", "lost"} : Sound(Ended(how)) /\ Ended(how).pc = how
  <1>1. Idle \in Update
    BY RetriesIsNat DEF Idle, Update
  <1>2. Sound(Idle)
    BY <1>1 DEF Sound, Idle
  <1>3. ASSUME NEW how \in {"done", "gaveup", "lost"} PROVE Sound(Ended(how)) /\ Ended(how).pc = how
    <2>1. Ended(how) = WithPc(Idle, how)
      BY DEF Ended, WithPc
    <2>2. /\ Ended(how) \in Update /\ Ended(how).pc = how
          /\ Ended(how).todo = Idle.todo
      BY <1>1, <2>1, WithPcIs
    <2>3. Idle.todo = <<>>
      BY DEF Idle
    <2> QED BY <2>2, <2>3 DEF Sound
  <1> QED BY <1>2, <1>3

LEMMA ForgetSound ==
    ASSUME NEW v, Sound(v)
    PROVE  /\ Sound(Forget(v))
           /\ Forget(v).pc = v.pc /\ Forget(v).todo = v.todo /\ Forget(v).absent = v.absent
           /\ Forget(v).base = {} /\ Forget(v).attempt = v.attempt
  <1>1. v \in Update
    BY DEF Sound
  <1>2. <<>> \in Seq(Operation)
    OBVIOUS
  <1>3. /\ Forget(v).pc = v.pc /\ Forget(v).todo = v.todo /\ Forget(v).absent = v.absent
        /\ Forget(v).base = {} /\ Forget(v).attempt = v.attempt
    BY <1>1 DEF Forget, Update
  <1>4. Forget(v) \in Update
    BY <1>1, <1>2 DEF Forget, Update
  <1> QED BY <1>3, <1>4 DEF Sound

LEMMA FailedSound ==
    ASSUME NEW v \in Update
    PROVE  /\ Sound(Failed(v)) /\ Failed(v).pc \in {"gaveup", "waiting"}
  <1>1. CASE v.attempt >= MaxRetries
    BY <1>1, IdleSound DEF Failed
  <1>2. CASE ~(v.attempt >= MaxRetries)
    <2> DEFINE w == Moved(v, "waiting", <<>>, {})
    <2>1. /\ w \in Update /\ w.pc = "waiting" /\ w.todo = <<>> /\ w.attempt = v.attempt
      <3> DEFINE none == <<>>
      <3>1. none \in Seq(Statement) /\ {} \in SUBSET Key /\ "waiting" \in Active
        BY DEF Active
      <3> HIDE DEF none
      <3>2. LET m == Moved(v, "waiting", none, {})
            IN  m \in Update /\ m.pc = "waiting" /\ m.todo = none /\ m.attempt = v.attempt
        BY <3>1, MovedIs
      <3> QED BY <3>2 DEF none
    <2>2. v.attempt < MaxRetries
      BY <1>2, RetriesIsNat DEF Update
    <2> HIDE DEF w
    <2>3. Sound(w)
      BY <2>1, <2>2 DEF Sound
    <2> QED BY <1>2, <2>1, <2>3 DEF Failed, w, Moved
  <1> QED BY <1>1, <1>2

LEMMA OnwardSound ==
    ASSUME NEW v \in Update, NEW todo \in Seq(Statement), NEW g
    PROVE  /\ Sound(Onward(v, todo, g))
           /\ Onward(v, todo, g).pc \in {"done", "writing"}
           /\ todo = <<>> => Onward(v, todo, g) = Ended("done")
           /\ Onward(v, todo, g).pc = "writing" =>
                 /\ Onward(v, todo, g).todo = todo
                 /\ Onward(v, todo, g).absent = Absent(g, Head(todo))
                 /\ Onward(v, todo, g).base = v.base /\ Onward(v, todo, g).plan = v.plan
  <1>1. CASE todo = <<>>
    BY <1>1, IdleSound DEF Onward
  <1>2. CASE todo # <<>>
    <2> DEFINE st == Head(todo)
               w == Moved(v, "writing", todo, Absent(g, st))
    <2>1. st \in Statement
      BY <1>2
    <2>2. Absent(g, st) \in SUBSET Key /\ Absent(g, st) \subseteq MergedKeys(st)
      <3>1. st.a \in Key /\ st.b \in Key
        BY <2>1 DEF Statement
      <3> QED BY <3>1 DEF Absent, MergedKeys
    <2>3. Onward(v, todo, g) = w
      BY <1>2 DEF Onward, Moved
    <2> HIDE DEF st
    <2>4. /\ w \in Update /\ w.pc = "writing" /\ w.todo = todo /\ w.absent = Absent(g, st)
          /\ w.base = v.base /\ w.plan = v.plan
      BY <2>2, MovedIs DEF Active
    <2> HIDE DEF w
    <2>5. Sound(w)
      BY <1>2, <2>2, <2>4 DEF Sound, st
    <2> QED BY <1>2, <2>3, <2>4, <2>5 DEF st
  <1> QED BY <1>1, <1>2

\* All updates are sound records.
SoundUpdates(new) == new \in [Updates -> Update] /\ \A v \in Updates : Sound(new[v])

Changed(old, u, w) == [old EXCEPT ![u] = w]

LEMMA ChangeOne ==
    ASSUME NEW old, SoundUpdates(old), NEW u \in Updates, NEW w, Sound(w)
    PROVE  /\ SoundUpdates(Changed(old, u, w))
           /\ Changed(old, u, w)[u] = w
           /\ \A v \in Updates : v # u => Changed(old, u, w)[v] = old[v]
  <1>1. w \in Update
    BY DEF Sound
  <1> DEFINE new == Changed(old, u, w)
  <1>2. /\ new \in [Updates -> Update] /\ new[u] = w
        /\ \A v \in Updates : v # u => new[v] = old[v]
    BY <1>1 DEF SoundUpdates, Changed
  <1> HIDE DEF new
  <1>3. SoundUpdates(new)
    BY <1>2 DEF SoundUpdates
  <1> QED BY <1>2, <1>3 DEF new

\* A write forgets what others relied on, and nothing that matters to the safety.
Same(v, w) == v.pc = w.pc /\ v.todo = w.todo /\ v.absent = w.absent

LEMMA WriteKeeps ==
    ASSUME NEW g, NEW new, SoundUpdates(new), NEW others, Write(g, new, others)
    PROVE  /\ SoundUpdates(update')
           /\ \A v \in Updates : Same(update'[v], new[v])
           /\ graph' = g
           /\ nameDoubt' = (nameDoubt \/ RootNames(g) # RootNames(graph))
  <1> DEFINE f(v) == IF v \in others /\ g # graph THEN Forget(new[v]) ELSE new[v]
  <1>1. update' = [v \in Updates |-> f(v)]
    BY DEF Write
  <1>2. ASSUME NEW v \in Updates PROVE Sound(f(v)) /\ Same(f(v), new[v])
    <2>1. Sound(new[v])
      BY DEF SoundUpdates
    <2> QED BY <2>1, ForgetSound DEF Same
  <1>3. \A v \in Updates : f(v) \in Update
    BY <1>2 DEF Sound
  <1> HIDE DEF f
  <1>4. update' \in [Updates -> Update] /\ \A v \in Updates : update'[v] = f(v)
    BY <1>1, <1>3
  <1> QED BY <1>2, <1>4 DEF Write, SoundUpdates

\* The head and the tail of what is left to do.
LEMMA TodoTyped ==
    ASSUME NEW v, Sound(v), v.pc \in {"writing", "cut"}
    PROVE  /\ v \in Update /\ v.todo \in Seq(Statement) /\ v.todo # <<>>
           /\ Head(v.todo) \in Statement /\ Tail(v.todo) \in Seq(Statement)
  <1>1. v \in Update /\ v.todo # <<>>
    BY DEF Sound
  <1>2. v.todo \in Seq(Statement)
    BY <1>1 DEF Update
  <1> QED BY <1>1, <1>2

-----------------------------------------------------------------------------
(* Types, one lemma per action.                                             *)

LEMMA InitTyped == MemoryInit => MemoryTyped
  <1> SUFFICES ASSUME MemoryInit PROVE MemoryTyped
    OBVIOUS
  <1>1. WellFormed(graph)
    BY DEF MemoryInit, Empty, WellFormed, Graph
  <1>2. Wo \in Names
    BY StoreAssumption
  <1>3. update = [u \in Updates |-> Idle] /\ Idle \in Update
    BY IdleSound DEF MemoryInit, Sound
  <1>4. update \in [Updates -> Update] /\ \A u \in Updates : update[u] = Idle
    BY <1>3
  <1>5. actor = "root" /\ aiName = Wo /\ lastName = Wo
    BY DEF MemoryInit
  <1> QED BY <1>1, <1>2, <1>4, <1>5, IdleSound DEF MemoryTyped, Booting

LEMMA InitRootTyped == ASSUME MemoryTyped, InitRoot PROVE MemoryTyped'
  <1> DEFINE k == [label |-> Root, name |-> Wo]
  <1>1. k \in Key
    BY StoreAssumption DEF Key
  <1> HIDE DEF k
  <1>2. ASSUME CreateRoot PROVE WellFormed(graph')
    BY <1>1, <1>2, AddNodeOK DEF CreateRoot, MemoryTyped, k
  <1>3. WellFormed(graph')
    BY <1>2 DEF InitRoot, MemoryTyped
  <1>4. actor' = "read" /\ UNCHANGED <<aiName, update, lastName>>
    BY DEF InitRoot
  <1> QED BY <1>3, <1>4 DEF MemoryTyped, Booting

LEMMA GetRootNameTyped == ASSUME MemoryTyped, GetRootName PROVE MemoryTyped'
  <1>1. UNCHANGED <<graph, update>>
    BY DEF GetRootName
  <1>2. PICK name \in RootNames(graph) \cup {Wo} : UseName(name)
    BY DEF GetRootName
  <1>3. name \in Names \cup {NoName}
    <2>1. graph.nodes \subseteq Node
      BY FieldsOfGraph DEF MemoryTyped, WellFormed
    <2> QED BY <2>1, StoreAssumption DEF RootNames, Roots, Node
  <1>4. \/ actor' = "extract" /\ UNCHANGED <<aiName, lastName>>
        \/ actor' = "up" /\ aiName' = name /\ lastName' = name /\ name # NoName
    BY <1>2 DEF UseName, Serve
  <1> QED BY <1>1, <1>3, <1>4 DEF MemoryTyped, Booting

LEMMA ExtractNameTyped == ASSUME MemoryTyped, ExtractName PROVE MemoryTyped'
  <1>1. UNCHANGED <<graph, update>>
    BY DEF ExtractName
  <1>2. /\ actor' \in {"rename", "up"} /\ aiName' \in Names
        /\ lastName' \in {lastName, Wo}
    BY MemoryAssumption, StoreAssumption DEF ExtractName, Serve
  <1> QED BY <1>1, <1>2, StoreAssumption DEF MemoryTyped, Booting

LEMMA StoreNameTyped == ASSUME MemoryTyped, StoreName PROVE MemoryTyped'
  <1>1. WellFormed(graph) /\ aiName \in Names
    BY DEF MemoryTyped
  <1>2. WellFormed(Rename(graph, Ids(Roots(graph)), aiName))
    BY <1>1, RenameOK
  <1>3. WellFormed(graph')
    BY <1>1, <1>2 DEF StoreName
  <1>4. actor' = "up" /\ aiName' = aiName /\ lastName' = aiName /\ UNCHANGED update
    BY DEF StoreName, Serve
  <1> QED BY <1>1, <1>3, <1>4 DEF MemoryTyped

Begun(v, base) == [v EXCEPT !.pc = "asking", !.attempt = 1, !.base = base]

LEMMA BegunIs ==
    ASSUME NEW v \in Update, NEW base \in SUBSET Summaries
    PROVE  /\ Begun(v, base) \in Update
           /\ Begun(v, base).pc = "asking" /\ Begun(v, base).base = base
           /\ Begun(v, base).todo = v.todo /\ Begun(v, base).plan = v.plan
  <1>1. 1 \in 0..MaxRetries
    BY RetriesIsNat
  <1> QED BY <1>1 DEF Update, Begun, Active

LEMMA StartUpdateTyped ==
    ASSUME MemoryTyped, NEW u \in Updates, StartUpdate(u)
    PROVE  MemoryTyped' /\ update'[u].pc = "asking" /\ \A v \in Updates : v # u => update'[v] = update[v]
  <1> DEFINE w == Begun(update[u], {Summary(graph)})
  <1>1. WellFormed(graph) /\ SoundUpdates(update) /\ Sound(update[u])
    BY DEF MemoryTyped, SoundUpdates
  <1>2. {Summary(graph)} \in SUBSET Summaries
    BY <1>1, SummaryTyped
  <1>3. update[u].pc = "idle" /\ update[u] \in Update
    BY <1>1 DEF Sound, StartUpdate
  <1>4. /\ w \in Update /\ w.pc = "asking" /\ w.todo = update[u].todo
    BY <1>2, <1>3, BegunIs
  <1>5. update' = Changed(update, u, w)
    BY DEF StartUpdate, Begun, Changed
  <1> HIDE DEF w
  <1>6. Sound(w)
    BY <1>1, <1>3, <1>4 DEF Sound
  <1>7. SoundUpdates(update') /\ update'[u] = w /\ \A v \in Updates : v # u => update'[v] = update[v]
    BY <1>1, <1>5, <1>6, ChangeOne
  <1> QED BY <1>4, <1>7 DEF MemoryTyped, StartUpdate, SoundUpdates

\* Of the updates, only u has changed in what matters to the others.
OnlyStep(u) == \A v \in Updates : v # u => Same(update'[v], update[v])

\* The update that an answer makes of v, if it keeps what the graph said.
Answered(v, plan) ==
    IF v.base # {} /\ v.plan \in {<<>>, plan} THEN [v EXCEPT !.plan = plan] ELSE Forget(v)

LEMMA AnsweredIs ==
    ASSUME NEW v, Sound(v), NEW plan \in Seq(Operation)
    PROVE  Answered(v, plan) \in Update
  <1>1. v \in Update
    BY DEF Sound
  <1>2. [v EXCEPT !.plan = plan] \in Update
    BY <1>1 DEF Update
  <1>3. Forget(v) \in Update
    BY ForgetSound DEF Sound
  <1> QED BY <1>2, <1>3 DEF Answered

\* An answer sets the statements of the update, or the attempt has failed.
LEMMA AnswerIs ==
    ASSUME MemoryTyped, NEW u \in Updates, Answer(u)
    PROVE  \/ \E plan \in Plans : \E todo \in Expansions(plan) :
                 LET next == Onward(Answered(update[u], plan), todo, graph)
                 IN  /\ update' = Changed(update, u, next)
                     /\ twinDoubt' = (twinDoubt \/ Overlaps(u, next))
           \/ update' = Changed(update, u, Failed(update[u])) /\ UNCHANGED twinDoubt
  BY DEF Answer, Answered, Changed

LEMMA AnswerTyped ==
    ASSUME MemoryTyped, NEW u \in Updates, Answer(u)
    PROVE  MemoryTyped' /\ OnlyStep(u)
  <1>1. SoundUpdates(update) /\ Sound(update[u]) /\ update[u] \in Update
    BY DEF MemoryTyped, SoundUpdates, Sound
  <1>2. PICK w : update' = Changed(update, u, w) /\ Sound(w)
    <2>1. ASSUME NEW plan \in Plans, NEW todo \in Expansions(plan)
          PROVE  Sound(Onward(Answered(update[u], plan), todo, graph))
      <3>1. plan \in Seq(Operation)
        BY MemoryAssumption
      <3>2. todo \in Seq(Statement) /\ Answered(update[u], plan) \in Update
        BY <1>1, <3>1, ExpansionsTyped, AnsweredIs
      <3> QED BY <3>2, OnwardSound
    <2>2. Sound(Failed(update[u]))
      BY <1>1, FailedSound
    <2> QED BY <2>1, <2>2, AnswerIs
  <1>3. SoundUpdates(update') /\ \A v \in Updates : v # u => update'[v] = update[v]
    BY <1>1, <1>2, ChangeOne
  <1> QED BY <1>3 DEF MemoryTyped, Answer, SoundUpdates, OnlyStep, Same

\* A statement that is written for update u, whose record becomes w.
LEMMA WriteOne ==
    ASSUME MemoryTyped, NEW u \in Updates, NEW w, Sound(w), NEW g, NEW others,
           Write(g, Changed(update, u, w), others)
    PROVE  /\ SoundUpdates(update') /\ OnlyStep(u) /\ Same(update'[u], w)
           /\ graph' = g /\ nameDoubt' = (nameDoubt \/ RootNames(g) # RootNames(graph))
  <1> DEFINE new == Changed(update, u, w)
  <1>1. /\ SoundUpdates(new) /\ new[u] = w
        /\ \A v \in Updates : v # u => new[v] = update[v]
    BY ChangeOne DEF MemoryTyped, SoundUpdates
  <1> HIDE DEF new
  <1>2. /\ SoundUpdates(update') /\ \A v \in Updates : Same(update'[v], new[v])
        /\ graph' = g /\ nameDoubt' = (nameDoubt \/ RootNames(g) # RootNames(graph))
    BY <1>1, WriteKeeps DEF new
  <1> QED BY <1>1, <1>2 DEF OnlyStep

LEMMA ExecuteIs ==
    ASSUME NEW u \in Updates, Execute(u)
    PROVE  LET st == Head(update[u].todo)
           IN  /\ update[u].pc = "writing" /\ ~Rejected(st) /\ Room(graph, st)
               /\ UNCHANGED <<actor, aiName, count, lastName>>
               /\ \E blind \in SUBSET {k \in update[u].absent : Matching(graph, k) # {}} :
                    LET g == Executed(graph, st, blind)
                        next == Onward(update[u], Tail(update[u].todo), g)
                    IN  /\ Write(g, Changed(update, u, next), Updates \ {u})
                        /\ twinDoubt' = (twinDoubt \/ Overlaps(u, next))
  BY DEF Execute, Changed

LEMMA ExecuteTyped ==
    ASSUME MemoryTyped, NEW u \in Updates, Execute(u)
    PROVE  /\ MemoryTyped' /\ OnlyStep(u)
           /\ nameDoubt' = (nameDoubt \/ RootNames(graph') # RootNames(graph))
  <1> DEFINE st == Head(update[u].todo)
  <1>1. WellFormed(graph) /\ Sound(update[u])
    BY DEF MemoryTyped
  <1>2. /\ update[u].pc = "writing" /\ ~Rejected(st) /\ Room(graph, st)
        /\ UNCHANGED <<actor, aiName, count, lastName>>
    BY ExecuteIs
  <1>3. PICK blind : LET g == Executed(graph, st, blind)
                         next == Onward(update[u], Tail(update[u].todo), g)
                     IN  Write(g, Changed(update, u, next), Updates \ {u})
    BY ExecuteIs
  <1>4. st \in Statement /\ Tail(update[u].todo) \in Seq(Statement) /\ update[u] \in Update
    BY <1>1, <1>2, TodoTyped
  <1> HIDE DEF st
  <1>5. WellFormed(Executed(graph, st, blind))
    BY <1>1, <1>2, <1>4, ExecutedOK
  <1>6. Sound(Onward(update[u], Tail(update[u].todo), Executed(graph, st, blind)))
    BY <1>4, OnwardSound
  <1>7. /\ SoundUpdates(update') /\ OnlyStep(u) /\ graph' = Executed(graph, st, blind)
        /\ nameDoubt' = (nameDoubt \/ RootNames(graph') # RootNames(graph))
    BY <1>3, <1>6, WriteOne
  <1> QED BY <1>2, <1>5, <1>7 DEF MemoryTyped, SoundUpdates

\* A failed or vanished statement leaves the graph as it is, or as it makes it.
FailsWith(u, g, others) ==
    /\ Write(g, Changed(update, u, Failed(update[u])), others)
    /\ UNCHANGED <<actor, aiName, lastName, twinDoubt>>
    /\ g = graph \/ others = Updates \ {u}
    /\ \/ g = graph
       \/ LET st == Head(update[u].todo)
          IN  ~Rejected(st) /\ Room(graph, st) /\ g = Executed(graph, st, {})

LEMMA FailStatementIs ==
    ASSUME NEW u \in Updates, FailStatement(u)
    PROVE  update[u].pc = "writing" /\ \E g, others : FailsWith(u, g, others)
  BY DEF FailStatement, FailsWith, Changed

LEMMA LandIs ==
    ASSUME NEW u \in Updates, Land(u)
    PROVE  update[u].pc = "cut" /\ \E g, others : FailsWith(u, g, others)
  BY DEF Land, FailsWith, Changed

LEMMA FailsTyped ==
    ASSUME MemoryTyped, NEW u \in Updates, update[u].pc \in {"writing", "cut"},
           NEW g, NEW others, FailsWith(u, g, others)
    PROVE  /\ MemoryTyped' /\ OnlyStep(u) /\ graph' = g
           /\ update'[u].pc \in {"gaveup", "waiting"}
           /\ nameDoubt' = (nameDoubt \/ RootNames(g) # RootNames(graph))
  <1> DEFINE st == Head(update[u].todo)
  <1>1. WellFormed(graph) /\ Sound(update[u])
    BY DEF MemoryTyped
  <1>2. st \in Statement /\ update[u] \in Update
    BY <1>1, TodoTyped
  <1> HIDE DEF st
  <1>3. WellFormed(g)
    BY <1>1, <1>2, ExecutedOK DEF FailsWith, st
  <1>4. Sound(Failed(update[u])) /\ Failed(update[u]).pc \in {"gaveup", "waiting"}
    BY <1>2, FailedSound
  <1>5. Write(g, Changed(update, u, Failed(update[u])), others)
    BY DEF FailsWith
  <1>6. /\ SoundUpdates(update') /\ OnlyStep(u) /\ Same(update'[u], Failed(update[u]))
        /\ graph' = g /\ nameDoubt' = (nameDoubt \/ RootNames(g) # RootNames(graph))
    BY <1>4, <1>5, WriteOne
  <1>7. UNCHANGED <<actor, aiName, lastName>>
    BY DEF FailsWith
  <1> QED BY <1>3, <1>4, <1>6, <1>7 DEF MemoryTyped, SoundUpdates, Same

LEMMA NextAttemptIs ==
    ASSUME NEW v, Sound(v), v.pc = "waiting"
    PROVE  LET next == [v EXCEPT !.attempt = @ + 1]
           IN  /\ next \in Update /\ next.todo = <<>>
               /\ Sound([next EXCEPT !.pc = "asking"])
               /\ [next EXCEPT !.pc = "asking"].pc = "asking"
  <1> DEFINE n == v.attempt + 1
             next == [v EXCEPT !.attempt = n]
             w == WithPc(next, "asking")
  <1>1. v \in Update /\ v.todo = <<>> /\ v.attempt < MaxRetries
    BY DEF Sound
  <1>2. n \in 0..MaxRetries
    BY <1>1, RetriesIsNat DEF Update
  <1> HIDE DEF n
  <1>3. next \in Update /\ next.todo = v.todo
    BY <1>1, <1>2 DEF Update
  <1>4. [v EXCEPT !.attempt = @ + 1] = next
    BY DEF n
  <1> HIDE DEF next
  <1>5. w \in Update /\ w.pc = "asking" /\ w.todo = next.todo
    BY <1>3, WithPcIs DEF Active
  <1> HIDE DEF w
  <1>6. Sound(w)
    BY <1>1, <1>3, <1>5 DEF Sound
  <1> QED BY <1>1, <1>3, <1>4, <1>5, <1>6 DEF w, WithPc

LEMMA RetryTyped ==
    ASSUME MemoryTyped, NEW u \in Updates, Retry(u)
    PROVE  /\ MemoryTyped' /\ OnlyStep(u)
           /\ update'[u].pc \in {"asking", "gaveup", "waiting"}
           /\ UNCHANGED <<graph, actor, lastName, nameDoubt, twinDoubt>>
  <1> DEFINE next == [update[u] EXCEPT !.attempt = @ + 1]
             w == Resent(update[u])
  <1>1. SoundUpdates(update) /\ Sound(update[u]) /\ update[u].pc = "waiting"
    BY DEF MemoryTyped, SoundUpdates, Retry
  <1>2. /\ next \in Update /\ Sound([next EXCEPT !.pc = "asking"])
        /\ [next EXCEPT !.pc = "asking"].pc = "asking"
    BY <1>1, NextAttemptIs
  <1>3. update' = Changed(update, u, w)
    BY DEF Retry, Changed
  <1>4. Sound(w) /\ w.pc \in {"asking", "gaveup", "waiting"}
    <2>1. w = IF actor = "up" THEN [next EXCEPT !.pc = "asking"] ELSE Failed(next)
      BY DEF Resent
    <2> HIDE DEF next, w
    <2> QED BY <1>2, <2>1, FailedSound
  <1> HIDE DEF w
  <1>5. SoundUpdates(update') /\ update'[u] = w /\ \A v \in Updates : v # u => update'[v] = update[v]
    BY <1>1, <1>3, <1>4, ChangeOne
  <1> QED BY <1>4, <1>5 DEF MemoryTyped, Retry, SoundUpdates, OnlyStep, Same

\* What is left of an update whose actor has died.
Orphaned(v) ==
    CASE v.pc = "asking" -> Failed(v)
      [] v.pc = "writing" -> [v EXCEPT !.pc = "cut"]
      [] OTHER -> v

LEMMA OrphanedSound ==
    ASSUME NEW v, Sound(v)
    PROVE  /\ Sound(Orphaned(v)) /\ Orphaned(v) \in Update /\ Orphaned(v).pc # "writing"
           /\ v.pc = "writing" => Orphaned(v).pc = "cut"
           /\ Orphaned(v).pc = "cut" => v.pc \in {"writing", "cut"} /\ Orphaned(v).todo = v.todo
  <1>1. v \in Update
    BY DEF Sound
  <1>2. CASE v.pc = "asking"
    BY <1>1, <1>2, FailedSound DEF Orphaned, Sound
  <1>3. CASE v.pc = "writing"
    <2> DEFINE w == WithPc(v, "cut")
    <2>1. w \in Update /\ w.pc = "cut" /\ w.todo = v.todo
      BY <1>1, WithPcIs DEF Active
    <2>2. Orphaned(v) = w
      BY <1>3 DEF Orphaned, WithPc
    <2> HIDE DEF w
    <2> QED BY <1>3, <2>1, <2>2 DEF Sound
  <1>4. CASE v.pc \notin {"asking", "writing"}
    BY <1>1, <1>4 DEF Orphaned
  <1> QED BY <1>2, <1>3, <1>4

LEMMA QueryPanicsTyped ==
    ASSUME MemoryTyped, QueryPanics
    PROVE  /\ MemoryTyped' /\ \A u \in Updates : update'[u] = Orphaned(update[u])
           /\ UNCHANGED <<graph, aiName, lastName, nameDoubt, twinDoubt>> /\ actor' = "dead"
  <1>1. update' = [u \in Updates |-> Orphaned(update[u])]
    BY DEF QueryPanics, Orphaned
  <1>2. \A u \in Updates : Sound(Orphaned(update[u])) /\ Orphaned(update[u]) \in Update
    BY OrphanedSound DEF MemoryTyped
  <1>3. UNCHANGED <<graph, aiName, lastName, nameDoubt, twinDoubt>> /\ actor' = "dead"
    BY DEF QueryPanics
  <1>4. /\ update' \in [Updates -> Update]
        /\ \A u \in Updates : update'[u] = Orphaned(update[u])
    BY <1>1, <1>2
  <1> QED BY <1>2, <1>3, <1>4 DEF MemoryTyped

\* An edit by hand writes a graph that is as it should be, and no update takes a step.
LEMMA ByHandTyped ==
    ASSUME MemoryTyped, ByHand
    PROVE  /\ MemoryTyped' /\ \A u \in Updates : Same(update'[u], update[u])
           /\ nameDoubt' = (nameDoubt \/ RootNames(graph') # RootNames(graph))
           /\ UNCHANGED <<actor, aiName, lastName>> /\ actor = "up"
  <1>1. WellFormed(graph) /\ SoundUpdates(update) /\ graph.nodes \subseteq Node
    BY FieldsOfGraph DEF MemoryTyped, SoundUpdates, WellFormed
  <1>2. UNCHANGED <<actor, aiName, lastName>> /\ actor = "up"
    BY DEF ByHand, CreateMemoryNode, UpdateMemoryNode, DeleteMemoryNode,
           CreateMemoryRelationship, DeleteMemoryRelationship, Edit
  <1>3. \E g : Write(g, update, Updates) /\ WellFormed(g)
    <2>1. CASE CreateMemoryNode
      <3>1. PICK name \in HandNames :
                  /\ Write(AddNode(graph, [label |-> "Memory", name |-> name]), update, Updates)
                  /\ Ids(graph.nodes) # NodeIds
        BY <2>1 DEF CreateMemoryNode
      <3>2. [label |-> "Memory", name |-> name] \in Key
        BY MemoryAssumption DEF Key
      <3> QED BY <1>1, <3>1, <3>2, AddNodeOK
    <2>2. CASE UpdateMemoryNode
      <3>1. PICK n \in graph.nodes, name \in HandNames \cup {Blank} :
                  Write(Rename(graph, {n.id}, name), update, Updates)
        BY <2>2 DEF UpdateMemoryNode
      <3>2. name \in Names \cup {NoName}
        BY MemoryAssumption
      <3> QED BY <1>1, <3>1, <3>2, RenameOK
    <2>3. CASE DeleteMemoryNode
      BY <1>1, <2>3, DetachDeleteOK DEF DeleteMemoryNode
    <2>4. CASE CreateMemoryRelationship
      <3>1. PICK m \in graph.nodes, n \in graph.nodes, raw \in RawTypes :
                  /\ Numbers(graph, m.id, Sanitize(raw), n.id) # RelNumbers
                  /\ Write(AddRelation(graph, m.id, Sanitize(raw), n.id), update, Updates)
        BY <2>4 DEF CreateMemoryRelationship
      <3>2. Plain(Sanitize(raw))
        BY SanitizePlain, MemoryAssumption
      <3>3. m.id \in Ids(graph.nodes) /\ n.id \in Ids(graph.nodes)
        BY DEF Ids
      <3> QED BY <1>1, <3>1, <3>2, <3>3, AddRelationOK
    <2>5. CASE DeleteMemoryRelationship
      BY <1>1, <2>5, DropRelationsOK DEF DeleteMemoryRelationship
    <2> QED BY <2>1, <2>2, <2>3, <2>4, <2>5 DEF ByHand
  <1>4. PICK g : Write(g, update, Updates) /\ WellFormed(g)
    BY <1>3
  <1>5. /\ SoundUpdates(update') /\ \A u \in Updates : Same(update'[u], update[u])
        /\ graph' = g /\ nameDoubt' = (nameDoubt \/ RootNames(g) # RootNames(graph))
    BY <1>1, <1>4, WriteKeeps
  <1> QED BY <1>2, <1>4, <1>5 DEF MemoryTyped, SoundUpdates

LEMMA CrashTyped ==
    ASSUME MemoryTyped, Crash
    PROVE  /\ MemoryTyped' /\ \A u \in Updates : update'[u].pc \notin Active
           /\ UNCHANGED <<graph, lastName, nameDoubt, twinDoubt>> /\ actor' = "root"
           /\ actor # "root"
  <1> DEFINE f(v) == IF v.pc \in Active THEN Ended("lost") ELSE v
  <1>1. update' = [u \in Updates |-> f(update[u])]
    BY DEF Crash
  <1>2. ASSUME NEW u \in Updates PROVE Sound(f(update[u])) /\ f(update[u]).pc \notin Active
    BY IdleSound DEF MemoryTyped, Active
  <1>3. \A u \in Updates : f(update[u]) \in Update
    BY <1>2 DEF Sound
  <1>4. /\ UNCHANGED <<graph, lastName, nameDoubt, twinDoubt>> /\ actor' = "root" /\ aiName' = Wo
        /\ actor # "root"
    BY DEF Crash
  <1> HIDE DEF f
  <1>5. update' \in [Updates -> Update] /\ \A u \in Updates : update'[u] = f(update[u])
    BY <1>1, <1>3
  <1> QED BY <1>2, <1>4, <1>5, StoreAssumption DEF MemoryTyped, Booting

-----------------------------------------------------------------------------
(* The steps of the updates, and the types of all steps.                    *)

LEMMA StepKeeps ==
    ASSUME MemoryTyped, NEW u \in Updates, Step(u)
    PROVE  /\ MemoryTyped' /\ OnlyStep(u)
           /\ update[u].pc \in Active
           /\ UNCHANGED <<actor, lastName>>
           /\ nameDoubt' <=> (nameDoubt \/ RootNames(graph') # RootNames(graph))
  <1>1. CASE Answer(u)
    <2>1. update[u].pc = "asking" /\ UNCHANGED <<graph, actor, lastName, nameDoubt>>
      BY <1>1 DEF Answer
    <2> QED BY <1>1, <2>1, AnswerTyped DEF Active
  <1>2. CASE Execute(u)
    BY <1>2, ExecuteTyped, ExecuteIs DEF Active
  <1>3. CASE FailStatement(u) \/ Land(u)
    <2>1. /\ update[u].pc \in {"writing", "cut"} /\ \E g, others : FailsWith(u, g, others)
      BY <1>3, FailStatementIs, LandIs
    <2>2. PICK g, others : FailsWith(u, g, others)
      BY <2>1
    <2>3. UNCHANGED <<actor, lastName>>
      BY <2>2 DEF FailsWith
    <2>4. /\ MemoryTyped' /\ OnlyStep(u) /\ graph' = g
          /\ nameDoubt' = (nameDoubt \/ RootNames(g) # RootNames(graph))
      BY <2>1, <2>2, FailsTyped
    <2> QED BY <2>1, <2>3, <2>4 DEF Active
  <1>4. CASE Retry(u)
    <2>1. update[u].pc = "waiting"
      BY <1>4 DEF Retry
    <2> QED BY <1>4, <2>1, RetryTyped DEF Active
  <1> QED BY <1>1, <1>2, <1>3, <1>4 DEF Step

LEMMA MemoryTypedStep == MemoryTyped /\ [MemoryNext]_memoryVars => MemoryTyped'
  <1> SUFFICES ASSUME MemoryTyped, [MemoryNext]_memoryVars PROVE MemoryTyped'
    OBVIOUS
  <1>1. CASE Boot
    BY <1>1, InitRootTyped, GetRootNameTyped, ExtractNameTyped, StoreNameTyped DEF Boot
  <1>2. CASE QueryPanics
    BY <1>2, QueryPanicsTyped
  <1>3. CASE ByHand
    BY <1>3, ByHandTyped
  <1>4. CASE Crash
    BY <1>4, CrashTyped
  <1>5. CASE Settled \/ UNCHANGED memoryVars
    BY <1>5 DEF Settled, memoryVars, MemoryTyped
  <1>6. ASSUME NEW u \in Updates, StartUpdate(u) PROVE MemoryTyped'
    BY <1>6, StartUpdateTyped
  <1>7. ASSUME NEW u \in Updates, Step(u) PROVE MemoryTyped'
    BY <1>7, StepKeeps
  <1> QED BY <1>1, <1>2, <1>3, <1>4, <1>5, <1>6, <1>7 DEF MemoryNext

LEMMA AloneAtStartStep == MemoryTyped /\ AloneAtStart /\ [MemoryNext]_memoryVars => AloneAtStart'
  <1> SUFFICES ASSUME MemoryTyped, AloneAtStart, [MemoryNext]_memoryVars PROVE AloneAtStart'
    OBVIOUS
  <1>1. CASE Boot
    <2>1. UNCHANGED update /\ actor \in Booting
      BY <1>1 DEF Boot, InitRoot, GetRootName, ExtractName, StoreName, Booting
    <2> QED BY <2>1 DEF AloneAtStart
  <1>2. CASE QueryPanics
    BY <1>2 DEF QueryPanics, AloneAtStart, Booting
  <1>3. CASE ByHand
    BY <1>3, ByHandTyped DEF AloneAtStart, Booting
  <1>4. CASE Crash
    BY <1>4, CrashTyped DEF AloneAtStart
  <1>5. CASE Settled \/ UNCHANGED memoryVars
    BY <1>5 DEF Settled, memoryVars, AloneAtStart
  <1>6. ASSUME NEW u \in Updates, StartUpdate(u) PROVE AloneAtStart'
    BY <1>6 DEF StartUpdate, AloneAtStart, Booting
  <1>7. ASSUME NEW u \in Updates, Step(u) PROVE AloneAtStart'
    BY <1>7, StepKeeps DEF AloneAtStart
  <1> QED BY <1>1, <1>2, <1>3, <1>4, <1>5, <1>6, <1>7 DEF MemoryNext

-----------------------------------------------------------------------------
(* The name of the assistant.                                               *)

\* A step that writes through Write cannot change the names of roots unseen.
LEMMA NameKnownWrite ==
    ASSUME NameKnown, UNCHANGED <<actor, lastName>>,
           nameDoubt' <=> (nameDoubt \/ RootNames(graph') # RootNames(graph))
    PROVE  NameKnown'
  BY DEF NameKnown

LEMMA NameOfRoot ==
    ASSUME NEW g
    PROVE  \A x : x \in RootNames(g) <=> \E n \in g.nodes : n.label = Root /\ n.name = x
  BY DEF RootNames, Roots

LEMMA NameKnownBoot == ASSUME MemoryTyped, NameKnown, Boot PROVE NameKnown'
  <1>1. lastName \in Names /\ aiName \in Names /\ lastName # NoName /\ WellFormed(graph)
    BY StoreAssumption DEF MemoryTyped
  <1>2. CASE InitRoot
    <2>1. actor = "root" /\ actor' = "read" /\ UNCHANGED lastName
      BY <1>2 DEF InitRoot
    <2>2. CASE nameDoubt'
      BY <2>2 DEF NameKnown
    <2>3. CASE ~nameDoubt'
      <3>1. ~nameDoubt /\ IF Roots(graph) = {} THEN CreateRoot ELSE UNCHANGED graph
        BY <1>2, <2>3 DEF InitRoot
      <3>2. CASE Roots(graph) = {}
        <4>1. RootNames(graph) = {}
          BY <3>2 DEF RootNames
        <4>2. lastName = Wo
          BY <3>1, <4>1 DEF NameKnown
        <4> DEFINE k == [label |-> Root, name |-> Wo]
        <4>3. k \in Key
          BY StoreAssumption DEF Key
        <4>4. CreateRoot
          BY <3>1, <3>2
        <4>5. graph' = AddNode(graph, k) /\ Ids(graph.nodes) # NodeIds
          BY <4>4 DEF CreateRoot
        <4>6. PICK i : graph'.nodes = graph.nodes \cup {[id |-> i, label |-> Root, name |-> Wo]}
          BY <1>1, <4>3, <4>5, AddNodeAdds
        <4> DEFINE new == [id |-> i, label |-> Root, name |-> Wo]
        <4>new. new.label = Root /\ new.name = Wo
          OBVIOUS
        <4> HIDE DEF new
        <4>7. RootNames(graph') = {Wo}
          <5>1. graph'.nodes = graph.nodes \cup {new}
            BY <4>6 DEF new
          <5>2. ~ \E n \in graph.nodes : n.label = Root
            BY <4>1, NameOfRoot
          <5>3. \A x : x \in RootNames(graph') <=> x = Wo
            BY <4>new, <5>1, <5>2, NameOfRoot
          <5> QED BY <5>3
        <4> QED BY <2>1, <4>2, <4>7 DEF NameKnown
      <3>3. CASE Roots(graph) # {}
        <4>1. RootNames(graph) # {} /\ UNCHANGED graph
          BY <3>1, <3>3 DEF RootNames
        <4> QED BY <2>1, <3>1, <4>1 DEF NameKnown
      <3> QED BY <3>2, <3>3
    <2> QED BY <2>2, <2>3
  <1>3. CASE GetRootName
    <2>1. actor = "read" /\ UNCHANGED graph
      BY <1>3 DEF GetRootName
    <2>2. CASE nameDoubt'
      BY <2>2 DEF NameKnown
    <2>3. CASE ~nameDoubt'
      <3>1. PICK name \in RootNames(graph) : UseName(name) /\ UNCHANGED nameDoubt
        BY <1>3, <2>3 DEF GetRootName
      <3>2. name = lastName /\ RootNames(graph) \subseteq {lastName} /\ RootNames(graph) # {}
        BY <2>1, <2>3, <3>1 DEF NameKnown
      <3> QED BY <1>1, <2>1, <3>1, <3>2 DEF NameKnown, UseName, Serve
    <2> QED BY <2>2, <2>3
  <1>4. CASE ExtractName
    BY <1>4 DEF ExtractName, NameKnown, Serve
  <1>5. CASE StoreName
    <2>1. actor = "rename" /\ Serve(aiName)
      BY <1>5 DEF StoreName
    <2>2. CASE nameDoubt'
      BY <2>2 DEF NameKnown
    <2>3. CASE ~nameDoubt'
      <3>1. ~nameDoubt /\ graph' = Rename(graph, Ids(Roots(graph)), aiName)
        BY <1>5, <2>3 DEF StoreName
      <3>2. RootNames(graph) # {}
        BY <2>1, <3>1 DEF NameKnown
      <3>3. \A n \in graph.nodes : n.id \in Ids(Roots(graph)) <=> n \in Roots(graph)
        BY <1>1 DEF Ids, Roots, WellFormed
      <3>4. graph'.nodes =
               {IF n.id \in Ids(Roots(graph)) THEN [id |-> n.id, label |-> n.label, name |-> aiName]
                ELSE n : n \in graph.nodes}
        BY <1>1, <3>1, RenameRenames
      <3>5. RootNames(graph') = {aiName}
        <4>1. PICK r \in graph.nodes : r.label = Root
          BY <3>2, NameOfRoot
        <4>2. r.id \in Ids(Roots(graph))
          BY <3>3, <4>1 DEF Roots
        <4> DEFINE new(n) == [id |-> n.id, label |-> n.label, name |-> aiName]
        <4>3. \A n : new(n).label = n.label /\ new(n).name = aiName
          OBVIOUS
        <4> HIDE DEF new
        <4>4. graph'.nodes =
                 {IF n.id \in Ids(Roots(graph)) THEN new(n) ELSE n : n \in graph.nodes}
          BY <3>4 DEF new
        <4>5. new(r) \in graph'.nodes
          BY <4>2, <4>4
        <4>6. \A m \in graph'.nodes : m.label = Root => m.name = aiName
          BY <3>3, <4>3, <4>4 DEF Roots
        <4>7. \A x : x \in RootNames(graph') <=> x = aiName
          BY <4>1, <4>3, <4>5, <4>6, NameOfRoot
        <4> QED BY <4>7
      <3> QED BY <2>1, <3>1, <3>5 DEF NameKnown, Serve
    <2> QED BY <2>2, <2>3
  <1> QED BY <1>2, <1>3, <1>4, <1>5 DEF Boot

LEMMA NameKnownStep ==
    MemoryTyped /\ NameKnown /\ [MemoryNext]_memoryVars => NameKnown'
  <1> SUFFICES ASSUME MemoryTyped, NameKnown, [MemoryNext]_memoryVars PROVE NameKnown'
    OBVIOUS
  <1>1. CASE Boot
    BY <1>1, NameKnownBoot
  <1>2. CASE QueryPanics
    BY <1>2 DEF QueryPanics, NameKnown
  <1>3. CASE ByHand
    BY <1>3, ByHandTyped, NameKnownWrite
  <1>4. CASE Crash
    BY <1>4, CrashTyped DEF NameKnown
  <1>5. CASE Settled \/ UNCHANGED memoryVars
    BY <1>5 DEF Settled, memoryVars, NameKnown
  <1>6. ASSUME NEW u \in Updates, StartUpdate(u) PROVE NameKnown'
    BY <1>6 DEF StartUpdate, NameKnown
  <1>7. ASSUME NEW u \in Updates, Step(u) PROVE NameKnown'
    BY <1>7, StepKeeps, NameKnownWrite
  <1> QED BY <1>1, <1>2, <1>3, <1>4, <1>5, <1>6, <1>7 DEF MemoryNext

-----------------------------------------------------------------------------
(* One node for every entity.                                               *)

Unique(g) ==
    \A m, n \in g.nodes :
        m.name # NoName /\ m.label = n.label /\ m.name = n.name => m = n

Missing(g, k) == \A n \in g.nodes : ~(n.label = k.label /\ n.name = k.name)

LEMMA MatchingIs == ASSUME NEW g, NEW k PROVE Matching(g, k) = {} <=> Missing(g, k)
  BY DEF Matching, Missing

LEMMA UniqueIs ==
    ASSUME NEW g
    PROVE  Unique(g) <=> \A m, n \in g.nodes : m.name # NoName /\ Shown(m) = Shown(n) => m = n
  <1>1. \A m, n : Shown(m) = Shown(n) <=> m.label = n.label /\ m.name = n.name
    <2> SUFFICES ASSUME NEW m, NEW n
                 PROVE  Shown(m) = Shown(n) <=> m.label = n.label /\ m.name = n.name
      OBVIOUS
    <2>1. /\ Shown(m).label = m.label /\ Shown(m).name = m.name
          /\ Shown(n).label = n.label /\ Shown(n).name = n.name
      BY DEF Shown
    <2>2. m.label = n.label /\ m.name = n.name => Shown(m) = Shown(n)
      BY DEF Shown
    <2> QED BY <2>1, <2>2
  <1> QED BY <1>1 DEF Unique

\* The new node is the only one of its key, and no other key is met by it.
LEMMA AddNodeUnique ==
    ASSUME NEW g, WellFormed(g), NEW k \in Key, Ids(g.nodes) # NodeIds
    PROVE  /\ Unique(g) /\ Missing(g, k) => Unique(AddNode(g, k))
           /\ \A j \in Key : j # k /\ Missing(g, j) => Missing(AddNode(g, k), j)
           /\ g.nodes \subseteq AddNode(g, k).nodes
  <1>1. PICK i \in NodeIds \ Ids(g.nodes) :
              /\ AddNode(g, k).nodes =
                    g.nodes \cup {[id |-> i, label |-> k.label, name |-> k.name]}
              /\ AddNode(g, k).rels = g.rels
              /\ AddNode(g, k) \in Graph
    BY AddNodeAdds
  <1> DEFINE new == [id |-> i, label |-> k.label, name |-> k.name]
  <1>2. new.label = k.label /\ new.name = k.name
    OBVIOUS
  <1>3. \A j \in Key : j.label = k.label /\ j.name = k.name => j = k
    BY DEF Key
  <1>4. AddNode(g, k).nodes = g.nodes \cup {new}
    BY <1>1
  <1> HIDE DEF new
  <1>5. Unique(g) /\ Missing(g, k) => Unique(AddNode(g, k))
    BY <1>2, <1>4 DEF Unique, Missing
  <1>6. \A j \in Key : j # k /\ Missing(g, j) => Missing(AddNode(g, k), j)
    BY <1>2, <1>3, <1>4 DEF Missing
  <1> QED BY <1>4, <1>5, <1>6

LEMMA MergeNodeUnique ==
    ASSUME NEW g, WellFormed(g), NEW k \in Key, Ids(g.nodes) # NodeIds, NEW blind
    PROVE  /\ Unique(g) /\ k \notin blind => Unique(MergeNode(g, k, blind))
           /\ \A j \in Key : j # k /\ Missing(g, j) => Missing(MergeNode(g, k, blind), j)
  <1>1. CASE Matching(g, k) = {} \/ k \in blind
    BY <1>1, AddNodeUnique, MatchingIs DEF MergeNode
  <1>2. CASE ~(Matching(g, k) = {} \/ k \in blind)
    BY <1>2 DEF MergeNode
  <1> QED BY <1>1, <1>2

\* Unless a key is blind, a statement creates a node only of an entity it merges and
\* that is missing.
LEMMA ExecutedUnique ==
    ASSUME NEW g, WellFormed(g), NEW st \in Statement, ~Rejected(st), Room(g, st), NEW blind
    PROVE  /\ Unique(g) /\ blind = {} => Unique(Executed(g, st, blind))
           /\ \A k \in Key : k \notin MergedKeys(st) /\ Missing(g, k) =>
                 Missing(Executed(g, st, blind), k)
  <1> DEFINE h == Executed(g, st, blind)
  <1>0. st.a \in Key /\ st.b \in Key
    BY DEF Statement
  <1>sub. ASSUME h.nodes \subseteq g.nodes
          PROVE  (Unique(g) => Unique(h)) /\ \A k : Missing(g, k) => Missing(h, k)
    <2> HIDE DEF h
    <2> QED BY <1>sub DEF Unique, Missing
  <1>1. CASE st.do = "merge"
    <2>1. MergedKeys(st) = {st.a} /\ h = MergeNode(g, st.a, blind)
      BY <1>1 DEF MergedKeys, Executed
    <2>2. Ids(g.nodes) # NodeIds
      BY <2>1, RoomIsRoom
    <2> HIDE DEF h
    <2>3. /\ Unique(g) /\ st.a \notin blind => Unique(MergeNode(g, st.a, blind))
          /\ \A j \in Key : j # st.a /\ Missing(g, j) => Missing(MergeNode(g, st.a, blind), j)
      BY <1>0, <2>2, MergeNodeUnique
    <2> QED BY <2>1, <2>3 DEF h
  <1>2. CASE st.do = "relate"
    <2> DEFINE g1 == MergeNode(g, st.a, blind)
               g2 == MergeNode(g1, st.b, blind \ {st.a})
    <2>1. MergedKeys(st) = {st.a, st.b} /\ h = MergeRelation(g, st.a, st.t, st.b, blind)
      BY <1>2 DEF MergedKeys, Executed
    <2>2. Ids(g.nodes) # NodeIds /\ \E i, j \in NodeIds \ Ids(g.nodes) : i # j
      BY <2>1, RoomIsRoom
    <2>3. WellFormed(g1) /\ Ids(g1.nodes) # NodeIds
      BY <1>0, <2>2, MergeNodeOK, MergeTakesOne
    <2>4. /\ Unique(g) /\ st.a \notin blind => Unique(g1)
          /\ \A j \in Key : j # st.a /\ Missing(g, j) => Missing(g1, j)
      BY <1>0, <2>2, MergeNodeUnique
    <2> HIDE DEF g1
    <2>5. WellFormed(g2)
      BY <1>0, <2>3, MergeNodeOK
    <2>6. /\ Unique(g1) /\ st.b \notin blind \ {st.a} => Unique(g2)
          /\ \A j \in Key : j # st.b /\ Missing(g1, j) => Missing(g2, j)
      BY <1>0, <2>3, MergeNodeUnique
    <2> HIDE DEF g2
    <2>7. \E x : h = [g2 EXCEPT !.rels = x]
      BY <2>1 DEF MergeRelation, g1, g2
    <2>8. h.nodes = g2.nodes
      <3> HIDE DEF h
      <3>1. PICK x : h = [g2 EXCEPT !.rels = x]
        BY <2>7
      <3>2. h = [nodes |-> g2.nodes, rels |-> x]
        BY <2>5, <3>1, FieldsOfGraph DEF WellFormed
      <3> QED BY <3>2
    <2> HIDE DEF h
    <2>9. Unique(h) <=> Unique(g2)
      BY <2>8 DEF Unique
    <2>10. \A k : Missing(h, k) <=> Missing(g2, k)
      BY <2>8 DEF Missing
    <2> QED BY <2>1, <2>4, <2>6, <2>9, <2>10 DEF h
  <1>3. CASE st.do = "delete"
    <2>1. h.nodes \subseteq g.nodes
      BY <1>3 DEF Executed, DetachDelete
    <2> QED BY <2>1, <1>sub
  <1>4. CASE st.do = "unrelate"
    <2>1. h = [g EXCEPT !.rels = g.rels \ Between(g, st.a, st.t, st.b)]
      BY <1>4 DEF Executed, DropRelations
    <2> HIDE DEF h
    <2>2. h = [nodes |-> g.nodes, rels |-> g.rels \ Between(g, st.a, st.t, st.b)]
      BY <2>1, FieldsOfGraph DEF WellFormed
    <2>3. h.nodes \subseteq g.nodes
      BY <2>2
    <2> QED BY <2>3, <1>sub DEF h
  <1>5. CASE st.do = "remove" /\ st.p = "name"
    <2> DEFINE ids == Ids(Matching(g, st.a))
               new(n) == [id |-> n.id, label |-> n.label, name |-> NoName]
    <2>1. h = Rename(g, ids, NoName)
      BY <1>5 DEF Executed
    <2>2. \A n : new(n).name = NoName
      OBVIOUS
    <2> HIDE DEF h, new, ids
    <2>3. h.nodes = {IF n.id \in ids THEN new(n) ELSE n : n \in g.nodes}
      BY <2>1, RenameRenames DEF new
    <2>4. \A n \in h.nodes : n \in g.nodes \/ n.name = NoName
      BY <2>2, <2>3
    <2>5. \A k \in Key : k.name # NoName
      BY StoreAssumption DEF Key
    <2>6. Unique(g) => Unique(h)
      BY <2>4 DEF Unique
    <2>7. \A k \in Key : Missing(g, k) => Missing(h, k)
      BY <2>4, <2>5 DEF Missing
    <2> QED BY <2>6, <2>7 DEF h
  <1>6. CASE /\ st.do \notin {"merge", "relate", "delete", "unrelate"}
             /\ ~(st.do = "remove" /\ st.p = "name")
    <2>1. h = g
      BY <1>6 DEF Executed
    <2> QED BY <2>1
  <1> QED BY <1>1, <1>2, <1>3, <1>4, <1>5, <1>6

Busy(v) == v.pc \in {"writing", "cut"}
Keys(v) == MergedKeys(Head(v.todo))

\* NoTwin, with its parts in terms of Unique and Missing.
LEMMA NoTwinIs ==
    NoTwin <=>
        (~twinDoubt =>
            /\ Unique(graph)
            /\ \A u \in Updates : update[u].pc = "writing" =>
                  \A k \in update[u].absent : Missing(graph, k)
            /\ \A u, v \in Updates : u # v /\ Busy(update[u]) /\ Busy(update[v]) =>
                  Keys(update[u]) \cap Keys(update[v]) = {})
  BY UniqueIs, MatchingIs DEF NoTwin, Apart, Busy, Keys

LEMMA NoTwinNext ==
    NoTwin' <=>
        (~twinDoubt' =>
            /\ Unique(graph')
            /\ \A u \in Updates : update'[u].pc = "writing" =>
                  \A k \in update'[u].absent : Missing(graph', k)
            /\ \A u, v \in Updates : u # v /\ Busy(update'[u]) /\ Busy(update'[v]) =>
                  Keys(update'[u]) \cap Keys(update'[v]) = {})
  BY UniqueIs, MatchingIs DEF NoTwin, Apart, Busy, Keys

\* A step of update u keeps NoTwin if what it creates is what it merges, and if
\* the statement it goes on to merges what no other update is merging.
LEMMA NoTwinOfStep ==
    ASSUME NoTwin, MemoryTyped, NEW u \in Updates, OnlyStep(u), twinDoubt' \/ ~twinDoubt,
           ~twinDoubt' => Unique(graph'),
           \A k \in Key : Missing(graph, k) =>
              Missing(graph', k) \/ (Busy(update[u]) /\ k \in Keys(update[u])),
           Busy(update'[u]) /\ ~twinDoubt' =>
              /\ \A k \in update'[u].absent : Missing(graph', k)
              /\ \A v \in Updates : v # u /\ Busy(update[v]) =>
                    Keys(update[v]) \cap Keys(update'[u]) = {}
    PROVE  NoTwin'
  <1>1. \A v \in Updates : v # u =>
           /\ Busy(update'[v]) <=> Busy(update[v])
           /\ update'[v].pc = update[v].pc /\ update'[v].absent = update[v].absent
           /\ Keys(update'[v]) = Keys(update[v])
    BY DEF OnlyStep, Same, Busy, Keys
  <1> SUFFICES ASSUME ~twinDoubt'
               PROVE  /\ Unique(graph')
                      /\ \A v \in Updates : update'[v].pc = "writing" =>
                            \A k \in update'[v].absent : Missing(graph', k)
                      /\ \A v, w \in Updates : v # w /\ Busy(update'[v]) /\ Busy(update'[w]) =>
                            Keys(update'[v]) \cap Keys(update'[w]) = {}
    BY NoTwinNext
  <1>2. /\ \A v \in Updates : update[v].pc = "writing" =>
              \A k \in update[v].absent : Missing(graph, k)
        /\ \A v, w \in Updates : v # w /\ Busy(update[v]) /\ Busy(update[w]) =>
              Keys(update[v]) \cap Keys(update[w]) = {}
    BY NoTwinIs
  <1>3. ASSUME NEW v \in Updates, update'[v].pc = "writing", NEW k \in update'[v].absent
        PROVE  Missing(graph', k)
    <2>1. CASE v = u
      BY <1>3, <2>1 DEF Busy
    <2>2. CASE v # u
      <3>1. update[v].pc = "writing" /\ k \in update[v].absent /\ Busy(update[v])
        BY <1>1, <1>3, <2>2 DEF Busy
      <3>2. Missing(graph, k)
        BY <1>2, <3>1
      <3>3. update[v].absent \subseteq Keys(update[v]) /\ update[v].absent \subseteq Key
        BY <3>1 DEF MemoryTyped, Sound, Update, Keys
      <3>4. Busy(update[u]) => k \notin Keys(update[u])
        BY <1>2, <2>2, <3>1, <3>3
      <3> QED BY <3>1, <3>2, <3>3, <3>4
    <2> QED BY <2>1, <2>2
  <1>4. ASSUME NEW v \in Updates, NEW w \in Updates, v # w, Busy(update'[v]), Busy(update'[w])
        PROVE  Keys(update'[v]) \cap Keys(update'[w]) = {}
    <2>1. CASE v = u
      BY <1>1, <1>4, <2>1
    <2>2. CASE w = u
      BY <1>1, <1>4, <2>2
    <2>3. CASE v # u /\ w # u
      BY <1>1, <1>2, <1>4, <2>3
    <2> QED BY <2>1, <2>2, <2>3
  <1> QED BY <1>3, <1>4

\* The statement an update goes on to is checked against those under way.
LEMMA OnwardApart ==
    ASSUME NEW u \in Updates, NEW v \in Update, NEW todo \in Seq(Statement), NEW g,
           ~Overlaps(u, Onward(v, todo, g)), Busy(Onward(v, todo, g))
    PROVE  /\ \A k \in Onward(v, todo, g).absent : Missing(g, k)
           /\ \A w \in Updates : w # u /\ Busy(update[w]) =>
                 Keys(update[w]) \cap Keys(Onward(v, todo, g)) = {}
  <1> DEFINE next == Onward(v, todo, g)
  <1>1. next.pc = "writing" /\ next.absent = Absent(g, Head(todo))
    BY OnwardSound DEF Busy
  <1>2. \A k \in Absent(g, Head(todo)) : Missing(g, k)
    BY MatchingIs DEF Absent
  <1> HIDE DEF next
  <1> SUFFICES /\ \A k \in next.absent : Missing(g, k)
               /\ \A w \in Updates : w # u /\ Busy(update[w]) =>
                     Keys(update[w]) \cap Keys(next) = {}
    BY DEF next
  <1>3. ~Overlaps(u, next)
    BY DEF next
  <1> QED BY <1>1, <1>2, <1>3 DEF Overlaps, Busy, Keys


LEMMA ExecuteNoTwin ==
    ASSUME MemoryTyped, NoTwin, NEW u \in Updates, Execute(u)
    PROVE  NoTwin'
  <1> DEFINE st == Head(update[u].todo)
             rest == Tail(update[u].todo)
  <1>1. WellFormed(graph) /\ Sound(update[u])
    BY DEF MemoryTyped
  <1>2. update[u].pc = "writing" /\ ~Rejected(st) /\ Room(graph, st)
    BY ExecuteIs
  <1>3. PICK blind \in SUBSET {k \in update[u].absent : Matching(graph, k) # {}} :
               LET g == Executed(graph, st, blind)
                   next == Onward(update[u], rest, g)
               IN  /\ Write(g, Changed(update, u, next), Updates \ {u})
                   /\ twinDoubt' = (twinDoubt \/ Overlaps(u, next))
    BY ExecuteIs
  <1>4. st \in Statement /\ rest \in Seq(Statement) /\ update[u] \in Update
    BY <1>1, <1>2, TodoTyped
  <1>5. Keys(update[u]) = MergedKeys(st) /\ Busy(update[u])
    BY <1>2 DEF Keys, Busy
  <1> HIDE DEF st, rest
  <1> DEFINE g == Executed(graph, st, blind)
             next == Onward(update[u], rest, g)
  <1>6. /\ Unique(graph) /\ blind = {} => Unique(g)
        /\ \A k \in Key : k \notin MergedKeys(st) /\ Missing(graph, k) => Missing(g, k)
    BY <1>1, <1>2, <1>4, ExecutedUnique
  <1>7. /\ Write(g, Changed(update, u, next), Updates \ {u})
        /\ twinDoubt' <=> (twinDoubt \/ Overlaps(u, next))
    BY <1>3
  <1> HIDE DEF g
  <1>8. Sound(next)
    BY <1>4, OnwardSound
  <1>9. ~Overlaps(u, next) /\ Busy(next) =>
           /\ \A k \in next.absent : Missing(g, k)
           /\ \A v \in Updates : v # u /\ Busy(update[v]) => Keys(update[v]) \cap Keys(next) = {}
    BY <1>4, OnwardApart
  <1> HIDE DEF next
  <1>10. OnlyStep(u) /\ Same(update'[u], next) /\ graph' = g
    BY <1>7, <1>8, WriteOne
  <1>11. ~twinDoubt' => Unique(graph')
    <2> SUFFICES ASSUME ~twinDoubt' PROVE Unique(graph')
      OBVIOUS
    <2>1. Unique(graph) /\ \A k \in update[u].absent : Missing(graph, k)
      BY <1>2, <1>7, NoTwinIs
    <2>2. blind = {}
      BY <1>3, <2>1, MatchingIs
    <2> QED BY <1>6, <1>10, <2>1, <2>2
  <1>12. /\ Busy(update'[u]) <=> Busy(next)
         /\ update'[u].absent = next.absent /\ Keys(update'[u]) = Keys(next)
    BY <1>10 DEF Same, Busy, Keys
  <1>13. \A k \in Key : Missing(graph, k) =>
            Missing(graph', k) \/ (Busy(update[u]) /\ k \in Keys(update[u]))
    BY <1>5, <1>6, <1>10
  <1>14. Busy(update'[u]) /\ ~twinDoubt' =>
            /\ \A k \in update'[u].absent : Missing(graph', k)
            /\ \A v \in Updates : v # u /\ Busy(update[v]) =>
                  Keys(update[v]) \cap Keys(update'[u]) = {}
    BY <1>7, <1>9, <1>10, <1>12
  <1>15. twinDoubt' \/ ~twinDoubt
    BY <1>7
  <1> QED BY <1>10, <1>11, <1>13, <1>14, <1>15, NoTwinOfStep

\* An update that is not busy with a statement after its step, which left the graph
\* alone, is nobody's twin.
LEMMA IdleNoTwin ==
    ASSUME MemoryTyped, NoTwin, NEW u \in Updates, OnlyStep(u), UNCHANGED <<graph, twinDoubt>>,
           ~Busy(update'[u])
    PROVE  NoTwin'
  <1>1. ~twinDoubt' => Unique(graph')
    BY NoTwinIs
  <1>2. \A k \in Key : Missing(graph, k) => Missing(graph', k)
    OBVIOUS
  <1>3. twinDoubt' \/ ~twinDoubt
    OBVIOUS
  <1> QED BY <1>1, <1>2, <1>3, NoTwinOfStep

LEMMA AnswerNoTwin ==
    ASSUME MemoryTyped, NoTwin, NEW u \in Updates, Answer(u)
    PROVE  NoTwin'
  <1>1. SoundUpdates(update) /\ Sound(update[u]) /\ update[u] \in Update
    BY DEF MemoryTyped, SoundUpdates, Sound
  <1>2. OnlyStep(u) /\ UNCHANGED graph
    BY AnswerTyped DEF Answer
  <1>3. ASSUME update' = Changed(update, u, Failed(update[u])), UNCHANGED twinDoubt
        PROVE  NoTwin'
    <2>1. Sound(Failed(update[u])) /\ Failed(update[u]).pc \in {"gaveup", "waiting"}
      BY <1>1, FailedSound
    <2>2. update'[u] = Failed(update[u])
      BY <1>1, <1>3, <2>1, ChangeOne
    <2>3. ~Busy(update'[u])
      BY <2>1, <2>2 DEF Busy
    <2> QED BY <1>2, <1>3, <2>3, IdleNoTwin
  <1>4. ASSUME NEW plan \in Plans, NEW todo \in Expansions(plan),
               update' = Changed(update, u, Onward(Answered(update[u], plan), todo, graph)),
               twinDoubt' = (twinDoubt \/ Overlaps(u, Onward(Answered(update[u], plan), todo, graph)))
        PROVE  NoTwin'
    <2> DEFINE old == Answered(update[u], plan)
               next == Onward(old, todo, graph)
    <2>1. plan \in Seq(Operation)
      BY MemoryAssumption
    <2>2. todo \in Seq(Statement) /\ old \in Update
      BY <1>1, <2>1, ExpansionsTyped, AnsweredIs
    <2> HIDE DEF old
    <2>3. Sound(next)
      BY <2>2, OnwardSound
    <2>4. ~Overlaps(u, next) /\ Busy(next) =>
             /\ \A k \in next.absent : Missing(graph, k)
             /\ \A v \in Updates : v # u /\ Busy(update[v]) =>
                   Keys(update[v]) \cap Keys(next) = {}
      BY <2>2, OnwardApart
    <2>5. update' = Changed(update, u, next) /\ (twinDoubt' <=> (twinDoubt \/ Overlaps(u, next)))
      BY <1>4 DEF old
    <2> HIDE DEF next
    <2>6. update'[u] = next
      BY <1>1, <2>3, <2>5, ChangeOne
    <2>7. ~twinDoubt' => Unique(graph')
      BY <1>2, <2>5, NoTwinIs
    <2>8. \A k \in Key : Missing(graph, k) => Missing(graph', k)
      BY <1>2
    <2>9. Busy(update'[u]) /\ ~twinDoubt' =>
             /\ \A k \in update'[u].absent : Missing(graph', k)
             /\ \A v \in Updates : v # u /\ Busy(update[v]) =>
                   Keys(update[v]) \cap Keys(update'[u]) = {}
      BY <1>2, <2>4, <2>5, <2>6
    <2>10. twinDoubt' \/ ~twinDoubt
      BY <2>5
    <2> QED BY <1>2, <2>7, <2>8, <2>9, <2>10, NoTwinOfStep
  <1> QED BY <1>3, <1>4, AnswerIs

LEMMA FailsNoTwin ==
    ASSUME MemoryTyped, NoTwin, NEW u \in Updates, update[u].pc \in {"writing", "cut"},
           NEW g, NEW others, FailsWith(u, g, others)
    PROVE  NoTwin'
  <1> DEFINE st == Head(update[u].todo)
  <1>1. WellFormed(graph) /\ Sound(update[u])
    BY DEF MemoryTyped
  <1>2. st \in Statement /\ update[u] \in Update
    BY <1>1, TodoTyped
  <1>3. Keys(update[u]) = MergedKeys(st) /\ Busy(update[u])
    BY DEF Keys, Busy
  <1>4. OnlyStep(u) /\ graph' = g /\ update'[u].pc \in {"gaveup", "waiting"}
    BY FailsTyped
  <1>5. /\ UNCHANGED twinDoubt
        /\ g = graph \/ (~Rejected(st) /\ Room(graph, st) /\ g = Executed(graph, st, {}))
    BY DEF FailsWith
  <1> HIDE DEF st
  <1>6. /\ Unique(graph) => Unique(g)
        /\ \A k \in Key : k \notin MergedKeys(st) /\ Missing(graph, k) => Missing(g, k)
    <2> DEFINE none == {}
    <2>1. g = graph \/ (~Rejected(st) /\ Room(graph, st) /\ g = Executed(graph, st, none))
      BY <1>5
    <2>2. none = {}
      OBVIOUS
    <2> HIDE DEF none
    <2> QED BY <1>1, <1>2, <2>1, <2>2, ExecutedUnique
  <1>7. ~twinDoubt' => Unique(graph')
    BY <1>4, <1>5, <1>6, NoTwinIs
  <1>8. \A k \in Key : Missing(graph, k) =>
           Missing(graph', k) \/ (Busy(update[u]) /\ k \in Keys(update[u]))
    BY <1>3, <1>4, <1>6
  <1>9. ~Busy(update'[u]) /\ (twinDoubt' \/ ~twinDoubt)
    BY <1>4, <1>5 DEF Busy
  <1> QED BY <1>4, <1>7, <1>8, <1>9, NoTwinOfStep

LEMMA StepNoTwin ==
    ASSUME MemoryTyped, NoTwin, NEW u \in Updates, Step(u)
    PROVE  NoTwin'
  <1>1. CASE FailStatement(u) \/ Land(u)
    BY <1>1, FailStatementIs, LandIs, FailsNoTwin
  <1>2. CASE Retry(u)
    BY <1>2, RetryTyped, IdleNoTwin DEF Busy
  <1> QED BY <1>1, <1>2, AnswerNoTwin, ExecuteNoTwin DEF Step

\* A step in which no update begins a statement and the graph gains no node.
LEMMA CalmNoTwin ==
    ASSUME NoTwin, UNCHANGED twinDoubt, graph'.nodes \subseteq graph.nodes,
           \A u \in Updates : Busy(update'[u]) => Busy(update[u]) /\ update'[u].todo = update[u].todo,
           \A u \in Updates : update'[u].pc = "writing" => Same(update'[u], update[u])
    PROVE  NoTwin'
  <1> SUFFICES ASSUME ~twinDoubt'
               PROVE  /\ Unique(graph')
                      /\ \A v \in Updates : update'[v].pc = "writing" =>
                            \A k \in update'[v].absent : Missing(graph', k)
                      /\ \A v, w \in Updates : v # w /\ Busy(update'[v]) /\ Busy(update'[w]) =>
                            Keys(update'[v]) \cap Keys(update'[w]) = {}
    BY NoTwinNext
  <1>1. /\ Unique(graph)
        /\ \A v \in Updates : update[v].pc = "writing" =>
              \A k \in update[v].absent : Missing(graph, k)
        /\ \A v, w \in Updates : v # w /\ Busy(update[v]) /\ Busy(update[w]) =>
              Keys(update[v]) \cap Keys(update[w]) = {}
    BY NoTwinIs
  <1>2. Unique(graph') /\ \A k : Missing(graph, k) => Missing(graph', k)
    BY <1>1 DEF Unique, Missing
  <1>3. \A v \in Updates : Busy(update'[v]) => Keys(update'[v]) = Keys(update[v])
    BY DEF Keys
  <1>4. \A v \in Updates : update'[v].pc = "writing" =>
           update[v].pc = "writing" /\ update'[v].absent = update[v].absent
    BY DEF Same
  <1> QED BY <1>1, <1>2, <1>3, <1>4

LEMMA RelsOnly ==
    ASSUME NEW g, WellFormed(g)
    PROVE  \A x : [g EXCEPT !.rels = x].nodes = g.nodes
  <1>1. \A x : [g EXCEPT !.rels = x] = [nodes |-> g.nodes, rels |-> x]
    BY FieldsOfGraph DEF WellFormed
  <1> QED BY <1>1

LEMMA ByHandNoTwin == ASSUME MemoryTyped, NoTwin, ByHand PROVE NoTwin'
  <1>1. \A u \in Updates : Same(update'[u], update[u])
    BY ByHandTyped
  <1>2. CASE twinDoubt'
    BY <1>2 DEF NoTwin
  <1>3. CASE ~twinDoubt'
    <2>1. ASSUME NEW g, g.nodes \subseteq graph.nodes, Write(g, update, Updates), UNCHANGED twinDoubt
          PROVE  NoTwin'
      <3>1. graph'.nodes \subseteq graph.nodes
        BY <2>1 DEF Write
      <3> QED BY <1>1, <2>1, <3>1, CalmNoTwin DEF Busy, Same
    <2>2. CASE DeleteMemoryNode
      <3>1. PICK n \in graph.nodes : Write(DetachDelete(graph, {n.id}), update, Updates)
        BY <2>2 DEF DeleteMemoryNode
      <3>2. DetachDelete(graph, {n.id}).nodes \subseteq graph.nodes
        BY DEF DetachDelete
      <3> QED BY <2>1, <2>2, <3>1, <3>2 DEF DeleteMemoryNode
    <2>3. CASE CreateMemoryRelationship
      <3>1. PICK m \in graph.nodes, n \in graph.nodes, raw \in RawTypes :
                  Write(AddRelation(graph, m.id, Sanitize(raw), n.id), update, Updates)
        BY <2>3 DEF CreateMemoryRelationship
      <3>2. AddRelation(graph, m.id, Sanitize(raw), n.id).nodes \subseteq graph.nodes
        BY RelsOnly DEF AddRelation, MemoryTyped
      <3> QED BY <2>1, <2>3, <3>1, <3>2 DEF CreateMemoryRelationship
    <2>4. CASE DeleteMemoryRelationship
      <3>1. PICK r \in graph.rels : Write(DropRelations(graph, {r}), update, Updates)
        BY <2>4 DEF DeleteMemoryRelationship
      <3>2. DropRelations(graph, {r}).nodes \subseteq graph.nodes
        BY RelsOnly DEF DropRelations, MemoryTyped
      <3> QED BY <2>1, <2>4, <3>1, <3>2 DEF DeleteMemoryRelationship
    <2>5. ~CreateMemoryNode /\ ~UpdateMemoryNode
      BY <1>3 DEF CreateMemoryNode, UpdateMemoryNode
    <2> QED BY <2>2, <2>3, <2>4, <2>5 DEF ByHand
  <1> QED BY <1>2, <1>3

\* While the actor starts there are no updates, and the graph alone counts.
LEMMA BootNoTwin ==
    ASSUME MemoryTyped, AloneAtStart, NoTwin, Boot
    PROVE  NoTwin'
  <1>1. WellFormed(graph) /\ aiName \in Names
    BY DEF MemoryTyped
  <1>2. UNCHANGED update /\ actor \in Booting
    BY DEF Boot, InitRoot, GetRootName, ExtractName, StoreName, Booting
  <1>3. \A u \in Updates : ~Busy(update[u])
    BY <1>2 DEF AloneAtStart, Busy, Active
  <1>4. \A u \in Updates : update[u].pc # "writing"
    BY <1>3 DEF Busy
  <1> SUFFICES ASSUME ~twinDoubt' PROVE Unique(graph')
    BY <1>2, <1>3, <1>4, NoTwinNext
  <1>5. ~twinDoubt
    BY DEF Boot, InitRoot, GetRootName, ExtractName, StoreName
  <1>6. Unique(graph)
    BY <1>5, NoTwinIs
  <1>7. CASE InitRoot
    <2>1. IF Roots(graph) = {} THEN CreateRoot ELSE UNCHANGED graph
      BY <1>7 DEF InitRoot
    <2>2. CASE Roots(graph) = {}
      <3> DEFINE k == [label |-> Root, name |-> Wo]
      <3>1. k \in Key /\ k.label = Root
        BY StoreAssumption DEF Key
      <3>2. graph' = AddNode(graph, k) /\ Ids(graph.nodes) # NodeIds
        BY <2>1, <2>2 DEF CreateRoot
      <3> HIDE DEF k
      <3>3. Missing(graph, k)
        BY <2>2, <3>1 DEF Roots, Missing
      <3> QED BY <1>1, <1>6, <3>1, <3>2, <3>3, AddNodeUnique
    <2>3. CASE Roots(graph) # {}
      BY <1>6, <2>1, <2>3
    <2> QED BY <2>2, <2>3
  <1>8. CASE GetRootName \/ ExtractName
    BY <1>6, <1>8 DEF GetRootName, ExtractName
  <1>9. CASE StoreName
    <2> DEFINE ids == Ids(Roots(graph))
               new(n) == [id |-> n.id, label |-> n.label, name |-> aiName]
    <2>1. CASE UNCHANGED graph
      BY <1>6, <2>1
    <2>2. CASE /\ graph' = Rename(graph, ids, aiName)
               /\ \A m, n \in Roots(graph) : m = n
      <3>1. graph'.nodes = {IF n.id \in ids THEN new(n) ELSE n : n \in graph.nodes}
        BY <1>1, <2>2, RenameRenames
      <3>2. \A n \in graph.nodes : n.id \in ids <=> n.label = Root
        BY <1>1 DEF Ids, Roots, WellFormed
      <3>3. \A n : new(n).label = n.label /\ new(n).name = aiName
        OBVIOUS
      <3>4. \A m, n \in graph.nodes : m.label = Root /\ n.label = Root => m = n
        BY <2>2 DEF Roots
      <3> HIDE DEF ids, new
      <3>5. \A m \in graph'.nodes : \E n \in graph.nodes :
               /\ m.label = n.label
               /\ \/ n.label = Root /\ m = new(n)
                  \/ n.label # Root /\ m = n
        BY <3>1, <3>2, <3>3
      <3> SUFFICES ASSUME NEW m1 \in graph'.nodes, NEW m2 \in graph'.nodes, m1.name # NoName,
                          m1.label = m2.label, m1.name = m2.name
                   PROVE  m1 = m2
        BY DEF Unique
      <3>6. PICK n1 \in graph.nodes :
               /\ m1.label = n1.label
               /\ \/ n1.label = Root /\ m1 = new(n1)
                  \/ n1.label # Root /\ m1 = n1
        BY <3>5
      <3>7. PICK n2 \in graph.nodes :
               /\ m2.label = n2.label
               /\ \/ n2.label = Root /\ m2 = new(n2)
                  \/ n2.label # Root /\ m2 = n2
        BY <3>5
      <3>8. CASE n1.label = Root
        BY <3>4, <3>6, <3>7, <3>8
      <3>9. CASE n1.label # Root
        BY <1>6, <3>6, <3>7, <3>9 DEF Unique
      <3> QED BY <3>8, <3>9
    <2>3. \/ UNCHANGED graph
          \/ graph' = Rename(graph, ids, aiName) /\ \A m, n \in Roots(graph) : m = n
      BY <1>9 DEF StoreName
    <2> QED BY <2>1, <2>2, <2>3
  <1> QED BY <1>7, <1>8, <1>9 DEF Boot

LEMMA NoTwinStep ==
    MemoryTyped /\ AloneAtStart /\ NoTwin /\ [MemoryNext]_memoryVars => NoTwin'
  <1> SUFFICES ASSUME MemoryTyped, AloneAtStart, NoTwin, [MemoryNext]_memoryVars PROVE NoTwin'
    OBVIOUS
  <1>1. CASE Boot
    BY <1>1, BootNoTwin
  <1>2. CASE QueryPanics
    <2>1. \A u \in Updates : update'[u] = Orphaned(update[u])
      BY <1>2, QueryPanicsTyped
    <2>2. UNCHANGED <<graph, twinDoubt>>
      BY <1>2, QueryPanicsTyped
    <2>3. \A u \in Updates :
             /\ Busy(update'[u]) => Busy(update[u]) /\ update'[u].todo = update[u].todo
             /\ update'[u].pc # "writing"
      BY <2>1, OrphanedSound DEF MemoryTyped, Busy
    <2> QED BY <2>2, <2>3, CalmNoTwin
  <1>3. CASE ByHand
    BY <1>3, ByHandNoTwin
  <1>4. CASE Crash
    <2>1. UNCHANGED <<graph, twinDoubt>> /\ \A u \in Updates : ~Busy(update'[u])
      BY <1>4, CrashTyped DEF Busy, Active
    <2> QED BY <2>1, CalmNoTwin DEF Busy
  <1>5. CASE Settled \/ UNCHANGED memoryVars
    <2>1. UNCHANGED <<graph, twinDoubt, update>>
      BY <1>5 DEF Settled, memoryVars
    <2> QED BY <2>1, CalmNoTwin DEF Same
  <1>6. ASSUME NEW u \in Updates, StartUpdate(u) PROVE NoTwin'
    <2>1. OnlyStep(u) /\ ~Busy(update'[u])
      BY <1>6, StartUpdateTyped DEF OnlyStep, Same, Busy
    <2> QED BY <1>6, <2>1, IdleNoTwin DEF StartUpdate
  <1>7. ASSUME NEW u \in Updates, Step(u) PROVE NoTwin'
    BY <1>7, StepNoTwin
  <1> QED BY <1>1, <1>2, <1>3, <1>4, <1>5, <1>6, <1>7 DEF MemoryNext

-----------------------------------------------------------------------------
(* What a statement makes of the summary of a graph.                        *)

LEMMA SameSummary ==
    ASSUME NEW s \in Summaries, NEW t \in Summaries,
           \A x \in Atom : Says(s, x) <=> Says(t, x)
    PROVE  s = t
  <1>1. RelatedTo \in Types
    BY DEF RelatedTo, Types
  <1>2. /\ s.entities \subseteq Thing /\ t.entities \subseteq Thing
        /\ s.facts \subseteq Thing \X Types \X Thing /\ t.facts \subseteq Thing \X Types \X Thing
    BY DEF Summaries
  <1>3. ASSUME NEW e \in Thing PROVE e \in s.entities <=> e \in t.entities
    <2> DEFINE x == [kind |-> "entity", a |-> e, t |-> RelatedTo, b |-> e]
    <2>1. x \in Atom /\ x.kind = "entity" /\ x.a = e
      BY <1>1 DEF Atom
    <2> HIDE DEF x
    <2> QED BY <2>1 DEF Says
  <1>4. ASSUME NEW f \in Thing \X Types \X Thing PROVE f \in s.facts <=> f \in t.facts
    <2> DEFINE x == [kind |-> "fact", a |-> f[1], t |-> f[2], b |-> f[3]]
    <2>1. x \in Atom /\ x.kind = "fact" /\ <<x.a, x.t, x.b>> = f
      BY DEF Atom
    <2> HIDE DEF x
    <2> QED BY <2>1 DEF Says
  <1>5. s.entities = t.entities /\ s.facts = t.facts
    BY <1>2, <1>3, <1>4
  <1> QED BY <1>5 DEF Summaries

\* There is an entity, or a fact, when there are nodes, or a relation, of it.
Entity(g, e) == \E n \in g.nodes : Shown(n) = e
Fact(g, a, t, b) ==
    \E r \in g.rels, m \in g.nodes, n \in g.nodes :
        m.id = r.from /\ n.id = r.to /\ Shown(m) = a /\ r.type = t /\ Shown(n) = b

LEMMA SaysIs ==
    ASSUME NEW g, WellFormed(g), NEW x \in Atom
    PROVE  Says(Summary(g), x) <=>
              IF x.kind = "fact" THEN Fact(g, x.a, x.t, x.b) ELSE Entity(g, x.a)
  <1>1. /\ Summary(g).entities = {Shown(n) : n \in g.nodes}
        /\ Summary(g).facts = {<<Shown(NodeOf(g, r.from)), r.type, Shown(NodeOf(g, r.to))>> :
                                  r \in g.rels}
    BY SummaryTyped
  <1>2. x.a \in Summary(g).entities <=> Entity(g, x.a)
    BY <1>1 DEF Entity
  <1>3. ASSUME NEW r \in g.rels
        PROVE  \E m \in g.nodes, n \in g.nodes :
                  /\ m.id = r.from /\ n.id = r.to
                  /\ NodeOf(g, r.from) = m /\ NodeOf(g, r.to) = n
    BY NodeOfId DEF WellFormed, Ids
  <1>4. <<x.a, x.t, x.b>> \in Summary(g).facts <=> Fact(g, x.a, x.t, x.b)
    <2>1. ASSUME <<x.a, x.t, x.b>> \in Summary(g).facts PROVE Fact(g, x.a, x.t, x.b)
      <3>1. PICK r \in g.rels :
                  <<x.a, x.t, x.b>> = <<Shown(NodeOf(g, r.from)), r.type, Shown(NodeOf(g, r.to))>>
        BY <1>1, <2>1
      <3>2. x.a = Shown(NodeOf(g, r.from)) /\ x.t = r.type /\ x.b = Shown(NodeOf(g, r.to))
        BY <3>1
      <3> QED BY <1>3, <3>2 DEF Fact
    <2>2. ASSUME Fact(g, x.a, x.t, x.b) PROVE <<x.a, x.t, x.b>> \in Summary(g).facts
      <3>1. PICK r \in g.rels, m \in g.nodes, n \in g.nodes :
                  m.id = r.from /\ n.id = r.to /\ Shown(m) = x.a /\ r.type = x.t /\ Shown(n) = x.b
        BY <2>2 DEF Fact
      <3>2. NodeOf(g, r.from) = m /\ NodeOf(g, r.to) = n
        BY <3>1, NodeOfId
      <3>3. <<x.a, x.t, x.b>> = <<Shown(NodeOf(g, r.from)), r.type, Shown(NodeOf(g, r.to))>>
        BY <3>1, <3>2
      <3> QED BY <1>1, <3>3
    <2> QED BY <2>1, <2>2
  <1> QED BY <1>2, <1>4 DEF Says

LEMMA MatchingShown ==
    ASSUME NEW g, NEW k \in Key
    PROVE  \A n : n \in Matching(g, k) <=> n \in g.nodes /\ Shown(n) = k
  <1>1. k = [label |-> k.label, name |-> k.name]
    BY DEF Key
  <1>2. \A n : Shown(n) = [label |-> n.label, name |-> n.name]
    BY DEF Shown
  <1>3. \A n : n.label = k.label /\ n.name = k.name => Shown(n) = k
    BY <1>1, <1>2
  <1>4. \A n : Shown(n).label = n.label /\ Shown(n).name = n.name
    BY <1>2
  <1>5. \A n : Shown(n) = k => n.label = k.label /\ n.name = k.name
    BY <1>4
  <1> QED BY <1>3, <1>5 DEF Matching

\* The end of a relation is not new.
LEMMA EndsAreOld ==
    ASSUME NEW g, WellFormed(g), NEW h, WellFormed(h), g.nodes \subseteq h.nodes,
           NEW r \in g.rels, NEW n \in h.nodes, n.id \in {r.from, r.to}
    PROVE  n \in g.nodes
  <1>1. PICK m \in g.nodes : m.id = n.id
    BY DEF WellFormed, Ids
  <1> QED BY <1>1 DEF WellFormed

LEMMA MergeNodeSays ==
    ASSUME NEW g, WellFormed(g), NEW k \in Key, Ids(g.nodes) # NodeIds
    PROVE  /\ \A e : Entity(MergeNode(g, k, {}), e) <=> e = k \/ Entity(g, e)
           /\ Merged(g, k, {}) # {} /\ Merged(g, k, {}) \subseteq MergeNode(g, k, {}).nodes
           /\ \A n \in Merged(g, k, {}) : Shown(n) = k
  <1>1. CASE Matching(g, k) = {}
    <2>1. PICK i \in NodeIds \ Ids(g.nodes) :
                /\ AddNode(g, k).nodes =
                      g.nodes \cup {[id |-> i, label |-> k.label, name |-> k.name]}
                /\ AddNode(g, k).rels = g.rels
                /\ AddNode(g, k) \in Graph
      BY AddNodeAdds
    <2> DEFINE new == [id |-> i, label |-> k.label, name |-> k.name]
               h == MergeNode(g, k, {})
    <2>2. new.id = i /\ Shown(new) = k
      BY DEF Shown, Key
    <2>3. h.nodes = g.nodes \cup {new} /\ Merged(g, k, {}) = IF h.nodes \ g.nodes = {} THEN {} ELSE h.nodes \ g.nodes
      BY <1>1, <2>1 DEF MergeNode, Merged
    <2>4. new \notin g.nodes
      BY <2>2 DEF Ids
    <2> HIDE DEF new, h
    <2>5. Merged(g, k, {}) = {new}
      BY <2>3, <2>4
    <2> QED BY <2>2, <2>3, <2>5 DEF Entity, h
  <1>2. CASE Matching(g, k) # {}
    <2>1. MergeNode(g, k, {}) = g /\ Merged(g, k, {}) = Matching(g, k)
      BY <1>2 DEF MergeNode, Merged
    <2> QED BY <1>2, <2>1, MatchingShown DEF Entity
  <1> QED BY <1>1, <1>2

\* Nodes that are added change no facts.
LEMMA AddedNodesSay ==
    ASSUME NEW g, WellFormed(g), NEW h, WellFormed(h), g.nodes \subseteq h.nodes, h.rels = g.rels
    PROVE  \A a, t, b : Fact(h, a, t, b) <=> Fact(g, a, t, b)
  <1> SUFFICES ASSUME NEW a, NEW t, NEW b PROVE Fact(h, a, t, b) <=> Fact(g, a, t, b)
    OBVIOUS
  <1>1. ASSUME Fact(h, a, t, b) PROVE Fact(g, a, t, b)
    <2>1. PICK r \in h.rels, m \in h.nodes, n \in h.nodes :
                m.id = r.from /\ n.id = r.to /\ Shown(m) = a /\ r.type = t /\ Shown(n) = b
      BY <1>1 DEF Fact
    <2>2. m \in g.nodes /\ n \in g.nodes
      BY <2>1, EndsAreOld
    <2> QED BY <2>1, <2>2 DEF Fact
  <1>2. ASSUME Fact(g, a, t, b) PROVE Fact(h, a, t, b)
    BY <1>2 DEF Fact
  <1> QED BY <1>1, <1>2

\* The nodes and the relations of a graph after a relation was merged.
LEMMA MergeRelationIs ==
    ASSUME NEW g, WellFormed(g), NEW a \in Key, NEW b \in Key, NEW t,
           \E i, j \in NodeIds \ Ids(g.nodes) : i # j
    PROVE  LET g1 == MergeNode(g, a, {})
               g2 == MergeNode(g1, b, {})
               h == MergeRelation(g, a, t, b, {})
               ends == Ids(Merged(g, a, {})) \X Ids(Merged(g1, b, {}))
           IN  /\ WellFormed(g1) /\ Ids(g1.nodes) # NodeIds /\ g1.rels = g.rels
               /\ WellFormed(g2) /\ g.nodes \subseteq g1.nodes /\ g1.nodes \subseteq g2.nodes
               /\ h.nodes = g2.nodes
               /\ \A r \in h.rels : r \in g.rels \/ (r.type = t /\ <<r.from, r.to>> \in ends)
               /\ g.rels \subseteq h.rels
               /\ \A p \in ends : \E r \in h.rels : r.from = p[1] /\ r.type = t /\ r.to = p[2]
  <1> DEFINE none == {}
             g1 == MergeNode(g, a, none)
             g2 == MergeNode(g1, b, none)
             h == MergeRelation(g, a, t, b, none)
             ends == Ids(Merged(g, a, none)) \X Ids(Merged(g1, b, none))
             new == {p \in ends : ~ \E r \in g.rels : r.from = p[1] /\ r.type = t /\ r.to = p[2]}
             rels == {[from |-> p[1], type |-> t, to |-> p[2], nr |-> 1] : p \in new}
  <1>0. none \ {a} = none
    OBVIOUS
  <1>00. none = {}
    OBVIOUS
  <1> HIDE DEF none
  <1>1. WellFormed(g1) /\ g1.rels = g.rels /\ g.nodes \subseteq g1.nodes
    BY MergeNodeOK
  <1>2. Ids(g1.nodes) # NodeIds
    BY MergeTakesOne
  <1>3. h = [g2 EXCEPT !.rels = g2.rels \cup rels]
    BY <1>0 DEF MergeRelation
  <1> HIDE DEF g1
  <1>4. WellFormed(g2) /\ g2.rels = g1.rels /\ g1.nodes \subseteq g2.nodes
    BY <1>1, <1>2, MergeNodeOK
  <1> HIDE DEF g2, h
  <1>5. h = [nodes |-> g2.nodes, rels |-> g2.rels \cup rels]
    BY <1>3, <1>4, FieldsOfGraph DEF WellFormed
  <1>6. h.nodes = g2.nodes /\ h.rels = g.rels \cup rels
    BY <1>1, <1>4, <1>5
  <1> HIDE DEF ends
  <1>7. \A r \in rels : r.type = t /\ <<r.from, r.to>> \in ends
    <2> SUFFICES ASSUME NEW p \in new
                 PROVE  LET r == [from |-> p[1], type |-> t, to |-> p[2], nr |-> 1]
                        IN  r.type = t /\ <<r.from, r.to>> \in ends
      OBVIOUS
    <2>1. p \in ends /\ p = <<p[1], p[2]>>
      BY DEF ends
    <2> QED BY <2>1
  <1>8. ASSUME NEW p \in ends
        PROVE  \E r \in h.rels : r.from = p[1] /\ r.type = t /\ r.to = p[2]
    <2>1. CASE p \in new
      <3>1. [from |-> p[1], type |-> t, to |-> p[2], nr |-> 1] \in rels
        BY <2>1
      <3> HIDE DEF rels
      <3> QED BY <1>6, <3>1
    <2>2. CASE p \notin new
      <3>1. \E r \in g.rels : r.from = p[1] /\ r.type = t /\ r.to = p[2]
        BY <2>2
      <3> QED BY <1>6, <3>1
    <2> QED BY <2>1, <2>2
  <1> HIDE DEF rels
  <1> QED BY <1>00, <1>1, <1>2, <1>4, <1>6, <1>7, <1>8 DEF g1, g2, h, ends

LEMMA MergeRelationSays ==
    ASSUME NEW g, WellFormed(g), NEW a \in Key, NEW b \in Key, NEW t, Plain(t),
           \E i, j \in NodeIds \ Ids(g.nodes) : i # j
    PROVE  LET h == MergeRelation(g, a, t, b, {})
           IN  /\ \A e : Entity(h, e) <=> e \in {a, b} \/ Entity(g, e)
               /\ \A x, y, z : Fact(h, x, y, z) <=> (x = a /\ y = t /\ z = b) \/ Fact(g, x, y, z)
  <1> DEFINE g1 == MergeNode(g, a, {})
             g2 == MergeNode(g1, b, {})
             h == MergeRelation(g, a, t, b, {})
             A == Merged(g, a, {})
             B == Merged(g1, b, {})
  <1>1. /\ WellFormed(g1) /\ Ids(g1.nodes) # NodeIds
        /\ WellFormed(g2) /\ g.nodes \subseteq g1.nodes /\ g1.nodes \subseteq g2.nodes
        /\ h.nodes = g2.nodes /\ g.rels \subseteq h.rels
        /\ \A r \in h.rels : r \in g.rels \/ (r.type = t /\ <<r.from, r.to>> \in Ids(A) \X Ids(B))
        /\ \A p \in Ids(A) \X Ids(B) : \E r \in h.rels : r.from = p[1] /\ r.type = t /\ r.to = p[2]
    BY MergeRelationIs
  <1>2. Ids(g.nodes) # NodeIds
    <2>1. PICK i \in NodeIds : i \notin Ids(g.nodes)
      OBVIOUS
    <2> QED BY <2>1
  <1>3. /\ \A e : Entity(g1, e) <=> e = a \/ Entity(g, e)
        /\ A # {} /\ A \subseteq g1.nodes /\ \A n \in A : Shown(n) = a
    BY <1>2, MergeNodeSays
  <1>4. WellFormed(h)
    <2> DEFINE none == {}
    <2> HIDE DEF none
    <2>1. WellFormed(MergeRelation(g, a, t, b, none))
      BY MergeRelationOK
    <2> QED BY <2>1 DEF none
  <1> HIDE DEF g1, A
  <1>5. /\ \A e : Entity(g2, e) <=> e = b \/ Entity(g1, e)
        /\ B # {} /\ B \subseteq g2.nodes /\ \A n \in B : Shown(n) = b
    BY <1>1, MergeNodeSays
  <1> HIDE DEF g2, h, B
  <1>6. \A e : Entity(h, e) <=> e \in {a, b} \/ Entity(g, e)
    BY <1>1, <1>3, <1>5 DEF Entity
  <1>7. ASSUME NEW x, NEW y, NEW z, Fact(h, x, y, z)
        PROVE  (x = a /\ y = t /\ z = b) \/ Fact(g, x, y, z)
    <2>1. PICK r \in h.rels, m \in h.nodes, n \in h.nodes :
                m.id = r.from /\ n.id = r.to /\ Shown(m) = x /\ r.type = y /\ Shown(n) = z
      BY <1>7 DEF Fact
    <2>2. CASE r \in g.rels
      <3>1. m \in g.nodes /\ n \in g.nodes
        BY <1>1, <1>4, <2>1, <2>2, EndsAreOld
      <3> QED BY <2>1, <2>2, <3>1 DEF Fact
    <2>3. CASE r.type = t /\ <<r.from, r.to>> \in Ids(A) \X Ids(B)
      <3>1. PICK c \in A, d \in B : c.id = r.from /\ d.id = r.to
        BY <2>3 DEF Ids
      <3>2. c \in h.nodes /\ d \in h.nodes
        BY <1>1, <1>3, <1>5
      <3>3. m = c /\ n = d
        BY <1>4, <2>1, <3>1, <3>2 DEF WellFormed
      <3> QED BY <1>3, <1>5, <2>1, <2>3, <3>3
    <2> QED BY <1>1, <2>2, <2>3
  <1>8. ASSUME NEW x, NEW y, NEW z, Fact(g, x, y, z) PROVE Fact(h, x, y, z)
    BY <1>1, <1>8 DEF Fact
  <1>9. Fact(h, a, t, b)
    <2>1. PICK c \in A, d \in B : TRUE
      BY <1>3, <1>5
    <2>2. <<c.id, d.id>> \in Ids(A) \X Ids(B)
      BY DEF Ids
    <2>3. PICK r \in h.rels : r.from = c.id /\ r.type = t /\ r.to = d.id
      BY <1>1, <2>2
    <2>4. c \in h.nodes /\ d \in h.nodes
      BY <1>1, <1>3, <1>5
    <2>5. Shown(c) = a /\ Shown(d) = b
      BY <1>3, <1>5
    <2> QED BY <2>3, <2>4, <2>5 DEF Fact
  <1> QED BY <1>6, <1>7, <1>8, <1>9 DEF h

LEMMA DetachDeleteSays ==
    ASSUME NEW g, WellFormed(g), NEW k \in Key
    PROVE  LET h == DetachDelete(g, Ids(Matching(g, k)))
           IN  /\ \A e : Entity(h, e) <=> e # k /\ Entity(g, e)
               /\ \A x, y, z : Fact(h, x, y, z) <=> x # k /\ z # k /\ Fact(g, x, y, z)
  <1> DEFINE ids == Ids(Matching(g, k))
             h == DetachDelete(g, ids)
  <1>1. /\ h.nodes = {n \in g.nodes : n.id \notin ids}
        /\ h.rels = {r \in g.rels : r.from \notin ids /\ r.to \notin ids}
    BY DEF DetachDelete
  <1>2. \A n \in g.nodes : n.id \in ids <=> Shown(n) = k
    BY MatchingShown DEF Ids, WellFormed
  <1> HIDE DEF h, ids
  <1>3. \A n : n \in h.nodes <=> n \in g.nodes /\ Shown(n) # k
    BY <1>1, <1>2
  <1>4. \A e : Entity(h, e) <=> e # k /\ Entity(g, e)
    BY <1>3 DEF Entity
  <1>5. \A x, y, z : Fact(h, x, y, z) <=> x # k /\ z # k /\ Fact(g, x, y, z)
    <2> SUFFICES ASSUME NEW x, NEW y, NEW z
                 PROVE  Fact(h, x, y, z) <=> x # k /\ z # k /\ Fact(g, x, y, z)
      OBVIOUS
    <2>1. ASSUME Fact(h, x, y, z) PROVE x # k /\ z # k /\ Fact(g, x, y, z)
      BY <1>1, <1>3, <2>1 DEF Fact
    <2>2. ASSUME x # k, z # k, Fact(g, x, y, z) PROVE Fact(h, x, y, z)
      <3>1. PICK r \in g.rels, m \in g.nodes, n \in g.nodes :
                  m.id = r.from /\ n.id = r.to /\ Shown(m) = x /\ r.type = y /\ Shown(n) = z
        BY <2>2 DEF Fact
      <3>2. m \in h.nodes /\ n \in h.nodes /\ r \in h.rels
        BY <1>1, <1>2, <2>2, <3>1
      <3> QED BY <3>1, <3>2 DEF Fact
    <2> QED BY <2>1, <2>2
  <1> QED BY <1>4, <1>5 DEF h, ids

LEMMA UnrelateSays ==
    ASSUME NEW g, WellFormed(g), NEW a \in Key, NEW b \in Key, NEW t
    PROVE  LET h == DropRelations(g, Between(g, a, t, b))
           IN  /\ \A e : Entity(h, e) <=> Entity(g, e)
               /\ \A x, y, z : Fact(h, x, y, z) <=> ~(x = a /\ y = t /\ z = b) /\ Fact(g, x, y, z)
  <1> DEFINE rs == Between(g, a, t, b)
             h == DropRelations(g, rs)
  <1>1. h = [nodes |-> g.nodes, rels |-> g.rels \ rs]
    BY FieldsOfGraph DEF WellFormed, DropRelations
  <1>2. h.nodes = g.nodes /\ h.rels = g.rels \ rs
    BY <1>1
  <1>3. ASSUME NEW r \in g.rels, NEW m \in g.nodes, NEW n \in g.nodes, m.id = r.from, n.id = r.to
        PROVE  r \in rs <=> Shown(m) = a /\ r.type = t /\ Shown(n) = b
    <2>1. r.from \in Ids(Matching(g, a)) <=> Shown(m) = a
      BY <1>3, MatchingShown DEF Ids, WellFormed
    <2>2. r.to \in Ids(Matching(g, b)) <=> Shown(n) = b
      BY <1>3, MatchingShown DEF Ids, WellFormed
    <2> QED BY <2>1, <2>2 DEF Between
  <1> HIDE DEF rs, h
  <1>4. \A e : Entity(h, e) <=> Entity(g, e)
    BY <1>2 DEF Entity
  <1>5. \A x, y, z : Fact(h, x, y, z) <=> ~(x = a /\ y = t /\ z = b) /\ Fact(g, x, y, z)
    BY <1>2, <1>3 DEF Fact
  <1> QED BY <1>4, <1>5 DEF h, rs

\* A statement that nobody interferes with does what it decides, and nothing else.
LEMMA ExecutedSays ==
    ASSUME NEW g, WellFormed(g), NEW st \in Statement, ~Rejected(st), Room(g, st), ~Unnaming(st),
           NEW x \in Atom
    PROVE  Says(Summary(Executed(g, st, {})), x) <=>
              IF Decides(st, x) THEN Gains(st, x) ELSE Says(Summary(g), x)
  <1> DEFINE h == Executed(g, st, {})
  <1>1. st.a \in Key /\ st.b \in Key
    BY DEF Statement
  <1>2. WellFormed(h)
    <2> DEFINE none == {}
    <2> HIDE DEF none
    <2>1. WellFormed(Executed(g, st, none))
      BY ExecutedOK
    <2> QED BY <2>1 DEF none
  <1>3. x.kind \in {"entity", "fact"}
    BY DEF Atom
  <1>4. CASE st.do = "merge"
    <2>1. MergedKeys(st) = {st.a} /\ h = MergeNode(g, st.a, {})
      BY <1>4 DEF MergedKeys, Executed
    <2>2. Ids(g.nodes) # NodeIds
      BY <2>1, RoomIsRoom
    <2>3. \A e : Entity(h, e) <=> e = st.a \/ Entity(g, e)
      BY <1>1, <2>1, <2>2, MergeNodeSays
    <2>4. g.nodes \subseteq h.nodes /\ h.rels = g.rels
      <3> DEFINE none == {}
      <3> HIDE DEF none
      <3>1. /\ MergeNode(g, st.a, none).rels = g.rels
            /\ g.nodes \subseteq MergeNode(g, st.a, none).nodes
        BY <1>1, <2>2, MergeNodeOK
      <3> QED BY <2>1, <3>1 DEF none
    <2> HIDE DEF h
    <2>5. \A a, t, b : Fact(h, a, t, b) <=> Fact(g, a, t, b)
      BY <1>2, <2>4, AddedNodesSay
    <2>6. Decides(st, x) <=> x.kind = "entity" /\ x.a = st.a
      BY <1>4, <2>1 DEF Decides, Gains, Loses
    <2>7. Gains(st, x) <=> x.kind = "entity" /\ x.a = st.a
      BY <1>4, <2>1 DEF Gains
    <2> QED BY <1>2, <1>3, <2>3, <2>5, <2>6, <2>7, SaysIs DEF h
  <1>5. CASE st.do = "relate"
    <2>1. MergedKeys(st) = {st.a, st.b} /\ h = MergeRelation(g, st.a, st.t, st.b, {}) /\ Plain(st.t)
      BY <1>5 DEF MergedKeys, Executed, Rejected
    <2>2. \E i, j \in NodeIds \ Ids(g.nodes) : i # j
      BY <2>1, RoomIsRoom
    <2>3. /\ \A e : Entity(h, e) <=> e \in {st.a, st.b} \/ Entity(g, e)
          /\ \A y, t, z : Fact(h, y, t, z) <=> (y = st.a /\ t = st.t /\ z = st.b) \/ Fact(g, y, t, z)
      BY <1>1, <2>1, <2>2, MergeRelationSays
    <2> HIDE DEF h
    <2>4. Gains(st, x) <=> \/ x.kind = "entity" /\ x.a \in {st.a, st.b}
                           \/ x.kind = "fact" /\ x.a = st.a /\ x.t = st.t /\ x.b = st.b
      BY <1>5, <2>1 DEF Gains
    <2>5. Decides(st, x) <=> Gains(st, x)
      BY <1>5 DEF Decides, Loses
    <2> QED BY <1>2, <1>3, <2>3, <2>4, <2>5, SaysIs DEF h
  <1>6. CASE st.do = "delete"
    <2>1. h = DetachDelete(g, Ids(Matching(g, st.a))) /\ MergedKeys(st) = {}
      BY <1>6 DEF Executed, MergedKeys
    <2>2. /\ \A e : Entity(h, e) <=> e # st.a /\ Entity(g, e)
          /\ \A y, t, z : Fact(h, y, t, z) <=> y # st.a /\ z # st.a /\ Fact(g, y, t, z)
      BY <1>1, <2>1, DetachDeleteSays
    <2> HIDE DEF h
    <2>3. ~Gains(st, x)
      BY <1>6, <2>1 DEF Gains
    <2>4. Decides(st, x) <=> x.a = st.a \/ (x.kind = "fact" /\ x.b = st.a)
      BY <1>6, <2>3 DEF Decides, Loses
    <2> QED BY <1>2, <1>3, <2>2, <2>3, <2>4, SaysIs DEF h
  <1>7. CASE st.do = "unrelate"
    <2>1. h = DropRelations(g, Between(g, st.a, st.t, st.b)) /\ MergedKeys(st) = {}
      BY <1>7 DEF Executed, MergedKeys
    <2>2. /\ \A e : Entity(h, e) <=> Entity(g, e)
          /\ \A y, t, z : Fact(h, y, t, z) <=>
                ~(y = st.a /\ t = st.t /\ z = st.b) /\ Fact(g, y, t, z)
      BY <1>1, <2>1, UnrelateSays
    <2> HIDE DEF h
    <2>3. ~Gains(st, x)
      BY <1>7, <2>1 DEF Gains
    <2>4. Decides(st, x) <=> x.kind = "fact" /\ x.a = st.a /\ x.t = st.t /\ x.b = st.b
      BY <1>7, <2>3 DEF Decides, Loses
    <2> QED BY <1>2, <1>3, <2>2, <2>3, <2>4, SaysIs DEF h
  <1>8. CASE st.do \notin {"merge", "relate", "delete", "unrelate"}
    <2>1. h = g /\ MergedKeys(st) = {}
      BY <1>8 DEF Executed, MergedKeys, Unnaming
    <2>2. ~Decides(st, x)
      BY <1>8, <2>1 DEF Decides, Gains, Loses
    <2> QED BY <2>1, <2>2
  <1> QED BY <1>4, <1>5, <1>6, <1>7, <1>8

-----------------------------------------------------------------------------
(* What a list of statements leads to.                                      *)

\* Statements that follow on each other lead to what the later ones lead to.
LEMMA JoinLeads ==
    ASSUME NEW part \in Seq(Statement), NEW rest \in Seq(Statement), NEW mid, NEW end,
           Leads(part, mid), Near(mid, end, rest), Leads(rest, end)
    PROVE  Leads(part \o rest, end)
  <1> DEFINE all == part \o rest
             n == Len(part)
  <1>1. /\ n \in Nat /\ Len(rest) \in Nat /\ DOMAIN part = 1..n /\ DOMAIN rest = 1..Len(rest)
        /\ DOMAIN all = 1..(n + Len(rest))
        /\ \A i \in 1..n : all[i] = part[i]
        /\ \A i \in 1..Len(rest) : all[n + i] = rest[i]
    OBVIOUS
  <1> HIDE DEF all, n
  <1> SUFFICES ASSUME NEW x \in Atom, NEW i \in DOMAIN all, LastWord(all, i, x)
               PROVE  Says(end, x) <=> Gains(all[i], x)
    BY DEF Leads, all
  <1>2. CASE i > n
    <2>1. i - n \in DOMAIN rest /\ all[i] = rest[i - n]
      <3>1. i - n \in 1..Len(rest) /\ n + (i - n) = i
        BY <1>1, <1>2
      <3> QED BY <1>1, <3>1
    <2>2. ASSUME NEW j \in DOMAIN rest, j > i - n PROVE ~Decides(rest[j], x)
      <3>1. n + j \in DOMAIN all /\ n + j > i /\ all[n + j] = rest[j]
        BY <1>1, <1>2, <2>2
      <3> QED BY <3>1 DEF LastWord
    <2>3. LastWord(rest, i - n, x)
      BY <2>1, <2>2 DEF LastWord
    <2> QED BY <2>1, <2>3 DEF Leads
  <1>3. CASE ~(i > n)
    <2>1. i \in DOMAIN part /\ all[i] = part[i]
      BY <1>1, <1>3
    <2>2. ASSUME NEW j \in DOMAIN part, j > i PROVE ~Decides(part[j], x)
      <3>1. j \in DOMAIN all /\ all[j] = part[j]
        BY <1>1
      <3> QED BY <2>2, <3>1 DEF LastWord
    <2>3. ASSUME NEW j \in DOMAIN rest PROVE ~Decides(rest[j], x)
      <3>1. n + j \in DOMAIN all /\ n + j > i /\ all[n + j] = rest[j]
        BY <1>1, <1>3
      <3> QED BY <3>1 DEF LastWord
    <2>4. LastWord(part, i, x) /\ ~Decided(rest, x)
      BY <2>1, <2>2, <2>3 DEF LastWord, Decided
    <2> QED BY <2>1, <2>4 DEF Leads, Near
  <1> QED BY <1>2, <1>3

LEMMA JoinDecides ==
    ASSUME NEW part \in Seq(Statement), NEW rest \in Seq(Statement), NEW x
    PROVE  Decided(part \o rest, x) <=> Decided(part, x) \/ Decided(rest, x)
  <1> DEFINE all == part \o rest
             n == Len(part)
  <1>1. /\ n \in Nat /\ Len(rest) \in Nat /\ DOMAIN part = 1..n /\ DOMAIN rest = 1..Len(rest)
        /\ DOMAIN all = 1..(n + Len(rest))
        /\ \A i \in 1..n : all[i] = part[i]
        /\ \A i \in 1..Len(rest) : all[n + i] = rest[i]
    OBVIOUS
  <1> HIDE DEF all, n
  <1>2. ASSUME Decided(all, x) PROVE Decided(part, x) \/ Decided(rest, x)
    <2>1. PICK i \in DOMAIN all : Decides(all[i], x)
      BY <1>2 DEF Decided
    <2>2. i \in DOMAIN part \/ (i - n \in 1..Len(rest) /\ n + (i - n) = i)
      BY <1>1
    <2> QED BY <1>1, <2>1, <2>2 DEF Decided
  <1>3. ASSUME Decided(part, x) PROVE Decided(all, x)
    <2>1. PICK i \in DOMAIN part : Decides(part[i], x)
      BY <1>3 DEF Decided
    <2>2. i \in DOMAIN all /\ all[i] = part[i]
      BY <1>1
    <2> QED BY <2>1, <2>2 DEF Decided
  <1>4. ASSUME Decided(rest, x) PROVE Decided(all, x)
    <2>1. PICK i \in DOMAIN rest : Decides(rest[i], x)
      BY <1>4 DEF Decided
    <2>2. n + i \in DOMAIN all /\ all[n + i] = rest[i]
      BY <1>1
    <2> QED BY <2>1, <2>2 DEF Decided
  <1> QED BY <1>2, <1>3, <1>4 DEF all

LEMMA JoinNear ==
    ASSUME NEW part \in Seq(Statement), NEW rest \in Seq(Statement), NEW s, NEW mid, NEW end,
           Near(s, mid, part), Near(mid, end, rest)
    PROVE  Near(s, end, part \o rest)
  BY JoinDecides DEF Near

\* Executing the first of the statements brings the summary on its way.
LEMMA TailLeads ==
    ASSUME NEW todo \in Seq(Statement), todo # <<>>, NEW s, NEW t, NEW end,
           Leads(todo, end), Near(s, end, todo),
           \A x \in Atom : Says(t, x) <=>
              IF Decides(Head(todo), x) THEN Gains(Head(todo), x) ELSE Says(s, x)
    PROVE  /\ Leads(Tail(todo), end) /\ Near(t, end, Tail(todo))
           /\ \A x : Decided(Tail(todo), x) => Decided(todo, x)
           /\ \A i \in DOMAIN Tail(todo) : i + 1 \in DOMAIN todo /\ Tail(todo)[i] = todo[i + 1]
           /\ 1 \in DOMAIN todo /\ todo[1] = Head(todo)
  <1> DEFINE rest == Tail(todo)
  <1>1. /\ Len(todo) \in Nat /\ Len(todo) >= 1 /\ DOMAIN todo = 1..Len(todo)
        /\ DOMAIN rest = 1..(Len(todo) - 1)
        /\ \A i \in 1..(Len(todo) - 1) : rest[i] = todo[i + 1]
        /\ Head(todo) = todo[1]
    OBVIOUS
  <1> HIDE DEF rest
  <1>2. \A i \in DOMAIN rest : i + 1 \in DOMAIN todo /\ rest[i] = todo[i + 1]
    BY <1>1
  <1>3. 1 \in DOMAIN todo /\ todo[1] = Head(todo)
    BY <1>1
  <1>4. ASSUME NEW j \in DOMAIN todo, j # 1 PROVE j - 1 \in DOMAIN rest /\ rest[j - 1] = todo[j]
    BY <1>1, <1>4
  <1>5. ASSUME NEW i \in DOMAIN rest, NEW x, LastWord(rest, i, x) PROVE LastWord(todo, i + 1, x)
    <2>1. ASSUME NEW j \in DOMAIN todo, j > i + 1 PROVE ~Decides(todo[j], x)
      <3>1. j # 1 /\ j - 1 > i
        BY <1>1, <2>1
      <3>2. j - 1 \in DOMAIN rest /\ rest[j - 1] = todo[j]
        BY <1>4, <3>1
      <3> QED BY <1>5, <3>1, <3>2 DEF LastWord
    <2> QED BY <1>2, <1>5, <2>1 DEF LastWord
  <1>6. Leads(rest, end)
    BY <1>2, <1>5 DEF Leads
  <1>7. \A x : Decided(rest, x) => Decided(todo, x)
    BY <1>2 DEF Decided
  <1>8. ASSUME NEW x \in Atom, ~Decided(rest, x) PROVE Says(t, x) <=> Says(end, x)
    <2>1. \A j \in DOMAIN todo : j # 1 => ~Decides(todo[j], x)
      BY <1>4, <1>8 DEF Decided
    <2>2. CASE Decides(Head(todo), x)
      <3>1. LastWord(todo, 1, x)
        BY <1>1, <1>3, <2>1, <2>2 DEF LastWord
      <3> QED BY <1>3, <2>2, <3>1 DEF Leads
    <2>3. CASE ~Decides(Head(todo), x)
      <3>1. ~Decided(todo, x)
        BY <1>3, <2>1, <2>3 DEF Decided
      <3> QED BY <2>3, <3>1 DEF Near
    <2> QED BY <2>2, <2>3
  <1> QED BY <1>2, <1>3, <1>6, <1>7, <1>8 DEF rest, Near

-----------------------------------------------------------------------------
(* What a plan says, operation by operation.                                *)

LEMMA PerPropIs ==
    ASSUME NEW st \in Statement, NEW props \in SUBSET STRING, IsFiniteSet(props),
           NEW part \in PerProp(st, props)
    PROVE  \A i \in DOMAIN part : part[i].do = st.do /\ part[i].p \in props
  <1>1. PICK q \in SetToSeqs(props) : part = [i \in DOMAIN q |-> [st EXCEPT !.p = q[i]]]
    BY DEF PerProp
  <1>2. q \in [1..Cardinality(props) -> props]
    BY DEF SetToSeqs
  <1>3. \A p \in STRING : [st EXCEPT !.p = p].do = st.do /\ [st EXCEPT !.p = p].p = p
    BY DEF Statement
  <1>4. ASSUME NEW i \in DOMAIN q PROVE part[i] = [st EXCEPT !.p = q[i]] /\ q[i] \in props
    BY <1>1, <1>2
  <1> QED BY <1>1, <1>3, <1>4

\* The statements of an operation: for its properties, which decide nothing; two for
\* UpdateRelationship; one otherwise.
Idles(part) == \A i \in DOMAIN part : part[i].do \in {"set", "remove", "set_rel", "remove_rel"}

LEMMA StatementsAre ==
    ASSUME NEW op \in Operation, ~Unnames(op)
    PROVE  LET one(do, t) == Stmt(do, op.a, t, op.b, "none")
           IN  /\ op.do \in {"UpdateNodeProperty", "DeleteNodeProperty",
                             "UpdateRelationshipProperty", "DeleteRelationshipProperty"} =>
                     \A part \in Statements(op) :
                        Idles(part) /\ \A i \in DOMAIN part : ~Unnaming(part[i])
               /\ op.do = "UpdateRelationship" =>
                     Statements(op) = {<<one("unrelate", op.t), one("relate", op.new)>>}
               /\ op.do = "CreateNode" => Statements(op) = {<<one("merge", op.t)>>}
               /\ op.do = "CreateRelationship" => Statements(op) = {<<one("relate", op.t)>>}
               /\ op.do = "DeleteNode" => Statements(op) = {<<one("delete", op.t)>>}
               /\ op.do = "DeleteRelationship" => Statements(op) = {<<one("unrelate", op.t)>>}
               /\ op.do \notin {"UpdateNodeProperty", "DeleteNodeProperty",
                                "UpdateRelationshipProperty", "DeleteRelationshipProperty",
                                "UpdateRelationship", "CreateNode", "CreateRelationship",
                                "DeleteNode", "DeleteRelationship"} =>
                     Statements(op) = {<<one("malformed", op.t)>>}
  <1> DEFINE one(do, t) == Stmt(do, op.a, t, op.b, "none")
  <1>1. /\ op.t \in Types /\ op.a \in Key /\ op.b \in Key
        /\ op.props \in SUBSET STRING /\ IsFiniteSet(op.props)
    BY DEF Operation
  <1>2. ASSUME NEW do \in {"set", "remove", "set_rel", "remove_rel"}
        PROVE  one(do, op.t) \in Statement /\ one(do, op.t).do = do
    <2>1. do \in Verbs
      BY <1>2 DEF Verbs
    <2>2. Stmt(do, op.a, op.t, op.b, "none").do = do
      BY DEF Stmt
    <2> QED BY <1>1, <2>1, <2>2, StmtTyped
  <1> HIDE DEF one
  <1>3. ASSUME NEW do \in {"set", "remove", "set_rel", "remove_rel"},
               NEW props \in SUBSET op.props, NEW part \in PerProp(one(do, op.t), props),
               do = "remove" => "name" \notin props
        PROVE  Idles(part) /\ \A i \in DOMAIN part : ~Unnaming(part[i])
    <2>1. IsFiniteSet(props) /\ props \in SUBSET STRING
      BY <1>1, FS_Subset
    <2>2. \A i \in DOMAIN part : part[i].do = do /\ part[i].p \in props
      BY <1>2, <2>1, PerPropIs
    <2> QED BY <1>3, <2>2 DEF Idles, Unnaming
  <1>4. /\ op.do = "UpdateNodeProperty" => Statements(op) = PerProp(one("set", op.t), op.props \ {"name"})
        /\ op.do = "DeleteNodeProperty" => Statements(op) = PerProp(one("remove", op.t), op.props)
        /\ op.do = "UpdateRelationshipProperty" => Statements(op) = PerProp(one("set_rel", op.t), op.props)
        /\ op.do = "DeleteRelationshipProperty" => Statements(op) = PerProp(one("remove_rel", op.t), op.props)
    BY DEF Statements, one
  <1>5. op.do = "DeleteNodeProperty" => "name" \notin op.props
    BY DEF Unnames
  <1>6. op.do \in {"UpdateNodeProperty", "DeleteNodeProperty",
                   "UpdateRelationshipProperty", "DeleteRelationshipProperty"} =>
           \A part \in Statements(op) : Idles(part) /\ \A i \in DOMAIN part : ~Unnaming(part[i])
    <2>1. CASE op.do = "UpdateNodeProperty"
      <3>1. op.props \ {"name"} \in SUBSET op.props
        OBVIOUS
      <3> QED BY <1>3, <1>4, <2>1, <3>1
    <2>2. CASE op.do = "DeleteNodeProperty"
      BY <1>3, <1>4, <1>5, <2>2
    <2>3. CASE op.do = "UpdateRelationshipProperty"
      BY <1>3, <1>4, <2>3
    <2>4. CASE op.do = "DeleteRelationshipProperty"
      BY <1>3, <1>4, <2>4
    <2> QED BY <2>1, <2>2, <2>3, <2>4
  <1>7. /\ op.do = "UpdateRelationship" =>
                Statements(op) = {<<one("unrelate", op.t), one("relate", op.new)>>}
        /\ op.do = "CreateNode" => Statements(op) = {<<one("merge", op.t)>>}
        /\ op.do = "CreateRelationship" => Statements(op) = {<<one("relate", op.t)>>}
        /\ op.do = "DeleteNode" => Statements(op) = {<<one("delete", op.t)>>}
        /\ op.do = "DeleteRelationship" => Statements(op) = {<<one("unrelate", op.t)>>}
    BY DEF Statements, one
  <1>8. op.do \notin {"UpdateNodeProperty", "DeleteNodeProperty",
                      "UpdateRelationshipProperty", "DeleteRelationshipProperty",
                      "UpdateRelationship", "CreateNode", "CreateRelationship",
                      "DeleteNode", "DeleteRelationship"} =>
           Statements(op) = {<<one("malformed", op.t)>>}
    BY DEF Statements, one
  <1> QED BY <1>6, <1>7, <1>8 DEF one

LEMMA IdlesDecide == ASSUME NEW part, Idles(part) PROVE \A x : ~Decided(part, x)
  <1>1. ASSUME NEW i \in DOMAIN part, NEW x PROVE ~Decides(part[i], x)
    <2>1. part[i].do \in {"set", "remove", "set_rel", "remove_rel"}
      BY DEF Idles
    <2> QED BY <2>1 DEF Decides, Gains, Loses, MergedKeys
  <1> QED BY <1>1 DEF Decided

\* What follows from the statements of an operation follows from the operation.
Does(part, s, op) ==
    /\ Leads(part, Applied(s, op)) /\ Near(s, Applied(s, op), part)
    /\ \A i \in DOMAIN part : ~Unnaming(part[i])

LEMMA OneDoes ==
    ASSUME NEW st, NEW s, NEW op, ~Unnaming(st),
           \A x \in Atom : Says(Applied(s, op), x) <=> IF Decides(st, x) THEN Gains(st, x) ELSE Says(s, x)
    PROVE  Does(<<st>>, s, op)
  <1>1. DOMAIN <<st>> = {1} /\ <<st>>[1] = st
    OBVIOUS
  <1> DEFINE part == <<st>>
  <1>2. DOMAIN part = {1} /\ part[1] = st
    BY <1>1
  <1> HIDE DEF part
  <1>3. Leads(part, Applied(s, op)) /\ Near(s, Applied(s, op), part)
    BY <1>2 DEF Leads, Near, LastWord, Decided
  <1> QED BY <1>2, <1>3 DEF Does, part

LEMMA TwoDo ==
    ASSUME NEW st, NEW st2, NEW s, NEW op, ~Unnaming(st), ~Unnaming(st2),
           \A x \in Atom : Says(Applied(s, op), x) <=>
              IF Decides(st2, x) THEN Gains(st2, x)
              ELSE IF Decides(st, x) THEN Gains(st, x) ELSE Says(s, x)
    PROVE  Does(<<st, st2>>, s, op)
  <1> DEFINE part == <<st, st2>>
  <1>2. DOMAIN part = {1, 2} /\ part[1] = st /\ part[2] = st2
    OBVIOUS
  <1> HIDE DEF part
  <1>3. Leads(part, Applied(s, op)) /\ Near(s, Applied(s, op), part)
    BY <1>2 DEF Leads, Near, LastWord, Decided
  <1>4. \A i \in DOMAIN part : ~Unnaming(part[i])
    BY <1>2
  <1> QED BY <1>3, <1>4 DEF Does, part

\* A summary of which one or both parts are replaced.
LEMMA SummaryFields ==
    ASSUME NEW s \in Summaries, NEW e, NEW f
    PROVE  /\ [s EXCEPT !.entities = e].entities = e /\ [s EXCEPT !.entities = e].facts = s.facts
           /\ [s EXCEPT !.facts = f].entities = s.entities /\ [s EXCEPT !.facts = f].facts = f
           /\ [s EXCEPT !.entities = e] = [entities |-> e, facts |-> s.facts]
           /\ [s EXCEPT !.facts = f] = [entities |-> s.entities, facts |-> f]
           /\ s.entities \subseteq Thing /\ s.facts \subseteq Thing \X Types \X Thing
  <1>1. PICK a \in SUBSET Thing, b \in SUBSET (Thing \X Types \X Thing) :
              s = [entities |-> a, facts |-> b]
    BY DEF Summaries
  <1>2. /\ [[entities |-> a, facts |-> b] EXCEPT !.entities = e] = [entities |-> e, facts |-> b]
        /\ [[entities |-> a, facts |-> b] EXCEPT !.facts = f] = [entities |-> a, facts |-> f]
    OBVIOUS
  <1> QED BY <1>1, <1>2

LEMMA AppliedIs ==
    ASSUME NEW s \in Summaries, NEW op \in Operation
    PROVE  LET r == Applied(s, op)
               fact(t) == <<op.a, t, op.b>>
           IN  /\ r \in Summaries
               /\ op.do = "CreateNode" => r.entities = s.entities \cup {op.a} /\ r.facts = s.facts
               /\ op.do = "DeleteNode" =>
                     /\ r.entities = s.entities \ {op.a}
                     /\ r.facts = {f \in s.facts : f[1] # op.a /\ f[3] # op.a}
               /\ op.do = "CreateRelationship" =>
                     /\ r.entities = s.entities \cup {op.a, op.b}
                     /\ r.facts = s.facts \cup {fact(op.t)}
               /\ op.do = "DeleteRelationship" =>
                     r.entities = s.entities /\ r.facts = s.facts \ {fact(op.t)}
               /\ op.do = "UpdateRelationship" =>
                     /\ r.entities = s.entities \cup {op.a, op.b}
                     /\ r.facts = (s.facts \ {fact(op.t)}) \cup {fact(op.new)}
               /\ op.do \notin {"CreateNode", "DeleteNode", "CreateRelationship",
                                "DeleteRelationship", "UpdateRelationship"} => r = s
  <1> DEFINE r == Applied(s, op)
             fact(t) == <<op.a, t, op.b>>
  <1>1. s.entities \subseteq Thing /\ s.facts \subseteq Thing \X Types \X Thing
    BY DEF Summaries
  <1>2. op.a \in Thing /\ op.b \in Thing /\ op.t \in Types /\ op.new \in Types
    <2>1. op.a \in Key /\ op.b \in Key /\ op.t \in Types /\ op.new \in Types
      BY DEF Operation
    <2>2. Key \subseteq Thing
      BY DEF Key, Thing
    <2> QED BY <2>1, <2>2
  <1>3. fact(op.t) \in Thing \X Types \X Thing /\ fact(op.new) \in Thing \X Types \X Thing
    BY <1>2
  <1> HIDE DEF fact
  <1> DEFINE Made(e, f) == r.entities = e /\ r.facts = f /\ r \in Summaries
  <1>4. ASSUME NEW e \in SUBSET Thing, NEW f \in SUBSET (Thing \X Types \X Thing),
               r = [entities |-> e, facts |-> f]
        PROVE  Made(e, f)
    BY <1>4 DEF Summaries
  <1>5. CASE op.do = "CreateNode"
    <2>1. r = [s EXCEPT !.entities = s.entities \cup {op.a}]
      BY <1>5 DEF Applied
    <2>2. s.entities \cup {op.a} \in SUBSET Thing /\ s.facts \in SUBSET (Thing \X Types \X Thing)
      BY <1>1, <1>2
    <2> HIDE DEF r
    <2>3. r = [entities |-> s.entities \cup {op.a}, facts |-> s.facts]
      BY <2>1, SummaryFields
    <2>4. Made(s.entities \cup {op.a}, s.facts)
      BY <1>4, <2>2, <2>3
    <2> QED BY <1>5, <2>4 DEF r
  <1>6. CASE op.do = "DeleteNode"
    <2> DEFINE F == {f \in s.facts : f[1] # op.a /\ f[3] # op.a}
    <2>1. r = [entities |-> s.entities \ {op.a}, facts |-> F]
      BY <1>6 DEF Applied
    <2>2. s.entities \ {op.a} \in SUBSET Thing /\ F \in SUBSET (Thing \X Types \X Thing)
      BY <1>1
    <2> HIDE DEF r, F
    <2>3. Made(s.entities \ {op.a}, F)
      BY <1>4, <2>1, <2>2
    <2> QED BY <1>6, <2>3 DEF r, F
  <1>7. CASE op.do = "CreateRelationship"
    <2>1. r = [entities |-> s.entities \cup {op.a, op.b}, facts |-> s.facts \cup {fact(op.t)}]
      BY <1>7 DEF Applied, fact
    <2>2. /\ s.entities \cup {op.a, op.b} \in SUBSET Thing
          /\ s.facts \cup {fact(op.t)} \in SUBSET (Thing \X Types \X Thing)
      BY <1>1, <1>2, <1>3
    <2> HIDE DEF r
    <2>3. Made(s.entities \cup {op.a, op.b}, s.facts \cup {fact(op.t)})
      BY <1>4, <2>1, <2>2
    <2> QED BY <1>7, <2>3 DEF r, fact
  <1>8. CASE op.do = "DeleteRelationship"
    <2>1. r = [s EXCEPT !.facts = s.facts \ {fact(op.t)}]
      BY <1>8 DEF Applied, fact
    <2>2. s.entities \in SUBSET Thing /\ s.facts \ {fact(op.t)} \in SUBSET (Thing \X Types \X Thing)
      BY <1>1
    <2> HIDE DEF r
    <2>3. r = [entities |-> s.entities, facts |-> s.facts \ {fact(op.t)}]
      BY <2>1, SummaryFields
    <2>4. Made(s.entities, s.facts \ {fact(op.t)})
      BY <1>4, <2>2, <2>3
    <2> QED BY <1>8, <2>4 DEF r, fact
  <1>9. CASE op.do = "UpdateRelationship"
    <2> DEFINE F == (s.facts \ {fact(op.t)}) \cup {fact(op.new)}
    <2>1. r = [entities |-> s.entities \cup {op.a, op.b}, facts |-> F]
      BY <1>9 DEF Applied, fact
    <2>2. s.entities \cup {op.a, op.b} \in SUBSET Thing /\ F \in SUBSET (Thing \X Types \X Thing)
      BY <1>1, <1>2, <1>3
    <2> HIDE DEF r, F
    <2>3. Made(s.entities \cup {op.a, op.b}, F)
      BY <1>4, <2>1, <2>2
    <2> QED BY <1>9, <2>3 DEF r, F, fact
  <1>10. CASE op.do \notin {"CreateNode", "DeleteNode", "CreateRelationship",
                            "DeleteRelationship", "UpdateRelationship"}
    <2>1. r = s
      BY <1>10 DEF Applied
    <2> QED BY <1>10, <2>1
  <1> QED BY <1>5, <1>6, <1>7, <1>8, <1>9, <1>10

\* The statements of an operation do what the operation says.
LEMMA OperationDoes ==
    ASSUME NEW s \in Summaries, NEW op \in Operation, ~Unnames(op), NEW part \in Statements(op)
    PROVE  Does(part, s, op)
  <1> DEFINE r == Applied(s, op)
             fact(t) == <<op.a, t, op.b>>
             one(do, t) == Stmt(do, op.a, t, op.b, "none")
  <1>1. /\ r \in Summaries
        /\ op.do = "CreateNode" => r.entities = s.entities \cup {op.a} /\ r.facts = s.facts
        /\ op.do = "DeleteNode" =>
              /\ r.entities = s.entities \ {op.a}
              /\ r.facts = {f \in s.facts : f[1] # op.a /\ f[3] # op.a}
        /\ op.do = "CreateRelationship" =>
              /\ r.entities = s.entities \cup {op.a, op.b}
              /\ r.facts = s.facts \cup {fact(op.t)}
        /\ op.do = "DeleteRelationship" =>
              r.entities = s.entities /\ r.facts = s.facts \ {fact(op.t)}
        /\ op.do = "UpdateRelationship" =>
              /\ r.entities = s.entities \cup {op.a, op.b}
              /\ r.facts = (s.facts \ {fact(op.t)}) \cup {fact(op.new)}
        /\ op.do \notin {"CreateNode", "DeleteNode", "CreateRelationship",
                         "DeleteRelationship", "UpdateRelationship"} => r = s
    BY AppliedIs
  <1>2. /\ op.do \in {"UpdateNodeProperty", "DeleteNodeProperty",
                      "UpdateRelationshipProperty", "DeleteRelationshipProperty"} =>
              Idles(part) /\ \A i \in DOMAIN part : ~Unnaming(part[i])
        /\ op.do = "UpdateRelationship" => part = <<one("unrelate", op.t), one("relate", op.new)>>
        /\ op.do = "CreateNode" => part = <<one("merge", op.t)>>
        /\ op.do = "CreateRelationship" => part = <<one("relate", op.t)>>
        /\ op.do = "DeleteNode" => part = <<one("delete", op.t)>>
        /\ op.do = "DeleteRelationship" => part = <<one("unrelate", op.t)>>
        /\ op.do \notin {"UpdateNodeProperty", "DeleteNodeProperty",
                         "UpdateRelationshipProperty", "DeleteRelationshipProperty",
                         "UpdateRelationship", "CreateNode", "CreateRelationship",
                         "DeleteNode", "DeleteRelationship"} =>
              part = <<one("malformed", op.t)>>
    BY StatementsAre
  <1>3. \A do, t : /\ one(do, t).do = do /\ one(do, t).a = op.a /\ one(do, t).t = t
                   /\ one(do, t).b = op.b /\ one(do, t).p = "none"
    BY DEF Stmt
  <1>4. \A x \in Atom : x.kind \in {"entity", "fact"}
    BY DEF Atom
  <1>5. \A do, t : ~Unnaming(one(do, t))
    BY <1>3 DEF Unnaming
  <1>6. \A x, t : <<x.a, x.t, x.b>> = fact(t) <=> x.a = op.a /\ x.t = t /\ x.b = op.b
    OBVIOUS
  <1>7. \A x : <<x.a, x.t, x.b>>[1] = x.a /\ <<x.a, x.t, x.b>>[3] = x.b
    OBVIOUS
  <1> HIDE DEF r, one, fact
  <1>8. CASE op.do = "CreateNode"
    <2> DEFINE st == one("merge", op.t)
    <2>1. st.do = "merge" /\ st.a = op.a /\ MergedKeys(st) = {op.a}
      BY <1>3 DEF MergedKeys
    <2> HIDE DEF st
    <2>2. \A x \in Atom : Says(r, x) <=> IF Decides(st, x) THEN Gains(st, x) ELSE Says(s, x)
      BY <1>1, <1>4, <1>8, <2>1 DEF Says, Decides, Gains, Loses
    <2> QED BY <1>2, <1>5, <1>8, <2>2, OneDoes DEF st, r
  <1>9. CASE op.do = "DeleteNode"
    <2> DEFINE st == one("delete", op.t)
    <2>1. st.do = "delete" /\ st.a = op.a /\ MergedKeys(st) = {}
      BY <1>3 DEF MergedKeys
    <2> HIDE DEF st
    <2>2. \A x \in Atom : Says(r, x) <=> IF Decides(st, x) THEN Gains(st, x) ELSE Says(s, x)
      BY <1>1, <1>4, <1>7, <1>9, <2>1 DEF Says, Decides, Gains, Loses
    <2> QED BY <1>2, <1>5, <1>9, <2>2, OneDoes DEF st, r
  <1>10. CASE op.do = "CreateRelationship"
    <2> DEFINE st == one("relate", op.t)
    <2>1. /\ st.do = "relate" /\ st.a = op.a /\ st.t = op.t /\ st.b = op.b
          /\ MergedKeys(st) = {op.a, op.b}
      BY <1>3 DEF MergedKeys
    <2> HIDE DEF st
    <2>2. \A x \in Atom : Says(r, x) <=> IF Decides(st, x) THEN Gains(st, x) ELSE Says(s, x)
      BY <1>1, <1>4, <1>6, <1>10, <2>1 DEF Says, Decides, Gains, Loses
    <2> QED BY <1>2, <1>5, <1>10, <2>2, OneDoes DEF st, r
  <1>11. CASE op.do = "DeleteRelationship"
    <2> DEFINE st == one("unrelate", op.t)
    <2>1. /\ st.do = "unrelate" /\ st.a = op.a /\ st.t = op.t /\ st.b = op.b
          /\ MergedKeys(st) = {}
      BY <1>3 DEF MergedKeys
    <2> HIDE DEF st
    <2>2. \A x \in Atom : Says(r, x) <=> IF Decides(st, x) THEN Gains(st, x) ELSE Says(s, x)
      BY <1>1, <1>4, <1>6, <1>11, <2>1 DEF Says, Decides, Gains, Loses
    <2> QED BY <1>2, <1>5, <1>11, <2>2, OneDoes DEF st, r
  <1>12. CASE op.do = "UpdateRelationship"
    <2> DEFINE st == one("unrelate", op.t)
               st2 == one("relate", op.new)
    <2>1. /\ st.do = "unrelate" /\ st.a = op.a /\ st.t = op.t /\ st.b = op.b
          /\ MergedKeys(st) = {}
          /\ st2.do = "relate" /\ st2.a = op.a /\ st2.t = op.new /\ st2.b = op.b
          /\ MergedKeys(st2) = {op.a, op.b}
      BY <1>3 DEF MergedKeys
    <2> HIDE DEF st, st2
    <2>2. \A x \in Atom : Says(r, x) <=>
             IF Decides(st2, x) THEN Gains(st2, x)
             ELSE IF Decides(st, x) THEN Gains(st, x) ELSE Says(s, x)
      BY <1>1, <1>4, <1>6, <1>12, <2>1 DEF Says, Decides, Gains, Loses
    <2> QED BY <1>2, <1>5, <1>12, <2>2, TwoDo DEF st, st2, r
  <1>13. CASE op.do \in {"UpdateNodeProperty", "DeleteNodeProperty",
                         "UpdateRelationshipProperty", "DeleteRelationshipProperty"}
    <2>1. r = s /\ \A x : ~Decided(part, x)
      BY <1>1, <1>2, <1>13, IdlesDecide
    <2>2. \A x : \A i \in DOMAIN part : ~LastWord(part, i, x)
      BY <2>1 DEF LastWord, Decided
    <2>3. Leads(part, r) /\ Near(s, r, part)
      BY <2>1, <2>2 DEF Leads, Near
    <2> QED BY <1>2, <1>13, <2>3 DEF Does, r
  <1>14. CASE op.do \notin {"UpdateNodeProperty", "DeleteNodeProperty",
                            "UpdateRelationshipProperty", "DeleteRelationshipProperty",
                            "UpdateRelationship", "CreateNode", "CreateRelationship",
                            "DeleteNode", "DeleteRelationship"}
    <2> DEFINE st == one("malformed", op.t)
    <2>1. st.do = "malformed" /\ MergedKeys(st) = {}
      BY <1>3 DEF MergedKeys
    <2> HIDE DEF st
    <2>2. \A x : ~Decides(st, x)
      BY <2>1 DEF Decides, Gains, Loses
    <2>3. \A x \in Atom : Says(r, x) <=> IF Decides(st, x) THEN Gains(st, x) ELSE Says(s, x)
      BY <1>1, <1>14, <2>2
    <2> QED BY <1>2, <1>5, <1>14, <2>3, OneDoes DEF st, r
  <1> QED BY <1>8, <1>9, <1>10, <1>11, <1>12, <1>13, <1>14

\* In whatever order the properties come, an operation decides the same.
LEMMA SameDecided ==
    ASSUME NEW op \in Operation, ~Unnames(op), NEW part \in Statements(op), NEW part2 \in Statements(op)
    PROVE  \A x : Decided(part, x) <=> Decided(part2, x)
  <1>1. CASE op.do \in {"UpdateNodeProperty", "DeleteNodeProperty",
                        "UpdateRelationshipProperty", "DeleteRelationshipProperty"}
    <2>1. Idles(part) /\ Idles(part2)
      BY <1>1, StatementsAre
    <2> QED BY <2>1, IdlesDecide
  <1>2. CASE op.do \notin {"UpdateNodeProperty", "DeleteNodeProperty",
                           "UpdateRelationshipProperty", "DeleteRelationshipProperty"}
    <2>1. \E y : Statements(op) = {y}
      BY <1>2, StatementsAre
    <2>2. part = part2
      BY <2>1
    <2> QED BY <2>2
  <1> QED BY <1>1, <1>2

\* The definition of Outcomes, which calls itself, has a solution on every plan.
LEMMA OutcomesAre ==
    ASSUME NEW s, NEW plan \in Seq(Operation)
    PROVE  /\ Outcomes(s, plan)[0] = s
           /\ \A i \in 1..Len(plan) :
                 Outcomes(s, plan)[i] = Applied(Outcomes(s, plan)[i - 1], plan[i])
  <1> DEFINE N == Len(plan)
             F(g, i) == IF i = 0 THEN s ELSE Applied(g[i - 1], plan[i])
             Solves(g, n) == g = [i \in 0..n |-> F(g, i)]
             Unsolved == {n \in Nat : n <= N /\ ~ \E g : Solves(g, n)}
  <1>1. N \in Nat
    OBVIOUS
  <1>def. N = Len(plan)
    OBVIOUS
  <1> HIDE DEF N
  <1>all. \A n : n \in Unsolved <=> n \in Nat /\ n <= N /\ ~ \E g : Solves(g, n)
    OBVIOUS
  <1> HIDE DEF Solves, Unsolved
  <1>2. Unsolved = {}
    <2> SUFFICES ASSUME Unsolved # {} PROVE FALSE
      OBVIOUS
    <2>1. PICK m \in Unsolved : \A k \in Unsolved : m <= k
      <3>1. Unsolved \subseteq Nat
        BY <1>all
      <3> QED BY <3>1, LeastOf
    <2>2. m \in Nat /\ m <= N /\ ~ \E g : Solves(g, m)
      BY <2>1, <1>all
    <2>3. CASE m = 0
      <3> DEFINE g == [i \in 0..m |-> s]
      <3>1. \A i \in 0..m : F(g, i) = s
        BY <2>3
      <3>2. Solves(g, m)
        BY <3>1 DEF Solves
      <3> QED BY <2>2, <3>2
    <2>4. CASE m # 0
      <3>1. m - 1 \in Nat /\ m - 1 <= N /\ ~(m <= m - 1)
        BY <1>1, <2>2, <2>4
      <3>2. PICK h : Solves(h, m - 1)
        BY <1>all, <2>1, <3>1
      <3>3. \A i \in 0..(m - 1) : h[i] = F(h, i)
        BY <3>2 DEF Solves
      <3> DEFINE g == [i \in 0..m |-> IF i = m THEN F(h, i) ELSE h[i]]
      <3>4. ASSUME NEW i \in 0..m PROVE g[i] = F(g, i)
        <4>1. g[i] = F(h, i)
          <5>1. CASE i = m
            BY <5>1
          <5>2. CASE i # m
            <6>1. i \in 0..(m - 1)
              BY <2>2, <5>2
            <6> QED BY <3>3, <5>2, <6>1
          <5> QED BY <5>1, <5>2
        <4>2. CASE i = 0
          BY <4>1, <4>2
        <4>3. CASE i # 0
          <5>1. i - 1 \in 0..m /\ i - 1 # m
            BY <2>2, <4>3
          <5>2. g[i - 1] = h[i - 1]
            BY <5>1
          <5> QED BY <4>1, <4>3, <5>2
        <4> QED BY <4>2, <4>3
      <3>5. Solves(g, m)
        <4>1. \A i \in 0..m : g[i] = F(g, i)
          BY <3>4
        <4>2. g = [i \in 0..m |-> g[i]]
          OBVIOUS
        <4> HIDE DEF g, F
        <4> QED BY <4>1, <4>2 DEF Solves
      <3> QED BY <2>2, <3>5
    <2> QED BY <2>3, <2>4
  <1>3. \E g : Solves(g, N)
    BY <1>1, <1>2, <1>all
  <1>4. \E g : g = [i \in 0..N |-> F(g, i)]
    BY <1>3 DEF Solves
  <1> DEFINE O == Outcomes(s, plan)
  <1>5. O = CHOOSE g : g = [i \in 0..N |-> F(g, i)]
    BY DEF Outcomes, N
  <1> HIDE DEF O
  <1>6. O = [i \in 0..N |-> F(O, i)]
    BY <1>4, <1>5
  <1> DEFINE G(i) == F(O, i)
  <1>7. G(0) = s /\ \A i \in 1..N : G(i) = Applied(O[i - 1], plan[i])
    BY <1>1
  <1>8. O = [i \in 0..N |-> G(i)]
    BY <1>6
  <1> HIDE DEF G
  <1>9. \A i \in 0..N : O[i] = G(i)
    BY <1>8
  <1>10. 0 \in 0..N /\ \A i \in 1..N : i \in 0..N
    BY <1>1
  <1>11. O[0] = s /\ \A i \in 1..N : O[i] = Applied(O[i - 1], plan[i])
    BY <1>7, <1>9, <1>10
  <1> QED BY <1>11, <1>def DEF O

LEMMA OutcomesTyped ==
    ASSUME NEW s \in Summaries, NEW plan \in Seq(Operation)
    PROVE  \A i \in 0..Len(plan) : Outcomes(s, plan)[i] \in Summaries
  <1> DEFINE O == Outcomes(s, plan)
             Untyped == {n \in Nat : n <= Len(plan) /\ O[n] \notin Summaries}
  <1>1. Len(plan) \in Nat
    OBVIOUS
  <1>2. O[0] = s /\ \A i \in 1..Len(plan) : O[i] = Applied(O[i - 1], plan[i])
    BY OutcomesAre
  <1> HIDE DEF O
  <1>all. \A n : n \in Untyped <=> n \in Nat /\ n <= Len(plan) /\ O[n] \notin Summaries
    OBVIOUS
  <1> HIDE DEF Untyped
  <1>3. Untyped = {}
    <2> SUFFICES ASSUME Untyped # {} PROVE FALSE
      OBVIOUS
    <2>1. PICK m \in Untyped : \A k \in Untyped : m <= k
      <3>1. Untyped \subseteq Nat
        BY <1>all
      <3> QED BY <3>1, LeastOf
    <2>2. m \in Nat /\ m <= Len(plan) /\ O[m] \notin Summaries
      BY <1>all, <2>1
    <2>3. m # 0
      BY <1>2, <2>2
    <2>4. m - 1 \in Nat /\ m - 1 <= Len(plan) /\ ~(m <= m - 1) /\ m \in 1..Len(plan)
      BY <1>1, <2>2, <2>3
    <2>5. O[m - 1] \in Summaries
      BY <1>all, <2>1, <2>4
    <2>6. plan[m] \in Operation
      BY <2>4
    <2>7. Applied(O[m - 1], plan[m]) \in Summaries
      BY <2>5, <2>6, AppliedIs
    <2> QED BY <1>2, <2>2, <2>4, <2>7
  <1>4. \A i \in 0..Len(plan) : i \in Nat /\ i <= Len(plan)
    BY <1>1
  <1> QED BY <1>all, <1>3, <1>4 DEF O

\* The statements from the i-th operation on lead to the outcome of the plan, from what
\* the operations before have made.
Onwards(s, plan, i) ==
    \A rest \in Remaining(plan)[i] :
        /\ Leads(rest, Outcome(s, plan))
        /\ Near(Outcomes(s, plan)[i - 1], Outcome(s, plan), rest)
        /\ \A j \in DOMAIN rest : ~Unnaming(rest[j])
        /\ \A other \in Remaining(plan)[i] : \A x : Decided(rest, x) <=> Decided(other, x)

LEMMA JoinUnnames ==
    ASSUME NEW part \in Seq(Statement), NEW rest \in Seq(Statement),
           \A i \in DOMAIN part : ~Unnaming(part[i]), \A i \in DOMAIN rest : ~Unnaming(rest[i])
    PROVE  \A i \in DOMAIN (part \o rest) : ~Unnaming((part \o rest)[i])
  <1> DEFINE all == part \o rest
             n == Len(part)
  <1>1. /\ n \in Nat /\ Len(rest) \in Nat /\ DOMAIN part = 1..n /\ DOMAIN rest = 1..Len(rest)
        /\ DOMAIN all = 1..(n + Len(rest))
        /\ \A i \in 1..n : all[i] = part[i]
        /\ \A i \in 1..Len(rest) : all[n + i] = rest[i]
    OBVIOUS
  <1> HIDE DEF all, n
  <1>2. ASSUME NEW i \in DOMAIN all PROVE ~Unnaming(all[i])
    <2>1. i \in DOMAIN part \/ (i - n \in 1..Len(rest) /\ n + (i - n) = i)
      BY <1>1
    <2> QED BY <1>1, <2>1
  <1> QED BY <1>2 DEF all

LEMMA OnwardsStep ==
    ASSUME NEW s \in Summaries, NEW plan \in Seq(Operation), Keeping(plan),
           NEW i \in 1..Len(plan), Onwards(s, plan, i + 1)
    PROVE  Onwards(s, plan, i)
  <1> DEFINE end == Outcome(s, plan)
             from == Outcomes(s, plan)[i - 1]
             mid == Outcomes(s, plan)[i]
             op == plan[i]
  <1>1. Len(plan) \in Nat /\ i - 1 \in 0..Len(plan) /\ i + 1 \in 1..(Len(plan) + 1) /\ (i + 1) - 1 = i
    OBVIOUS
  <1>2. op \in Operation /\ ~Unnames(op) /\ from \in Summaries
    BY <1>1, OutcomesTyped DEF Keeping
  <1>3. mid = Applied(from, op)
    BY OutcomesAre
  <1>4. Remaining(plan)[i] = Joined(Statements(op), Remaining(plan)[i + 1])
    BY RemainingAt
  <1>5. Statements(op) \subseteq Seq(Statement) /\ Remaining(plan)[i + 1] \subseteq Seq(Statement)
    BY <1>1, <1>2, StatementsTyped, RemainingTyped
  <1>6. \A rest \in Remaining(plan)[i + 1] :
           /\ Leads(rest, end) /\ Near(mid, end, rest)
           /\ \A j \in DOMAIN rest : ~Unnaming(rest[j])
           /\ \A other \in Remaining(plan)[i + 1] : \A x : Decided(rest, x) <=> Decided(other, x)
    BY <1>1 DEF Onwards
  <1> HIDE DEF end, from, mid, op
  <1>7. ASSUME NEW part \in Statements(op), NEW rest \in Remaining(plan)[i + 1]
        PROVE  /\ Leads(part \o rest, end) /\ Near(from, end, part \o rest)
               /\ \A j \in DOMAIN (part \o rest) : ~Unnaming((part \o rest)[j])
    <2>1. part \in Seq(Statement) /\ rest \in Seq(Statement)
      BY <1>5
    <2>2. Does(part, from, op)
      BY <1>2, OperationDoes
    <2>3. Leads(part, mid) /\ Near(from, mid, part) /\ \A j \in DOMAIN part : ~Unnaming(part[j])
      BY <1>3, <2>2 DEF Does
    <2>4. Leads(rest, end) /\ Near(mid, end, rest) /\ \A j \in DOMAIN rest : ~Unnaming(rest[j])
      BY <1>6
    <2>5. Leads(part \o rest, end)
      BY <2>1, <2>3, <2>4, JoinLeads
    <2>6. Near(from, end, part \o rest)
      BY <2>1, <2>3, <2>4, JoinNear
    <2>7. \A j \in DOMAIN (part \o rest) : ~Unnaming((part \o rest)[j])
      BY <2>1, <2>3, <2>4, JoinUnnames
    <2> QED BY <2>5, <2>6, <2>7
  <1>8. ASSUME NEW part \in Statements(op), NEW rest \in Remaining(plan)[i + 1],
               NEW part2 \in Statements(op), NEW rest2 \in Remaining(plan)[i + 1]
        PROVE  \A x : Decided(part \o rest, x) <=> Decided(part2 \o rest2, x)
    <2>1. \A x : Decided(part, x) <=> Decided(part2, x)
      BY <1>2, SameDecided
    <2>2. \A x : Decided(rest, x) <=> Decided(rest2, x)
      BY <1>6
    <2>3. /\ part \in Seq(Statement) /\ rest \in Seq(Statement)
          /\ part2 \in Seq(Statement) /\ rest2 \in Seq(Statement)
      BY <1>5
    <2>4. \A x : Decided(part \o rest, x) <=> Decided(part, x) \/ Decided(rest, x)
      BY <2>3, JoinDecides
    <2>5. \A x : Decided(part2 \o rest2, x) <=> Decided(part2, x) \/ Decided(rest2, x)
      BY <2>3, JoinDecides
    <2> QED BY <2>1, <2>2, <2>4, <2>5
  <1>9. \A all \in Remaining(plan)[i] :
           /\ Leads(all, end) /\ Near(from, end, all) /\ \A j \in DOMAIN all : ~Unnaming(all[j])
           /\ \A other \in Remaining(plan)[i] : \A x : Decided(all, x) <=> Decided(other, x)
    <2> SUFFICES ASSUME NEW all \in Remaining(plan)[i]
                 PROVE  /\ Leads(all, end) /\ Near(from, end, all)
                        /\ \A j \in DOMAIN all : ~Unnaming(all[j])
                        /\ \A other \in Remaining(plan)[i] : \A x : Decided(all, x) <=> Decided(other, x)
      OBVIOUS
    <2>1. PICK part \in Statements(op), rest \in Remaining(plan)[i + 1] : all = part \o rest
      BY <1>4 DEF Joined
    <2>2. ASSUME NEW other \in Remaining(plan)[i] PROVE \A x : Decided(all, x) <=> Decided(other, x)
      <3>1. PICK part2 \in Statements(op), rest2 \in Remaining(plan)[i + 1] : other = part2 \o rest2
        BY <1>4 DEF Joined
      <3> QED BY <1>8, <2>1, <3>1
    <2> QED BY <1>7, <2>1, <2>2
  <1> QED BY <1>9 DEF Onwards, end, from

\* So every expansion of a plan leads to its outcome.
LEMMA ExpansionsLead ==
    ASSUME NEW s \in Summaries, NEW plan \in Seq(Operation), Keeping(plan)
    PROVE  \A todo \in Expansions(plan) :
              /\ Leads(todo, Outcome(s, plan)) /\ Near(s, Outcome(s, plan), todo)
              /\ \A j \in DOMAIN todo : ~Unnaming(todo[j])
              /\ \A x : PlanDecides(plan, x) <=> Decided(todo, x)
  <1> DEFINE Open == {n \in Nat : n <= Len(plan) /\ ~Onwards(s, plan, Len(plan) + 1 - n)}
  <1>1. Len(plan) \in Nat
    OBVIOUS
  <1>all. \A n : n \in Open <=> n \in Nat /\ n <= Len(plan) /\ ~Onwards(s, plan, Len(plan) + 1 - n)
    OBVIOUS
  <1> HIDE DEF Open
  <1>2. Onwards(s, plan, Len(plan) + 1)
    <2>1. Remaining(plan)[Len(plan) + 1] = {<<>>} /\ (Len(plan) + 1) - 1 = Len(plan)
      BY <1>1, RemainingAt
    <2>2. Leads(<<>>, Outcome(s, plan)) /\ Near(Outcome(s, plan), Outcome(s, plan), <<>>)
      BY DEF Leads, Near
    <2>3. DOMAIN <<>> = {}
      OBVIOUS
    <2> QED BY <2>1, <2>2, <2>3 DEF Onwards, Outcome
  <1>3. Open = {}
    <2> SUFFICES ASSUME Open # {} PROVE FALSE
      OBVIOUS
    <2>1. PICK m \in Open : \A k \in Open : m <= k
      <3>1. Open \subseteq Nat
        BY <1>all
      <3> QED BY <3>1, LeastOf
    <2> DEFINE i == Len(plan) + 1 - m
    <2>2. m \in Nat /\ m <= Len(plan) /\ ~Onwards(s, plan, i)
      BY <1>all, <2>1
    <2>3. m # 0
      <3>1. Len(plan) + 1 - 0 = Len(plan) + 1
        BY <1>1
      <3> QED BY <1>2, <2>2, <3>1
    <2>4. m - 1 \in Nat /\ m - 1 <= Len(plan) /\ ~(m <= m - 1)
      BY <1>1, <2>2, <2>3
    <2>5. Onwards(s, plan, Len(plan) + 1 - (m - 1))
      BY <1>all, <2>1, <2>4
    <2>6. i \in 1..Len(plan) /\ i + 1 = Len(plan) + 1 - (m - 1)
      BY <1>1, <2>2, <2>3
    <2>7. Onwards(s, plan, i)
      BY <2>5, <2>6, OnwardsStep
    <2> QED BY <2>2, <2>7
  <1>4. Len(plan) \in Nat /\ Len(plan) <= Len(plan) /\ Len(plan) + 1 - Len(plan) = 1
    BY <1>1
  <1>5. Onwards(s, plan, 1)
    BY <1>all, <1>3, <1>4
  <1>6. Outcomes(s, plan)[1 - 1] = s
    <2>1. 1 - 1 = 0
      OBVIOUS
    <2> QED BY <2>1, OutcomesAre
  <1> QED BY <1>5, <1>6 DEF Onwards, Expansions, PlanDecides
-----------------------------------------------------------------------------
(* A retried update stays on its course.                                    *)

LEMMA NoBaseOnCourse == ASSUME NEW v, NEW g, v.base = {} PROVE OnCourse(v, g)
  BY DEF OnCourse

\* An update that waits or is cut off is on course as long as it was.
LEMMA StillOnCourse ==
    ASSUME NEW v, NEW w, NEW g, OnCourse(v, g), w.base = v.base, w.plan = v.plan,
           w.pc \in Active, w.pc # "writing",
           w.pc = "cut" => v.pc \in {"writing", "cut"} /\ w.todo = v.todo
    PROVE  OnCourse(w, g)
  BY DEF OnCourse

LEMMA FailedKeeps ==
    ASSUME NEW v \in Update
    PROVE  \/ Failed(v).base = {}
           \/ Failed(v).base = v.base /\ Failed(v).plan = v.plan /\ Failed(v).pc = "waiting"
  <1>1. CASE v.attempt >= MaxRetries
    BY <1>1 DEF Failed, Ended, Idle
  <1>2. CASE ~(v.attempt >= MaxRetries)
    BY <1>2 DEF Failed, Update
  <1> QED BY <1>1, <1>2

LEMMA OrphanedOnCourse ==
    ASSUME NEW v, Sound(v), NEW g, OnCourse(v, g)
    PROVE  OnCourse(Orphaned(v), g)
  <1>1. v \in Update
    BY DEF Sound
  <1>2. CASE v.pc = "asking"
    <2> DEFINE w == Failed(v)
    <2>1. w.base = {} \/ (w.base = v.base /\ w.plan = v.plan /\ w.pc = "waiting")
      BY <1>1, FailedKeeps
    <2> HIDE DEF w
    <2>2. OnCourse(w, g)
      BY <2>1, NoBaseOnCourse, StillOnCourse DEF Active
    <2> QED BY <1>2, <2>2 DEF Orphaned, w
  <1>3. CASE v.pc = "writing"
    <2> DEFINE w == WithPc(v, "cut")
    <2>1. w.pc = "cut" /\ w.todo = v.todo /\ w.base = v.base /\ w.plan = v.plan
      BY <1>1, WithPcIs DEF Active
    <2>2. Orphaned(v) = w
      BY <1>3 DEF Orphaned, WithPc
    <2> HIDE DEF w
    <2> QED BY <1>3, <2>1, <2>2, StillOnCourse DEF Active
  <1>4. CASE v.pc \notin {"asking", "writing"}
    BY <1>4 DEF Orphaned
  <1> QED BY <1>2, <1>3, <1>4

LEMMA ResentOnCourse ==
    ASSUME NEW v, Sound(v), v.pc = "waiting", NEW g, OnCourse(v, g)
    PROVE  OnCourse(Resent(v), g)
  <1> DEFINE next == [v EXCEPT !.attempt = @ + 1]
             asked == WithPc(next, "asking")
             failed == Failed(next)
  <1>1. next \in Update
    BY NextAttemptIs
  <1>2. next.base = v.base /\ next.plan = v.plan
    BY DEF Sound, Update
  <1>3. Resent(v) = IF actor = "up" THEN asked ELSE failed
    BY DEF Resent, WithPc
  <1> HIDE DEF next
  <1>4. asked.pc = "asking" /\ asked.base = v.base /\ asked.plan = v.plan
    BY <1>1, <1>2, WithPcIs DEF Active
  <1>5. failed.base = {} \/ (failed.base = v.base /\ failed.plan = v.plan /\ failed.pc = "waiting")
    BY <1>1, <1>2, FailedKeeps
  <1> HIDE DEF asked, failed
  <1>6. OnCourse(asked, g)
    BY <1>4, StillOnCourse DEF Active
  <1>7. OnCourse(failed, g)
    BY <1>5, NoBaseOnCourse, StillOnCourse DEF Active
  <1> QED BY <1>3, <1>6, <1>7

\* What an executed statement says about what the plan does not decide is nothing.
LEMMA ExecutedKeepsRest ==
    ASSUME NEW v, Sound(v), v.pc \in {"writing", "cut"}, OnCourse(v, graph), WellFormed(graph),
           NEW s \in v.base, Keeping(v.plan),
           ~Rejected(Head(v.todo)), Room(graph, Head(v.todo))
    PROVE  LET g == Executed(graph, Head(v.todo), {})
           IN  /\ \A x \in Atom : ~PlanDecides(v.plan, x) => (Says(Summary(g), x) <=> Says(s, x))
               /\ Leads(Tail(v.todo), Outcome(s, v.plan))
               /\ Near(Summary(g), Outcome(s, v.plan), Tail(v.todo))
               /\ \A x \in Atom : Decided(Tail(v.todo), x) => PlanDecides(v.plan, x)
               /\ \A i \in DOMAIN Tail(v.todo) : ~Unnaming(Tail(v.todo)[i])
  <1> DEFINE st == Head(v.todo)
             todo == v.todo
             rest == Tail(todo)
             g == Executed(graph, st, {})
             old == Summary(graph)
             new == Summary(g)
             end == Outcome(s, v.plan)
  <1>1. todo \in Seq(Statement) /\ todo # <<>> /\ st \in Statement
    BY TodoTyped
  <1>2. /\ \A x \in Atom : ~PlanDecides(v.plan, x) => (Says(old, x) <=> Says(s, x))
        /\ Leads(todo, end) /\ Near(old, end, todo)
        /\ \A x \in Atom : Decided(todo, x) => PlanDecides(v.plan, x)
        /\ \A i \in DOMAIN todo : ~Unnaming(todo[i])
    BY DEF OnCourse
  <1>3. 1 \in DOMAIN todo /\ todo[1] = st
    BY <1>1
  <1>4. ~Unnaming(st) /\ ~Rejected(st) /\ Room(graph, st)
    BY <1>2, <1>3
  <1> HIDE DEF st
  <1>5. \A x \in Atom : Says(new, x) <=> IF Decides(st, x) THEN Gains(st, x) ELSE Says(old, x)
    BY <1>1, <1>4, ExecutedSays
  <1> HIDE DEF old, new, end
  <1>6. Leads(todo, end) /\ Near(old, end, todo) /\ st = Head(todo)
    BY <1>2 DEF st
  <1>7. /\ Leads(rest, end) /\ Near(new, end, rest)
        /\ \A x : Decided(rest, x) => Decided(todo, x)
        /\ \A i \in DOMAIN rest : i + 1 \in DOMAIN todo /\ rest[i] = todo[i + 1]
    <2> HIDE DEF todo
    <2> QED BY <1>1, <1>5, <1>6, TailLeads
  <1>8. \A x \in Atom : Decides(st, x) => Decided(todo, x)
    BY <1>3 DEF Decided
  <1>9. \A x \in Atom : ~PlanDecides(v.plan, x) => (Says(new, x) <=> Says(s, x))
    BY <1>2, <1>5, <1>8 DEF old
  <1>10. \A i \in DOMAIN rest : ~Unnaming(rest[i])
    BY <1>2, <1>7
  <1>11. \A x \in Atom : Decided(rest, x) => PlanDecides(v.plan, x)
    BY <1>2, <1>7
  <1> QED BY <1>7, <1>9, <1>10, <1>11 DEF new, end, st

LEMMA FailsOnCourse ==
    ASSUME NEW v, Sound(v), v.pc \in {"writing", "cut"}, OnCourse(v, graph), WellFormed(graph),
           NEW g,
           \/ g = graph
           \/ LET st == Head(v.todo)
              IN  ~Rejected(st) /\ Room(graph, st) /\ g = Executed(graph, st, {})
    PROVE  OnCourse(Failed(v), g)
  <1> DEFINE w == Failed(v)
  <1>1. w.base = {} \/ (w.base = v.base /\ w.plan = v.plan /\ w.pc = "waiting")
    BY FailedKeeps DEF Sound
  <1> HIDE DEF w
  <1>2. CASE w.base = {}
    BY <1>2, NoBaseOnCourse DEF w
  <1>3. CASE w.base = v.base /\ w.plan = v.plan /\ w.pc = "waiting"
    <2>1. ASSUME Keeping(v.plan), NEW s \in v.base, NEW x \in Atom, ~PlanDecides(v.plan, x)
          PROVE  Says(Summary(g), x) <=> Says(s, x)
      <3>1. CASE g = graph
        BY <2>1, <3>1 DEF OnCourse
      <3>2. CASE g # graph
        <4> DEFINE h == Executed(graph, Head(v.todo), {})
        <4>1. ~Rejected(Head(v.todo)) /\ Room(graph, Head(v.todo)) /\ g = h
          BY <3>2
        <4>2. Says(Summary(h), x) <=> Says(s, x)
          BY <2>1, <4>1, ExecutedKeepsRest
        <4> QED BY <4>1, <4>2
      <3> QED BY <3>1, <3>2
    <2>2. OnCourse(w, g)
      BY <1>3, <2>1 DEF OnCourse, Active
    <2> QED BY <2>2 DEF w
  <1> QED BY <1>1, <1>2, <1>3

\* What an update goes on with, for the rest of a plan or a new answer.
LEMMA OnwardOnCourse ==
    ASSUME NEW v \in Update, NEW todo \in Seq(Statement), NEW g,
           Keeping(v.plan) =>
              \A s \in v.base :
                 /\ \A x \in Atom : ~PlanDecides(v.plan, x) => (Says(Summary(g), x) <=> Says(s, x))
                 /\ Leads(todo, Outcome(s, v.plan))
                 /\ Near(Summary(g), Outcome(s, v.plan), todo)
                 /\ \A x \in Atom : Decided(todo, x) => PlanDecides(v.plan, x)
                 /\ \A i \in DOMAIN todo : ~Unnaming(todo[i])
    PROVE  OnCourse(Onward(v, todo, g), g)
  <1> DEFINE w == Onward(v, todo, g)
  <1>1. /\ w.pc \in {"done", "writing"}
        /\ todo = <<>> => w = Ended("done")
        /\ w.pc = "writing" =>
              /\ w.todo = todo /\ w.absent = Absent(g, Head(todo))
              /\ w.base = v.base /\ w.plan = v.plan
    BY OnwardSound
  <1>2. CASE w.pc = "done"
    <2>1. todo = <<>>
      BY <1>2 DEF Onward, Update
    <2>2. w.base = {}
      BY <1>1, <2>1 DEF Ended, Idle
    <2> QED BY <2>2, NoBaseOnCourse
  <1>3. CASE w.pc = "writing"
    <2>1. \A k \in w.absent : Matching(g, k) = {}
      BY <1>1, <1>3 DEF Absent
    <2> HIDE DEF w
    <2>2. w.pc = "writing" /\ w.todo = todo /\ w.base = v.base /\ w.plan = v.plan
      BY <1>1, <1>3
    <2>3. OnCourse(w, g)
      BY <2>1, <2>2 DEF OnCourse, Active
    <2> QED BY <2>3 DEF w
  <1> QED BY <1>1, <1>2, <1>3

\* What a step of u writes leaves every other update on course, or without a base.
LEMMA WriteConverges ==
    ASSUME MemoryTyped, Converging, NEW u \in Updates, NEW w, Sound(w), NEW g, NEW others,
           Write(g, Changed(update, u, w), others), g = graph \/ others = Updates \ {u},
           OnCourse(w, g)
    PROVE  Converging' /\ update'[u] = w /\ graph' = g
  <1> DEFINE new == Changed(update, u, w)
  <1>1. /\ SoundUpdates(new) /\ new[u] = w
        /\ \A v \in Updates : v # u => new[v] = update[v]
    BY ChangeOne DEF MemoryTyped, SoundUpdates
  <1>2. \A v \in Updates :
           update'[v] = IF v \in others /\ g # graph THEN Forget(new[v]) ELSE new[v]
    BY DEF Write
  <1>3. graph' = g
    BY DEF Write
  <1> HIDE DEF new
  <1>4. update'[u] = w
    BY <1>1, <1>2
  <1>5. ASSUME NEW v \in Updates, v # u PROVE OnCourse(update'[v], g)
    <2>1. OnCourse(update[v], graph) /\ Sound(update[v])
      BY DEF Converging, MemoryTyped
    <2>2. CASE g = graph
      BY <1>1, <1>2, <1>5, <2>1, <2>2
    <2>3. CASE g # graph
      <3>1. update'[v] = Forget(update[v])
        BY <1>1, <1>2, <1>5, <2>3
      <3>2. Forget(update[v]).base = {}
        BY <2>1, ForgetSound
      <3> QED BY <3>1, <3>2, NoBaseOnCourse
    <2> QED BY <2>2, <2>3
  <1>6. \A v \in Updates : OnCourse(update'[v], graph')
    BY <1>3, <1>4, <1>5
  <1> QED BY <1>3, <1>4, <1>6 DEF Converging

\* A step that changes one update and not the graph.
LEMMA OneConverges ==
    ASSUME MemoryTyped, Converging, NEW u \in Updates, NEW w, Sound(w),
           update' = Changed(update, u, w), UNCHANGED graph, OnCourse(w, graph)
    PROVE  Converging'
  <1>1. update'[u] = w /\ \A v \in Updates : v # u => update'[v] = update[v]
    BY ChangeOne DEF MemoryTyped, SoundUpdates
  <1> QED BY <1>1 DEF Converging

LEMMA ExecuteConverges ==
    ASSUME MemoryTyped, Converging, NEW u \in Updates, Execute(u)
    PROVE  /\ Converging'
           /\ update'[u].pc = "done" =>
                 /\ Tail(update[u].todo) = <<>>
                 /\ Keeping(update[u].plan) =>
                       \A s \in update[u].base :
                          Near(Summary(graph'), Outcome(s, update[u].plan), Tail(update[u].todo))
  <1> DEFINE v == update[u]
             st == Head(v.todo)
             rest == Tail(v.todo)
  <1>1. WellFormed(graph) /\ Sound(v) /\ OnCourse(v, graph)
    BY DEF MemoryTyped, Converging
  <1>2. v.pc = "writing" /\ ~Rejected(st) /\ Room(graph, st)
    BY ExecuteIs
  <1>3. PICK blind \in SUBSET {k \in v.absent : Matching(graph, k) # {}} :
               Write(Executed(graph, st, blind),
                     Changed(update, u, Onward(v, rest, Executed(graph, st, blind))),
                     Updates \ {u})
    BY ExecuteIs
  <1>4. rest \in Seq(Statement) /\ v \in Update
    BY <1>1, <1>2, TodoTyped
  <1> DEFINE g == Executed(graph, st, blind)
             next == Onward(v, rest, g)
  <1>5. Keeping(v.plan) =>
           \A s \in v.base :
              /\ \A x \in Atom : ~PlanDecides(v.plan, x) => (Says(Summary(g), x) <=> Says(s, x))
              /\ Leads(rest, Outcome(s, v.plan))
              /\ Near(Summary(g), Outcome(s, v.plan), rest)
              /\ \A x \in Atom : Decided(rest, x) => PlanDecides(v.plan, x)
              /\ \A i \in DOMAIN rest : ~Unnaming(rest[i])
    <2> SUFFICES ASSUME Keeping(v.plan), NEW s \in v.base
                 PROVE  /\ \A x \in Atom : ~PlanDecides(v.plan, x) =>
                              (Says(Summary(g), x) <=> Says(s, x))
                        /\ Leads(rest, Outcome(s, v.plan))
                        /\ Near(Summary(g), Outcome(s, v.plan), rest)
                        /\ \A x \in Atom : Decided(rest, x) => PlanDecides(v.plan, x)
                        /\ \A i \in DOMAIN rest : ~Unnaming(rest[i])
      OBVIOUS
    <2>1. \A k \in v.absent : Matching(graph, k) = {}
      BY <1>1, <1>2 DEF OnCourse
    <2>2. blind = {}
      BY <1>3, <2>1
    <2>3. g = Executed(graph, Head(v.todo), {})
      BY <2>2
    <2> HIDE DEF v, g
    <2> QED BY <1>1, <1>2, <2>3, ExecutedKeepsRest
  <1> HIDE DEF g
  <1>6. OnCourse(next, g)
    BY <1>4, <1>5, OnwardOnCourse
  <1>7. Sound(next) /\ next.pc \in {"done", "writing"}
    BY <1>4, OnwardSound
  <1>8. Write(g, Changed(update, u, next), Updates \ {u})
    BY <1>3 DEF g
  <1>9. next.pc = "done" => rest = <<>>
    BY <1>4 DEF Onward, Update
  <1> HIDE DEF next, rest, v
  <1>10. Converging' /\ update'[u] = next /\ graph' = g
    <2> DEFINE all == Updates \ {u}
    <2>1. Write(g, Changed(update, u, next), all) /\ (g = graph \/ all = Updates \ {u})
      BY <1>8
    <2> HIDE DEF all
    <2> QED BY <1>6, <1>7, <2>1, WriteConverges
  <1> QED BY <1>5, <1>9, <1>10 DEF v, rest

LEMMA NothingDecides == \A x : ~PlanDecides(<<>>, x)
  <1> DEFINE none == <<>>
  <1>1. none \in Seq(Operation) /\ Len(none) = 0
    OBVIOUS
  <1> HIDE DEF none
  <1>2. Expansions(none) = {<<>>}
    <2>1. Remaining(none)[Len(none) + 1] = {<<>>}
      BY <1>1, RemainingAt
    <2> QED BY <1>1, <2>1 DEF Expansions
  <1>3. \A x : ~Decided(<<>>, x)
    BY DEF Decided
  <1>4. \A x : ~PlanDecides(none, x)
    BY <1>2, <1>3 DEF PlanDecides
  <1> QED BY <1>4 DEF none

\* An answer puts the update on a course from what the graph said when it began.
LEMMA AnsweredOnCourse ==
    ASSUME NEW v, Sound(v), v.pc = "asking", NEW g, OnCourse(v, g), NEW plan \in Seq(Operation),
           NEW todo \in Expansions(plan)
    PROVE  OnCourse(Onward(Answered(v, plan), todo, g), g)
  <1> DEFINE w == Answered(v, plan)
             end(s) == Outcome(s, plan)
  <1>1. v \in Update /\ todo \in Seq(Statement)
    BY ExpansionsTyped DEF Sound
  <1>2. w \in Update
    BY AnsweredIs
  <1>3. w.base = {} \/ (w.base = v.base /\ w.plan = plan /\ v.plan \in {<<>>, plan})
    <2>1. [v EXCEPT !.plan = plan].base = v.base /\ [v EXCEPT !.plan = plan].plan = plan
      BY <1>1 DEF Update
    <2> QED BY <2>1, ForgetSound DEF Answered
  <1> HIDE DEF w
  <1>4. ASSUME Keeping(w.plan), NEW s \in w.base
        PROVE  /\ \A x \in Atom : ~PlanDecides(w.plan, x) => (Says(Summary(g), x) <=> Says(s, x))
               /\ Leads(todo, Outcome(s, w.plan))
               /\ Near(Summary(g), Outcome(s, w.plan), todo)
               /\ \A x \in Atom : Decided(todo, x) => PlanDecides(w.plan, x)
               /\ \A i \in DOMAIN todo : ~Unnaming(todo[i])
    <2>1. w.plan = plan /\ v.plan \in {<<>>, plan} /\ s \in v.base /\ Keeping(plan)
      BY <1>3, <1>4
    <2>2. s \in Summaries
      BY <1>1, <2>1 DEF Update
    <2>3. /\ Leads(todo, end(s)) /\ Near(s, end(s), todo)
          /\ \A i \in DOMAIN todo : ~Unnaming(todo[i])
          /\ \A x : PlanDecides(plan, x) <=> Decided(todo, x)
      BY <2>1, <2>2, ExpansionsLead
    <2>4. Keeping(v.plan)
      BY <2>1 DEF Keeping
    <2>5. \A x \in Atom : ~PlanDecides(v.plan, x) => (Says(Summary(g), x) <=> Says(s, x))
      BY <2>1, <2>4 DEF OnCourse
    <2>6. \A x \in Atom : ~PlanDecides(plan, x) => (Says(Summary(g), x) <=> Says(s, x))
      BY <2>1, <2>5, NothingDecides
    <2>7. Near(Summary(g), end(s), todo)
      BY <2>3, <2>6 DEF Near
    <2> QED BY <2>1, <2>3, <2>6, <2>7
  <1>5. OnCourse(Onward(w, todo, g), g)
    BY <1>1, <1>2, <1>4, OnwardOnCourse
  <1> QED BY <1>5 DEF w

LEMMA AnswerConverges ==
    ASSUME MemoryTyped, Converging, NEW u \in Updates, Answer(u)
    PROVE  Converging'
  <1> DEFINE v == update[u]
  <1>1. Sound(v) /\ v \in Update /\ OnCourse(v, graph)
    BY DEF MemoryTyped, Converging, Sound
  <1>2. v.pc = "asking" /\ UNCHANGED graph
    BY DEF Answer
  <1>3. ASSUME NEW plan \in Plans, NEW todo \in Expansions(plan),
               update' = Changed(update, u, Onward(Answered(v, plan), todo, graph))
        PROVE  Converging'
    <2> DEFINE w == Onward(Answered(v, plan), todo, graph)
    <2>1. plan \in Seq(Operation)
      BY MemoryAssumption
    <2>2. todo \in Seq(Statement) /\ Answered(v, plan) \in Update
      BY <1>1, <2>1, ExpansionsTyped, AnsweredIs
    <2>3. OnCourse(w, graph)
      <3> HIDE DEF v
      <3> QED BY <1>1, <1>2, <2>1, AnsweredOnCourse
    <2>4. Sound(w)
      BY <2>2, OnwardSound
    <2>5. update' = Changed(update, u, w)
      BY <1>3
    <2> HIDE DEF w
    <2> QED BY <1>2, <2>3, <2>4, <2>5, OneConverges
  <1>4. ASSUME update' = Changed(update, u, Failed(v))
        PROVE  Converging'
    <2> DEFINE w == Failed(v)
    <2>1. w.base = {} \/ (w.base = v.base /\ w.plan = v.plan /\ w.pc = "waiting")
      BY <1>1, FailedKeeps
    <2>2. Sound(w) /\ update' = Changed(update, u, w)
      BY <1>1, <1>4, FailedSound
    <2> HIDE DEF w
    <2>3. OnCourse(w, graph)
      BY <1>1, <2>1, NoBaseOnCourse, StillOnCourse DEF Active
    <2> QED BY <1>2, <2>2, <2>3, OneConverges
  <1> QED BY <1>3, <1>4, AnswerIs

LEMMA FailsConverges ==
    ASSUME MemoryTyped, Converging, NEW u \in Updates, update[u].pc \in {"writing", "cut"},
           NEW g, NEW others, FailsWith(u, g, others)
    PROVE  Converging'
  <1> DEFINE v == update[u]
             w == Failed(v)
  <1>1. WellFormed(graph) /\ Sound(v) /\ v \in Update /\ OnCourse(v, graph)
    BY DEF MemoryTyped, Converging, Sound
  <1>2. /\ \/ g = graph
           \/ LET st == Head(v.todo)
              IN  ~Rejected(st) /\ Room(graph, st) /\ g = Executed(graph, st, {})
        /\ g = graph \/ others = Updates \ {u}
        /\ Write(g, Changed(update, u, w), others)
    BY DEF FailsWith
  <1>3. OnCourse(w, g)
    <2>1. v.pc \in {"writing", "cut"}
      OBVIOUS
    <2> HIDE DEF v
    <2> QED BY <1>1, <1>2, <2>1, FailsOnCourse
  <1>4. Sound(w)
    BY <1>1, FailedSound
  <1> HIDE DEF w, v
  <1> QED BY <1>2, <1>3, <1>4, WriteConverges

LEMMA RetryConverging ==
    ASSUME MemoryTyped, Converging, NEW u \in Updates, Retry(u)
    PROVE  Converging'
  <1> DEFINE w == Resent(update[u])
  <1>1. Sound(update[u]) /\ OnCourse(update[u], graph) /\ update[u].pc = "waiting"
    BY DEF MemoryTyped, Converging, Retry
  <1>2. OnCourse(w, graph)
    BY <1>1, ResentOnCourse
  <1>3. update' = Changed(update, u, w) /\ UNCHANGED graph
    BY DEF Retry, Changed
  <1>4. Sound(w)
    <2> DEFINE next == [update[u] EXCEPT !.attempt = @ + 1]
    <2>1. next \in Update /\ Sound([next EXCEPT !.pc = "asking"])
      BY <1>1, NextAttemptIs
    <2>2. w = IF actor = "up" THEN [next EXCEPT !.pc = "asking"] ELSE Failed(next)
      BY DEF Resent
    <2> HIDE DEF next, w
    <2> QED BY <2>1, <2>2, FailedSound
  <1> HIDE DEF w
  <1> QED BY <1>2, <1>3, <1>4, OneConverges

\* An update begins with what the graph says.
LEMMA StartConverges ==
    ASSUME MemoryTyped, Converging, NEW u \in Updates, StartUpdate(u)
    PROVE  Converging'
  <1> DEFINE w == Begun(update[u], {Summary(graph)})
  <1>1. Sound(update[u]) /\ update[u].pc = "idle" /\ WellFormed(graph) /\ UNCHANGED graph
    BY DEF MemoryTyped, StartUpdate
  <1>2. update' = Changed(update, u, w)
    BY DEF StartUpdate, Begun, Changed
  <1>3. {Summary(graph)} \in SUBSET Summaries
    BY <1>1, SummaryTyped
  <1>4. /\ w \in Update /\ w.pc = "asking" /\ w.base = {Summary(graph)}
        /\ w.todo = update[u].todo
    BY <1>1, <1>3, BegunIs DEF Sound
  <1> HIDE DEF w
  <1>5. Sound(w)
    BY <1>1, <1>4 DEF Sound
  <1>6. OnCourse(w, graph)
    BY <1>4 DEF OnCourse, Active
  <1> QED BY <1>1, <1>2, <1>5, <1>6, OneConverges

\* An edit by hand that changes the graph takes every update's base away.
LEMMA ByHandConverges ==
    ASSUME MemoryTyped, Converging, ByHand
    PROVE  Converging'
  <1>1. PICK g : Write(g, update, Updates)
    BY DEF ByHand, CreateMemoryNode, UpdateMemoryNode, DeleteMemoryNode,
           CreateMemoryRelationship, DeleteMemoryRelationship
  <1>2. /\ \A v \in Updates : update'[v] = IF g # graph THEN Forget(update[v]) ELSE update[v]
        /\ graph' = g
    BY <1>1 DEF Write
  <1>3. CASE g = graph
    BY <1>2, <1>3 DEF Converging
  <1>4. CASE g # graph
    <2>1. \A v \in Updates : update'[v].base = {}
      BY <1>2, <1>4, ForgetSound DEF MemoryTyped
    <2> QED BY <2>1, NoBaseOnCourse DEF Converging
  <1> QED BY <1>3, <1>4

\* Without an active update there is no course to keep.
LEMMA NoneConverges ==
    ASSUME NEW old, \A v \in Updates : OnCourse(update[v], old),
           \A v \in Updates : update'[v].base = {} \/ (update'[v] = update[v] /\ update[v].pc \notin Active)
    PROVE  Converging'
  <1>1. \A v \in Updates : update'[v].base = {}
    BY DEF OnCourse
  <1> QED BY <1>1, NoBaseOnCourse DEF Converging

LEMMA ConvergingStep ==
    MemoryTyped /\ AloneAtStart /\ Converging /\ [MemoryNext]_memoryVars => Converging'
  <1> SUFFICES ASSUME MemoryTyped, AloneAtStart, Converging, [MemoryNext]_memoryVars
               PROVE  Converging'
    OBVIOUS
  <1>0. \A v \in Updates : OnCourse(update[v], graph)
    BY DEF Converging
  <1>1. CASE Boot
    <2>1. UNCHANGED update /\ actor \in Booting
      BY <1>1 DEF Boot, InitRoot, GetRootName, ExtractName, StoreName, Booting
    <2>2. \A v \in Updates : update'[v] = update[v] /\ update[v].pc \notin Active
      BY <2>1 DEF AloneAtStart
    <2> QED BY <1>0, <2>2, NoneConverges
  <1>2. CASE QueryPanics
    <2>1. UNCHANGED graph /\ \A v \in Updates : update'[v] = Orphaned(update[v])
      BY <1>2, QueryPanicsTyped
    <2>2. \A v \in Updates : OnCourse(Orphaned(update[v]), graph)
      BY <1>0, OrphanedOnCourse DEF MemoryTyped
    <2> QED BY <2>1, <2>2 DEF Converging
  <1>3. CASE Crash
    <2>1. \A v \in Updates :
             update'[v] = IF update[v].pc \in Active THEN Ended("lost") ELSE update[v]
      BY <1>3 DEF Crash
    <2>2. Ended("lost").base = {}
      BY DEF Ended, Idle
    <2> QED BY <1>0, <2>1, <2>2, NoneConverges
  <1>4. CASE Settled \/ UNCHANGED memoryVars
    <2>1. UNCHANGED <<graph, update>>
      BY <1>4 DEF Settled, memoryVars
    <2> QED BY <1>0, <2>1 DEF Converging
  <1>5. ASSUME NEW u \in Updates, Step(u) PROVE Converging'
    <2>1. CASE FailStatement(u) \/ Land(u)
      BY <2>1, FailStatementIs, LandIs, FailsConverges
    <2> QED BY <1>5, <2>1, AnswerConverges, ExecuteConverges, RetryConverging DEF Step
  <1> QED BY <1>1, <1>2, <1>3, <1>4, <1>5, ByHandConverges, StartConverges DEF MemoryNext

-----------------------------------------------------------------------------
(* The theorems.                                                            *)

LEMMA MemoryInvInit == MemoryInit => MemoryInv
  <1> SUFFICES ASSUME MemoryInit PROVE MemoryInv
    OBVIOUS
  <1>1. graph.nodes = {} /\ Roots(graph) = {}
    BY DEF MemoryInit, Empty, Roots
  <1>2. RootNames(graph) = {}
    BY <1>1 DEF RootNames
  <1>3. \A u \in Updates : update[u].pc = "idle"
    BY DEF MemoryInit, Idle
  <1>4. AloneAtStart /\ NameKnown
    BY <1>2, <1>3 DEF AloneAtStart, NameKnown, Active, MemoryInit
  <1>5. NoTwin
    BY <1>1, <1>3 DEF NoTwin, Apart
  <1>6. Converging
    <2>1. \A u \in Updates : update[u].base = {}
      BY DEF MemoryInit, Idle
    <2> QED BY <2>1, NoBaseOnCourse DEF Converging
  <1> QED BY <1>4, <1>5, <1>6, InitTyped DEF MemoryInv

LEMMA MemoryInvStep == MemoryInv /\ [MemoryNext]_memoryVars => MemoryInv'
  BY MemoryTypedStep, AloneAtStartStep, NameKnownStep, NoTwinStep, ConvergingStep DEF MemoryInv

\* The graph stays well-formed and the updates sound, no update outlives its process
\* (AgentMemoryActor and chat_agent.rs's retries run in it), the remembered name is the
\* stored one, no statement under way will make a second node of an entity, and an update
\* nobody has interfered with is on its way to what its plan says, whatever has failed.
THEOREM MemoryInvariant == MemorySpec => []MemoryInv
  <1>1. MemoryInit => MemoryInv
    BY MemoryInvInit
  <1>2. MemoryInv /\ [MemoryNext]_memoryVars => MemoryInv'
    BY MemoryInvStep
  <1> QED BY <1>1, <1>2, PTL DEF MemorySpec

LEMMA TypedIsOK == MemoryTyped => GraphTypeOK
  <1> SUFFICES ASSUME MemoryTyped PROVE GraphTypeOK
    OBVIOUS
  <1>1. WellFormed(graph) /\ graph.nodes \subseteq Node /\ graph.rels \subseteq Relation
    BY FieldsOfGraph DEF MemoryTyped, WellFormed
  <1>2. \A r \in graph.rels :
           {r.from, r.to} \subseteq Ids(graph.nodes) /\ Plain(r.type) /\ r.nr \in RelNumbers
    BY <1>1 DEF WellFormed, Relation
  <1>3. \A u \in Updates :
           /\ update[u].pc \in Active \cup {"idle", "done", "gaveup", "lost"}
           /\ update[u].attempt \in 0..MaxRetries
           /\ (update[u].todo # <<>>) <=> (update[u].pc \in {"writing", "cut"})
    BY DEF MemoryTyped, Sound, Update
  <1>4. actor \in Booting \cup {"up", "dead"} /\ {aiName, lastName} \subseteq Names
    BY DEF MemoryTyped
  <1>5. \A m, n \in graph.nodes : m.id = n.id => m = n
    BY <1>1 DEF WellFormed
  <1> QED BY <1>1, <1>2, <1>3, <1>4, <1>5 DEF GraphTypeOK

\* Whatever merges, renames, deletions, edits and retries meet in the graph, node ids
\* stay unique, every relation keeps both of its ends, and its type is one that the
\* statements of actor_memory.rs can write again without backticks.
THEOREM GraphTypes == MemorySpec => []GraphTypeOK
  BY MemoryInvariant, TypedIsOK, PTL DEF MemoryInv

\* Without a constraint in the store, MERGE makes a second node of an entity only in an
\* overlap with a MERGE of the same node, or after an edit by hand or a start that gave
\* names away: retries, lost replies, the death of the actor and restarts never do.
THEOREM EntityIsUnique == MemorySpec => []OneNodePerEntity
  <1>1. NoTwin => OneNodePerEntity
    BY DEF NoTwin, OneNodePerEntity
  <1> QED BY <1>1, MemoryInvariant, PTL DEF MemoryInv

\* After every restart the assistant answers to the name it had, unless its node was
\* edited or the name could not be read or stored (AgentMemoryActor::new).
THEOREM NameSurvives == MemorySpec => NameIsKept
  <1>1. MemoryInv /\ [MemoryNext]_memoryVars =>
           [actor' = "up" /\ actor # "up" /\ lastName # Wo /\ ~nameDoubt'
            => aiName' = lastName]_memoryVars
    <2> SUFFICES ASSUME MemoryTyped, NameKnown, MemoryNext, actor' = "up", actor # "up",
                        lastName # Wo, ~nameDoubt'
                 PROVE  aiName' = lastName
      BY DEF MemoryInv
    <2>1. Boot
      <3>1. ~QueryPanics /\ ~ByHand /\ ~Crash /\ ~Settled
        BY ByHandTyped DEF QueryPanics, Crash, Settled, memoryVars
      <3>2. \A u \in Updates : ~StartUpdate(u) /\ ~Step(u)
        BY StepKeeps DEF StartUpdate
      <3> QED BY <3>1, <3>2 DEF MemoryNext
    <2>2. ~InitRoot
      BY DEF InitRoot
    <2>3. CASE GetRootName
      <3>1. PICK name \in RootNames(graph) : UseName(name) /\ UNCHANGED nameDoubt
        BY <2>3 DEF GetRootName
      <3>2. name = lastName
        BY <3>1 DEF NameKnown
      <3> QED BY <3>1, <3>2 DEF UseName, Serve
    <2>4. ~ExtractName /\ ~StoreName
      BY DEF ExtractName, StoreName, NameKnown
    <2> QED BY <2>1, <2>2, <2>3, <2>4 DEF Boot
  <1> QED BY <1>1, MemoryInvariant, PTL DEF MemorySpec, NameIsKept

\* When update u is done, the last of its statements has made of the graph what its plan
\* should make of what the graph said when the update began.
LEMMA DoneConverges ==
    ASSUME MemoryTyped, Converging, NEW u \in Updates, Execute(u), update'[u].pc = "done",
           Keeping(update[u].plan), NEW s \in update[u].base
    PROVE  Summary(graph') = Outcome(s, update[u].plan)
  <1> DEFINE new == Summary(graph')
             plan == update[u].plan
             end == Outcome(s, plan)
  <1>1. Near(new, end, <<>>)
    BY ExecuteConverges
  <1>2. \A x : ~Decided(<<>>, x)
    BY DEF Decided
  <1>3. new \in Summaries
    <2>1. MemoryTyped' /\ WellFormed(graph')
      BY ExecuteTyped DEF MemoryTyped
    <2> QED BY <2>1, SummaryTyped
  <1>4. end \in Summaries
    <2>1. plan \in Seq(Operation) /\ s \in Summaries
      BY DEF MemoryTyped, Sound, Update
    <2>2. Len(plan) \in 0..Len(plan)
      BY <2>1
    <2> HIDE DEF plan
    <2> QED BY <2>1, <2>2, OutcomesTyped DEF Outcome
  <1> HIDE DEF new, end
  <1>5. \A x \in Atom : Says(new, x) <=> Says(end, x)
    BY <1>1, <1>2 DEF Near
  <1>6. new = end
    BY <1>3, <1>4, <1>5, SameSummary
  <1> QED BY <1>6 DEF new, end

\* An update that succeeds at last makes of the graph what its plan says, once, whatever
\* its failed attempts and lost replies have left (the retries of chat_agent.rs run the
\* whole list of operations again), if the model repeats a plan that takes no names away
\* and nobody else writes.
THEOREM RetriesConverge == MemorySpec => RetryConverges
  <1>1. MemoryInv /\ [MemoryNext]_memoryVars =>
           [\A u \in Updates :
              /\ update[u].pc = "writing" /\ update'[u].pc = "done"
              /\ \A i \in DOMAIN update[u].plan : ~Unnames(update[u].plan[i])
              => \A s \in update[u].base :
                    Summary(graph') = Outcome(s, update[u].plan)]_memoryVars
    <2> SUFFICES ASSUME MemoryTyped, AloneAtStart, Converging, MemoryNext, NEW u \in Updates,
                        update[u].pc = "writing", update'[u].pc = "done",
                        Keeping(update[u].plan), NEW s \in update[u].base
                 PROVE  Summary(graph') = Outcome(s, update[u].plan)
      BY DEF MemoryInv, Keeping
    <2>1. ~Boot
      <3>1. Boot => UNCHANGED update
        BY DEF Boot, InitRoot, GetRootName, ExtractName, StoreName
      <3> QED BY <3>1
    <2>2. ~QueryPanics
      <3>1. QueryPanics => update'[u] = Orphaned(update[u])
        BY QueryPanicsTyped
      <3>2. Orphaned(update[u]).pc = "cut"
        BY OrphanedSound DEF MemoryTyped
      <3> QED BY <3>1, <3>2
    <2>3. ~ByHand
      BY ByHandTyped DEF Same
    <2>4. ~Crash
      <3>1. Crash => update'[u] = Ended("lost")
        BY DEF Crash, Active
      <3>2. Ended("lost").pc = "lost"
        BY IdleSound
      <3> QED BY <3>1, <3>2
    <2>5. ~Settled
      BY DEF Settled, memoryVars
    <2>6. ASSUME NEW v \in Updates, v # u PROVE ~StartUpdate(v) /\ ~Step(v)
      <3>1. Step(v) => Same(update'[u], update[u])
        BY <2>6, StepKeeps DEF OnlyStep
      <3>2. StartUpdate(v) => update'[u] = update[u]
        BY <2>6, StartUpdateTyped
      <3> QED BY <3>1, <3>2 DEF Same
    <2>7. ~StartUpdate(u) /\ ~Answer(u) /\ ~Retry(u) /\ ~Land(u)
      BY DEF StartUpdate, Answer, Retry, Land
    <2>8. ~FailStatement(u)
      <3>1. FailStatement(u) => update'[u].pc \in {"gaveup", "waiting"}
        BY FailStatementIs, FailsTyped
      <3> QED BY <3>1
    <2>9. Execute(u)
      BY <2>1, <2>2, <2>3, <2>4, <2>5, <2>6, <2>7, <2>8 DEF MemoryNext, Step
    <2> QED BY <2>9, DoneConverges
  <1> QED BY <1>1, MemoryInvariant, PTL DEF MemorySpec, RetryConverges

=============================================================================
