----------------------------- MODULE GraphStore -----------------------------
(***************************************************************************)
(* The memory graph kept in Neo4j, as a value, and the Cypher statements   *)
(* of neo4j_model.rs and actor_memory.rs as operators on it.  Nothing in   *)
(* the code creates a uniqueness constraint, so nodes of one label and one *)
(* name may be many, and every statement acts on all that match.           *)
(***************************************************************************)
EXTENDS Naturals, FiniteSets, Sequences, SequencesExt

CONSTANTS NodeIds,    \* internal ids of nodes, reused after a deletion (bound)
          RelNumbers, \* what tells parallel relations apart (bound)
          Labels, Names,
          Root,       \* the label of the node of the assistant
          Wo,         \* its name as long as no other is known
          NoName      \* the property "name" is missing

ASSUME StoreAssumption ==
    /\ Root \in Labels /\ Wo \in Names /\ NoName \notin Names
    /\ RelNumbers \subseteq Nat /\ 1 \in RelNumbers

\* What an operation names a node by.
Key == [label : Labels, name : Names]

\* A relation type is a sequence of characters, of which three kinds matter:
\* "K" (an upper-case letter or a digit), "u" (an underscore) and "x" (anything else).  Types that are
\* not all "K" and "u" are accepted between backticks only.
Types == Seq({"K", "u", "x"})
Plain(t) == t \in Types /\ t # <<>> /\ \A i \in DOMAIN t : t[i] # "x"
RelatedTo == <<"K", "u", "K">>

\* Properties other than the name are left out.
Node == [id : NodeIds, label : Labels, name : Names \cup {NoName}]

Empty == [nodes |-> {}, rels |-> {}]

Matching(g, k) == {n \in g.nodes : n.label = k.label /\ n.name = k.name}
Ids(nodes) == {n.id : n \in nodes}

\* The relations of one type between two keys.
Between(g, a, t, b) ==
    {r \in g.rels : /\ r.type = t /\ r.from \in Ids(Matching(g, a))
                    /\ r.to \in Ids(Matching(g, b))}

\* CREATE.
AddNode(g, k) ==
    [g EXCEPT !.nodes = @ \cup
        {[id |-> CHOOSE i \in NodeIds : i \notin Ids(g.nodes),
          label |-> k.label, name |-> k.name]}]

\* Mutant: CREATE in place of MERGE.
MergeNodeCreates(g, k, blind) == AddNode(g, k)

\* MERGE of a node.  A key in blind is one that the statement did not find when
\* it began: without a constraint it creates the node although another
\* transaction has done so meanwhile.
MergeNode(g, k, blind) ==
    IF Matching(g, k) = {} \/ k \in blind THEN AddNode(g, k) ELSE g

\* The nodes a MERGE binds: the one it created or all that it found.
Merged(g, k, blind) ==
    LET new == MergeNode(g, k, blind).nodes \ g.nodes
    IN  IF new = {} THEN Matching(g, k) ELSE new

MergeRelation(g, a, t, b, blind) ==
    LET g1 == MergeNode(g, a, blind)
        g2 == MergeNode(g1, b, blind \ {a})
        new == {p \in Ids(Merged(g, a, blind)) \X Ids(Merged(g1, b, blind \ {a})) :
                  ~ \E r \in g.rels : r.from = p[1] /\ r.type = t /\ r.to = p[2]}
    IN  [g2 EXCEPT !.rels = @ \cup
            {[from |-> p[1], type |-> t, to |-> p[2], nr |-> 1] : p \in new}]

\* Mutant: DELETE leaves the relations.
DeleteNodes(g, ids) == [g EXCEPT !.nodes = {n \in @ : n.id \notin ids}]

\* DETACH DELETE.
DetachDelete(g, ids) ==
    [nodes |-> {n \in g.nodes : n.id \notin ids},
     rels |-> {r \in g.rels : r.from \notin ids /\ r.to \notin ids}]

\* CREATE of a relation, be there one or not.
Numbers(g, from, t, to) ==
    {r.nr : r \in {q \in g.rels : q.from = from /\ q.type = t /\ q.to = to}}
AddRelation(g, from, t, to) ==
    [g EXCEPT !.rels = @ \cup
        {[from |-> from, type |-> t, to |-> to,
          nr |-> CHOOSE i \in RelNumbers : i \notin Numbers(g, from, t, to)]}]

DropRelations(g, rs) == [g EXCEPT !.rels = @ \ rs]

\* SET n.name, or its removal.
Rename(g, ids, name) ==
    [g EXCEPT !.nodes = {IF n.id \in ids THEN [n EXCEPT !.name = name] ELSE n : n \in @}]

\* sanitize_relationship_type: one underscore for every run of characters that
\* are neither letters nor digits, none at the ends.
Sanitize(raw) ==
    LET kept == {i \in DOMAIN raw :
                   \/ raw[i] = "K"
                   \/ /\ i > 1 /\ raw[i - 1] = "K"
                      /\ \E j \in DOMAIN raw : j > i /\ raw[j] = "K"}
        order == SetToSortSeq(kept, <)
    IN  IF kept = {} THEN RelatedTo
        ELSE [n \in 1..Cardinality(kept) |-> IF raw[order[n]] = "K" THEN "K" ELSE "u"]

-----------------------------------------------------------------------------
(* The operations a language model may answer with (Neo4jOperation), and   *)
(* the statements each is executed as.                                     *)

Operation == [do : STRING, a : Key, t : Types, b : Key, new : Types,
              props : {s \in SUBSET STRING : IsFiniteSet(s)}]
Verbs == {"merge", "relate", "unrelate", "delete", "set", "remove", "set_rel", "remove_rel",
          "malformed"}
Statement == [do : Verbs, a : Key, t : Types, b : Key, p : STRING \cup {"none"}]
Stmt(do, a, t, b, p) == [do |-> do, a |-> a, t |-> t, b |-> b, p |-> p]

\* One statement for every property, in the order of a HashMap.
PerProp(st, props) ==
    {[i \in DOMAIN q |-> [st EXCEPT !.p = q[i]]] : q \in SetToSeqs(props)}

\* An operation without a field it needs fails before its first statement.
Statements(op) ==
    LET one(do, t) == Stmt(do, op.a, t, op.b, "none")
    IN  CASE op.do = "UpdateNodeProperty" -> PerProp(one("set", op.t), op.props \ {"name"})
          [] op.do = "DeleteNodeProperty" -> PerProp(one("remove", op.t), op.props)
          [] op.do = "UpdateRelationshipProperty" -> PerProp(one("set_rel", op.t), op.props)
          [] op.do = "DeleteRelationshipProperty" -> PerProp(one("remove_rel", op.t), op.props)
          [] op.do = "UpdateRelationship" -> {<<one("unrelate", op.t), one("relate", op.new)>>}
          [] op.do = "CreateNode" -> {<<one("merge", op.t)>>}
          [] op.do = "CreateRelationship" -> {<<one("relate", op.t)>>}
          [] op.do = "DeleteNode" -> {<<one("delete", op.t)>>}
          [] op.do = "DeleteRelationship" -> {<<one("unrelate", op.t)>>}
          [] OTHER -> {<<one("malformed", op.t)>>}

\* The keys a statement MERGEs, and those of them it does not find.
MergedKeys(st) ==
    CASE st.do = "merge" -> {st.a} [] st.do = "relate" -> {st.a, st.b} [] OTHER -> {}
Absent(g, st) == {k \in MergedKeys(st) : Matching(g, k) = {}}
Room(g, st) == MergedKeys(st) = {} \/ ~ \A i, j \in NodeIds \ Ids(g.nodes) : i = j

\* Only MERGE writes the relation type without backticks.
Rejected(st) == st.do = "malformed" \/ (st.do = "relate" /\ ~Plain(st.t))

\* What is written to other properties does not show here.
Executed(g, st, blind) ==
    CASE st.do = "merge" -> MergeNode(g, st.a, blind)
      [] st.do = "relate" -> MergeRelation(g, st.a, st.t, st.b, blind)
      [] st.do = "delete" -> DetachDelete(g, Ids(Matching(g, st.a)))
      [] st.do = "unrelate" -> DropRelations(g, Between(g, st.a, st.t, st.b))
      [] st.do = "remove" /\ st.p = "name" -> Rename(g, Ids(Matching(g, st.a)), NoName)
      [] OTHER -> g

=============================================================================
