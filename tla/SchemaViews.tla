------------------------------ MODULE SchemaViews ------------------------------
(* What the page shows of a composed schema, crates/gql-core/src/compose.rs:  *)
(* the entity graph, the type graph and the schema tree, and what             *)
(* schemaToEntityGraph.ts makes of the first.  Names the federation machinery *)
(* adds are left out.                                                         *)
EXTENDS Integers, SequencesExt

CONSTANTS TypeNames, Subgraphs, Roots   \* sequences in the order of the names

\* A schema: name -> [kind, fields, keys].  `fields`: the types the fields lead
\* to, or the members of a union.  `keys`: subgraph -> the keys that the
\* @join__type directives of an object give it there.
Kinds == {"object", "interface", "union", "input", "scalar", "enum"}

isEntity(schema, t) ==
  t \in DOMAIN schema /\ schema[t].kind = "object" /\ schema[t].keys # <<>>

Each(s, op(_)) == FlattenSeq([k \in DOMAIN s |-> op(s[k])])

Keep(edges, e, same(_, _)) ==
  IF \E k \in DOMAIN edges : same(edges[k], e) THEN edges ELSE Append(edges, e)

-----------------------------------------------------------------------------
(* build_entity_graph *)

entityNodes(schema) ==
  Each(SelectSeq(TypeNames, LAMBDA t : isEntity(schema, t)),
       LAMBDA t : Each(SelectSeq(Subgraphs, LAMBDA s : s \in DOMAIN schema[t].keys),
                       LAMBDA s : <<[subgraph |-> s, type |-> t]>>))

\* The fields that lead from an entity to an entity, for every two different
\* subgraphs that own them.
crossings(schema) ==
  LET nodes == entityNodes(schema)
  IN Each(nodes, LAMBDA n :
       Each(SelectSeq(schema[n.type].fields, LAMBDA u : isEntity(schema, u)), LAMBDA u :
         Each(SelectSeq(nodes, LAMBDA m : m.type = u /\ m.subgraph # n.subgraph), LAMBDA m :
           <<[source |-> n, target |-> m, label |-> schema[u].keys[m.subgraph][1]]>>)))

\* Mutant of sameEdgeKey: the type at the source is part of the key.
SourceTypeToo(e, f) == e.source = f.source /\ e.target = f.target

\* The type at the source is not part of the key.
sameEdgeKey(e, f) == e.source.subgraph = f.source.subgraph /\ e.target = f.target

entityEdges(schema) ==
  FoldLeft(LAMBDA edges, e : Keep(edges, e, sameEdgeKey), <<>>, crossings(schema))

\* schemaToEntityGraph: an edge's id for React, and the keys a node shows: the
\* labels of the edges that lead to it.
edgeId(e) == <<e.source.subgraph, e.target.subgraph, e.target.type>>

keyFields(schema, n) ==
  {e.label : e \in {f \in ToSet(entityEdges(schema)) : f.target = n}}

-----------------------------------------------------------------------------
(* build_type_graph: no root operation types, no built-in scalars *)

typeNodes(schema) == {t \in DOMAIN schema : ~Contains(Roots, t)}

typeEdges(schema) ==
  {e \in typeNodes(schema) \X typeNodes(schema) :
     /\ schema[e[1]].kind \in {"object", "interface", "input", "union"}
     /\ e[1] # e[2]
     /\ Contains(schema[e[1]].fields, e[2])}

-----------------------------------------------------------------------------
(* build_schema_tree: what a field of a type leads to, down to types that are *)
(* being expanded already.                                                    *)

is_schema_tree_leaf(schema, t) ==
  t \notin DOMAIN schema \/ schema[t].kind \in {"scalar", "enum"}

TreeField(t, leaf, cycle, children) ==
  [type |-> t, isLeaf |-> leaf, isCycleRef |-> cycle, children |-> children]

\* Mutant of rootPath: the type of the root field is forgotten.
OnlyRoot(root, t) == {root}

\* The types that are not expanded below a root field of type t.
rootPath(root, t) == {root, t}

RECURSIVE build_schema_tree_children(_, _, _)

build_schema_tree_children(schema, t, path) ==
  IF schema[t].kind \notin {"object", "interface", "union"} THEN <<>>
  ELSE LET targets == schema[t].fields
       IN [k \in DOMAIN targets |->
             LET u == targets[k]
                 leaf == is_schema_tree_leaf(schema, u)
                 cycle == ~leaf /\ u \in path
             IN TreeField(u, leaf, cycle,
                          IF leaf \/ cycle THEN <<>>
                          ELSE build_schema_tree_children(schema, u, path \cup {u}))]

\* The fields of a root are never cycle references.
rootFields(schema, root) ==
  LET targets == schema[root].fields
  IN [k \in DOMAIN targets |->
        LET u == targets[k]
            leaf == is_schema_tree_leaf(schema, u)
        IN TreeField(u, leaf, FALSE,
                     IF leaf THEN <<>>
                     ELSE build_schema_tree_children(schema, u, rootPath(root, u)))]

build_schema_tree(schema) ==
  Each(SelectSeq(Roots, LAMBDA r : r \in DOMAIN schema /\ schema[r].fields # <<>>),
       LAMBDA r : <<[root |-> r, fields |-> rootFields(schema, r)]>>)
=============================================================================
