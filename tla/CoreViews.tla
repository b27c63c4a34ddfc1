------------------------------ MODULE CoreViews ------------------------------
(* The views of the page over every small input.  The subject is a plan, an   *)
(* operation to mock or a schema, and grows the way such inputs are nested: a *)
(* plan gets another node at its root, an operation another selection, a      *)
(* schema another field.  The properties compare each view with what it is a  *)
(* view of, by definitions that do not follow the code's walks.               *)
EXTENDS PlanViews, MockExecution, SchemaViews

CONSTANTS
  Plans, MaxNesting,       \* the planner's small plans, and how often one is wrapped
  ColouredQuery,           \* the operation in the editor whose fields get colours
  Selections, MaxSelections, Root, Configs, Seeds,
  Schemas, FieldTargets, MaxFields

VARIABLE subject

PlanOf(p, n) == [what |-> "plan", plan |-> p, nesting |-> n]
QueryOf(q, config, seed) ==
  [what |-> "query", query |-> q, config |-> config, seed |-> seed]
SchemaOf(s, n) == [what |-> "schema", schema |-> s, added |-> n]

Of(kind, nodes) == [kind |-> kind, nodes |-> nodes]
Flatten(node) == [kind |-> "Flatten", node |-> node]
Subscription(primary, rest) ==
  [kind |-> "Subscription", primary |-> primary, rest |-> rest]
Defer(primary, deferred) ==
  [kind |-> "Defer", primary |-> primary, deferred |-> deferred]
Condition(ifBranch, elseBranch) ==
  [kind |-> "Condition", ifBranch |-> ifBranch, elseBranch |-> elseBranch]

\* The plans with p below a new root.  The primary of a subscription is a fetch.
Around(p) ==
  {Flatten(p), Of("Parallel", <<p>>), Defer(p, <<>>), Condition(NoPlan, p)}
  \cup UNION {{Of("Sequence", <<p, q>>), Of("Sequence", <<q, p>>),
               Of("Parallel", <<p, q>>), Of("Parallel", <<q, p>>),
               Defer(q, <<p>>), Defer(NoPlan, <<q, NoPlan, p>>),
               Condition(p, q)} : q \in Plans}
  \cup {Subscription(q, p) : q \in {r \in Plans : r.kind = "Fetch"}}
  \cup (IF p.kind = "Fetch" THEN {Subscription(p, NoPlan)} ELSE {})

GrowPlan ==
  /\ subject.what = "plan"
  /\ subject.nesting < MaxNesting
  /\ \E p \in Around(subject.plan) : subject' = PlanOf(p, subject.nesting + 1)

GrowQuery ==
  /\ subject.what = "query"
  /\ Len(subject.query) < MaxSelections
  /\ \E s \in Selections : subject' = [subject EXCEPT !.query = Append(@, s)]

\* A field of t that leads to u; or another member of a union.
GrowSchema ==
  /\ subject.what = "schema"
  /\ subject.added < MaxFields
  /\ \E t \in DOMAIN subject.schema :
       \E u \in FieldTargets[subject.schema[t].kind] :
         /\ subject.schema[t].kind = "union" => ~Contains(subject.schema[t].fields, u)
         /\ subject' = SchemaOf([subject.schema EXCEPT ![t].fields = Append(@, u)],
                                subject.added + 1)

\* An operation that needs no fetch has an empty sequence for its plan.
Init ==
  subject \in {PlanOf(p, 0) : p \in Plans}
              \cup {PlanOf(Of("Sequence", <<>>), MaxNesting)}
              \cup {QueryOf(<<s>>, c, n) : s \in Selections, c \in Configs, n \in Seeds}
              \cup {SchemaOf(s, 0) : s \in Schemas}

Next == GrowPlan \/ GrowQuery \/ GrowSchema

Spec == Init /\ [][Next]_subject

-----------------------------------------------------------------------------
(* Plans *)

RECURSIVE Places(_, _)

\* The fetches of a plan, each as its path from the root: node kinds and turns.
Places(node, path) ==
  IF node.kind = "Fetch" THEN <<path>>
  ELSE LET nodes == planChildren(node)
       IN FlattenSeq([k \in DOMAIN nodes |->
                        Places(nodes[k], Append(path, <<node.kind, k>>))])

\* Where two of them part.
Parting(p, q) ==
  LET k == CHOOSE k \in DOMAIN p : p[k] # q[k] /\ \A j \in 1 .. k - 1 : p[j] = q[j]
  IN [kind |-> p[k][1], inOrder |-> p[k][2] < q[k][2]]

Precedes(p, q) ==
  /\ p # q
  /\ Parting(p, q).kind \in {"Sequence", "Subscription"}
  /\ Parting(p, q).inOrder

\* The timeline shows when a fetch can start: right after the last of the
\* fetches the plan puts before it, with one bar for the fetches of a service
\* that start together, in the plan's order; and a bar is critical exactly if no
\* other fetch runs beside its fetch or beside one before it (planToTimeline.ts).
TimelineCorrect ==
  subject.what = "plan" =>
    LET at == Places(subject.plan, <<>>)
        fetches == iterateFetches(subject.plan)
        t == planToTimeline(subject.plan)
        before(k) == {j \in DOMAIN at : Precedes(at[j], at[k])}
        start[k \in DOMAIN at] == Max({0} \cup {start[j] + 1 : j \in before(k)})
        alone(k) == \A j \in DOMAIN at \ {k} : j \in before(k) \/ k \in before(j)
        bar(k) == <<fetches[k].service, start[k]>>
        firsts == SetToSortSeq({k \in DOMAIN at : \A j \in 1 .. k - 1 : bar(j) # bar(k)}, <)
    IN /\ t.items = [n \in DOMAIN firsts |->
                      LET k == firsts[n]
                      IN [service |-> fetches[k].service, start |-> start[k],
                          critical |-> \A j \in before(k) \cup {k} : alone(j)]]
       /\ t.maxDepth = Max({0} \cup {start[k] + 1 : k \in DOMAIN at})

\* The sequence diagram read back is the plan: every fetch is one call to a
\* declared participant with its answer next, in the plan's order, the par
\* blocks are balanced and have at least two branches, and two calls stand in
\* different branches of a block exactly when their fetches part at a Parallel
\* node (planToMermaid.ts).
DiagramReadsBack ==
  subject.what = "plan" =>
    LET at == Places(subject.plan, <<>>)
        fetches == iterateFetches(subject.plan)
        lines == planToMermaid(subject.plan)
        all == DOMAIN lines
        these(what) == {k \in all : lines[k].what = what}
        calls == SetToSortSeq(these("call"), <)
        open(k) == Cardinality({j \in these("par") : j <= k})
                   - Cardinality({j \in these("end") : j <= k})
        branches(j, k) == \E a \in these("and") :
                            /\ j < a /\ a < k
                            /\ \A m \in j .. k : open(m) >= open(a)
    IN /\ Len(calls) = Len(fetches)
       /\ \A k \in DOMAIN calls :
            /\ lines[calls[k]].service = fetches[k].service
            /\ lines[calls[k] + 1] = Line("return", fetches[k].service)
            /\ Cardinality({j \in these("participant") :
                              lines[j].service = fetches[k].service}) = 1
       /\ \A k \in all : open(k) >= 0
       /\ Cardinality(these("par")) = Cardinality(these("end"))
       /\ \A p \in these("par") : \E a \in these("and") :
            p < a /\ \A m \in p .. a : open(m) >= open(p)
       /\ \A j, k \in DOMAIN calls :
            j < k => (branches(calls[j], calls[k])
                        <=> Parting(at[j], at[k]).kind = "Parallel")

RECURSIVE Contexts(_, _, _, _)

\* The fields of an operation: place, response name, name, the fields around it
\* and the types of the inline fragments around it, from the outside in.
Contexts(selections, place, under, types) ==
  UNION {LET s == selections[k]
             at == Append(place, k)
         IN CASE s.kind = "field" ->
                   {[at |-> at, key |-> s.key, name |-> s.name,
                     under |-> under, types |-> types]}
                   \cup Contexts(s.inner, at, Append(under, s.name), types)
              [] s.kind = "on" ->
                   Contexts(s.inner, at, under,
                            IF s.type = NoType THEN types ELSE Append(types, s.type))
              [] s.kind = "spread" -> Contexts(s.inner, <<s.fragment>>, under, types)
         : k \in DOMAIN selections}

FieldsOf(operation) == Contexts(operation, <<>>, <<>>, <<>>)

\* What a fetch is credited with: the fields at the top of its operation and
\* those one level below a field there, fragments aside, `_entities` standing for
\* the entities it fetches.  Deeper ones it resolves too, and gets no credit for.
Credited(operation) ==
  {c \in FieldsOf(operation) :
     IF operation[c.at[1]].kind = "on" \/ c.under = <<>>
     THEN c.under = <<>> /\ c.name # "_entities"
     ELSE Len(c.under) = 1 /\ (c.under[1] = "_entities" => c.types # <<>>)}

Innermost(types) == IF types = <<>> THEN NoType ELSE types[Len(types)]

\* A fetch counts for a field under the innermost of the types around it that
\* the fetch is credited with any field of, if it is credited there with one of
\* the field's name, or of its response name.
CountsFor(operation, field) ==
  LET known == {k \in DOMAIN field.types : \E c \in Credited(operation) :
                  Innermost(c.types) = field.types[k]}
      type == IF known = {} THEN NoType ELSE field.types[Max(known)]
  IN \E c \in Credited(operation) :
       Innermost(c.types) = type /\ c.name \in {field.name, field.key}


-----------------------------------------------------------------------------
(* Mocked answers *)

Possible(type) == IF kindOf(type) \in {"union", "interface"}
                  THEN ToSet(Types[type].members) ELSE {type}

RECURSIVE Collected(_, _)

\* The fields an operation asks of a type, as the GraphQL specification collects
\* them, a Boolean variable being false.
Collected(type, selections) ==
  FlattenSeq([k \in DOMAIN selections |->
    LET s == selections[k]
    IN IF s.include \in {"false", "variable"} \/ s.skip = "true" THEN <<>>
       ELSE IF s.kind = "field" THEN <<s>>
       ELSE IF s.type = "" \/ type \in Possible(s.type) THEN Collected(type, s.inner)
       ELSE <<>>])

RECURSIVE Conforms(_, _, _, _), Shaped(_, _, _)

\* The value answers these fields, which have one response key, with a value of
\* the type; `wanted` are the types an override asks for.
Conforms(v, type, fields, wanted) ==
  IF type.lists > 0
  THEN /\ v.kind = "list"
       /\ \A k \in DOMAIN v.items :
            type.lists = 1 => Conforms(v.items[k], Type(0, type.base, FALSE), fields, {})
  ELSE IF kindOf(type.base) \in {"builtin", "enum"} THEN v = Leaf
  ELSE IF kindOf(type.base) = "scalar" THEN v.kind # "null"
  ELSE /\ v.kind = "object"
       /\ v.type \in Possible(type.base)
       /\ wanted # {} => v.type \in wanted
       /\ Len(fields) = 1 => Shaped(v, v.type, fields[1].inner)

Shaped(v, type, selections) ==
  LET asked == Collected(type, selections)
      group(key) == SelectSeq(asked, LAMBDA f : f.key = key)
  IN /\ DOMAIN v.fields = {asked[k].key : k \in DOMAIN asked}
     /\ \A key \in DOMAIN v.fields :
          LET name == group(key)[1].name
              fieldType == Types[type].fields[name]
              ovr == IF <<type, name>> \in DOMAIN subject.config
                     THEN subject.config[<<type, name>>] ELSE NoOverride
              wanted == IF ovr.kind \in {"unionType", "oneOf"}
                        THEN ToSet(ovr.types) \cap Possible(fieldType.base) ELSE {}
              is == v.fields[key]
          IN IF name = "__typename" THEN is = Leaf
             ELSE IF ovr.kind = "null" /\ ~fieldType.nonNull THEN is = Null
             ELSE IF ovr.kind = "value" THEN is = Leaf
             ELSE IF wanted # {} /\ fieldType.lists > 0 THEN TRUE
             ELSE Conforms(is, fieldType, group(key), wanted)

\* The mocked answer is an answer to the operation: at every level the keys the
\* specification collects for the object's concrete type and no others, lists,
\* objects and leaves where the type has them, a null only where an override
\* puts one on a nullable field, and a concrete type that an override asked for
\* where it asks for a possible one (mock.rs).  Left open are what mock.rs
\* answers otherwise: the fields under a key that is asked for more than once
\* (the last selection replaces the others), lists of lists (one list), an
\* override of a list's type (no list), an override by a value (any value).
MockConforms ==
  subject.what = "query" =>
    Shaped(execute_mock(subject.query, Root, subject.seed, subject.config),
           Root, subject.query)

-----------------------------------------------------------------------------
(* Schemas *)

RECURSIVE Nodes(_, _), Reached(_, _)

\* The nodes of a tree, each with the types above it.
Nodes(fields, above) ==
  UNION {{[node |-> fields[k], above |-> above]}
         \cup Nodes(fields[k].children, above \cup {fields[k].type})
         : k \in DOMAIN fields}

Reached(types, edges) ==
  LET more == types \cup {e[2] : e \in {f \in edges : f[1] \in types}}
  IN IF more = types THEN types ELSE Reached(more, edges)

\* The schema tree ends, and hides nothing: below the fields of a root no type
\* is opened again under itself, what is marked as a cycle is one, every other
\* type is opened with all its fields; and the types the tree shows are those
\* that the type graph connects to the roots' fields (compose.rs).
TreeFaithful ==
  subject.what = "schema" =>
    LET schema == subject.schema
        trees == ToSet(build_schema_tree(schema))
        below == UNION {UNION {Nodes(t.fields[k].children, {t.root, t.fields[k].type})
                               : k \in DOMAIN t.fields} : t \in trees}
        tops == UNION {{[node |-> t.fields[k], above |-> {}] : k \in DOMAIN t.fields}
                       : t \in trees}
        typesOf(nodes) == {n.node.type : n \in nodes} \cap typeNodes(schema)
    IN /\ \A n \in below \cup tops :
            LET u == n.node.type
                leaf == u \notin DOMAIN schema \/ schema[u].kind \in {"scalar", "enum"}
            IN /\ n.node.isLeaf = leaf
               /\ n.node.isCycleRef = (~leaf /\ u \in n.above)
               /\ IF leaf \/ u \in n.above THEN n.node.children = <<>>
                  ELSE [k \in DOMAIN n.node.children |-> n.node.children[k].type]
                         = schema[u].fields
       /\ typesOf(below \cup tops) = Reached(typesOf(tops), typeEdges(schema))

\* The entity graph has one edge per id that the page gives its edges, so that
\* none hides another on the canvas, and one for every pair of subgraphs that a
\* field between entities can cross; each edge joins two nodes and stands for a
\* field (compose.rs, schemaToEntityGraph.ts).
EdgesOncePerId ==
  subject.what = "schema" =>
    LET schema == subject.schema
        edges == entityEdges(schema)
        nodes == ToSet(entityNodes(schema))
    IN /\ \A j, k \in DOMAIN edges : edgeId(edges[j]) = edgeId(edges[k]) => j = k
       /\ \A k \in DOMAIN edges :
            LET e == edges[k]
            IN /\ {e.source, e.target} \subseteq nodes
               /\ Contains(schema[e.source.type].fields, e.target.type)
               /\ keyFields(schema, e.target) = {schema[e.target.type].keys[e.target.subgraph][1]}
       /\ \A n, m \in nodes :
            (n.subgraph # m.subgraph /\ Contains(schema[n.type].fields, m.type))
              => \E k \in DOMAIN edges :
                   edgeId(edges[k]) = <<n.subgraph, m.subgraph, m.type>>

\* The pages that draw a schema show all of it once: the tree, and the edges
\* of the entity graph (compose.rs, schemaToEntityGraph.ts).
SchemaViewsFaithful == TreeFaithful /\ EdgesOncePerId
=============================================================================
