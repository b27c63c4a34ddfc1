------------------------------ MODULE PlanViews ------------------------------
(* What the page shows of a query plan.  crates/gql-core/src/plan.rs tells    *)
(* which fields a fetch resolves; planWalk.ts, planToTimeline.ts,             *)
(* planToMermaid.ts and planToFieldRanges.ts of web/src turn the plan into a  *)
(* timeline, a sequence diagram and the colours of the query's fields.        *)
(* Labels and other texts are left out.                                       *)
EXTENDS Integers, SequencesExt

NoPlan == [kind |-> "none"]

\* A field, with the response name it is asked under: its alias, or its name.
Selected(key, name, inner) ==
  [kind |-> "field", key |-> key, name |-> name, inner |-> inner]
On(type, inner) == [kind |-> "on", type |-> type, inner |-> inner]
Spread(fragment, inner) == [kind |-> "spread", fragment |-> fragment, inner |-> inner]

\* A fetch with its operation: selections, those of an entity fetch under
\* `_entities`.
Fetch(service, operation) ==
  [kind |-> "Fetch", service |-> service, operation |-> operation]

-----------------------------------------------------------------------------
(* plan.rs: the fields a fetch resolves, each with the type it is selected on *)

\* No type condition: a fragment without one stands for what is around it.
NoType == "none"

RECURSIVE collect_leaf_fields(_, _)

\* Fields under a field are not looked at: one level, through fragments.
collect_leaf_fields(selections, type) ==
  UNION {LET s == selections[k]
         IN IF s.kind = "field" THEN {<<s.name, type>>}
            ELSE collect_leaf_fields(s.inner, IF s.type = NoType THEN type ELSE s.type)
         : k \in DOMAIN selections}

extract_resolved_fields(operation) ==
  UNION {LET s == operation[k]
         IN CASE s.kind = "on" -> collect_leaf_fields(s.inner, s.type)
              [] s.name = "_entities" ->
                   UNION {collect_leaf_fields(s.inner[j].inner, s.inner[j].type) :
                            j \in {i \in DOMAIN s.inner : s.inner[i].kind = "on"}}
              [] OTHER -> {<<s.name, NoType>>} \cup collect_leaf_fields(s.inner, NoType)
         : k \in DOMAIN operation}

-----------------------------------------------------------------------------
(* planWalk.ts *)

Present(nodes) == SelectSeq(nodes, LAMBDA n : n # NoPlan)

planChildren(node) ==
  CASE node.kind = "Fetch" -> <<>>
    [] node.kind \in {"Sequence", "Parallel"} -> node.nodes
    [] node.kind = "Flatten" -> <<node.node>>
    [] node.kind = "Subscription" -> <<node.primary>> \o Present(<<node.rest>>)
    [] node.kind = "Defer" -> Present(<<node.primary>> \o node.deferred)
    [] node.kind = "Condition" -> Present(<<node.ifBranch, node.elseBranch>>)

RECURSIVE iterateFetches(_)

iterateFetches(root) ==
  IF root.kind = "Fetch" THEN <<root>>
  ELSE LET nodes == planChildren(root)
       IN FlattenSeq([k \in DOMAIN nodes |-> iterateFetches(nodes[k])])

collectServiceNames(root) ==
  FoldLeft(LAMBDA names, f : IF Contains(names, f.service) THEN names
                             ELSE Append(names, f.service),
           <<>>, iterateFetches(root))

-----------------------------------------------------------------------------
(* planToTimeline.ts: columns.  walk returns the column a subtree ends before *)
(* and its items, the fetches in order.                                       *)

Span(end, items) == [end |-> end, items |-> items]

RECURSIVE walk(_, _)

\* Mutant of InTurn: the next child starts one column on, however deep the last.
OneOn(nodes, depth) ==
  FoldLeft(LAMBDA t, n : LET w == walk(n, t.end)
                         IN Span(t.end + 1, t.items \o w.items),
           Span(depth, <<>>), nodes)

\* Children one after the other, ...
InTurn(nodes, depth) ==
  FoldLeft(LAMBDA t, n : LET w == walk(n, t.end) IN Span(w.end, t.items \o w.items),
           Span(depth, <<>>), nodes)

\* ... or side by side.
Together(nodes, depth) ==
  FoldLeft(LAMBDA t, n : LET w == walk(n, depth)
                         IN Span(IF w.end > t.end THEN w.end ELSE t.end,
                                 t.items \o w.items),
           Span(depth, <<>>), nodes)

walk(node, depth) ==
  IF node.kind = "Fetch"
  THEN Span(depth + 1, <<[service |-> node.service, start |-> depth]>>)
  ELSE IF node.kind \in {"Sequence", "Subscription", "Flatten"}
  THEN InTurn(planChildren(node), depth)
  ELSE Together(planChildren(node), depth)

depthCount(items, d) == Cardinality({k \in DOMAIN items : items[k].start = d})

\* The columns from 0 on that hold one fetch each.
criticalEnd(items, maxDepth) ==
  CHOOSE e \in 0 .. maxDepth :
    /\ \A d \in 0 .. e - 1 : depthCount(items, d) = 1
    /\ e < maxDepth => depthCount(items, e) # 1

isOnCriticalPath(items, maxDepth, item) == item.start < criticalEnd(items, maxDepth)

sameBar(a, b) == a.service = b.service /\ a.start = b.start

\* Mutant of mergedItems: fetches of one service share a bar in any column.
OneBarPerService(items) ==
  FoldLeft(LAMBDA bars, i : IF \E k \in DOMAIN bars : bars[k].service = i.service
                            THEN bars ELSE Append(bars, i),
           <<>>, items)

\* Fetches of one service in one column share the bar of the first of them,
\* which is critical if they all are.
mergedItems(items) ==
  FoldLeft(LAMBDA bars, i :
             IF \E k \in DOMAIN bars : sameBar(bars[k], i)
             THEN [k \in DOMAIN bars |->
                     IF sameBar(bars[k], i)
                     THEN [bars[k] EXCEPT !.critical = @ /\ i.critical] ELSE bars[k]]
             ELSE Append(bars, i),
           <<>>, items)

planToTimeline(root) ==
  LET w == walk(root, 0)
      finalItems == [k \in DOMAIN w.items |->
                       [service |-> w.items[k].service, start |-> w.items[k].start,
                        critical |-> isOnCriticalPath(w.items, w.end, w.items[k])]]
  IN [items |-> mergedItems(finalItems), maxDepth |-> w.end]

-----------------------------------------------------------------------------
(* planToMermaid.ts: lines *)

Line(what, service) == [what |-> what, service |-> service]
Mark(what) == Line(what, "Router")

RECURSIVE emitLines(_)

\* Mutant of Block: a single branch is wrapped as well.
AlwaysWrapped(nodes) ==
  IF nodes = <<>> THEN <<>>
  ELSE <<Mark("par")>> \o emitLines(Head(nodes))
       \o FlattenSeq([k \in 1 .. Len(nodes) - 1 |->
                        <<Mark("and")>> \o emitLines(nodes[k + 1])])
       \o <<Mark("end")>>

\* A par block needs two branches.
Block(nodes) ==
  IF Len(nodes) < 2 THEN FlattenSeq([k \in DOMAIN nodes |-> emitLines(nodes[k])])
  ELSE <<Mark("par")>> \o emitLines(Head(nodes))
       \o FlattenSeq([k \in 1 .. Len(nodes) - 1 |->
                        <<Mark("and")>> \o emitLines(nodes[k + 1])])
       \o <<Mark("end")>>

emitLines(node) ==
  IF node.kind = "Fetch"
  THEN <<Line("call", node.service), Line("return", node.service)>>
  ELSE IF node.kind = "Parallel" THEN Block(node.nodes)
  ELSE LET nodes == planChildren(node)
       IN FlattenSeq([k \in DOMAIN nodes |-> emitLines(nodes[k])])

planToMermaid(root) ==
  LET names == collectServiceNames(root)
  IN [k \in DOMAIN names |-> Line("participant", names[k])] \o emitLines(root)

-----------------------------------------------------------------------------
(* planToFieldRanges.ts: a field of the query is named by its place, the path *)
(* of indices to it from the operation or from its fragment, a number.       *)

matchedNames(resolved) == {r[1] : r \in {q \in resolved : q[2] = NoType}}

\* Mutant of entityFields: a fragment keeps the names from outside.
FromOutside(resolved, type, names) == names

\* Inside `... on type`, the fields an entity fetch resolves for that type.
entityFields(resolved, type, names) ==
  IF type # NoType /\ \E r \in resolved : r[2] = type
  THEN {r[1] : r \in {q \in resolved : q[2] = type}}
  ELSE names


isMatch(field, names) == {field.key, field.name} \cap names # {}

RECURSIVE walkSelectionSet(_, _, _, _)

\* The places that a fetch with these resolved fields is taken to resolve.
walkSelectionSet(selections, names, resolved, place) ==
  UNION {LET s == selections[k]
             at == Append(place, k)
         IN IF s.kind = "field"
            THEN (IF isMatch(s, names) THEN {at} ELSE {})
                 \cup walkSelectionSet(s.inner, names, resolved, at)
            ELSE IF s.kind = "spread"
            THEN walkSelectionSet(s.inner, names, resolved, <<s.fragment>>)
            ELSE walkSelectionSet(s.inner, entityFields(resolved, s.type, names),
                                  resolved, at)
         : k \in DOMAIN selections}

\* The last fetch wins.
planToFieldRanges(root, query) ==
  LET fetches == iterateFetches(root)
      fields == [k \in DOMAIN fetches |-> extract_resolved_fields(fetches[k].operation)]
      places == [k \in DOMAIN fetches |->
                   walkSelectionSet(query, matchedNames(fields[k]), fields[k], <<>>)]
      last(p) == CHOOSE k \in DOMAIN fetches :
                   p \in places[k] /\ \A j \in DOMAIN fetches : p \in places[j] => j <= k
  IN [p \in UNION {places[k] : k \in DOMAIN fetches} |-> fetches[last(p)].service]
=============================================================================
