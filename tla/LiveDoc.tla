------------------------------ MODULE LiveDoc ------------------------------
(* The shared document of a live session as the relay and the pages use      *)
(* Yjs: a set of inserted items and a set of deleted ones, merged by union.   *)
(* An item is named by the page that made it and its number there.  Yjs is a  *)
(* library; this is what src/live-sync and src/web call of it.                *)
EXTENDS Integers, FiniteSets

CONSTANT Pages      \* the browser pages that take part: numbers

ASSUME PagesAssumption == Pages \subseteq Nat

Ids == Pages \X (Nat \ {0})
Docs == [ins : SUBSET Ids, del : SUBSET Ids]

Empty == [ins |-> {}, del |-> {}]

\* Y.applyUpdate: an update is a document, the order of updates is irrelevant.
Merge(d, u) == [ins |-> d.ins \cup u.ins, del |-> d.del \cup u.del]

Within(d, e) == d.ins \subseteq e.ins /\ d.del \subseteq e.del

\* The items before a gap are integrated, those behind one wait for it.
Integrated(d) == {i \in d.ins : \A k \in 1..i[2] : <<i[1], k>> \in d.ins}

\* encodeStateVector: how many items of each page are integrated.
Vector(d) == [c \in Pages |-> Cardinality({i \in Integrated(d) : i[1] = c})]

\* encodeStateAsUpdate: what a holder of the vector misses; deletions always
\* go along.
Diff(d, sv) == [ins |-> {i \in d.ins : i[2] > sv[i[1]]}, del |-> d.del]
=============================================================================
