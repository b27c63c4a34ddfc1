-------------------------- MODULE LiveBindingProofs --------------------------
(* The workspace of a bound page shows the shared document, and what a page   *)
(* writes into the document leaves the text of observed tabs in it: for any   *)
(* pages, contents, connections, faults and days.                             *)
EXTENDS LiveSyncProofs

USE PagesAssumption, RelayAssumption, SessionAssumption

-----------------------------------------------------------------------------
(* What a field holds, by the items that are live in it.                      *)

\* Contents by its recursion.
LEMMA ContentsJoined ==
  ASSUME NEW t, t.made \in Shapes, t.doc \in MadeDocs(t.made), NEW f
  PROVE  \E g : Joins(t.made, SUBSET Live(t, f), g) /\ Contents(t, f) = g[Live(t, f)]
<1> DEFINE L == Live(t, f)
           n == Cardinality(L)
           g == CHOOSE h : Joins(t.made, SUBSET L, h)
<1>1. L \in SUBSET Items(t.made) /\ L \in SUBSET Ids /\ IsFiniteSet(L) /\ n \in Nat
  BY LiveItems, FS_CardinalityType
<1>2. Small(L, n) = SUBSET L
  <2>1. \A S \in SUBSET L : Cardinality(S) <= n
    BY <1>1, FS_Subset
  <2> QED
    BY <2>1 DEF Small
<1>3. Contents(t, f) = g[L]
  BY ContentsUnfolded
<1> HIDE DEF L, n
<1>4. \E h : Joins(t.made, Small(L, n), h)
  BY <1>1, JoinsExist
<1>5. \E h : Joins(t.made, SUBSET L, h)
  BY <1>2, <1>4, Zenon
<1>6. Joins(t.made, SUBSET L, g)
  BY <1>5, Zenon
<1> QED
  BY <1>3, <1>6, Zenon DEF L

LEMMA ContentsOfNone ==
  ASSUME NEW t, t.made \in Shapes, t.doc \in MadeDocs(t.made), NEW f, Live(t, f) = {}
  PROVE  Contents(t, f) = <<>>
<1>1. PICK g : Joins(t.made, SUBSET Live(t, f), g) /\ Contents(t, f) = g[Live(t, f)]
  BY ContentsJoined
<1>2. {} \in SUBSET Live(t, f)
  OBVIOUS
<1>3. g[{}] = <<>>
  BY <1>1, <1>2 DEF Joins
<1> QED
  BY <1>1, <1>3

LEMMA ContentsOfOne ==
  ASSUME NEW t, t.made \in Shapes, t.doc \in MadeDocs(t.made), NEW f, NEW i, Live(t, f) = {i}
  PROVE  Contents(t, f) = Value(t.made, i)
<1>1. PICK g : Joins(t.made, SUBSET {i}, g) /\ Contents(t, f) = g[{i}]
  BY ContentsJoined
<1>2. {i} \in SUBSET Ids /\ i \in Items(t.made)
  BY LiveItems
<1>3. FirstOf({i}) = i
  BY <1>2, FirstOfIsOne
<1>4. {} \in SUBSET {i} /\ {i} \in SUBSET {i} /\ {i} \ {i} = {} /\ {i} # {}
  OBVIOUS
<1>5. g[{}] = <<>> /\ g[{i}] = Value(t.made, i) \o g[{}]
  BY <1>1, <1>3, <1>4 DEF Joins
<1>6. Value(t.made, i) \in Seq(Nat)
  BY <1>2, ValueType
<1> QED
  BY <1>1, <1>5, <1>6, ConcatEmptySeq

\* Two turns with the same items in a field, of the same values, read the same.
LEMMA ContentsAgree ==
  ASSUME NEW t, t.made \in Shapes, t.doc \in MadeDocs(t.made), NEW s, NEW f,
         Live(s, f) = Live(t, f),
         \A i \in Live(t, f) : Value(s.made, i) = Value(t.made, i)
  PROVE  Contents(s, f) = Contents(t, f)
<1> DEFINE L == Live(t, f)
<1>1. \A S \in SUBSET L : S # {} => FirstOf(S) \in L
  <2>1. L \in SUBSET Ids
    BY LiveItems
  <2> QED
    BY <2>1, FirstOfIsOne
<1>2. /\ Contents(t, f) = (CHOOSE g : Joins(t.made, SUBSET L, g))[L]
      /\ Contents(s, f) = (CHOOSE g : Joins(s.made, SUBSET L, g))[L]
  BY ContentsUnfolded
<1>3. \A i \in L : Value(s.made, i) = Value(t.made, i)
  OBVIOUS
<1> HIDE DEF L
<1>4. ASSUME NEW g PROVE Joins(s.made, SUBSET L, g) <=> Joins(t.made, SUBSET L, g)
  <2>1. ASSUME NEW S \in SUBSET L
        PROVE  (IF S = {} THEN <<>> ELSE Value(s.made, FirstOf(S)) \o g[S \ {FirstOf(S)}])
               = (IF S = {} THEN <<>> ELSE Value(t.made, FirstOf(S)) \o g[S \ {FirstOf(S)}])
    BY <1>1, <1>3
  <2>2. [S \in SUBSET L |->
           IF S = {} THEN <<>> ELSE Value(s.made, FirstOf(S)) \o g[S \ {FirstOf(S)}]]
        = [S \in SUBSET L |->
             IF S = {} THEN <<>> ELSE Value(t.made, FirstOf(S)) \o g[S \ {FirstOf(S)}]]
    BY <2>1
  <2> QED
    BY <2>2, Zenon DEF Joins
<1>5. (CHOOSE g : Joins(s.made, SUBSET L, g)) = (CHOOSE g : Joins(t.made, SUBSET L, g))
  BY <1>4
<1> QED
  BY <1>2, <1>5

\* What is in a field is what its items say.
Said(m, S) == UNION {ToSet(Value(m, i)) : i \in S}

LEMMA ElementsOfBoth ==
  ASSUME NEW a \in Seq(Nat), NEW b \in Seq(Nat)
  PROVE  ToSet(a \o b) = ToSet(a) \cup ToSet(b)
<1> DEFINE c == a \o b
<1>1. /\ Len(a) \in Nat /\ DOMAIN a = 1..Len(a) /\ Len(b) \in Nat /\ DOMAIN b = 1..Len(b)
      /\ c \in Seq(Nat) /\ Len(c) = Len(a) + Len(b) /\ DOMAIN c = 1..(Len(a) + Len(b))
      /\ \A i \in 1..(Len(a) + Len(b)) : c[i] = IF i <= Len(a) THEN a[i] ELSE b[i - Len(a)]
  BY ConcatProperties, LenProperties
<1> HIDE DEF c
<1>2. ASSUME NEW x \in ToSet(c) PROVE x \in ToSet(a) \cup ToSet(b)
  <2>1. PICK i \in 1..(Len(a) + Len(b)) : x = c[i]
    BY <1>1, <1>2 DEF ToSet
  <2>2. CASE i <= Len(a)
    <3>1. i \in 1..Len(a) /\ x = a[i]
      BY <1>1, <2>1, <2>2
    <3> QED
      BY <1>1, <3>1 DEF ToSet
  <2>3. CASE ~ (i <= Len(a))
    <3>1. i - Len(a) \in 1..Len(b) /\ x = b[i - Len(a)]
      BY <1>1, <2>1, <2>3
    <3> QED
      BY <1>1, <3>1 DEF ToSet
  <2> QED
    BY <2>2, <2>3
<1>3. ASSUME NEW x \in ToSet(a) PROVE x \in ToSet(c)
  <2>1. PICK i \in 1..Len(a) : x = a[i]
    BY <1>1, <1>3 DEF ToSet
  <2>2. i \in 1..(Len(a) + Len(b)) /\ c[i] = a[i]
    BY <1>1
  <2> QED
    BY <1>1, <2>1, <2>2 DEF ToSet
<1>4. ASSUME NEW x \in ToSet(b) PROVE x \in ToSet(c)
  <2>1. PICK i \in 1..Len(b) : x = b[i]
    BY <1>1, <1>4 DEF ToSet
  <2>2. PICK j : j = i + Len(a)
    OBVIOUS
  <2>3. j \in 1..(Len(a) + Len(b)) /\ ~ (j <= Len(a)) /\ j - Len(a) = i
    <3>1. Len(a) \in Nat /\ Len(b) \in Nat
      BY <1>1
    <3>2. i \in Nat /\ 1 <= i /\ i <= Len(b)
      BY <3>1
    <3> QED
      BY <2>2, <3>1, <3>2
  <2>4. c[j] = b[i]
    BY <1>1, <2>3
  <2> QED
    BY <1>1, <2>1, <2>3, <2>4 DEF ToSet
<1> QED
  BY <1>2, <1>3, <1>4 DEF c

LEMMA JoinsElements ==
  ASSUME NEW m \in Shapes, NEW L \in SUBSET Items(m), IsFiniteSet(L), NEW g,
         Joins(m, SUBSET L, g)
  PROVE  \A S \in SUBSET L : ToSet(g[S]) = Said(m, S)
<1> DEFINE T == {k \in Nat : \E S \in Small(L, k) : ToSet(g[S]) # Said(m, S)}
<1>0. L \in SUBSET Ids
  BY DEF Items
<1>1. 0 \notin T
  <2> SUFFICES ASSUME NEW S \in Small(L, 0) PROVE ToSet(g[S]) = Said(m, S)
    OBVIOUS
  <2>1. S = {} /\ S \in SUBSET L
    BY <1>0, SmallestIsEmpty DEF Small
  <2>2. g[S] = <<>>
    BY <2>1 DEF Joins
  <2> QED
    BY <2>1, <2>2 DEF ToSet, Said
<1>2. ASSUME NEW k \in Nat, k \notin T PROVE k + 1 \notin T
  <2> SUFFICES ASSUME NEW S \in Small(L, k + 1) PROVE ToSet(g[S]) = Said(m, S)
    OBVIOUS
  <2>0. S \in SUBSET L
    BY DEF Small
  <2>1. CASE S = {}
    BY <2>0, <2>1 DEF Joins, ToSet, Said
  <2>2. CASE S # {}
    <3>1. FirstOf(S) \in S /\ S \ {FirstOf(S)} \in Small(L, k)
      BY <1>0, <2>2, RestIsSmaller
    <3>2. PICK i, R : i = FirstOf(S) /\ R = S \ {i}
      OBVIOUS
    <3>3. ToSet(g[R]) = Said(m, R)
      BY <1>2, <3>1, <3>2
    <3>4. g[S] = Value(m, i) \o g[R]
      BY <2>0, <2>2, <3>2 DEF Joins
    <3>5. Value(m, i) \in Seq(Nat)
      BY <2>0, <3>1, <3>2, ValueType
    <3>6. g[R] \in Seq(Nat)
      <4>1. Small(L, k) \subseteq SUBSET L
        BY DEF Small
      <4>2. \A Q \in Small(L, k) : g[Q] \in Seq(Nat)
        BY <4>1, JoinsType
      <4> QED
        BY <3>1, <3>2, <4>2
    <3>7. ToSet(g[S]) = ToSet(Value(m, i)) \cup ToSet(g[R])
      BY <3>4, <3>5, <3>6, ElementsOfBoth
    <3>8. S = R \cup {i}
      BY <3>1, <3>2
    <3> QED
      BY <3>3, <3>7, <3>8 DEF Said
  <2> QED
    BY <2>1, <2>2
<1> HIDE DEF T
<1>3. T \in SUBSET Nat
  BY DEF T
<1>4. T = {}
  BY <1>1, <1>2, <1>3, FirstFailure
<1>5. ASSUME NEW S \in SUBSET L PROVE S \in Small(L, Cardinality(S)) /\ Cardinality(S) \in Nat
  <2>1. IsFiniteSet(S) /\ Cardinality(S) \in Nat
    BY FS_Subset, FS_CardinalityType
  <2> QED
    BY <2>1 DEF Small
<1> QED
  BY <1>4, <1>5 DEF T

LEMMA ContentsElements ==
  ASSUME NEW t, t.made \in Shapes, t.doc \in MadeDocs(t.made), NEW f
  PROVE  ToSet(Contents(t, f)) = Said(t.made, Live(t, f))
<1>1. PICK g : Joins(t.made, SUBSET Live(t, f), g) /\ Contents(t, f) = g[Live(t, f)]
  BY ContentsJoined
<1>2. Live(t, f) \in SUBSET Items(t.made) /\ IsFiniteSet(Live(t, f))
  BY LiveItems
<1>3. \A S \in SUBSET Live(t, f) : ToSet(g[S]) = Said(t.made, S)
  BY <1>1, <1>2, JoinsElements
<1> QED
  BY <1>1, <1>3

-----------------------------------------------------------------------------
(* A turn whose page has every item it made, and what a transaction of such a *)
(* turn does to each field.                                                    *)

Complete(t) == \A i \in Items(t.made) : i[1] = t.page => i \in t.doc.ins
Sound(t, c, D, m) == TurnOK(t, c, D, m) /\ Complete(t)

LEMMA SoundParts ==
  ASSUME NEW c, NEW D, NEW m, NEW t, Sound(t, c, D, m)
  PROVE  /\ TurnOK(t, c, D, m) /\ Complete(t)
         /\ t \in Turns(c) /\ t.page = c /\ t.made \in Shapes /\ t.doc \in MadeDocs(t.made)
         /\ t.store \in Stores /\ t.store.names \in Seq(Nat) /\ t.store.texts \in Seq(Seq(Nat))
         /\ t.touched \in BOOLEAN
  BY TurnParts DEF Sound

\* What is made stays as it is.
LEMMA ItemKept ==
  ASSUME NEW c \in Pages, NEW m \in Shapes, NEW n \in Shapes, Extends(m, n, c), NEW i \in Items(m)
  PROVE  n[i[1]][i[2]] = m[i[1]][i[2]] /\ i \in Items(n)
<1>1. i \in Ids /\ i[2] <= Len(m[i[1]])
  BY DEF Items
<1>2. i[1] \in Pages /\ i[2] \in Nat /\ i[2] # 0 /\ Len(m[i[1]]) \in Nat
  BY <1>1, ItemParts, LenOfShape
<1>3. i[2] \in 1..Len(m[i[1]])
  BY <1>1, <1>2
<1>4. n[i[1]][i[2]] = m[i[1]][i[2]]
  <2>1. CASE i[1] = c
    BY <1>3, <2>1, Zenon DEF Extends
  <2>2. CASE i[1] # c
    BY <1>2, <2>2, Zenon DEF Extends
  <2> QED
    BY <2>1, <2>2
<1> QED
  BY <1>4, ItemsGrow

\* A field whose items are still the same reads as before.
LEMMA ContentsKept ==
  ASSUME NEW c \in Pages, NEW t, t.made \in Shapes, t.doc \in MadeDocs(t.made),
         NEW s, s.made \in Shapes, Extends(t.made, s.made, c),
         NEW f, Live(s, f) = Live(t, f)
  PROVE  Contents(s, f) = Contents(t, f)
<1>1. Live(t, f) \subseteq Items(t.made)
  BY LiveItems
<1>2. \A i \in Live(t, f) : Value(s.made, i) = Value(t.made, i)
  BY <1>1, ItemKept DEF Value
<1> QED
  BY <1>2, ContentsAgree

LEMMA ExtendsItself ==
  ASSUME NEW c \in Pages, NEW m \in Shapes
  PROVE  Extends(m, m, c)
<1>1. Len(m[c]) \in Nat
  BY LenOfShape
<1> QED
  BY <1>1 DEF Extends

\* The document and what is made decide what is read.
LEMMA SameDocument ==
  ASSUME NEW c \in Pages, NEW t, t.made \in Shapes, t.doc \in MadeDocs(t.made),
         NEW s, s.doc = t.doc, s.made = t.made, NEW f
  PROVE  Live(s, f) = Live(t, f) /\ Contents(s, f) = Contents(t, f)
<1>1. Live(s, f) = Live(t, f)
  BY DEF Live
<1> QED
  BY <1>1, ExtendsItself, ContentsKept

\* The item that page c makes next.
NextItem(m, c) == <<c, Len(m[c]) + 1>>

\* The document of a turn without the items erased and with an item added.
Edit(t, s, c, erased, f, value) ==
  /\ \A g : g # f => Live(s, g) = Live(t, g) \ erased
  /\ value = <<>> => Live(s, f) = Live(t, f) \ erased
  /\ value # <<>> => /\ Live(s, f) = (Live(t, f) \ erased) \cup {NextItem(t.made, c)}
                     /\ Value(s.made, NextItem(t.made, c)) = value
  /\ s.made \in Shapes /\ Extends(t.made, s.made, c)
  /\ s.store = t.store /\ s.touched = t.touched

LEMMA NothingInserted ==
  ASSUME NEW c \in Pages, NEW D, NEW m \in Shapes, NEW t, Sound(t, c, D, m),
         NEW erased \in SUBSET Items(t.made), NEW f \in Nat
  PROVE  /\ Edit(t, Transact(t, erased, f, <<>>), c, erased, f, <<>>)
         /\ Complete(Transact(t, erased, f, <<>>))
<1> DEFINE s == Transact(t, erased, f, <<>>)
<1>1. PICK u : u = [ins |-> {}, del |-> erased]
  OBVIOUS
<1>2. t \in Turns(c) /\ t.made \in Shapes /\ Complete(t) /\ t.page = c
  BY SoundParts
<1>3. s = IF u = Empty THEN t ELSE Own(t, u, t.made)
  BY <1>1, Zenon DEF Transact
<1> HIDE DEF s
<1>4. u = Empty => erased = {}
  BY <1>1 DEF Empty
<1>5. /\ s.made = t.made /\ s.store = t.store /\ s.touched = t.touched /\ s.page = c
      /\ s.doc.ins = t.doc.ins /\ s.doc.del = t.doc.del \cup erased
  <2>1. CASE u = Empty
    <3>1. s = t /\ t.doc.del \cup {} = t.doc.del
      BY <1>3, <2>1
    <3>2. erased = {}
      BY <1>4, <2>1
    <3> QED
      BY <1>2, <3>1, <3>2, Zenon
  <2>2. CASE u # Empty
    <3>1. s = [page |-> c, doc |-> Merge(t.doc, u), store |-> t.store, made |-> t.made,
               out |-> Append(t.out, u), touched |-> t.touched]
      <4>1. s = Own(t, u, t.made)
        BY <1>3, <2>2
      <4>2. Own(t, u, t.made)
            = [page |-> c, doc |-> Merge(t.doc, u), store |-> t.store, made |-> t.made,
               out |-> Append(t.out, u), touched |-> t.touched]
        <5>1. PICK n : n = t.made
          OBVIOUS
        <5>2. Own(t, u, n)
              = [page |-> c, doc |-> Merge(t.doc, u), store |-> t.store, made |-> n,
                 out |-> Append(t.out, u), touched |-> t.touched]
          BY <1>2, OwnFields
        <5> QED
          BY <5>1, <5>2, Zenon
      <4> QED
        BY <4>1, <4>2, Zenon
    <3>2. Merge(t.doc, u).ins = t.doc.ins \cup {} /\ Merge(t.doc, u).del = t.doc.del \cup erased
      BY <1>1 DEF Merge
    <3> QED
      BY <3>1, <3>2
  <2> QED
    BY <2>1, <2>2
<1>6. \A g : Live(s, g) = Live(t, g) \ erased
  BY <1>5 DEF Live, Integrated
<1>7. Complete(s)
  BY <1>2, <1>5 DEF Complete
<1> QED
  BY <1>2, <1>5, <1>6, <1>7, ExtendsItself DEF Edit, s

\* With an item of the page added, that item is integrated, and nothing else is that
\* was not.
LEMMA NextIsIntegrated ==
  ASSUME NEW c \in Pages, NEW t, t.made \in Shapes, t.doc \in MadeDocs(t.made), t.page = c,
         Complete(t), NEW d, d.ins = t.doc.ins \cup {NextItem(t.made, c)}
  PROVE  Integrated(d) = Integrated(t.doc) \cup {NextItem(t.made, c)}
<1> DEFINE n == Len(t.made[c])
           x == NextItem(t.made, c)
<1>1. n \in Nat /\ x = <<c, n + 1>> /\ x[1] = c /\ x[2] = n + 1
  BY LenOfShape DEF NextItem
<1>2. \A i \in t.doc.ins : i \in Ids /\ i[2] <= Len(t.made[i[1]]) /\ i[1] \in Pages /\ i[2] \in Nat
  BY ItemParts DEF MadeDocs, Items
<1>3. \A j \in 1..n : <<c, j>> \in t.doc.ins
  <2> SUFFICES ASSUME NEW j \in 1..n PROVE <<c, j>> \in t.doc.ins
    OBVIOUS
  <2>1. PICK i : i = <<c, j>>
    OBVIOUS
  <2>2. i[1] = c /\ i[2] = j /\ j \in Nat \ {0} /\ j <= n
    BY <1>1, <2>1
  <2>3. i \in Items(t.made)
    BY <2>1, <2>2 DEF Items, Ids
  <2> QED
    BY <2>1, <2>2, <2>3 DEF Complete
<1> HIDE DEF n, x
<1>4. ASSUME NEW i \in Integrated(t.doc) PROVE i \in Integrated(d)
  BY DEF Integrated, x
<1>5. x \in Integrated(d)
  <2>1. \A j \in 1..(n + 1) : j \in 1..n \/ j = n + 1
    BY <1>1
  <2>2. \A j \in 1..(n + 1) : <<c, j>> \in d.ins
    BY <1>1, <1>3, <2>1 DEF x
  <2> QED
    BY <1>1, <2>2 DEF Integrated, x
<1>6. ASSUME NEW i \in Integrated(d), i # x PROVE i \in Integrated(t.doc)
  <2>1. i \in t.doc.ins
    BY <1>6 DEF Integrated, x
  <2>2. i[2] \in Nat /\ i[2] <= Len(t.made[i[1]])
    BY <1>2, <2>1
  <2>3. ASSUME NEW j \in 1..i[2] PROVE <<i[1], j>> \in t.doc.ins
    <3>1. <<i[1], j>> \in d.ins
      BY DEF Integrated
    <3>2. <<i[1], j>> # x
      <4>1. CASE i[1] = c
        <5>1. j <= n /\ j \in Nat
          BY <2>2, <4>1 DEF n
        <5>2. j # n + 1
          BY <1>1, <5>1
        <5> QED
          BY <1>1, <5>2
      <4>2. CASE i[1] # c
        BY <1>1, <4>2
      <4> QED
        BY <4>1, <4>2
    <3> QED
      BY <3>1, <3>2 DEF x
  <2> QED
    BY <2>1, <2>3 DEF Integrated
<1> QED
  BY <1>4, <1>5, <1>6 DEF x

LEMMA OneInserted ==
  ASSUME NEW c \in Pages, NEW D, NEW m \in Shapes, NEW t, Sound(t, c, D, m),
         NEW erased \in SUBSET Items(t.made), NEW f \in Nat, NEW value \in Seq(Nat), value # <<>>
  PROVE  /\ Edit(t, Transact(t, erased, f, value), c, erased, f, value)
         /\ Complete(Transact(t, erased, f, value))
<1> DEFINE s == Transact(t, erased, f, value)
           e == [field |-> f, value |-> value]
           k == Len(t.made[c]) + 1
           n == [t.made EXCEPT ![c] = Append(@, e)]
           x == NextItem(t.made, c)
<1>1. /\ t \in Turns(c) /\ t.made \in Shapes /\ t.doc \in MadeDocs(t.made)
      /\ Complete(t) /\ t.page = c /\ e \in Field /\ Len(t.made[c]) \in Nat
  BY SoundParts, LenOfShape DEF Field
<1>2. PICK u : u = [ins |-> {<<c, k>>}, del |-> erased]
  OBVIOUS
<1>3. u.ins = {x} /\ u.del = erased /\ u # Empty /\ x = <<c, k>>
  BY <1>2 DEF Empty, NextItem
<1>4. s = Own(t, u, n)
  BY <1>1, <1>2, <1>3, Zenon DEF Transact
<1>5. /\ n \in Shapes /\ Extends(t.made, n, c) /\ Len(n[c]) = k /\ n[c][k] = e
  <2>1. OneMore(t.made, n, c, e)
    BY <1>1, MadeGrows, Zenon
  <2> QED
    BY <2>1, Zenon DEF OneMore
<1> HIDE DEF s, n
<1>6. /\ s.made = n /\ s.store = t.store /\ s.touched = t.touched /\ s.page = c
      /\ s.doc = Merge(t.doc, u)
  <2>1. s = [page |-> c, doc |-> Merge(t.doc, u), store |-> t.store, made |-> n,
             out |-> Append(t.out, u), touched |-> t.touched]
    <3>1. Own(t, u, n)
          = [page |-> c, doc |-> Merge(t.doc, u), store |-> t.store, made |-> n,
             out |-> Append(t.out, u), touched |-> t.touched]
      BY <1>1, OwnFields
    <3> QED
      BY <1>4, <3>1, Zenon
  <2> QED
    BY <2>1
<1>7. s.doc.ins = t.doc.ins \cup {x} /\ s.doc.del = t.doc.del \cup erased
  <2>1. Merge(t.doc, u).ins = t.doc.ins \cup u.ins /\ Merge(t.doc, u).del = t.doc.del \cup u.del
    BY DEF Merge
  <2> QED
    BY <1>3, <1>6, <2>1, Zenon
<1>8. Integrated(s.doc) = Integrated(t.doc) \cup {x}
  BY <1>1, <1>7, NextIsIntegrated
<1>9. x \notin Items(t.made)
  <2>1. x[1] = c /\ x[2] = k /\ ~ (k <= Len(t.made[c]))
    BY <1>1, <1>3
  <2> QED
    BY <2>1 DEF Items
<1>10. x \notin s.doc.del /\ x \notin t.doc.ins
  BY <1>1, <1>7, <1>9 DEF MadeDocs
<1>11. s.made[x[1]][x[2]] = e /\ e.field = f /\ e.value = value
  BY <1>3, <1>5, <1>6
<1>12. \A i \in Integrated(t.doc) : s.made[i[1]][i[2]] = t.made[i[1]][i[2]]
  <2>1. Integrated(t.doc) \subseteq Items(t.made)
    BY <1>1 DEF Integrated, MadeDocs
  <2> QED
    BY <1>1, <1>5, <1>6, <2>1, ItemKept
<1> HIDE DEF x, e, k
<1>13. \A g : Live(s, g) = (Live(t, g) \ erased) \cup (IF g = f THEN {x} ELSE {})
  <2> SUFFICES ASSUME NEW g, NEW i
               PROVE  i \in Live(s, g) <=>
                        i \in (Live(t, g) \ erased) \cup (IF g = f THEN {x} ELSE {})
    OBVIOUS
  <2>1. CASE i = x
    <3>1. i \notin Live(t, g)
      BY <1>10, <2>1 DEF Live, Integrated
    <3>2. i \in Live(s, g) <=> g = f
      BY <1>8, <1>10, <1>11, <2>1 DEF Live
    <3> QED
      BY <2>1, <3>1, <3>2
  <2>2. CASE i # x
    BY <1>7, <1>8, <1>12, <2>2 DEF Live
  <2> QED
    BY <2>1, <2>2
<1>14. Complete(s)
  <2> SUFFICES ASSUME NEW i \in Items(n), i[1] = c PROVE i \in s.doc.ins
    BY <1>6 DEF Complete
  <2>1. i \in Ids /\ i[2] <= k /\ i[2] \in Nat /\ i = <<i[1], i[2]>>
    BY <1>5, ItemParts DEF Items
  <2>2. CASE i[2] = k
    <3>1. i = <<c, k>>
      BY <2>1, <2>2
    <3>2. i = x
      BY <1>3, <3>1
    <3> QED
      BY <1>7, <3>2
  <2>3. CASE i[2] # k
    <3>1. i[2] <= Len(t.made[c])
      <4>1. \A a, b \in Nat : a <= b + 1 /\ a # b + 1 => a <= b
        OBVIOUS
      <4>2. Len(t.made[c]) \in Nat /\ k = Len(t.made[c]) + 1
        BY <1>1 DEF k
      <4> QED
        BY <2>1, <2>3, <4>1, <4>2
    <3>2. i \in Items(t.made)
      BY <2>1, <3>1 DEF Items
    <3> QED
      BY <1>1, <1>7, <3>2 DEF Complete
  <2> QED
    BY <2>2, <2>3
<1>15. Value(s.made, x) = value
  BY <1>11 DEF Value
<1>16. \A g : g # f => Live(s, g) = Live(t, g) \ erased
  BY <1>13
<1>17. Live(s, f) = (Live(t, f) \ erased) \cup {x}
  BY <1>13
<1>18. Edit(t, s, c, erased, f, value)
  BY <1>5, <1>6, <1>15, <1>16, <1>17 DEF Edit, x
<1> QED
  BY <1>14, <1>18 DEF s

\* Both: a transaction of a sound turn.
LEMMA TransactEdits ==
  ASSUME NEW c \in Pages, NEW D, NEW m \in Shapes, NEW t, Sound(t, c, D, m),
         NEW erased \in SUBSET Items(t.made), NEW f \in Nat, NEW value \in Seq(Nat)
  PROVE  /\ Sound(Transact(t, erased, f, value), c, D, m)
         /\ Edit(t, Transact(t, erased, f, value), c, erased, f, value)
<1>1. TurnOK(Transact(t, erased, f, value), c, D, m)
  BY SoundParts, TransactOK
<1> QED
  BY <1>1, NothingInserted, OneInserted DEF Sound

-----------------------------------------------------------------------------
(* Rewriting a field makes it read what the workspace holds.                  *)

\* s reads value in field f and as t everywhere else.
Reads(t, s, f, value) ==
  /\ Contents(s, f) = value /\ \A g : g # f => Contents(s, g) = Contents(t, g)
  /\ s.store = t.store /\ s.touched = t.touched

\* Whatever was erased of field f, and a value put there: the others read as before.
Others(t, s, f) ==
  \A g : g # f => Live(s, g) = Live(t, g) /\ Contents(s, g) = Contents(t, g)

LEMMA OthersKept ==
  ASSUME NEW c \in Pages, NEW D, NEW m \in Shapes, NEW t, Sound(t, c, D, m),
         NEW erased, NEW f, NEW s, NEW value,
         Edit(t, s, c, erased, f, value), erased \subseteq Live(t, f)
  PROVE  Others(t, s, f)
<1> SUFFICES ASSUME NEW g, g # f
             PROVE  Live(s, g) = Live(t, g) /\ Contents(s, g) = Contents(t, g)
  BY DEF Others
<1>1. Live(t, g) \cap Live(t, f) = {}
  BY DEF Live
<1>2. Live(s, g) = Live(t, g)
  <2>1. Live(s, g) = Live(t, g) \ erased
    BY Zenon DEF Edit
  <2> QED
    BY <1>1, <2>1
<1>3. t.made \in Shapes /\ t.doc \in MadeDocs(t.made)
  BY SoundParts
<1> QED
  BY <1>2, <1>3, ContentsKept DEF Edit

\* All of the field erased, and value written: in one transaction.
LEMMA ReplacedReads ==
  ASSUME NEW c \in Pages, NEW D, NEW m \in Shapes, NEW t, Sound(t, c, D, m),
         NEW f \in Nat, NEW value \in Seq(Nat)
  PROVE  /\ Sound(Transact(t, Live(t, f), f, value), c, D, m)
         /\ Reads(t, Transact(t, Live(t, f), f, value), f, value)
<1> DEFINE s == Transact(t, Live(t, f), f, value)
<1>1. Live(t, f) \in SUBSET Items(t.made)
  BY SoundParts, LiveItems
<1>2. Sound(s, c, D, m) /\ Edit(t, s, c, Live(t, f), f, value)
  BY <1>1, TransactEdits
<1> HIDE DEF s
<1>3. s.made \in Shapes /\ s.doc \in MadeDocs(s.made)
  BY <1>2, SoundParts
<1>4. Contents(s, f) = value
  <2>1. CASE value = <<>>
    <3>1. Live(s, f) = {}
      BY <1>2, <2>1 DEF Edit
    <3> QED
      BY <1>3, <2>1, <3>1, ContentsOfNone
  <2>2. CASE value # <<>>
    <3>1. Live(s, f) = {NextItem(t.made, c)} /\ Value(s.made, NextItem(t.made, c)) = value
      BY <1>2, <2>2 DEF Edit
    <3> QED
      BY <1>3, <3>1, ContentsOfOne
  <2> QED
    BY <2>1, <2>2
<1>5. Others(t, s, f)
  <2>1. PICK erased : erased = Live(t, f)
    OBVIOUS
  <2>2. Edit(t, s, c, erased, f, value) /\ erased \subseteq Live(t, f)
    BY <1>2, <2>1
  <2> QED
    BY <2>2, OthersKept
<1>6. s.store = t.store /\ s.touched = t.touched
  BY <1>2 DEF Edit
<1> QED
  BY <1>2, <1>4, <1>5, <1>6 DEF Reads, Others, s

LEMMA RewriteReads ==
  ASSUME NEW c \in Pages, NEW D, NEW m \in Shapes, NEW t, Sound(t, c, D, m),
         NEW f \in Nat, NEW value \in Seq(Nat)
  PROVE  Sound(Rewrite(t, f, value), c, D, m) /\ Reads(t, Rewrite(t, f, value), f, value)
<1>1. CASE Contents(t, f) = value
  BY <1>1 DEF Rewrite, Reads
<1>2. CASE Contents(t, f) # value
  <2>0. <<>> \in Seq(Nat) /\ {} \in SUBSET Items(t.made)
    BY EmptySeq
  <2>1. PICK q : q = Transact(t, Live(t, f), f, <<>>)
    OBVIOUS
  <2>2. Live(t, f) \in SUBSET Items(t.made)
    BY SoundParts, LiveItems
  <2>3. Sound(q, c, D, m) /\ Edit(t, q, c, Live(t, f), f, <<>>) /\ Reads(t, q, f, <<>>)
    BY <2>0, <2>1, <2>2, TransactEdits, ReplacedReads
  <2>4. Live(q, f) = {}
    BY <2>3 DEF Edit
  <2>5. PICK s : s = Transact(q, Live(q, f), f, value)
    OBVIOUS
  <2>6. Sound(s, c, D, m) /\ Reads(q, s, f, value)
    BY <2>3, <2>5, ReplacedReads
  <2>7. Rewrite(t, f, value) = s
    BY <1>2, <2>1, <2>4, <2>5, Zenon DEF Rewrite
  <2>8. Reads(t, s, f, value)
    BY <2>3, <2>6 DEF Reads
  <2> QED
    BY <2>6, <2>7, <2>8
<1> QED
  BY <1>1, <1>2

LEMMA RewriteNamesReads ==
  ASSUME NEW c \in Pages, NEW D, NEW m \in Shapes, NEW t, Sound(t, c, D, m)
  PROVE  Sound(RewriteNames(t), c, D, m) /\ Reads(t, RewriteNames(t), Names, t.store.names)
<1>1. Names \in Nat /\ t.store.names \in Seq(Nat)
  BY SoundParts DEF Names
<1>2. CASE Contents(t, Names) = t.store.names
  BY <1>2 DEF RewriteNames, Reads
<1>3. CASE Contents(t, Names) # t.store.names
  <2>1. RewriteNames(t) = Transact(t, Live(t, Names), Names, t.store.names)
    BY <1>3, Zenon DEF RewriteNames
  <2> QED
    BY <1>1, <2>1, ReplacedReads
<1> QED
  BY <1>2, <1>3

\* After the re-seed effect the document reads as the workspace: tabs and all texts.
Mirrors(s) ==
  /\ Contents(s, Names) = s.store.names
  /\ \A f \in 1..Len(s.store.texts) : Contents(s, f) = s.store.texts[f]

LEMMA ReseedMirrors ==
  ASSUME NEW c \in Pages, NEW D, NEW m \in Shapes, NEW t, Sound(t, c, D, m)
  PROVE  Sound(Reseed(t), c, D, m) /\ Mirrors(Reseed(t)) /\ Reseed(t).store = t.store
<1> DEFINE n == Len(t.store.texts)
           g == CHOOSE h : ReseedSteps(t, n, h)
           Upto(s, k) == /\ Sound(s, c, D, m) /\ s.store = t.store
                         /\ Contents(s, Names) = t.store.names
                         /\ \A f \in 1..k : Contents(s, f) = t.store.texts[f]
<1>1. t.store.texts \in Seq(Seq(Nat)) /\ n \in Nat
  BY SoundParts, LenProperties
<1>2. \A k \in 1..n : t.store.texts[k] \in Seq(Nat)
  BY <1>1, ElementOfSeq
<1>3. ReseedSteps(t, n, g)
  <2>1. \E h : ReseedSteps(t, n, h)
    BY <1>1, ReseedStepsExist
  <2> HIDE DEF n
  <2> QED
    BY <2>1, Zenon
<1>4. Reseed(t) = g[n]
  BY ReseedUnfolded, Zenon
<1> HIDE DEF g, n
<1>5. Upto(g[0], 0)
  <2>1. g[0] = RewriteNames(t)
    BY <1>1, <1>3 DEF ReseedSteps
  <2>2. Sound(g[0], c, D, m) /\ Reads(t, g[0], Names, t.store.names)
    BY <2>1, RewriteNamesReads
  <2> QED
    BY <2>2 DEF Reads
<1> DEFINE T == {k \in Nat : k \in 0..n /\ ~ Upto(g[k], k)}
<1>6. 0 \notin T
  BY <1>5
<1>7. ASSUME NEW k \in Nat, k \notin T PROVE k + 1 \notin T
  <2> HIDE DEF Upto
  <2> SUFFICES ASSUME k + 1 \in 0..n PROVE Upto(g[k + 1], k + 1)
    OBVIOUS
  <2>1. k \in 0..n /\ k + 1 \in 1..n /\ k + 1 # 0 /\ (k + 1) - 1 = k /\ k + 1 \in Nat
    BY <1>1
  <2>2. Upto(g[k], k)
    BY <1>7, <2>1
  <2>3. g[k + 1] = Rewrite(g[k], k + 1, t.store.texts[k + 1])
    BY <1>1, <1>3, <2>1 DEF ReseedSteps
  <2>4. t.store.texts[k + 1] \in Seq(Nat)
    BY <1>2, <2>1
  <2>5. /\ Sound(g[k], c, D, m) /\ g[k].store = t.store
        /\ Contents(g[k], Names) = t.store.names
        /\ \A f \in 1..k : Contents(g[k], f) = t.store.texts[f]
    BY <2>2 DEF Upto
  <2>6. /\ Sound(g[k + 1], c, D, m)
        /\ Reads(g[k], g[k + 1], k + 1, t.store.texts[k + 1])
    BY <2>1, <2>3, <2>4, <2>5, RewriteReads
  <2>7. Names # k + 1
    BY DEF Names
  <2>8. ASSUME NEW f \in 1..(k + 1) PROVE Contents(g[k + 1], f) = t.store.texts[f]
    <3>1. f = k + 1 \/ (f \in 1..k /\ f # k + 1)
      OBVIOUS
    <3> QED
      BY <2>5, <2>6, <3>1 DEF Reads
  <2>9. g[k + 1].store = t.store /\ Contents(g[k + 1], Names) = t.store.names
    BY <2>5, <2>6, <2>7 DEF Reads
  <2> QED
    BY <2>6, <2>8, <2>9 DEF Upto
<1> HIDE DEF T, Upto
<1>8. T \in SUBSET Nat
  BY DEF T
<1>9. T = {}
  BY <1>6, <1>7, <1>8, FirstFailure
<1>10. Upto(g[n], n)
  BY <1>1, <1>9 DEF T
<1> QED
  BY <1>4, <1>10 DEF Upto, Mirrors, n


-----------------------------------------------------------------------------
(* The observers and the re-seed effect: what they leave the workspace as.     *)

Watched(t) == DOMAIN Opening[t.page].texts \cap DOMAIN t.store.texts

\* The workspace of the turn shows its document.
Shown(t) ==
  /\ Contents(t, Names) \in {<<>>, t.store.names}
  /\ \A f \in Watched(t) : t.store.texts[f] = Contents(t, f)

\* A turn of the same page, workspace and document shows as much.
LEMMA ShownAlike ==
  ASSUME NEW c \in Pages, NEW t, t.made \in Shapes, t.doc \in MadeDocs(t.made),
         NEW s, s.doc = t.doc, s.made = t.made, s.store = t.store, s.page = t.page
  PROVE  Shown(s) <=> Shown(t)
<1>1. \A f : Contents(s, f) = Contents(t, f)
  BY SameDocument
<1> QED
  BY <1>1 DEF Shown, Watched

LEMMA MirrorsShows ==
  ASSUME NEW c, NEW D, NEW m, NEW t, Sound(t, c, D, m), Mirrors(t)
  PROVE  Shown(t)
<1>1. t.store.texts \in Seq(Seq(Nat))
  BY SoundParts
<1>2. DOMAIN t.store.texts = 1..Len(t.store.texts)
  BY <1>1, LenProperties
<1> QED
  BY <1>2 DEF Mirrors, Shown, Watched

\* The page and its document in a sound turn that observers have looked at.
LEMMA ObserveSound ==
  ASSUME NEW c \in Pages, NEW D, NEW m \in Shapes, NEW t, Sound(t, c, D, m), NEW b
  PROVE  /\ Sound(Observe(b, t), c, D, m)
         /\ Observe(b, t).doc = t.doc /\ Observe(b, t).made = t.made /\ Observe(b, t).page = c
<1>1. t \in Turns(c) /\ Complete(t) /\ t.page = c /\ TurnOK(t, c, D, m)
  BY SoundParts
<1>2. Observe(b, t).doc = t.doc /\ Observe(b, t).made = t.made /\ Observe(b, t).page = c
  BY <1>1, ObserveKeeps
<1>3. TurnOK(Observe(b, t), c, D, m)
  BY <1>1, ObserveOK
<1>4. Complete(Observe(b, t))
  BY <1>1, <1>2 DEF Complete
<1> QED
  BY <1>2, <1>3, <1>4 DEF Sound

\* The fields of the page whose items a transaction from b to t changed.
HeardOf(b, t) == {f \in 1..Len(Opening[t.page].texts) : Changed(b, t, f)}
IsRebuilt(b, t) ==
  /\ Live(b, Names) # Live(t, Names)
  /\ Contents(t, Names) # <<>> /\ Contents(t, Names) # t.store.names

\* What the observers put into the workspace.
LEMMA ObservedStore ==
  ASSUME NEW c, NEW t \in Turns(c), NEW b
  PROVE  Observe(b, t).store =
           [names |-> IF IsRebuilt(b, t) THEN Contents(t, Names) ELSE t.store.names,
            texts |-> IF IsRebuilt(b, t) THEN Rebuilt(t, Contents(t, Names))
                      ELSE [f \in DOMAIN t.store.texts |->
                              IF f \in HeardOf(b, t) THEN Contents(t, f) ELSE t.store.texts[f]]]
<1> DEFINE w == [names |-> IF IsRebuilt(b, t) THEN Contents(t, Names) ELSE t.store.names,
                 texts |-> IF IsRebuilt(b, t) THEN Rebuilt(t, Contents(t, Names))
                           ELSE [f \in DOMAIN t.store.texts |->
                                   IF f \in HeardOf(b, t) THEN Contents(t, f) ELSE t.store.texts[f]]]
<1>1. PICK x : Observe(b, t) = [t EXCEPT !.store = w, !.touched = x]
  BY Zenon DEF Observe, IsRebuilt, HeardOf
<1> HIDE DEF w
<1>2. PICK q : q = [t EXCEPT !.store = w]
  OBVIOUS
<1>3. q.store = w /\ DOMAIN q = DOMAIN t
  BY <1>2 DEF Turns
<1>4. PICK r : r = [q EXCEPT !.touched = x]
  OBVIOUS
<1>5. r.store = q.store
  BY <1>3, <1>4 DEF Turns
<1>6. Observe(b, t) = r
  BY <1>1, <1>2, <1>4, Zenon
<1> QED
  BY <1>3, <1>5, <1>6 DEF w

\* If the workspace showed the document before a transaction, it shows it again after
\* the observers of the transaction, whichever page it came from.
LEMMA ObserveShows ==
  ASSUME NEW c \in Pages, NEW D, NEW m \in Shapes, NEW t, Sound(t, c, D, m),
         NEW b, b.made \in Shapes, b.doc \in MadeDocs(b.made), b.page = c, b.store = t.store,
         Extends(b.made, t.made, c), Shown(b)
  PROVE  Shown(Observe(b, t))
<1> DEFINE s == Observe(b, t)
           names == Contents(t, Names)
<1>1. /\ t \in Turns(c) /\ t.page = c /\ t.made \in Shapes /\ t.doc \in MadeDocs(t.made)
      /\ t.store.texts \in Seq(Seq(Nat)) /\ Opening[c].texts \in Seq(Seq(Nat))
  BY SoundParts DEF Workspaces
<1>2. s.doc = t.doc /\ s.made = t.made /\ s.page = c
  BY ObserveSound
<1>3. s.store = [names |-> IF IsRebuilt(b, t) THEN names ELSE t.store.names,
                 texts |-> IF IsRebuilt(b, t) THEN Rebuilt(t, names)
                           ELSE [f \in DOMAIN t.store.texts |->
                                   IF f \in HeardOf(b, t) THEN Contents(t, f) ELSE t.store.texts[f]]]
  BY <1>1, ObservedStore
<1>4. \A f : Contents(s, f) = Contents(t, f)
  BY <1>1, <1>2, SameDocument
<1>5. \A f : Live(b, f) = Live(t, f) => Contents(t, f) = Contents(b, f)
  BY <1>1, ContentsKept
<1>6. DOMAIN Opening[c].texts = 1..Len(Opening[c].texts)
  BY <1>1, LenProperties
<1> HIDE DEF s, names
<1>7. CASE IsRebuilt(b, t)
  <2>1. s.store.names = names /\ s.store.texts = Rebuilt(t, names)
    BY <1>3, <1>7
  <2>2. \A f \in DOMAIN Rebuilt(t, names) : Rebuilt(t, names)[f] = Contents(t, f)
    BY DEF Rebuilt
  <2> QED
    BY <1>4, <2>1, <2>2 DEF Shown, Watched, names, s
<1>8. CASE ~ IsRebuilt(b, t)
  <2>1. /\ s.store.names = t.store.names /\ DOMAIN s.store.texts = DOMAIN t.store.texts
        /\ \A f \in DOMAIN t.store.texts :
             s.store.texts[f] = IF f \in HeardOf(b, t) THEN Contents(t, f) ELSE t.store.texts[f]
    BY <1>3, <1>8
  <2>2. Contents(s, Names) \in {<<>>, s.store.names}
    <3>1. \/ Live(b, Names) = Live(t, Names)
          \/ Contents(t, Names) = <<>> \/ Contents(t, Names) = t.store.names
      BY <1>8 DEF IsRebuilt
    <3>2. Contents(b, Names) \in {<<>>, t.store.names}
      BY DEF Shown
    <3> QED
      BY <1>4, <1>5, <2>1, <3>1, <3>2
  <2>3. ASSUME NEW f \in Watched(s) PROVE s.store.texts[f] = Contents(s, f)
    <3>1. f \in 1..Len(Opening[c].texts) /\ f \in DOMAIN t.store.texts /\ f \in Watched(b)
      BY <1>2, <1>6, <2>1 DEF Watched
    <3>2. CASE f \in HeardOf(b, t)
      BY <1>4, <2>1, <3>1, <3>2
    <3>3. CASE f \notin HeardOf(b, t)
      <4>1. Live(b, f) = Live(t, f)
        BY <1>1, <3>1, <3>3 DEF HeardOf, Changed
      <4>2. t.store.texts[f] = Contents(b, f)
        BY <3>1 DEF Shown
      <4> QED
        BY <1>4, <1>5, <2>1, <3>1, <3>3, <4>1, <4>2
    <3> QED
      BY <3>2, <3>3
  <2> QED
    BY <2>2, <2>3 DEF Shown, s
<1> QED
  BY <1>7, <1>8

\* The re-seed effect, if it runs, keeps the workspace and makes the document match it.
LEMMA RenderedShows ==
  ASSUME NEW c \in Pages, NEW D, NEW m \in Shapes, NEW t, Sound(t, c, D, m)
  PROVE  /\ Sound(Rendered(t), c, D, m) /\ Rendered(t).store = t.store
         /\ Rendered(t) = t \/ Mirrors(Rendered(t))
         /\ t.touched /\ phase[c] = "bound" => Mirrors(Rendered(t))
<1>1. t.page = c
  BY SoundParts
<1>2. CASE t.touched /\ phase[c] = "bound"
  <2>1. Rendered(t) = Reseed(t)
    BY <1>1, <1>2 DEF Rendered
  <2> QED
    BY <2>1, ReseedMirrors
<1>3. CASE ~ (t.touched /\ phase[c] = "bound")
  <2>1. Rendered(t) = t
    BY <1>1, <1>3 DEF Rendered
  <2> QED
    BY <1>3, <2>1
<1> QED
  BY <1>2, <1>3


-----------------------------------------------------------------------------
(* Seeding makes items of the page's own, and the page has them.               *)

LEMMA FillSound ==
  ASSUME NEW c \in Pages, NEW D, NEW m \in Shapes, NEW b, Sound(b, c, D, m),
         NEW f \in Nat, NEW value \in Seq(Nat)
  PROVE  Sound(Fill(b, f, value), c, D, m)
<1>1. CASE Live(b, f) # {}
  BY <1>1 DEF Fill
<1>2. CASE Live(b, f) = {}
  <2>1. PICK s : s = Transact(b, {}, f, value)
    OBVIOUS
  <2>2. {} \in SUBSET Items(b.made)
    OBVIOUS
  <2>3. Sound(s, c, D, m)
    BY <2>1, <2>2, TransactEdits
  <2>4. Fill(b, f, value) = Observe(b, s)
    BY <1>2, <2>1, Zenon DEF Fill
  <2> QED
    BY <2>3, <2>4, ObserveSound
<1> QED
  BY <1>1, <1>2

LEMMA SeedSound ==
  ASSUME NEW c \in Pages, NEW D, NEW m \in Shapes, NEW t, Sound(t, c, D, m)
  PROVE  Sound(Seed(t), c, D, m)
<1> DEFINE n == Len(Opening[t.page].texts)
           g == CHOOSE h : SeedSteps(t, n, h)
<1>1. /\ t.page = c /\ Opening[c].names \in Seq(Nat) /\ Opening[c].texts \in Seq(Seq(Nat))
      /\ n \in Nat
  BY SoundParts, LenProperties DEF Workspaces
<1>2. \A k \in 1..n : Opening[c].texts[k] \in Seq(Nat)
  BY <1>1, ElementOfSeq
<1>3. SeedSteps(t, n, g)
  <2>1. \E h : SeedSteps(t, n, h)
    BY <1>1, SeedStepsExist
  <2> HIDE DEF n
  <2> QED
    BY <2>1, Zenon
<1>4. Seed(t) = g[n]
  BY SeedUnfolded, Zenon
<1> HIDE DEF g, n
<1>5. Sound(g[0], c, D, m)
  <2>1. g[0] = Fill(t, Names, Opening[c].names)
    BY <1>1, <1>3 DEF SeedSteps
  <2>2. Names \in Nat
    BY DEF Names
  <2> QED
    BY <1>1, <2>1, <2>2, FillSound
<1> DEFINE T == {k \in Nat : k \in 0..n /\ ~ Sound(g[k], c, D, m)}
<1>6. 0 \notin T
  BY <1>5
<1>7. ASSUME NEW k \in Nat, k \notin T PROVE k + 1 \notin T
  <2> SUFFICES ASSUME k + 1 \in 0..n PROVE Sound(g[k + 1], c, D, m)
    OBVIOUS
  <2>1. k \in 0..n /\ k + 1 \in 1..n /\ k + 1 # 0 /\ (k + 1) - 1 = k /\ k + 1 \in Nat
    BY <1>1
  <2>2. Sound(g[k], c, D, m)
    BY <1>7, <2>1
  <2>3. g[k + 1] = Fill(g[k], k + 1, Opening[c].texts[k + 1])
    BY <1>1, <1>3, <2>1 DEF SeedSteps
  <2>4. Opening[c].texts[k + 1] \in Seq(Nat)
    BY <1>2, <2>1
  <2>5. PICK b, v : b = g[k] /\ v = Opening[c].texts[k + 1]
    OBVIOUS
  <2>6. Sound(Fill(b, k + 1, v), c, D, m)
    BY <2>1, <2>2, <2>4, <2>5, FillSound
  <2> QED
    BY <2>3, <2>5, <2>6
<1> HIDE DEF T
<1>8. T \in SUBSET Nat
  BY DEF T
<1>9. T = {}
  BY <1>6, <1>7, <1>8, FirstFailure
<1>10. Sound(g[n], c, D, m)
  BY <1>1, <1>9 DEF T
<1> QED
  BY <1>4, <1>10

-----------------------------------------------------------------------------
(* The invariant: every page has what it made, and a bound one shows what it  *)
(* has.                                                                        *)

Holding(c) == Complete(Turn(c)) /\ (phase[c] = "bound" => Shown(Turn(c)))
BindingInv == TypeInv /\ \A c \in Pages : Holding(c)

\* The turn with which a page begins.
LEMMA TurnSound ==
  ASSUME BindingInv, NEW c \in Pages
  PROVE  /\ Sound(Turn(c), c, pdoc[c], made)
         /\ Turn(c).page = c /\ Turn(c).doc = pdoc[c] /\ Turn(c).made = made
         /\ Turn(c).store = store[c] /\ made \in Shapes /\ pdoc[c] \in MadeDocs(made)
<1>1. TurnOK(Turn(c), c, pdoc[c], made) /\ Complete(Turn(c))
  BY TurnStarts DEF BindingInv, Holding
<1>2. /\ Turn(c).page = c /\ Turn(c).doc = pdoc[c] /\ Turn(c).made = made
      /\ Turn(c).store = store[c]
  BY DEF Turn
<1>3. made \in Shapes /\ pdoc[c] \in MadeDocs(made)
  BY DEF BindingInv, TypeInv, PageTypes
<1> QED
  BY <1>1, <1>2, <1>3 DEF Sound

\* Items that other pages make are none of a page's, and change nothing it reads.
LEMMA OthersHolding ==
  ASSUME BindingInv, NEW k \in Pages, NEW c \in Pages, k # c,
         made' \in Shapes, Extends(made, made', c),
         pdoc'[k] = pdoc[k], store'[k] = store[k], phase'[k] = "bound" => phase[k] = "bound"
  PROVE  Holding(k)'
<1>1. PICK t : t = Turn(k)
  OBVIOUS
<1>2. PICK s : s = Turn(k)'
  OBVIOUS
<1>3. /\ t.page = k /\ t.doc = pdoc[k] /\ t.made = made /\ t.store = store[k]
      /\ made \in Shapes /\ pdoc[k] \in MadeDocs(made)
      /\ Complete(t) /\ (phase[k] = "bound" => Shown(t))
  BY <1>1, TurnSound DEF BindingInv, Holding
<1>4. s.page = k /\ s.doc = pdoc[k] /\ s.made = made' /\ s.store = store[k]
  BY <1>2 DEF Turn
<1>5. Complete(s)
  <2>1. made'[k] = made[k]
    BY DEF Extends
  <2>2. \A i \in Items(made') : i[1] = k => i \in Items(made)
    BY <2>1 DEF Items
  <2> QED
    BY <1>3, <1>4, <2>2 DEF Complete
<1>6. \A f : Live(s, f) = Live(t, f)
  <2>1. \A i \in pdoc[k].ins : made'[i[1]][i[2]] = made[i[1]][i[2]]
    BY <1>3, ItemKept DEF MadeDocs
  <2>2. Integrated(pdoc[k]) \subseteq pdoc[k].ins
    BY DEF Integrated
  <2> QED
    BY <1>3, <1>4, <2>1, <2>2 DEF Live
<1>7. \A f : Contents(s, f) = Contents(t, f)
  <2>1. t.made \in Shapes /\ t.doc \in MadeDocs(t.made) /\ s.made \in Shapes
        /\ Extends(t.made, s.made, c)
    BY <1>3, <1>4
  <2> QED
    BY <1>6, <2>1, ContentsKept
<1>8. Shown(t) => Shown(s)
  BY <1>3, <1>4, <1>7 DEF Shown, Watched
<1>9. Complete(s) /\ (phase'[k] = "bound" => Shown(s))
  BY <1>3, <1>5, <1>8
<1> QED
  BY <1>2, <1>9 DEF Holding

\* What a turn leaves the page with.
LEMMA TurnEnds ==
  ASSUME BindingInv, NEW c \in Pages, NEW D, NEW t, Sound(t, c, D, made), Done(c, t)
  PROVE  /\ pdoc'[c] = t.doc /\ store'[c] = t.store /\ made' = t.made
         /\ made' \in Shapes /\ Extends(made, made', c)
         /\ \A k \in Pages : k # c => pdoc'[k] = pdoc[k] /\ store'[k] = store[k]
<1>1. pdoc \in [Pages -> MadeDocs(made)] /\ store \in [Pages -> Stores]
  BY DEF BindingInv, TypeInv, PageTypes
<1>2. /\ pdoc' = [pdoc EXCEPT ![c] = t.doc] /\ store' = [store EXCEPT ![c] = t.store]
      /\ made' = t.made
  BY DEF Done
<1>3. t.made \in Shapes /\ Extends(made, t.made, c)
  BY SoundParts DEF TurnOK
<1>4. /\ pdoc'[c] = t.doc /\ store'[c] = t.store
      /\ \A k \in Pages : k # c => pdoc'[k] = pdoc[k] /\ store'[k] = store[k]
  BY <1>1, <1>2
<1> QED
  BY <1>2, <1>3, <1>4

LEMMA TurnHolds ==
  ASSUME BindingInv, NEW c \in Pages, NEW D, NEW t, Sound(t, c, D, made), Done(c, t),
         phase'[c] = "bound" => Shown(t),
         \A k \in Pages : k # c => phase'[k] = phase[k]
  PROVE  \A k \in Pages : Holding(k)'
<1>1. PICK s : s = Turn(c)'
  OBVIOUS
<1>0. /\ pdoc'[c] = t.doc /\ store'[c] = t.store /\ made' = t.made
      /\ made' \in Shapes /\ Extends(made, made', c)
      /\ \A k \in Pages : k # c => pdoc'[k] = pdoc[k] /\ store'[k] = store[k]
  BY TurnEnds
<1>2. s.page = c /\ s.doc = t.doc /\ s.made = t.made /\ s.store = t.store
  BY <1>0, <1>1 DEF Turn
<1>3. Complete(t) /\ t.page = c /\ t.made \in Shapes /\ t.doc \in MadeDocs(t.made)
  BY SoundParts
<1>4. Complete(s)
  BY <1>2, <1>3 DEF Complete
<1>5. Shown(s) <=> Shown(t)
  BY <1>2, <1>3, ShownAlike
<1>6. Complete(s) /\ (phase'[c] = "bound" => Shown(s))
  BY <1>4, <1>5
<1>7. Holding(c)'
  BY <1>1, <1>6 DEF Holding
<1>8. \A k \in Pages : k # c => Holding(k)'
  BY <1>0, OthersHolding
<1> QED
  BY <1>7, <1>8


-----------------------------------------------------------------------------
(* The actions of a page: what they leave the workspace as, and the text that *)
(* the page's own writes leave in the document.                                *)

TextKept(c) == Writes(c) => Removed(c, Observed(c)) = {}
Outcome(c) == (\A k \in Pages : Holding(k)') /\ TextKept(c)

\* Whatever writes nothing.
LEMMA NothingWritten ==
  ASSUME BindingInv, UNCHANGED <<made, pdoc, store>>,
         \A k \in Pages : phase'[k] = "bound" => phase[k] = "bound"
  PROVE  \A c \in Pages : Outcome(c)
<1>1. ASSUME NEW k \in Pages PROVE Holding(k)'
  <2>1. PICK s : s = Turn(k)
    OBVIOUS
  <2>2. Turn(k)' = s
    BY <2>1 DEF Turn
  <2>3. Complete(s) /\ (phase[k] = "bound" => Shown(s))
    BY <2>1 DEF BindingInv, Holding
  <2>4. Complete(s) /\ (phase'[k] = "bound" => Shown(s))
    BY <2>3
  <2> QED
    BY <2>2, <2>4 DEF Holding
<1>2. ASSUME NEW c \in Pages PROVE TextKept(c)
  BY DEF TextKept, Writes
<1> QED
  BY <1>1, <1>2 DEF Outcome

\* A page that is not bound has not written as TextKept means it.
LEMMA UnboundOutcome ==
  ASSUME BindingInv, NEW c \in Pages, NEW D, NEW t, Sound(t, c, D, made), Done(c, t),
         phase[c] # "bound", phase'[c] = "bound" => Shown(t),
         \A k \in Pages : k # c => phase'[k] = phase[k]
  PROVE  Outcome(c)
  BY TurnHolds DEF Outcome, TextKept, Writes

\* The other pages write nothing.
LEMMA OthersTextKept ==
  ASSUME BindingInv, NEW c \in Pages, NEW D, NEW t, Sound(t, c, D, made), Done(c, t)
  PROVE  \A k \in Pages : k # c => TextKept(k)
  BY TurnEnds DEF TextKept, Writes

\* A list of tabs that only grows keeps the tabs.
LEMMA PrefixKeepsTabs ==
  ASSUME NEW v \in Stores, NEW w \in Stores, IsPrefix(v.names, w.names)
  PROVE  DOMAIN v.texts \subseteq DOMAIN w.texts /\ Len(v.names) <= Len(w.names)
<1>1. Len(v.names) <= Len(w.names)
  BY DEF IsPrefix
<1>2. /\ v.texts \in Seq(Seq(Nat)) /\ w.texts \in Seq(Seq(Nat))
      /\ Len(v.names) = Len(v.texts) /\ Len(w.names) = Len(w.texts)
  BY DEF Stores, Workspaces, HasTabs
<1>3. /\ DOMAIN v.texts = 1..Len(v.texts) /\ DOMAIN w.texts = 1..Len(w.texts)
      /\ Len(v.texts) \in Nat /\ Len(w.texts) \in Nat /\ Len(v.texts) <= Len(w.texts)
  BY <1>1, <1>2, LenProperties
<1> QED
  BY <1>1, <1>3

\* The document as it was before the page wrote, with what the message brought.
Found(c) == [doc |-> Heard(c), made |-> made]

LEMMA TextsStay ==
  ASSUME BindingInv, NEW c \in Pages, NEW D, NEW t, Sound(t, c, D, made), Done(c, t),
         \A f \in Observed(c) \cap DOMAIN t.store.texts :
           IsPrefix(store[c].names, t.store.names) =>
             ToSet(Contents(Found(c), f)) \subseteq ToSet(Contents(t, f))
  PROVE  TextKept(c)
<1> SUFFICES ASSUME Writes(c) PROVE Removed(c, Observed(c)) = {}
  BY DEF TextKept
<1>1. pdoc'[c] = t.doc /\ store'[c] = t.store /\ made' = t.made
  BY TurnEnds
<1>2. store[c] \in Stores /\ t.store \in Stores /\ t.made \in Shapes /\ t.doc \in MadeDocs(t.made)
  BY SoundParts DEF BindingInv, TypeInv, PageTypes
<1>3. IsPrefix(store[c].names, t.store.names)
  BY <1>1 DEF Writes
<1>4. DOMAIN store[c].texts \subseteq DOMAIN t.store.texts
  BY <1>2, <1>3, PrefixKeepsTabs
<1>5. PICK now : now = [doc |-> pdoc'[c], made |-> made']
  OBVIOUS
<1>6. now.doc = t.doc /\ now.made = t.made
  BY <1>1, <1>5
<1>7. \A f : Contents(now, f) = Contents(t, f)
  BY <1>2, <1>6, SameDocument
<1>8. \A f \in Observed(c) : f \in DOMAIN t.store.texts
  BY <1>4 DEF Observed
<1>9. \A f \in Observed(c) :
        ToSet(Contents(Found(c), f)) \subseteq ToSet(Contents(now, f))
  BY <1>3, <1>7, <1>8
<1> DEFINE P == UNION {ToSet(Contents(Found(c), f)) : f \in Observed(c)}
           Q == UNION {ToSet(Contents([doc |-> pdoc'[c], made |-> made'], f)) :
                         f \in DOMAIN store'[c].texts}
<1>10. Removed(c, Observed(c)) = P \ Q
  BY DEF Removed, Found
<1>11. ASSUME NEW x \in P PROVE x \in Q
  <2>1. PICK f \in Observed(c) : x \in ToSet(Contents(Found(c), f))
    OBVIOUS
  <2>2. /\ f \in DOMAIN store'[c].texts
        /\ x \in ToSet(Contents([doc |-> pdoc'[c], made |-> made'], f))
    BY <1>1, <1>5, <1>8, <1>9, <2>1
  <2> QED
    BY <2>2
<1> HIDE DEF P, Q
<1>12. P \ Q = {}
  BY <1>11
<1> QED
  BY <1>10, <1>12, Zenon

\* After observers that left the workspace showing the document, the re-seed effect
\* leaves what the document says in every watched tab.
LEMMA RenderedTexts ==
  ASSUME NEW c \in Pages, NEW D, NEW m \in Shapes, NEW t, Sound(t, c, D, m), Shown(t)
  PROVE  /\ Sound(Rendered(t), c, D, m) /\ Shown(Rendered(t)) /\ Rendered(t).store = t.store
         /\ \A f \in Watched(t) : Contents(Rendered(t), f) = Contents(t, f)
<1>1. PICK r : r = Rendered(t)
  OBVIOUS
<1>2. Sound(r, c, D, m) /\ r.store = t.store /\ (r = t \/ Mirrors(r))
  BY <1>1, RenderedShows
<1>3. CASE r = t
  <2>1. Rendered(t) = t
    BY <1>1, <1>3
  <2> QED
    BY <2>1
<1>4. CASE Mirrors(r)
  <2>1. Shown(r)
    BY <1>2, <1>4, MirrorsShows
  <2>2. DOMAIN t.store.texts = 1..Len(t.store.texts)
    <3>1. t.store.texts \in Seq(Seq(Nat))
      BY SoundParts
    <3> QED
      BY <3>1, LenProperties
  <2>3. \A f \in Watched(t) : Contents(r, f) = Contents(t, f)
    BY <1>2, <1>4, <2>2 DEF Mirrors, Shown, Watched
  <2> QED
    BY <1>1, <1>2, <2>1, <2>3
<1> QED
  BY <1>2, <1>3, <1>4


\* The items of a field that a transaction adds to say as much as before, and more.
LEMMA SaidGrows ==
  ASSUME NEW c \in Pages, NEW t, t.made \in Shapes, t.doc \in MadeDocs(t.made),
         NEW s, s.made \in Shapes, s.doc \in MadeDocs(s.made), Extends(t.made, s.made, c),
         NEW f, Live(t, f) \subseteq Live(s, f)
  PROVE  ToSet(Contents(t, f)) \subseteq ToSet(Contents(s, f))
<1>1. \A i \in Live(t, f) : Value(s.made, i) = Value(t.made, i)
  BY LiveItems, ItemKept DEF Value
<1>2. Said(t.made, Live(t, f)) \subseteq Said(s.made, Live(s, f))
  BY <1>1 DEF Said
<1>3. ToSet(Contents(t, f)) = Said(t.made, Live(t, f))
  BY ContentsElements
<1>4. ToSet(Contents(s, f)) = Said(s.made, Live(s, f))
  BY ContentsElements
<1> QED
  BY <1>2, <1>3, <1>4

\* Messages with items.
LEMMA HeardOutcome ==
  ASSUME BindingInv, NEW c \in Pages, PageDiff(c) \/ PageUpdate(c)
  PROVE  Outcome(c) /\ \A k \in Pages : k # c => TextKept(k)
<1>0. TypeInv /\ made \in Shapes /\ phase \in [Pages -> {"solo", "synced", "bound", "left"}]
  BY DEF BindingInv, TypeInv, PageTypes
<1>1. PICK type \in {"diff", "update"} : Receive(c, type)
  BY DEF PageDiff, PageUpdate
<1>2. /\ Head(down[c]) \in Sent(made) /\ Head(down[c]).type = type
      /\ down[c] # <<>> /\ down'[c] = Tail(down[c])
  BY <1>0, <1>1, ReceiveTypes
<1>3. Head(down[c]).u \in MadeDocs(made)
  BY <1>0, <1>2, Tagged DEF Carries
<1>4. PICK D, b, t : D = Merge(pdoc[c], Head(down[c]).u) /\ b = Turn(c) /\ t = Merged(c, D)
  OBVIOUS
<1>5. /\ TurnOK(t, c, D, made) /\ Applied(c) = Observe(b, t)
      /\ t.doc = D /\ t.made = made /\ t.store = store[c] /\ Within(pdoc[c], D)
      /\ D \in MadeDocs(made)
  BY <1>0, <1>3, <1>4, HeardStarts
<1>6. /\ Sound(b, c, pdoc[c], made) /\ b.page = c /\ b.doc = pdoc[c] /\ b.made = made
      /\ b.store = store[c] /\ pdoc[c] \in MadeDocs(made)
      /\ Complete(b) /\ (phase[c] = "bound" => Shown(b))
  BY <1>4, TurnSound DEF BindingInv, Holding
<1>7. Sound(t, c, D, made)
  <2>1. t.page = c
    BY <1>5, TurnParts
  <2>2. Complete(t)
    BY <1>5, <1>6, <2>1 DEF Complete, Within
  <2> QED
    BY <1>5, <2>2 DEF Sound
<1>8. Heard(c) = D
  BY <1>2, <1>4 DEF Heard
<1>9. PICK s : s = Observe(b, t)
  OBVIOUS
<1>10. Sound(s, c, D, made) /\ s.doc = D /\ s.made = made /\ s.page = c
  BY <1>0, <1>5, <1>7, <1>9, ObserveSound
<1>11. phase[c] = "bound" => Shown(s)
  <2>1. Extends(b.made, t.made, c) /\ b.made \in Shapes /\ b.doc \in MadeDocs(b.made)
        /\ b.store = t.store
    BY <1>0, <1>5, <1>6, ExtendsItself
  <2> QED
    BY <1>0, <1>6, <1>7, <1>9, <2>1, ObserveShows
<1>12. CASE PageDiff(c) /\ phase[c] = "solo"
  <2>1. PICK r : r = Seed(s)
    OBVIOUS
  <2>2. Sound(r, c, D, made)
    BY <1>0, <1>10, <2>1, SeedSound
  <2>3. Done(c, r) /\ phase' = [phase EXCEPT ![c] = "synced"]
    BY <1>5, <1>9, <1>12, <2>1, Zenon DEF PageDiff, Answered
  <2>4. phase[c] # "bound" /\ phase'[c] # "bound" /\ \A k \in Pages : k # c => phase'[k] = phase[k]
    BY <1>0, <1>12, <2>3
  <2> QED
    BY <2>2, <2>3, <2>4, UnboundOutcome, OthersTextKept
<1>13. CASE ~ (PageDiff(c) /\ phase[c] = "solo")
  <2>1. PICK r : r = Rendered(s)
    OBVIOUS
  <2>2. Done(c, r) /\ phase' = phase
    BY <1>5, <1>9, <1>13, <2>1, Zenon DEF PageDiff, PageUpdate
  <2>3. Sound(r, c, D, made)
    BY <1>0, <1>10, <2>1, RenderedShows
  <2>4. CASE phase[c] # "bound"
    BY <2>2, <2>3, <2>4, UnboundOutcome, OthersTextKept
  <2>5. CASE phase[c] = "bound"
    <3>1. /\ Shown(r) /\ r.store = s.store
          /\ \A f \in Watched(s) : Contents(r, f) = Contents(s, f)
      BY <1>0, <1>10, <1>11, <2>1, <2>5, RenderedTexts
    <3>2. \A k \in Pages : Holding(k)'
      BY <2>2, <2>3, <3>1, TurnHolds
    <3>3. \A f : Contents(Found(c), f) = Contents(s, f)
      <4>1. Found(c).doc = s.doc /\ Found(c).made = s.made
        BY <1>8, <1>10 DEF Found
      <4>2. s.made \in Shapes /\ s.doc \in MadeDocs(s.made)
        BY <1>0, <1>5, <1>10
      <4> QED
        BY <4>1, <4>2, SameDocument
    <3>4. \A f \in Observed(c) \cap DOMAIN r.store.texts : f \in Watched(s)
      BY <1>10, <3>1 DEF Observed, Watched
    <3>5. \A f \in Observed(c) \cap DOMAIN r.store.texts :
            ToSet(Contents(Found(c), f)) \subseteq ToSet(Contents(r, f))
      BY <3>1, <3>3, <3>4
    <3>6. TextKept(c)
      BY <2>2, <2>3, <3>5, TextsStay
    <3> QED
      BY <2>2, <2>3, <3>2, <3>6, OthersTextKept DEF Outcome
  <2> QED
    BY <2>4, <2>5
<1> QED
  BY <1>12, <1>13


\* No message is handled in what the user does.
LEMMA NothingHeard ==
  ASSUME TypeInv, NEW c \in Pages, down' = down
  PROVE  Heard(c) = pdoc[c]
<1>1. down[c] \in Seq(Sent(made))
  BY DEF TypeInv, QueueTypes
<1>2. down[c] # <<>> => down[c] # Tail(down[c])
  <2>1. down[c] # <<>> => Len(Tail(down[c])) = Len(down[c]) - 1 /\ Len(down[c]) \in Nat
    BY <1>1, HeadTailProperties, LenProperties
  <2>2. \A n \in Nat : n # n - 1
    OBVIOUS
  <2>3. down[c] # <<>> => Len(Tail(down[c])) # Len(down[c])
    BY <2>1, <2>2
  <2> QED
    BY <2>3, Zenon
<1> QED
  BY <1>2 DEF Heard

\* What the page found reads as its turn began.
LEMMA FoundReads ==
  ASSUME BindingInv, NEW c \in Pages, down' = down, NEW f
  PROVE  Contents(Found(c), f) = Contents(Turn(c), f)
<1>1. Found(c).doc = pdoc[c] /\ Found(c).made = made
  BY NothingHeard DEF Found, BindingInv
<1> QED
  BY <1>1, TurnSound, SameDocument

LEMMA BindOutcome ==
  ASSUME BindingInv, NEW c \in Pages, Bind(c)
  PROVE  Outcome(c) /\ \A k \in Pages : k # c => TextKept(k)
<1>1. PICK t, D : t = Reseed(Turn(c)) /\ D = pdoc[c]
  OBVIOUS
<1>2. Sound(t, c, D, made) /\ Mirrors(t)
  BY <1>1, TurnSound, ReseedMirrors
<1>3. Shown(t)
  BY <1>2, MirrorsShows
<1>4. Done(c, t) /\ phase[c] = "synced" /\ phase' = [phase EXCEPT ![c] = "bound"]
  BY <1>1, Zenon DEF Bind
<1>5. \A k \in Pages : k # c => phase'[k] = phase[k]
  BY <1>4 DEF BindingInv, TypeInv, PageTypes
<1> QED
  BY <1>2, <1>3, <1>4, <1>5, UnboundOutcome, OthersTextKept

\* Typing into a bound tab.
LEMMA TypeOutcome ==
  ASSUME BindingInv, NEW c \in Pages, NEW f \in Nat, Type(c, f)
  PROVE  Outcome(c) /\ \A k \in Pages : k # c => TextKept(k)
<1>0. TypeInv /\ made \in Shapes /\ ops \in Nat /\ MaxOps \in Nat
  BY DEF BindingInv, TypeInv, PageTypes
<1>1. PICK b, D, v : b = Turn(c) /\ D = pdoc[c] /\ v = Typed
  OBVIOUS
<1>2. /\ Sound(b, c, D, made) /\ b.page = c /\ b.doc = D /\ b.made = made
      /\ b.store = store[c] /\ D \in MadeDocs(made)
  BY <1>1, TurnSound
<1>3. PICK t : t = Transact(b, {}, f, v)
  OBVIOUS
<1>4. PICK s : s = Observe(b, t)
  OBVIOUS
<1>5. PICK r : r = Rendered(s)
  OBVIOUS
<1>6. Done(c, r) /\ Act(c, {"bound"})
  BY <1>1, <1>3, <1>4, <1>5, Zenon DEF Type
<1>7. phase[c] = "bound" /\ phase' = phase /\ down' = down
  BY <1>6 DEF Act
<1>8. Shown(b)
  BY <1>1, <1>7 DEF BindingInv, Holding
<1>9. Sound(t, c, D, made) /\ Edit(b, t, c, {}, f, v)
  <2>1. v \in Seq(Nat)
    BY <1>0, <1>1 DEF Typed
  <2>2. {} \in SUBSET Items(b.made)
    OBVIOUS
  <2> QED
    BY <1>0, <1>2, <1>3, <2>1, <2>2, TransactEdits
<1>10. /\ t.made \in Shapes /\ t.doc \in MadeDocs(t.made)
       /\ Extends(b.made, t.made, c) /\ b.store = t.store
       /\ \A g : Live(b, g) \subseteq Live(t, g)
  <2>1. \A g : g # f => Live(t, g) = Live(b, g) \ {}
    BY <1>9, Zenon DEF Edit
  <2>2. Live(b, f) \subseteq Live(t, f)
    BY <1>9 DEF Edit
  <2>3. \A g : Live(b, g) \subseteq Live(t, g)
    BY <2>1, <2>2
  <2> QED
    BY <1>9, <2>3, SoundParts DEF Edit
<1>11. Sound(s, c, D, made) /\ s.doc = t.doc /\ s.made = t.made /\ s.page = c
  BY <1>0, <1>4, <1>9, ObserveSound
<1>12. Shown(s)
  <2>1. b.made \in Shapes /\ b.doc \in MadeDocs(b.made)
    BY <1>0, <1>2
  <2> QED
    BY <1>0, <1>2, <1>4, <1>8, <1>9, <1>10, <2>1, ObserveShows
<1>13. /\ Sound(r, c, D, made) /\ Shown(r) /\ r.store = s.store
       /\ \A g \in Watched(s) : Contents(r, g) = Contents(s, g)
  BY <1>0, <1>5, <1>11, <1>12, RenderedTexts
<1>14. \A k \in Pages : Holding(k)'
  BY <1>6, <1>7, <1>13, TurnHolds
<1>15. ASSUME NEW g \in Observed(c) \cap DOMAIN r.store.texts
       PROVE  ToSet(Contents(Found(c), g)) \subseteq ToSet(Contents(r, g))
  <2>1. Contents(Found(c), g) = Contents(b, g)
    BY <1>1, <1>7, FoundReads
  <2>2. ToSet(Contents(b, g)) \subseteq ToSet(Contents(t, g))
    <3>1. b.made \in Shapes /\ b.doc \in MadeDocs(b.made)
      BY <1>0, <1>2
    <3> QED
      BY <1>10, <3>1, SaidGrows
  <2>3. Contents(s, g) = Contents(t, g)
    BY <1>10, <1>11, SameDocument
  <2>4. g \in Watched(s)
    BY <1>11, <1>13 DEF Observed, Watched
  <2>5. Contents(r, g) = Contents(s, g)
    BY <1>13, <2>4
  <2> QED
    BY <2>1, <2>2, <2>3, <2>5
<1>16. TextKept(c)
  BY <1>6, <1>13, <1>15, TextsStay
<1> QED
  BY <1>6, <1>13, <1>14, <1>16, OthersTextKept DEF Outcome

\* Typing before the page is bound leaves the document alone.
LEMMA TypeSoloOutcome ==
  ASSUME BindingInv, NEW c \in Pages, NEW f \in Nat, TypeSolo(c, f)
  PROVE  Outcome(c) /\ \A k \in Pages : k # c => TextKept(k)
<1>1. TypeInv /\ pdoc \in [Pages -> MadeDocs(made)]
  BY DEF BindingInv, TypeInv, PageTypes
<1>2. PICK t : TurnOK(t, c, pdoc[c], made) /\ Done(c, t)
  BY <1>1, TypeSoloTurns DEF OwnTurn
<1>3. PICK s : s = [Turn(c) EXCEPT !.store.texts[f] = @ \o Typed]
  OBVIOUS
<1>4. Done(c, s) /\ Act(c, {"solo", "synced"})
  BY <1>3, Zenon DEF TypeSolo
<1>5. s.doc = pdoc[c] /\ s.made = made
  BY <1>3 DEF Turn
<1>6. pdoc' = pdoc /\ made' = made
  BY <1>1, <1>4, <1>5 DEF Done
<1>7. t.doc = pdoc[c] /\ t.made = made
  BY <1>1, <1>2, <1>6 DEF Done
<1>8. t.page = c
  BY <1>2, TurnParts
<1>9. Complete(t)
  <2>1. Complete(Turn(c)) /\ Turn(c).page = c /\ Turn(c).doc = pdoc[c] /\ Turn(c).made = made
    BY TurnSound DEF BindingInv, Holding
  <2> QED
    BY <1>7, <1>8, <2>1 DEF Complete
<1>10. PICK D : D = pdoc[c]
  OBVIOUS
<1>11. Sound(t, c, D, made)
  BY <1>2, <1>9, <1>10 DEF Sound
<1>12. phase[c] # "bound" /\ phase' = phase
  BY <1>4 DEF Act
<1> QED
  BY <1>2, <1>11, <1>12, UnboundOutcome, OthersTextKept

\* A workspace edited by its user.
LEMMA EditedOutcome ==
  ASSUME BindingInv, NEW c \in Pages, NEW w \in Stores, Edited(c, w),
         phase' = phase, down' = down,
         IsPrefix(store[c].names, w.names) =>
           \A f \in DOMAIN store[c].texts : w.texts[f] = store[c].texts[f]
  PROVE  Outcome(c) /\ \A k \in Pages : k # c => TextKept(k)
<1>1. PICK t, D : t = Turn(c) /\ D = pdoc[c]
  OBVIOUS
<1>2. Sound(t, c, D, made) /\ made \in Shapes /\ Complete(t) /\ t.page = c
      /\ t.store = store[c] /\ (phase[c] = "bound" => Shown(t))
  BY <1>1, TurnSound DEF BindingInv, Holding
<1>3. PICK s : s = [t EXCEPT !.store = w, !.touched = TRUE]
  OBVIOUS
<1>4. TurnOK(s, c, D, made)
  BY <1>2, <1>3, StoreReplaced DEF Sound
<1>5. s.doc = t.doc /\ s.made = t.made /\ s.page = t.page /\ s.store = w /\ s.touched
  BY <1>1, <1>3 DEF Turn
<1>6. Sound(s, c, D, made)
  BY <1>2, <1>4, <1>5 DEF Sound, Complete
<1>7. PICK r : r = Rendered(s)
  OBVIOUS
<1>8. /\ Sound(r, c, D, made) /\ r.store = w
      /\ phase[c] = "bound" => Mirrors(r)
  <2>1. /\ Sound(Rendered(s), c, D, made) /\ Rendered(s).store = s.store
        /\ s.touched /\ phase[c] = "bound" => Mirrors(Rendered(s))
    <3>1. made \in Shapes
      BY <1>2
    <3> QED
      BY <1>6, <3>1, RenderedShows
  <2> QED
    BY <1>5, <1>7, <2>1, Zenon
<1>9. Done(c, r)
  BY <1>1, <1>3, <1>7, Zenon DEF Edited
<1>10. CASE phase[c] # "bound"
  BY <1>8, <1>9, <1>10, UnboundOutcome, OthersTextKept
<1>11. CASE phase[c] = "bound"
  <2>1. Mirrors(r) /\ Shown(r)
    BY <1>8, <1>11, MirrorsShows
  <2>2. \A k \in Pages : Holding(k)'
    BY <1>8, <1>9, <2>1, TurnHolds
  <2>3. DOMAIN w.texts = 1..Len(w.texts)
    <3>1. w.texts \in Seq(Seq(Nat))
      BY DEF Stores, Workspaces
    <3> QED
      BY <3>1, LenProperties
  <2>4. ASSUME NEW f \in Observed(c) \cap DOMAIN r.store.texts,
               IsPrefix(store[c].names, r.store.names)
        PROVE  ToSet(Contents(Found(c), f)) \subseteq ToSet(Contents(r, f))
    <3>1. Contents(Found(c), f) = Contents(t, f)
      BY <1>1, FoundReads
    <3>2. store[c].texts[f] = Contents(t, f)
      BY <1>2, <1>11 DEF Shown, Watched, Observed
    <3>3. w.texts[f] = store[c].texts[f]
      BY <1>8, <2>4 DEF Observed
    <3>4. Contents(r, f) = w.texts[f]
      BY <1>8, <2>1, <2>3 DEF Mirrors
    <3> QED
      BY <3>1, <3>2, <3>3, <3>4
  <2>5. TextKept(c)
    BY <1>8, <1>9, <2>4, TextsStay
  <2> QED
    BY <1>8, <1>9, <2>2, <2>5, OthersTextKept DEF Outcome
<1> QED
  BY <1>10, <1>11


LEMMA EditOutcomes ==
  ASSUME BindingInv, NEW c \in Pages,
         AddTab(c) \/ \E i \in Nat : RemoveTab(c, i)
  PROVE  Outcome(c) /\ \A k \in Pages : k # c => TextKept(k)
<1>0. TypeInv /\ store[c] \in Stores
  BY DEF BindingInv, TypeInv, PageTypes
<1>1. CASE AddTab(c)
  <2>1. PICK w : w = With(store[c])
    OBVIOUS
  <2>2. /\ w \in Stores /\ Edited(c, w) /\ Act(c, {"solo", "synced", "bound"})
        /\ \A f \in DOMAIN store[c].texts : w.texts[f] = store[c].texts[f]
    BY <1>0, <1>1, <2>1, AddedStore
  <2>3. phase' = phase /\ down' = down
    BY <2>2 DEF Act
  <2> QED
    BY <2>2, <2>3, EditedOutcome
<1>2. ASSUME NEW i \in Nat, RemoveTab(c, i)
      PROVE  Outcome(c) /\ \A k \in Pages : k # c => TextKept(k)
  <2>1. PICK w : w = Without(store[c], i)
    OBVIOUS
  <2>2. /\ w \in Stores /\ Edited(c, w) /\ Act(c, {"solo", "synced", "bound"})
        /\ Len(w.names) < Len(store[c].names)
    BY <1>0, <1>2, <2>1, RemovedStore
  <2>3. phase' = phase /\ down' = down
    BY <2>2 DEF Act
  <2>4. ~ IsPrefix(store[c].names, w.names)
    <3>1. Len(w.names) \in Nat /\ Len(store[c].names) \in Nat
      BY <1>0, <2>2, LenProperties DEF Stores, Workspaces
    <3>2. ~ (Len(store[c].names) <= Len(w.names))
      BY <2>2, <3>1
    <3> QED
      BY <1>0, <2>2, <3>2, PrefixKeepsTabs
  <2> QED
    BY <2>2, <2>3, <2>4, EditedOutcome
<1> QED
  BY <1>1, <1>2

\* Connecting and leaving.
LEMMA SocketOutcome ==
  ASSUME BindingInv, NEW c \in Pages, Start(c) \/ Open(c) \/ Retry(c) \/ Leave(c)
  PROVE  \A k \in Pages : Outcome(k)
<1>1. UNCHANGED <<made, pdoc, store>>
  BY DEF Start, Open, Retry, Leave, pageVars
<1>2. /\ \A k \in Pages : k # c => phase'[k] = phase[k]
      /\ phase'[c] \in {phase[c], "left"}
  BY SocketTypes DEF BindingInv
<1>3. \A k \in Pages : phase'[k] = "bound" => phase[k] = "bound"
  BY <1>2
<1> QED
  BY <1>1, <1>3, NothingWritten

LEMMA StepOutcome ==
  ASSUME BindingInv, [Next]_vars
  PROVE  BindingInv' /\ \A k \in Pages : TextKept(k)
<1>0. TypeInv'
  BY TypesKept DEF BindingInv
<1> SUFFICES \A k \in Pages : Holding(k)' /\ TextKept(k)
  BY <1>0 DEF BindingInv
<1>1. CASE Relay
  BY <1>1, NothingWritten DEF Relay, Noted, pageVars, Outcome
<1>2. ASSUME NEW c \in Pages,
             Start(c) \/ Open(c) \/ Retry(c) \/ Deliver(c) \/ Bind(c) \/ User(c)
      PROVE  \A k \in Pages : Holding(k)' /\ TextKept(k)
  <2>1. CASE Start(c) \/ Open(c) \/ Retry(c) \/ Leave(c)
    BY <2>1, SocketOutcome DEF Outcome
  <2>2. CASE PageInit(c) \/ PageVector(c)
    BY <2>2, NothingWritten DEF PageInit, PageVector, pageVars, Outcome
  <2>3. CASE PageDiff(c) \/ PageUpdate(c)
    BY <2>3, HeardOutcome DEF Outcome
  <2>4. CASE OwnTurnActions(c)
    <3>1. store[c].texts \in Seq(Seq(Nat))
      BY DEF BindingInv, TypeInv, PageTypes, Stores, Workspaces
    <3>2. \A f \in 1..Len(store[c].texts) : f \in Nat
      BY <3>1, LenProperties
    <3>3. Outcome(c) /\ \A k \in Pages : k # c => TextKept(k)
      <4>1. CASE Bind(c)
        BY <4>1, BindOutcome
      <4>2. CASE AddTab(c)
        BY <4>2, EditOutcomes
      <4>3. ASSUME NEW f \in 1..Len(store[c].texts), Type(c, f) \/ TypeSolo(c, f) \/ RemoveTab(c, f)
            PROVE  Outcome(c) /\ \A k \in Pages : k # c => TextKept(k)
        <5>1. f \in Nat
          BY <3>2
        <5> QED
          BY <4>3, <5>1, TypeOutcome, TypeSoloOutcome, EditOutcomes
      <4> QED
        BY <2>4, <4>1, <4>2, <4>3 DEF OwnTurnActions
    <3> QED
      BY <3>3 DEF Outcome
  <2> QED
    BY <1>2, <2>1, <2>2, <2>3, <2>4, PageSteps
<1>3. CASE UNCHANGED vars
  BY <1>3, NothingWritten DEF vars, pageVars, Outcome
<1> QED
  BY <1>1, <1>2, <1>3 DEF Next

LEMMA BindingInitially == Init => BindingInv
<1> SUFFICES ASSUME Init PROVE BindingInv
  OBVIOUS
<1>1. TypeInv
  BY TypesInitially
<1>2. ASSUME NEW c \in Pages PROVE Holding(c)
  <2>1. phase[c] # "bound"
    BY DEF Init
  <2>2. Turn(c).made = [p \in Pages |-> <<>>]
    BY DEF Turn, Init
  <2>3. Items(Turn(c).made) = {}
    <3>1. \A i \in Ids : i[1] \in Pages /\ i[2] \in Nat /\ i[2] # 0
      BY ItemParts
    <3>2. Len(<<>>) = 0
      BY EmptySeq
    <3>3. \A i \in Ids : ~ (i[2] <= Len([p \in Pages |-> <<>>][i[1]]))
      BY <3>1, <3>2
    <3> QED
      BY <2>2, <3>3 DEF Items
  <2>4. Complete(Turn(c))
    BY <2>3 DEF Complete
  <2> QED
    BY <2>1, <2>4 DEF Holding
<1> QED
  BY <1>1, <1>2 DEF BindingInv

-----------------------------------------------------------------------------
\* Between events the workspace of a bound page shows the shared document, its tabs
\* and the text of every tab that is observed: for any pages, opening workspaces,
\* edits, messages, cuts and evictions.  A page's own items are all in its document
\* without a gap, so what it inserts is seen at once; what it hears is seen by the
\* observers, what it writes is read back from the workspace.
\* (useLiveSession.ts: fieldObserver, reconcileQueryTabNames, the re-seed effect)
THEOREM WorkspaceShowsDocument == Spec => []ObservedInStep
<1>1. Init => BindingInv
  BY BindingInitially
<1>2. BindingInv /\ [Next]_vars => BindingInv'
  BY StepOutcome
<1>3. BindingInv => ObservedInStep
  <2> SUFFICES ASSUME BindingInv PROVE ObservedInStep
    OBVIOUS
  <2>1. TypeOK
    BY TypesImplied DEF BindingInv
  <2>2. ASSUME NEW c \in Pages, phase[c] = "bound"
        PROVE  /\ Contents(Turn(c), Names) \in {<<>>, store[c].names}
               /\ \A f \in Observed(c) : store[c].texts[f] = Contents(Turn(c), f)
    <3>1. Shown(Turn(c)) /\ Turn(c).page = c /\ Turn(c).store = store[c]
      BY <2>2, TurnSound DEF BindingInv, Holding
    <3> QED
      BY <3>1 DEF Shown, Watched, Observed
  <2> QED
    BY <2>1, <2>2 DEF ObservedInStep
<1> QED
  BY <1>1, <1>2, <1>3, PTL DEF Spec

\* What a bound page writes into the shared document, for its user or in answer to a
\* message, leaves the text of observed tabs there unless a tab goes, whatever others
\* typed meanwhile: before it writes, its workspace shows that text.
\* (the re-seed effect, under concurrent edits)
THEOREM SharedTextStays == Spec => SharedTextKept
<1>1. Init => BindingInv
  BY BindingInitially
<1>2. BindingInv /\ [Next]_vars => BindingInv'
  BY StepOutcome
<1>3. BindingInv /\ [Next]_vars => [\A c \in Pages : Writes(c) => Removed(c, Observed(c)) = {}]_vars
  <2> SUFFICES ASSUME BindingInv, [Next]_vars
               PROVE  \A c \in Pages : Writes(c) => Removed(c, Observed(c)) = {}
    OBVIOUS
  <2> QED
    BY StepOutcome DEF TextKept
<1> QED
  BY <1>1, <1>2, <1>3, PTL DEF Spec, SharedTextKept

=============================================================================
