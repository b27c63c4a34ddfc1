--------------------------- MODULE LiveSyncProofs ---------------------------
(* The documents of a live session agree when nothing is on its way, and no   *)
(* page seeds over what the relay had: for any pages, contents, connections,  *)
(* faults and days.                                                           *)
EXTENDS LiveSession, TLAPS, FiniteSetTheorems, SequenceTheorems, WellFoundedInduction

USE PagesAssumption, RelayAssumption, SessionAssumption

-----------------------------------------------------------------------------
(* Recursion over numbers and finite sets, by least counterexamples.          *)

LEMMA LeastNumber ==
  ASSUME NEW T \in SUBSET Nat, T # {}
  PROVE  \E x \in T : \A y \in T : x <= y
<1> DEFINE R == OpToRel(<, Nat)
<1>1. IsWellFoundedOn(R, Nat)
  BY NatLessThanWellFounded, Zenon
<1>2. \A x, y \in Nat : x < y => <<x, y>> \in R
  BY DEF OpToRel
<1> HIDE DEF R
<1>3. PICK x \in T : \A y \in T : ~ (<<y, x>> \in R)
  BY <1>1, WFMin
<1>4. ASSUME NEW y \in T PROVE x <= y
  <2>1. x \in Nat /\ y \in Nat /\ <<y, x>> \notin R
    BY <1>3
  <2>2. ~ (y < x)
    BY <1>2, <2>1, Zenon
  <2> QED
    BY <2>1, <2>2
<1> QED
  BY <1>4

\* The first number with a property is 0, or the one before it has it not.
LEMMA FirstFailure ==
  ASSUME NEW T \in SUBSET Nat, T # {}, 0 \notin T
  PROVE  \E n \in Nat : n \notin T /\ n + 1 \in T
<1>1. PICK x \in T : \A y \in T : x <= y
  BY LeastNumber
<1>2. x \in Nat /\ x # 0 /\ x - 1 \in Nat /\ x - 1 \notin T
  BY <1>1
<1> QED
  BY <1>1, <1>2

LEMMA ItemParts ==
  ASSUME NEW i \in Ids
  PROVE  i = <<i[1], i[2]>> /\ i[1] \in Pages /\ i[1] \in Nat /\ i[2] \in Nat /\ i[2] # 0
<1>1. i \in Pages \X (Nat \ {0})
  BY DEF Ids
<1>2. i[1] \in Pages /\ i[2] \in Nat \ {0}
  BY <1>1
<1>3. i = <<i[1], i[2]>>
  BY <1>1
<1>4. \A p \in Pages : p \in Nat
  BY PagesAssumption
<1> QED
  BY <1>2, <1>3, <1>4

\* The items of a set in the order in which Contents reads them.
FirstOf(S) == CHOOSE j \in S : \A k \in S \ {j} : Before(j, k)

LEMMA FirstOfIsOne ==
  ASSUME NEW S \in SUBSET Ids, S # {}
  PROVE  FirstOf(S) \in S
<1>1. PICK p \in {i[1] : i \in S} : \A q \in {i[1] : i \in S} : p <= q
  <2>1. {i[1] : i \in S} \in SUBSET Nat /\ {i[1] : i \in S} # {}
    BY DEF Ids
  <2> QED
    BY <2>1, LeastNumber
<1> DEFINE N == {i[2] : i \in {k \in S : k[1] = p}}
<1>2. PICK n \in N : \A m \in N : n <= m
  <2>1. N \in SUBSET Nat /\ N # {}
    BY <1>1 DEF Ids
  <2> HIDE DEF N
  <2> QED
    BY <2>1, LeastNumber
<1>3. PICK j \in S : j[1] = p /\ j[2] = n
  BY <1>2
<1>4. ASSUME NEW k \in S \ {j} PROVE Before(j, k)
  <2>1. /\ j = <<j[1], j[2]>> /\ k = <<k[1], k[2]>>
        /\ j[1] \in Nat /\ k[1] \in Nat /\ j[2] \in Nat /\ k[2] \in Nat
    BY ItemParts
  <2>2. j[1] <= k[1]
    BY <1>1, <1>3
  <2>3. k[1] = p => j[2] <= k[2]
    BY <1>2, <1>3
  <2> QED
    BY <2>1, <2>2, <2>3, <1>3 DEF Before
<1> QED
  BY <1>3, <1>4 DEF FirstOf

-----------------------------------------------------------------------------
(* What a field holds is a sequence of numbers.                               *)

Field == [field : Nat, value : Seq(Nat)]
Shapes == [Pages -> Seq(Field)]

\* The items that were made, and the documents of such items.
Items(m) == {i \in Ids : i[2] <= Len(m[i[1]])}
MadeDocs(m) ==
  {d \in Docs : IsFiniteSet(d.ins) /\ d.ins \subseteq Items(m) /\ d.del \subseteq Items(m)}

Value(m, i) == m[i[1]][i[2]].value

\* The function by which Contents is defined, on the subsets of L of at most n items.
Small(L, n) == {S \in SUBSET L : Cardinality(S) <= n}
Joins(m, D, g) ==
  g = [S \in D |-> IF S = {} THEN <<>> ELSE Value(m, FirstOf(S)) \o g[S \ {FirstOf(S)}]]

LEMMA ContentsUnfolded ==
  ASSUME NEW t, NEW f
  PROVE  Contents(t, f) = (CHOOSE g : Joins(t.made, SUBSET Live(t, f), g))[Live(t, f)]
  BY DEF Contents, FirstOf, Value, Joins

LEMMA ValueType ==
  ASSUME NEW m \in Shapes, NEW i \in Items(m)
  PROVE  Value(m, i) \in Seq(Nat)
<1>1. i \in Ids /\ m[i[1]] \in Seq(Field) /\ i[2] \in 1..Len(m[i[1]])
  BY ItemParts DEF Items, Shapes
<1>2. m[i[1]][i[2]] \in Field
  BY <1>1, ElementOfSeq
<1> QED
  BY <1>2 DEF Value, Field

\* A set without its first item is smaller.
LEMMA RestIsSmaller ==
  ASSUME NEW L \in SUBSET Ids, IsFiniteSet(L), NEW n \in Nat, NEW S \in Small(L, n + 1), S # {}
  PROVE  FirstOf(S) \in S /\ S \ {FirstOf(S)} \in Small(L, n)
<1>1. FirstOf(S) \in S /\ IsFiniteSet(S) /\ Cardinality(S) <= n + 1
  BY FirstOfIsOne, FS_Subset DEF Small
<1>2. Cardinality(S \ {FirstOf(S)}) = Cardinality(S) - 1 /\ Cardinality(S) \in Nat
  BY <1>1, FS_RemoveElement, FS_CardinalityType
<1> QED
  BY <1>1, <1>2 DEF Small

LEMMA SmallGrows ==
  ASSUME NEW L \in SUBSET Ids, IsFiniteSet(L), NEW n \in Nat
  PROVE  Small(L, n) \subseteq Small(L, n + 1)
<1> SUFFICES ASSUME NEW S \in Small(L, n) PROVE S \in Small(L, n + 1)
  OBVIOUS
<1>1. Cardinality(S) \in Nat
  BY FS_Subset, FS_CardinalityType DEF Small
<1> QED
  BY <1>1 DEF Small

LEMMA SmallestIsEmpty ==
  ASSUME NEW L \in SUBSET Ids, IsFiniteSet(L), NEW S \in Small(L, 0)
  PROVE  S = {}
<1>1. IsFiniteSet(S) /\ Cardinality(S) \in Nat /\ Cardinality(S) <= 0
  BY FS_Subset, FS_CardinalityType DEF Small
<1> QED
  BY <1>1, FS_EmptySet

\* The recursion reaches one size more.
LEMMA JoinsGrow ==
  ASSUME NEW m \in Shapes, NEW L \in SUBSET Ids, IsFiniteSet(L), NEW n \in Nat,
         NEW h, Joins(m, Small(L, n), h)
  PROVE  \E g : Joins(m, Small(L, n + 1), g)
<1> DEFINE g == [S \in Small(L, n + 1) |->
                   IF S = {} THEN <<>> ELSE Value(m, FirstOf(S)) \o h[S \ {FirstOf(S)}]]
<1>1. \A S \in Small(L, n) : g[S] = h[S]
  BY SmallGrows DEF Joins
<1>2. \A S \in Small(L, n + 1) : S # {} =>
        g[S] = Value(m, FirstOf(S)) \o g[S \ {FirstOf(S)}]
  BY <1>1, RestIsSmaller
<1>3. \A S \in Small(L, n + 1) : S = {} => g[S] = <<>>
  OBVIOUS
<1>4. g = [S \in Small(L, n + 1) |-> g[S]]
  OBVIOUS
<1> HIDE DEF g
<1>5. \A S \in Small(L, n + 1) :
        g[S] = IF S = {} THEN <<>> ELSE Value(m, FirstOf(S)) \o g[S \ {FirstOf(S)}]
  BY <1>2, <1>3
<1>6. Joins(m, Small(L, n + 1), g)
  BY <1>4, <1>5, Zenon DEF Joins
<1> QED
  BY <1>6

LEMMA JoinsExist ==
  ASSUME NEW m \in Shapes, NEW L \in SUBSET Ids, IsFiniteSet(L), NEW n \in Nat
  PROVE  \E g : Joins(m, Small(L, n), g)
<1> DEFINE T == {k \in Nat : ~ \E g : Joins(m, Small(L, k), g)}
<1>1. 0 \notin T
  <2> DEFINE g == [S \in Small(L, 0) |-> <<>>]
  <2>1. Joins(m, Small(L, 0), g)
    BY SmallestIsEmpty DEF Joins
  <2> QED
    BY <2>1
<1>2. ASSUME NEW k \in Nat, k \notin T PROVE k + 1 \notin T
  BY <1>2, JoinsGrow
<1> HIDE DEF T
<1>3. T \in SUBSET Nat
  BY DEF T
<1>4. T = {}
  BY <1>1, <1>2, <1>3, FirstFailure
<1> QED
  BY <1>4 DEF T

LEMMA JoinsType ==
  ASSUME NEW m \in Shapes, NEW L \in SUBSET Items(m), IsFiniteSet(L), NEW g,
         NEW D, Joins(m, D, g), NEW n \in Nat, Small(L, n) \subseteq D
  PROVE  \A S \in Small(L, n) : g[S] \in Seq(Nat)
<1> DEFINE T == {k \in Nat : Small(L, k) \subseteq D /\ \E S \in Small(L, k) : g[S] \notin Seq(Nat)}
<1>1. 0 \notin T
  <2> SUFFICES ASSUME Small(L, 0) \subseteq D, NEW S \in Small(L, 0)
               PROVE  g[S] \in Seq(Nat)
    OBVIOUS
  <2>1. S = {}
    BY SmallestIsEmpty DEF Items
  <2> QED
    BY <2>1 DEF Joins
<1>2. ASSUME NEW k \in Nat, k \notin T PROVE k + 1 \notin T
  <2> SUFFICES ASSUME Small(L, k + 1) \subseteq D, NEW S \in Small(L, k + 1)
               PROVE  g[S] \in Seq(Nat)
    OBVIOUS
  <2>1. L \in SUBSET Ids /\ Small(L, k) \subseteq D
    BY SmallGrows DEF Items
  <2>2. CASE S = {}
    BY <2>2 DEF Joins
  <2>3. CASE S # {}
    <3>1. FirstOf(S) \in S /\ S \ {FirstOf(S)} \in Small(L, k)
      BY <2>1, <2>3, RestIsSmaller
    <3>2. g[S \ {FirstOf(S)}] \in Seq(Nat)
      BY <1>2, <2>1, <3>1
    <3>3. Value(m, FirstOf(S)) \in Seq(Nat)
      BY <3>1, ValueType DEF Small
    <3>4. g[S] = Value(m, FirstOf(S)) \o g[S \ {FirstOf(S)}]
      BY <2>3 DEF Joins
    <3> QED
      BY <3>2, <3>3, <3>4, ConcatProperties
  <2> QED
    BY <2>2, <2>3
<1> HIDE DEF T
<1>3. T \in SUBSET Nat
  BY DEF T
<1>4. T = {}
  BY <1>1, <1>2, <1>3, FirstFailure
<1> QED
  BY <1>4 DEF T

LEMMA LiveItems ==
  ASSUME NEW t, t.made \in Shapes, t.doc \in MadeDocs(t.made), NEW f
  PROVE  /\ Live(t, f) \in SUBSET Items(t.made) /\ Live(t, f) \in SUBSET Ids
         /\ Live(t, f) \subseteq t.doc.ins /\ IsFiniteSet(Live(t, f))
<1>1. Live(t, f) \subseteq t.doc.ins
  BY DEF Live, Integrated
<1>2. t.doc.ins \subseteq Items(t.made) /\ IsFiniteSet(t.doc.ins)
  BY DEF MadeDocs
<1>3. IsFiniteSet(Live(t, f))
  BY <1>1, <1>2, FS_Subset
<1> QED
  BY <1>1, <1>2, <1>3 DEF Items

LEMMA ContentsType ==
  ASSUME NEW t, t.made \in Shapes, t.doc \in MadeDocs(t.made), NEW f
  PROVE  Contents(t, f) \in Seq(Nat)
<1> DEFINE L == Live(t, f)
           n == Cardinality(L)
<1>1. L \in SUBSET Items(t.made) /\ L \in SUBSET Ids /\ IsFiniteSet(L) /\ n \in Nat
  BY LiveItems, FS_CardinalityType
<1>2. Small(L, n) = SUBSET L
  <2>1. \A S \in SUBSET L : Cardinality(S) <= n
    BY <1>1, FS_Subset
  <2> QED
    BY <2>1 DEF Small
<1> HIDE DEF L, n
<1> DEFINE g == CHOOSE h : Joins(t.made, SUBSET L, h)
<1>3. Joins(t.made, SUBSET L, g)
  <2>1. \E h : Joins(t.made, SUBSET L, h)
    <3>1. \E h : Joins(t.made, Small(L, n), h)
      BY <1>1, JoinsExist
    <3> QED
      BY <1>2, <3>1, Zenon
  <2> QED
    BY <2>1, Zenon
<1> HIDE DEF g
<1>4. L \in Small(L, n)
  BY <1>2
<1>5. g[L] \in Seq(Nat)
  BY <1>1, <1>2, <1>3, <1>4, JoinsType
<1> QED
  BY <1>5, ContentsUnfolded DEF g, L

-----------------------------------------------------------------------------
(* A turn of page c that began with document D and with what m says is made.   *)

\* What is made is never changed, only added to by the page whose turn it is.
Extends(m, n, c) ==
  /\ \A p \in Pages : p # c => n[p] = m[p]
  /\ Len(m[c]) <= Len(n[c]) /\ \A k \in 1..Len(m[c]) : n[c][k] = m[c][k]

Stores == {w \in Workspaces : HasTabs(w)}
Turns(c) ==
  [page : {c}, doc : Docs, store : Stores, made : Shapes, out : Seq(Docs), touched : BOOLEAN]

\* Nothing is lost, what is sent is there, and what is new is sent.
Accounted(t, D) ==
  /\ Within(D, t.doc)
  /\ \A k \in 1..Len(t.out) : Within(t.out[k], t.doc)
  /\ \A x \in t.doc.ins : x \in D.ins \/ \E k \in 1..Len(t.out) : x \in t.out[k].ins
  /\ \A x \in t.doc.del : x \in D.del \/ \E k \in 1..Len(t.out) : x \in t.out[k].del

TurnOK(t, c, D, m) ==
  /\ t \in Turns(c)
  /\ t.doc \in MadeDocs(t.made)
  /\ Accounted(t, D)
  /\ Extends(m, t.made, c)

LEMMA LenOfShape ==
  ASSUME NEW m \in Shapes, NEW p \in Pages
  PROVE  Len(m[p]) \in Nat /\ m[p] \in Seq(Field)
  BY LenProperties DEF Shapes

LEMMA ItemsGrow ==
  ASSUME NEW c \in Pages, NEW m \in Shapes, NEW n \in Shapes, Extends(m, n, c)
  PROVE  Items(m) \subseteq Items(n) /\ MadeDocs(m) \subseteq MadeDocs(n)
<1>1. \A p \in Pages : Len(m[p]) \in Nat /\ Len(n[p]) \in Nat /\ Len(m[p]) <= Len(n[p])
  BY LenOfShape DEF Extends
<1>2. Items(m) \subseteq Items(n)
  <2> SUFFICES ASSUME NEW i \in Items(m) PROVE i \in Items(n)
    OBVIOUS
  <2>1. i \in Ids /\ i[2] <= Len(m[i[1]])
    BY DEF Items
  <2>2. PICK p \in Pages, k \in Nat : p = i[1] /\ k = i[2]
    BY <2>1, ItemParts
  <2>3. Len(m[p]) \in Nat /\ Len(n[p]) \in Nat /\ Len(m[p]) <= Len(n[p]) /\ k <= Len(m[p])
    BY <1>1, <2>1, <2>2
  <2>4. k <= Len(n[p])
    BY <2>3
  <2> QED
    BY <2>1, <2>2, <2>4 DEF Items
<1> QED
  BY <1>2 DEF MadeDocs

LEMMA MergeType ==
  ASSUME NEW m \in Shapes, NEW d \in MadeDocs(m), NEW u \in MadeDocs(m)
  PROVE  Merge(d, u) \in MadeDocs(m) /\ Within(d, Merge(d, u)) /\ Within(u, Merge(d, u))
<1>1. IsFiniteSet(d.ins \cup u.ins)
  BY FS_Union DEF MadeDocs
<1>2. d.ins \cup u.ins \subseteq Items(m) /\ d.ins \cup u.ins \subseteq Ids
      /\ d.del \cup u.del \subseteq Ids /\ d.del \cup u.del \subseteq Items(m)
  BY DEF MadeDocs, Docs
<1>3. Merge(d, u).ins = d.ins \cup u.ins /\ Merge(d, u).del = d.del \cup u.del
      /\ Merge(d, u) \in Docs
  BY <1>2 DEF Merge, Docs
<1> QED
  BY <1>1, <1>2, <1>3 DEF MadeDocs, Within

\* Longer by one item.
OneMore(m, n, c, e) ==
  /\ n \in Shapes /\ Extends(m, n, c)
  /\ Len(n[c]) = Len(m[c]) + 1 /\ n[c][Len(m[c]) + 1] = e
  /\ <<c, Len(m[c]) + 1>> \in Items(n)

LEMMA MadeGrows ==
  ASSUME NEW c \in Pages, NEW m \in Shapes, NEW e \in Field
  PROVE  OneMore(m, [m EXCEPT ![c] = Append(@, e)], c, e)
<1> DEFINE n == [m EXCEPT ![c] = Append(@, e)]
<1>1. m[c] \in Seq(Field) /\ Len(m[c]) \in Nat
  BY LenOfShape
<1>2. n[c] = Append(m[c], e) /\ \A p \in Pages : p # c => n[p] = m[p]
  BY DEF Shapes
<1>n. n = [m EXCEPT ![c] = Append(m[c], e)]
  OBVIOUS
<1>3. /\ Append(m[c], e) \in Seq(Field) /\ Len(Append(m[c], e)) = Len(m[c]) + 1
      /\ Append(m[c], e)[Len(m[c]) + 1] = e
      /\ \A k \in 1..Len(m[c]) : Append(m[c], e)[k] = m[c][k]
  BY <1>1, AppendProperties
<1>4. n \in Shapes
  BY <1>n, <1>3 DEF Shapes
<1>5. <<c, Len(m[c]) + 1>> \in Items(n)
  BY <1>1, <1>2, <1>3 DEF Items, Ids
<1> HIDE DEF n
<1>6. OneMore(m, n, c, e)
  BY <1>1, <1>2, <1>3, <1>4, <1>5 DEF Extends, OneMore
<1> QED
  BY <1>6 DEF n

LEMMA ExtendsTransitive ==
  ASSUME NEW c \in Pages, NEW m \in Shapes, NEW n \in Shapes, NEW o \in Shapes,
         Extends(m, n, c), Extends(n, o, c)
  PROVE  Extends(m, o, c)
<1>1. Len(m[c]) \in Nat /\ Len(n[c]) \in Nat /\ Len(o[c]) \in Nat
  BY LenOfShape
<1>2. Len(m[c]) <= Len(o[c])
  BY <1>1 DEF Extends
<1>3. ASSUME NEW k \in 1..Len(m[c]) PROVE o[c][k] = m[c][k]
  <2>1. k \in 1..Len(n[c])
    BY <1>1 DEF Extends
  <2> QED
    BY <2>1 DEF Extends
<1> QED
  BY <1>2, <1>3 DEF Extends

\* A transaction: its update is merged and sent.
LEMMA OwnFields ==
  ASSUME NEW c, NEW t \in Turns(c), NEW u, NEW m
  PROVE  Own(t, u, m) = [page |-> c, doc |-> Merge(t.doc, u), store |-> t.store, made |-> m,
                         out |-> Append(t.out, u), touched |-> t.touched]
<1>1. PICK d, w, n, o, b :
        t = [page |-> c, doc |-> d, store |-> w, made |-> n, out |-> o, touched |-> b]
  BY DEF Turns
<1>2. PICK d2, o2 : d2 = Merge(t.doc, u) /\ o2 = Append(t.out, u)
  OBVIOUS
<1>3. PICK q : q = [t EXCEPT !.doc = d2]
  OBVIOUS
<1>4. q = [page |-> c, doc |-> d2, store |-> w, made |-> n, out |-> o, touched |-> b]
  BY <1>1, <1>3
<1>5. PICK r : r = [q EXCEPT !.out = o2]
  OBVIOUS
<1>6. r = [page |-> c, doc |-> d2, store |-> w, made |-> n, out |-> o2, touched |-> b]
  BY <1>4, <1>5
<1>7. PICK s : s = [r EXCEPT !.made = m]
  OBVIOUS
<1>8. s = [page |-> c, doc |-> d2, store |-> w, made |-> m, out |-> o2, touched |-> b]
  BY <1>6, <1>7
<1>9. w = t.store /\ b = t.touched
  BY <1>1
<1>10. Own(t, u, m) = s
  BY <1>2, <1>3, <1>5, <1>7, Zenon DEF Own
<1> QED
  BY <1>2, <1>8, <1>9, <1>10, Zenon

LEMMA OwnOK ==
  ASSUME NEW c \in Pages, NEW D, NEW m \in Shapes, NEW t, TurnOK(t, c, D, m),
         NEW n \in Shapes, Extends(t.made, n, c), NEW u \in MadeDocs(n)
  PROVE  TurnOK(Own(t, u, n), c, D, m)
<1> DEFINE s == Own(t, u, n)
<1>0. s = [page |-> c, doc |-> Merge(t.doc, u), store |-> t.store, made |-> n,
           out |-> Append(t.out, u), touched |-> t.touched]
  BY OwnFields DEF TurnOK
<1> HIDE DEF s
<1>1. /\ t.made \in Shapes /\ t.out \in Seq(Docs) /\ t.doc \in MadeDocs(n) /\ u \in Docs
      /\ t.store \in Stores /\ t.touched \in BOOLEAN
  BY ItemsGrow DEF TurnOK, Turns, MadeDocs
<1>2. /\ s.doc = Merge(t.doc, u) /\ s.out = Append(t.out, u) /\ s.made = n
  BY <1>0
<1>3. /\ Merge(t.doc, u) \in MadeDocs(n) /\ Merge(t.doc, u) \in Docs
      /\ Within(t.doc, s.doc) /\ Within(u, s.doc)
  BY <1>1, <1>2, MergeType DEF MadeDocs
<1>4. /\ Append(t.out, u) \in Seq(Docs) /\ Len(t.out) \in Nat
      /\ Len(s.out) = Len(t.out) + 1 /\ s.out[Len(t.out) + 1] = u
      /\ \A k \in 1..Len(t.out) : s.out[k] = t.out[k]
  BY <1>1, <1>2, AppendProperties, LenProperties
<1>5. s \in Turns(c)
  BY <1>0, <1>1, <1>3, <1>4 DEF Turns
<1>6. Accounted(s, D)
  <2>1. Accounted(t, D)
    BY DEF TurnOK
  <2>2. Within(D, s.doc)
    BY <1>3, <2>1 DEF Accounted, Within
  <2>3. ASSUME NEW k \in 1..Len(s.out) PROVE Within(s.out[k], s.doc)
    <3>1. CASE k \in 1..Len(t.out)
      <4>1. s.out[k] = t.out[k] /\ Within(t.out[k], t.doc)
        BY <1>4, <2>1, <3>1 DEF Accounted
      <4> QED
        BY <1>3, <4>1 DEF Within
    <3>2. CASE k = Len(t.out) + 1
      BY <1>3, <1>4, <3>2
    <3> QED
      BY <1>4, <3>1, <3>2
  <2>4. Len(s.out) = Len(t.out) + 1 /\ 1..Len(t.out) \subseteq 1..Len(s.out)
        /\ Len(t.out) + 1 \in 1..Len(s.out)
    BY <1>4
  <2>5. ASSUME NEW x \in s.doc.ins
        PROVE  x \in D.ins \/ \E k \in 1..Len(s.out) : x \in s.out[k].ins
    <3>1. x \in t.doc.ins \/ x \in u.ins
      BY <1>2 DEF Merge
    <3>2. x \in u.ins => x \in s.out[Len(t.out) + 1].ins
      BY <1>4
    <3> QED
      BY <1>4, <2>1, <2>4, <3>1, <3>2 DEF Accounted
  <2>6. ASSUME NEW x \in s.doc.del
        PROVE  x \in D.del \/ \E k \in 1..Len(s.out) : x \in s.out[k].del
    <3>1. x \in t.doc.del \/ x \in u.del
      BY <1>2 DEF Merge
    <3>2. x \in u.del => x \in s.out[Len(t.out) + 1].del
      BY <1>4
    <3> QED
      BY <1>4, <2>1, <2>4, <3>1, <3>2 DEF Accounted
  <2> QED
    BY <2>2, <2>3, <2>5, <2>6 DEF Accounted
<1>7. Extends(m, n, c)
  BY <1>1, ExtendsTransitive DEF TurnOK
<1> QED
  BY <1>2, <1>3, <1>5, <1>6, <1>7 DEF TurnOK, s

LEMMA TransactOK ==
  ASSUME NEW c \in Pages, NEW D, NEW m \in Shapes, NEW t, TurnOK(t, c, D, m),
         NEW erased \in SUBSET Items(t.made), NEW f \in Nat, NEW value \in Seq(Nat)
  PROVE  TurnOK(Transact(t, erased, f, value), c, D, m)
<1> DEFINE e == [field |-> f, value |-> value]
           k == Len(t.made[c]) + 1
           n == IF value = <<>> THEN t.made ELSE [t.made EXCEPT ![c] = Append(@, e)]
           u == [ins |-> IF value = <<>> THEN {} ELSE {<<c, k>>}, del |-> erased]
<1>1. t.page = c /\ t.made \in Shapes /\ e \in Field
  BY DEF TurnOK, Turns, Field
<1>2. /\ n \in Shapes /\ Extends(t.made, n, c)
      /\ value # <<>> => <<c, k>> \in Items(n)
  <2>1. CASE value = <<>>
    <3>1. Len(t.made[c]) \in Nat
      BY <1>1, LenOfShape
    <3> QED
      BY <1>1, <2>1, <3>1 DEF Extends
  <2>2. CASE value # <<>>
    <3>1. OneMore(t.made, n, c, e)
      BY <1>1, <2>2, MadeGrows, Zenon
    <3> QED
      BY <3>1, Zenon DEF OneMore
  <2> QED
    BY <2>1, <2>2
<1>3. u \in MadeDocs(n)
  <2>1. IsFiniteSet({}) /\ IsFiniteSet({<<c, k>>})
    BY FS_EmptySet, FS_Singleton
  <2>2. erased \subseteq Items(n)
    <3> HIDE DEF n
    <3> QED
      BY <1>1, <1>2, ItemsGrow
  <2> QED
    BY <1>2, <2>1, <2>2 DEF MadeDocs, Docs, Items
<1>4. Transact(t, erased, f, value) \in {t, Own(t, u, n)}
  BY <1>1, Zenon DEF Transact
<1> HIDE DEF n, u
<1>5. TurnOK(Own(t, u, n), c, D, m)
  BY <1>2, <1>3, OwnOK
<1> QED
  BY <1>4, <1>5

LEMMA FunctionIsSeq ==
  ASSUME NEW n \in Nat, NEW S, NEW g \in [1..n -> S]
  PROVE  g \in Seq(S) /\ Len(g) = n
  OBVIOUS

LEMMA TurnParts ==
  ASSUME NEW c, NEW D, NEW m, NEW t, TurnOK(t, c, D, m)
  PROVE  /\ t \in Turns(c) /\ t.page = c /\ t.made \in Shapes /\ t.doc \in MadeDocs(t.made)
         /\ t.store \in Stores /\ t.store.names \in Seq(Nat) /\ t.store.texts \in Seq(Seq(Nat))
         /\ t.touched \in BOOLEAN
  BY DEF TurnOK, Turns, Stores, Workspaces

LEMMA RewriteOK ==
  ASSUME NEW c \in Pages, NEW D, NEW m \in Shapes, NEW t, TurnOK(t, c, D, m),
         NEW f \in Nat, NEW value \in Seq(Nat)
  PROVE  TurnOK(Rewrite(t, f, value), c, D, m)
<1>1. Live(t, f) \in SUBSET Items(t.made) /\ <<>> \in Seq(Nat)
  BY TurnParts, LiveItems, EmptySeq
<1>2. PICK s : s = Transact(t, Live(t, f), f, <<>>)
  OBVIOUS
<1>3. TurnOK(s, c, D, m)
  BY <1>1, <1>2, TransactOK
<1>4. TurnOK(Transact(s, {}, f, value), c, D, m)
  BY <1>3, TransactOK
<1> QED
  BY <1>2, <1>4, Zenon DEF Rewrite

LEMMA RewriteNamesOK ==
  ASSUME NEW c \in Pages, NEW D, NEW m \in Shapes, NEW t, TurnOK(t, c, D, m)
  PROVE  TurnOK(RewriteNames(t), c, D, m)
<1>1. Live(t, Names) \in SUBSET Items(t.made) /\ t.store.names \in Seq(Nat) /\ Names \in Nat
  BY TurnParts, LiveItems DEF Names
<1>2. TurnOK(Transact(t, Live(t, Names), Names, t.store.names), c, D, m)
  BY <1>1, TransactOK
<1> QED
  BY <1>2, Zenon DEF RewriteNames

\* A turn whose workspace is another.
LEMMA StoreReplaced ==
  ASSUME NEW c \in Pages, NEW D, NEW m \in Shapes, NEW t, TurnOK(t, c, D, m),
         NEW w \in Stores, NEW b \in BOOLEAN, NEW s,
         s = [t EXCEPT !.store = w, !.touched = b]
  PROVE  TurnOK(s, c, D, m)
<1>1. PICK d, v, n, o, x :
        t = [page |-> c, doc |-> d, store |-> v, made |-> n, out |-> o, touched |-> x]
  BY TurnParts DEF Turns
<1>2. PICK q : q = [t EXCEPT !.store = w]
  OBVIOUS
<1>3. q = [page |-> c, doc |-> d, store |-> w, made |-> n, out |-> o, touched |-> x]
  BY <1>1, <1>2
<1>4. PICK r : r = [q EXCEPT !.touched = b]
  OBVIOUS
<1>5. r = [page |-> c, doc |-> d, store |-> w, made |-> n, out |-> o, touched |-> b]
  BY <1>3, <1>4
<1>6. s = r
  BY <1>2, <1>4, Zenon
<1>7. s.doc = t.doc /\ s.made = t.made /\ s.out = t.out
  BY <1>1, <1>5, <1>6
<1>8. s \in Turns(c)
  <2>1. n \in Shapes /\ d \in Docs /\ o \in Seq(Docs)
    BY <1>1 DEF TurnOK, Turns
  <2> QED
    BY <1>5, <1>6, <2>1 DEF Turns
<1> QED
  BY <1>7, <1>8 DEF TurnOK, Accounted

LEMMA ObserveOK ==
  ASSUME NEW c \in Pages, NEW D, NEW m \in Shapes, NEW t, TurnOK(t, c, D, m), NEW b
  PROVE  TurnOK(Observe(b, t), c, D, m)
<1>1. /\ t.made \in Shapes /\ t.doc \in MadeDocs(t.made) /\ t.store \in Stores
      /\ t.touched \in BOOLEAN /\ HasTabs(t.store)
      /\ t.store.names \in Seq(Nat) /\ t.store.texts \in Seq(Seq(Nat))
  BY TurnParts DEF Stores
<1>2. \A f : Contents(t, f) \in Seq(Nat)
  BY <1>1, ContentsType
<1> DEFINE names == Contents(t, Names)
           rebuilt == Live(b, Names) # Live(t, Names) /\ names # <<>> /\ names # t.store.names
           heard == {f \in 1..Len(Opening[t.page].texts) : Changed(b, t, f)}
           kept == [f \in DOMAIN t.store.texts |->
                      IF f \in heard THEN Contents(t, f) ELSE t.store.texts[f]]
           texts == IF rebuilt THEN Rebuilt(t, names) ELSE kept
           w == [names |-> IF rebuilt THEN names ELSE t.store.names, texts |-> texts]
           hit == t.touched \/ rebuilt \/ heard # {}
<1>3. w \in Stores
  <2>1. CASE rebuilt
    <3>1. names \in Seq(Nat) /\ names # <<>> /\ Len(names) \in Nat /\ DOMAIN names = 1..Len(names)
      BY <1>2, <2>1, LenProperties
    <3>2. Rebuilt(t, names) \in [1..Len(names) -> Seq(Nat)]
      BY <1>2, <3>1 DEF Rebuilt
    <3>3. Rebuilt(t, names) \in Seq(Seq(Nat)) /\ Len(Rebuilt(t, names)) = Len(names)
      BY <3>1, <3>2, FunctionIsSeq
    <3>4. w = [names |-> names, texts |-> Rebuilt(t, names)]
      BY <2>1
    <3> HIDE DEF names, w
    <3> QED
      BY <3>1, <3>3, <3>4 DEF Stores, Workspaces, HasTabs
  <2>2. CASE ~rebuilt
    <3>1. /\ Len(t.store.texts) \in Nat /\ DOMAIN t.store.texts = 1..Len(t.store.texts)
          /\ \A f \in 1..Len(t.store.texts) : t.store.texts[f] \in Seq(Nat)
      BY <1>1, LenProperties, ElementOfSeq
    <3>2. kept \in [1..Len(t.store.texts) -> Seq(Nat)]
      BY <1>2, <3>1
    <3>3. kept \in Seq(Seq(Nat)) /\ Len(kept) = Len(t.store.texts)
      BY <3>1, <3>2, FunctionIsSeq
    <3>4. w = [names |-> t.store.names, texts |-> kept]
      BY <2>2
    <3> HIDE DEF kept, w
    <3> QED
      BY <1>1, <3>3, <3>4 DEF Stores, Workspaces, HasTabs
  <2> QED
    BY <2>1, <2>2
<1>4. hit \in BOOLEAN
  BY <1>1
<1>5. Observe(b, t) = [t EXCEPT !.store = w, !.touched = hit]
  BY Zenon DEF Observe
<1> HIDE DEF w, hit
<1> QED
  BY <1>3, <1>4, <1>5, StoreReplaced

\* Observers change neither the document nor what is made or sent.
LEMMA ObserveKeeps ==
  ASSUME NEW c, NEW t \in Turns(c), NEW b
  PROVE  /\ Observe(b, t).doc = t.doc /\ Observe(b, t).made = t.made
         /\ Observe(b, t).out = t.out /\ Observe(b, t).page = c
<1>1. PICK w, x : Observe(b, t) = [t EXCEPT !.store = w, !.touched = x]
  BY Zenon DEF Observe
<1>2. PICK q : q = [t EXCEPT !.store = w]
  OBVIOUS
<1>3. q.doc = t.doc /\ q.made = t.made /\ q.out = t.out /\ q.page = c /\ DOMAIN q = DOMAIN t
  BY <1>2 DEF Turns
<1>4. PICK r : r = [q EXCEPT !.touched = x]
  OBVIOUS
<1>5. r.doc = q.doc /\ r.made = q.made /\ r.out = q.out /\ r.page = q.page
  BY <1>3, <1>4 DEF Turns
<1>6. Observe(b, t) = r
  BY <1>1, <1>2, <1>4, Zenon
<1> QED
  BY <1>3, <1>5, <1>6

\* A transaction that erases nothing and writes field f.
AddedTo(t, s, c, f) ==
  /\ s.doc.del = t.doc.del /\ Extends(t.made, s.made, c)
  /\ \A k \in 1..Len(s.made[c]) : k \notin 1..Len(t.made[c]) => s.made[c][k].field = f

LEMMA TransactAdds ==
  ASSUME NEW c \in Pages, NEW D, NEW m \in Shapes, NEW t, TurnOK(t, c, D, m),
         NEW f \in Nat, NEW value \in Seq(Nat)
  PROVE  AddedTo(t, Transact(t, {}, f, value), c, f)
<1> DEFINE s == Transact(t, {}, f, value)
           e == [field |-> f, value |-> value]
           n == [t.made EXCEPT ![c] = Append(@, e)]
           k == Len(t.made[c]) + 1
<1>1. t \in Turns(c) /\ t.page = c /\ t.made \in Shapes /\ e \in Field /\ Len(t.made[c]) \in Nat
  BY TurnParts, LenOfShape DEF Field
<1>2. CASE value = <<>>
  <2>1. s = t
    BY <1>2, Zenon DEF Transact, Empty
  <2> QED
    BY <1>1, <2>1 DEF Extends, AddedTo
<1>3. CASE value # <<>>
  <2>1. PICK u : u = [ins |-> {<<c, k>>}, del |-> {}]
    OBVIOUS
  <2>2. u # Empty
    BY <2>1 DEF Empty
  <2>3. s = Own(t, u, n)
    BY <1>1, <1>3, <2>1, <2>2, Zenon DEF Transact
  <2> HIDE DEF s
  <2>4. n \in Shapes /\ Extends(t.made, n, c) /\ Len(n[c]) = k /\ n[c][k] = e
    <3>1. OneMore(t.made, n, c, e)
      BY <1>1, MadeGrows, Zenon
    <3> QED
      BY <3>1, Zenon DEF OneMore
  <2> HIDE DEF n
  <2>5. s.doc = Merge(t.doc, u) /\ s.made = n
    BY <1>1, <2>3, OwnFields
  <2>6. s.doc.del = t.doc.del
    BY <2>1, <2>5 DEF Merge
  <2>7. \A j \in 1..Len(n[c]) : j \notin 1..Len(t.made[c]) => j = k
    <3>1. PICK l : l = Len(t.made[c]) /\ l \in Nat
      BY <1>1
    <3>2. Len(n[c]) = l + 1 /\ k = l + 1
      BY <2>4, <3>1
    <3> HIDE DEF k
    <3>3. \A j \in 1..l + 1 : j \notin 1..l => j = k
      BY <3>1, <3>2
    <3> QED
      BY <3>1, <3>2, <3>3
  <2>8. n[c][k].field = f
    BY <2>4
  <2> HIDE DEF k, e
  <2>9. \A j \in 1..Len(n[c]) : j \notin 1..Len(t.made[c]) => n[c][j].field = f
    BY <2>7, <2>8
  <2> QED
    BY <2>4, <2>5, <2>6, <2>9, Zenon DEF AddedTo, s
<1> QED
  BY <1>2, <1>3

\* What seeding of t has led to: nothing is deleted, and each new item is of a field
\* that was empty.
Seeded(t, s, c) ==
  /\ s.doc.del = t.doc.del
  /\ \A k \in 1..Len(s.made[c]) : k \notin 1..Len(t.made[c]) =>
       Live(t, s.made[c][k].field) = {}

\* What was live is live as long as nothing is deleted.
LEMMA LiveGrows ==
  ASSUME NEW c \in Pages, NEW t, TurnOK(t, c, t.doc, t.made),
         NEW s, TurnOK(s, c, t.doc, t.made), s.doc.del = t.doc.del, NEW f
  PROVE  Live(t, f) \subseteq Live(s, f)
<1> SUFFICES ASSUME NEW i \in Live(t, f) PROVE i \in Live(s, f)
  OBVIOUS
<1>1. /\ i \in Integrated(t.doc) /\ i \in t.doc.ins /\ i \notin t.doc.del
      /\ t.made[i[1]][i[2]].field = f
  BY DEF Live, Integrated
<1>2. t.doc.ins \subseteq s.doc.ins
  BY DEF TurnOK, Accounted, Within
<1>3. i \in Integrated(s.doc)
  BY <1>1, <1>2 DEF Integrated
<1>4. i \in Items(t.made) /\ i \in Ids /\ i[1] \in Pages /\ i[2] \in 1..Len(t.made[i[1]])
  <2>1. i \in Items(t.made)
    BY <1>1 DEF TurnOK, MadeDocs
  <2>2. i \in Ids /\ i[2] <= Len(t.made[i[1]])
    BY <2>1 DEF Items
  <2>3. i[1] \in Pages /\ i[2] \in Nat /\ i[2] # 0
    BY <2>2, ItemParts
  <2>4. Len(t.made[i[1]]) \in Nat
    BY <2>3, TurnParts, LenOfShape
  <2> QED
    BY <2>1, <2>2, <2>3, <2>4
<1>5. s.made[i[1]][i[2]] = t.made[i[1]][i[2]]
  <2>1. Extends(t.made, s.made, c)
    BY DEF TurnOK
  <2>2. CASE i[1] = c
    BY <1>4, <2>1, <2>2, Zenon DEF Extends
  <2>3. CASE i[1] # c
    BY <1>4, <2>1, <2>3, Zenon DEF Extends
  <2> QED
    BY <2>2, <2>3
<1> QED
  BY <1>1, <1>3, <1>5 DEF Live

LEMMA FillOK ==
  ASSUME NEW c \in Pages, NEW t, TurnOK(t, c, t.doc, t.made),
         NEW b, TurnOK(b, c, t.doc, t.made), Seeded(t, b, c),
         NEW f \in Nat, NEW value \in Seq(Nat)
  PROVE  TurnOK(Fill(b, f, value), c, t.doc, t.made) /\ Seeded(t, Fill(b, f, value), c)
<1>1. CASE Live(b, f) # {}
  BY <1>1 DEF Fill
<1>2. CASE Live(b, f) = {}
  <2>1. PICK s : s = Transact(b, {}, f, value)
    OBVIOUS
  <2>2. t.made \in Shapes /\ b.made \in Shapes
    BY TurnParts
  <2>3. TurnOK(s, c, t.doc, t.made)
    BY <2>1, <2>2, TransactOK
  <2>4. /\ s.doc.del = b.doc.del /\ Extends(b.made, s.made, c)
        /\ \A k \in 1..Len(s.made[c]) : k \notin 1..Len(b.made[c]) => s.made[c][k].field = f
    <3>1. AddedTo(b, s, c, f)
      BY <2>1, <2>2, TransactAdds
    <3> QED
      BY <3>1, Zenon DEF AddedTo
  <2>5. Live(t, f) = {}
    BY <1>2, LiveGrows DEF Seeded
  <2>6. Seeded(t, s, c)
    <3>1. ASSUME NEW k \in 1..Len(s.made[c]), k \notin 1..Len(t.made[c])
          PROVE  Live(t, s.made[c][k].field) = {}
      <4>1. CASE k \in 1..Len(b.made[c])
        BY <2>4, <3>1, <4>1 DEF Seeded, Extends
      <4>2. CASE k \notin 1..Len(b.made[c])
        BY <2>4, <2>5, <4>2
      <4> QED
        BY <4>1, <4>2
    <3> QED
      BY <2>4, <3>1 DEF Seeded
  <2>7. /\ Observe(b, s).doc = s.doc /\ Observe(b, s).made = s.made
        /\ TurnOK(Observe(b, s), c, t.doc, t.made)
    BY <2>2, <2>3, ObserveKeeps, ObserveOK DEF TurnOK
  <2>8. Fill(b, f, value) = Observe(b, s)
    BY <1>2, <2>1, Zenon DEF Fill
  <2> QED
    BY <2>6, <2>7, <2>8 DEF Seeded
<1> QED
  BY <1>1, <1>2

\* Seeding fills field after field.
SeedSteps(t, n, g) ==
  g = [f \in 0..n |-> IF f = 0 THEN Fill(t, Names, Opening[t.page].names)
                              ELSE Fill(g[f - 1], f, Opening[t.page].texts[f])]

LEMMA SeedUnfolded ==
  ASSUME NEW t
  PROVE  Seed(t) = (CHOOSE g : SeedSteps(t, Len(Opening[t.page].texts), g))
                     [Len(Opening[t.page].texts)]
  BY DEF Seed, SeedSteps

LEMMA SeedStepsExist ==
  ASSUME NEW t, NEW n \in Nat
  PROVE  \E g : SeedSteps(t, n, g)
<1> DEFINE T == {k \in Nat : ~ \E g : SeedSteps(t, k, g)}
<1>1. 0 \notin T
  <2> DEFINE g == [f \in 0..0 |-> Fill(t, Names, Opening[t.page].names)]
  <2>1. SeedSteps(t, 0, g)
    BY DEF SeedSteps
  <2> QED
    BY <2>1
<1>2. ASSUME NEW k \in Nat, k \notin T PROVE k + 1 \notin T
  <2>1. PICK h : SeedSteps(t, k, h)
    BY <1>2
  <2> DEFINE g == [f \in 0..(k + 1) |->
                     IF f = 0 THEN Fill(t, Names, Opening[t.page].names)
                              ELSE Fill(h[f - 1], f, Opening[t.page].texts[f])]
  <2>2. ASSUME NEW f \in 0..k PROVE g[f] = h[f]
    <3>1. h[f] = IF f = 0 THEN Fill(t, Names, Opening[t.page].names) ELSE Fill(h[f - 1], f, Opening[t.page].texts[f])
      BY <2>1, Zenon DEF SeedSteps
    <3>2. f \in 0..(k + 1)
      OBVIOUS
    <3> QED
      BY <3>1, <3>2, Zenon
  <2>3. \A f \in 0..(k + 1) : f # 0 => f - 1 \in 0..k
    OBVIOUS
  <2>4. g = [f \in 0..(k + 1) |->
               IF f = 0 THEN Fill(t, Names, Opening[t.page].names)
                        ELSE Fill(g[f - 1], f, Opening[t.page].texts[f])]
    BY <2>2, <2>3
  <2>5. SeedSteps(t, k + 1, g)
    BY <2>4, Zenon DEF SeedSteps
  <2> QED
    BY <2>5
<1> HIDE DEF T
<1>3. T \in SUBSET Nat
  BY DEF T
<1>4. T = {}
  BY <1>1, <1>2, <1>3, FirstFailure
<1> QED
  BY <1>4 DEF T

LEMMA SeedOK ==
  ASSUME NEW c \in Pages, NEW t, TurnOK(t, c, t.doc, t.made)
  PROVE  TurnOK(Seed(t), c, t.doc, t.made) /\ Seeded(t, Seed(t), c)
<1> DEFINE Good(s) == TurnOK(s, c, t.doc, t.made) /\ Seeded(t, s, c)
           n == Len(Opening[t.page].texts)
           g == CHOOSE h : SeedSteps(t, n, h)
<1>1. /\ t.page = c /\ Opening[c].names \in Seq(Nat) /\ Opening[c].texts \in Seq(Seq(Nat))
      /\ n \in Nat
  BY TurnParts, SessionAssumption, LenProperties DEF Workspaces
<1>2. \A k \in 1..n : Opening[c].texts[k] \in Seq(Nat)
  BY <1>1, ElementOfSeq
<1>3. SeedSteps(t, n, g)
  <2>1. \E h : SeedSteps(t, n, h)
    BY <1>1, SeedStepsExist
  <2> HIDE DEF n
  <2> QED
    BY <2>1, Zenon
<1>4. Seed(t) = g[n]
  BY SeedUnfolded, Zenon
<1> HIDE DEF g, n
<1>5. Good(t)
  BY DEF Seeded
<1>6. Good(g[0])
  <2>1. g[0] = Fill(t, Names, Opening[c].names)
    BY <1>1, <1>3 DEF SeedSteps
  <2>2. Names \in Nat
    BY DEF Names
  <2> QED
    BY <1>1, <1>5, <2>1, <2>2, FillOK
<1> DEFINE T == {k \in Nat : k \in 0..n /\ ~ Good(g[k])}
<1>7. 0 \notin T
  BY <1>6
<1>8. ASSUME NEW k \in Nat, k \notin T PROVE k + 1 \notin T
  <2> HIDE DEF Good
  <2> SUFFICES ASSUME k + 1 \in 0..n PROVE Good(g[k + 1])
    OBVIOUS
  <2>1. k \in 0..n /\ k + 1 \in 1..n /\ k + 1 # 0 /\ (k + 1) - 1 = k
    BY <1>1
  <2>2. Good(g[k])
    BY <1>8, <2>1
  <2>3. g[k + 1] = Fill(g[k], k + 1, Opening[c].texts[k + 1])
    BY <1>1, <1>3, <2>1 DEF SeedSteps
  <2>4. Opening[c].texts[k + 1] \in Seq(Nat)
    BY <1>2, <2>1
  <2>5. TurnOK(g[k], c, t.doc, t.made) /\ Seeded(t, g[k], c)
    BY <2>2, Zenon DEF Good
  <2>6. /\ TurnOK(Fill(g[k], k + 1, Opening[c].texts[k + 1]), c, t.doc, t.made)
        /\ Seeded(t, Fill(g[k], k + 1, Opening[c].texts[k + 1]), c)
    BY <2>4, <2>5, FillOK
  <2> QED
    BY <2>3, <2>6, Zenon DEF Good
<1> HIDE DEF T, Good
<1>9. T \in SUBSET Nat
  BY DEF T
<1>10. T = {}
  BY <1>7, <1>8, <1>9, FirstFailure
<1>11. Good(g[n])
  BY <1>1, <1>10 DEF T
<1> QED
  BY <1>4, <1>11 DEF Good

\* Re-seeding rewrites field after field.
ReseedSteps(t, n, g) ==
  g = [f \in 0..n |-> IF f = 0 THEN RewriteNames(t)
                              ELSE Rewrite(g[f - 1], f, t.store.texts[f])]

LEMMA ReseedUnfolded ==
  ASSUME NEW t
  PROVE  Reseed(t) = (CHOOSE g : ReseedSteps(t, Len(t.store.texts), g))[Len(t.store.texts)]
  BY DEF Reseed, ReseedSteps

LEMMA ReseedStepsExist ==
  ASSUME NEW t, NEW n \in Nat
  PROVE  \E g : ReseedSteps(t, n, g)
<1> DEFINE T == {k \in Nat : ~ \E g : ReseedSteps(t, k, g)}
<1>1. 0 \notin T
  <2> DEFINE g == [f \in 0..0 |-> RewriteNames(t)]
  <2>1. ReseedSteps(t, 0, g)
    BY DEF ReseedSteps
  <2> QED
    BY <2>1
<1>2. ASSUME NEW k \in Nat, k \notin T PROVE k + 1 \notin T
  <2>1. PICK h : ReseedSteps(t, k, h)
    BY <1>2
  <2> DEFINE g == [f \in 0..(k + 1) |->
                     IF f = 0 THEN RewriteNames(t) ELSE Rewrite(h[f - 1], f, t.store.texts[f])]
  <2>2. ASSUME NEW f \in 0..k PROVE g[f] = h[f]
    <3>1. h[f] = IF f = 0 THEN RewriteNames(t) ELSE Rewrite(h[f - 1], f, t.store.texts[f])
      BY <2>1, Zenon DEF ReseedSteps
    <3>2. f \in 0..(k + 1)
      OBVIOUS
    <3> QED
      BY <3>1, <3>2, Zenon
  <2>3. \A f \in 0..(k + 1) : f # 0 => f - 1 \in 0..k
    OBVIOUS
  <2>4. g = [f \in 0..(k + 1) |->
               IF f = 0 THEN RewriteNames(t) ELSE Rewrite(g[f - 1], f, t.store.texts[f])]
    BY <2>2, <2>3
  <2>5. ReseedSteps(t, k + 1, g)
    BY <2>4, Zenon DEF ReseedSteps
  <2> QED
    BY <2>5
<1> HIDE DEF T
<1>3. T \in SUBSET Nat
  BY DEF T
<1>4. T = {}
  BY <1>1, <1>2, <1>3, FirstFailure
<1> QED
  BY <1>4 DEF T

LEMMA ReseedOK ==
  ASSUME NEW c \in Pages, NEW D, NEW m \in Shapes, NEW t, TurnOK(t, c, D, m)
  PROVE  TurnOK(Reseed(t), c, D, m)
<1> DEFINE n == Len(t.store.texts)
           g == CHOOSE h : ReseedSteps(t, n, h)
<1>1. t.store.texts \in Seq(Seq(Nat)) /\ n \in Nat
  BY TurnParts, LenProperties
<1>2. \A k \in 1..n : t.store.texts[k] \in Seq(Nat)
  BY <1>1, ElementOfSeq
<1>3. ReseedSteps(t, n, g)
  <2>1. \E h : ReseedSteps(t, n, h)
    BY <1>1, ReseedStepsExist
  <2> HIDE DEF n
  <2> QED
    BY <2>1, Zenon
<1>4. Reseed(t) = g[n]
  BY ReseedUnfolded, Zenon
<1> HIDE DEF g, n
<1>5. TurnOK(g[0], c, D, m)
  <2>1. g[0] = RewriteNames(t)
    BY <1>1, <1>3 DEF ReseedSteps
  <2> QED
    BY <2>1, RewriteNamesOK
<1> DEFINE T == {k \in Nat : k \in 0..n /\ ~ TurnOK(g[k], c, D, m)}
<1>6. 0 \notin T
  BY <1>5
<1>7. ASSUME NEW k \in Nat, k \notin T PROVE k + 1 \notin T
  <2> SUFFICES ASSUME k + 1 \in 0..n PROVE TurnOK(g[k + 1], c, D, m)
    OBVIOUS
  <2>1. k \in 0..n /\ k + 1 \in 1..n /\ k + 1 # 0 /\ (k + 1) - 1 = k
    BY <1>1
  <2>2. TurnOK(g[k], c, D, m)
    BY <1>7, <2>1
  <2>3. g[k + 1] = Rewrite(g[k], k + 1, t.store.texts[k + 1])
    BY <1>1, <1>3, <2>1 DEF ReseedSteps
  <2>4. t.store.texts[k + 1] \in Seq(Nat) /\ k + 1 \in Nat
    BY <1>2, <2>1
  <2> QED
    BY <2>2, <2>3, <2>4, RewriteOK
<1> HIDE DEF T
<1>8. T \in SUBSET Nat
  BY DEF T
<1>9. T = {}
  BY <1>6, <1>7, <1>8, FirstFailure
<1>10. TurnOK(g[n], c, D, m)
  BY <1>1, <1>9 DEF T
<1> QED
  BY <1>4, <1>10

LEMMA RenderedOK ==
  ASSUME NEW c \in Pages, NEW D, NEW m \in Shapes, NEW t, TurnOK(t, c, D, m)
  PROVE  TurnOK(Rendered(t), c, D, m)
  BY ReseedOK DEF Rendered

-----------------------------------------------------------------------------
(* State vectors.                                                             *)

\* d has every item that a holder of the vector is thought to have.
Covered(sv, d) == \A i \in Ids : i[2] <= sv[i[1]] => i \in d.ins

FromPage(d, c) == {i \in Integrated(d) : i[1] = c}

LEMMA FromPageFinite ==
  ASSUME NEW d, IsFiniteSet(d.ins), NEW c
  PROVE  IsFiniteSet(FromPage(d, c)) /\ Cardinality(FromPage(d, c)) \in Nat
<1>1. FromPage(d, c) \in SUBSET d.ins
  BY DEF FromPage, Integrated
<1> QED
  BY <1>1, FS_Subset, FS_CardinalityType

LEMMA VectorType ==
  ASSUME NEW d, IsFiniteSet(d.ins)
  PROVE  Vector(d) \in [Pages -> Nat]
  BY FromPageFinite DEF Vector, FromPage

\* Items 1..k of a page are k items.
Firsts(c, k) == {<<c, n>> : n \in 1..k}

LEMMA FirstItems ==
  ASSUME NEW c, NEW k \in Nat
  PROVE  /\ IsFiniteSet(Firsts(c, k))
         /\ Cardinality(Firsts(c, k)) = k
<1> DEFINE T == {<<c, n>> : n \in 1..k}
           b == [n \in 1..k |-> <<c, n>>]
<1>1. IsFiniteSet(1..k) /\ Cardinality(1..k) = k
  BY FS_Interval
<1>2. b \in Bijection(1..k, T)
  <2>1. b \in Injection(1..k, T)
    <3>1. b \in [1..k -> T]
      OBVIOUS
    <3>2. \A x, y \in 1..k : b[x] = b[y] => x = y
      OBVIOUS
    <3> QED
      BY <3>1, <3>2 DEF Injection, IsInjective
  <2>2. b \in Surjection(1..k, T)
    BY DEF Surjection
  <2> QED
    BY <2>1, <2>2 DEF Bijection
<1>3. ExistsBijection(1..k, T)
  BY <1>2, Zenon DEF ExistsBijection
<1> HIDE DEF T
<1>4. IsFiniteSet(T) /\ Cardinality(T) = k
  BY <1>1, <1>3, FS_Bijection
<1> QED
  BY <1>4 DEF T, Firsts

\* A page's integrated items are its first ones: as many as there are, none is missing.
LEMMA VectorCovers ==
  ASSUME NEW d, d.ins \in SUBSET Ids, IsFiniteSet(d.ins)
  PROVE  Covered(Vector(d), d)
<1> SUFFICES ASSUME NEW i \in Ids, i[2] <= Vector(d)[i[1]], i \notin d.ins PROVE FALSE
  BY DEF Covered
<1>1. PICK c \in Pages, k \in Nat : i = <<c, k>> /\ c = i[1] /\ k = i[2] /\ k # 0
  BY ItemParts
<1>2. k <= Cardinality(FromPage(d, c)) /\ Cardinality(FromPage(d, c)) \in Nat
  BY <1>1, FromPageFinite DEF Vector, FromPage
<1>3. FromPage(d, c) \subseteq Firsts(c, k - 1)
  <2> SUFFICES ASSUME NEW j \in FromPage(d, c) PROVE j \in Firsts(c, k - 1)
    OBVIOUS
  <2>1. j \in Ids /\ j[1] = c /\ \A n \in 1..j[2] : <<c, n>> \in d.ins
    BY DEF FromPage, Integrated
  <2>2. j = <<c, j[2]>> /\ j[2] \in Nat /\ j[2] # 0
    BY <2>1, ItemParts
  <2>3. ~ (k \in 1..j[2])
    BY <1>1, <2>1
  <2>4. j[2] \in 1..(k - 1)
    BY <1>1, <2>2, <2>3
  <2> QED
    BY <2>2, <2>4 DEF Firsts
<1>4. Cardinality(FromPage(d, c)) <= k - 1
  <2>1. k - 1 \in Nat
    BY <1>1
  <2>2. IsFiniteSet(Firsts(c, k - 1))
        /\ Cardinality(Firsts(c, k - 1)) = k - 1
    BY <2>1, FirstItems
  <2> QED
    BY <1>3, <2>2, FS_Subset
<1> QED
  BY <1>1, <1>2, <1>4

LEMMA DiffType ==
  ASSUME NEW m \in Shapes, NEW d \in MadeDocs(m), NEW sv
  PROVE  Diff(d, sv) \in MadeDocs(m) /\ Within(Diff(d, sv), d)
<1> DEFINE S == {i \in d.ins : i[2] > sv[i[1]]}
<1>1. Diff(d, sv).ins = S /\ Diff(d, sv).del = d.del /\ Diff(d, sv) = [ins |-> S, del |-> d.del]
  BY DEF Diff
<1>2. S \in SUBSET d.ins /\ IsFiniteSet(d.ins) /\ d.ins \in SUBSET Ids /\ d.del \in SUBSET Ids
      /\ d.ins \subseteq Items(m) /\ d.del \subseteq Items(m)
  BY DEF MadeDocs, Docs
<1>3. IsFiniteSet(S)
  BY <1>2, FS_Subset
<1> HIDE DEF S
<1>4. Diff(d, sv) \in Docs
  BY <1>1, <1>2 DEF Docs
<1> QED
  BY <1>1, <1>2, <1>3, <1>4 DEF MadeDocs, Within

\* Who has what the vector says is brought up to d by the difference.
LEMMA DiffCompletes ==
  ASSUME NEW m \in Shapes, NEW d \in MadeDocs(m), NEW sv \in [Pages -> Nat], NEW e,
         Covered(sv, e)
  PROVE  /\ \A x \in d.ins : x \in e.ins \/ x \in Diff(d, sv).ins
         /\ \A x \in d.del : x \in Diff(d, sv).del
<1>1. ASSUME NEW x \in d.ins PROVE x \in e.ins \/ x \in Diff(d, sv).ins
  <2>1. x \in Ids
    BY DEF MadeDocs, Docs
  <2>2. x[2] \in Nat /\ sv[x[1]] \in Nat
    BY <2>1, ItemParts
  <2>3. x[2] <= sv[x[1]] \/ x[2] > sv[x[1]]
    BY <2>2
  <2> QED
    BY <2>1, <2>3 DEF Covered, Diff
<1> QED
  BY <1>1 DEF Diff

-----------------------------------------------------------------------------
(* Messages on their way, as sets and by how often a kind occurs.             *)

Sent(m) == [type : {"init"}] \cup [type : {"vector"}, sv : [Pages -> Nat]]
           \cup [type : {"diff", "update"}, u : MadeDocs(m)]

Msgs(q) == {q[k] : k \in 1..Len(q)}
Has(q, type) == \E m \in Msgs(q) : m.type = type
Once(q, type) ==
  \A j, k \in 1..Len(q) : q[j].type = type /\ q[k].type = type => j = k

LEMMA EmptyQueue == Msgs(<<>>) = {} /\ \A type : Once(<<>>, type) /\ ~ Has(<<>>, type)
<1>1. Len(<<>>) = 0
  BY EmptySeq
<1> QED
  BY <1>1 DEF Msgs, Once, Has

LEMMA OneMessage ==
  ASSUME NEW S, NEW m \in S
  PROVE  /\ <<m>> \in Seq(S) /\ <<m>> # <<>> /\ Msgs(<<m>>) = {m}
         /\ \A type : Once(<<m>>, type)
<1>1. <<m>> \in Seq(S) /\ Len(<<m>>) = 1 /\ <<m>>[1] = m
  OBVIOUS
<1> QED
  BY <1>1 DEF Msgs, Once

LEMMA Appended ==
  ASSUME NEW S, NEW q \in Seq(S), NEW m \in S
  PROVE  /\ Append(q, m) \in Seq(S) /\ Append(q, m) # <<>>
         /\ Msgs(Append(q, m)) = Msgs(q) \cup {m}
         /\ \A type : Once(q, type) /\ (m.type = type => ~ Has(q, type))
                        => Once(Append(q, m), type)
<1> DEFINE r == Append(q, m)
<1>1. /\ r \in Seq(S) /\ r # <<>> /\ Len(q) \in Nat /\ Len(r) = Len(q) + 1
      /\ r[Len(q) + 1] = m /\ \A k \in 1..Len(q) : r[k] = q[k]
  BY AppendProperties, LenProperties
<1> HIDE DEF r
<1>2. Msgs(r) = Msgs(q) \cup {m}
  <2>1. ASSUME NEW x \in Msgs(r) PROVE x \in Msgs(q) \cup {m}
    <3>1. PICK k \in 1..Len(r) : x = r[k]
      BY DEF Msgs
    <3>2. k \in 1..Len(q) \/ k = Len(q) + 1
      BY <1>1
    <3> QED
      BY <1>1, <3>1, <3>2 DEF Msgs
  <2>2. 1..Len(q) \subseteq 1..Len(r) /\ Len(q) + 1 \in 1..Len(r)
    BY <1>1
  <2> QED
    BY <1>1, <2>1, <2>2 DEF Msgs
<1>3. ASSUME NEW type, Once(q, type), m.type = type => ~ Has(q, type) PROVE Once(r, type)
  <2> SUFFICES ASSUME NEW j \in 1..Len(r), NEW k \in 1..Len(r),
                      r[j].type = type, r[k].type = type
               PROVE  j = k
    BY DEF Once
  <2>1. \A n \in 1..Len(r) : n \in 1..Len(q) \/ n = Len(q) + 1
    BY <1>1
  <2>2. CASE j \in 1..Len(q) /\ k \in 1..Len(q)
    BY <1>1, <1>3, <2>2 DEF Once
  <2>3. ASSUME NEW n \in 1..Len(q), r[n].type = type, m.type = type PROVE FALSE
    BY <1>1, <1>3, <2>3 DEF Has, Msgs
  <2> QED
    BY <1>1, <2>1, <2>2, <2>3
<1> QED
  BY <1>1, <1>2, <1>3 DEF r

LEMMA Taken ==
  ASSUME NEW S, NEW q \in Seq(S), q # <<>>
  PROVE  /\ Tail(q) \in Seq(S) /\ Head(q) \in S
         /\ Msgs(q) = {Head(q)} \cup Msgs(Tail(q))
         /\ \A type : Once(q, type) =>
              Once(Tail(q), type) /\ (Head(q).type = type => ~ Has(Tail(q), type))
<1> DEFINE r == Tail(q)
<1>1. /\ r \in Seq(S) /\ Head(q) \in S /\ Head(q) = q[1]
      /\ Len(q) \in Nat /\ Len(q) # 0 /\ Len(r) = Len(q) - 1
      /\ \A k \in 1..Len(r) : r[k] = q[k + 1]
  BY HeadTailProperties, EmptySeq, LenProperties
<1> HIDE DEF r
<1>2. \A k \in 1..Len(r) : k + 1 \in 1..Len(q) /\ k + 1 # 1
  BY <1>1
<1>3. \A k \in 1..Len(q) : k = 1 \/ (k - 1 \in 1..Len(r) /\ q[k] = r[k - 1])
  <2> SUFFICES ASSUME NEW k \in 1..Len(q), k # 1 PROVE k - 1 \in 1..Len(r) /\ q[k] = r[k - 1]
    OBVIOUS
  <2>1. k - 1 \in 1..Len(r) /\ (k - 1) + 1 = k
    BY <1>1
  <2> QED
    BY <1>1, <2>1
<1>4. Msgs(q) = {Head(q)} \cup Msgs(r)
  <2>1. ASSUME NEW x \in Msgs(q) PROVE x \in {Head(q)} \cup Msgs(r)
    BY <1>1, <1>3 DEF Msgs
  <2>2. ASSUME NEW x \in Msgs(r) PROVE x \in Msgs(q)
    BY <1>1, <1>2 DEF Msgs
  <2>3. Head(q) \in Msgs(q)
    BY <1>1 DEF Msgs
  <2> QED
    BY <2>1, <2>2, <2>3
<1>5. ASSUME NEW type, Once(q, type)
      PROVE  Once(r, type) /\ (Head(q).type = type => ~ Has(r, type))
  <2>1. Once(r, type)
    <3> SUFFICES ASSUME NEW j \in 1..Len(r), NEW k \in 1..Len(r),
                        r[j].type = type, r[k].type = type
                 PROVE  j = k
      BY DEF Once
    <3>1. j + 1 = k + 1
      BY <1>1, <1>2, <1>5 DEF Once
    <3> QED
      BY <3>1
  <2>2. ASSUME Head(q).type = type, NEW k \in 1..Len(r), r[k].type = type PROVE FALSE
    <3>1. 1 \in 1..Len(q) /\ k + 1 \in 1..Len(q) /\ k + 1 # 1
      BY <1>1, <1>2
    <3>2. q[1].type = type /\ q[k + 1].type = type
      BY <1>1, <2>2
    <3> QED
      BY <1>5, <3>1, <3>2 DEF Once
  <2> QED
    BY <2>1, <2>2 DEF Has, Msgs
<1> QED
  BY <1>1, <1>4, <1>5 DEF r

LEMMA Joined ==
  ASSUME NEW S, NEW q \in Seq(S), NEW r \in Seq(S)
  PROVE  /\ q \o r \in Seq(S) /\ Msgs(q \o r) = Msgs(q) \cup Msgs(r)
         /\ \A type : Once(q, type) /\ ~ Has(r, type) => Once(q \o r, type)
<1> DEFINE s == q \o r
<1>1. /\ s \in Seq(S) /\ Len(q) \in Nat /\ Len(r) \in Nat /\ Len(s) = Len(q) + Len(r)
      /\ \A k \in 1..Len(s) : s[k] = IF k <= Len(q) THEN q[k] ELSE r[k - Len(q)]
  BY ConcatProperties, LenProperties
<1> HIDE DEF s
<1>2. ASSUME NEW k \in 1..Len(s)
      PROVE  \/ k \in 1..Len(q) /\ s[k] = q[k]
             \/ k - Len(q) \in 1..Len(r) /\ s[k] = r[k - Len(q)]
  BY <1>1
<1>3. ASSUME NEW k \in 1..Len(q) PROVE k \in 1..Len(s) /\ s[k] = q[k]
  BY <1>1
<1>4. ASSUME NEW k \in 1..Len(r) PROVE k + Len(q) \in 1..Len(s) /\ s[k + Len(q)] = r[k]
  <2>1. PICK j \in Nat : j = k + Len(q)
    BY <1>1
  <2>2. j \in 1..Len(s) /\ ~ (j <= Len(q)) /\ j - Len(q) = k
    BY <1>1, <2>1
  <2>3. s[j] = r[j - Len(q)]
    BY <1>1, <2>2, Zenon
  <2> QED
    BY <2>1, <2>2, <2>3
<1>5. Msgs(s) = Msgs(q) \cup Msgs(r)
  <2>1. \A x \in Msgs(s) : x \in Msgs(q) \cup Msgs(r)
    BY <1>2 DEF Msgs
  <2>2. \A x \in Msgs(q) \cup Msgs(r) : x \in Msgs(s)
    BY <1>3, <1>4 DEF Msgs
  <2> QED
    BY <2>1, <2>2
<1>6. ASSUME NEW type, Once(q, type), ~ Has(r, type) PROVE Once(s, type)
  BY <1>2, <1>6 DEF Once, Has, Msgs
<1> QED
  BY <1>1, <1>5, <1>6 DEF s

\* The two kinds of messages that carry items.
Carries(x) == x.type \in {"diff", "update"}

LEMMA Tagged ==
  ASSUME NEW m \in Shapes, NEW x \in Sent(m)
  PROVE  /\ x.type \in {"init", "vector", "diff", "update"}
         /\ x.type = "vector" => x.sv \in [Pages -> Nat]
         /\ Carries(x) => x.u \in MadeDocs(m)
  BY DEF Sent, Carries

LEMMA SentGrows ==
  ASSUME NEW c \in Pages, NEW m \in Shapes, NEW n \in Shapes, Extends(m, n, c)
  PROVE  Seq(Sent(m)) \subseteq Seq(Sent(n))
<1>1. Sent(m) \subseteq Sent(n)
  BY ItemsGrow DEF Sent
<1> QED
  BY <1>1

LEMMA NoDocIsNone == \A d \in Docs : d # NoDoc /\ DOMAIN d = {"ins", "del"}
<1>1. DOMAIN NoDoc = {"none"}
  BY DEF NoDoc
<1>2. \A d \in Docs : DOMAIN d = {"ins", "del"}
  BY DEF Docs
<1> QED
  BY <1>1, <1>2

LEMMA EmptyIsMade == ASSUME NEW m \in Shapes PROVE Empty \in MadeDocs(m) /\ Empty # NoDoc
<1>1. IsFiniteSet({})
  BY FS_EmptySet
<1>2. Empty \in Docs /\ Empty.ins = {} /\ Empty.del = {}
  BY DEF Empty, Docs
<1> QED
  BY <1>1, <1>2, NoDocIsNone DEF MadeDocs

-----------------------------------------------------------------------------
(* The type invariant: what is anywhere is made by some page.                 *)

MaybeDocs(m) == MadeDocs(m) \cup {NoDoc}
Rows(m) == [state : MaybeDocs(m), idle : BOOLEAN] \cup {NoRow}

PageTypes ==
  /\ made \in Shapes /\ pdoc \in [Pages -> MadeDocs(made)] /\ store \in [Pages -> Stores]
  /\ phase \in [Pages -> {"solo", "synced", "bound", "left"}]
  /\ answer \in [Pages -> MaybeDocs(made)]
  /\ listed \in BOOLEAN /\ ops \in 0..MaxOps

DocTypes == doc \in MaybeDocs(made) /\ save \in MaybeDocs(made) /\ row \in Rows(made)

QueueTypes == up \in [Pages -> Seq(Sent(made))] /\ down \in [Pages -> Seq(Sent(made))]

RestTypes ==
  /\ conns \subseteq Pages /\ ghosts \in Nat /\ timer \in BOOLEAN /\ alarm \in BOOLEAN
  /\ stage \in {"none", "fresh", "stale", "delete"} /\ touches \in Nat /\ excused \in BOOLEAN
  /\ sock \in [Pages -> Socks] /\ faults \in 0..MaxFaults /\ days \in 0..MaxDays

\* The relay is in memory for a socket it has, and a message is on a socket.
Attached == {"accepted", "open", "closing"}
Socket(c) ==
  /\ sock[c] \in Attached => doc # NoDoc
  /\ ~ Receives(c) => down[c] = <<>>
  /\ sock[c] \notin {"open", "closing"} => up[c] = <<>>
  /\ c \in conns => sock[c] \in Attached

TypeInv == PageTypes /\ DocTypes /\ QueueTypes /\ RestTypes /\ \A c \in Pages : Socket(c)

LEMMA TypesImplied == TypeInv => TypeOK
<1> SUFFICES ASSUME TypeInv PROVE TypeOK
  OBVIOUS
<1>1. MadeDocs(made) \subseteq Docs
  BY DEF MadeDocs
<1>2. Sent(made) \subseteq Messages
  BY <1>1 DEF Sent, Messages
<1>3. Seq(Sent(made)) \subseteq Seq(Messages)
  BY <1>2
<1>4. row \in [state : Docs \cup {NoDoc}, idle : BOOLEAN] \cup {NoRow}
  BY <1>1 DEF TypeInv, DocTypes, Rows, MaybeDocs
<1>5. up \in [Pages -> Seq(Messages)] /\ down \in [Pages -> Seq(Messages)]
  BY <1>3 DEF TypeInv, QueueTypes
<1>6. RelayTypeOK
  BY <1>1, <1>4, <1>5 DEF TypeInv, DocTypes, RestTypes, RelayTypeOK, MaybeDocs
<1>7. pdoc \in [Pages -> Docs] /\ answer \in [Pages -> Docs \cup {NoDoc}]
  BY <1>1 DEF TypeInv, PageTypes, MaybeDocs
<1>8. made \in [Pages -> Seq([field : Nat, value : Seq(Nat)])]
  BY DEF TypeInv, PageTypes, Shapes, Field
<1>9. store \in [Pages -> Workspaces] /\ \A c \in Pages : HasTabs(store[c])
  BY DEF TypeInv, PageTypes, Stores
<1> QED
  BY <1>6, <1>7, <1>8, <1>9 DEF TypeInv, PageTypes, TypeOK

LEMMA TypesInitially == Init => TypeInv
<1> SUFFICES ASSUME Init PROVE TypeInv
  OBVIOUS
<1>1. <<>> \in Seq(Field) /\ <<>> \in Seq(Sent(made))
  BY EmptySeq
<1>2. made \in Shapes
  BY <1>1 DEF Init, Shapes
<1>3. Empty \in MadeDocs(made)
  BY <1>2, EmptyIsMade
<1>4. Opening \in [Pages -> Stores]
  BY SessionAssumption DEF Stores
<1>5. PageTypes
  <2>1. store \in [Pages -> Stores]
    BY <1>4 DEF Init
  <2>2. pdoc \in [Pages -> MadeDocs(made)] /\ answer \in [Pages -> MaybeDocs(made)]
    BY <1>3 DEF Init, MaybeDocs
  <2>3. phase \in [Pages -> {"solo", "synced", "bound", "left"}] /\ listed \in BOOLEAN
    BY DEF Init
  <2>4. ops \in 0..MaxOps
    BY SessionAssumption DEF Init
  <2> QED
    BY <1>2, <2>1, <2>2, <2>3, <2>4 DEF PageTypes
<1>6. DocTypes
  BY DEF Init, RelayInit, DocTypes, MaybeDocs, Rows
<1>7. QueueTypes
  BY <1>1 DEF Init, RelayInit, QueueTypes
<1>8. RestTypes
  <2>1. sock \in [Pages -> Socks]
    BY DEF Init, RelayInit, Socks
  <2>2. faults \in 0..MaxFaults /\ days \in 0..MaxDays
    BY RelayAssumption DEF Init, RelayInit
  <2> QED
    BY <2>1, <2>2 DEF Init, RelayInit, RestTypes
<1>9. ASSUME NEW c \in Pages PROVE Socket(c)
  BY DEF Init, RelayInit, Socket, Attached, Receives
<1> QED
  BY <1>5, <1>6, <1>7, <1>8, <1>9 DEF TypeInv

\* The constructor's load.
LEMMA LoadTypes ==
  ASSUME TypeInv, InMemory
  PROVE  /\ doc' \in MadeDocs(made) /\ doc' # NoDoc /\ excused' \in BOOLEAN
         /\ faults' \in 0..MaxFaults /\ (doc # NoDoc => doc' = doc)
<1> USE DEF TypeInv
<1>1. made \in Shapes /\ doc \in MaybeDocs(made) /\ excused \in BOOLEAN /\ faults \in 0..MaxFaults
  BY DEF PageTypes, DocTypes, RestTypes
<1>2. \A d \in MadeDocs(made) : d # NoDoc
  BY NoDocIsNone DEF MadeDocs
<1>3. Stored \in MadeDocs(made)
  <2>1. Empty \in MadeDocs(made)
    BY <1>1, EmptyIsMade
  <2>2. row # NoRow => row.state \in MaybeDocs(made)
    BY DEF DocTypes, Rows
  <2> QED
    BY <2>1, <2>2 DEF Stored, MaybeDocs
<1>4. CASE doc # NoDoc /\ UNCHANGED <<doc, excused, faults>>
  BY <1>1, <1>2, <1>4 DEF MaybeDocs
<1>5. CASE doc = NoDoc /\ doc' = Stored /\ UNCHANGED <<excused, faults>>
  BY <1>1, <1>2, <1>3, <1>5
<1>6. CASE doc = NoDoc /\ Fault /\ doc' = Empty /\ excused' = TRUE
  <2>1. doc' \in MadeDocs(made)
    BY <1>1, <1>6, EmptyIsMade
  <2>2. faults' \in 0..MaxFaults
    BY <1>1, <1>6, RelayAssumption DEF Fault
  <2> QED
    BY <1>2, <1>6, <2>1, <2>2
<1> QED
  BY <1>4, <1>5, <1>6 DEF InMemory

LEMMA FaultTypes ==
  ASSUME TypeInv, Fault
  PROVE  faults' \in 0..MaxFaults
<1>1. faults \in 0..MaxFaults /\ MaxFaults \in Nat
  BY RelayAssumption DEF TypeInv, RestTypes
<1> QED
  BY <1>1 DEF Fault

\* A message the relay handles.
LEMMA TakeTypes ==
  ASSUME TypeInv, NEW c \in Pages, NEW type, Take(c, type)
  PROVE  /\ Head(up[c]) \in Sent(made) /\ Head(up[c]).type = type
         /\ up[c] \in Seq(Sent(made)) /\ up[c] # <<>>
         /\ up' \in [Pages -> Seq(Sent(made))] /\ up'[c] = Tail(up[c])
         /\ \A k \in Pages : k # c => up'[k] = up[k]
         /\ sock[c] \in {"open", "closing"} /\ doc # NoDoc /\ doc \in MadeDocs(made)
<1> USE DEF TypeInv
<1>1. up[c] \in Seq(Sent(made)) /\ up[c] # <<>> /\ up \in [Pages -> Seq(Sent(made))]
  BY DEF QueueTypes, Take
<1>2. Head(up[c]) \in Sent(made) /\ Tail(up[c]) \in Seq(Sent(made))
  BY <1>1, Taken
<1>3. up' = [up EXCEPT ![c] = Tail(up[c])]
  BY DEF Take
<1>4. /\ up' \in [Pages -> Seq(Sent(made))] /\ up'[c] = Tail(up[c])
      /\ \A k \in Pages : k # c => up'[k] = up[k]
  BY <1>1, <1>2, <1>3
<1>5. sock[c] \in {"open", "closing"}
  BY <1>1 DEF Socket
<1>6. doc # NoDoc
  BY <1>5 DEF Socket, Attached
<1>7. doc \in MadeDocs(made)
  BY <1>6 DEF DocTypes, MaybeDocs
<1> QED
  BY <1>1, <1>2, <1>4, <1>5, <1>6, <1>7 DEF Take

LEMMA ReplyTypes ==
  ASSUME TypeInv, NEW c \in Pages, NEW m \in Sent(made), Reply(c, m)
  PROVE  /\ down' \in [Pages -> Seq(Sent(made))]
         /\ down'[c] = IF Receives(c) THEN Append(down[c], m) ELSE down[c]
         /\ \A k \in Pages : k # c => down'[k] = down[k]
         /\ down[c] \in Seq(Sent(made))
<1>1. down \in [Pages -> Seq(Sent(made))] /\ down[c] \in Seq(Sent(made))
  BY DEF TypeInv, QueueTypes
<1>2. Append(down[c], m) \in Seq(Sent(made))
  BY <1>1, Appended
<1>3. down' = [down EXCEPT ![c] = IF Receives(c) THEN Append(down[c], m) ELSE down[c]]
  BY DEF Reply
<1> QED
  BY <1>1, <1>2, <1>3

LEMMA MessageTypes ==
  ASSUME NEW m \in Shapes, NEW d \in MadeDocs(m), NEW sv
  PROVE  /\ [type |-> "init"] \in Sent(m)
         /\ [type |-> "vector", sv |-> Vector(d)] \in Sent(m)
         /\ [type |-> "diff", u |-> Diff(d, sv)] \in Sent(m)
         /\ [type |-> "update", u |-> d] \in Sent(m)
<1>1. Vector(d) \in [Pages -> Nat]
  BY VectorType DEF MadeDocs
<1>2. Diff(d, sv) \in MadeDocs(m)
  BY DiffType
<1> QED
  BY <1>1, <1>2 DEF Sent

LEMMA NotedTypes ==
  ASSUME TypeInv, Noted
  PROVE  PageTypes' /\ made' = made /\ pdoc' = pdoc /\ phase' = phase
<1>1. doc \in MaybeDocs(made) /\ answer \in [Pages -> MaybeDocs(made)]
  BY DEF TypeInv, DocTypes, PageTypes
<1>2. answer' \in [Pages -> MaybeDocs(made)]
  BY <1>1 DEF Noted
<1>3. UNCHANGED <<made, pdoc, store, phase, listed, ops>>
  BY DEF Noted, pageVars
<1> QED
  BY <1>2, <1>3 DEF TypeInv, PageTypes

\* A socket nothing happens to.
LEMMA SocketKept ==
  ASSUME NEW c \in Pages, Socket(c), sock'[c] = sock[c], up'[c] = up[c], down'[c] = down[c],
         c \in conns' => c \in conns, doc # NoDoc => doc' # NoDoc
  PROVE  Socket(c)'
  BY DEF Socket, Receives, Attached

LEMMA AcceptTypes ==
  ASSUME TypeInv, NEW c \in Pages, Accept(c), Noted
  PROVE  TypeInv'
<1>1. /\ PageTypes' /\ made' = made /\ sock[c] = "connecting" /\ sock \in [Pages -> Socks]
      /\ up \in [Pages -> Seq(Sent(made))] /\ down \in [Pages -> Seq(Sent(made))]
  BY NotedTypes DEF Accept, TypeInv, QueueTypes, RestTypes
<1>2. doc' \in MadeDocs(made) /\ doc' # NoDoc /\ excused' \in BOOLEAN /\ faults' \in 0..MaxFaults
  BY LoadTypes DEF Accept
<1>3. [type |-> "init"] \in Sent(made)
  BY DEF Sent
<1>4. <<[type |-> "init"]>> \in Seq(Sent(made))
  BY <1>3, OneMessage
<1>5. /\ sock' \in [Pages -> Socks] /\ sock'[c] = "accepted"
      /\ \A k \in Pages : k # c => sock'[k] = sock[k] /\ down'[k] = down[k]
      /\ down' \in [Pages -> Seq(Sent(made))] /\ up' = up
  BY <1>1, <1>4 DEF Accept, Socks
<1>6. DocTypes' /\ QueueTypes'
  BY <1>1, <1>2, <1>5 DEF Accept, TypeInv, DocTypes, QueueTypes, MaybeDocs, Rows
<1>7. RestTypes'
  BY <1>2, <1>5 DEF Accept, TypeInv, RestTypes
<1>8. ASSUME NEW k \in Pages PROVE Socket(k)'
  <2>1. CASE k = c
    <3>1. up'[k] = <<>>
      BY <1>1, <1>5, <2>1 DEF TypeInv, Socket
    <3> QED
      BY <1>2, <1>5, <2>1, <3>1 DEF Socket, Receives, Attached
  <2>2. CASE k # c
    <3>1. k \in conns' => k \in conns
      BY <2>2 DEF Accept
    <3> QED
      BY <1>2, <1>5, <2>2, <3>1, SocketKept DEF TypeInv
  <2> QED
    BY <2>1, <2>2
<1> QED
  BY <1>1, <1>6, <1>7, <1>8 DEF TypeInv

LEMMA AnswerTypes ==
  ASSUME TypeInv, NEW c \in Pages, AnswerInit(c) \/ AnswerVector(c), Noted
  PROVE  TypeInv'
<1>1. PICK type : Take(c, type)
  BY DEF AnswerInit, AnswerVector
<1>2. /\ up' \in [Pages -> Seq(Sent(made))] /\ (\A k \in Pages : k # c => up'[k] = up[k])
      /\ sock[c] \in {"open", "closing"} /\ doc \in MadeDocs(made) /\ doc # NoDoc
  BY <1>1, TakeTypes
<1>3. PageTypes' /\ made' = made /\ made \in Shapes
  BY NotedTypes DEF TypeInv, PageTypes
<1>4. UNCHANGED <<doc, conns, ghosts, timer, alarm, stage, row, save, touches, excused,
                  sock, faults, days>>
  BY DEF AnswerInit, AnswerVector
<1>5. PICK m \in Sent(made) : Reply(c, m)
  BY <1>2, <1>3, MessageTypes DEF AnswerInit, AnswerVector
<1>6. /\ down' \in [Pages -> Seq(Sent(made))] /\ (~ Receives(c) => down'[c] = down[c])
      /\ \A k \in Pages : k # c => down'[k] = down[k]
  BY <1>5, ReplyTypes
<1>7. DocTypes' /\ QueueTypes' /\ RestTypes'
  BY <1>2, <1>3, <1>4, <1>6 DEF TypeInv, DocTypes, QueueTypes, RestTypes
<1>8. ASSUME NEW k \in Pages PROVE Socket(k)'
  <2>1. CASE k = c
    BY <1>2, <1>4, <1>6, <2>1 DEF TypeInv, Socket, Receives, Attached
  <2>2. CASE k # c
    BY <1>2, <1>4, <1>6, <2>2, SocketKept DEF TypeInv
  <2> QED
    BY <2>1, <2>2
<1> QED
  BY <1>3, <1>7, <1>8 DEF TypeInv

\* What applyUpdate does, by the message it takes.
Applies(c, u) ==
  /\ u = Head(up[c]).u /\ u \in MadeDocs(made)
  /\ doc' = Merge(doc, u) /\ doc' \in MadeDocs(made) /\ Within(doc, doc') /\ Within(u, doc')
  /\ \A k \in Pages : down'[k] = IF k \in conns \ {c} /\ Receives(k)
                                 THEN Append(down[k], [type |-> "update", u |-> u]) ELSE down[k]

LEMMA ApplyEffect ==
  ASSUME TypeInv, NEW c \in Pages, ApplyUpdate(c)
  PROVE  /\ Applies(c, Head(up[c]).u) /\ Carries(Head(up[c]))
         /\ Take(c, Head(up[c]).type)
         /\ down' \in [Pages -> Seq(Sent(made))]
<1>1. PICK type \in {"diff", "update"} : Take(c, type)
  BY DEF ApplyUpdate
<1>2. Head(up[c]) \in Sent(made) /\ Head(up[c]).type = type /\ doc \in MadeDocs(made)
  BY <1>1, TakeTypes
<1>3. made \in Shapes /\ down \in [Pages -> Seq(Sent(made))]
  BY DEF TypeInv, PageTypes, QueueTypes
<1>4. PICK u : u = Head(up[c]).u
  OBVIOUS
<1>5. u \in MadeDocs(made)
  BY <1>2, <1>3, <1>4, Tagged DEF Carries
<1>6. /\ Merge(doc, u) \in MadeDocs(made) /\ Within(doc, Merge(doc, u))
      /\ Within(u, Merge(doc, u))
  BY <1>2, <1>3, <1>5, MergeType
<1>7. doc' = Merge(doc, u)
  BY <1>4 DEF ApplyUpdate
<1>8. [type |-> "update", u |-> u] \in Sent(made)
  BY <1>3, <1>5, MessageTypes
<1>9. \A k \in Pages : Append(down[k], [type |-> "update", u |-> u]) \in Seq(Sent(made))
  BY <1>3, <1>8, Appended
<1>10. down' = [k \in Pages |-> IF k \in conns \ {c} /\ Receives(k)
                                THEN Append(down[k], [type |-> "update", u |-> u]) ELSE down[k]]
  BY <1>4, Zenon DEF ApplyUpdate
<1>11. down' \in [Pages -> Seq(Sent(made))]
  BY <1>3, <1>9, <1>10
<1>12. Applies(c, u)
  BY <1>4, <1>5, <1>6, <1>7, <1>10 DEF Applies
<1> QED
  BY <1>1, <1>2, <1>4, <1>11, <1>12, Zenon DEF Carries

LEMMA ApplyTypes ==
  ASSUME TypeInv, NEW c \in Pages, ApplyUpdate(c), Noted
  PROVE  TypeInv'
<1>1. /\ Applies(c, Head(up[c]).u) /\ Take(c, Head(up[c]).type)
      /\ down' \in [Pages -> Seq(Sent(made))]
  BY ApplyEffect
<1>2. /\ up' \in [Pages -> Seq(Sent(made))] /\ (\A k \in Pages : k # c => up'[k] = up[k])
      /\ sock[c] \in {"open", "closing"}
  BY <1>1, TakeTypes
<1>3. PageTypes' /\ made' = made /\ made \in Shapes
  BY NotedTypes DEF TypeInv, PageTypes
<1>4. UNCHANGED <<conns, ghosts, alarm, stage, row, save, touches, excused, sock, faults, days>>
      /\ timer' = TRUE
  BY DEF ApplyUpdate, SchedulePersist
<1>5. doc' \in MadeDocs(made) /\ doc' # NoDoc
  BY <1>1, NoDocIsNone DEF Applies, MadeDocs
<1>6. DocTypes' /\ QueueTypes' /\ RestTypes'
  BY <1>1, <1>2, <1>3, <1>4, <1>5
  DEF TypeInv, DocTypes, QueueTypes, RestTypes, MaybeDocs
<1>7. ASSUME NEW k \in Pages PROVE Socket(k)'
  <2>1. ~ Receives(k) => down'[k] = down[k]
    BY <1>1 DEF Applies
  <2>2. k # c => up'[k] = up[k]
    BY <1>2
  <2> QED
    BY <1>2, <1>4, <1>5, <2>1, <2>2 DEF TypeInv, Socket, Receives, Attached
<1> QED
  BY <1>3, <1>6, <1>7 DEF TypeInv

LEMMA CloseTypes ==
  ASSUME TypeInv, NEW c \in Pages, Close(c), Noted
  PROVE  TypeInv'
<1>1. PageTypes' /\ made' = made
  BY NotedTypes
<1>2. /\ sock \in [Pages -> Socks] /\ sock[c] = "closing" /\ up[c] = <<>>
      /\ sock' = [sock EXCEPT ![c] = "gone"]
      /\ conns' = conns \ {c} /\ touches' = touches + 1
      /\ UNCHANGED <<doc, ghosts, timer, alarm, stage, row, save, excused, up, down, faults, days>>
  BY DEF Close, TypeInv, RestTypes
<1>3. sock' \in [Pages -> Socks] /\ sock'[c] = "gone" /\ \A k \in Pages : k # c => sock'[k] = sock[k]
  BY <1>2 DEF Socks
<1>4. DocTypes' /\ QueueTypes' /\ RestTypes'
  BY <1>1, <1>2, <1>3 DEF TypeInv, DocTypes, QueueTypes, RestTypes
<1>5. ASSUME NEW k \in Pages PROVE Socket(k)'
  <2>1. CASE k = c
    BY <1>2, <1>3, <2>1 DEF TypeInv, Socket, Receives, Attached
  <2>2. CASE k # c
    BY <1>2, <1>3, <2>2, SocketKept DEF TypeInv
  <2> QED
    BY <2>1, <2>2
<1> QED
  BY <1>1, <1>4, <1>5 DEF TypeInv

LEMMA CutTypes ==
  ASSUME TypeInv, NEW c \in Pages, Cut(c), Noted
  PROVE  TypeInv'
<1>1. PageTypes' /\ made' = made
  BY NotedTypes
<1>2. /\ sock \in [Pages -> Socks] /\ sock' = [sock EXCEPT ![c] = "waiting"]
      /\ up \in [Pages -> Seq(Sent(made))] /\ down \in [Pages -> Seq(Sent(made))]
      /\ up' = [up EXCEPT ![c] = <<>>] /\ down' = [down EXCEPT ![c] = <<>>]
      /\ conns' = conns \ {c} /\ ghosts' = IF c \in conns THEN ghosts + 1 ELSE ghosts
      /\ faults' \in 0..MaxFaults
      /\ UNCHANGED <<doc, timer, alarm, stage, row, save, touches, excused, days>>
  BY FaultTypes DEF Cut, TypeInv, RestTypes, QueueTypes
<1>3. /\ sock' \in [Pages -> Socks] /\ sock'[c] = "waiting"
      /\ \A k \in Pages : k # c => sock'[k] = sock[k]
  BY <1>2 DEF Socks
<1>4. <<>> \in Seq(Sent(made))
  BY EmptySeq
<1>5. /\ up' \in [Pages -> Seq(Sent(made))] /\ down' \in [Pages -> Seq(Sent(made))]
      /\ up'[c] = <<>> /\ down'[c] = <<>>
      /\ \A k \in Pages : k # c => up'[k] = up[k] /\ down'[k] = down[k]
  BY <1>2, <1>4
<1>6. DocTypes' /\ QueueTypes'
  BY <1>1, <1>2, <1>5 DEF TypeInv, DocTypes, QueueTypes
<1>7. RestTypes'
  <2>1. ghosts' \in Nat /\ conns' \subseteq Pages
    BY <1>2 DEF TypeInv, RestTypes
  <2> QED
    BY <1>2, <1>3, <2>1 DEF TypeInv, RestTypes
<1>8. ASSUME NEW k \in Pages PROVE Socket(k)'
  <2>1. CASE k = c
    BY <1>2, <1>3, <1>5, <2>1 DEF TypeInv, Socket, Receives, Attached
  <2>2. CASE k # c
    BY <1>2, <1>3, <1>5, <2>2, SocketKept DEF TypeInv
  <2> QED
    BY <2>1, <2>2
<1> QED
  BY <1>1, <1>6, <1>7, <1>8 DEF TypeInv

\* What an eviction makes of the sockets.
Dropped(s) == CASE s \in {"accepted", "open"} -> "waiting" [] s = "closing" -> "gone" [] OTHER -> s

LEMMA EvictTypes ==
  ASSUME TypeInv, Evict, Noted
  PROVE  TypeInv'
<1>1. PageTypes' /\ made' = made
  BY NotedTypes
<1>2. /\ doc' = NoDoc /\ conns' = {} /\ ghosts' = 0 /\ timer' = FALSE
      /\ up' = [c \in Pages |-> <<>>] /\ down' = [c \in Pages |-> <<>>]
      /\ faults' \in 0..MaxFaults
      /\ UNCHANGED <<alarm, stage, row, save, touches, excused, days>>
  BY FaultTypes DEF Evict
<1>3. sock' = [c \in Pages |-> Dropped(sock[c])]
  BY Zenon DEF Evict, Dropped, Receives
<1>4. \A s \in Socks : Dropped(s) \in Socks /\ Dropped(s) \notin Attached
  BY DEF Dropped, Socks, Attached
<1>5. sock \in [Pages -> Socks]
  BY DEF TypeInv, RestTypes
<1>6. sock' \in [Pages -> Socks] /\ \A c \in Pages : sock'[c] \notin Attached
  BY <1>3, <1>4, <1>5
<1>7. <<>> \in Seq(Sent(made))
  BY EmptySeq
<1>8. DocTypes' /\ QueueTypes'
  BY <1>1, <1>2, <1>7 DEF TypeInv, DocTypes, QueueTypes, MaybeDocs
<1>9. RestTypes'
  BY <1>2, <1>6 DEF TypeInv, RestTypes
<1>10. \A k \in Pages : Socket(k)'
  BY <1>2, <1>6 DEF Socket, Attached
<1> QED
  BY <1>1, <1>8, <1>9, <1>10 DEF TypeInv

\* The documents, the sockets and what is on them.
linkVars == <<conns, sock, up, down>>

\* Statements, timers and the alarm.
LEMMA StatementTypes ==
  ASSUME TypeInv, Noted,
         CloseGhost \/ Touch \/ Persist \/ SaveLands \/ SaveFails \/ AlarmReads
           \/ AlarmDecides \/ DayPasses
  PROVE  TypeInv' /\ UNCHANGED linkVars /\ (doc # NoDoc => doc' = doc)
<1>1. PageTypes' /\ made' = made /\ made \in Shapes
  BY NotedTypes DEF TypeInv, PageTypes
<1>2. /\ doc \in MaybeDocs(made) /\ save \in MaybeDocs(made) /\ row \in Rows(made)
      /\ faults \in 0..MaxFaults /\ days \in 0..MaxDays /\ touches \in Nat /\ ghosts \in Nat
      /\ NoDoc \in MaybeDocs(made) /\ NoRow \in Rows(made)
  BY DEF TypeInv, DocTypes, RestTypes, MaybeDocs, Rows
<1>3. UNCHANGED linkVars
  BY DEF CloseGhost, Touch, Persist, SaveLands, SaveFails, AlarmReads, AlarmDecides, DayPasses,
         linkVars
<1>4. /\ doc' \in MaybeDocs(made) /\ (doc # NoDoc => doc' = doc /\ doc' # NoDoc)
      /\ excused' \in BOOLEAN
  <2>1. CASE AlarmReads
    BY <2>1, LoadTypes DEF AlarmReads, MaybeDocs
  <2>2. CASE ~ AlarmReads
    <3>1. doc' = doc /\ excused \in BOOLEAN /\ excused' \in {excused, TRUE, FALSE}
      BY <2>2 DEF CloseGhost, Touch, Persist, SaveLands, SaveFails, AlarmDecides, DayPasses,
                  TypeInv, RestTypes
    <3> QED
      BY <1>2, <3>1
  <2> QED
    BY <2>1, <2>2
<1>5. save' \in MaybeDocs(made)
  BY <1>2 DEF CloseGhost, Touch, Persist, SaveLands, SaveFails, AlarmReads, AlarmDecides, DayPasses
<1>6. row' \in Rows(made)
  <2>1. \A r \in Rows(made), b \in BOOLEAN : r # NoRow => [r EXCEPT !.idle = b] \in Rows(made)
    BY DEF Rows
  <2>2. \A d \in MaybeDocs(made), b \in BOOLEAN : [state |-> d, idle |-> b] \in Rows(made)
    BY DEF Rows
  <2> QED
    BY <1>2, <2>1, <2>2
    DEF CloseGhost, Touch, Persist, SaveLands, SaveFails, AlarmReads, AlarmDecides, DayPasses
<1>7. faults' \in 0..MaxFaults
  <2>1. CASE Fault
    BY <2>1, FaultTypes
  <2>2. CASE UNCHANGED faults
    BY <1>2, <2>2
  <2>3. CASE AlarmReads
    BY <2>3, LoadTypes DEF AlarmReads
  <2> QED
    BY <2>1, <2>2, <2>3
    DEF CloseGhost, Touch, Persist, SaveLands, SaveFails, AlarmDecides, DayPasses
<1>8. days' \in 0..MaxDays /\ touches' \in Nat /\ ghosts' \in Nat
  BY <1>2, RelayAssumption
  DEF CloseGhost, Touch, Persist, SaveLands, SaveFails, AlarmReads, AlarmDecides, DayPasses
<1>9. timer' \in BOOLEAN /\ alarm' \in BOOLEAN /\ stage' \in {"none", "fresh", "stale", "delete"}
  BY DEF CloseGhost, Touch, Persist, SaveLands, SaveFails, AlarmReads, AlarmDecides, DayPasses,
         TypeInv, RestTypes
<1>10. DocTypes' /\ QueueTypes'
  BY <1>1, <1>3, <1>4, <1>5, <1>6 DEF TypeInv, DocTypes, QueueTypes, linkVars
<1>11. RestTypes'
  BY <1>3, <1>4, <1>7, <1>8, <1>9 DEF TypeInv, RestTypes, linkVars
<1>12. \A k \in Pages : Socket(k)'
  BY <1>3, <1>4, SocketKept DEF TypeInv, linkVars
<1> QED
  BY <1>1, <1>3, <1>4, <1>10, <1>11, <1>12 DEF TypeInv

LEMMA DeleteTypes ==
  ASSUME TypeInv, AlarmDeletes, Noted
  PROVE  TypeInv'
<1>1. PageTypes' /\ made' = made
  BY NotedTypes
<1>2. /\ stage' = "none" /\ row' = NoRow /\ conns' = {} /\ ghosts' = 0 /\ excused' = TRUE
      /\ UNCHANGED <<doc, timer, alarm, save, touches, sock, up, down, faults, days>>
  BY DEF AlarmDeletes
<1>3. DocTypes' /\ QueueTypes' /\ RestTypes'
  BY <1>1, <1>2 DEF TypeInv, DocTypes, QueueTypes, RestTypes, Rows
<1>4. \A k \in Pages : Socket(k)'
  BY <1>2, SocketKept DEF TypeInv
<1> QED
  BY <1>1, <1>3, <1>4 DEF TypeInv

LEMMA RelayTypes ==
  ASSUME TypeInv, Relay
  PROVE  TypeInv'
  BY AcceptTypes, AnswerTypes, ApplyTypes, CloseTypes, CutTypes, EvictTypes, StatementTypes,
     DeleteTypes
  DEF Relay, RelayStep

-----------------------------------------------------------------------------
(* The turns of a page, and what the relay and the others see of one.         *)

LEMMA TurnStarts ==
  ASSUME TypeInv, NEW c \in Pages
  PROVE  TurnOK(Turn(c), c, pdoc[c], made) /\ Turn(c).doc = pdoc[c] /\ Turn(c).made = made
<1>1. /\ made \in Shapes /\ pdoc[c] \in MadeDocs(made) /\ pdoc[c] \in Docs
      /\ store[c] \in Stores
  BY DEF TypeInv, PageTypes, MadeDocs
<1>2. <<>> \in Seq(Docs) /\ Len(<<>>) = 0
  BY EmptySeq
<1>3. PICK t : t = Turn(c)
  OBVIOUS
<1>4. t = [page |-> c, doc |-> pdoc[c], store |-> store[c], made |-> made,
           out |-> <<>>, touched |-> FALSE]
  BY <1>3 DEF Turn
<1>5. t \in Turns(c)
  BY <1>1, <1>2, <1>4 DEF Turns
<1>6. t.doc = pdoc[c] /\ t.made = made /\ t.out = <<>>
  BY <1>4
<1>7. Accounted(t, pdoc[c])
  BY <1>2, <1>6 DEF Accounted, Within
<1>8. Len(made[c]) \in Nat
  BY <1>1, LenOfShape
<1>9. Extends(made, t.made, c)
  BY <1>6, <1>8 DEF Extends
<1> QED
  BY <1>1, <1>3, <1>5, <1>6, <1>7, <1>9 DEF TurnOK

\* A message with items is handled: the turn with what it brings.
Merged(c, D) == [Turn(c) EXCEPT !.doc = D]

LEMMA HeardStarts ==
  ASSUME TypeInv, NEW c \in Pages, Head(down[c]).u \in MadeDocs(made),
         NEW D, D = Merge(pdoc[c], Head(down[c]).u)
  PROVE  /\ D \in MadeDocs(made) /\ Within(pdoc[c], D) /\ Within(Head(down[c]).u, D)
         /\ TurnOK(Merged(c, D), c, D, made) /\ Applied(c) = Observe(Turn(c), Merged(c, D))
         /\ Merged(c, D).doc = D /\ Merged(c, D).made = made /\ Merged(c, D).store = store[c]
<1>1. PICK t, u : t = Turn(c) /\ u = Head(down[c]).u
  OBVIOUS
<1>2. TurnOK(t, c, pdoc[c], made) /\ t.doc = pdoc[c] /\ t.made = made
  BY <1>1, TurnStarts
<1>4. D \in MadeDocs(made) /\ Within(pdoc[c], D) /\ Within(u, D)
  BY <1>1, MergeType DEF TypeInv, PageTypes
<1>5. PICK s : s = [t EXCEPT !.doc = D]
  OBVIOUS
<1>6. PICK w, x : /\ t = [page |-> c, doc |-> pdoc[c], store |-> w, made |-> made,
                          out |-> <<>>, touched |-> x]
                  /\ w = store[c]
  BY <1>1 DEF Turn
<1>7. s = [page |-> c, doc |-> D, store |-> w, made |-> made, out |-> <<>>, touched |-> x]
  BY <1>5, <1>6
<1>8. w \in Stores /\ x \in BOOLEAN
  BY <1>2, <1>6, TurnParts
<1>9. s \in Turns(c)
  <2>1. made \in Shapes /\ D \in Docs /\ <<>> \in Seq(Docs)
    BY <1>4, EmptySeq DEF TypeInv, PageTypes, MadeDocs
  <2> QED
    BY <1>7, <1>8, <2>1 DEF Turns
<1>10. s.doc = D /\ s.made = made /\ s.store = w /\ s.out = <<>> /\ Len(<<>>) = 0
  BY <1>7, EmptySeq
<1>11. Accounted(s, D)
  BY <1>10 DEF Accounted, Within
<1>12. TurnOK(s, c, D, made)
  BY <1>2, <1>4, <1>9, <1>10, <1>11 DEF TurnOK
<1>13. Applied(c) = Observe(t, s)
  BY <1>1, <1>2, <1>5, Zenon DEF Applied
<1>14. Merged(c, D) = s
  BY <1>1, <1>5, Zenon DEF Merged
<1> QED
  BY <1>1, <1>4, <1>6, <1>10, <1>12, <1>13, <1>14

LEMMA AppliedOK ==
  ASSUME TypeInv, NEW c \in Pages, Head(down[c]).u \in MadeDocs(made)
  PROVE  /\ TurnOK(Applied(c), c, Merge(pdoc[c], Head(down[c]).u), made)
         /\ Applied(c).doc = Merge(pdoc[c], Head(down[c]).u) /\ Applied(c).made = made
         /\ Within(pdoc[c], Applied(c).doc) /\ Within(Head(down[c]).u, Applied(c).doc)
         /\ Applied(c).doc \in MadeDocs(made)
<1>1. PICK D, s, t : D = Merge(pdoc[c], Head(down[c]).u) /\ s = Merged(c, D) /\ t = Turn(c)
  OBVIOUS
<1>2. /\ D \in MadeDocs(made) /\ Within(pdoc[c], D) /\ Within(Head(down[c]).u, D)
      /\ TurnOK(s, c, D, made) /\ Applied(c) = Observe(t, s)
      /\ s.doc = D /\ s.made = made
  BY <1>1, HeardStarts
<1>3. made \in Shapes /\ s \in Turns(c)
  BY <1>2 DEF TypeInv, PageTypes, TurnOK
<1>4. TurnOK(Observe(t, s), c, D, made)
  BY <1>2, <1>3, ObserveOK
<1>5. Observe(t, s).doc = D /\ Observe(t, s).made = made
  BY <1>2, <1>3, ObserveKeeps
<1> QED
  BY <1>1, <1>2, <1>4, <1>5

\* A turn of page c from document D is seen: what it adds is on its way.
Seen(c, D) ==
  /\ Within(D, pdoc'[c])
  /\ \A k \in Pages : k # c => pdoc'[k] = pdoc[k] /\ up'[k] = up[k]
  /\ sock[c] # "open" => up'[c] = up[c]
  /\ Msgs(up[c]) \subseteq Msgs(up'[c])
  /\ \A x \in Msgs(up'[c]) : x \notin Msgs(up[c]) => x.type = "update" /\ Within(x.u, pdoc'[c])
  /\ sock[c] = "open" =>
       /\ \A i \in pdoc'[c].ins : i \notin D.ins =>
            \E x \in Msgs(up'[c]) : Carries(x) /\ i \in x.u.ins
       /\ \A i \in pdoc'[c].del : i \notin D.del =>
            \E x \in Msgs(up'[c]) : Carries(x) /\ i \in x.u.del
  /\ Once(up[c], "vector") => Once(up'[c], "vector")

PageWrites(c) ==
  /\ made' \in Shapes /\ Extends(made, made', c)
  /\ pdoc' \in [Pages -> MadeDocs(made')] /\ store' \in [Pages -> Stores]
  /\ up' \in [Pages -> Seq(Sent(made'))]

LEMMA TurnSeen ==
  ASSUME TypeInv, NEW c \in Pages, NEW D, NEW t, TurnOK(t, c, D, made), Done(c, t)
  PROVE  PageWrites(c) /\ Seen(c, D) /\ pdoc'[c] = t.doc /\ made' = t.made
<1>1. /\ t.made \in Shapes /\ t.doc \in MadeDocs(t.made) /\ t.store \in Stores
      /\ t.out \in Seq(Docs) /\ Extends(made, t.made, c) /\ Accounted(t, D)
  BY DEF TurnOK, Turns
<1>2. /\ made \in Shapes /\ pdoc \in [Pages -> MadeDocs(made)] /\ store \in [Pages -> Stores]
      /\ up \in [Pages -> Seq(Sent(made))]
  BY DEF TypeInv, PageTypes, QueueTypes
<1>3. MadeDocs(made) \subseteq MadeDocs(t.made) /\ Seq(Sent(made)) \subseteq Seq(Sent(t.made))
  BY <1>1, <1>2, ItemsGrow, SentGrows
<1>4. /\ made' = t.made /\ pdoc' = [pdoc EXCEPT ![c] = t.doc]
      /\ store' = [store EXCEPT ![c] = t.store]
  BY DEF Done
<1>5. pdoc' \in [Pages -> MadeDocs(made')] /\ store' \in [Pages -> Stores]
      /\ pdoc'[c] = t.doc /\ \A k \in Pages : k # c => pdoc'[k] = pdoc[k]
  BY <1>1, <1>2, <1>3, <1>4
<1> DEFINE r == [k \in DOMAIN t.out |-> [type |-> "update", u |-> t.out[k]]]
<1>6. /\ r \in Seq(Sent(t.made)) /\ Len(r) = Len(t.out) /\ Len(t.out) \in Nat
      /\ \A k \in 1..Len(t.out) : r[k] = [type |-> "update", u |-> t.out[k]]
  <2>1. Len(t.out) \in Nat /\ DOMAIN t.out = 1..Len(t.out)
    BY <1>1, LenProperties
  <2>2. ASSUME NEW k \in 1..Len(t.out) PROVE [type |-> "update", u |-> t.out[k]] \in Sent(t.made)
    <3>1. t.out[k] \in Docs /\ Within(t.out[k], t.doc)
      BY <1>1, <2>2, ElementOfSeq DEF Accounted
    <3>2. IsFiniteSet(t.out[k].ins) /\ t.out[k].ins \subseteq Items(t.made)
          /\ t.out[k].del \subseteq Items(t.made)
      BY <1>1, <3>1, FS_Subset DEF MadeDocs, Within
    <3>3. t.out[k] \in MadeDocs(t.made)
      BY <3>1, <3>2 DEF MadeDocs
    <3> QED
      BY <3>3 DEF Sent
  <2>3. r \in [1..Len(t.out) -> Sent(t.made)]
    BY <2>1, <2>2
  <2> QED
    BY <2>1, <2>3, FunctionIsSeq
<1>7. up' = [up EXCEPT ![c] = IF sock[c] # "open" THEN up[c] ELSE up[c] \o r]
  BY Zenon DEF Done
<1>8. \A x \in Msgs(r) : x.type = "update" /\ Within(x.u, t.doc)
  BY <1>1, <1>6 DEF Msgs, Accounted
<1>9. /\ \A i \in t.doc.ins : i \notin D.ins => \E x \in Msgs(r) : Carries(x) /\ i \in x.u.ins
      /\ \A i \in t.doc.del : i \notin D.del => \E x \in Msgs(r) : Carries(x) /\ i \in x.u.del
  <2>1. \A k \in 1..Len(t.out) : r[k] \in Msgs(r) /\ Carries(r[k]) /\ r[k].u = t.out[k]
    BY <1>6 DEF Msgs, Carries
  <2> HIDE DEF r
  <2>2. ASSUME NEW i \in t.doc.ins, i \notin D.ins
        PROVE  \E x \in Msgs(r) : Carries(x) /\ i \in x.u.ins
    <3>1. PICK k \in 1..Len(t.out) : i \in t.out[k].ins
      BY <1>1, <2>2 DEF Accounted
    <3> QED
      BY <2>1, <3>1
  <2>3. ASSUME NEW i \in t.doc.del, i \notin D.del
        PROVE  \E x \in Msgs(r) : Carries(x) /\ i \in x.u.del
    <3>1. PICK k \in 1..Len(t.out) : i \in t.out[k].del
      BY <1>1, <2>3 DEF Accounted
    <3> QED
      BY <2>1, <3>1
  <2> QED
    BY <2>2, <2>3
<1>10. ~ Has(r, "vector")
  BY <1>8 DEF Has
<1> HIDE DEF r
<1>11. up[c] \in Seq(Sent(t.made))
  BY <1>2, <1>3
<1>12. /\ up[c] \o r \in Seq(Sent(t.made)) /\ Msgs(up[c] \o r) = Msgs(up[c]) \cup Msgs(r)
       /\ Once(up[c], "vector") => Once(up[c] \o r, "vector")
  BY <1>6, <1>10, <1>11, Joined
<1>13. /\ up' \in [Pages -> Seq(Sent(made'))] /\ \A k \in Pages : k # c => up'[k] = up[k]
       /\ up'[c] = IF sock[c] # "open" THEN up[c] ELSE up[c] \o r
  BY <1>2, <1>3, <1>4, <1>7, <1>12
<1>14. Within(D, t.doc)
  BY <1>1 DEF Accounted
<1>15. CASE sock[c] # "open"
  BY <1>1, <1>4, <1>5, <1>13, <1>14, <1>15 DEF Seen, PageWrites
<1>16. CASE sock[c] = "open"
  <2>1. up'[c] = up[c] \o r
    BY <1>13, <1>16
  <2>2. Msgs(up'[c]) = Msgs(up[c]) \cup Msgs(r) /\ (Once(up[c], "vector") => Once(up'[c], "vector"))
    BY <1>12, <2>1
  <2>3. Seen(c, D)
    BY <1>5, <1>8, <1>9, <1>13, <1>14, <1>16, <2>2 DEF Seen
  <2> QED
    BY <1>1, <1>4, <1>5, <1>13, <2>3 DEF PageWrites
<1> QED
  BY <1>15, <1>16

-----------------------------------------------------------------------------
(* Every page action is such a turn, or none.                                 *)

\* A page turn that leaves the relay's state and the sockets alone.
PageStep(c) ==
  /\ UNCHANGED <<relayOwn, sock, answer, listed>>
  /\ ops' \in 0..MaxOps /\ phase' \in [Pages -> {"solo", "synced", "bound", "left"}]
  /\ down' \in [Pages -> Seq(Sent(made))]
  /\ \A k \in Pages : ~ Receives(k) => down'[k] = down[k]

LEMMA StepTypes ==
  ASSUME TypeInv, NEW c \in Pages, PageStep(c), PageWrites(c),
         \A k \in Pages : k # c => up'[k] = up[k],
         sock[c] \notin {"open", "closing"} => up'[c] = up[c]
  PROVE  TypeInv'
<1>1. UNCHANGED <<doc, conns, ghosts, timer, alarm, stage, row, save, touches, excused, faults,
                  days, sock, answer, listed>>
  BY DEF PageStep, relayOwn
<1>2. /\ made \in Shapes /\ made' \in Shapes /\ Extends(made, made', c)
      /\ down' \in [Pages -> Seq(Sent(made))]
  BY DEF TypeInv, PageTypes, PageWrites, PageStep
<1>3. MadeDocs(made) \subseteq MadeDocs(made') /\ Seq(Sent(made)) \subseteq Seq(Sent(made'))
  BY <1>2, ItemsGrow, SentGrows
<1>4. PageTypes'
  <2>1. answer' \in [Pages -> MaybeDocs(made')] /\ listed' \in BOOLEAN
    BY <1>1, <1>3 DEF TypeInv, PageTypes, MaybeDocs
  <2> QED
    BY <2>1 DEF PageTypes, PageWrites, PageStep
<1>5. DocTypes'
  BY <1>1, <1>3 DEF TypeInv, DocTypes, MaybeDocs, Rows
<1>6. QueueTypes'
  BY <1>2, <1>3 DEF PageWrites, QueueTypes
<1>7. RestTypes'
  BY <1>1 DEF TypeInv, RestTypes
<1>8. ASSUME NEW k \in Pages PROVE Socket(k)'
  <2>1. /\ sock'[k] = sock[k] /\ doc' = doc /\ conns' = conns
        /\ (~ Receives(k) => down'[k] = down[k])
        /\ (sock[k] \notin {"open", "closing"} => up'[k] = up[k])
    BY <1>1 DEF PageStep
  <2> QED
    BY <2>1 DEF TypeInv, Socket, Receives, Attached
<1> QED
  BY <1>4, <1>5, <1>6, <1>7, <1>8 DEF TypeInv

LEMMA TurnTypes ==
  ASSUME TypeInv, NEW c \in Pages, NEW D, NEW t, TurnOK(t, c, D, made), Done(c, t), PageStep(c)
  PROVE  TypeInv'
<1>1. PageWrites(c) /\ Seen(c, D)
  BY TurnSeen
<1>2. (\A k \in Pages : k # c => up'[k] = up[k]) /\ (sock[c] # "open" => up'[c] = up[c])
  BY <1>1 DEF Seen
<1> QED
  BY <1>1, <1>2, StepTypes

\* A message the page handles.
LEMMA ReceiveTypes ==
  ASSUME TypeInv, NEW c \in Pages, NEW type, Receive(c, type)
  PROVE  /\ Head(down[c]) \in Sent(made) /\ Head(down[c]).type = type
         /\ down[c] \in Seq(Sent(made)) /\ down[c] # <<>>
         /\ down' \in [Pages -> Seq(Sent(made))] /\ down'[c] = Tail(down[c])
         /\ \A k \in Pages : k # c => down'[k] = down[k]
         /\ sock[c] = "open" /\ doc # NoDoc /\ doc \in MadeDocs(made)
         /\ UNCHANGED <<relayOwn, sock, listed, ops>>
<1>1. down[c] \in Seq(Sent(made)) /\ down[c] # <<>> /\ down \in [Pages -> Seq(Sent(made))]
  BY DEF TypeInv, QueueTypes, Receive
<1>2. Head(down[c]) \in Sent(made) /\ Tail(down[c]) \in Seq(Sent(made))
  BY <1>1, Taken
<1>3. down' = [down EXCEPT ![c] = Tail(down[c])]
  BY DEF Receive
<1>4. /\ down' \in [Pages -> Seq(Sent(made))] /\ down'[c] = Tail(down[c])
      /\ \A k \in Pages : k # c => down'[k] = down[k]
  BY <1>1, <1>2, <1>3
<1>5. sock[c] = "open"
  BY DEF Receive
<1>6. doc # NoDoc
  BY <1>5 DEF TypeInv, Socket, Attached
<1>7. doc \in MadeDocs(made)
  BY <1>6 DEF TypeInv, DocTypes, MaybeDocs
<1>8. UNCHANGED <<relayOwn, sock, listed, ops>> /\ Head(down[c]).type = type
  BY DEF Receive
<1> QED
  BY <1>1, <1>2, <1>4, <1>5, <1>6, <1>7, <1>8

\* Handling a message is part of a page step.
LEMMA ReceiveSteps ==
  ASSUME TypeInv, NEW c \in Pages, NEW type, Receive(c, type), UNCHANGED answer,
         phase' \in [Pages -> {"solo", "synced", "bound", "left"}]
  PROVE  PageStep(c)
<1>1. /\ down' \in [Pages -> Seq(Sent(made))] /\ sock[c] = "open"
      /\ \A k \in Pages : k # c => down'[k] = down[k]
      /\ UNCHANGED <<relayOwn, sock, listed, ops>>
  BY ReceiveTypes
<1>2. ops' \in 0..MaxOps
  BY <1>1 DEF TypeInv, PageTypes
<1>3. Receives(c)
  BY <1>1 DEF Receives
<1> QED
  BY <1>1, <1>2, <1>3 DEF PageStep

\* The messages with items: what PageDiff and PageUpdate do.
HeardTurn(c, t) ==
  TurnOK(t, c, Merge(pdoc[c], Head(down[c]).u), made) /\ Done(c, t)

LEMMA HeardTurns ==
  ASSUME TypeInv, NEW c \in Pages, PageDiff(c) \/ PageUpdate(c)
  PROVE  /\ \E t : HeardTurn(c, t)
         /\ PageStep(c) /\ Carries(Head(down[c]))
         /\ \E type : Receive(c, type)
<1>1. PICK type \in {"diff", "update"} : Receive(c, type)
  BY DEF PageDiff, PageUpdate
<1>2. Head(down[c]) \in Sent(made) /\ Head(down[c]).type = type
  BY <1>1, ReceiveTypes
<1>3. made \in Shapes /\ phase \in [Pages -> {"solo", "synced", "bound", "left"}]
  BY DEF TypeInv, PageTypes
<1>4. Carries(Head(down[c])) /\ Head(down[c]).u \in MadeDocs(made)
  BY <1>2, <1>3, Tagged DEF Carries
<1>5. PICK t, D : t = Applied(c) /\ D = Merge(pdoc[c], Head(down[c]).u)
  OBVIOUS
<1>6. TurnOK(t, c, D, made) /\ t.doc = D /\ t.made = made
  BY <1>4, <1>5, AppliedOK
<1>7. TurnOK(Seed(t), c, D, made)
  BY <1>6, SeedOK
<1>8. TurnOK(Rendered(t), c, D, made)
  BY <1>3, <1>6, RenderedOK
<1>9. Done(c, Seed(t)) \/ Done(c, Rendered(t))
  BY <1>5, Zenon DEF PageDiff, PageUpdate, Answered
<1>10. \E s : HeardTurn(c, s)
  BY <1>5, <1>7, <1>8, <1>9, Zenon DEF HeardTurn
<1>11. UNCHANGED answer /\ phase' \in [Pages -> {"solo", "synced", "bound", "left"}]
  BY <1>3 DEF PageDiff, PageUpdate
<1>12. PageStep(c)
  BY <1>1, <1>11, ReceiveSteps
<1> QED
  BY <1>1, <1>4, <1>10, <1>12

\* The answers to the handshake's questions.
LEMMA ReplyIsTyped ==
  ASSUME TypeInv, NEW c \in Pages, PageInit(c) \/ PageVector(c)
  PROVE  /\ TypeInv' /\ UNCHANGED <<made, pdoc>> /\ up[c] \in Seq(Sent(made))
         /\ \E m \in Sent(made) :
              /\ up'[c] = Append(up[c], m)
              /\ m = IF PageInit(c) THEN [type |-> "vector", sv |-> Vector(pdoc[c])]
                     ELSE [type |-> "diff", u |-> Diff(pdoc[c], Head(down[c]).sv)]
         /\ \A k \in Pages : k # c => up'[k] = up[k]
         /\ \E type : Receive(c, type)
<1>1. PICK type : Receive(c, type)
  BY DEF PageInit, PageVector
<1>2. /\ made \in Shapes /\ pdoc[c] \in MadeDocs(made) /\ up[c] \in Seq(Sent(made))
      /\ up \in [Pages -> Seq(Sent(made))]
      /\ phase \in [Pages -> {"solo", "synced", "bound", "left"}]
  BY DEF TypeInv, PageTypes, QueueTypes
<1>3. UNCHANGED <<made, pdoc, store, phase, answer>>
  BY DEF PageInit, PageVector, pageVars
<1>4. PICK m : m = IF PageInit(c) THEN [type |-> "vector", sv |-> Vector(pdoc[c])]
                   ELSE [type |-> "diff", u |-> Diff(pdoc[c], Head(down[c]).sv)]
  OBVIOUS
<1>5. m \in Sent(made)
  BY <1>2, <1>4, MessageTypes
<1>6. Send(c, m)
  BY <1>4, Zenon DEF PageInit, PageVector
<1>7. Append(up[c], m) \in Seq(Sent(made))
  BY <1>2, <1>5, Appended
<1>8. up' = [up EXCEPT ![c] = Append(up[c], m)]
  BY <1>6 DEF Send
<1>9. /\ up' \in [Pages -> Seq(Sent(made))] /\ up'[c] = Append(up[c], m)
      /\ \A k \in Pages : k # c => up'[k] = up[k]
  BY <1>2, <1>7, <1>8
<1>10. PageStep(c)
  BY <1>1, <1>2, <1>3, ReceiveSteps
<1>11. PageWrites(c)
  <2>1. Len(made[c]) \in Nat
    BY <1>2, LenOfShape
  <2>2. pdoc' \in [Pages -> MadeDocs(made')] /\ store' \in [Pages -> Stores]
    BY <1>3 DEF TypeInv, PageTypes
  <2> QED
    BY <1>2, <1>3, <1>9, <2>1, <2>2 DEF PageWrites, Extends
<1>12. sock[c] = "open"
  BY <1>1, ReceiveTypes
<1>13. TypeInv'
  BY <1>9, <1>10, <1>11, <1>12, StepTypes
<1> QED
  BY <1>1, <1>2, <1>3, <1>4, <1>5, <1>9, <1>13

\* A turn that starts from the page's own document.
OwnTurn(c) == \E t : TurnOK(t, c, pdoc[c], made) /\ Done(c, t)

LEMMA BindTurns ==
  ASSUME TypeInv, NEW c \in Pages, Bind(c)
  PROVE  OwnTurn(c) /\ PageStep(c) /\ down' = down
<1>1. made \in Shapes
  BY DEF TypeInv, PageTypes
<1>2. TurnOK(Reseed(Turn(c)), c, pdoc[c], made)
  BY <1>1, TurnStarts, ReseedOK
<1>3. UNCHANGED <<relayOwn, sock, down, listed, answer, ops>> /\ Done(c, Reseed(Turn(c)))
      /\ phase' = [phase EXCEPT ![c] = "bound"]
  BY DEF Bind
<1>4. phase' \in [Pages -> {"solo", "synced", "bound", "left"}]
  BY <1>3 DEF TypeInv, PageTypes
<1>5. PageStep(c)
  BY <1>3, <1>4 DEF PageStep, TypeInv, PageTypes, QueueTypes
<1> QED
  BY <1>2, <1>3, <1>5 DEF OwnTurn

LEMMA ActSteps ==
  ASSUME TypeInv, NEW c \in Pages, NEW phases, Act(c, phases)
  PROVE  PageStep(c) /\ down' = down
<1>1. /\ UNCHANGED <<relayOwn, sock, down, phase, listed, answer>>
      /\ ops < MaxOps /\ ops' = ops + 1 /\ ops \in 0..MaxOps /\ MaxOps \in Nat
  BY SessionAssumption DEF Act, TypeInv, PageTypes
<1>2. ops' \in 0..MaxOps
  BY <1>1
<1> QED
  BY <1>1, <1>2 DEF PageStep, TypeInv, PageTypes, QueueTypes

LEMMA TypeTurns ==
  ASSUME TypeInv, NEW c \in Pages, NEW f \in Nat, Type(c, f)
  PROVE  OwnTurn(c) /\ PageStep(c) /\ down' = down
<1>1. made \in Shapes /\ ops \in Nat /\ MaxOps \in Nat
  BY SessionAssumption DEF TypeInv, PageTypes
<1>2. Typed \in Seq(Nat)
  BY <1>1 DEF Typed
<1>3. PICK t : t = Turn(c)
  OBVIOUS
<1>4. TurnOK(t, c, pdoc[c], made)
  BY <1>3, TurnStarts
<1>5. PICK s : s = Transact(t, {}, f, Typed)
  OBVIOUS
<1>6. TurnOK(s, c, pdoc[c], made)
  BY <1>1, <1>2, <1>4, <1>5, TransactOK
<1>7. TurnOK(Rendered(Observe(t, s)), c, pdoc[c], made)
  BY <1>1, <1>6, ObserveOK, RenderedOK
<1>8. Done(c, Rendered(Observe(t, s))) /\ Act(c, {"bound"})
  BY <1>3, <1>5, Zenon DEF Type
<1> QED
  BY <1>7, <1>8, ActSteps DEF OwnTurn

LEMMA TypeSoloTurns ==
  ASSUME TypeInv, NEW c \in Pages, NEW f \in Nat, TypeSolo(c, f)
  PROVE  OwnTurn(c) /\ PageStep(c) /\ down' = down
<1>1. /\ made \in Shapes /\ ops \in Nat /\ MaxOps \in Nat /\ store[c] \in Workspaces
      /\ HasTabs(store[c])
  BY SessionAssumption DEF TypeInv, PageTypes, Stores
<1>2. Typed \in Seq(Nat)
  BY <1>1 DEF Typed
<1>3. PICK t : t = Turn(c)
  OBVIOUS
<1>4. TurnOK(t, c, pdoc[c], made)
  BY <1>3, TurnStarts
<1>5. t = [page |-> c, doc |-> pdoc[c], store |-> store[c], made |-> made,
           out |-> <<>>, touched |-> FALSE]
  BY <1>3 DEF Turn
<1>6. /\ store[c].texts \in Seq(Seq(Nat)) /\ store[c].names \in Seq(Nat)
      /\ f \in 1..Len(store[c].texts)
      /\ store[c] = [names |-> store[c].names, texts |-> store[c].texts]
  <2>1. f \in DOMAIN store[c].texts
    BY DEF TypeSolo
  <2> QED
    BY <1>1, <2>1, LenProperties DEF Workspaces
<1>7. store[c].texts[f] \o Typed \in Seq(Nat)
  BY <1>2, <1>6, ElementOfSeq, ConcatProperties
<1>8. PICK x : x = [store[c].texts EXCEPT ![f] = store[c].texts[f] \o Typed]
  OBVIOUS
<1>9. x \in Seq(Seq(Nat)) /\ Len(x) = Len(store[c].texts)
  BY <1>6, <1>7, <1>8, ExceptSeq
<1>10. PICK w : w = [store[c] EXCEPT !.texts = x]
  OBVIOUS
<1>11. w = [names |-> store[c].names, texts |-> x]
  BY <1>6, <1>10
<1>12. w \in Stores
  BY <1>1, <1>6, <1>9, <1>11 DEF Stores, Workspaces, HasTabs
<1>13. PICK s : s = [t EXCEPT !.store = w]
  OBVIOUS
<1>14. s = [page |-> c, doc |-> pdoc[c], store |-> w, made |-> made,
            out |-> <<>>, touched |-> FALSE]
  BY <1>5, <1>13
<1>15. s = [s EXCEPT !.touched = FALSE]
  <2>1. PICK r : r = [s EXCEPT !.touched = FALSE]
    OBVIOUS
  <2>2. r = [page |-> c, doc |-> pdoc[c], store |-> w, made |-> made,
             out |-> <<>>, touched |-> FALSE]
    BY <1>14, <2>1
  <2> QED
    BY <1>14, <2>1, <2>2, Zenon
<1>16. s = [t EXCEPT !.store = w, !.touched = FALSE]
  BY <1>13, <1>15, Zenon
<1>17. TurnOK(s, c, pdoc[c], made)
  BY <1>1, <1>4, <1>12, <1>16, StoreReplaced
<1>18. [t EXCEPT !.store.texts[f] = @ \o Typed] = s
  <2>1. t.store = store[c]
    BY <1>5
  <2> QED
    BY <1>8, <1>10, <1>13, <2>1
<1>19. Done(c, s) /\ Act(c, {"solo", "synced"})
  BY <1>3, <1>18, Zenon DEF TypeSolo
<1> QED
  BY <1>17, <1>19, ActSteps DEF OwnTurn

LEMMA EditedTurns ==
  ASSUME TypeInv, NEW c \in Pages, NEW w \in Stores, Edited(c, w)
  PROVE  OwnTurn(c)
<1>1. made \in Shapes
  BY DEF TypeInv, PageTypes
<1>2. PICK t : t = Turn(c)
  OBVIOUS
<1>3. TurnOK(t, c, pdoc[c], made)
  BY <1>2, TurnStarts
<1>4. PICK s : s = [t EXCEPT !.store = w, !.touched = TRUE]
  OBVIOUS
<1>5. TurnOK(s, c, pdoc[c], made)
  BY <1>1, <1>3, <1>4, StoreReplaced
<1>6. TurnOK(Rendered(s), c, pdoc[c], made)
  BY <1>1, <1>5, RenderedOK
<1>7. Done(c, Rendered(s))
  BY <1>2, <1>4, Zenon DEF Edited
<1> QED
  BY <1>6, <1>7 DEF OwnTurn

\* The workspace without one of its tabs.
Without(w, i) == [names |-> RemoveAt(w.names, i), texts |-> RemoveAt(w.texts, i)]

LEMMA RemovedStore ==
  ASSUME TypeInv, NEW c \in Pages, NEW i \in Nat, RemoveTab(c, i)
  PROVE  /\ Without(store[c], i) \in Stores /\ Edited(c, Without(store[c], i))
         /\ Act(c, {"solo", "synced", "bound"})
         /\ Len(Without(store[c], i).names) < Len(store[c].names)
<1>1. /\ store[c].names \in Seq(Nat) /\ store[c].texts \in Seq(Seq(Nat))
      /\ Len(store[c].names) = Len(store[c].texts)
  BY DEF TypeInv, PageTypes, Stores, Workspaces, HasTabs
<1>2. /\ Len(store[c].names) \in Nat /\ Len(store[c].names) > 1
      /\ i \in 1..Len(store[c].names)
  BY <1>1, LenProperties DEF RemoveTab
<1>3. ASSUME NEW S, NEW q \in Seq(S), Len(q) = Len(store[c].names)
      PROVE  RemoveAt(q, i) \in Seq(S) /\ Len(RemoveAt(q, i)) = Len(q) - 1
  <2>1. Len(q) \in Nat /\ i \in 1..Len(q)
    BY <1>2, <1>3
  <2>2. SubSeq(q, 1, i - 1) \in Seq(S) /\ Len(SubSeq(q, 1, i - 1)) = i - 1
    BY <2>1, SubSeqProperties
  <2>3. SubSeq(q, i + 1, Len(q)) \in Seq(S) /\ Len(SubSeq(q, i + 1, Len(q))) = Len(q) - i
    BY <2>1, SubSeqProperties
  <2>4. RemoveAt(q, i) = SubSeq(q, 1, i - 1) \o SubSeq(q, i + 1, Len(q))
    BY Zenon DEF RemoveAt
  <2>5. PICK a, b : a = SubSeq(q, 1, i - 1) /\ b = SubSeq(q, i + 1, Len(q))
    OBVIOUS
  <2>6. a \in Seq(S) /\ b \in Seq(S) /\ Len(a) = i - 1 /\ Len(b) = Len(q) - i
    BY <2>2, <2>3, <2>5, Zenon
  <2>7. a \o b \in Seq(S) /\ Len(a \o b) = Len(a) + Len(b)
    BY <2>6, ConcatProperties
  <2>8. Len(a \o b) = Len(q) - 1
    BY <2>1, <2>6, <2>7
  <2> QED
    BY <2>4, <2>5, <2>7, <2>8, Zenon
<1>4. PICK ns, xs : ns = RemoveAt(store[c].names, i) /\ xs = RemoveAt(store[c].texts, i)
  OBVIOUS
<1>5. /\ ns \in Seq(Nat) /\ xs \in Seq(Seq(Nat)) /\ Len(ns) = Len(xs) /\ Len(ns) > 0
      /\ Len(ns) < Len(store[c].names)
  <2>1. ns \in Seq(Nat) /\ Len(ns) = Len(store[c].names) - 1
    BY <1>1, <1>3, <1>4
  <2>2. xs \in Seq(Seq(Nat)) /\ Len(xs) = Len(store[c].texts) - 1
    BY <1>1, <1>3, <1>4
  <2>3. \A n \in Nat : n > 1 => n - 1 > 0 /\ n - 1 < n
    OBVIOUS
  <2>4. Len(ns) > 0 /\ Len(ns) < Len(store[c].names)
    BY <1>2, <2>1, <2>3
  <2>5. Len(ns) = Len(xs)
    BY <1>1, <2>1, <2>2, Zenon
  <2> QED
    BY <2>1, <2>2, <2>4, <2>5
<1>6. ns # <<>>
  BY <1>5, EmptySeq
<1>7. [names |-> ns, texts |-> xs] \in Stores
  BY <1>5, <1>6 DEF Stores, Workspaces, HasTabs
<1>8. Edited(c, [names |-> ns, texts |-> xs]) /\ Act(c, {"solo", "synced", "bound"})
  BY <1>4, Zenon DEF RemoveTab
<1>9. Without(store[c], i) = [names |-> ns, texts |-> xs]
  BY <1>4, Zenon DEF Without
<1> QED
  BY <1>5, <1>7, <1>8, <1>9

LEMMA RemoveTurns ==
  ASSUME TypeInv, NEW c \in Pages, NEW i \in Nat, RemoveTab(c, i)
  PROVE  OwnTurn(c) /\ PageStep(c) /\ down' = down
  BY RemovedStore, EditedTurns, ActSteps

\* A workspace of n tabs leaves one of the names "Query 1" .. "Query n+1" free.
LEMMA NextNameType ==
  ASSUME NEW s \in Seq(Nat)
  PROVE  NextName(s) \in Nat
<1>1. Len(s) \in Nat /\ DOMAIN s = 1..Len(s)
  BY LenProperties
<1> DEFINE R == {s[i] : i \in 1..Len(s)}
           T == {k \in Nat : k \in 1..(Len(s) + 1) /\ k \notin R}
<1>2. IsFiniteSet(1..Len(s)) /\ Cardinality(1..Len(s)) = Len(s)
      /\ IsFiniteSet(1..(Len(s) + 1)) /\ Cardinality(1..(Len(s) + 1)) = Len(s) + 1
  <2>1. \A n \in Nat : IsFiniteSet(1..n) /\ Cardinality(1..n) = n
    BY FS_Interval
  <2> QED
    BY <1>1, <2>1
<1>3. IsFiniteSet(R) /\ Cardinality(R) <= Len(s)
  <2>1. PICK g : g = [i \in 1..Len(s) |-> s[i]]
    OBVIOUS
  <2>2. g \in Surjection(1..Len(s), R)
    BY <2>1 DEF Surjection
  <2> HIDE DEF R
  <2> QED
    BY <1>2, <2>2, FS_Surjection
<1>4. T # {}
  <2> SUFFICES ASSUME 1..(Len(s) + 1) \subseteq R PROVE FALSE
    BY <1>1
  <2> HIDE DEF R
  <2>1. Cardinality(1..(Len(s) + 1)) <= Cardinality(R)
    BY <1>3, FS_Subset
  <2>2. Cardinality(R) \in Nat
    BY <1>3, FS_CardinalityType
  <2> QED
    BY <1>1, <1>2, <1>3, <2>1, <2>2
<1>5. PICK k \in T : \A j \in T : k <= j
  <2>1. T \in SUBSET Nat
    OBVIOUS
  <2> HIDE DEF T
  <2> QED
    BY <1>4, <2>1, LeastNumber
<1>6. k \in 1..(Len(s) + 1) /\ \A i \in DOMAIN s : s[i] # k
  BY <1>1, <1>5
<1>7. ASSUME NEW j \in 1..(k - 1) PROVE \E i \in DOMAIN s : s[i] = j
  <2>1. j \in Nat /\ j \in 1..(Len(s) + 1) /\ ~ (k <= j)
    BY <1>1, <1>6
  <2>2. j \in R
    BY <1>5, <2>1
  <2> QED
    BY <1>1, <2>2
<1>8. NextName(s) \in 1..(Len(s) + 1)
  BY <1>6, <1>7 DEF NextName
<1> QED
  BY <1>1, <1>8

\* The workspace with one tab more, which is empty.
With(w) == [names |-> Append(w.names, NextName(w.names)), texts |-> Append(w.texts, <<>>)]

LEMMA AddedStore ==
  ASSUME TypeInv, NEW c \in Pages, AddTab(c)
  PROVE  /\ With(store[c]) \in Stores /\ Edited(c, With(store[c]))
         /\ Act(c, {"solo", "synced", "bound"})
         /\ \A f \in DOMAIN store[c].texts : With(store[c]).texts[f] = store[c].texts[f]
<1>1. PICK ns, xs : ns = store[c].names /\ xs = store[c].texts
  OBVIOUS
<1>2. /\ ns \in Seq(Nat) /\ xs \in Seq(Seq(Nat))
      /\ Len(ns) = Len(xs) /\ Len(ns) \in Nat
  BY <1>1, LenProperties DEF TypeInv, PageTypes, Stores, Workspaces, HasTabs
<1>3. PICK n : n = NextName(ns)
  OBVIOUS
<1>4. n \in Nat /\ <<>> \in Seq(Nat)
  BY <1>2, <1>3, NextNameType, EmptySeq
<1>5. /\ Append(ns, n) \in Seq(Nat) /\ Len(Append(ns, n)) = Len(ns) + 1
      /\ Append(ns, n) # <<>>
  <2>1. ns \in Seq(Nat) /\ n \in Nat
    BY <1>2, <1>4
  <2> QED
    BY <2>1, AppendProperties
<1>6. /\ Append(xs, <<>>) \in Seq(Seq(Nat)) /\ Len(Append(xs, <<>>)) = Len(xs) + 1
      /\ \A f \in DOMAIN xs : Append(xs, <<>>)[f] = xs[f]
  <2>1. PICK e, S : e = <<>> /\ S = Seq(Nat)
    OBVIOUS
  <2>2. e \in S /\ xs \in Seq(S)
    BY <1>2, <1>4, <2>1
  <2>3. /\ Append(xs, e) \in Seq(S) /\ Len(Append(xs, e)) = Len(xs) + 1
        /\ DOMAIN xs = 1..Len(xs) /\ \A f \in 1..Len(xs) : Append(xs, e)[f] = xs[f]
    BY <2>2, AppendProperties, LenProperties
  <2> QED
    BY <2>1, <2>3, Zenon
<1>7. [names |-> Append(ns, n), texts |-> Append(xs, <<>>)] \in Stores
  BY <1>2, <1>5, <1>6 DEF Stores, Workspaces, HasTabs
<1>8. Edited(c, [names |-> Append(ns, n), texts |-> Append(xs, <<>>)])
      /\ Act(c, {"solo", "synced", "bound"})
  BY <1>1, <1>3, Zenon DEF AddTab
<1>9. With(store[c]) = [names |-> Append(ns, n), texts |-> Append(xs, <<>>)]
  BY <1>1, <1>3, Zenon DEF With
<1>10. With(store[c]).texts = Append(xs, <<>>)
  BY <1>9
<1> QED
  BY <1>1, <1>6, <1>7, <1>8, <1>9, <1>10

LEMMA AddTurns ==
  ASSUME TypeInv, NEW c \in Pages, AddTab(c)
  PROVE  OwnTurn(c) /\ PageStep(c) /\ down' = down
  BY AddedStore, EditedTurns, ActSteps

\* Starting, opening, reconnecting and leaving write no document.
LEMMA SocketTypes ==
  ASSUME TypeInv, NEW c \in Pages, Start(c) \/ Open(c) \/ Retry(c) \/ Leave(c)
  PROVE  /\ TypeInv' /\ UNCHANGED <<doc, conns, made, pdoc, answer>>
         /\ \A k \in Pages : k # c => /\ sock'[k] = sock[k] /\ phase'[k] = phase[k]
                                      /\ up'[k] = up[k] /\ down'[k] = down[k]
         /\ phase'[c] \in {phase[c], "left"}
         /\ sock'[c] \notin {"accepted", "open"} \/
              (sock[c] = "accepted" /\ sock'[c] = "open" /\ down'[c] = down[c]
               /\ up[c] = <<>> /\ up'[c] = <<[type |-> "init"]>>)
<1>1. /\ sock \in [Pages -> Socks] /\ up \in [Pages -> Seq(Sent(made))]
      /\ down \in [Pages -> Seq(Sent(made))]
      /\ phase \in [Pages -> {"solo", "synced", "bound", "left"}]
      /\ ops \in 0..MaxOps /\ MaxOps \in Nat
  BY SessionAssumption DEF TypeInv, RestTypes, QueueTypes, PageTypes
<1>2. UNCHANGED <<doc, conns, ghosts, timer, alarm, stage, row, save, touches, excused, faults,
                  days, made, pdoc, store, answer>>
  BY DEF Start, Open, Retry, Leave, relayOwn, pageVars
<1>3. ops' \in 0..MaxOps /\ listed' \in BOOLEAN
  <2>1. ops' = ops \/ (ops < MaxOps /\ ops' = ops + 1)
    BY DEF Start, Open, Retry, Leave
  <2>2. listed' = listed \/ listed' = TRUE
    BY DEF Start, Open, Retry, Leave
  <2>3. ops' \in 0..MaxOps
    BY <1>1, <2>1
  <2>4. listed \in BOOLEAN
    BY DEF TypeInv, PageTypes
  <2> QED
    BY <2>2, <2>3, <2>4
<1>4. PICK s \in Socks : sock' = [sock EXCEPT ![c] = s]
  BY DEF Start, Open, Retry, Leave, Socks
<1>5. /\ sock' \in [Pages -> Socks] /\ sock'[c] = s /\ \A k \in Pages : k # c => sock'[k] = sock[k]
  BY <1>1, <1>4
<1>6. /\ phase' \in [Pages -> {"solo", "synced", "bound", "left"}]
      /\ (\A k \in Pages : k # c => phase'[k] = phase[k]) /\ phase'[c] \in {phase[c], "left"}
  BY <1>1 DEF Start, Open, Retry, Leave, pageVars
<1>7. [type |-> "init"] \in Sent(made) /\ <<>> \in Seq(Sent(made))
  BY EmptySeq DEF Sent
<1>8. <<[type |-> "init"]>> \in Seq(Sent(made))
  BY <1>7, OneMessage
<1>9. /\ up' \in [Pages -> Seq(Sent(made))] /\ down' \in [Pages -> Seq(Sent(made))]
      /\ \A k \in Pages : k # c => up'[k] = up[k] /\ down'[k] = down[k]
      /\ Open(c) => up[c] = <<>> /\ up'[c] = <<[type |-> "init"]>> /\ down' = down
      /\ ~ Open(c) => up' = up
      /\ Leave(c) => down'[c] = <<>>
      /\ ~ Leave(c) => down' = down
  <2>1. CASE Open(c)
    <3>1. sock[c] = "accepted"
      BY <2>1 DEF Open
    <3>2. up[c] = <<>>
      BY <3>1 DEF TypeInv, Socket
    <3>3. up[c] \o Hello = <<[type |-> "init"]>>
      BY <3>2 DEF Hello
    <3>4. up' = [up EXCEPT ![c] = <<[type |-> "init"]>>] /\ down' = down
      BY <2>1, <3>3 DEF Open
    <3>5. ~ Leave(c)
      BY <2>1, <3>1, <1>1 DEF Open, Leave, Receives
    <3> QED
      BY <1>1, <1>8, <2>1, <3>2, <3>4, <3>5
  <2>2. CASE Leave(c)
    <3>1. up' = up /\ down' = [down EXCEPT ![c] = <<>>]
      BY <2>2 DEF Leave
    <3>2. ~ Open(c)
      BY <2>2, <1>1 DEF Open, Leave, Receives
    <3> QED
      BY <1>1, <1>7, <2>2, <3>1, <3>2
  <2>3. CASE ~ Open(c) /\ ~ Leave(c)
    <3>1. up' = up /\ down' = down
      BY <2>3 DEF Start, Retry
    <3> QED
      BY <1>1, <2>3, <3>1
  <2> QED
    BY <2>1, <2>2, <2>3
<1>10. PageTypes'
  BY <1>2, <1>3, <1>6 DEF TypeInv, PageTypes
<1>11. DocTypes' /\ QueueTypes'
  BY <1>2, <1>9 DEF TypeInv, DocTypes, QueueTypes
<1>12. RestTypes'
  BY <1>2, <1>5 DEF TypeInv, RestTypes
<1>13. \/ Open(c) /\ sock[c] = "accepted" /\ s = "open"
       \/ Leave(c) /\ s = "closing" /\ Receives(c)
       \/ Leave(c) /\ s = "gone" /\ ~ Receives(c) /\ sock[c] \in {"connecting", "waiting"}
       \/ ~ Open(c) /\ ~ Leave(c) /\ s = "connecting" /\ sock[c] \in {"off", "waiting"}
  BY <1>1, <1>4, <1>5 DEF Start, Open, Retry, Leave, Receives
<1>14. ASSUME NEW k \in Pages PROVE Socket(k)'
  <2>1. CASE k # c
    BY <1>2, <1>5, <1>9, <2>1, SocketKept DEF TypeInv
  <2>2. CASE k = c
    <3>1. /\ sock[c] \in Attached => doc' # NoDoc
          /\ ~ Receives(c) => down[c] = <<>>
          /\ sock[c] \notin {"open", "closing"} => up[c] = <<>>
          /\ c \in conns' => sock[c] \in Attached
      BY <1>2 DEF TypeInv, Socket
    <3>2. CASE Open(c)
      <4>1. sock[c] = "accepted"
        BY <3>2 DEF Open
      <4>2. sock' = [sock EXCEPT ![c] = "open"]
        BY <3>2 DEF Open
      <4>3. sock'[c] = "open" /\ doc' # NoDoc
        BY <1>1, <3>1, <4>1, <4>2 DEF Attached
      <4> QED
        BY <2>2, <4>3 DEF Socket, Receives, Attached
    <3>3. CASE Leave(c)
      <4>1. sock' = [sock EXCEPT ![c] = IF Receives(c) THEN "closing" ELSE "gone"]
            /\ sock[c] \in {"connecting", "accepted", "open", "waiting"}
        BY <3>3 DEF Leave
      <4>2. down'[c] = <<>> /\ up'[c] = up[c]
        <5>1. ~ Open(c)
          BY <3>3, <4>1, <1>1 DEF Open, Leave, Receives
        <5> QED
          BY <1>9, <3>3, <5>1
      <4>3. CASE Receives(c)
        <5>1. sock'[c] = "closing" /\ sock[c] \in Attached
          BY <1>1, <4>1, <4>3 DEF Receives, Attached
        <5> QED
          BY <2>2, <3>1, <4>2, <5>1 DEF Socket, Receives, Attached
      <4>4. CASE ~ Receives(c)
        <5>1. sock'[c] = "gone" /\ sock[c] \in {"connecting", "waiting"}
          BY <1>1, <4>1, <4>4 DEF Receives
        <5>2. up[c] = <<>> /\ c \notin conns'
          BY <3>1, <5>1 DEF Attached
        <5> QED
          BY <2>2, <4>2, <5>1, <5>2 DEF Socket, Receives, Attached
      <4> QED
        BY <4>3, <4>4
    <3>4. CASE ~ Open(c) /\ ~ Leave(c)
      BY <1>5, <1>9, <1>13, <2>2, <3>1, <3>4 DEF Socket, Receives, Attached
    <3> QED
      BY <3>2, <3>3, <3>4
  <2> QED
    BY <2>1, <2>2
<1> QED
  BY <1>2, <1>5, <1>6, <1>9, <1>10, <1>11, <1>12, <1>13, <1>14 DEF TypeInv

OwnTurnActions(c) ==
  \/ Bind(c) \/ AddTab(c)
  \/ \E f \in 1..Len(store[c].texts) : Type(c, f) \/ TypeSolo(c, f) \/ RemoveTab(c, f)

LEMMA OwnTurns ==
  ASSUME TypeInv, NEW c \in Pages, OwnTurnActions(c)
  PROVE  OwnTurn(c) /\ PageStep(c) /\ down' = down
<1>1. CASE Bind(c)
  BY <1>1, BindTurns
<1>2. CASE AddTab(c)
  BY <1>2, AddTurns
<1>3. CASE \E f \in 1..Len(store[c].texts) : Type(c, f) \/ TypeSolo(c, f) \/ RemoveTab(c, f)
  <2>1. PICK f \in 1..Len(store[c].texts) : Type(c, f) \/ TypeSolo(c, f) \/ RemoveTab(c, f)
    BY <1>3
  <2>2. f \in Nat
    OBVIOUS
  <2> QED
    BY <2>1, <2>2, TypeTurns, TypeSoloTurns, RemoveTurns
<1> QED
  BY <1>1, <1>2, <1>3 DEF OwnTurnActions

\* The steps of page c, by what they do to the documents and the messages.
LEMMA PageSteps ==
  ASSUME NEW c \in Pages,
         Start(c) \/ Open(c) \/ Retry(c) \/ Deliver(c) \/ Bind(c) \/ User(c)
  PROVE  \/ Start(c) \/ Open(c) \/ Retry(c) \/ Leave(c)
         \/ PageInit(c) \/ PageVector(c)
         \/ PageDiff(c) \/ PageUpdate(c)
         \/ OwnTurnActions(c)
  BY DEF Deliver, User, OwnTurnActions

LEMMA HeardTypes ==
  ASSUME TypeInv, NEW c \in Pages, PageDiff(c) \/ PageUpdate(c)
  PROVE  TypeInv'
<1>1. PageStep(c) /\ \E t : HeardTurn(c, t)
  BY HeardTurns
<1>2. PICK t : HeardTurn(c, t)
  BY <1>1
<1>3. PICK D : D = Merge(pdoc[c], Head(down[c]).u)
  OBVIOUS
<1>4. TurnOK(t, c, D, made) /\ Done(c, t)
  BY <1>2, <1>3 DEF HeardTurn
<1> QED
  BY <1>1, <1>4, TurnTypes

LEMMA OwnTypes ==
  ASSUME TypeInv, NEW c \in Pages, OwnTurnActions(c)
  PROVE  TypeInv'
<1>1. PageStep(c) /\ OwnTurn(c)
  BY OwnTurns
<1>2. PICK t : TurnOK(t, c, pdoc[c], made) /\ Done(c, t)
  BY <1>1 DEF OwnTurn
<1>3. PICK D : D = pdoc[c]
  OBVIOUS
<1> QED
  BY <1>1, <1>2, <1>3, TurnTypes

LEMMA TypesKept ==
  ASSUME TypeInv, [Next]_vars
  PROVE  TypeInv'
<1>1. CASE Relay
  BY <1>1, RelayTypes
<1>2. ASSUME NEW c \in Pages,
             Start(c) \/ Open(c) \/ Retry(c) \/ Deliver(c) \/ Bind(c) \/ User(c)
      PROVE  TypeInv'
  <2>1. CASE Start(c) \/ Open(c) \/ Retry(c) \/ Leave(c)
    BY <2>1, SocketTypes
  <2>2. CASE PageInit(c) \/ PageVector(c)
    BY <2>2, ReplyIsTyped
  <2>3. CASE PageDiff(c) \/ PageUpdate(c)
    BY <2>3, HeardTypes
  <2>4. CASE OwnTurnActions(c)
    BY <2>4, OwnTypes
  <2> QED
    BY <1>2, <2>1, <2>2, <2>3, <2>4, PageSteps
<1>3. CASE UNCHANGED vars
  BY <1>3 DEF vars, relayVars, pageVars, TypeInv, PageTypes, DocTypes, QueueTypes, RestTypes,
              Socket, Receives
<1> QED
  BY <1>1, <1>2, <1>3 DEF Next

\* Whatever the pages do and whatever breaks, the state has its types: no turn, seed
\* or observer ever leaves a workspace without tabs or with a text short, and no
\* document names an item that nobody made.
THEOREM LiveTypesCorrect == Spec => []TypeOK
<1>1. Init => TypeInv
  BY TypesInitially
<1>2. TypeInv /\ [Next]_vars => TypeInv'
  BY TypesKept
<1>3. TypeInv => TypeOK
  BY TypesImplied
<1> QED
  BY <1>1, <1>2, <1>3, PTL DEF Spec

-----------------------------------------------------------------------------
(* What is on a socket, and what it will bring about.                         *)

\* Messages of a holder of d.
Honest(M, d) ==
  \A x \in M : (Carries(x) => Within(x.u, d)) /\ (x.type = "vector" => Covered(x.sv, d))

\* What is in d is in e, or in one of the messages.
Reaches(d, e, M) ==
  /\ \A i \in d.ins : i \in e.ins \/ \E x \in M : Carries(x) /\ i \in x.u.ins
  /\ \A i \in d.del : i \in e.del \/ \E x \in M : Carries(x) /\ i \in x.u.del

\* The page has, or is sent, all that the relay has, or will be by the handshake.
Informed(c) ==
  Has(down[c], "init") \/ Has(up[c], "vector") \/ Reaches(doc, pdoc[c], Msgs(down[c]))

\* The relay has, or is sent, all that the page has, or will be by the handshake.
Told(c) ==
  Has(up[c], "init") \/ Has(down[c], "vector") \/ Reaches(pdoc[c], doc, Msgs(up[c]))

Linked(c) ==
  Receives(c) =>
    /\ Honest(Msgs(down[c]), doc) /\ Honest(Msgs(up[c]), pdoc[c])
    /\ c \in conns => Informed(c)
    /\ sock[c] = "open" => Told(c)

LinkInv == TypeInv /\ \A c \in Pages : Linked(c)

LEMMA HonestGrows ==
  ASSUME NEW M, NEW d, NEW e, Honest(M, d), Within(d, e)
  PROVE  Honest(M, e)
<1> SUFFICES ASSUME NEW x \in M
             PROVE  (Carries(x) => Within(x.u, e)) /\ (x.type = "vector" => Covered(x.sv, e))
  BY DEF Honest
<1>1. Carries(x) => Within(x.u, e)
  BY DEF Honest, Within
<1>2. x.type = "vector" => Covered(x.sv, e)
  BY DEF Honest, Within, Covered
<1> QED
  BY <1>1, <1>2

LEMMA ReachesMore ==
  ASSUME NEW d, NEW e, NEW f, NEW M, NEW N, Reaches(d, e, M), M \subseteq N, Within(e, f)
  PROVE  Reaches(d, f, N)
  BY DEF Reaches, Within

LEMMA WithinSelf == \A d : Within(d, d)
  BY DEF Within

LEMMA HasMore == \A p, q, type : Msgs(p) \subseteq Msgs(q) /\ Has(p, type) => Has(q, type)
  BY DEF Has

\* Handling a message of another kind leaves a kind on its way.
LEMMA HasLater ==
  ASSUME NEW S, NEW q \in Seq(S), q # <<>>, NEW type, Has(q, type), Head(q).type # type
  PROVE  Has(Tail(q), type)
<1>1. Msgs(q) = {Head(q)} \cup Msgs(Tail(q))
  BY Taken
<1> QED
  BY <1>1 DEF Has

LEMMA LinkKept ==
  ASSUME NEW c \in Pages, Linked(c),
         Receives(c)' => /\ sock'[c] = sock[c] /\ doc' = doc /\ pdoc'[c] = pdoc[c]
                         /\ up'[c] = up[c] /\ down'[c] = down[c]
                         /\ c \in conns' => c \in conns
  PROVE  Linked(c)'
  BY DEF Linked, Informed, Told, Receives

LEMMA AcceptLinks ==
  ASSUME LinkInv, NEW c \in Pages, Accept(c), Noted, NEW k \in Pages
  PROVE  Linked(k)'
<1>0. TypeInv /\ Linked(k) /\ pdoc' = pdoc
  BY NotedTypes DEF LinkInv
<1>1. /\ sock[c] = "connecting" /\ sock' = [sock EXCEPT ![c] = "accepted"]
      /\ down' = [down EXCEPT ![c] = <<[type |-> "init"]>>] /\ up' = up
      /\ conns' = conns \cup {c} /\ sock \in [Pages -> Socks]
      /\ down \in [Pages -> Seq(Sent(made))]
  BY <1>0 DEF Accept, TypeInv, RestTypes, QueueTypes
<1>2. CASE k = c
  <2>1. sock'[k] = "accepted" /\ down'[k] = <<[type |-> "init"]>> /\ up'[k] = <<>>
    BY <1>0, <1>1, <1>2 DEF TypeInv, Socket
  <2>2. Msgs(up'[k]) = {} /\ Msgs(down'[k]) = {[type |-> "init"]}
    BY <2>1, EmptyQueue, OneMessage
  <2>3. Has(down'[k], "init")
    BY <2>2 DEF Has
  <2>4. Honest(Msgs(down'[k]), doc') /\ Honest(Msgs(up'[k]), pdoc'[k])
    BY <2>2 DEF Honest, Carries
  <2> QED
    BY <2>1, <2>3, <2>4 DEF Linked, Informed
<1>3. CASE k # c
  <2>1. sock'[k] = sock[k] /\ down'[k] = down[k] /\ up'[k] = up[k] /\ (k \in conns' => k \in conns)
    BY <1>1, <1>3
  <2>2. Receives(k)' => doc' = doc
    <3>1. Receives(k)' => doc # NoDoc
      BY <1>0, <2>1 DEF TypeInv, Socket, Receives, Attached
    <3> QED
      BY <1>0, <3>1, LoadTypes DEF Accept
  <2> QED
    BY <1>0, <2>1, <2>2, LinkKept
<1> QED
  BY <1>2, <1>3

\* The two answers of the relay: what is asked for is on its way.
LEMMA AnswerLinks ==
  ASSUME LinkInv, NEW c \in Pages, AnswerInit(c) \/ AnswerVector(c), Noted, NEW k \in Pages
  PROVE  Linked(k)'
<1>0. TypeInv /\ Linked(k) /\ Linked(c) /\ pdoc' = pdoc /\ made \in Shapes
  BY NotedTypes DEF LinkInv, TypeInv, PageTypes
<1>1. UNCHANGED <<doc, conns, sock>>
  BY DEF AnswerInit, AnswerVector
<1>2. PICK type : /\ Take(c, type)
                  /\ AnswerInit(c) => type = "init"
                  /\ AnswerVector(c) => type = "vector"
  BY DEF AnswerInit, AnswerVector, Take
<1>3. /\ Head(up[c]) \in Sent(made) /\ Head(up[c]).type = type
      /\ up[c] \in Seq(Sent(made)) /\ up[c] # <<>> /\ up'[c] = Tail(up[c])
      /\ \A j \in Pages : j # c => up'[j] = up[j]
      /\ doc \in MadeDocs(made)
  BY <1>0, <1>2, TakeTypes
<1>4. PICK m : /\ m \in Sent(made) /\ Reply(c, m)
               /\ AnswerInit(c) => m = [type |-> "vector", sv |-> Vector(doc)]
               /\ AnswerVector(c) => m = [type |-> "diff", u |-> Diff(doc, Head(up[c]).sv)]
  <2>1. CASE AnswerInit(c)
    <3>1. ~ AnswerVector(c)
      BY <2>1 DEF AnswerInit, AnswerVector, Take
    <3>2. [type |-> "vector", sv |-> Vector(doc)] \in Sent(made)
      BY <1>0, <1>3, MessageTypes
    <3>3. Reply(c, [type |-> "vector", sv |-> Vector(doc)])
      BY <2>1 DEF AnswerInit
    <3> QED
      BY <3>1, <3>2, <3>3
  <2>2. CASE AnswerVector(c)
    <3>1. ~ AnswerInit(c)
      BY <2>2 DEF AnswerInit, AnswerVector, Take
    <3>2. [type |-> "diff", u |-> Diff(doc, Head(up[c]).sv)] \in Sent(made)
      BY <1>0, <1>3, MessageTypes
    <3>3. Reply(c, [type |-> "diff", u |-> Diff(doc, Head(up[c]).sv)])
      BY <2>2 DEF AnswerVector
    <3> QED
      BY <3>1, <3>2, <3>3
  <2> QED
    BY <2>1, <2>2
<1>5. /\ down'[c] = IF Receives(c) THEN Append(down[c], m) ELSE down[c]
      /\ \A j \in Pages : j # c => down'[j] = down[j]
      /\ down[c] \in Seq(Sent(made))
  BY <1>0, <1>4, ReplyTypes
<1>6. CASE k # c
  BY <1>0, <1>1, <1>3, <1>5, <1>6, LinkKept
<1>7. CASE k = c
  <2> SUFFICES ASSUME Receives(c) PROVE Linked(c)'
    BY <1>1, <1>7 DEF Linked, Receives
  <2>1. Msgs(down'[c]) = Msgs(down[c]) \cup {m}
    BY <1>4, <1>5, Appended
  <2>2. Msgs(up[c]) = {Head(up[c])} \cup Msgs(up'[c])
    BY <1>3, Taken
  <2>3. /\ Honest(Msgs(down[c]), doc) /\ Honest(Msgs(up[c]), pdoc[c])
        /\ c \in conns => Informed(c)
        /\ sock[c] = "open" => Told(c)
    BY <1>0 DEF Linked
  <2>4. Honest(Msgs(up'[c]), pdoc'[c])
    BY <1>0, <2>2, <2>3 DEF Honest
  <2>5. CASE AnswerInit(c)
    <3>1. m.type = "vector" /\ m.sv = Vector(doc) /\ type = "init"
      BY <1>2, <1>4, <2>5
    <3>2. Covered(Vector(doc), doc)
      BY <1>3, VectorCovers DEF MadeDocs, Docs
    <3>3. Honest(Msgs(down'[c]), doc')
      BY <1>1, <2>1, <2>3, <3>1, <3>2 DEF Honest, Carries
    <3>4. Told(c)'
      BY <2>1, <3>1 DEF Told, Has
    <3>5. ASSUME c \in conns' PROVE Informed(c)'
      <4>1. Informed(c)
        BY <1>1, <2>3, <3>5
      <4>2. CASE Has(down[c], "init")
        BY <2>1, <4>2 DEF Informed, Has
      <4>3. CASE Has(up[c], "vector")
        BY <1>3, <2>2, <3>1, <4>3 DEF Informed, Has
      <4>4. CASE Reaches(doc, pdoc[c], Msgs(down[c]))
        BY <1>0, <1>1, <2>1, <4>4, ReachesMore, WithinSelf DEF Informed
      <4> QED
        BY <4>1, <4>2, <4>3, <4>4 DEF Informed
    <3> QED
      BY <2>4, <3>3, <3>4, <3>5 DEF Linked
  <2>6. CASE AnswerVector(c)
    <3>0. PICK sv : sv = Head(up[c]).sv
      OBVIOUS
    <3>1. m.type = "diff" /\ m.u = Diff(doc, sv) /\ type = "vector" /\ Carries(m)
      BY <1>2, <1>4, <2>6, <3>0 DEF Carries
    <3>2. sv \in [Pages -> Nat] /\ Covered(sv, pdoc[c])
      <4>1. sv \in [Pages -> Nat]
        BY <1>0, <1>3, <3>0, <3>1, Tagged
      <4>2. Covered(sv, pdoc[c])
        BY <1>3, <2>2, <2>3, <3>0, <3>1 DEF Honest
      <4> QED
        BY <4>1, <4>2
    <3>3. Within(m.u, doc)
      BY <1>0, <1>3, <3>1, DiffType
    <3>4. Honest(Msgs(down'[c]), doc')
      BY <1>1, <2>1, <2>3, <3>1, <3>3 DEF Honest
    <3>5. /\ \A x \in doc.ins : x \in pdoc[c].ins \/ x \in m.u.ins
          /\ \A x \in doc.del : x \in m.u.del
      BY <1>0, <1>3, <3>1, <3>2, DiffCompletes
    <3>6. Informed(c)'
      BY <1>0, <1>1, <2>1, <3>1, <3>5 DEF Informed, Reaches
    <3>7. ASSUME sock'[c] = "open" PROVE Told(c)'
      <4>1. Told(c)
        BY <1>1, <2>3, <3>7
      <4>2. CASE Has(up[c], "init")
        BY <1>3, <2>2, <3>1, <4>2 DEF Told, Has
      <4>3. CASE Has(down[c], "vector")
        BY <2>1, <4>3 DEF Told, Has
      <4>4. CASE Reaches(pdoc[c], doc, Msgs(up[c]))
        <5>1. ~ Carries(Head(up[c]))
          BY <1>3, <3>1 DEF Carries
        <5>2. Reaches(pdoc[c], doc, Msgs(up'[c]))
          BY <2>2, <4>4, <5>1 DEF Reaches
        <5> QED
          BY <1>0, <1>1, <5>2 DEF Told
      <4> QED
        BY <4>1, <4>2, <4>3, <4>4 DEF Told
    <3> QED
      BY <2>4, <3>4, <3>6, <3>7 DEF Linked
  <2> QED
    BY <2>5, <2>6
<1> QED
  BY <1>6, <1>7

\* applyUpdate: the sender has it, the others are sent it.
LEMMA ApplyLinks ==
  ASSUME LinkInv, NEW c \in Pages, ApplyUpdate(c), Noted, NEW k \in Pages
  PROVE  Linked(k)'
<1>0. TypeInv /\ Linked(k) /\ Linked(c) /\ pdoc' = pdoc /\ made \in Shapes
  BY NotedTypes DEF LinkInv, TypeInv, PageTypes
<1>1. UNCHANGED <<conns, sock>>
  BY DEF ApplyUpdate
<1>2. PICK u : u = Head(up[c]).u
  OBVIOUS
<1>3. /\ Applies(c, u) /\ Carries(Head(up[c])) /\ Take(c, Head(up[c]).type)
  BY <1>0, <1>2, ApplyEffect
<1>4. /\ up[c] \in Seq(Sent(made)) /\ up[c] # <<>> /\ up'[c] = Tail(up[c])
      /\ \A j \in Pages : j # c => up'[j] = up[j]
  BY <1>0, <1>3, TakeTypes
<1>5. /\ doc' = Merge(doc, u) /\ Within(doc, doc') /\ Within(u, doc') /\ u \in MadeDocs(made)
      /\ down'[k] = IF k \in conns \ {c} /\ Receives(k)
                    THEN Append(down[k], [type |-> "update", u |-> u]) ELSE down[k]
  BY <1>3 DEF Applies
<1>6. PICK m : m = [type |-> "update", u |-> u]
  OBVIOUS
<1>7. m \in Sent(made) /\ Carries(m) /\ m.type = "update" /\ m.u = u
  BY <1>0, <1>5, <1>6, MessageTypes DEF Carries
<1>8. down[k] \in Seq(Sent(made))
  BY <1>0 DEF TypeInv, QueueTypes
<1>9. \A i \in doc'.ins : i \in doc.ins \/ i \in u.ins
  BY <1>5 DEF Merge
<1>10. \A i \in doc'.del : i \in doc.del \/ i \in u.del
  BY <1>5 DEF Merge
<1> SUFFICES ASSUME Receives(k) PROVE Linked(k)'
  BY <1>1 DEF Linked, Receives
<1>11. /\ Honest(Msgs(down[k]), doc) /\ Honest(Msgs(up[k]), pdoc[k])
       /\ k \in conns => Informed(k)
       /\ sock[k] = "open" => Told(k)
  BY <1>0 DEF Linked
<1>12. CASE k = c
  <2>1. down'[k] = down[k] /\ Msgs(up[k]) = {Head(up[k])} \cup Msgs(up'[k])
    BY <1>4, <1>5, <1>12, Taken
  <2>2. Within(u, pdoc[k])
    BY <1>2, <1>3, <1>11, <1>12, <2>1 DEF Honest
  <2>3. Honest(Msgs(down'[k]), doc')
    BY <1>5, <1>11, <2>1, HonestGrows
  <2>4. Honest(Msgs(up'[k]), pdoc'[k])
    BY <1>0, <1>11, <2>1 DEF Honest
  <2>5. ASSUME k \in conns' PROVE Informed(k)'
    <3>1. Informed(k)
      BY <1>1, <1>11, <2>5
    <3>2. CASE Has(down[k], "init")
      BY <2>1, <3>2 DEF Informed
    <3>3. CASE Has(up[k], "vector")
      <4>1. Head(up[k]).type # "vector"
        BY <1>3, <1>12 DEF Carries
      <4> QED
        BY <2>1, <3>3, <4>1 DEF Informed, Has
    <3>4. CASE Reaches(doc, pdoc[k], Msgs(down[k]))
      <4>1. Reaches(doc', pdoc[k], Msgs(down[k]))
        BY <1>9, <1>10, <2>2, <3>4 DEF Reaches, Within
      <4> QED
        BY <1>0, <2>1, <4>1 DEF Informed
    <3> QED
      BY <3>1, <3>2, <3>3, <3>4 DEF Informed
  <2>6. ASSUME sock'[k] = "open" PROVE Told(k)'
    <3>1. Told(k)
      BY <1>1, <1>11, <2>6
    <3>2. CASE Has(up[k], "init")
      <4>1. Head(up[k]).type # "init"
        BY <1>3, <1>12 DEF Carries
      <4> QED
        BY <2>1, <3>2, <4>1 DEF Told, Has
    <3>3. CASE Has(down[k], "vector")
      BY <2>1, <3>3 DEF Told
    <3>4. CASE Reaches(pdoc[k], doc, Msgs(up[k]))
      <4>1. Head(up[k]).u = u
        BY <1>2, <1>12
      <4>2. Reaches(pdoc[k], doc', Msgs(up'[k]))
        BY <1>5, <2>1, <3>4, <4>1 DEF Reaches, Within
      <4> QED
        BY <1>0, <4>2 DEF Told
    <3> QED
      BY <3>1, <3>2, <3>3, <3>4 DEF Told
  <2> QED
    BY <2>3, <2>4, <2>5, <2>6 DEF Linked
<1>13. CASE k # c
  <2>1. up'[k] = up[k]
    BY <1>4, <1>13
  <2>2. Honest(Msgs(up'[k]), pdoc'[k])
    BY <1>0, <1>11, <2>1
  <2>3. Msgs(down[k]) \subseteq Msgs(down'[k])
        /\ \A x \in Msgs(down'[k]) : x \in Msgs(down[k]) \/ x = m
    BY <1>5, <1>6, <1>7, <1>8, Appended
  <2>4. Honest(Msgs(down'[k]), doc')
    <3>1. Honest(Msgs(down[k]), doc')
      BY <1>5, <1>11, HonestGrows
    <3> QED
      BY <1>5, <1>7, <2>3, <3>1 DEF Honest
  <2>5. ASSUME k \in conns' PROVE Informed(k)'
    <3>1. Informed(k) /\ m \in Msgs(down'[k])
      <4>1. k \in conns
        BY <1>1, <2>5
      <4>2. down'[k] = Append(down[k], m)
        BY <1>5, <1>6, <1>13, <4>1
      <4> QED
        BY <1>7, <1>8, <1>11, <4>1, <4>2, Appended
    <3>2. CASE Has(down[k], "init")
      BY <2>3, <3>2, HasMore DEF Informed
    <3>3. CASE Has(up[k], "vector")
      BY <2>1, <3>3 DEF Informed
    <3>4. CASE Reaches(doc, pdoc[k], Msgs(down[k]))
      <4>1. Reaches(doc', pdoc[k], Msgs(down'[k]))
        BY <1>7, <1>9, <1>10, <2>3, <3>1, <3>4 DEF Reaches
      <4> QED
        BY <1>0, <4>1 DEF Informed
    <3> QED
      BY <3>1, <3>2, <3>3, <3>4 DEF Informed
  <2>6. ASSUME sock'[k] = "open" PROVE Told(k)'
    <3>1. Told(k)
      BY <1>1, <1>11, <2>6
    <3>2. CASE Has(up[k], "init")
      BY <2>1, <3>2 DEF Told
    <3>3. CASE Has(down[k], "vector")
      BY <2>3, <3>3, HasMore DEF Told
    <3>4. CASE Reaches(pdoc[k], doc, Msgs(up[k]))
      BY <1>0, <1>5, <2>1, <3>4, ReachesMore DEF Told
    <3> QED
      BY <3>1, <3>2, <3>3, <3>4 DEF Told
  <2> QED
    BY <2>2, <2>4, <2>5, <2>6 DEF Linked
<1> QED
  BY <1>12, <1>13

LEMMA RelayLinks ==
  ASSUME LinkInv, Relay, NEW k \in Pages
  PROVE  Linked(k)'
<1>0. TypeInv /\ Linked(k) /\ pdoc' = pdoc /\ Noted
  BY NotedTypes DEF LinkInv, Relay
<1>1. ASSUME NEW c \in Pages, Accept(c) PROVE Linked(k)'
  BY <1>0, <1>1, AcceptLinks
<1>2. ASSUME NEW c \in Pages, AnswerInit(c) \/ AnswerVector(c) PROVE Linked(k)'
  BY <1>0, <1>2, AnswerLinks
<1>3. ASSUME NEW c \in Pages, ApplyUpdate(c) PROVE Linked(k)'
  BY <1>0, <1>3, ApplyLinks
<1>4. ASSUME NEW c \in Pages, Close(c) \/ Cut(c) PROVE Linked(k)'
  <2>1. /\ sock \in [Pages -> Socks] /\ doc' = doc /\ conns' = conns \ {c}
        /\ sock' = [sock EXCEPT ![c] = "gone"] \/ sock' = [sock EXCEPT ![c] = "waiting"]
        /\ up' \in {up, [up EXCEPT ![c] = <<>>]} /\ down' \in {down, [down EXCEPT ![c] = <<>>]}
    BY <1>0, <1>4 DEF Close, Cut, TypeInv, RestTypes
  <2>2. CASE k = c
    <3>1. sock'[k] \in {"gone", "waiting"}
      BY <2>1, <2>2
    <3> QED
      BY <3>1 DEF Linked, Receives
  <2>3. CASE k # c
    <3>1. sock'[k] = sock[k] /\ (k \in conns' => k \in conns)
      BY <2>1, <2>3
    <3>2. up'[k] = up[k] /\ down'[k] = down[k]
      <4>1. up \in [Pages -> Seq(Sent(made))] /\ down \in [Pages -> Seq(Sent(made))]
        BY <1>0 DEF TypeInv, QueueTypes
      <4> QED
        BY <2>1, <2>3, <4>1
    <3> QED
      BY <1>0, <2>1, <3>1, <3>2, LinkKept
  <2> QED
    BY <2>2, <2>3
<1>5. CASE CloseGhost \/ Touch \/ Persist \/ SaveLands \/ SaveFails \/ AlarmReads
             \/ AlarmDecides \/ DayPasses
  <2>1. UNCHANGED linkVars /\ (doc # NoDoc => doc' = doc)
    BY <1>0, <1>5, StatementTypes
  <2>2. UNCHANGED <<conns, sock, up, down>>
    BY <2>1 DEF linkVars
  <2>3. Receives(k) => doc # NoDoc
    BY <1>0 DEF TypeInv, Socket, Receives, Attached
  <2>4. Receives(k)' => Receives(k)
    BY <2>2 DEF Receives
  <2> QED
    BY <1>0, <2>1, <2>2, <2>3, <2>4, LinkKept
<1>6. CASE AlarmDeletes
  <2>1. conns' = {} /\ UNCHANGED <<doc, sock, up, down>>
    BY <1>6 DEF AlarmDeletes
  <2> QED
    BY <1>0, <2>1, LinkKept
<1>7. CASE Evict
  <2>1. sock'[k] \notin {"accepted", "open"}
    <3>1. sock' = [j \in Pages |-> Dropped(sock[j])]
      BY <1>7, Zenon DEF Evict, Dropped, Receives
    <3>2. \A s \in Socks : Dropped(s) \notin {"accepted", "open"}
      BY DEF Dropped, Socks
    <3>3. sock[k] \in Socks
      BY <1>0 DEF TypeInv, RestTypes
    <3> QED
      BY <3>1, <3>2, <3>3
  <2> QED
    BY <2>1 DEF Linked, Receives
<1> QED
  BY <1>1, <1>2, <1>3, <1>4, <1>5, <1>6, <1>7 DEF Relay, RelayStep

LEMMA SocketLinks ==
  ASSUME LinkInv, NEW c \in Pages, Start(c) \/ Open(c) \/ Retry(c) \/ Leave(c), NEW k \in Pages
  PROVE  Linked(k)'
<1>0. TypeInv /\ Linked(k)
  BY DEF LinkInv
<1>1. /\ UNCHANGED <<doc, conns, pdoc>>
      /\ \A j \in Pages : j # c => /\ sock'[j] = sock[j]
                                   /\ up'[j] = up[j] /\ down'[j] = down[j]
      /\ sock'[c] \notin {"accepted", "open"} \/
           (sock[c] = "accepted" /\ sock'[c] = "open" /\ down'[c] = down[c]
            /\ up[c] = <<>> /\ up'[c] = <<[type |-> "init"]>>)
  BY <1>0, SocketTypes
<1>2. CASE k # c
  BY <1>0, <1>1, <1>2, LinkKept
<1>3. CASE k = c /\ sock'[c] \notin {"accepted", "open"}
  BY <1>3 DEF Linked, Receives
<1>4. CASE k = c /\ sock[c] = "accepted" /\ down'[c] = down[c]
           /\ up[c] = <<>> /\ up'[c] = <<[type |-> "init"]>>
  <2>1. Msgs(up'[c]) = {[type |-> "init"]} /\ ~ Has(up[c], "vector")
    BY <1>4, OneMessage, EmptyQueue
  <2>2. Has(up'[c], "init")
    BY <2>1 DEF Has
  <2>3. Honest(Msgs(up'[c]), pdoc'[c])
    BY <2>1 DEF Honest, Carries
  <2>4. Honest(Msgs(down'[c]), doc')
    BY <1>0, <1>1, <1>4 DEF Linked, Receives
  <2>5. c \in conns' => Informed(c)'
    BY <1>0, <1>1, <1>4, <2>1 DEF Linked, Receives, Informed
  <2> QED
    BY <1>4, <2>2, <2>3, <2>4, <2>5 DEF Linked, Told
<1> QED
  BY <1>1, <1>2, <1>3, <1>4

\* The two answers of the page.
LEMMA ReplyLinks ==
  ASSUME LinkInv, NEW c \in Pages, PageInit(c) \/ PageVector(c), NEW k \in Pages
  PROVE  Linked(k)'
<1>0. TypeInv /\ Linked(k) /\ Linked(c) /\ made \in Shapes /\ pdoc[c] \in MadeDocs(made)
  BY DEF LinkInv, TypeInv, PageTypes
<1>1. /\ UNCHANGED <<made, pdoc>> /\ up[c] \in Seq(Sent(made))
      /\ \A j \in Pages : j # c => up'[j] = up[j]
  BY <1>0, ReplyIsTyped
<1>2. PICK m \in Sent(made) :
        /\ up'[c] = Append(up[c], m)
        /\ m = IF PageInit(c) THEN [type |-> "vector", sv |-> Vector(pdoc[c])]
               ELSE [type |-> "diff", u |-> Diff(pdoc[c], Head(down[c]).sv)]
  BY <1>0, ReplyIsTyped
<1>3. PICK type : /\ Receive(c, type)
                  /\ PageInit(c) => type = "init"
                  /\ ~ PageInit(c) => type = "vector"
  BY DEF PageInit, PageVector
<1>4. /\ Head(down[c]) \in Sent(made) /\ Head(down[c]).type = type
      /\ down[c] \in Seq(Sent(made)) /\ down[c] # <<>> /\ down'[c] = Tail(down[c])
      /\ \A j \in Pages : j # c => down'[j] = down[j]
      /\ sock[c] = "open" /\ UNCHANGED <<relayOwn, sock, listed, ops>>
  BY <1>0, <1>3, ReceiveTypes
<1>5. UNCHANGED <<doc, conns, sock>>
  BY <1>4 DEF relayOwn
<1>6. CASE k # c
  BY <1>0, <1>1, <1>4, <1>5, <1>6, LinkKept
<1>7. CASE k = c
  <2>1. Msgs(up'[c]) = Msgs(up[c]) \cup {m}
    BY <1>1, <1>2, Appended
  <2>2. Msgs(down[c]) = {Head(down[c])} \cup Msgs(down'[c])
    BY <1>4, Taken
  <2>3. /\ Honest(Msgs(down[c]), doc) /\ Honest(Msgs(up[c]), pdoc[c])
        /\ c \in conns => Informed(c)
        /\ Told(c)
    BY <1>0, <1>4 DEF Linked, Receives
  <2>4. Honest(Msgs(down'[c]), doc')
    BY <1>5, <2>2, <2>3 DEF Honest
  <2>5. CASE PageInit(c)
    <3>1. m.type = "vector" /\ m.sv = Vector(pdoc[c]) /\ type = "init"
      BY <1>2, <1>3, <2>5
    <3>2. Covered(Vector(pdoc[c]), pdoc[c])
      BY <1>0, VectorCovers DEF MadeDocs, Docs
    <3>3. Honest(Msgs(up'[c]), pdoc'[c])
      BY <1>1, <2>1, <2>3, <3>1, <3>2 DEF Honest, Carries
    <3>4. Informed(c)'
      BY <2>1, <3>1 DEF Informed, Has
    <3>5. Told(c)'
      <4>1. CASE Has(up[c], "init")
        BY <2>1, <4>1 DEF Told, Has
      <4>2. CASE Has(down[c], "vector")
        BY <1>4, <2>2, <3>1, <4>2 DEF Told, Has
      <4>3. CASE Reaches(pdoc[c], doc, Msgs(up[c]))
        BY <1>1, <1>5, <2>1, <4>3, ReachesMore, WithinSelf DEF Told
      <4> QED
        BY <2>3, <4>1, <4>2, <4>3 DEF Told
    <3> QED
      BY <1>7, <2>4, <3>3, <3>4, <3>5 DEF Linked
  <2>6. CASE ~ PageInit(c)
    <3>0. PICK sv : sv = Head(down[c]).sv
      OBVIOUS
    <3>1. m.type = "diff" /\ m.u = Diff(pdoc[c], sv) /\ type = "vector" /\ Carries(m)
      BY <1>2, <1>3, <2>6, <3>0 DEF Carries
    <3>2. sv \in [Pages -> Nat] /\ Covered(sv, doc)
      <4>1. sv \in [Pages -> Nat]
        BY <1>0, <1>4, <3>0, <3>1, Tagged
      <4>2. Covered(sv, doc)
        BY <1>4, <2>2, <2>3, <3>0, <3>1 DEF Honest
      <4> QED
        BY <4>1, <4>2
    <3>3. Within(m.u, pdoc[c])
      BY <1>0, <3>1, DiffType
    <3>4. Honest(Msgs(up'[c]), pdoc'[c])
      BY <1>1, <2>1, <2>3, <3>1, <3>3 DEF Honest
    <3>5. /\ \A x \in pdoc[c].ins : x \in doc.ins \/ x \in m.u.ins
          /\ \A x \in pdoc[c].del : x \in m.u.del
      BY <1>0, <3>1, <3>2, DiffCompletes
    <3>6. Told(c)'
      BY <1>1, <1>5, <2>1, <3>1, <3>5 DEF Told, Reaches
    <3>7. ASSUME c \in conns' PROVE Informed(c)'
      <4>1. Informed(c)
        BY <1>5, <2>3, <3>7
      <4>2. CASE Has(down[c], "init")
        BY <1>4, <2>2, <3>1, <4>2 DEF Informed, Has
      <4>3. CASE Has(up[c], "vector")
        BY <2>1, <4>3 DEF Informed, Has
      <4>4. CASE Reaches(doc, pdoc[c], Msgs(down[c]))
        <5>1. ~ Carries(Head(down[c]))
          BY <1>4, <3>1 DEF Carries
        <5>2. Reaches(doc, pdoc[c], Msgs(down'[c]))
          BY <2>2, <4>4, <5>1 DEF Reaches
        <5> QED
          BY <1>1, <1>5, <5>2 DEF Informed
      <4> QED
        BY <4>1, <4>2, <4>3, <4>4 DEF Informed
    <3> QED
      BY <1>7, <2>4, <3>4, <3>6, <3>7 DEF Linked
  <2> QED
    BY <2>5, <2>6
<1> QED
  BY <1>6, <1>7

\* A turn of the page: it keeps what it had and heard, and sends what is new.
LEMMA TurnLinks ==
  ASSUME LinkInv, NEW c \in Pages, NEW D, Seen(c, D), PageStep(c),
         Within(pdoc[c], D),
         Receives(c) =>
           /\ Msgs(down'[c]) \subseteq Msgs(down[c])
           /\ \A x \in Msgs(down[c]) : x \notin Msgs(down'[c]) => Carries(x) /\ Within(x.u, D)
           /\ \A i \in D.ins : i \in pdoc[c].ins \/ i \in doc.ins
           /\ \A i \in D.del : i \in pdoc[c].del \/ i \in doc.del,
         \A j \in Pages : j # c => down'[j] = down[j],
         NEW k \in Pages
  PROVE  Linked(k)'
<1>0. TypeInv /\ Linked(k)
  BY DEF LinkInv
<1>1. UNCHANGED <<doc, conns, sock>>
  BY DEF PageStep, relayOwn
<1>2. CASE k # c
  BY <1>0, <1>1, <1>2, LinkKept DEF Seen
<1>3. CASE k = c
  <2> SUFFICES ASSUME Receives(c) PROVE Linked(c)'
    BY <1>1, <1>3 DEF Linked, Receives
  <2>1. /\ Honest(Msgs(down[c]), doc) /\ Honest(Msgs(up[c]), pdoc[c])
        /\ c \in conns => Informed(c)
        /\ sock[c] = "open" => Told(c)
    BY <1>0, <1>3 DEF Linked
  <2>2. /\ Within(D, pdoc'[c]) /\ Within(pdoc[c], pdoc'[c])
        /\ Msgs(up[c]) \subseteq Msgs(up'[c])
    BY DEF Seen, Within
  <2>3. Honest(Msgs(down'[c]), doc')
    BY <1>1, <2>1 DEF Honest
  <2>4. Honest(Msgs(up'[c]), pdoc'[c])
    <3>1. Honest(Msgs(up[c]), pdoc'[c])
      BY <2>1, <2>2, HonestGrows
    <3>2. \A x \in Msgs(up'[c]) : x \notin Msgs(up[c]) => x.type = "update" /\ Within(x.u, pdoc'[c])
      BY DEF Seen
    <3> QED
      BY <3>1, <3>2 DEF Honest
  <2>5. ASSUME c \in conns' PROVE Informed(c)'
    <3>1. Informed(c)
      BY <1>1, <2>1, <2>5
    <3>2. CASE Has(down[c], "init")
      BY <3>2 DEF Informed, Has, Carries
    <3>3. CASE Has(up[c], "vector")
      BY <2>2, <3>3, HasMore DEF Informed
    <3>4. CASE Reaches(doc, pdoc[c], Msgs(down[c]))
      <4>1. \A x \in Msgs(down[c]) : x \notin Msgs(down'[c]) => Within(x.u, pdoc'[c])
        BY <2>2 DEF Within
      <4>2. ASSUME NEW i \in doc.ins
            PROVE  i \in pdoc'[c].ins \/ \E x \in Msgs(down'[c]) : Carries(x) /\ i \in x.u.ins
        BY <2>2, <3>4, <4>1 DEF Reaches, Within
      <4>3. ASSUME NEW i \in doc.del
            PROVE  i \in pdoc'[c].del \/ \E x \in Msgs(down'[c]) : Carries(x) /\ i \in x.u.del
        BY <2>2, <3>4, <4>1 DEF Reaches, Within
      <4>4. Reaches(doc, pdoc'[c], Msgs(down'[c]))
        BY <4>2, <4>3 DEF Reaches
      <4> QED
        BY <1>1, <4>4 DEF Informed
    <3> QED
      BY <3>1, <3>2, <3>3, <3>4 DEF Informed
  <2>6. ASSUME sock'[c] = "open" PROVE Told(c)'
    <3>1. Told(c) /\ sock[c] = "open"
      BY <1>1, <2>1, <2>6
    <3>2. CASE Has(up[c], "init")
      BY <2>2, <3>2, HasMore DEF Told
    <3>3. CASE Has(down[c], "vector")
      BY <3>3 DEF Told, Has, Carries
    <3>4. CASE Reaches(pdoc[c], doc, Msgs(up[c]))
      <4>1. ASSUME NEW i \in pdoc'[c].ins
            PROVE  i \in doc.ins \/ \E x \in Msgs(up'[c]) : Carries(x) /\ i \in x.u.ins
        <5>1. CASE i \notin D.ins
          BY <3>1, <5>1 DEF Seen
        <5>2. CASE i \in D.ins
          BY <2>2, <3>4, <5>2 DEF Reaches
        <5> QED
          BY <5>1, <5>2
      <4>2. ASSUME NEW i \in pdoc'[c].del
            PROVE  i \in doc.del \/ \E x \in Msgs(up'[c]) : Carries(x) /\ i \in x.u.del
        <5>1. CASE i \notin D.del
          BY <3>1, <5>1 DEF Seen
        <5>2. CASE i \in D.del
          BY <2>2, <3>4, <5>2 DEF Reaches
        <5> QED
          BY <5>1, <5>2
      <4>3. Reaches(pdoc'[c], doc, Msgs(up'[c]))
        BY <4>1, <4>2 DEF Reaches
      <4> QED
        BY <1>1, <4>3 DEF Told
    <3> QED
      BY <3>1, <3>2, <3>3, <3>4 DEF Told
  <2> QED
    BY <1>1, <2>3, <2>4, <2>5, <2>6 DEF Linked
<1> QED
  BY <1>2, <1>3

LEMMA HeardLinks ==
  ASSUME LinkInv, NEW c \in Pages, PageDiff(c) \/ PageUpdate(c), NEW k \in Pages
  PROVE  Linked(k)'
<1>0. TypeInv /\ Linked(c) /\ made \in Shapes /\ pdoc[c] \in MadeDocs(made)
  BY DEF LinkInv, TypeInv, PageTypes
<1>1. PageStep(c) /\ Carries(Head(down[c])) /\ (\E t : HeardTurn(c, t)) /\ \E type : Receive(c, type)
  BY <1>0, HeardTurns
<1>2. PICK type : Receive(c, type)
  BY <1>1
<1>3. PICK t : HeardTurn(c, t)
  BY <1>1
<1>4. PICK u, D : u = Head(down[c]).u /\ D = Merge(pdoc[c], u)
  OBVIOUS
<1>5. Seen(c, D)
  BY <1>0, <1>3, <1>4, TurnSeen DEF HeardTurn
<1>6. /\ Head(down[c]) \in Sent(made)
      /\ down[c] \in Seq(Sent(made)) /\ down[c] # <<>> /\ down'[c] = Tail(down[c])
      /\ \A j \in Pages : j # c => down'[j] = down[j]
      /\ sock[c] = "open"
  BY <1>0, <1>2, ReceiveTypes
<1>7. u \in MadeDocs(made)
  BY <1>0, <1>1, <1>4, <1>6, Tagged
<1>8. Within(pdoc[c], D) /\ Within(u, D)
  BY <1>0, <1>4, <1>7, MergeType
<1>9. Msgs(down[c]) = {Head(down[c])} \cup Msgs(down'[c])
  BY <1>6, Taken
<1>10. Within(u, doc)
  BY <1>0, <1>1, <1>4, <1>6, <1>9 DEF Linked, Receives, Honest
<1>11. /\ \A i \in D.ins : i \in pdoc[c].ins \/ i \in doc.ins
       /\ \A i \in D.del : i \in pdoc[c].del \/ i \in doc.del
  BY <1>4, <1>10 DEF Merge, Within
<1>12. \A x \in Msgs(down[c]) : x \notin Msgs(down'[c]) => Carries(x) /\ Within(x.u, D)
  BY <1>1, <1>4, <1>8, <1>9
<1> QED
  BY <1>1, <1>5, <1>6, <1>8, <1>9, <1>11, <1>12, TurnLinks

LEMMA OwnLinks ==
  ASSUME LinkInv, NEW c \in Pages, OwnTurnActions(c), NEW k \in Pages
  PROVE  Linked(k)'
<1>0. TypeInv
  BY DEF LinkInv
<1>1. OwnTurn(c) /\ PageStep(c) /\ down' = down
  BY <1>0, OwnTurns
<1>2. PICK D : D = pdoc[c]
  OBVIOUS
<1>3. Seen(c, D)
  BY <1>0, <1>1, <1>2, TurnSeen DEF OwnTurn
<1>4. Within(pdoc[c], D)
  BY <1>2, WithinSelf
<1> QED
  BY <1>1, <1>2, <1>3, <1>4, TurnLinks

LEMMA LinksKept ==
  ASSUME LinkInv, [Next]_vars
  PROVE  LinkInv'
<1>0. TypeInv
  BY DEF LinkInv
<1>1. TypeInv'
  BY <1>0, TypesKept
<1>2. ASSUME NEW k \in Pages PROVE Linked(k)'
  <2>1. CASE Relay
    BY <2>1, RelayLinks
  <2>2. ASSUME NEW c \in Pages,
               Start(c) \/ Open(c) \/ Retry(c) \/ Deliver(c) \/ Bind(c) \/ User(c)
        PROVE  Linked(k)'
    BY <2>2, PageSteps, SocketLinks, ReplyLinks, HeardLinks, OwnLinks
  <2>3. CASE UNCHANGED vars
    <3>1. UNCHANGED <<doc, conns, sock, up, down, pdoc>>
      BY <2>3 DEF vars, relayVars, pageVars
    <3>2. Linked(k)
      BY DEF LinkInv
    <3> QED
      BY <3>1, <3>2, LinkKept
  <2> QED
    BY <2>1, <2>2, <2>3 DEF Next
<1> QED
  BY <1>1, <1>2 DEF LinkInv

\* A page the relay knows, with nothing on its way in either direction, holds the
\* relay's document: for any pages, contents, cuts, evictions, failed loads and days.
\* Each direction of the handshake closes one gap, and whoever is not caught up has
\* its question still on the way.  (liveSyncProvider.ts handleMessage, doc.on("update");
\* session.ts handleSync, applyUpdate)
THEOREM QuietPagesAgree == Spec => []QuietAgree
<1>1. Init => LinkInv
  <2> SUFFICES ASSUME Init PROVE LinkInv
    OBVIOUS
  <2>1. TypeInv
    BY TypesInitially
  <2>2. \A c \in Pages : Linked(c)
    BY DEF Init, RelayInit, Linked, Receives
  <2> QED
    BY <2>1, <2>2 DEF LinkInv
<1>2. LinkInv /\ [Next]_vars => LinkInv'
  BY LinksKept
<1>3. LinkInv => QuietAgree
  <2> SUFFICES ASSUME LinkInv, NEW c \in conns, sock[c] = "open", up[c] = <<>>, down[c] = <<>>
               PROVE  pdoc[c] = doc
    BY DEF QuietAgree
  <2>1. c \in Pages /\ Linked(c)
    BY DEF LinkInv, TypeInv, RestTypes
  <2>2. Msgs(up[c]) = {} /\ Msgs(down[c]) = {} /\ \A type : ~ Has(up[c], type) /\ ~ Has(down[c], type)
    BY EmptyQueue
  <2>3. Reaches(doc, pdoc[c], {}) /\ Reaches(pdoc[c], doc, {})
    BY <2>1, <2>2 DEF Linked, Receives, Informed, Told
  <2>4. doc.ins = pdoc[c].ins /\ doc.del = pdoc[c].del
    BY <2>3 DEF Reaches
  <2>5. doc \in Docs /\ pdoc[c] \in Docs
    <3>1. doc # NoDoc
      BY <2>1 DEF LinkInv, TypeInv, Socket, Attached
    <3> QED
      BY <2>1, <3>1 DEF LinkInv, TypeInv, DocTypes, PageTypes, MaybeDocs, MadeDocs
  <2> QED
    BY <2>4, <2>5 DEF Docs
<1> QED
  BY <1>1, <1>2, <1>3, PTL DEF Spec

-----------------------------------------------------------------------------
(* The handshake gives each connection one question of the page, and so one   *)
(* answer: the one remembered is the one on its way.                          *)

Handshake(c) ==
  Receives(c) =>
    /\ Once(down[c], "init") /\ Once(up[c], "vector")
    /\ Has(down[c], "init") => ~ Has(up[c], "vector") /\ ~ Has(down[c], "diff")
    /\ Has(up[c], "vector") => ~ Has(down[c], "diff")

\* With the update the page will have all of the answer.
Brings(a, d, u) == a.ins \subseteq d.ins \cup u.ins /\ a.del \subseteq d.del \cup u.del

Remembered(c) ==
  Receives(c) /\ phase[c] = "solo" =>
    \A x \in Msgs(down[c]) : x.type = "diff" => Brings(answer[c], pdoc[c], x.u)

SeedInv == LinkInv /\ \A c \in Pages : Handshake(c) /\ Remembered(c)

\* No new question and no new answer.
LEMMA HandshakeKept ==
  ASSUME NEW c \in Pages, Handshake(c),
         Receives(c)' =>
           /\ Receives(c)
           /\ Once(down[c], "init") => Once(down'[c], "init")
           /\ Once(up[c], "vector") => Once(up'[c], "vector")
           /\ Has(down'[c], "init") => Has(down[c], "init")
           /\ Has(up'[c], "vector") => Has(up[c], "vector")
           /\ Has(down'[c], "diff") => Has(down[c], "diff")
  PROVE  Handshake(c)'
  BY DEF Handshake, Receives

LEMMA RememberedKept ==
  ASSUME NEW c \in Pages, Remembered(c),
         Receives(c)' /\ phase'[c] = "solo" =>
           /\ Receives(c) /\ phase[c] = "solo" /\ answer'[c] = answer[c]
           /\ Within(pdoc[c], pdoc'[c])
           /\ \A x \in Msgs(down'[c]) : x.type = "diff" => x \in Msgs(down[c])
  PROVE  Remembered(c)'
<1> SUFFICES ASSUME Receives(c)', phase'[c] = "solo", NEW x \in Msgs(down'[c]), x.type = "diff"
             PROVE  Brings(answer'[c], pdoc'[c], x.u)
  BY DEF Remembered
<1>1. /\ Brings(answer[c], pdoc[c], x.u) /\ answer'[c] = answer[c] /\ Within(pdoc[c], pdoc'[c])
  BY DEF Remembered
<1> QED
  BY <1>1 DEF Brings, Within

\* A turn of the page asks and answers nothing.
LEMMA TurnHandshakes ==
  ASSUME SeedInv, NEW c \in Pages, NEW D, Seen(c, D), PageStep(c), Within(pdoc[c], D),
         down'[c] \in {down[c], Tail(down[c])}, down[c] = <<>> => down'[c] = down[c],
         phase'[c] = "solo" => phase[c] = "solo",
         \A j \in Pages : j # c => down'[j] = down[j] /\ phase'[j] = phase[j],
         NEW k \in Pages
  PROVE  Handshake(k)' /\ Remembered(k)'
<1>1. UNCHANGED <<sock, answer>>
  BY DEF PageStep
<1>2. Handshake(k) /\ Remembered(k)
  BY DEF SeedInv
<1>3. k # c => pdoc'[k] = pdoc[k] /\ up'[k] = up[k]
  BY DEF Seen
<1>4. CASE k # c
  <2>1. down'[k] = down[k] /\ up'[k] = up[k] /\ pdoc'[k] = pdoc[k] /\ phase'[k] = phase[k]
    BY <1>3, <1>4
  <2>2. Receives(k)' <=> Receives(k)
    BY <1>1 DEF Receives
  <2> QED
    BY <1>1, <1>2, <2>1, <2>2, HandshakeKept, RememberedKept, WithinSelf
<1>5. CASE k = c
  <2>1. Receives(k)' <=> Receives(k)
    BY <1>1 DEF Receives
  <2>2. down[c] \in Seq(Sent(made))
    BY DEF SeedInv, LinkInv, TypeInv, QueueTypes
  <2>3. Msgs(down'[c]) \subseteq Msgs(down[c]) /\ (Once(down[c], "init") => Once(down'[c], "init"))
    <3>1. CASE down'[c] = down[c]
      BY <3>1
    <3>2. CASE down'[c] = Tail(down[c]) /\ down[c] # <<>>
      BY <2>2, <3>2, Taken
    <3> QED
      BY <3>1, <3>2
  <2>4. Has(up'[c], "vector") => Has(up[c], "vector")
    BY DEF Seen, Has
  <2>5. Once(up[c], "vector") => Once(up'[c], "vector")
    BY DEF Seen
  <2>6. Within(pdoc[c], pdoc'[c])
    BY DEF Seen, Within
  <2>7. \A type : Has(down'[c], type) => Has(down[c], type)
    BY <2>3 DEF Has
  <2>8. Handshake(k)'
    BY <1>2, <1>5, <2>1, <2>3, <2>4, <2>5, <2>7, HandshakeKept
  <2>9. Remembered(k)'
    BY <1>1, <1>2, <1>5, <2>1, <2>3, <2>6, RememberedKept
  <2> QED
    BY <2>8, <2>9
<1> QED
  BY <1>4, <1>5

LEMMA PageHandshakes ==
  ASSUME SeedInv, NEW c \in Pages,
         Start(c) \/ Open(c) \/ Retry(c) \/ Deliver(c) \/ Bind(c) \/ User(c),
         NEW k \in Pages
  PROVE  Handshake(k)' /\ Remembered(k)'
<1>0. TypeInv /\ LinkInv /\ Handshake(k) /\ Remembered(k) /\ Handshake(c)
  BY DEF SeedInv, LinkInv
<1>t. made \in Shapes /\ phase \in [Pages -> {"solo", "synced", "bound", "left"}]
      /\ pdoc[c] \in MadeDocs(made)
  BY <1>0 DEF TypeInv, PageTypes
<1>1. CASE Start(c) \/ Open(c) \/ Retry(c) \/ Leave(c)
  <2>1. /\ UNCHANGED <<pdoc, answer>>
        /\ \A j \in Pages : j # c => /\ sock'[j] = sock[j] /\ phase'[j] = phase[j]
                                     /\ up'[j] = up[j] /\ down'[j] = down[j]
        /\ phase'[c] \in {phase[c], "left"}
        /\ sock'[c] \notin {"accepted", "open"} \/
             (sock[c] = "accepted" /\ sock'[c] = "open" /\ down'[c] = down[c]
              /\ up[c] = <<>> /\ up'[c] = <<[type |-> "init"]>>)
    BY <1>0, <1>1, SocketTypes
  <2>2. CASE k # c
    <3>1. Receives(k)' <=> Receives(k)
      BY <2>1, <2>2 DEF Receives
    <3> QED
      BY <1>0, <2>1, <2>2, <3>1, HandshakeKept, RememberedKept, WithinSelf
  <2>3. CASE k = c /\ sock'[c] \notin {"accepted", "open"}
    BY <2>3 DEF Handshake, Remembered, Receives
  <2>4. CASE k = c /\ sock[c] = "accepted" /\ down'[c] = down[c]
             /\ up[c] = <<>> /\ up'[c] = <<[type |-> "init"]>>
    <3>1. Once(up'[c], "vector") /\ Msgs(up'[c]) = {[type |-> "init"]}
      BY <2>4, OneMessage
    <3>2. ~ Has(up'[c], "vector")
      BY <3>1 DEF Has
    <3>3. Receives(c)
      BY <2>4 DEF Receives
    <3>4. Handshake(c)'
      BY <1>0, <2>4, <3>1, <3>2, <3>3, HandshakeKept
    <3>5. Remembered(c)'
      BY <1>0, <2>1, <2>4, <3>3, RememberedKept, WithinSelf
    <3> QED
      BY <2>4, <3>4, <3>5
  <2> QED
    BY <2>1, <2>2, <2>3, <2>4
<1>2. CASE PageInit(c) \/ PageVector(c)
  <2>1. /\ UNCHANGED <<made, pdoc>> /\ up[c] \in Seq(Sent(made))
        /\ \A j \in Pages : j # c => up'[j] = up[j]
    BY <1>0, <1>2, ReplyIsTyped
  <2>2. PICK m \in Sent(made) :
          /\ up'[c] = Append(up[c], m)
          /\ m = IF PageInit(c) THEN [type |-> "vector", sv |-> Vector(pdoc[c])]
                 ELSE [type |-> "diff", u |-> Diff(pdoc[c], Head(down[c]).sv)]
    BY <1>0, <1>2, ReplyIsTyped
  <2>3. PICK type : /\ Receive(c, type)
                    /\ PageInit(c) => type = "init"
                    /\ ~ PageInit(c) => type = "vector"
    BY <1>2 DEF PageInit, PageVector
  <2>4. /\ Head(down[c]) \in Sent(made) /\ Head(down[c]).type = type
        /\ down[c] \in Seq(Sent(made)) /\ down[c] # <<>> /\ down'[c] = Tail(down[c])
        /\ \A j \in Pages : j # c => down'[j] = down[j]
        /\ sock[c] = "open" /\ UNCHANGED <<relayOwn, sock, listed, ops>>
    BY <1>0, <2>3, ReceiveTypes
  <2>5. UNCHANGED <<sock, phase, answer>>
    BY <1>2, <2>4 DEF PageInit, PageVector, pageVars
  <2>6. Receives(k)' <=> Receives(k)
    BY <2>5 DEF Receives
  <2>7. Msgs(up'[c]) = Msgs(up[c]) \cup {m}
    BY <2>1, <2>2, Appended
  <2>8. Msgs(down[c]) = {Head(down[c])} \cup Msgs(down'[c])
    BY <2>4, Taken
  <2>9. \A j \in Pages : Msgs(down'[j]) \subseteq Msgs(down[j])
    BY <2>4, <2>8
  <2>10. Remembered(k)'
    BY <1>0, <2>1, <2>5, <2>6, <2>9, RememberedKept, WithinSelf
  <2>11. Handshake(k)'
    <3>1. CASE k # c
      BY <1>0, <2>1, <2>4, <2>6, <3>1, HandshakeKept
    <3>2. CASE k = c /\ PageInit(c)
      <4>1. m.type = "vector" /\ type = "init"
        BY <2>2, <2>3, <3>2
      <4>2. Has(down[c], "init")
        BY <2>4, <2>8, <4>1 DEF Has
      <4>3. /\ Once(down[c], "init") /\ Once(up[c], "vector")
            /\ ~ Has(up[c], "vector") /\ ~ Has(down[c], "diff")
        BY <1>0, <2>4, <4>2 DEF Handshake, Receives
      <4>4. Once(up'[c], "vector")
        BY <2>1, <2>2, <4>3, Appended
      <4>5. Once(down'[c], "init") /\ ~ Has(down'[c], "init")
        BY <2>4, <4>1, <4>3, Taken
      <4>6. ~ Has(down'[c], "diff")
        BY <2>8, <4>3 DEF Has
      <4> QED
        BY <3>2, <4>4, <4>5, <4>6 DEF Handshake
    <3>3. CASE k = c /\ ~ PageInit(c)
      <4>1. m.type = "diff"
        BY <2>2, <3>3
      <4>2. Once(up[c], "vector") => Once(up'[c], "vector")
        BY <2>1, <2>2, <4>1, Appended
      <4>3. Has(up'[c], "vector") => Has(up[c], "vector")
        BY <2>7, <4>1 DEF Has
      <4>4. Once(down[c], "init") => Once(down'[c], "init")
        BY <2>4, Taken
      <4>5. \A ty : Has(down'[c], ty) => Has(down[c], ty)
        BY <2>8 DEF Has
      <4> QED
        BY <1>0, <2>6, <3>3, <4>2, <4>3, <4>4, <4>5, HandshakeKept
    <3> QED
      BY <3>1, <3>2, <3>3
  <2> QED
    BY <2>10, <2>11
<1>3. CASE PageDiff(c) \/ PageUpdate(c)
  <2>1. PageStep(c) /\ Carries(Head(down[c])) /\ (\E t : HeardTurn(c, t)) /\ \E type : Receive(c, type)
    BY <1>0, <1>3, HeardTurns
  <2>2. PICK type : Receive(c, type)
    BY <2>1
  <2>3. PICK t : HeardTurn(c, t)
    BY <2>1
  <2>4. PICK u, D : u = Head(down[c]).u /\ D = Merge(pdoc[c], u)
    OBVIOUS
  <2>5. Seen(c, D)
    BY <1>0, <2>3, <2>4, TurnSeen DEF HeardTurn
  <2>6. /\ down[c] # <<>> /\ down'[c] = Tail(down[c])
        /\ \A j \in Pages : j # c => down'[j] = down[j]
    BY <1>0, <2>2, ReceiveTypes
  <2>7. Within(pdoc[c], D)
    BY <2>4 DEF Merge, Within
  <2>8. /\ phase'[c] = "solo" => phase[c] = "solo"
        /\ \A j \in Pages : j # c => phase'[j] = phase[j]
    BY <1>3, <1>t DEF PageDiff, PageUpdate
  <2> QED
    BY <2>1, <2>5, <2>6, <2>7, <2>8, TurnHandshakes
<1>4. CASE OwnTurnActions(c)
  <2>1. OwnTurn(c) /\ PageStep(c) /\ down' = down
    BY <1>0, <1>4, OwnTurns
  <2>2. PICK D : D = pdoc[c]
    OBVIOUS
  <2>3. Seen(c, D)
    BY <1>0, <2>1, <2>2, TurnSeen DEF OwnTurn
  <2>4. Within(pdoc[c], D)
    BY <2>2, WithinSelf
  <2>5. /\ phase'[c] = "solo" => phase[c] = "solo"
        /\ \A j \in Pages : j # c => phase'[j] = phase[j]
    BY <1>4, <1>t DEF OwnTurnActions, Bind, AddTab, Type, TypeSolo, RemoveTab, Act
  <2> QED
    BY <2>1, <2>3, <2>4, <2>5, TurnHandshakes
<1> QED
  BY <1>1, <1>2, <1>3, <1>4, PageSteps

\* An answer is noted only when a question is handled.
LEMMA NotedOnce ==
  ASSUME TypeInv, Noted, NEW k \in Pages, up'[k] = up[k]
  PROVE  answer'[k] = answer[k]
<1>1. up[k] \in Seq(Sent(made))
  BY DEF TypeInv, QueueTypes
<1>2. up[k] # <<>> => up'[k] # Tail(up[k])
  <2> SUFFICES ASSUME up[k] # <<>>, up[k] = Tail(up[k]) PROVE FALSE
    OBVIOUS
  <2>1. Len(Tail(up[k])) = Len(up[k]) - 1 /\ Len(up[k]) \in Nat
    BY <1>1, HeadTailProperties, LenProperties
  <2>2. Len(up[k]) = Len(up[k]) - 1
    BY <2>1
  <2> QED
    BY <2>1, <2>2
<1> QED
  BY <1>2 DEF Noted

\* A page whose connection the relay's step leaves alone, or breaks.
LEMMA RelayLeaves ==
  ASSUME SeedInv, Noted, NEW k \in Pages,
         Receives(k)' => Receives(k) /\ up'[k] = up[k] /\ down'[k] = down[k]
  PROVE  Handshake(k)' /\ Remembered(k)'
<1>1. TypeInv /\ Handshake(k) /\ Remembered(k) /\ pdoc' = pdoc /\ phase' = phase
  BY NotedTypes DEF SeedInv, LinkInv
<1>2. Handshake(k)'
  BY <1>1, HandshakeKept
<1>3. Receives(k)' => answer'[k] = answer[k]
  BY <1>1, NotedOnce
<1>4. Remembered(k)'
  BY <1>1, <1>3, RememberedKept, WithinSelf
<1> QED
  BY <1>2, <1>4

LEMMA RelayHandshakes ==
  ASSUME SeedInv, Relay, NEW k \in Pages
  PROVE  Handshake(k)' /\ Remembered(k)'
<1>0. /\ TypeInv /\ LinkInv /\ Handshake(k) /\ Remembered(k) /\ Noted
      /\ pdoc' = pdoc /\ phase' = phase /\ made \in Shapes
  BY NotedTypes DEF SeedInv, LinkInv, Relay, TypeInv, PageTypes
<1>t. /\ sock \in [Pages -> Socks] /\ up \in [Pages -> Seq(Sent(made))]
      /\ down \in [Pages -> Seq(Sent(made))]
  BY <1>0 DEF TypeInv, RestTypes, QueueTypes
<1>1. ASSUME NEW c \in Pages, Accept(c) PROVE Handshake(k)' /\ Remembered(k)'
  <2>1. /\ sock[c] = "connecting" /\ sock' = [sock EXCEPT ![c] = "accepted"]
        /\ down' = [down EXCEPT ![c] = <<[type |-> "init"]>>] /\ up' = up
    BY <1>1 DEF Accept
  <2>2. CASE k = c
    <3>1. down'[k] = <<[type |-> "init"]>> /\ up'[k] = <<>>
      BY <1>0, <1>t, <2>1, <2>2 DEF TypeInv, Socket
    <3>2. /\ Msgs(down'[k]) = {[type |-> "init"]} /\ Once(down'[k], "init")
          /\ Once(up'[k], "vector") /\ ~ Has(up'[k], "vector")
      BY <3>1, OneMessage, EmptyQueue
    <3>3. ~ Has(down'[k], "diff")
      BY <3>2 DEF Has
    <3> QED
      BY <3>2, <3>3 DEF Handshake, Remembered
  <2>3. CASE k # c
    <3>1. sock'[k] = sock[k] /\ up'[k] = up[k] /\ down'[k] = down[k]
      BY <1>t, <2>1, <2>3
    <3> QED
      BY <1>0, <3>1, RelayLeaves DEF Receives
  <2> QED
    BY <2>2, <2>3
<1>2. ASSUME NEW c \in Pages, AnswerInit(c) \/ AnswerVector(c) PROVE Handshake(k)' /\ Remembered(k)'
  <2>1. UNCHANGED <<doc, sock>>
    BY <1>2 DEF AnswerInit, AnswerVector
  <2>2. PICK type : /\ Take(c, type)
                    /\ AnswerInit(c) => type = "init"
                    /\ AnswerVector(c) => type = "vector"
    BY <1>2 DEF AnswerInit, AnswerVector, Take
  <2>3. /\ Head(up[c]) \in Sent(made) /\ Head(up[c]).type = type
        /\ up[c] \in Seq(Sent(made)) /\ up[c] # <<>> /\ up'[c] = Tail(up[c])
        /\ \A j \in Pages : j # c => up'[j] = up[j]
        /\ doc \in MadeDocs(made) /\ doc # NoDoc
    BY <1>0, <2>2, TakeTypes
  <2>4. PICK sv : sv = Head(up[c]).sv
    OBVIOUS
  <2>5. CASE AnswerInit(c)
    <3>1. PICK m : m = [type |-> "vector", sv |-> Vector(doc)]
      OBVIOUS
    <3>2. m \in Sent(made) /\ m.type = "vector" /\ type = "init" /\ Reply(c, m)
      BY <1>0, <2>2, <2>3, <2>5, <3>1, MessageTypes DEF AnswerInit
    <3>3. /\ down'[c] = IF Receives(c) THEN Append(down[c], m) ELSE down[c]
          /\ \A j \in Pages : j # c => down'[j] = down[j]
          /\ down[c] \in Seq(Sent(made))
      BY <1>0, <3>2, ReplyTypes
    <3>4. CASE k # c
      BY <1>0, <2>1, <2>3, <3>3, <3>4, RelayLeaves DEF Receives
    <3>5. CASE k = c
      <4>1. Receives(c)' <=> Receives(c)
        BY <2>1 DEF Receives
      <4>2. Once(up[c], "vector") => Once(up'[c], "vector")
        BY <2>3, Taken
      <4>3. Has(up'[c], "vector") => Has(up[c], "vector")
        BY <2>3, Taken DEF Has
      <4>4. Receives(c) => /\ Msgs(down'[c]) = Msgs(down[c]) \cup {m}
                           /\ Once(down[c], "init") => Once(down'[c], "init")
        BY <3>2, <3>3, Appended
      <4>5. Receives(c) => /\ Has(down'[c], "init") => Has(down[c], "init")
                           /\ Has(down'[c], "diff") => Has(down[c], "diff")
        BY <3>2, <4>4 DEF Has
      <4>6. Handshake(k)'
        BY <1>0, <3>5, <4>1, <4>2, <4>3, <4>4, <4>5, HandshakeKept
      <4>7. answer'[c] = answer[c]
        BY <1>0, <2>3, <3>2 DEF Noted
      <4>8. Receives(c) => \A x \in Msgs(down'[c]) : x.type = "diff" => x \in Msgs(down[c])
        BY <3>2, <4>4
      <4>9. Remembered(k)'
        BY <1>0, <3>5, <4>1, <4>7, <4>8, RememberedKept, WithinSelf
      <4> QED
        BY <4>6, <4>9
    <3> QED
      BY <3>4, <3>5
  <2>6. CASE AnswerVector(c)
    <3>1. PICK m : m = [type |-> "diff", u |-> Diff(doc, sv)]
      OBVIOUS
    <3>2. m \in Sent(made) /\ m.type = "diff" /\ type = "vector" /\ Reply(c, m)
      BY <1>0, <2>2, <2>3, <2>4, <2>6, <3>1, MessageTypes DEF AnswerVector
    <3>3. /\ down'[c] = IF Receives(c) THEN Append(down[c], m) ELSE down[c]
          /\ \A j \in Pages : j # c => down'[j] = down[j]
          /\ down[c] \in Seq(Sent(made))
      BY <1>0, <3>2, ReplyTypes
    <3>4. CASE k # c
      BY <1>0, <2>1, <2>3, <3>3, <3>4, RelayLeaves DEF Receives
    <3>5. CASE k = c
      <4> SUFFICES ASSUME Receives(c) PROVE Handshake(c)' /\ Remembered(c)'
        BY <2>1, <3>5 DEF Handshake, Remembered, Receives
      <4>1. Msgs(up[c]) = {Head(up[c])} \cup Msgs(up'[c])
        BY <2>3, Taken
      <4>2. Has(up[c], "vector")
        BY <2>3, <3>2, <4>1 DEF Has
      <4>3. /\ Once(down[c], "init") /\ Once(up[c], "vector")
            /\ ~ Has(down[c], "init") /\ ~ Has(down[c], "diff")
        BY <1>0, <3>5, <4>2 DEF Handshake
      <4>4. Once(up'[c], "vector") /\ ~ Has(up'[c], "vector")
        BY <2>3, <3>2, <4>3, Taken
      <4>5. Msgs(down'[c]) = Msgs(down[c]) \cup {m} /\ Once(down'[c], "init")
        BY <3>2, <3>3, <4>3, Appended
      <4>6. ~ Has(down'[c], "init")
        BY <3>2, <4>3, <4>5 DEF Has
      <4>7. Handshake(c)'
        BY <4>4, <4>5, <4>6 DEF Handshake
      <4>8. Remembered(c)'
        <5> SUFFICES ASSUME phase[c] = "solo", NEW x \in Msgs(down'[c]), x.type = "diff"
                     PROVE  Brings(answer'[c], pdoc[c], x.u)
          BY <1>0 DEF Remembered
        <5>1. x = m
          BY <4>3, <4>5 DEF Has
        <5>2. answer'[c] = doc
          BY <1>0, <2>3, <3>2 DEF Noted
        <5>3. sv \in [Pages -> Nat]
          BY <1>0, <2>3, <2>4, <3>2, Tagged
        <5>4. Covered(sv, pdoc[c])
          <6>1. Honest(Msgs(up[c]), pdoc[c])
            BY <1>0 DEF LinkInv, Linked
          <6> QED
            BY <2>3, <2>4, <3>2, <4>1, <6>1 DEF Honest
        <5>5. /\ \A i \in doc.ins : i \in pdoc[c].ins \/ i \in Diff(doc, sv).ins
              /\ \A i \in doc.del : i \in Diff(doc, sv).del
          BY <1>0, <2>3, <5>3, <5>4, DiffCompletes
        <5>6. x.u = Diff(doc, sv)
          BY <3>1, <5>1
        <5> QED
          BY <5>2, <5>5, <5>6 DEF Brings
      <4> QED
        BY <4>7, <4>8
    <3> QED
      BY <3>4, <3>5
  <2> QED
    BY <1>2, <2>5, <2>6
<1>3. ASSUME NEW c \in Pages, ApplyUpdate(c) PROVE Handshake(k)' /\ Remembered(k)'
  <2>1. PICK u, m : u = Head(up[c]).u /\ m = [type |-> "update", u |-> u]
    OBVIOUS
  <2>2. Applies(c, u) /\ Carries(Head(up[c])) /\ Take(c, Head(up[c]).type)
    BY <1>0, <1>3, <2>1, ApplyEffect
  <2>3. /\ up[c] \in Seq(Sent(made)) /\ up[c] # <<>> /\ up'[c] = Tail(up[c])
        /\ \A j \in Pages : j # c => up'[j] = up[j]
    BY <1>0, <2>2, TakeTypes
  <2>4. down'[k] \in {down[k], Append(down[k], m)} /\ u \in MadeDocs(made)
    BY <2>1, <2>2 DEF Applies
  <2>5. m \in Sent(made) /\ m.type = "update"
    BY <1>0, <2>1, <2>4, MessageTypes
  <2>6. Receives(k)' <=> Receives(k)
    BY <1>3 DEF ApplyUpdate, Receives
  <2>7. down[k] \in Seq(Sent(made))
    BY <1>t
  <2>8. /\ \A x \in Msgs(down'[k]) : x \in Msgs(down[k]) \/ x = m
        /\ Once(down[k], "init") => Once(down'[k], "init")
    <3>1. CASE down'[k] = down[k]
      BY <3>1
    <3>2. CASE down'[k] = Append(down[k], m)
      <4>1. Msgs(Append(down[k], m)) = Msgs(down[k]) \cup {m}
            /\ (Once(down[k], "init") => Once(Append(down[k], m), "init"))
        BY <2>5, <2>7, Appended
      <4> QED
        BY <3>2, <4>1
    <3> QED
      BY <2>4, <3>1, <3>2
  <2>9. \A ty \in {"init", "diff"} : Has(down'[k], ty) => Has(down[k], ty)
    BY <2>5, <2>8 DEF Has
  <2>10. /\ Once(up[k], "vector") => Once(up'[k], "vector")
         /\ Has(up'[k], "vector") => Has(up[k], "vector")
    <3>1. CASE k = c
      BY <2>3, <3>1, Taken DEF Has
    <3>2. CASE k # c
      BY <2>3, <3>2
    <3> QED
      BY <3>1, <3>2
  <2>11. Handshake(k)'
    BY <1>0, <2>6, <2>8, <2>9, <2>10, HandshakeKept
  <2>12. answer'[k] = answer[k]
    <3>1. CASE k = c
      <4>1. Head(up[k]).type # "vector"
        BY <2>2, <3>1 DEF Carries
      <4> QED
        BY <1>0, <4>1 DEF Noted
    <3>2. CASE k # c
      BY <1>0, <2>3, <3>2, NotedOnce
    <3> QED
      BY <3>1, <3>2
  <2>13. Remembered(k)'
    BY <1>0, <2>5, <2>6, <2>8, <2>12, RememberedKept, WithinSelf
  <2> QED
    BY <2>11, <2>13
<1>4. ASSUME NEW c \in Pages, Close(c) \/ Cut(c) PROVE Handshake(k)' /\ Remembered(k)'
  <2>1. /\ sock' = [sock EXCEPT ![c] = "gone"] \/ sock' = [sock EXCEPT ![c] = "waiting"]
        /\ up' \in {up, [up EXCEPT ![c] = <<>>]} /\ down' \in {down, [down EXCEPT ![c] = <<>>]}
    BY <1>4 DEF Close, Cut
  <2>2. CASE k = c
    <3>1. sock'[k] \in {"gone", "waiting"}
      BY <1>t, <2>1, <2>2
    <3> QED
      BY <3>1 DEF Handshake, Remembered, Receives
  <2>3. CASE k # c
    <3>1. sock'[k] = sock[k] /\ up'[k] = up[k] /\ down'[k] = down[k]
      BY <1>t, <2>1, <2>3
    <3> QED
      BY <1>0, <3>1, RelayLeaves DEF Receives
  <2> QED
    BY <2>2, <2>3
<1>5. CASE CloseGhost \/ Touch \/ Persist \/ SaveLands \/ SaveFails \/ AlarmReads
             \/ AlarmDecides \/ DayPasses
  <2>1. UNCHANGED <<conns, sock, up, down>>
    BY <1>0, <1>5, StatementTypes DEF linkVars
  <2> QED
    BY <1>0, <2>1, RelayLeaves DEF Receives
<1>6. CASE AlarmDeletes
  BY <1>0, <1>6, RelayLeaves DEF AlarmDeletes, Receives
<1>7. CASE Evict
  <2>1. sock'[k] \notin {"accepted", "open"}
    <3>1. sock' = [j \in Pages |-> Dropped(sock[j])]
      BY <1>7, Zenon DEF Evict, Dropped, Receives
    <3>2. \A s \in Socks : Dropped(s) \notin {"accepted", "open"}
      BY DEF Dropped, Socks
    <3> QED
      BY <1>t, <3>1, <3>2
  <2> QED
    BY <2>1 DEF Handshake, Remembered, Receives
<1> QED
  BY <1>1, <1>2, <1>3, <1>4, <1>5, <1>6, <1>7 DEF Relay, RelayStep

LEMMA SeedInvKept ==
  ASSUME SeedInv, [Next]_vars
  PROVE  SeedInv'
<1>1. LinkInv'
  BY LinksKept DEF SeedInv
<1>2. ASSUME NEW k \in Pages PROVE Handshake(k)' /\ Remembered(k)'
  <2>1. CASE Relay
    BY <2>1, RelayHandshakes
  <2>2. ASSUME NEW c \in Pages,
               Start(c) \/ Open(c) \/ Retry(c) \/ Deliver(c) \/ Bind(c) \/ User(c)
        PROVE  Handshake(k)' /\ Remembered(k)'
    BY <2>2, PageHandshakes
  <2>3. CASE UNCHANGED vars
    <3>1. UNCHANGED <<sock, up, down, pdoc, phase, answer>>
      BY <2>3 DEF vars, relayVars, pageVars
    <3>2. Handshake(k) /\ Remembered(k)
      BY DEF SeedInv
    <3> QED
      BY <3>1, <3>2, HandshakeKept, RememberedKept, WithinSelf DEF Receives
  <2> QED
    BY <2>1, <2>2, <2>3 DEF Next
<1> QED
  BY <1>1, <1>2 DEF SeedInv

\* What a seeding page has not seen deleted was not in the answer.
LEMMA SeedsOverNothing ==
  ASSUME SeedInv, NEW c \in Pages, PageDiff(c), phase[c] = "solo",
         NEW n \in DOMAIN made'[c] \ DOMAIN made[c]
  PROVE  Live([doc |-> answer[c], made |-> made], made'[c][n].field) \subseteq pdoc'[c].del
<1>0. /\ TypeInv /\ Linked(c) /\ Remembered(c) /\ made \in Shapes
  BY DEF SeedInv, LinkInv, TypeInv, PageTypes
<1>1. Receive(c, "diff") /\ Done(c, Answered(c))
  BY DEF PageDiff
<1>2. /\ Head(down[c]) \in Sent(made) /\ Head(down[c]).type = "diff"
      /\ down[c] \in Seq(Sent(made)) /\ down[c] # <<>> /\ sock[c] = "open"
  BY <1>0, <1>1, ReceiveTypes
<1>3. PICK u, D, t : u = Head(down[c]).u /\ D = Merge(pdoc[c], u) /\ t = Applied(c)
  OBVIOUS
<1>4. u \in MadeDocs(made)
  BY <1>0, <1>2, <1>3, Tagged DEF Carries
<1>5. TurnOK(t, c, D, made) /\ t.doc = D /\ t.made = made
  BY <1>0, <1>3, <1>4, AppliedOK
<1>6. PICK s : s = Seed(t)
  OBVIOUS
<1>7. TurnOK(s, c, D, made) /\ Seeded(t, s, c)
  BY <1>5, <1>6, SeedOK
<1>8. Done(c, s)
  BY <1>1, <1>3, <1>6 DEF Answered
<1>9. pdoc'[c] = s.doc /\ made' = s.made
  BY <1>0, <1>7, <1>8, TurnSeen
<1>10. n \in 1..Len(s.made[c]) /\ n \notin 1..Len(t.made[c])
  <2>1. s.made \in Shapes
    BY <1>7, TurnParts
  <2>2. s.made[c] \in Seq(Field) /\ made[c] \in Seq(Field)
    BY <1>0, <2>1, LenOfShape
  <2>3. DOMAIN s.made[c] = 1..Len(s.made[c]) /\ DOMAIN made[c] = 1..Len(made[c])
    BY <2>2, LenProperties
  <2> QED
    BY <1>5, <1>9, <2>3
<1>11. PICK f : f = s.made[c][n].field
  OBVIOUS
<1>12. Live(t, f) = {} /\ s.doc.del = t.doc.del
  BY <1>7, <1>10, <1>11 DEF Seeded
<1>13. Head(down[c]) \in Msgs(down[c])
  BY <1>2, Taken
<1>14. Brings(answer[c], pdoc[c], u)
  BY <1>0, <1>2, <1>3, <1>13 DEF Remembered, Receives
<1>15. answer[c].ins \subseteq D.ins
  BY <1>3, <1>14 DEF Brings, Merge
<1>16. PICK a : a = [doc |-> answer[c], made |-> made]
  OBVIOUS
<1>17. ASSUME NEW i \in Live(a, f) PROVE i \in t.doc.del
  <2>1. i \in Integrated(answer[c]) /\ made[i[1]][i[2]].field = f
    BY <1>16 DEF Live
  <2>2. i \in Integrated(t.doc)
    BY <1>5, <1>15, <2>1 DEF Integrated
  <2>3. t.made[i[1]][i[2]].field = f
    BY <1>5, <2>1
  <2> QED
    BY <1>12, <2>2, <2>3 DEF Live
<1> QED
  BY <1>9, <1>11, <1>12, <1>16, <1>17

\* A page seeds a field only when nothing that the relay had in it, when it answered
\* the page, is left that the page does not know to be deleted: for any pages and
\* opening workspaces, and whatever was cut, evicted or forgotten.
\* (liveSyncProvider.ts step 0x02 and "synced", seedDoc)
THEOREM SeedsOnlyIfEmpty == Spec => SeedOnlyIfEmpty
<1>1. Init => SeedInv
  <2> SUFFICES ASSUME Init PROVE SeedInv
    OBVIOUS
  <2>1. TypeInv
    BY TypesInitially
  <2>2. \A c \in Pages : Linked(c) /\ Handshake(c) /\ Remembered(c)
    BY DEF Init, RelayInit, Linked, Handshake, Remembered, Receives
  <2> QED
    BY <2>1, <2>2 DEF SeedInv, LinkInv
<1>2. SeedInv /\ [Next]_vars => SeedInv'
  BY SeedInvKept
<1>3. SeedInv /\ [Next]_vars =>
        [\A c \in Pages : phase[c] = "solo" /\ phase'[c] = "synced" =>
           \A n \in DOMAIN made'[c] \ DOMAIN made[c] :
             Live([doc |-> answer[c], made |-> made], made'[c][n].field) \subseteq pdoc'[c].del]_vars
  <2> SUFFICES ASSUME SeedInv, Next, NEW c \in Pages, phase[c] = "solo", phase'[c] = "synced",
                      NEW n \in DOMAIN made'[c] \ DOMAIN made[c]
               PROVE  Live([doc |-> answer[c], made |-> made], made'[c][n].field) \subseteq pdoc'[c].del
    OBVIOUS
  <2>1. phase \in [Pages -> {"solo", "synced", "bound", "left"}]
    BY DEF SeedInv, LinkInv, TypeInv, PageTypes
  <2>2. ~ Relay
    BY DEF Relay, Noted, pageVars
  <2>3. PICK k \in Pages :
          Start(k) \/ Open(k) \/ Retry(k) \/ Deliver(k) \/ Bind(k) \/ User(k)
    BY <2>2 DEF Next
  <2>4. PageDiff(k) /\ k = c
    <3>1. ~ (Start(k) \/ Open(k) \/ Retry(k) \/ Leave(k) \/ PageInit(k) \/ PageVector(k)
             \/ PageUpdate(k))
      BY <2>1 DEF Start, Open, Retry, Leave, PageInit, PageVector, PageUpdate, pageVars
    <3>2. ~ OwnTurnActions(k)
      BY <2>1 DEF OwnTurnActions, Bind, AddTab, Type, TypeSolo, RemoveTab, Act
    <3>3. PageDiff(k)
      BY <2>3, <3>1, <3>2, PageSteps
    <3> QED
      BY <2>1, <3>3 DEF PageDiff
  <2> QED
    BY <2>4, SeedsOverNothing
<1> QED
  BY <1>1, <1>2, <1>3, PTL DEF Spec, SeedOnlyIfEmpty
=============================================================================
