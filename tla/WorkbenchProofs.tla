--------------------------- MODULE WorkbenchProofs ---------------------------
(* Tabs, ids and the supergraph on the screen, for any subgraphs, queries,    *)
(* links and files, and any number of operations.                             *)
EXTENDS Workbench, TLAPS

\* No id is used before it is made.
IdsMinted == \A k \in DOMAIN workspaces : workspaces[k].id <= minted

\* A list of tabs that may become the store's once `bound` is made.
ListInv(list, bound) ==
  /\ list \in Seq(Workspace)
  /\ \A k \in 1 .. Len(list) : WellFormed(list[k]) /\ list[k].id <= bound
  /\ \A j, k \in 1 .. Len(list) : list[j].id = list[k].id /\ list[j].id # NoId => j = k

\* What onLogin will commit is one.
LoginInv == login # NoLogin => ListInv(login.merged, minted)

StoreInv ==
  /\ minted \in Nat
  /\ workspaces \in Seq(Workspace)
  /\ TabsValid
  /\ IdsMinted
  /\ IdsUnique

-----------------------------------------------------------------------------
(* Sequences and workspaces *)

LEMMA WithoutIsSeq ==
  ASSUME NEW S, NEW s \in Seq(S), NEW i \in 1 .. Len(s)
  PROVE  /\ Without(s, i) \in Seq(S)
         /\ Len(Without(s, i)) = Len(s) - 1
         /\ \A k \in 1 .. Len(s) - 1 :
              Without(s, i)[k] = IF k < i THEN s[k] ELSE s[k + 1]
<1>1. Len(s) - 1 \in Nat
  OBVIOUS
<1>2. \A k \in 1 .. Len(s) - 1 : (IF k < i THEN s[k] ELSE s[k + 1]) \in S
  OBVIOUS
<1> QED
  BY <1>1, <1>2 DEF Without

LEMMA EntryWellFormed ==
  ASSUME NEW id \in Nat, NEW ref \in Nat, NEW items \in Seq(Sdls), items # <<>>,
         NEW tabs \in Seq(Queries), NEW q \in 1 .. Len(tabs), NEW inputs \in Inputs
  PROVE  /\ WellFormed(Entry(id, Array(ref, items), tabs, q, inputs))
         /\ Entry(id, Array(ref, items), tabs, q, inputs).id = id
<1>1. 1 \in 1 .. Len(items)
  OBVIOUS
<1> QED
  BY <1>1 DEF WellFormed, Workspace, Entry, Array

LEMMA DefaultWellFormed ==
  ASSUME NEW id \in Nat
  PROVE  WellFormed(makeDefaultWorkspace(id)) /\ makeDefaultWorkspace(id).id = id
<1> DEFINE tabs == <<DefaultQuery>>
<1>1. DefaultSubgraphs \in Seq(Sdls) /\ DefaultSubgraphs # <<>> /\ DefaultInputs \in Inputs
  BY StoreAssumption
<1>2. DefaultQuery \in Queries
  BY StoreAssumption
<1>3. tabs \in Seq(Queries) /\ 1 \in 1 .. Len(tabs) /\ 0 \in Nat
  BY <1>2
<1>4. makeDefaultWorkspace(id) = Entry(id, Array(0, DefaultSubgraphs), tabs, 1, DefaultInputs)
  BY DEF makeDefaultWorkspace
<1> HIDE DEF tabs
<1> QED
  BY <1>1, <1>3, <1>4, EntryWellFormed

LEMMA IdIsNat == ASSUME NEW ws, WellFormed(ws) PROVE ws.id \in Nat
  BY DEF WellFormed, Workspace

LEMMA IdsBounded ==
  ASSUME StoreInv
  PROVE  /\ DOMAIN workspaces = 1 .. Len(workspaces)
         /\ \A k \in 1 .. Len(workspaces) :
              /\ WellFormed(workspaces[k])
              /\ workspaces[k].id \in Nat
              /\ workspaces[k].id <= minted
<1>1. DOMAIN workspaces = 1 .. Len(workspaces)
  BY DEF StoreInv
<1>2. \A k \in 1 .. Len(workspaces) : WellFormed(workspaces[k])
  BY <1>1 DEF StoreInv, TabsValid
<1>3. \A k \in 1 .. Len(workspaces) : workspaces[k].id <= minted
  BY <1>1 DEF StoreInv, IdsMinted
<1> QED
  BY <1>1, <1>2, <1>3, IdIsNat

LEMMA ActiveWellFormed ==
  ASSUME StoreInv
  PROVE  /\ activeWorkspaceIndex \in 1 .. Len(workspaces)
         /\ WellFormed(activeWorkspace)
         /\ activeWorkspace.id \in Nat
         /\ activeWorkspace.id <= minted
<1>1. activeWorkspaceIndex \in 1 .. Len(workspaces)
  BY DEF StoreInv, TabsValid
<1> QED
  BY <1>1, IdsBounded DEF activeWorkspace

-----------------------------------------------------------------------------
(* The ways in which the list of workspaces changes *)

LEMMA PatchKeeps ==
  ASSUME StoreInv, NEW i \in 1 .. Len(workspaces), NEW ws, WellFormed(ws),
         ws.id = workspaces[i].id, workspaces' = [workspaces EXCEPT ![i] = ws],
         UNCHANGED activeWorkspaceIndex, minted' \in Nat, minted' >= minted
  PROVE  StoreInv'
<1>1. activeWorkspaceIndex \in 1 .. Len(workspaces) /\ DOMAIN workspaces = 1 .. Len(workspaces)
  BY ActiveWellFormed DEF StoreInv
<1>2. ws \in Workspace
  BY DEF WellFormed
<1>3. /\ workspaces' \in Seq(Workspace) /\ Len(workspaces') = Len(workspaces)
      /\ \A k \in 1 .. Len(workspaces) : workspaces'[k] = IF k = i THEN ws ELSE workspaces[k]
  BY <1>1, <1>2 DEF StoreInv
<1>4. \A k \in 1 .. Len(workspaces) : workspaces'[k].id = workspaces[k].id
  BY <1>3
<1>5. TabsValid'
  BY <1>1, <1>3 DEF StoreInv, TabsValid
<1>6. \A k \in 1 .. Len(workspaces) : workspaces[k].id \in Nat /\ workspaces[k].id <= minted
  BY IdsBounded
<1>7. IdsMinted'
  BY <1>3, <1>4, <1>6 DEF StoreInv, IdsMinted
<1>8. IdsUnique'
  BY <1>3, <1>4, <1>1 DEF StoreInv, IdsUnique, NoId
<1> QED
  BY <1>3, <1>5, <1>7, <1>8 DEF StoreInv

LEMMA EditKeeps ==
  ASSUME StoreInv, NEW ws, WellFormed(ws), ws.id = activeWorkspace.id, updateActive(ws),
         UNCHANGED activeWorkspaceIndex, minted' \in Nat, minted' >= minted
  PROVE  StoreInv' /\ activeWorkspace' = ws
<1>1. activeWorkspaceIndex \in 1 .. Len(workspaces) /\ DOMAIN workspaces = 1 .. Len(workspaces)
  BY ActiveWellFormed DEF StoreInv
<1>2. StoreInv'
  BY <1>1, PatchKeeps DEF updateActive, activeWorkspace
<1>3. activeWorkspace' = ws
  BY <1>1 DEF updateActive, activeWorkspace
<1> QED
  BY <1>2, <1>3

LEMMA OpenKeeps ==
  ASSUME StoreInv, NEW ws, WellFormed(ws), ws.id = NoId \/ ws.id > minted, Appended(ws),
         minted' \in Nat, minted' >= minted, ws.id <= minted'
  PROVE  StoreInv'
<1>1. /\ workspaces \in Seq(Workspace) /\ ws \in Workspace
      /\ DOMAIN workspaces = 1 .. Len(workspaces)
  BY DEF StoreInv, WellFormed
<1>2. /\ workspaces' \in Seq(Workspace) /\ Len(workspaces') = Len(workspaces) + 1
      /\ DOMAIN workspaces' = 1 .. Len(workspaces) + 1
      /\ workspaces'[Len(workspaces) + 1] = ws
      /\ \A k \in 1 .. Len(workspaces) : workspaces'[k] = workspaces[k]
  BY <1>1 DEF Appended
<1>3. TabsValid'
  BY <1>1, <1>2 DEF StoreInv, TabsValid, Appended
<1>4. \A k \in 1 .. Len(workspaces) : workspaces[k].id \in Nat /\ workspaces[k].id <= minted
  BY IdsBounded
<1>5. IdsMinted'
  BY <1>2, <1>4 DEF StoreInv, IdsMinted
<1>6. ws.id \in Nat
  BY <1>1 DEF Workspace
<1>7. IdsUnique'
  <2> SUFFICES ASSUME NEW j \in 1 .. Len(workspaces) + 1, NEW k \in 1 .. Len(workspaces) + 1,
                      workspaces'[j].id = workspaces'[k].id, workspaces'[j].id # NoId
               PROVE  j = k
    BY <1>2 DEF IdsUnique
  <2>1. CASE j \in 1 .. Len(workspaces) /\ k \in 1 .. Len(workspaces)
    BY <2>1, <1>1, <1>2 DEF StoreInv, IdsUnique
  <2>2. CASE j = Len(workspaces) + 1 /\ k \in 1 .. Len(workspaces)
    BY <2>2, <1>2, <1>4, <1>6 DEF StoreInv
  <2>3. CASE k = Len(workspaces) + 1 /\ j \in 1 .. Len(workspaces)
    BY <2>3, <1>2, <1>4, <1>6 DEF StoreInv
  <2>4. CASE j = Len(workspaces) + 1 /\ k = Len(workspaces) + 1
    BY <2>4
  <2> QED
    BY <2>1, <2>2, <2>3, <2>4, <1>1
<1> QED
  BY <1>2, <1>3, <1>5, <1>7 DEF StoreInv

LEMMA ReplaceKeeps ==
  ASSUME NEW ws, WellFormed(ws), workspaces' = <<ws>>, activeWorkspaceIndex' = 1,
         minted' \in Nat, ws.id <= minted'
  PROVE  StoreInv'
<1>1. ws \in Workspace
  BY DEF WellFormed
<1>2. /\ workspaces' \in Seq(Workspace) /\ Len(workspaces') = 1 /\ DOMAIN workspaces' = {1}
      /\ workspaces'[1] = ws
  BY <1>1
<1> QED
  BY <1>2 DEF StoreInv, TabsValid, IdsMinted, IdsUnique

LEMMA RemoveKeeps ==
  ASSUME StoreInv, NEW i \in Workspaces, removeWorkspace(i)
  PROVE  StoreInv'
<1> DEFINE n == Len(workspaces)
<1>1. /\ workspaces \in Seq(Workspace) /\ DOMAIN workspaces = 1 .. n /\ n \in Nat
      /\ i \in 1 .. n /\ minted \in Nat /\ activeWorkspaceIndex \in 1 .. n
  BY DEF StoreInv, TabsValid, Workspaces
<1>2. CASE n = 1
  <2>1. WellFormed(makeDefaultWorkspace(minted + 1)) /\ makeDefaultWorkspace(minted + 1).id = minted + 1
    BY <1>1, DefaultWellFormed
  <2> QED
    BY <1>1, <1>2, <2>1, ReplaceKeeps DEF removeWorkspace
<1>3. CASE n # 1
  <2>1. /\ workspaces' = Without(workspaces, i) /\ minted' = minted
        /\ activeWorkspaceIndex' = AfterRemoval(activeWorkspaceIndex, i, n)
    BY <1>3 DEF removeWorkspace
  <2> DEFINE from(k) == IF k < i THEN k ELSE k + 1
  <2>2. /\ workspaces' \in Seq(Workspace) /\ Len(workspaces') = n - 1
        /\ DOMAIN workspaces' = 1 .. n - 1
        /\ \A k \in 1 .. n - 1 : workspaces'[k] = workspaces[from(k)]
    <3>1. /\ workspaces' \in Seq(Workspace) /\ Len(workspaces') = n - 1
          /\ \A k \in 1 .. n - 1 :
               workspaces'[k] = IF k < i THEN workspaces[k] ELSE workspaces[k + 1]
      BY <1>1, <2>1, WithoutIsSeq
    <3> QED
      BY <3>1
  <2>3. \A j, k \in 1 .. n - 1 : from(j) \in 1 .. n /\ (from(j) = from(k) => j = k)
    BY <1>1
  <2>4. activeWorkspaceIndex' \in 1 .. n - 1
    BY <1>1, <1>3, <2>1 DEF AfterRemoval, Lower
  <2>5. TabsValid'
    <3>1. \A k \in 1 .. n - 1 : WellFormed(workspaces'[k])
      BY <2>2, <2>3, IdsBounded
    <3>2. workspaces' # <<>>
      BY <1>1, <1>3, <2>2
    <3> QED
      BY <2>2, <2>4, <3>1, <3>2 DEF TabsValid
  <2>6. IdsMinted'
    BY <2>1, <2>2, <2>3, IdsBounded DEF IdsMinted
  <2>7. IdsUnique'
    <3> SUFFICES ASSUME NEW j \in 1 .. n - 1, NEW k \in 1 .. n - 1,
                        workspaces'[j].id = workspaces'[k].id, workspaces'[j].id # NoId
                 PROVE  j = k
      BY <2>2 DEF IdsUnique
    <3>1. /\ from(j) \in DOMAIN workspaces /\ from(k) \in DOMAIN workspaces
          /\ workspaces[from(j)].id = workspaces[from(k)].id
          /\ workspaces[from(j)].id # NoId
      BY <1>1, <2>2, <2>3
    <3> HIDE DEF from
    <3>2. from(j) = from(k)
      BY <3>1 DEF StoreInv, IdsUnique
    <3> QED
      BY <2>3, <3>2
  <2> QED
    BY <1>1, <2>1, <2>2, <2>5, <2>6, <2>7 DEF StoreInv
<1> QED
  BY <1>2, <1>3

-----------------------------------------------------------------------------
(* The operations *)

LEMMA Parts ==
  ASSUME NEW ws, WellFormed(ws)
  PROVE  /\ ws \in Workspace
         /\ ws.subgraphs.items \in Seq(Sdls) /\ ws.activeSubgraph \in 1 .. Len(ws.subgraphs.items)
         /\ ws.queryTabs \in Seq(Queries) /\ ws.activeQueryTab \in 1 .. Len(ws.queryTabs)
         /\ ws.subgraphs \in [ref : Nat, items : Seq(Sdls)]
  BY DEF WellFormed, Workspace

\* What keeps a workspace well-formed: other subgraphs, other queries, another
\* id and reference, other tabs shown, other inputs.
WithSubgraphs(ws, ref, items, tab) ==
  [ws EXCEPT !.subgraphs = Array(ref, items), !.activeSubgraph = tab]

WithQueries(ws, tabs, tab) == [ws EXCEPT !.queryTabs = tabs, !.activeQueryTab = tab]

WithId(ws, id, ref) == [ws EXCEPT !.id = id, !.subgraphs.ref = ref]

LEMMA SubgraphsReplaced ==
  ASSUME NEW ws, WellFormed(ws), NEW ref \in Nat, NEW items \in Seq(Sdls),
         NEW tab \in 1 .. Len(items)
  PROVE  /\ WellFormed(WithSubgraphs(ws, ref, items, tab))
         /\ WithSubgraphs(ws, ref, items, tab).id = ws.id
<1> DEFINE new == WithSubgraphs(ws, ref, items, tab)
<1>1. Array(ref, items) \in [ref : Nat, items : Seq(Sdls)] /\ Array(ref, items).items = items
  BY DEF Array
<1>2. ws \in Workspace /\ tab \in Nat
  BY Parts
<1>3. /\ new \in Workspace /\ new.id = ws.id
      /\ new.subgraphs = Array(ref, items) /\ new.activeSubgraph = tab
      /\ new.queryTabs = ws.queryTabs /\ new.activeQueryTab = ws.activeQueryTab
  BY <1>1, <1>2 DEF Workspace, WithSubgraphs
<1> HIDE DEF new
<1>4. WellFormed(new) /\ new.id = ws.id
  BY <1>1, <1>3, Parts DEF WellFormed
<1> QED
  BY <1>4 DEF new

LEMMA QueriesReplaced ==
  ASSUME NEW ws, WellFormed(ws), NEW tabs \in Seq(Queries), NEW tab \in 1 .. Len(tabs)
  PROVE  WellFormed(WithQueries(ws, tabs, tab)) /\ WithQueries(ws, tabs, tab).id = ws.id
<1> DEFINE new == WithQueries(ws, tabs, tab)
<1>1. ws \in Workspace /\ tab \in Nat
  BY Parts
<1>2. /\ new \in Workspace /\ new.id = ws.id
      /\ new.subgraphs = ws.subgraphs /\ new.activeSubgraph = ws.activeSubgraph
      /\ new.queryTabs = tabs /\ new.activeQueryTab = tab
  BY <1>1 DEF Workspace, WithQueries
<1> HIDE DEF new
<1>3. WellFormed(new) /\ new.id = ws.id
  BY <1>2, Parts DEF WellFormed
<1> QED
  BY <1>3 DEF new

LEMMA TabsChosen ==
  ASSUME NEW ws, WellFormed(ws), NEW i \in 1 .. Len(ws.subgraphs.items),
         NEW j \in 1 .. Len(ws.queryTabs), NEW inputs \in Inputs,
         NEW new, \/ new = [ws EXCEPT !.activeSubgraph = i]
                  \/ new = [ws EXCEPT !.activeQueryTab = j]
                  \/ new = [ws EXCEPT !.inputs = inputs]
  PROVE  WellFormed(new) /\ new.id = ws.id
<1>1. ws \in Workspace /\ i \in Nat /\ j \in Nat
  BY Parts
<1>2. /\ new \in Workspace /\ new.id = ws.id
      /\ new.subgraphs = ws.subgraphs /\ new.activeSubgraph \in {ws.activeSubgraph, i}
      /\ new.queryTabs = ws.queryTabs /\ new.activeQueryTab \in {ws.activeQueryTab, j}
  BY <1>1 DEF Workspace
<1> QED
  BY <1>2, Parts DEF WellFormed

LEMMA Renewed ==
  ASSUME NEW ws, WellFormed(ws), NEW id \in Nat, NEW ref \in Nat
  PROVE  WellFormed(WithId(ws, id, ref)) /\ WithId(ws, id, ref).id = id
<1> DEFINE array == [ws.subgraphs EXCEPT !.ref = ref]
           new == WithId(ws, id, ref)
<1>1. ws \in Workspace
  BY Parts
<1>2. array \in [ref : Nat, items : Seq(Sdls)] /\ array.items = ws.subgraphs.items
  BY Parts
<1>3. new = [ws EXCEPT !.id = id, !.subgraphs = array]
  BY <1>1 DEF Workspace, WithId
<1> HIDE DEF array, new
<1>4. /\ new \in Workspace /\ new.id = id
      /\ new.subgraphs = array /\ new.activeSubgraph = ws.activeSubgraph
      /\ new.queryTabs = ws.queryTabs /\ new.activeQueryTab = ws.activeQueryTab
  BY <1>1, <1>2, <1>3 DEF Workspace
<1>5. WellFormed(new) /\ new.id = id
  BY <1>2, <1>4, Parts DEF WellFormed
<1> QED
  BY <1>5 DEF new

LEMMA RewrittenKeeps ==
  ASSUME StoreInv, NEW items \in Seq(Sdls), NEW tab \in 1 .. Len(items),
         Rewritten(items, tab)
  PROVE  StoreInv'
<1> DEFINE ws == WithSubgraphs(activeWorkspace, minted + 1, items, tab)
<1>1. minted \in Nat /\ minted + 1 \in Nat
  BY DEF StoreInv
<1>2. WellFormed(ws) /\ ws.id = activeWorkspace.id
  BY <1>1, ActiveWellFormed, SubgraphsReplaced
<1>3. updateActive(ws) /\ UNCHANGED activeWorkspaceIndex /\ minted' = minted + 1
  BY DEF Rewritten, Untouched, WithSubgraphs
<1> HIDE DEF ws
<1> QED
  BY <1>1, <1>2, <1>3, EditKeeps

LEMMA EditedKeeps ==
  ASSUME StoreInv, NEW ws, WellFormed(ws), ws.id = activeWorkspace.id, Edited(ws)
  PROVE  StoreInv'
<1>1. minted \in Nat /\ minted' = minted
  BY DEF StoreInv, Edited
<1> QED
  BY <1>1, EditKeeps DEF Edited, Untouched

LEMMA SubgraphOpsKeep ==
  ASSUME StoreInv,
         \/ addSubgraph \/ renameSubgraph
         \/ \E i \in DOMAIN activeWorkspace.subgraphs.items :
              removeSubgraph(i) \/ setActiveSubgraph(i)
         \/ \E i \in DOMAIN activeWorkspace.subgraphs.items, sdl \in Sdls :
              setSubgraphSdl(i, sdl)
  PROVE  StoreInv'
<1> DEFINE items == activeWorkspace.subgraphs.items
<1>1. /\ WellFormed(activeWorkspace) /\ items \in Seq(Sdls)
      /\ activeWorkspace.activeSubgraph \in 1 .. Len(items)
      /\ DOMAIN items = 1 .. Len(items) /\ Len(items) \in Nat
  BY ActiveWellFormed, Parts
<1>2. CASE addSubgraph
  <2>1. NewSdl \in Sdls
    BY StoreAssumption
  <2>2. Append(items, NewSdl) \in Seq(Sdls) /\ Len(items) + 1 \in 1 .. Len(Append(items, NewSdl))
    BY <1>1, <2>1
  <2> QED
    BY <1>2, <2>2, RewrittenKeeps DEF addSubgraph
<1>3. CASE renameSubgraph
  BY <1>1, <1>3, RewrittenKeeps DEF renameSubgraph
<1>4. ASSUME NEW i \in DOMAIN items, removeSubgraph(i) PROVE StoreInv'
  <2>1. Len(items) > 1 /\ Rewritten(Without(items, i), AfterSubgraphRemoval(i, Len(items)))
    BY <1>4 DEF removeSubgraph
  <2>2. Without(items, i) \in Seq(Sdls) /\ Len(Without(items, i)) = Len(items) - 1
    BY <1>1, <1>4, WithoutIsSeq
  <2>3. AfterSubgraphRemoval(i, Len(items)) \in 1 .. Len(Without(items, i))
    BY <1>1, <1>4, <2>1, <2>2 DEF AfterSubgraphRemoval, Lower
  <2> QED
    BY <2>1, <2>2, <2>3, RewrittenKeeps
<1>5. ASSUME NEW i \in DOMAIN items, setActiveSubgraph(i) PROVE StoreInv'
  <2>1. PICK new : new = [activeWorkspace EXCEPT !.activeSubgraph = i]
    OBVIOUS
  <2>2. PICK j, inputs : j \in 1 .. Len(activeWorkspace.queryTabs) /\ inputs \in Inputs
    BY <1>1, Parts, StoreAssumption
  <2>3. WellFormed(new) /\ new.id = activeWorkspace.id
    BY <1>1, <1>5, <2>1, <2>2, TabsChosen
  <2> QED
    BY <1>5, <2>1, <2>3, EditedKeeps DEF setActiveSubgraph
<1>6. ASSUME NEW i \in DOMAIN items, NEW sdl \in Sdls, setSubgraphSdl(i, sdl)
      PROVE  StoreInv'
  <2>1. [items EXCEPT ![i] = sdl] \in Seq(Sdls) /\ Len([items EXCEPT ![i] = sdl]) = Len(items)
    BY <1>1
  <2> QED
    BY <1>1, <1>6, <2>1, RewrittenKeeps DEF setSubgraphSdl
<1> QED
  BY <1>2, <1>3, <1>4, <1>5, <1>6

LEMMA QueryOpsKeep ==
  ASSUME StoreInv,
         \/ addQueryTab \/ resetToDefaults
         \/ \E i \in DOMAIN activeWorkspace.queryTabs : removeQueryTab(i) \/ setActiveQueryTab(i)
         \/ \E i \in DOMAIN activeWorkspace.queryTabs, query \in Queries :
              setQueryTabQuery(i, query)
         \/ \E inputs \in Inputs : setInputs(inputs)
  PROVE  StoreInv'
<1>1. PICK ws : ws = activeWorkspace
  OBVIOUS
<1>2. PICK tabs : tabs = ws.queryTabs
  OBVIOUS
<1>3. PICK n : n = Len(tabs)
  OBVIOUS
<1>4. /\ WellFormed(ws) /\ ws \in Workspace /\ tabs \in Seq(Queries)
      /\ ws.activeQueryTab \in 1 .. n /\ DOMAIN tabs = 1 .. n /\ n \in Nat
      /\ ws.id \in Nat /\ ws.activeSubgraph \in 1 .. Len(ws.subgraphs.items)
  <2>1. WellFormed(ws)
    BY <1>1, ActiveWellFormed
  <2> QED
    BY <1>2, <1>3, <2>1, Parts, IdIsNat
<1>5. NoText \in Queries /\ DefaultInputs \in Inputs
  BY StoreAssumption
<1>6. ASSUME NEW new \in Seq(Queries), NEW tab \in 1 .. Len(new),
             Edited([ws EXCEPT !.queryTabs = new, !.activeQueryTab = tab])
      PROVE  StoreInv'
  <2>1. Edited(WithQueries(ws, new, tab))
    BY <1>6 DEF WithQueries
  <2>2. WellFormed(WithQueries(ws, new, tab)) /\ WithQueries(ws, new, tab).id = ws.id
    BY <1>4, <1>6, QueriesReplaced
  <2> QED
    BY <1>1, <2>1, <2>2, EditedKeeps
<1>7. CASE addQueryTab
  <2>1. PICK new : new = Append(tabs, NoText)
    OBVIOUS
  <2>2. new \in Seq(Queries) /\ Len(new) = n + 1
    BY <1>3, <1>4, <1>5, <2>1
  <2>3. Edited([ws EXCEPT !.queryTabs = new, !.activeQueryTab = n + 1])
    BY <1>1, <1>2, <1>3, <1>4, <1>7, <2>1 DEF addQueryTab, Workspace
  <2>4. n + 1 \in 1 .. Len(new)
    BY <1>4, <2>2
  <2> QED
    BY <1>6, <2>2, <2>3, <2>4
<1>8. CASE resetToDefaults
  BY <1>1, <1>4, <1>8, DefaultWellFormed, EditedKeeps DEF resetToDefaults
<1>9. ASSUME NEW i \in DOMAIN tabs, removeQueryTab(i) PROVE StoreInv'
  <2>1. CASE n = 1
    <3>1. PICK new : new = <<NoText>>
      OBVIOUS
    <3>2. new \in Seq(Queries) /\ 1 \in 1 .. Len(new)
      BY <1>5, <3>1
    <3>3. Edited([ws EXCEPT !.queryTabs = new, !.activeQueryTab = 1])
      BY <1>1, <1>2, <1>3, <1>9, <2>1, <3>1 DEF removeQueryTab
    <3> QED
      BY <1>6, <3>2, <3>3
  <2>2. CASE n # 1
    <3>1. PICK new, tab : new = Without(tabs, i) /\ tab = AfterQueryRemoval(ws.activeQueryTab, i, n)
      OBVIOUS
    <3>2. new \in Seq(Queries) /\ Len(new) = n - 1
      BY <1>3, <1>4, <1>9, <3>1, WithoutIsSeq
    <3>3. tab \in 1 .. Len(new)
      <4>1. PICK active : active = ws.activeQueryTab
        OBVIOUS
      <4>2. active \in 1 .. n /\ i \in 1 .. n /\ n \in Nat
        BY <1>4, <1>9, <4>1
      <4>3. tab = AfterQueryRemoval(active, i, n)
        BY <3>1, <4>1
      <4> QED
        BY <2>2, <3>2, <4>2, <4>3 DEF AfterQueryRemoval, Lower
    <3>4. Edited([ws EXCEPT !.queryTabs = new, !.activeQueryTab = tab])
      BY <1>1, <1>2, <1>3, <1>4, <1>9, <2>2, <3>1 DEF removeQueryTab, Workspace
    <3> QED
      BY <1>6, <3>2, <3>3, <3>4
  <2> QED
    BY <2>1, <2>2
<1>10. ASSUME NEW new, NEW i \in DOMAIN tabs, NEW inputs \in Inputs, Edited(new),
              \/ new = [ws EXCEPT !.activeQueryTab = i]
              \/ new = [ws EXCEPT !.inputs = inputs]
       PROVE  StoreInv'
  <2>1. WellFormed(new) /\ new.id = ws.id
    BY <1>2, <1>4, <1>10, TabsChosen
  <2> QED
    BY <1>1, <1>10, <2>1, EditedKeeps
<1>11. ASSUME NEW i \in DOMAIN tabs, setActiveQueryTab(i) PROVE StoreInv'
  BY <1>1, <1>5, <1>10, <1>11 DEF setActiveQueryTab
<1>12. ASSUME NEW inputs \in Inputs, setInputs(inputs) PROVE StoreInv'
  <2>1. PICK i : i \in DOMAIN tabs
    BY <1>4
  <2> QED
    BY <1>1, <1>10, <1>12, <2>1 DEF setInputs
<1>13. ASSUME NEW i \in DOMAIN tabs, NEW query \in Queries, setQueryTabQuery(i, query)
      PROVE  StoreInv'
  <2>1. PICK new : new = [tabs EXCEPT ![i] = query]
    OBVIOUS
  <2>2. new \in Seq(Queries) /\ Len(new) = n
    BY <1>3, <1>4, <1>13, <2>1
  <2>3. [ws EXCEPT !.queryTabs[i] = query]
          = [ws EXCEPT !.queryTabs = new, !.activeQueryTab = ws.activeQueryTab]
    BY <1>2, <1>4, <2>1 DEF Workspace
  <2> QED
    BY <1>1, <1>4, <1>6, <1>13, <2>2, <2>3 DEF setQueryTabQuery
<1> QED
  BY <1>1, <1>2, <1>7, <1>8, <1>9, <1>11, <1>12, <1>13

LEMMA WorkspaceOpsKeep ==
  ASSUME StoreInv,
         \/ addWorkspace \/ cloneWorkspace
         \/ \E i \in Workspaces : removeWorkspace(i) \/ setActiveWorkspace(i)
         \/ \E entry \in Shared : doImport(entry) \/ restore(entry)
         \/ join \/ reload
  PROVE  StoreInv'
<1>1. /\ minted \in Nat /\ minted + 1 \in Nat /\ minted + 2 \in Nat /\ NoId \in Nat
      /\ WellFormed(activeWorkspace)
  BY ActiveWellFormed DEF StoreInv, NoId
<1>2. CASE addWorkspace
  <2>1. WellFormed(makeDefaultWorkspace(minted + 1)) /\ makeDefaultWorkspace(minted + 1).id = minted + 1
    BY <1>1, DefaultWellFormed
  <2> QED
    BY <1>1, <1>2, <2>1, OpenKeeps DEF addWorkspace, Opened
<1>3. ASSUME NEW ws, WellFormed(ws),
             Appended([ws EXCEPT !.id = minted + 1, !.subgraphs.ref = minted + 2]),
             minted' = minted + 2
      PROVE  StoreInv'
  <2> DEFINE new == WithId(ws, minted + 1, minted + 2)
  <2>1. WellFormed(new) /\ new.id = minted + 1
    BY <1>1, <1>3, Renewed
  <2>2. Appended(new)
    BY <1>3 DEF WithId
  <2> HIDE DEF new
  <2> QED
    BY <1>1, <1>3, <2>1, <2>2, OpenKeeps
<1>4. CASE cloneWorkspace
  BY <1>1, <1>3, <1>4 DEF cloneWorkspace, Clone, Opened
<1>5. ASSUME NEW entry \in Shared, doImport(entry) PROVE StoreInv'
  BY <1>3, <1>5, StoreAssumption DEF doImport, Opened
<1>6. ASSUME NEW i \in Workspaces, removeWorkspace(i) PROVE StoreInv'
  BY <1>6, RemoveKeeps
<1>7. ASSUME NEW i \in Workspaces, setActiveWorkspace(i) PROVE StoreInv'
  BY <1>7, IdsBounded DEF setActiveWorkspace, Workspaces, StoreInv, TabsValid, IdsMinted, IdsUnique
<1>8. ASSUME NEW entry \in Shared, restore(entry) PROVE StoreInv'
  <2> DEFINE new == [entry EXCEPT !.id = NoId, !.subgraphs.ref = minted + 1,
                                  !.activeSubgraph = 1]
  <2>1. WellFormed(entry) /\ 1 \in 1 .. Len(entry.subgraphs.items)
    <3>1. WellFormed(entry)
      BY <1>8, StoreAssumption
    <3> QED
      BY <3>1, Parts
  <2>2. WellFormed(new) /\ new.id = NoId
    BY <1>1, <2>1 DEF WellFormed, Workspace
  <2>3. /\ \/ workspaces' = <<new>> /\ activeWorkspaceIndex' = 1
           \/ Appended(new)
        /\ minted' = minted + 1
    BY <1>8 DEF restore, Opened
  <2> HIDE DEF new
  <2>4. new.id <= minted' /\ minted' \in Nat /\ minted' >= minted
    BY <1>1, <2>2, <2>3 DEF NoId
  <2> QED
    BY <2>2, <2>3, <2>4, ReplaceKeeps, OpenKeeps
<1>9. CASE join
  <2> DEFINE items == <<NoText>>
             new == Entry(minted + 1, Array(minted + 2, items), items, 1, DefaultInputs)
  <2>1. NoText \in Sdls /\ NoText \in Queries /\ DefaultInputs \in Inputs
    BY StoreAssumption
  <2>2. items \in Seq(Sdls) /\ items \in Seq(Queries) /\ items # <<>> /\ 1 \in 1 .. Len(items)
    BY <2>1
  <2>3. workspaces' = <<new>> /\ activeWorkspaceIndex' = 1 /\ minted' = minted + 2
    BY <1>9 DEF join
  <2> HIDE DEF items
  <2>4. WellFormed(new) /\ new.id = minted + 1
    BY <1>1, <2>1, <2>2, EntryWellFormed
  <2> HIDE DEF new
  <2> QED
    BY <1>1, <2>3, <2>4, ReplaceKeeps
<1>10. CASE reload
  <2> DEFINE n == Len(workspaces)
  <2>1. /\ workspaces' = [k \in 1 .. n |-> [workspaces[k] EXCEPT !.subgraphs.ref = minted + k]]
        /\ minted' = minted + n /\ n \in Nat /\ activeWorkspaceIndex' = activeWorkspaceIndex
    BY <1>10, IdsBounded DEF reload, StoreInv
  <2>2. \A k \in 1 .. n : /\ WellFormed(workspaces'[k]) /\ workspaces'[k] \in Workspace
                           /\ workspaces'[k].id = workspaces[k].id
    <3> SUFFICES ASSUME NEW k \in 1 .. n
                 PROVE  /\ WellFormed(workspaces'[k]) /\ workspaces'[k] \in Workspace
                        /\ workspaces'[k].id = workspaces[k].id
      OBVIOUS
    <3>1. WellFormed(workspaces[k]) /\ minted + k \in Nat
      BY <1>1, IdsBounded
    <3>2. workspaces'[k] = [workspaces[k] EXCEPT !.subgraphs.ref = minted + k]
      BY <2>1
    <3> QED
      BY <3>1, <3>2 DEF WellFormed, Workspace
  <2>3. /\ workspaces' \in Seq(Workspace) /\ Len(workspaces') = n /\ DOMAIN workspaces' = 1 .. n
    <3>1. workspaces' \in [1 .. n -> Workspace]
      BY <2>1, <2>2
    <3> QED
      BY <2>1, <3>1
  <2>4. TabsValid'
    BY <2>1, <2>2, <2>3 DEF StoreInv, TabsValid
  <2>5. IdsMinted'
    <3> SUFFICES ASSUME NEW k \in 1 .. n PROVE workspaces'[k].id <= minted'
      BY <2>3 DEF IdsMinted
    <3>1. workspaces'[k].id = workspaces[k].id
      BY <2>2
    <3>2. workspaces[k].id \in Nat /\ workspaces[k].id <= minted
      BY IdsBounded
    <3> QED
      BY <1>1, <2>1, <3>1, <3>2
  <2>6. IdsUnique'
    BY <2>2, <2>3, IdsBounded DEF StoreInv, IdsUnique, NoId
  <2> QED
    BY <1>1, <2>1, <2>3, <2>4, <2>5, <2>6 DEF StoreInv
<1> QED
  BY <1>2, <1>4, <1>5, <1>6, <1>7, <1>8, <1>9, <1>10

-----------------------------------------------------------------------------
(* Merges of the sync engine and patches of a live session *)

LEMMA RowWellFormed ==
  ASSUME NEW row, WellFormed(row), NEW id \in Nat, NEW ref \in Nat, NEW tab \in Nat, tab >= 1
  PROVE  WellFormed(rowToEntry(row, id, ref, tab)) /\ rowToEntry(row, id, ref, tab).id = id
<1> DEFINE items == row.subgraphs.items
           new == WithId(row, id, ref)
<1>1. /\ row \in Workspace /\ items \in Seq(Sdls) /\ Len(items) \in Nat /\ Len(items) >= 1
      /\ row.activeQueryTab \in 1 .. Len(row.queryTabs)
  BY Parts
<1>2. PICK i : i = Lower(tab, Len(items))
  OBVIOUS
<1>3. i \in 1 .. Len(items)
  BY <1>1, <1>2 DEF Lower
<1>4. WellFormed(new) /\ new.id = id
  BY Renewed
<1>5. /\ new \in Workspace /\ new.subgraphs.items = items /\ new.queryTabs = row.queryTabs
      /\ rowToEntry(row, id, ref, tab) = [new EXCEPT !.activeSubgraph = i]
  BY <1>1, <1>2 DEF WithId, rowToEntry, Workspace
<1>6. PICK inputs : inputs \in Inputs
  BY StoreAssumption
<1> HIDE DEF new, items
<1>7. i \in 1 .. Len(new.subgraphs.items) /\ row.activeQueryTab \in 1 .. Len(new.queryTabs)
  BY <1>1, <1>3, <1>5
<1> QED
  BY <1>4, <1>5, <1>6, <1>7, TabsChosen

LEMMA MergedIsList ==
  ASSUME StoreInv, Len(workspaces) \in DOMAIN Selections,
         NEW kept \in Selections[Len(workspaces)], Mergeable(kept),
         NEW won, \A i \in DOMAIN won : WellFormed(won[i]),
         NEW news \in Seq(Shared)
  PROVE  ListInv(Merged(kept, won, news), minted + 1 + Len(kept) + Len(news))
<1> DEFINE list == Merged(kept, won, news)
<1>1. PICK n, m, p : n = Len(workspaces) /\ m = Len(kept) /\ p = Len(news)
  OBVIOUS
<1>2. /\ kept \in Seq(1 .. n)
      /\ \A j, k \in DOMAIN kept : j < k => kept[j] < kept[k]
  BY <1>1, StoreAssumption
<1>3. n \in Nat /\ m \in Nat /\ p \in Nat /\ minted \in Nat /\ DOMAIN kept = 1 .. m
  BY <1>1, <1>2 DEF StoreInv
<1>4. \A k \in 1 .. m : kept[k] \in 1 .. n
  BY <1>2, <1>3
<1>5. /\ DOMAIN list = 1 .. m + p
      /\ \A k \in 1 .. m :
           list[k] = LET ws == workspaces[kept[k]]
                     IN IF kept[k] \in DOMAIN won
                        THEN rowToEntry(won[kept[k]], ws.id, minted + k, ws.activeSubgraph)
                        ELSE ws
      /\ \A k \in m + 1 .. m + p :
           list[k] = rowToEntry(news[k - m], minted + k, minted + k, 1)
  BY <1>1, <1>3 DEF Merged
<1> HIDE DEF list
<1>6. ASSUME NEW k \in 1 .. m
      PROVE  WellFormed(list[k]) /\ list[k].id = workspaces[kept[k]].id
  <2>1. PICK ws : ws = workspaces[kept[k]]
    OBVIOUS
  <2>2. WellFormed(ws) /\ ws.id \in Nat
    BY <1>1, <1>4, <1>6, <2>1, IdsBounded
  <2>3. ws.activeSubgraph \in Nat /\ ws.activeSubgraph >= 1 /\ minted + k \in Nat
    BY <1>3, <1>6, <2>2, Parts
  <2>4. CASE kept[k] \in DOMAIN won
    <3>1. PICK row : row = won[kept[k]] /\ WellFormed(row)
      BY <2>4
    <3>2. list[k] = rowToEntry(row, ws.id, minted + k, ws.activeSubgraph)
      BY <1>5, <1>6, <2>1, <2>4, <3>1
    <3>3. PICK tab : tab = ws.activeSubgraph
      OBVIOUS
    <3>4. PICK id, ref : id = ws.id /\ ref = minted + k
      OBVIOUS
    <3>5. id \in Nat /\ ref \in Nat /\ tab \in Nat /\ tab >= 1
      BY <2>2, <2>3, <3>3, <3>4
    <3>6. WellFormed(rowToEntry(row, id, ref, tab)) /\ rowToEntry(row, id, ref, tab).id = id
      BY <3>1, <3>5, RowWellFormed
    <3> QED
      BY <2>1, <3>2, <3>3, <3>4, <3>6
  <2>5. CASE kept[k] \notin DOMAIN won
    BY <1>5, <1>6, <2>1, <2>2, <2>5
  <2> QED
    BY <2>4, <2>5
<1>7. ASSUME NEW k \in m + 1 .. m + p
      PROVE  WellFormed(list[k]) /\ list[k].id = minted + k
  <2>1. PICK row : row = news[k - m] /\ WellFormed(row)
    BY <1>1, <1>3, <1>7, StoreAssumption
  <2>2. list[k] = rowToEntry(row, minted + k, minted + k, 1)
    BY <1>5, <1>7, <2>1
  <2>3. minted + k \in Nat /\ 1 \in Nat /\ 1 >= 1
    BY <1>3, <1>7
  <2> QED
    BY <2>1, <2>2, <2>3, RowWellFormed
<1>8. \A k \in 1 .. m + p : k \in 1 .. m \/ k \in m + 1 .. m + p
  BY <1>3
<1>9. list \in Seq(Workspace) /\ Len(list) = m + p
  <2>1. \A k \in 1 .. m + p : list[k] \in Workspace
    BY <1>6, <1>7, <1>8, Parts
  <2>2. list = [k \in 1 .. m + p |-> list[k]]
    <3>1. list = [k \in DOMAIN list |-> list[k]]
      BY DEF list, Merged
    <3> QED
      BY <1>5, <3>1
  <2>3. PICK l : l = m + p /\ l \in Nat
    BY <1>3
  <2>4. list \in [1 .. l -> Workspace]
    BY <2>1, <2>2, <2>3
  <2> QED
    BY <2>3, <2>4
<1>10. \A k \in 1 .. m : workspaces[kept[k]].id \in Nat /\ workspaces[kept[k]].id <= minted
  BY <1>1, <1>4, IdsBounded
<1>11. \A k \in 1 .. m + p : WellFormed(list[k]) /\ list[k].id <= minted + 1 + m + p
  <2> SUFFICES ASSUME NEW k \in 1 .. m + p
               PROVE  WellFormed(list[k]) /\ list[k].id <= minted + 1 + m + p
    OBVIOUS
  <2>1. CASE k \in 1 .. m
    <3>1. PICK id : id = list[k].id
      OBVIOUS
    <3>2. WellFormed(list[k]) /\ id \in Nat /\ id <= minted
      BY <1>6, <1>10, <2>1, <3>1
    <3> QED
      BY <1>3, <3>1, <3>2
  <2>2. CASE k \in m + 1 .. m + p
    BY <1>3, <1>7, <2>2
  <2> QED
    BY <1>8, <2>1, <2>2
<1>12. ASSUME NEW j \in 1 .. m + p, NEW k \in 1 .. m + p, list[j].id = list[k].id,
              list[j].id # NoId
       PROVE  j = k
  <2>1. CASE j \in 1 .. m /\ k \in 1 .. m
    <3>1. kept[j] = kept[k]
      BY <1>1, <1>4, <1>6, <1>12, <2>1, IdsBounded DEF StoreInv, IdsUnique
    <3>2. kept[j] \in Nat /\ j \in Nat /\ k \in Nat
      BY <1>3, <1>4, <2>1
    <3>3. /\ j < k => kept[j] < kept[k]
          /\ k < j => kept[k] < kept[j]
      BY <1>2, <1>3, <2>1
    <3> QED
      BY <3>1, <3>2, <3>3
  <2>2. CASE j \in m + 1 .. m + p /\ k \in m + 1 .. m + p
    BY <1>3, <1>7, <1>12, <2>2
  <2>3. CASE j \in 1 .. m /\ k \in m + 1 .. m + p
    <3>1. list[j].id \in Nat /\ list[j].id <= minted
      BY <1>6, <1>10, <2>3
    <3>2. list[k].id = minted + k /\ k \in Nat /\ k > 0
      BY <1>3, <1>7, <2>3
    <3> QED
      BY <1>3, <1>12, <3>1, <3>2
  <2>4. CASE k \in 1 .. m /\ j \in m + 1 .. m + p
    <3>1. list[k].id \in Nat /\ list[k].id <= minted
      BY <1>6, <1>10, <2>4
    <3>2. list[j].id = minted + j /\ j \in Nat /\ j > 0
      BY <1>3, <1>7, <2>4
    <3> QED
      BY <1>3, <1>12, <3>1, <3>2
  <2> QED
    BY <1>8, <2>1, <2>2, <2>3, <2>4
<1> QED
  BY <1>1, <1>9, <1>11, <1>12 DEF ListInv, list

LEMMA ListInvGrows ==
  ASSUME NEW list, NEW b \in Nat, NEW c \in Nat, b <= c, ListInv(list, b)
  PROVE  ListInv(list, c)
<1>1. \A k \in 1 .. Len(list) : list[k].id \in Nat
  BY IdIsNat DEF ListInv
<1> QED
  BY <1>1 DEF ListInv

LEMMA CommitKeeps ==
  ASSUME StoreInv, NEW prev, NEW list, minted' \in Nat, minted' >= minted + 1,
         ListInv(list, minted'), Committed(prev, list)
  PROVE  StoreInv'
<1>1. PICK safe : safe = IF list = <<>> THEN <<makeDefaultWorkspace(minted + 1)>> ELSE list
  OBVIOUS
<1>2. /\ workspaces' = safe
      /\ activeWorkspaceIndex' = resolveActiveIndex(prev, activeWorkspaceIndex, safe)
  BY <1>1 DEF Committed
<1>3. minted \in Nat /\ activeWorkspaceIndex \in Nat /\ activeWorkspaceIndex >= 1
  BY ActiveWellFormed DEF StoreInv
<1>4. ListInv(safe, minted') /\ safe # <<>>
  <2>1. CASE list = <<>>
    <3>1. PICK ws : ws = makeDefaultWorkspace(minted + 1)
      OBVIOUS
    <3>2. WellFormed(ws) /\ ws.id = minted + 1 /\ ws \in Workspace
      BY <1>3, <3>1, DefaultWellFormed, Parts
    <3>3. safe = <<ws>>
      BY <1>1, <2>1, <3>1
    <3> QED
      BY <1>3, <3>2, <3>3 DEF ListInv
  <2>2. CASE list # <<>>
    BY <1>1, <2>2
  <2> QED
    BY <2>1, <2>2
<1>5. safe \in Seq(Workspace) /\ DOMAIN safe = 1 .. Len(safe) /\ Len(safe) >= 1 /\ Len(safe) \in Nat
  BY <1>4 DEF ListInv
<1>6. activeWorkspaceIndex' \in 1 .. Len(safe)
  <2>1. PICK found : found = {k \in DOMAIN safe : /\ activeWorkspaceIndex \in DOMAIN prev
                                                 /\ prev[activeWorkspaceIndex].id # NoId
                                                 /\ safe[k].id = prev[activeWorkspaceIndex].id}
    OBVIOUS
  <2>2. activeWorkspaceIndex' = IF found # {} THEN CHOOSE k \in found : TRUE
                                ELSE Lower(activeWorkspaceIndex, Len(safe))
    BY <1>2, <2>1 DEF resolveActiveIndex
  <2>3. found \subseteq 1 .. Len(safe)
    BY <1>5, <2>1
  <2>4. Lower(activeWorkspaceIndex, Len(safe)) \in 1 .. Len(safe)
    BY <1>3, <1>5 DEF Lower
  <2>5. found # {} => (CHOOSE k \in found : TRUE) \in found
    OBVIOUS
  <2> QED
    BY <2>2, <2>3, <2>4, <2>5
<1> QED
  BY <1>2, <1>4, <1>5, <1>6 DEF ListInv, StoreInv, TabsValid, IdsMinted, IdsUnique

\* How a pull calls a merge.
LEMMA Rows ==
  ASSUME StoreInv
  PROVE  /\ \A i \in DOMAIN <<>> : WellFormed((<<>>)[i])
         /\ \A won \in Newer : \A i \in DOMAIN won : WellFormed(won[i])
         /\ <<>> \in Seq(Shared)
         /\ \A row \in Shared : <<row>> \in Seq(Shared)
<1>1. \A won \in Newer : \A i \in DOMAIN won : WellFormed(won[i])
  <2> SUFFICES ASSUME NEW i \in Workspaces, NEW won \in [{i} -> Shared \cup {workspaces[i]}]
               PROVE  WellFormed(won[i])
    BY DEF Newer
  <2> QED
    BY IdsBounded, StoreAssumption DEF Workspaces
<1> QED
  BY <1>1

LEMMA SyncOpsKeep ==
  ASSUME StoreInv, LoginInv,
         Pulled(deltaRefresh) \/ Pulled(loginPulled) \/ loginCommits
  PROVE  StoreInv' /\ LoginInv'
<1>1. minted \in Nat
  BY DEF StoreInv
<1>2. CASE Pulled(deltaRefresh)
  <2>1. PICK kept, won, news :
          /\ Len(workspaces) \in DOMAIN Selections /\ kept \in Selections[Len(workspaces)]
          /\ \A i \in DOMAIN won : WellFormed(won[i])
          /\ news \in Seq(Shared)
          /\ deltaRefresh(kept, won, news)
    BY <1>2, Rows DEF Pulled
  <2>2. PICK list : list = Merged(kept, won, news)
    OBVIOUS
  <2>3. Mergeable(kept) /\ Committed(workspaces, list) /\ login' = login
        /\ minted' = minted + 1 + Len(kept) + Len(news)
    BY <2>1, <2>2 DEF deltaRefresh
  <2>4. Len(kept) \in Nat /\ Len(news) \in Nat
    BY <2>1, StoreAssumption
  <2>5. minted' \in Nat /\ minted' >= minted + 1
    BY <1>1, <2>3, <2>4
  <2>6. ListInv(list, minted')
    BY <2>1, <2>2, <2>3, MergedIsList
  <2>7. StoreInv'
    BY <2>3, <2>5, <2>6, CommitKeeps
  <2>8. LoginInv'
    BY <1>1, <2>3, <2>5, ListInvGrows DEF LoginInv
  <2> QED
    BY <2>7, <2>8
<1>3. CASE Pulled(loginPulled)
  <2>1. PICK kept, won, news :
          /\ Len(workspaces) \in DOMAIN Selections /\ kept \in Selections[Len(workspaces)]
          /\ \A i \in DOMAIN won : WellFormed(won[i])
          /\ news \in Seq(Shared)
          /\ loginPulled(kept, won, news)
    BY <1>3, Rows DEF Pulled
  <2>2. /\ Mergeable(kept) /\ login'.merged = Merged(kept, won, news)
        /\ minted' = minted + 1 + Len(kept) + Len(news)
        /\ UNCHANGED <<workspaces, activeWorkspaceIndex>>
    BY <2>1 DEF loginPulled
  <2>3. Len(kept) \in Nat /\ Len(news) \in Nat
    BY <2>1, StoreAssumption
  <2>4. minted' \in Nat /\ minted' >= minted
    BY <1>1, <2>2, <2>3
  <2>5. LoginInv'
    BY <2>1, <2>2, MergedIsList DEF LoginInv
  <2>6. \A k \in DOMAIN workspaces : workspaces[k].id \in Nat /\ workspaces[k].id <= minted
    BY IdsBounded
  <2>7. StoreInv'
    BY <1>1, <2>2, <2>4, <2>6 DEF StoreInv, TabsValid, IdsMinted, IdsUnique
  <2> QED
    BY <2>5, <2>7
<1>4. CASE loginCommits
  <2>1. /\ login # NoLogin /\ Committed(login.local, login.merged)
        /\ minted' = minted + 1 /\ login' = NoLogin
    BY <1>4 DEF loginCommits
  <2>2. ListInv(login.merged, minted')
    BY <1>1, <2>1, ListInvGrows DEF LoginInv
  <2> QED
    BY <1>1, <2>1, <2>2, CommitKeeps DEF LoginInv
<1> QED
  BY <1>2, <1>3, <1>4

LEMMA SavedOpsKeep ==
  ASSUME StoreInv,
         \/ \E i \in Workspaces : focusSaved(i)
         \/ \E entry \in Shared : openSaved(entry)
  PROVE  StoreInv'
<1>1. minted \in Nat /\ minted + 1 \in Nat /\ minted + 2 \in Nat
  BY DEF StoreInv
<1>2. ASSUME NEW i \in Workspaces, focusSaved(i) PROVE StoreInv'
  BY <1>2, IdsBounded DEF focusSaved, Workspaces, StoreInv, TabsValid, IdsMinted, IdsUnique
<1>3. ASSUME NEW entry \in Shared, openSaved(entry) PROVE StoreInv'
  <2> DEFINE new == WithId(entry, minted + 1, minted + 2)
  <2>1. WellFormed(new) /\ new.id = minted + 1
    BY <1>1, <1>3, StoreAssumption, Renewed
  <2>2. Appended(new) /\ minted' = minted + 2
    BY <1>3 DEF openSaved, WithId
  <2> HIDE DEF new
  <2> QED
    BY <1>1, <2>1, <2>2, OpenKeeps
<1> QED
  BY <1>2, <1>3

LEMMA SessionOpsKeep ==
  ASSUME StoreInv, NEW i \in Workspaces,
         NEW items \in Seq(Sdls), items # <<>>, NEW tabs \in Seq(Queries), tabs # <<>>,
         reconcileSubgraphs(i, items) \/ reconcileQueryTabs(i, tabs)
  PROVE  StoreInv'
<1>1. PICK ws : ws = workspaces[i]
  OBVIOUS
<1>2. /\ minted \in Nat /\ minted + 1 \in Nat /\ i \in 1 .. Len(workspaces)
      /\ WellFormed(ws)
  BY <1>1, IdsBounded DEF StoreInv, Workspaces
<1>3. /\ ws.activeSubgraph \in Nat /\ ws.activeSubgraph >= 1
      /\ ws.activeQueryTab \in Nat /\ ws.activeQueryTab >= 1 /\ ws \in Workspace
  BY <1>2, Parts
<1>4. CASE reconcileSubgraphs(i, items)
  <2>1. PICK tab : tab = Lower(ws.activeSubgraph, Len(items))
    OBVIOUS
  <2>2. tab \in 1 .. Len(items)
    BY <1>3, <2>1 DEF Lower
  <2>3. [ws EXCEPT !.subgraphs = Array(minted + 1, items),
                   !.activeSubgraph = Lower(@, Len(items))]
          = WithSubgraphs(ws, minted + 1, items, tab)
    BY <1>3, <2>1 DEF WithSubgraphs, Workspace
  <2>4. /\ workspaces' = [workspaces EXCEPT ![i] = WithSubgraphs(ws, minted + 1, items, tab)]
        /\ minted' = minted + 1 /\ UNCHANGED activeWorkspaceIndex
    BY <1>1, <1>4, <2>3 DEF reconcileSubgraphs, patchPinnedWorkspace, Untouched
  <2>5. /\ WellFormed(WithSubgraphs(ws, minted + 1, items, tab))
        /\ WithSubgraphs(ws, minted + 1, items, tab).id = ws.id
    BY <1>2, <2>2, SubgraphsReplaced
  <2>6. PICK new : new = WithSubgraphs(ws, minted + 1, items, tab)
    OBVIOUS
  <2>7. /\ WellFormed(new) /\ new.id = workspaces[i].id
        /\ workspaces' = [workspaces EXCEPT ![i] = new] /\ UNCHANGED activeWorkspaceIndex
        /\ minted' \in Nat /\ minted' >= minted
    BY <1>1, <1>2, <2>4, <2>5, <2>6
  <2> QED
    BY <1>2, <2>7, PatchKeeps
<1>5. CASE reconcileQueryTabs(i, tabs)
  <2>1. PICK tab : tab = Lower(ws.activeQueryTab, Len(tabs))
    OBVIOUS
  <2>2. tab \in 1 .. Len(tabs)
    BY <1>3, <2>1 DEF Lower
  <2>3. [ws EXCEPT !.queryTabs = tabs, !.activeQueryTab = Lower(@, Len(tabs))]
          = WithQueries(ws, tabs, tab)
    BY <1>3, <2>1 DEF WithQueries, Workspace
  <2>4. /\ workspaces' = [workspaces EXCEPT ![i] = WithQueries(ws, tabs, tab)]
        /\ minted' = minted /\ UNCHANGED activeWorkspaceIndex
    BY <1>1, <1>5, <2>3 DEF reconcileQueryTabs, patchPinnedWorkspace, Untouched
  <2>5. WellFormed(WithQueries(ws, tabs, tab)) /\ WithQueries(ws, tabs, tab).id = ws.id
    BY <1>2, <2>2, QueriesReplaced
  <2>6. PICK new : new = WithQueries(ws, tabs, tab)
    OBVIOUS
  <2>7. /\ WellFormed(new) /\ new.id = workspaces[i].id
        /\ workspaces' = [workspaces EXCEPT ![i] = new] /\ UNCHANGED activeWorkspaceIndex
        /\ minted' \in Nat /\ minted' >= minted
    BY <1>1, <1>2, <2>4, <2>5, <2>6
  <2> QED
    BY <1>2, <2>7, PatchKeeps
<1> QED
  BY <1>4, <1>5

\* The other operations make at most an id and an array, and leave alone what a
\* login is about to commit.
LEMMA OperationsMint ==
  ASSUME StoreInv, LoginInv,
         \/ addWorkspace \/ cloneWorkspace \/ addSubgraph \/ renameSubgraph \/ addQueryTab
         \/ resetToDefaults \/ join \/ startCollaboration \/ endLiveSession
         \/ \E i : \/ removeWorkspace(i) \/ setActiveWorkspace(i) \/ focusSaved(i)
                  \/ removeSubgraph(i) \/ setActiveSubgraph(i)
                  \/ removeQueryTab(i) \/ setActiveQueryTab(i)
         \/ \E i, what : \/ setSubgraphSdl(i, what) \/ setQueryTabQuery(i, what)
                        \/ reconcileSubgraphs(i, what) \/ reconcileQueryTabs(i, what)
         \/ \E what : setInputs(what) \/ doImport(what) \/ restore(what) \/ openSaved(what)
  PROVE  LoginInv'
<1>1. minted \in Nat
  BY DEF StoreInv
<1> DEFINE Small == login' = login /\ minted' \in {minted, minted + 1, minted + 2}
<1>2. Small
  <2>1. CASE addWorkspace \/ cloneWorkspace
    BY <2>1 DEF addWorkspace, cloneWorkspace, Opened, Appended, Pending
  <2>2. CASE join \/ startCollaboration \/ endLiveSession
    BY <2>2 DEF join, startCollaboration, endLiveSession
  <2>3. CASE addSubgraph \/ renameSubgraph
    BY <2>3 DEF addSubgraph, renameSubgraph, Rewritten, Untouched, Pending
  <2>4. CASE addQueryTab \/ resetToDefaults
    BY <2>4 DEF addQueryTab, resetToDefaults, Edited, Untouched, Pending
  <2>5. ASSUME NEW i, removeWorkspace(i) \/ setActiveWorkspace(i) \/ focusSaved(i)
        PROVE  Small
    BY <2>5 DEF removeWorkspace, setActiveWorkspace, focusSaved, Pending
  <2>6. ASSUME NEW i, removeSubgraph(i) \/ setActiveSubgraph(i)
        PROVE  Small
    BY <2>6 DEF removeSubgraph, setActiveSubgraph, Rewritten, Edited, Untouched, Pending
  <2>7. ASSUME NEW i, removeQueryTab(i) \/ setActiveQueryTab(i)
        PROVE  Small
    BY <2>7 DEF removeQueryTab, setActiveQueryTab, Edited, Untouched, Pending
  <2>8. ASSUME NEW i, NEW what, setSubgraphSdl(i, what) \/ setQueryTabQuery(i, what)
        PROVE  Small
    BY <2>8 DEF setSubgraphSdl, setQueryTabQuery, Rewritten, Edited, Untouched, Pending
  <2>9. ASSUME NEW i, NEW what, reconcileSubgraphs(i, what) \/ reconcileQueryTabs(i, what)
        PROVE  Small
    BY <2>9 DEF reconcileSubgraphs, reconcileQueryTabs, patchPinnedWorkspace, Untouched, Pending
  <2>10. ASSUME NEW what, setInputs(what) \/ doImport(what)
         PROVE  Small
    BY <2>10 DEF setInputs, doImport, Edited, Untouched, Opened, Appended, Pending
  <2>11. ASSUME NEW what, restore(what) \/ openSaved(what)
         PROVE  Small
    BY <2>11 DEF restore, openSaved, Opened, Appended, Pending
  <2> HIDE DEF Small
  <2> QED
    BY <2>1, <2>2, <2>3, <2>4, <2>5, <2>6, <2>7, <2>8, <2>9, <2>10, <2>11
<1>3. minted' \in Nat /\ minted <= minted'
  BY <1>1, <1>2
<1> QED
  BY <1>1, <1>2, <1>3, ListInvGrows DEF LoginInv

-----------------------------------------------------------------------------
(* The page: what the pending timer composes is on the screen, what waits for *)
(* the core was there since the last clear, unless history says otherwise.    *)

PageInv ==
  /\ mounted \in BOOLEAN /\ foreign \in BOOLEAN
  /\ ~mounted => core = "none" /\ composeTimer = NoSdl /\ waiting = NoSdl
  /\ mounted => ActiveArray.items \in since
  /\ composeTimer \in {NoSdl, ActiveArray.items}
  /\ core # "loaded" => supergraphSdl = NoSdl
  /\ core # "loading" => waiting = NoSdl
  /\ waiting # NoSdl /\ ~foreign => waiting \in since
  /\ OwnSupergraph

IInv == StoreInv /\ LoginInv /\ PageInv

\* Which operations clear the derived state, and that the others keep it.
ClearedOrKept(cleared) ==
  IF cleared THEN supergraphSdl' = NoSdl ELSE supergraphSdl' = supergraphSdl

LEMMA OperationKeepsPage ==
  ASSUME PageInv, mounted, NEW cleared \in BOOLEAN, ClearedOrKept(cleared),
         Effects, Remembered(cleared), UNCHANGED <<mounted, core, waiting, shown>>
  PROVE  PageInv'
<1>1. PICK switched \in BOOLEAN :
        /\ since' = (IF cleared \/ switched THEN {} ELSE since) \cup {ActiveArray'.items}
        /\ foreign' = CASE cleared -> waiting \notin {NoSdl, ActiveArray'.items}
                        [] switched /\ ~cleared ->
                             {supergraphSdl, waiting} \ {NoSdl, ActiveArray'.items} # {}
                        [] OTHER -> foreign
  BY DEF Remembered
<1>2. composeTimer' = IF ActiveArray' # ActiveArray THEN ActiveArray'.items ELSE composeTimer
  BY DEF Effects, ComposeDue
<1>3. composeTimer' \in {NoSdl, ActiveArray'.items}
  BY <1>2 DEF PageInv
<1>4. /\ foreign' \in BOOLEAN
      /\ waiting' # NoSdl /\ ~foreign' => waiting' \in since'
      /\ supergraphSdl' # NoSdl /\ ~foreign' => supergraphSdl' \in since'
  <2>1. CASE cleared
    <3>1. foreign' = (waiting \notin {NoSdl, ActiveArray'.items})
      BY <1>1, <2>1
    <3> QED
      BY <1>1, <2>1, <3>1 DEF ClearedOrKept
  <2>2. CASE ~cleared /\ switched
    <3>1. foreign' = ({supergraphSdl, waiting} \ {NoSdl, ActiveArray'.items} # {})
      BY <1>1, <2>2
    <3>2. /\ foreign' \in BOOLEAN
          /\ ~foreign' => \A sdl \in {supergraphSdl, waiting} : sdl \in {NoSdl, ActiveArray'.items}
      BY <3>1
    <3> QED
      BY <1>1, <2>2, <3>2 DEF ClearedOrKept
  <2>3. CASE ~cleared /\ ~switched
    <3>1. foreign' = foreign /\ since' = since \cup {ActiveArray'.items}
      BY <1>1, <2>3
    <3> QED
      BY <2>3, <3>1 DEF ClearedOrKept, PageInv, OwnSupergraph
  <2> QED
    BY <2>1, <2>2, <2>3
<1>5. OwnSupergraph'
  BY <1>4 DEF OwnSupergraph
<1>6. /\ core' # "loaded" => supergraphSdl' = NoSdl
      /\ core' # "loading" => waiting' = NoSdl
  BY DEF PageInv, ClearedOrKept
<1> QED
  BY <1>1, <1>3, <1>4, <1>5, <1>6 DEF PageInv

LEMMA UserKeeps ==
  ASSUME IInv, UserStep
  PROVE  IInv'
<1> USE DEF IInv
<1> DEFINE Rest(cleared) == /\ mounted /\ Effects /\ Remembered(cleared)
                            /\ UNCHANGED <<mounted, core, waiting, shown>>
                            /\ ClearedOrKept(cleared)
<1>1. ASSUME NEW cleared \in BOOLEAN, Rest(cleared), StoreInv', LoginInv'
      PROVE  IInv'
  BY <1>1, OperationKeepsPage
<1>2. CASE AddWorkspace \/ CloneWorkspace \/ (\E entry \in Shared : Import(entry))
           \/ (\E i \in Workspaces : RemoveWorkspace(i) \/ SetActiveWorkspace(i))
  <2>1. \/ addWorkspace \/ cloneWorkspace \/ (\E entry \in Shared : doImport(entry))
        \/ (\E i \in Workspaces : removeWorkspace(i) \/ setActiveWorkspace(i))
    BY <1>2 DEF AddWorkspace, CloneWorkspace, Import, RemoveWorkspace, SetActiveWorkspace, User,
                Performed
  <2>2. StoreInv' /\ LoginInv'
    BY <2>1, WorkspaceOpsKeep, OperationsMint
  <2>3. Rest(TRUE)
    BY <1>2 DEF AddWorkspace, CloneWorkspace, Import, RemoveWorkspace, SetActiveWorkspace, User,
                Performed, addWorkspace, cloneWorkspace, doImport, removeWorkspace,
                setActiveWorkspace, Opened, Cleared, ClearedOrKept
  <2> QED
    BY <1>1, <2>2, <2>3
<1>3. CASE AddSubgraph \/ RenameSubgraph
           \/ (\E i \in Subgraphs : RemoveSubgraph(i) \/ SetActiveSubgraph(i))
           \/ (\E i \in Subgraphs, sdl \in Sdls : SetSubgraphSdl(i, sdl))
  <2>1. \/ addSubgraph \/ renameSubgraph
        \/ \E i \in DOMAIN activeWorkspace.subgraphs.items :
             removeSubgraph(i) \/ setActiveSubgraph(i)
        \/ \E i \in DOMAIN activeWorkspace.subgraphs.items, sdl \in Sdls :
             setSubgraphSdl(i, sdl)
    BY <1>3 DEF AddSubgraph, RenameSubgraph, RemoveSubgraph, SetActiveSubgraph, SetSubgraphSdl,
                User, Performed, Subgraphs, ActiveArray
  <2>2. StoreInv' /\ LoginInv'
    BY <2>1, SubgraphOpsKeep, OperationsMint
  <2>3. Rest(FALSE)
    BY <1>3 DEF AddSubgraph, RenameSubgraph, RemoveSubgraph, SetActiveSubgraph, SetSubgraphSdl,
                User, Performed, addSubgraph, renameSubgraph, removeSubgraph,
                setActiveSubgraph, setSubgraphSdl, Edited, Rewritten, Untouched, Derived,
                ClearedOrKept
  <2> QED
    BY <1>1, <2>2, <2>3
<1>4. CASE AddQueryTab \/ ResetToDefaults
           \/ (\E i \in QueryTabs : RemoveQueryTab(i) \/ SetActiveQueryTab(i))
           \/ (\E i \in QueryTabs, query \in Queries : SetQueryTabQuery(i, query))
           \/ (\E inputs \in Inputs : SetInputs(inputs))
  <2>1. \/ addQueryTab \/ resetToDefaults
        \/ \E i \in DOMAIN activeWorkspace.queryTabs : removeQueryTab(i) \/ setActiveQueryTab(i)
        \/ \E i \in DOMAIN activeWorkspace.queryTabs, query \in Queries :
             setQueryTabQuery(i, query)
        \/ \E inputs \in Inputs : setInputs(inputs)
    BY <1>4 DEF AddQueryTab, ResetToDefaults, RemoveQueryTab, SetActiveQueryTab,
                SetQueryTabQuery, SetInputs, User, Performed, QueryTabs
  <2>2. StoreInv' /\ LoginInv'
    BY <2>1, QueryOpsKeep, OperationsMint
  <2>3. Rest(FALSE)
    BY <1>4 DEF AddQueryTab, ResetToDefaults, RemoveQueryTab, SetActiveQueryTab,
                SetQueryTabQuery, SetInputs, User, Performed, addQueryTab, resetToDefaults,
                removeQueryTab, setActiveQueryTab, setQueryTabQuery, setInputs, Edited,
                Untouched, Derived, ClearedOrKept
  <2> QED
    BY <1>1, <2>2, <2>3
<1>5. CASE StartCollaboration \/ EndLiveSession
  <2>1. startCollaboration \/ endLiveSession
    BY <1>5 DEF StartCollaboration, EndLiveSession, User, Performed
  <2>2. StoreInv' /\ LoginInv'
    BY <2>1, OperationsMint DEF startCollaboration, endLiveSession, StoreInv, TabsValid,
                                IdsMinted, IdsUnique
  <2>3. Rest(FALSE)
    BY <1>5 DEF StartCollaboration, EndLiveSession, User, Performed, startCollaboration,
                endLiveSession, Derived, ClearedOrKept
  <2> QED
    BY <1>1, <2>2, <2>3
<1>6. CASE (\E i \in Workspaces : FocusSaved(i)) \/ (\E entry \in Shared : OpenSaved(entry))
  <2>1. (\E i \in Workspaces : focusSaved(i)) \/ (\E entry \in Shared : openSaved(entry))
    BY <1>6 DEF FocusSaved, OpenSaved, User, Performed
  <2>2. StoreInv' /\ LoginInv'
    BY <2>1, SavedOpsKeep, OperationsMint
  <2>3. Rest(FALSE)
    BY <1>6 DEF FocusSaved, OpenSaved, User, Performed, focusSaved, openSaved, Appended,
                Derived, ClearedOrKept
  <2> QED
    BY <1>1, <2>2, <2>3
<1>7. CASE RunQuery
  BY <1>7 DEF RunQuery, StoreInv, LoginInv, ListInv, TabsValid, IdsMinted, IdsUnique, PageInv,
              OwnSupergraph, ActiveArray, activeWorkspace, storeVars, history
<1>8. CASE Reload
  <2>1. StoreInv'
    BY <1>8, WorkspaceOpsKeep DEF Reload
  <2>2. PageInv' /\ LoginInv'
    BY <1>8 DEF Reload, reload, Cleared, PageInv, OwnSupergraph, LoginInv
  <2> QED
    BY <2>1, <2>2
<1> QED
  BY <1>2, <1>3, <1>4, <1>5, <1>6, <1>7, <1>8 DEF UserStep

LEMMA OtherKeeps ==
  ASSUME IInv, OtherStep
  PROVE  IInv'
<1> USE DEF IInv
<1> DEFINE Rest == /\ mounted /\ Effects /\ Remembered(FALSE)
                   /\ UNCHANGED <<mounted, core, waiting, shown>>
                   /\ ClearedOrKept(FALSE)
<1>1. ASSUME Rest, StoreInv', LoginInv'
      PROVE  IInv'
  BY <1>1, OperationKeepsPage
<1>2. CASE DeltaRefresh \/ LoginPulled \/ LoginCommits
  <2>1. Pulled(deltaRefresh) \/ Pulled(loginPulled) \/ loginCommits
    BY <1>2 DEF DeltaRefresh, LoginPulled, LoginCommits, Pull, Performed
  <2>2. StoreInv' /\ LoginInv'
    BY <2>1, SyncOpsKeep
  <2>3. supergraphSdl' = supergraphSdl
    BY <2>1 DEF Pulled, deltaRefresh, loginPulled, loginCommits, Committed, Derived
  <2>4. Rest
    BY <1>2, <2>3 DEF DeltaRefresh, LoginPulled, LoginCommits, Pull, Performed, ClearedOrKept
  <2> QED
    BY <1>1, <2>2, <2>4
<1>3. CASE LoginFails
  <2>1. /\ login' = NoLogin
        /\ UNCHANGED <<workspaces, activeWorkspaceIndex, minted, supergraphSdl>>
        /\ UNCHANGED <<pipelineVars, history>>
    BY <1>3 DEF LoginFails, Derived
  <2>2. StoreInv' /\ LoginInv'
    BY <2>1 DEF StoreInv, LoginInv, TabsValid, IdsMinted, IdsUnique
  <2> QED
    BY <2>1, <2>2 DEF PageInv, OwnSupergraph, ActiveArray, activeWorkspace, pipelineVars, history
<1>4. ASSUME NEW i \in Workspaces, NEW items \in Seq(Sdls), items # <<>>,
             NEW tabs \in Seq(Queries), tabs # <<>>,
             ReconcileSubgraphs(i, items) \/ ReconcileQueryTabs(i, tabs)
      PROVE  IInv'
  <2>1. reconcileSubgraphs(i, items) \/ reconcileQueryTabs(i, tabs)
    BY <1>4 DEF ReconcileSubgraphs, ReconcileQueryTabs, User, Performed
  <2>2. StoreInv'
    BY <1>4, <2>1, SessionOpsKeep
  <2>3. LoginInv'
    BY <2>1, OperationsMint
  <2>4. Rest
    BY <1>4, <2>1 DEF ReconcileSubgraphs, ReconcileQueryTabs, User, Performed,
                      reconcileSubgraphs, reconcileQueryTabs, patchPinnedWorkspace, Untouched,
                      Derived, ClearedOrKept
  <2> QED
    BY <1>1, <2>2, <2>3, <2>4
<1>5. /\ \A items \in {DefaultSubgraphs} \cup {entry.subgraphs.items : entry \in Shared} :
           items \in Seq(Sdls) /\ items # <<>>
      /\ \A tabs \in {<<DefaultQuery>>} \cup {entry.queryTabs : entry \in Shared} :
           tabs \in Seq(Queries) /\ tabs # <<>>
  <2>1. ASSUME NEW entry \in Shared
        PROVE  /\ entry.subgraphs.items \in Seq(Sdls) /\ entry.subgraphs.items # <<>>
               /\ entry.queryTabs \in Seq(Queries) /\ entry.queryTabs # <<>>
    <3>1. WellFormed(entry)
      BY <2>1, StoreAssumption
    <3>2. PICK items, tabs : items = entry.subgraphs.items /\ tabs = entry.queryTabs
      OBVIOUS
    <3>3. /\ items \in Seq(Sdls) /\ entry.activeSubgraph \in 1 .. Len(items)
          /\ tabs \in Seq(Queries) /\ entry.activeQueryTab \in 1 .. Len(tabs)
      BY <3>1, <3>2, Parts
    <3>4. items # <<>> /\ tabs # <<>>
      BY <3>3
    <3> QED
      BY <3>2, <3>3, <3>4
  <2>2. /\ DefaultSubgraphs \in Seq(Sdls) /\ DefaultSubgraphs # <<>>
        /\ <<DefaultQuery>> \in Seq(Queries) /\ <<DefaultQuery>> # <<>>
    BY StoreAssumption
  <2> QED
    BY <2>1, <2>2
<1>6. CASE \E i \in Workspaces :
             \/ \E items \in {DefaultSubgraphs} \cup {entry.subgraphs.items : entry \in Shared} :
                  ReconcileSubgraphs(i, items)
             \/ \E tabs \in {<<DefaultQuery>>} \cup {entry.queryTabs : entry \in Shared} :
                  ReconcileQueryTabs(i, tabs)
  BY <1>4, <1>5, <1>6
<1> QED
  BY <1>2, <1>3, <1>6 DEF OtherStep

\* Steps that change neither a workspace nor what was made.
SameStore == UNCHANGED <<workspaces, activeWorkspaceIndex, minted, login>>

LEMMA SameStoreKeeps ==
  ASSUME StoreInv, LoginInv, SameStore
  PROVE  StoreInv' /\ LoginInv' /\ ActiveArray' = ActiveArray
<1>1. StoreInv' /\ ActiveArray' = ActiveArray
  BY DEF SameStore, StoreInv, TabsValid, IdsMinted, IdsUnique, ActiveArray, activeWorkspace
<1>2. LoginInv'
  BY DEF SameStore, LoginInv
<1> QED
  BY <1>1, <1>2

LEMMA ComposedKeeps ==
  ASSUME StoreInv, LoginInv, NEW items, Composed(items)
  PROVE  /\ StoreInv' /\ LoginInv' /\ ActiveArray' = ActiveArray /\ since' = since /\ mounted' = mounted
         /\ \/ supergraphSdl' = supergraphSdl /\ (~Composable(items) \/ items = NoSdl)
            \/ supergraphSdl' = items /\ Composable(items) /\ items # NoSdl
<1>1. SameStore /\ since' = since /\ mounted' = mounted
  BY DEF Composed, setComposeResult, SameStore, Pending
<1>2. \/ supergraphSdl' = supergraphSdl /\ (~Composable(items) \/ items = NoSdl)
      \/ supergraphSdl' = items /\ Composable(items) /\ items # NoSdl
  BY DEF Composed, setComposeResult, Supergraph
<1> QED
  BY <1>1, <1>2, SameStoreKeeps

LEMMA MountingKeeps == ASSUME IInv, Mounting PROVE IInv'
<1> USE DEF IInv
<1>1. /\ ~mounted /\ mounted' = TRUE /\ composeTimer' = ActiveArray'.items
      /\ since' = {ActiveArray'.items}
      /\ UNCHANGED <<core, waiting, foreign>>
  BY DEF Mounting, MountPlain, MountLink, MountJoin, Mount
<1>2. StoreInv' /\ LoginInv' /\ supergraphSdl' = NoSdl
  <2>1. supergraphSdl = NoSdl
    BY <1>1 DEF PageInv
  <2>2. CASE UNCHANGED storeVars
    BY <2>1, <2>2, SameStoreKeeps DEF storeVars, SameStore
  <2>3. CASE join \/ \E entry \in Shared : restore(entry)
    <3>1. StoreInv'
      BY <2>3, WorkspaceOpsKeep
    <3>2. LoginInv'
      BY <2>3, OperationsMint
    <3>3. supergraphSdl' = NoSdl
      BY <2>3 DEF join, restore, Opened, Cleared
    <3> QED
      BY <3>1, <3>2, <3>3
  <2> QED
    BY <2>2, <2>3 DEF Mounting, MountPlain, MountLink, MountJoin, Mount
<1> QED
  BY <1>1, <1>2 DEF PageInv, OwnSupergraph

LEMMA PageKeeps == ASSUME IInv, PageStep PROVE IInv'
<1> USE DEF IInv
<1>1. CASE Mounting
  BY <1>1, MountingKeeps
<1>2. CASE SessionAnswer
  <2>1. SameStore /\ supergraphSdl' = supergraphSdl
    BY <1>2 DEF SessionAnswer, setLiveSessionWsUrl, collaborationFailed, SameStore, Derived
  <2>2. UNCHANGED <<pipelineVars, history>>
    BY <1>2 DEF SessionAnswer
  <2> QED
    BY <2>1, <2>2, SameStoreKeeps DEF PageInv, OwnSupergraph, pipelineVars, history
<1>3. CASE ComposeFires
  <2>1. /\ mounted /\ composeTimer # NoSdl /\ composeTimer = ActiveArray.items
        /\ ActiveArray.items \in since /\ composeTimer' = NoSdl
    BY <1>3 DEF ComposeFires, PageInv
  <2>2. CASE core \in {"none", "loading"}
    <3>1. /\ core' = "loading" /\ waiting' = composeTimer /\ foreign' = FALSE
          /\ UNCHANGED <<storeVars, mounted, since>>
      BY <1>3, <2>2 DEF ComposeFires
    <3>2. StoreInv' /\ LoginInv' /\ ActiveArray' = ActiveArray /\ supergraphSdl' = NoSdl
      BY <2>2, <3>1, SameStoreKeeps DEF storeVars, SameStore, PageInv
    <3> QED
      BY <2>1, <3>1, <3>2 DEF PageInv, OwnSupergraph
  <2>3. CASE core = "loaded"
    <3>1. /\ Composed(composeTimer) /\ UNCHANGED <<core, waiting>>
          /\ foreign' = (foreign /\ ~Composable(composeTimer))
      BY <1>3, <2>3 DEF ComposeFires
    <3>2. /\ StoreInv' /\ LoginInv' /\ ActiveArray' = ActiveArray /\ since' = since /\ mounted' = mounted
          /\ \/ supergraphSdl' = supergraphSdl /\ ~Composable(composeTimer)
             \/ supergraphSdl' = composeTimer
      BY <2>1, <3>1, ComposedKeeps
    <3>3. OwnSupergraph'
      BY <2>1, <3>1, <3>2 DEF PageInv, OwnSupergraph
    <3> QED
      BY <2>1, <2>3, <3>1, <3>2, <3>3 DEF PageInv
  <2>4. CASE core = "failed"
    <3>1. UNCHANGED <<storeVars, mounted, core, waiting, history>>
      BY <1>3, <2>4 DEF ComposeFires
    <3> QED
      BY <2>1, <3>1, SameStoreKeeps DEF storeVars, SameStore, PageInv, OwnSupergraph, history
  <2> QED
    BY <1>3, <2>2, <2>3, <2>4 DEF ComposeFires
<1>4. CASE CoreLoaded
  <2>1. /\ core' = "loaded" /\ waiting' = NoSdl /\ Composed(waiting) /\ mounted
        /\ UNCHANGED <<composeTimer, foreign>>
    BY <1>4 DEF CoreLoaded, PageInv
  <2>2. /\ StoreInv' /\ LoginInv' /\ ActiveArray' = ActiveArray /\ since' = since /\ mounted' = mounted
        /\ \/ supergraphSdl' = supergraphSdl
           \/ supergraphSdl' = waiting /\ waiting # NoSdl
    BY <2>1, ComposedKeeps
  <2>3. OwnSupergraph'
    BY <2>1, <2>2 DEF PageInv, OwnSupergraph
  <2> QED
    BY <2>1, <2>2, <2>3 DEF PageInv
<1>5. CASE CoreFailed
  <2>1. /\ core' = "failed" /\ core = "loading" /\ waiting' = NoSdl
        /\ UNCHANGED <<storeVars, mounted, composeTimer, history>>
    BY <1>5 DEF CoreFailed
  <2>2. StoreInv' /\ LoginInv' /\ ActiveArray' = ActiveArray /\ supergraphSdl' = supergraphSdl
    BY <2>1, SameStoreKeeps DEF storeVars, SameStore
  <2>3. mounted
    BY <2>1 DEF PageInv
  <2> QED
    BY <2>1, <2>2, <2>3 DEF PageInv, OwnSupergraph, history
<1>6. CASE AutoRunFires
  <2>1. UNCHANGED <<storeVars, mounted, core, composeTimer, waiting, history>>
    BY <1>6 DEF AutoRunFires
  <2>2. StoreInv' /\ LoginInv' /\ ActiveArray' = ActiveArray
    BY <2>1, SameStoreKeeps DEF storeVars, SameStore
  <2> QED
    BY <2>1, <2>2 DEF PageInv, OwnSupergraph, storeVars, history
<1> QED
  BY <1>1, <1>2, <1>3, <1>4, <1>5, <1>6 DEF PageStep

LEMMA InitIInv == Init => IInv
<1> SUFFICES ASSUME Init PROVE IInv
  OBVIOUS
<1>1. /\ workspaces = <<makeDefaultWorkspace(1)>> /\ activeWorkspaceIndex = 1
      /\ minted = 1 /\ supergraphSdl = NoSdl /\ login = NoLogin
  BY DEF Init, StoreInit
<1>2. WellFormed(makeDefaultWorkspace(1)) /\ makeDefaultWorkspace(1).id = 1
  BY DefaultWellFormed
<1>3. PICK ws : ws = makeDefaultWorkspace(1)
  OBVIOUS
<1>4. ws \in Workspace
  BY <1>2, <1>3, Parts
<1>5. /\ workspaces \in Seq(Workspace) /\ Len(workspaces) = 1 /\ DOMAIN workspaces = {1}
      /\ workspaces[1] = ws
  BY <1>1, <1>3, <1>4
<1>6. StoreInv
  BY <1>1, <1>2, <1>3, <1>5 DEF StoreInv, TabsValid, IdsMinted, IdsUnique
<1>7. PageInv
  BY <1>1 DEF Init, PageInv, OwnSupergraph
<1>8. LoginInv
  BY <1>1 DEF LoginInv
<1> QED
  BY <1>6, <1>7, <1>8 DEF IInv

LEMMA NextKeeps == ASSUME IInv, [Next]_vars PROVE IInv'
<1>1. CASE UNCHANGED vars
  <2>1. StoreInv' /\ LoginInv' /\ ActiveArray' = ActiveArray
    BY <1>1, SameStoreKeeps DEF vars, storeVars, SameStore, IInv
  <2> QED
    BY <1>1, <2>1 DEF vars, storeVars, pipelineVars, history, IInv, PageInv, OwnSupergraph
<1> QED
  BY <1>1, UserKeeps, OtherKeeps, PageKeeps DEF Next

LEMMA IInvAlways == Spec => []IInv
  BY InitIInv, NextKeeps, PTL DEF Spec

-----------------------------------------------------------------------------
\* In every workspace, whatever is added, removed, imported, restored or joined,
\* the indices point at tabs.
THEOREM TabsValidAlways == Spec => []TabsValid
<1>1. IInv => TabsValid
  BY DEF IInv, StoreInv
<1> QED
  BY <1>1, IInvAlways, PTL

\* Ids are never given twice.
THEOREM IdsUniqueAlways == Spec => []IdsUnique
<1>1. IInv => IdsUnique
  BY DEF IInv, StoreInv
<1> QED
  BY <1>1, IInvAlways, PTL

\* The supergraph was composed from what the workspace on the screen held, unless
\* a compose waited for the core while the user switched.
THEOREM OwnSupergraphAlways == Spec => []OwnSupergraph
<1>1. IInv => OwnSupergraph
  BY DEF IInv, PageInv
<1> QED
  BY <1>1, IInvAlways, PTL

LEMMA WorkspaceRemovalKeepsPlace ==
  ASSUME StoreInv, NEW i \in Workspaces \ {activeWorkspaceIndex}, RemoveWorkspace(i)
  PROVE  activeWorkspace' = activeWorkspace
<1>1. PICK n, a : n = Len(workspaces) /\ a = activeWorkspaceIndex
  OBVIOUS
<1>2. /\ workspaces \in Seq(Workspace) /\ n \in Nat /\ i \in 1 .. n /\ a \in 1 .. n /\ i # a
  BY <1>1 DEF StoreInv, TabsValid, Workspaces
<1>3. n # 1
  BY <1>2
<1>4. workspaces' = Without(workspaces, i) /\ activeWorkspaceIndex' = AfterRemoval(a, i, n)
  BY <1>1, <1>3 DEF RemoveWorkspace, User, Performed, removeWorkspace
<1>5. \A k \in 1 .. n - 1 : workspaces'[k] = IF k < i THEN workspaces[k] ELSE workspaces[k + 1]
  BY <1>1, <1>2, <1>4, WithoutIsSeq
<1>6. CASE a > i
  <2>1. activeWorkspaceIndex' = a - 1
    BY <1>2, <1>4, <1>6 DEF AfterRemoval, Lower
  <2> QED
    BY <1>1, <1>2, <1>5, <1>6, <2>1 DEF activeWorkspace
<1>7. CASE a < i
  <2>1. activeWorkspaceIndex' = a
    BY <1>2, <1>4, <1>7 DEF AfterRemoval, Lower
  <2> QED
    BY <1>1, <1>2, <1>5, <1>7, <2>1 DEF activeWorkspace
<1> QED
  BY <1>2, <1>6, <1>7

LEMMA QueryRemovalKeepsPlace ==
  ASSUME StoreInv, NEW i \in QueryTabs \ {activeWorkspace.activeQueryTab}, RemoveQueryTab(i)
  PROVE  CurrentRun' = CurrentRun
<1>1. PICK ws : ws = activeWorkspace
  OBVIOUS
<1>2. PICK tabs, a : tabs = ws.queryTabs /\ a = ws.activeQueryTab
  OBVIOUS
<1>3. PICK n : n = Len(tabs)
  OBVIOUS
<1>4. WellFormed(ws)
  BY <1>1, ActiveWellFormed
<1>5. /\ ws \in Workspace /\ tabs \in Seq(Queries) /\ n \in Nat /\ DOMAIN tabs = 1 .. n
      /\ i \in 1 .. n /\ a \in 1 .. n /\ i # a
  BY <1>1, <1>2, <1>3, <1>4, Parts DEF QueryTabs
<1>6. n # 1
  BY <1>5
<1>7. PICK new, tab : new = Without(tabs, i) /\ tab = AfterQueryRemoval(a, i, n)
  OBVIOUS
<1>8. /\ new \in Seq(Queries) /\ Len(new) = n - 1
      /\ \A k \in 1 .. n - 1 : new[k] = IF k < i THEN tabs[k] ELSE tabs[k + 1]
  BY <1>3, <1>5, <1>7, WithoutIsSeq
<1>9. tab \in 1 .. n - 1 /\ new[tab] = tabs[a]
  <2>1. CASE a > i
    <3>1. tab = a - 1
      BY <1>5, <1>7, <2>1 DEF AfterQueryRemoval
    <3> QED
      BY <1>5, <1>8, <2>1, <3>1
  <2>2. CASE a < i
    <3>1. tab = a
      BY <1>5, <1>7, <2>2 DEF AfterQueryRemoval
    <3> QED
      BY <1>5, <1>8, <2>2, <3>1
  <2> QED
    BY <1>5, <2>1, <2>2
<1>10. Edited(WithQueries(ws, new, tab))
  BY <1>1, <1>2, <1>3, <1>5, <1>6, <1>7 DEF RemoveQueryTab, User, Performed, removeQueryTab, WithQueries,
                                               Workspace
<1>11. /\ WellFormed(WithQueries(ws, new, tab)) /\ WithQueries(ws, new, tab).id = ws.id
       /\ WithQueries(ws, new, tab).queryTabs = new
       /\ WithQueries(ws, new, tab).activeQueryTab = tab
       /\ WithQueries(ws, new, tab).inputs = ws.inputs
  <2>1. WellFormed(WithQueries(ws, new, tab)) /\ WithQueries(ws, new, tab).id = ws.id
    BY <1>4, <1>5, <1>8, <1>9, QueriesReplaced
  <2> QED
    BY <1>5, <2>1 DEF WithQueries, Workspace
<1>12. activeWorkspace' = WithQueries(ws, new, tab) /\ supergraphSdl' = supergraphSdl
  BY <1>1, <1>10, <1>11, EditKeeps DEF Edited, Untouched, Derived, StoreInv
<1> QED
  BY <1>1, <1>2, <1>9, <1>11, <1>12 DEF CurrentRun

LEMMA OnlyPullsCount ==
  ASSUME Next, pulls' # pulls
  PROVE  Pulled(deltaRefresh) \/ Pulled(loginPulled)
<1>1. CASE UserStep
  BY <1>1 DEF UserStep, AddWorkspace, CloneWorkspace, AddSubgraph, RenameSubgraph, AddQueryTab,
              ResetToDefaults, StartCollaboration, EndLiveSession, RunQuery, Reload,
              RemoveWorkspace, SetActiveWorkspace, RemoveSubgraph, SetActiveSubgraph,
              SetSubgraphSdl, RemoveQueryTab, SetActiveQueryTab, SetQueryTabQuery, SetInputs,
              FocusSaved, Import, OpenSaved, User
<1>2. CASE OtherStep
  BY <1>2 DEF OtherStep, DeltaRefresh, LoginPulled, LoginCommits, LoginFails,
              ReconcileSubgraphs, ReconcileQueryTabs, User, Pull, Performed
<1>3. CASE PageStep
  BY <1>3 DEF PageStep, Mounting, MountPlain, MountLink, MountJoin, Mount, SessionAnswer,
              ComposeFires, CoreLoaded, CoreFailed, AutoRunFires, Composed
<1> QED
  BY <1>1, <1>2, <1>3 DEF Next

LEMMA PullKeepsPlace ==
  ASSUME StoreInv, StoreInv', Pulled(deltaRefresh) \/ Pulled(loginPulled),
         activeWorkspace.id # NoId, NEW k \in DOMAIN workspaces',
         workspaces'[k].id = activeWorkspace.id
  PROVE  activeWorkspaceIndex' = k
<1>1. activeWorkspaceIndex \in DOMAIN workspaces /\ IdsUnique /\ IdsUnique'
  BY DEF StoreInv, TabsValid
<1>2. CASE Pulled(deltaRefresh)
  <2>1. PICK list : Committed(workspaces, list)
    BY <1>2 DEF Pulled, deltaRefresh
  <2>2. activeWorkspaceIndex' = resolveActiveIndex(workspaces, activeWorkspaceIndex, workspaces')
    BY <2>1 DEF Committed
  <2> DEFINE found == {j \in DOMAIN workspaces' :
                         /\ activeWorkspaceIndex \in DOMAIN workspaces
                         /\ workspaces[activeWorkspaceIndex].id # NoId
                         /\ workspaces'[j].id = workspaces[activeWorkspaceIndex].id}
  <2>3. k \in found
    BY <1>1 DEF activeWorkspace
  <2>4. activeWorkspaceIndex' = CHOOSE j \in found : TRUE
    BY <2>2, <2>3 DEF resolveActiveIndex
  <2>5. activeWorkspaceIndex' \in found
    BY <2>3, <2>4
  <2> QED
    BY <1>1, <2>3, <2>5 DEF IdsUnique
<1>3. CASE Pulled(loginPulled)
  <2>1. UNCHANGED <<workspaces, activeWorkspaceIndex>>
    BY <1>3 DEF Pulled, loginPulled
  <2> QED
    BY <1>1, <2>1 DEF IdsUnique, activeWorkspace
<1> QED
  BY <1>2, <1>3

\* The workspace or the query on the screen stays there when another one is
\* removed, and the workspace when a pull rearranges the tabs and leaves it.
THEOREM RemovalKeepsPlaceAlways == Spec => RemovalKeepsPlace
<1> DEFINE Kept == /\ \A i \in Workspaces \ {activeWorkspaceIndex} :
                        RemoveWorkspace(i) => activeWorkspace' = activeWorkspace
                   /\ \A i \in QueryTabs \ {activeWorkspace.activeQueryTab} :
                        RemoveQueryTab(i) => CurrentRun' = CurrentRun
                   /\ pulls' # pulls /\ activeWorkspace.id # NoId =>
                        \A k \in DOMAIN workspaces' :
                          workspaces'[k].id = activeWorkspace.id => activeWorkspaceIndex' = k
<1>1. IInv /\ IInv' /\ [Next]_vars => Kept
  <2> SUFFICES ASSUME IInv, IInv', [Next]_vars PROVE Kept
    OBVIOUS
  <2>1. StoreInv /\ StoreInv'
    BY DEF IInv
  <2>2. pulls' # pulls => Pulled(deltaRefresh) \/ Pulled(loginPulled)
    BY OnlyPullsCount DEF vars
  <2>3. pulls' # pulls /\ activeWorkspace.id # NoId =>
          \A k \in DOMAIN workspaces' :
            workspaces'[k].id = activeWorkspace.id => activeWorkspaceIndex' = k
    BY <2>1, <2>2, PullKeepsPlace
  <2> QED
    BY <2>1, <2>3, WorkspaceRemovalKeepsPlace, QueryRemovalKeepsPlace
<1>2. Spec => [][Kept]_vars
  BY <1>1, IInvAlways, PTL DEF Spec
<1> QED
  BY <1>2 DEF RemovalKeepsPlace
=============================================================================
