--------------------------- MODULE WorkspaceStore ---------------------------
(* The state behind the tabs, web/src/store.ts: the workspaces with their     *)
(* subgraph and query tabs, what composing the active one gave, and the       *)
(* workspace a live session is pinned to.  Every action of the store, and what *)
(* App.tsx, ExportImportDialog.tsx, the sync engine and a live session write   *)
(* into it.  Indices count from 1, names and versions are left out.            *)
EXTENDS Integers, Sequences

CONSTANTS
  DefaultSubgraphs,   \* the SDLs of DEFAULT_SUBGRAPHS
  NewSdl,             \* DEFAULT_NEW_SUBGRAPH_SDL
  DefaultQuery,       \* DEFAULT_QUERY
  Sdls, Queries,      \* what a user may type
  Inputs,             \* seed and mock config together
  DefaultInputs,
  Shared,             \* the workspaces that links, files, rows and sessions carry
  Selections          \* Selections[n]: the ways to keep some of n tabs in order

NoText == ""

Workspace ==
  [id : Nat, subgraphs : [ref : Nat, items : Seq(Sdls)], activeSubgraph : Nat,
   queryTabs : Seq(Queries), activeQueryTab : Nat, inputs : Inputs]

\* Every index points at a tab: what the tab strips and editors rely on.
WellFormed(ws) ==
  /\ ws \in Workspace
  /\ ws.activeSubgraph \in 1 .. Len(ws.subgraphs.items)
  /\ ws.activeQueryTab \in 1 .. Len(ws.queryTabs)

ASSUME StoreAssumption ==
  /\ DefaultSubgraphs \in Seq(Sdls) /\ DefaultSubgraphs # <<>>
  /\ {NewSdl, NoText} \subseteq Sdls
  /\ {DefaultQuery, NoText} \subseteq Queries
  /\ DefaultInputs \in Inputs
  /\ \A ws \in Shared : WellFormed(ws)
  /\ \A n \in DOMAIN Selections : \A kept \in Selections[n] :
       /\ kept \in Seq(1 .. n)
       /\ \A j, k \in DOMAIN kept : j < k => kept[j] < kept[k]

VARIABLES
  workspaces,
  activeWorkspaceIndex,
  supergraphSdl,   \* NoSdl or the subgraphs it was composed from
  composeErrors,   \* composition failed last time
  liveSession,     \* NoSession or the id of the workspace it is pinned to
  asked,           \* NoSession or the id that was active when a session was asked for
  login,           \* NoLogin or what onLogin holds while it pushes
  minted           \* ids and array references made so far

storeVars == <<workspaces, activeWorkspaceIndex, supergraphSdl, composeErrors,
               liveSession, asked, login, minted>>

NoSdl == <<>>
NoSession == -1
NoLogin == [none |-> TRUE]
NoId == 0          \* a workspace opened from a link has no id

\* React compares arrays by reference: ref stands for the one of `subgraphs`,
\* 0 is the constant DEFAULT_SUBGRAPHS, shared by all that use it.
Array(ref, items) == [ref |-> ref, items |-> items]

Entry(id, subgraphs, queryTabs, query, inputs) ==
  [id |-> id, subgraphs |-> subgraphs, activeSubgraph |-> 1,
   queryTabs |-> queryTabs, activeQueryTab |-> query, inputs |-> inputs]

makeDefaultWorkspace(id) ==
  Entry(id, Array(0, DefaultSubgraphs), <<DefaultQuery>>, 1, DefaultInputs)

activeWorkspace == workspaces[activeWorkspaceIndex]

StoreInit ==
  /\ workspaces = <<makeDefaultWorkspace(1)>>
  /\ activeWorkspaceIndex = 1
  /\ supergraphSdl = NoSdl
  /\ composeErrors = FALSE
  /\ liveSession = NoSession
  /\ asked = NoSession
  /\ login = NoLogin
  /\ minted = 1

-----------------------------------------------------------------------------
(* Helpers *)

Without(s, i) == [k \in 1 .. Len(s) - 1 |-> IF k < i THEN s[k] ELSE s[k + 1]]

Lower(a, b) == IF a < b THEN a ELSE b

\* The tab to show once tab i of n is gone, when `active` was shown.
\* removeWorkspace steps to the left neighbour, ...
AfterRemoval(active, i, n) ==
  Lower(CASE active = i -> IF i > 1 THEN i - 1 ELSE 1
          [] active > i -> active - 1
          [] OTHER      -> active,
        n - 1)

\* Mutant of AfterQueryRemoval: the index is only clamped.
OnlyClamped(active, i, n) == Lower(active, n - 1)

\* ... removeQueryTab to the right one.
AfterQueryRemoval(active, i, n) ==
  CASE active = i -> Lower(i, n - 1)
    [] active > i -> active - 1
    [] OTHER      -> active

\* Mutant of AfterSubgraphRemoval: the last tab has no right neighbour.
NotClamped(i, n) == i

\* ... removeSubgraph as well, whichever tab was shown.
AfterSubgraphRemoval(i, n) == Lower(i, n - 1)

updateActive(ws) == workspaces' = [workspaces EXCEPT ![activeWorkspaceIndex] = ws]

\* Mutant of Cleared: the old workspace's results stay.
NotCleared == UNCHANGED <<supergraphSdl, composeErrors>>

\* The derived state starts over with a change of the active workspace.
Cleared == supergraphSdl' = NoSdl /\ composeErrors' = FALSE

Derived == <<supergraphSdl, composeErrors>>
Pending == <<liveSession, asked, login>>
Untouched == UNCHANGED <<activeWorkspaceIndex, Derived, Pending>>

Appended(ws) ==
  /\ workspaces' = Append(workspaces, ws)
  /\ activeWorkspaceIndex' = Len(workspaces) + 1
  /\ UNCHANGED Pending

Opened(ws) == Appended(ws) /\ Cleared

\* Edits of the active workspace that make no new array of subgraphs.
Edited(ws) == updateActive(ws) /\ Untouched /\ UNCHANGED minted

\* Edits that make one.
Rewritten(items, tab) ==
  /\ updateActive([activeWorkspace EXCEPT !.subgraphs = Array(minted + 1, items),
                                          !.activeSubgraph = tab])
  /\ minted' = minted + 1
  /\ Untouched

-----------------------------------------------------------------------------
(* Workspaces *)

addWorkspace ==
  /\ Opened(makeDefaultWorkspace(minted + 1))
  /\ minted' = minted + 1

\* Mutant of Clone: the copy keeps the id.
SameId(ws) == [ws EXCEPT !.subgraphs.ref = minted + 2]

\* A deep copy under an id of its own.
Clone(ws) == [ws EXCEPT !.id = minted + 1, !.subgraphs.ref = minted + 2]

cloneWorkspace ==
  /\ Opened(Clone(activeWorkspace))
  /\ minted' = minted + 2

removeWorkspace(i) ==
  /\ IF Len(workspaces) = 1
     THEN /\ workspaces' = <<makeDefaultWorkspace(minted + 1)>>
          /\ activeWorkspaceIndex' = 1
          /\ minted' = minted + 1
     ELSE /\ workspaces' = Without(workspaces, i)
          /\ activeWorkspaceIndex' =
               AfterRemoval(activeWorkspaceIndex, i, Len(workspaces))
          /\ UNCHANGED minted
  /\ Cleared
  /\ UNCHANGED Pending

setActiveWorkspace(i) ==
  /\ activeWorkspaceIndex' = i
  /\ Cleared
  /\ UNCHANGED <<workspaces, Pending, minted>>

\* ImportDialog: the chosen entries of a file get fresh ids and go to the end,
\* the first of them is shown.  encodeExport and decodeExport keep the rest.
doImport(entry) ==
  /\ Opened([entry EXCEPT !.id = minted + 1, !.subgraphs.ref = minted + 2])
  /\ minted' = minted + 2

-----------------------------------------------------------------------------
(* Subgraph tabs, query tabs, seed and mock config *)

addSubgraph ==
  LET items == activeWorkspace.subgraphs.items
  IN Rewritten(Append(items, NewSdl), Len(items) + 1)

removeSubgraph(i) ==
  LET items == activeWorkspace.subgraphs.items
  IN /\ Len(items) > 1
     /\ Rewritten(Without(items, i), AfterSubgraphRemoval(i, Len(items)))

\* setSubgraphSdl; renameSubgraph also makes the array anew.
setSubgraphSdl(i, sdl) ==
  Rewritten([activeWorkspace.subgraphs.items EXCEPT ![i] = sdl],
            activeWorkspace.activeSubgraph)

renameSubgraph ==
  Rewritten(activeWorkspace.subgraphs.items, activeWorkspace.activeSubgraph)

setActiveSubgraph(i) == Edited([activeWorkspace EXCEPT !.activeSubgraph = i])

addQueryTab ==
  Edited([activeWorkspace EXCEPT !.queryTabs = Append(@, NoText),
                                 !.activeQueryTab = Len(activeWorkspace.queryTabs) + 1])

removeQueryTab(i) ==
  LET ws == activeWorkspace
      n == Len(ws.queryTabs)
  IN Edited(IF n = 1
            THEN [ws EXCEPT !.queryTabs = <<NoText>>, !.activeQueryTab = 1]
            ELSE [ws EXCEPT !.queryTabs = Without(@, i),
                            !.activeQueryTab = AfterQueryRemoval(@, i, n)])

setQueryTabQuery(i, query) == Edited([activeWorkspace EXCEPT !.queryTabs[i] = query])

setActiveQueryTab(i) == Edited([activeWorkspace EXCEPT !.activeQueryTab = i])

setInputs(inputs) == Edited([activeWorkspace EXCEPT !.inputs = inputs])

resetToDefaults == Edited(makeDefaultWorkspace(activeWorkspace.id))

-----------------------------------------------------------------------------
(* The sync engine's part: web/src/sync.ts puts tabs in and takes them away   *)
(* without clearing what was composed for the one on the screen.              *)

\* The Saved Workspaces menu: a saved workspace that is open is shown, ...
focusSaved(i) ==
  /\ workspaces[i].id # NoId
  /\ activeWorkspaceIndex' = i
  /\ UNCHANGED <<workspaces, Derived, Pending, minted>>

\* ... a closed one comes out of the library.
openSaved(entry) ==
  /\ Appended([entry EXCEPT !.id = minted + 1, !.subgraphs.ref = minted + 2])
  /\ minted' = minted + 2
  /\ UNCHANGED Derived

rowToEntry(row, id, ref, activeSubgraph) ==
  [row EXCEPT !.id = id, !.subgraphs.ref = ref,
              !.activeSubgraph = Lower(activeSubgraph, Len(row.subgraphs.items))]

\* mergeWorkspaces: the tabs at `kept` stay, those in the domain of `won` with
\* the contents of a newer row, and the workspaces of other devices follow.
Merged(kept, won, news) ==
  [k \in 1 .. Len(kept) + Len(news) |->
     IF k > Len(kept) THEN rowToEntry(news[k - Len(kept)], minted + k, minted + k, 1)
     ELSE LET ws == workspaces[kept[k]]
          IN IF kept[k] \in DOMAIN won
             THEN rowToEntry(won[kept[k]], ws.id, minted + k, ws.activeSubgraph)
             ELSE ws]

\* mergeById finds workspaces by id: one without an id is not kept.
Mergeable(kept) == \A k \in DOMAIN kept : workspaces[kept[k]].id # NoId

\* Mutant of resolveActiveIndex: the position is kept.
SamePosition(prev, active, merged) == Lower(active, Len(merged))

\* The active workspace by its id; by its position if it is gone.
resolveActiveIndex(prev, active, merged) ==
  LET found == {k \in DOMAIN merged : /\ active \in DOMAIN prev
                                      /\ prev[active].id # NoId
                                      /\ merged[k].id = prev[active].id}
  IN IF found # {} THEN CHOOSE k \in found : TRUE ELSE Lower(active, Len(merged))

\* What a pull leaves of `merged`; there is never no tab.
Committed(prev, merged) ==
  LET safeMerged == IF merged = <<>> THEN <<makeDefaultWorkspace(minted + 1)>> ELSE merged
  IN /\ workspaces' = safeMerged
     /\ activeWorkspaceIndex' = resolveActiveIndex(prev, activeWorkspaceIndex, safeMerged)
     /\ UNCHANGED <<Derived, liveSession, asked>>

deltaRefresh(kept, won, news) ==
  /\ Mergeable(kept)
  /\ Committed(workspaces, Merged(kept, won, news))
  /\ minted' = minted + 1 + Len(kept) + Len(news)
  /\ UNCHANGED login

\* onLogin merges the tabs there are, awaits its pushes, and commits.
loginPulled(kept, won, news) ==
  /\ login = NoLogin
  /\ Mergeable(kept)
  /\ login' = [local |-> workspaces, merged |-> Merged(kept, won, news)]
  /\ minted' = minted + 1 + Len(kept) + Len(news)
  /\ UNCHANGED <<workspaces, activeWorkspaceIndex, Derived, liveSession, asked>>

loginCommits ==
  /\ login # NoLogin
  /\ Committed(login.local, login.merged)
  /\ minted' = minted + 1
  /\ login' = NoLogin

-----------------------------------------------------------------------------
(* A live session's part: what another page shows replaces the tabs of the    *)
(* workspace the session is pinned to, whichever is active here.              *)

patchPinnedWorkspace(i, patched) ==
  /\ workspaces[i].id = liveSession /\ liveSession # NoId
  /\ workspaces' = [workspaces EXCEPT ![i] = patched]
  /\ Untouched

reconcileSubgraphs(i, items) ==
  /\ patchPinnedWorkspace(i, [workspaces[i] EXCEPT !.subgraphs = Array(minted + 1, items),
                                                   !.activeSubgraph = Lower(@, Len(items))])
  /\ minted' = minted + 1

reconcileQueryTabs(i, tabs) ==
  /\ patchPinnedWorkspace(i, [workspaces[i] EXCEPT !.queryTabs = tabs,
                                                   !.activeQueryTab = Lower(@, Len(tabs))])
  /\ UNCHANGED minted

-----------------------------------------------------------------------------
(* Composition, live sessions, loading the page *)

\* A failure keeps the supergraph there was.
setComposeResult(sdl) ==
  /\ supergraphSdl' = IF sdl = NoSdl THEN supergraphSdl ELSE sdl
  /\ composeErrors' = (sdl = NoSdl)
  /\ UNCHANGED <<workspaces, activeWorkspaceIndex, Pending, minted>>

\* POST /api/live-session is on its way, ...
startCollaboration ==
  /\ liveSession = NoSession /\ asked = NoSession
  /\ asked' = activeWorkspace.id
  /\ UNCHANGED <<workspaces, activeWorkspaceIndex, Derived, liveSession, login, minted>>

\* ... its answer pins the session to the workspace that is active by then.
setLiveSessionWsUrl ==
  /\ asked # NoSession
  /\ liveSession' = activeWorkspace.id
  /\ asked' = NoSession
  /\ UNCHANGED <<workspaces, activeWorkspaceIndex, Derived, login, minted>>

collaborationFailed ==
  /\ asked # NoSession
  /\ asked' = NoSession
  /\ UNCHANGED <<workspaces, activeWorkspaceIndex, Derived, liveSession, login, minted>>

endLiveSession ==
  /\ liveSession # NoSession
  /\ liveSession' = NoSession
  /\ UNCHANGED <<workspaces, activeWorkspaceIndex, Derived, asked, login, minted>>

\* A reload keeps what partialize keeps; what comes back from JSON shares no
\* array.
reload ==
  /\ workspaces' = [k \in DOMAIN workspaces |->
                      [workspaces[k] EXCEPT !.subgraphs.ref = minted + k]]
  /\ minted' = minted + Len(workspaces)
  /\ Cleared
  /\ liveSession' = NoSession /\ asked' = NoSession /\ login' = NoLogin
  /\ UNCHANGED activeWorkspaceIndex

\* What App.tsx takes for the store of a first visit: the texts of the
\* subgraphs are not looked at.
isFirstVisit ==
  /\ Len(workspaces) = 1
  /\ Len(workspaces[1].subgraphs.items) = Len(DefaultSubgraphs)
  /\ workspaces[1].queryTabs = <<DefaultQuery>>

\* A #w= link: copyShareUrl encoded a workspace, decode gives it back without
\* its id and with its first subgraph tab active.
restore(shared) ==
  LET entry == [shared EXCEPT !.id = NoId, !.subgraphs.ref = minted + 1,
                              !.activeSubgraph = 1]
  IN /\ IF isFirstVisit
        THEN /\ workspaces' = <<entry>> /\ activeWorkspaceIndex' = 1
             /\ Cleared /\ UNCHANGED Pending
        ELSE Opened(entry)
     /\ minted' = minted + 1

\* A ?ls= link: one blank workspace takes the place of all there are.
join ==
  /\ workspaces' = <<Entry(minted + 1, Array(minted + 2, <<NoText>>), <<NoText>>, 1,
                           DefaultInputs)>>
  /\ activeWorkspaceIndex' = 1
  /\ minted' = minted + 2
  /\ asked' = minted + 1
  /\ Cleared
  /\ UNCHANGED <<liveSession, login>>

=============================================================================
