------------------------------ MODULE Workbench ------------------------------
(* The page at work: the user acts on the store (WorkspaceStore), and         *)
(* web/src/useGraphQLPipeline.ts composes the active workspace and runs its   *)
(* query behind two timers and the loading of the WebAssembly core.  A step   *)
(* is one event with the rendering and the effects it causes.                 *)
EXTENDS WorkspaceStore

CONSTANTS
  Broken,    \* the SDLs no composition succeeds with
  MaxOps,    \* what the user and, through the store, other devices do
  MaxPulls   \* the pulls among it

ASSUME WorkbenchAssumption == NoText \in Broken /\ {MaxOps, MaxPulls} \subseteq Nat

VARIABLES
  mounted,        \* App has rendered
  core,           \* corePromise: "none", "loading", "loaded", "failed"
  composeTimer,   \* NoSdl or the subgraphs the pending timer will compose
  autoRun,        \* NoRun or what the pending timer will run
  waiting,        \* NoSdl or what the newest compose that awaits the core will compose
  shown,          \* NoRun or what mockResult and planResult are the results of
  ops,
  pulls,          \* pulls answered so far
  since,          \* history: what the workspace on the screen held since it came up
  foreign,        \* history: another one's supergraph was left there, or awaits the core
  stranded        \* history: cleared with no new array and no compose under way

pipelineVars == <<mounted, core, composeTimer, autoRun, waiting, shown>>
history == <<since, foreign, stranded>>
vars == <<storeVars, pipelineVars, ops, pulls, history>>

NoRun == [none |-> TRUE]

ActiveArray == activeWorkspace.subgraphs

\* The inputs of a run: the effect's dependencies.
CurrentRun ==
  [query |-> activeWorkspace.queryTabs[activeWorkspace.activeQueryTab],
   sdl |-> supergraphSdl, inputs |-> activeWorkspace.inputs]

\* core.compose: the Rust composer, by whether it succeeds.
Composable(items) == \A k \in DOMAIN items : items[k] \notin Broken

Supergraph(items) == IF Composable(items) THEN items ELSE NoSdl

Init ==
  /\ StoreInit
  /\ mounted = FALSE
  /\ core = "none"
  /\ composeTimer = NoSdl
  /\ autoRun = NoRun
  /\ waiting = NoSdl
  /\ shown = NoRun
  /\ ops = 0 /\ pulls = 0
  /\ since = {} /\ foreign = FALSE /\ stranded = FALSE

-----------------------------------------------------------------------------
(* Effects after a render *)

\* Mutant of ComposeDue: only the first change sets the timer.
FirstOnly(changed) == IF changed /\ composeTimer = NoSdl THEN ActiveArray'.items
                                                         ELSE composeTimer

\* [subgraphs]: a new reference cancels the timer and sets it anew.
ComposeDue(changed) == IF changed THEN ActiveArray'.items ELSE composeTimer

\* Mutant of RunDue: the seed and the mock config are no dependencies.
QueryOnly(pending) ==
  IF [CurrentRun' EXCEPT !.inputs = 0] = [CurrentRun EXCEPT !.inputs = 0] THEN pending
  ELSE IF supergraphSdl' = NoSdl THEN NoRun
  ELSE CurrentRun'

\* [currentQuery, supergraphSdl, seed, doRun]: any change cancels the timer; it
\* is set when there is a supergraph.
RunDue(pending) ==
  IF CurrentRun' = CurrentRun THEN pending
  ELSE IF supergraphSdl' = NoSdl THEN NoRun
  ELSE CurrentRun'

Effects ==
  /\ composeTimer' = ComposeDue(ActiveArray' # ActiveArray)
  /\ autoRun' = RunDue(autoRun)

\* History of an operation: `cleared` says whether the code clears what was
\* composed.
Remembered(cleared) ==
  LET items == ActiveArray'.items
      changed == ActiveArray' # ActiveArray
      switched == activeWorkspace'.id # activeWorkspace.id
  IN /\ since' = (IF cleared \/ switched THEN {} ELSE since) \cup {items}
     /\ foreign' = CASE cleared  -> waiting \notin {NoSdl, items}
                      [] switched /\ ~cleared -> {supergraphSdl, waiting} \ {NoSdl, items} # {}
                      [] OTHER    -> foreign
     /\ stranded' = IF changed THEN FALSE
                    ELSE IF cleared THEN composeTimer = NoSdl /\ waiting = NoSdl
                    ELSE stranded

Performed(operation, cleared) ==
  /\ mounted
  /\ operation
  /\ Effects
  /\ Remembered(cleared)
  /\ UNCHANGED <<mounted, core, waiting, shown>>

User(operation, cleared) ==
  /\ ops < MaxOps /\ ops' = ops + 1
  /\ Performed(operation, cleared)
  /\ UNCHANGED pulls

-----------------------------------------------------------------------------
(* The user *)

Workspaces == DOMAIN workspaces
Subgraphs == DOMAIN ActiveArray.items
QueryTabs == DOMAIN activeWorkspace.queryTabs

AddWorkspace == User(addWorkspace, TRUE)
CloneWorkspace == User(cloneWorkspace, TRUE)
RemoveWorkspace(i) == User(removeWorkspace(i), TRUE)
SetActiveWorkspace(i) == User(setActiveWorkspace(i), TRUE)
Import(entry) == User(doImport(entry), TRUE)

AddSubgraph == User(addSubgraph, FALSE)
RemoveSubgraph(i) == User(removeSubgraph(i), FALSE)
SetSubgraphSdl(i, sdl) == User(setSubgraphSdl(i, sdl), FALSE)
RenameSubgraph == User(renameSubgraph, FALSE)
SetActiveSubgraph(i) == User(setActiveSubgraph(i), FALSE)

AddQueryTab == User(addQueryTab, FALSE)
RemoveQueryTab(i) == User(removeQueryTab(i), FALSE)
SetQueryTabQuery(i, query) == User(setQueryTabQuery(i, query), FALSE)
SetActiveQueryTab(i) == User(setActiveQueryTab(i), FALSE)
SetInputs(inputs) == User(setInputs(inputs), FALSE)
ResetToDefaults == User(resetToDefaults, FALSE)

StartCollaboration == User(startCollaboration, FALSE)
EndLiveSession == User(endLiveSession, FALSE)

OpenSaved(entry) == User(openSaved(entry), FALSE)
FocusSaved(i) == User(focusSaved(i), FALSE)

\* The Run button, disabled without a supergraph; it cancels the timer.
RunQuery ==
  /\ mounted
  /\ supergraphSdl # NoSdl
  /\ ops < MaxOps /\ ops' = ops + 1
  /\ autoRun' = NoRun
  /\ shown' = CurrentRun
  /\ UNCHANGED <<storeVars, mounted, core, composeTimer, waiting, pulls, history>>

Reload ==
  /\ mounted
  /\ ops < MaxOps /\ ops' = ops + 1
  /\ reload
  /\ mounted' = FALSE /\ core' = "none"
  /\ composeTimer' = NoSdl /\ autoRun' = NoRun /\ waiting' = NoSdl /\ shown' = NoRun
  /\ since' = {} /\ foreign' = FALSE /\ stranded' = FALSE
  /\ UNCHANGED pulls

-----------------------------------------------------------------------------
(* Other devices and pages, through the sync engine and a live session *)

\* One row of a pull at most is newer than a tab here or of a new workspace;
\* any number of tabs, of as many as Selections knows, may be deleted or closed
\* elsewhere.  The answer to a push
\* of a login has the contents of the tab.
Newer == UNION {[{i} -> Shared \cup {workspaces[i]}] : i \in Workspaces}

Pulled(merge(_, _, _)) ==
  /\ Len(workspaces) \in DOMAIN Selections
  /\ \E kept \in Selections[Len(workspaces)] :
       \/ merge(kept, <<>>, <<>>)
       \/ \E won \in Newer : merge(kept, won, <<>>)
       \/ \E row \in Shared : merge(kept, <<>>, <<row>>)

Pull(merge(_, _, _)) ==
  /\ ops < MaxOps /\ ops' = ops + 1
  /\ pulls < MaxPulls /\ pulls' = pulls + 1
  /\ Performed(Pulled(merge), FALSE)

DeltaRefresh == Pull(deltaRefresh)
LoginPulled == Pull(loginPulled)

LoginCommits ==
  /\ Performed(loginCommits, FALSE)
  /\ UNCHANGED <<ops, pulls>>

LoginFails ==
  /\ login # NoLogin /\ login' = NoLogin
  /\ UNCHANGED <<workspaces, activeWorkspaceIndex, Derived, liveSession, asked, minted>>
  /\ UNCHANGED <<pipelineVars, ops, pulls, history>>

ReconcileSubgraphs(i, items) == User(reconcileSubgraphs(i, items), FALSE)
ReconcileQueryTabs(i, tabs) == User(reconcileQueryTabs(i, tabs), FALSE)

-----------------------------------------------------------------------------
(* The page *)

\* The first effects, those of the address among them.
Mount(opening) ==
  /\ ~mounted /\ mounted' = TRUE
  /\ opening
  /\ composeTimer' = ActiveArray'.items
  /\ since' = {ActiveArray'.items}
  /\ UNCHANGED <<core, autoRun, waiting, shown, ops, pulls, foreign, stranded>>

MountPlain == Mount(UNCHANGED storeVars)
MountLink(entry) == Mount(restore(entry))
MountJoin == Mount(join)

\* The answer to POST or GET /api/live-session.
SessionAnswer ==
  /\ mounted
  /\ setLiveSessionWsUrl \/ collaborationFailed
  /\ UNCHANGED <<pipelineVars, ops, pulls, history>>

Composed(items) ==
  /\ setComposeResult(Supergraph(items))
  /\ autoRun' = RunDue(autoRun)
  /\ UNCHANGED <<mounted, shown, ops, pulls, since, stranded>>

\* 300 ms after the last change.  A compose that waited for the core before this
\* one finds another generation once the core is there, and ends.
ComposeFires ==
  /\ composeTimer # NoSdl /\ composeTimer' = NoSdl
  /\ \/ /\ core \in {"none", "loading"}
        /\ core' = "loading"
        /\ waiting' = composeTimer
        /\ foreign' = FALSE
        /\ UNCHANGED <<storeVars, mounted, autoRun, shown, ops, pulls, since, stranded>>
     \/ /\ core = "loaded"
        /\ Composed(composeTimer)
        /\ foreign' = (foreign /\ ~Composable(composeTimer))
        /\ UNCHANGED <<core, waiting>>
     \/ /\ core = "failed"
        /\ UNCHANGED <<storeVars, mounted, core, autoRun, waiting, shown, ops, pulls, history>>

CoreLoaded ==
  /\ core = "loading" /\ core' = "loaded"
  /\ waiting' = NoSdl
  /\ Composed(waiting)
  /\ UNCHANGED <<composeTimer, foreign>>

\* loadCore keeps the rejected promise.
CoreFailed ==
  /\ core = "loading" /\ core' = "failed"
  /\ waiting' = NoSdl
  /\ UNCHANGED <<storeVars, mounted, composeTimer, autoRun, shown, ops, pulls, history>>

\* 400 ms after the last change.
AutoRunFires ==
  /\ autoRun # NoRun /\ autoRun' = NoRun
  /\ shown' = autoRun
  /\ UNCHANGED <<storeVars, mounted, core, composeTimer, waiting, ops, pulls, history>>

-----------------------------------------------------------------------------
UserStep ==
  \/ AddWorkspace \/ CloneWorkspace \/ AddSubgraph \/ RenameSubgraph \/ AddQueryTab
  \/ ResetToDefaults \/ StartCollaboration \/ EndLiveSession \/ RunQuery \/ Reload
  \/ \E i \in Workspaces : RemoveWorkspace(i) \/ SetActiveWorkspace(i)
  \/ \E i \in Subgraphs : RemoveSubgraph(i) \/ SetActiveSubgraph(i)
  \/ \E i \in Subgraphs, sdl \in Sdls : SetSubgraphSdl(i, sdl)
  \/ \E i \in QueryTabs : RemoveQueryTab(i) \/ SetActiveQueryTab(i)
  \/ \E i \in QueryTabs, query \in Queries : SetQueryTabQuery(i, query)
  \/ \E inputs \in Inputs : SetInputs(inputs)
  \/ \E i \in Workspaces : FocusSaved(i)
  \/ \E entry \in Shared : Import(entry) \/ OpenSaved(entry)

\* The pages of a session show the defaults or what a link carried.
OtherStep ==
  \/ DeltaRefresh \/ LoginPulled \/ LoginCommits \/ LoginFails
  \/ \E i \in Workspaces :
       \/ \E items \in {DefaultSubgraphs} \cup {entry.subgraphs.items : entry \in Shared} :
            ReconcileSubgraphs(i, items)
       \/ \E tabs \in {<<DefaultQuery>>} \cup {entry.queryTabs : entry \in Shared} :
            ReconcileQueryTabs(i, tabs)

Mounting == MountPlain \/ MountJoin \/ \E entry \in Shared : MountLink(entry)

PageStep ==
  \/ Mounting \/ SessionAnswer
  \/ ComposeFires \/ CoreLoaded \/ CoreFailed \/ AutoRunFires

Next == UserStep \/ OtherStep \/ PageStep

\* The browser renders, fires due timers and settles the load of the core: while
\* one of these is due, one of them happens at last.
Fairness == WF_vars(Mounting \/ ComposeFires \/ AutoRunFires \/ CoreLoaded \/ CoreFailed)

Spec == Init /\ [][Next]_vars /\ Fairness

-----------------------------------------------------------------------------
(* Properties *)

\* Whatever is added, removed, imported, restored, joined, merged or patched:
\* there is a workspace, the active index points at one, and the indices of
\* every workspace, shown or not, point at its tabs.
TabsValid ==
  /\ workspaces # <<>>
  /\ activeWorkspaceIndex \in 1 .. Len(workspaces)
  /\ \A k \in DOMAIN workspaces : WellFormed(workspaces[k])

\* No two workspaces share an id: the sync engine and live sessions find a
\* workspace by it.
IdsUnique ==
  \A j, k \in DOMAIN workspaces :
    workspaces[j].id = workspaces[k].id /\ workspaces[j].id # NoId => j = k

\* Tabs come and go around the shown one, and it stays in place, though the
\* indices behind it shift: when another workspace or another query is closed,
\* and when a pull takes workspaces away, unless it is among them.
RemovalKeepsPlace ==
  [][/\ \A i \in Workspaces \ {activeWorkspaceIndex} :
          RemoveWorkspace(i) => activeWorkspace' = activeWorkspace
     /\ \A i \in QueryTabs \ {activeWorkspace.activeQueryTab} :
          RemoveQueryTab(i) => CurrentRun' = CurrentRun
     /\ pulls' # pulls /\ activeWorkspace.id # NoId =>
          \A k \in DOMAIN workspaces' :
            workspaces'[k].id = activeWorkspace.id => activeWorkspaceIndex' = k]_vars

\* The supergraph belongs to the workspace on the screen: it was composed from
\* what that workspace held since it came up.  Another's can only come from a
\* compose that awaited the core while the user switched, or be left there by
\* the sync engine, and only until the workspace on the screen composes.
OwnSupergraph == supergraphSdl # NoSdl /\ ~foreign => supergraphSdl \in since

\* Once the user pauses, a workspace that composes has its supergraph, unless
\* it was cleared without a change of the array the effect looks at.
EventuallyComposed ==
  <>[](core # "failed" /\ ~stranded /\ Composable(ActiveArray.items)
         => supergraphSdl = ActiveArray.items)

\* Once the user pauses, the results on the screen are those of the query, the
\* seed, the mock config and the supergraph on the screen.
EventuallyShown == <>[](supergraphSdl # NoSdl => shown = CurrentRun)

\* What setActiveWorkspace promises: derived state is cleared "so compose
\* re-runs against the newly active workspace's subgraphs".
ComposeReRuns ==
  <>[](core # "failed" /\ Composable(ActiveArray.items)
         => supergraphSdl = ActiveArray.items)
=============================================================================
