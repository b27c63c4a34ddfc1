----------------------------- MODULE SyncEngine -----------------------------
(***************************************************************************)
(* The cloud sync engine, web/src/sync.ts, on several devices of one       *)
(* account, against the server's table.                                    *)
(*                                                                         *)
(* A device is single-threaded JavaScript: an action is what runs between  *)
(* two awaits.  Everything a function does up to its first await (state    *)
(* changes, the store subscription they trigger, the request it sends) is  *)
(* part of the action; what follows the await is the action that handles   *)
(* the reply.  The server's handlers give up control at every await too:   *)
(* the time a write is stamped with, its statement, the read-back of a PUT *)
(* and a GET's cursor and query are steps of their own, as in              *)
(* WorkspaceApi.                                                           *)
(* Only the SELECT of a PUT's ownership check is left out: with the one    *)
(* account, and clients that always send `saved` and `open`, its result    *)
(* is not used.                                                            *)
(*                                                                         *)
(* Workspaces are synchronized independently of each other, so only the    *)
(* tabs of the modelled ids are kept: the tab bar is assumed to hold some  *)
(* other tab too (the store never leaves it empty).  Encryption, the       *)
(* active tab and the status indicator are left out.                       *)
(***************************************************************************)
EXTENDS WorkspaceTable, Sequences

CONSTANTS Devices,
          Account,    \* the one account logged in
          NoEntry,    \* a workspace the tab bar, library or queue does not hold
          UserOps,    \* the operations the users of this instance perform
          Starts,     \* initial situations, of those Init lists
          CanDrop,    \* may a call fail while its device is online?
          PullsOverlap, \* may a pull start while one of its device is unanswered?
          MaxOps,     \* bound: user operations; each makes contents of its own
          MaxFaults,  \* bound: outages, and failures of calls while online
          MaxPolls,   \* bound: GETs sent
          MaxClock    \* bound: the server's clock stands still from there on

ASSUME AccountAssumption == Account \in Users
ASSUME ContentsAssumption == Contents = 0 .. MaxOps
ASSUME BoundsAssumption ==
  MaxOps \in Nat /\ MaxFaults \in Nat /\ MaxPolls \in Nat /\ MaxClock \in Nat
  /\ CanDrop \in BOOLEAN /\ PullsOverlap \in BOOLEAN

VARIABLES
  table,     \* the server's table
  clock,     \* the latest instant the server took, for a stamp or a cursor
  late,      \* per device: ids whose current row was written after a query for
             \* the device, yet stamped before that query's cursor (history)
  tabs,      \* per device, per id: the store's workspaces
  library,   \* useSavedWorkspaceLibrary: per device, per id, its entries in order;
             \* more than one is not what the code wants, and happens
  timers,    \* debounceTimers: ids with an autosave pending
  offlineQueue, offlineDeletes,
  auth,      \* "anonymous", "loading" or "authed"
  online,    \* navigator.onLine
  isSyncing, \* as it stands between two actions: true only inside onLogin
  syncCursor,
  puts, deletes, pulls,  \* calls in flight
  login,     \* progress of onLogin
  flush,     \* progress of each flushOfflineQueue
  born,      \* ids that were ever created (history)
  ops, faults, polls     \* history, for the bounds

server == <<table, clock, late>>
stores == <<tabs, library>>
queues == <<offlineQueue, offlineDeletes>>
session == <<auth, online>>
engine == <<timers, isSyncing, syncCursor>>
network == <<puts, deletes, pulls>>
runs == <<login, flush>>
bounds == <<born, ops, faults, polls>>
vars == <<server, stores, queues, session, engine, network, runs, bounds>>

Entry == [content : Contents, version : Nat, saved : BOOLEAN, open : BOOLEAN]
EntryMap == [Ids -> Entry \cup {NoEntry}]

ASSUME NoEntryIsNoEntry == NoEntry \notin Entry

\* flushOfflineQueue runs on the "online" event and at the end of a login.
Flushes == {"onlineFlush", "loginFlush"}

\* Which code waits for a call's reply: a push or delete of its own, a flush,
\* the login, or (after a page reload) nothing any more.
Waiters == {"own", "login", "nobody"} \cup Flushes

Has(store, d, id) == store[d][id] # NoEntry

\* The library's entries of id, and the one that `find` returns.
Filed(d, id) == library[d][id] # <<>>
FirstFiled(d, id) == Head(library[d][id])

\* Mutant of EntryOf: the row itself is put into the store.
RowAsIs(row) == row

\* rowToEntry
EntryOf(row) == [content |-> row.content, version |-> row.version,
                 saved |-> row.saved, open |-> row.open]

\* Mutant of Bump: the version stays as it is.
NoBump(e) == e

Bump(e) == [e EXCEPT !.version = @ + 1]

Nothing == [id \in Ids |-> NoEntry]
NoneFiled == [id \in Ids |-> <<>>]
NoLogin == [stage |-> "idle", stash |-> Nothing, ids |-> {}]
NoFlush == [stage |-> "idle", queued |-> Nothing, ids |-> {}]

HasSession(d) == auth[d] # "anonymous"

\* unsubStore reacts to a change of the tabs.
Watching(d) == auth[d] = "authed" /\ ~isSyncing[d]

-----------------------------------------------------------------------------
(* Initial situations *)

\* Every device knows row, and holds it where it belongs.
SyncedWith(row) ==
  /\ table = [id \in Ids |-> row]
  /\ clock = 2
  /\ auth = [d \in Devices |-> "authed"]
  /\ syncCursor = [d \in Devices |-> 2]
  /\ IF row.saved /\ ~row.open
     THEN /\ tabs = [d \in Devices |-> Nothing]
          /\ library = [d \in Devices |-> [id \in Ids |-> <<EntryOf(row)>>]]
     ELSE /\ tabs = [d \in Devices |-> [id \in Ids |-> EntryOf(row)]]
          /\ library = [d \in Devices |-> NoneFiled]
  /\ born = Ids

FirstRow(saved, open) ==
  [owner |-> Account, content |-> 0, version |-> 1, updatedAt |-> 1,
   deleted |-> FALSE, saved |-> saved, open |-> open]

\* The server knows nothing.  One device may hold workspaces made anonymously.
Unsynced(status, held) ==
  /\ table = [id \in Ids |-> NoRow]
  /\ clock = 2
  /\ auth = [d \in Devices |-> status]
  /\ syncCursor = [d \in Devices |-> IF status = "authed" THEN 2 ELSE 0]
  /\ tabs = held
  /\ library = [d \in Devices |-> NoneFiled]

Local == [id \in Ids |-> [content |-> 0, version |-> 1, saved |-> FALSE, open |-> TRUE]]

Init ==
  /\ \/ "synced" \in Starts /\ SyncedWith(FirstRow(FALSE, TRUE))
     \/ "saved" \in Starts /\ SyncedWith(FirstRow(TRUE, TRUE))
     \/ "closed" \in Starts /\ SyncedWith(FirstRow(TRUE, FALSE))
     \/ /\ "new" \in Starts
        /\ Unsynced("authed", [d \in Devices |-> Nothing])
        /\ born = {}
     \/ /\ "anonymous" \in Starts
        /\ \E d \in Devices :
             Unsynced("anonymous", [e \in Devices |-> IF e = d THEN Local ELSE Nothing])
        /\ born = Ids
  /\ late = [d \in Devices |-> {}]
  /\ timers = [d \in Devices |-> {}]
  /\ offlineQueue = [d \in Devices |-> Nothing]
  /\ offlineDeletes = [d \in Devices |-> {}]
  /\ online = [d \in Devices |-> TRUE]
  /\ isSyncing = [d \in Devices |-> FALSE]
  /\ puts = {} /\ deletes = {} /\ pulls = {}
  /\ login = [d \in Devices |-> NoLogin]
  /\ flush = [d \in Devices |-> [f \in Flushes |-> NoFlush]]
  /\ ops = 0 /\ faults = 0 /\ polls = 0

-----------------------------------------------------------------------------
(* The shared tails: what each does up to its first await. *)

PutCall(d, id, ws, by) ==
  [dev |-> d, id |-> id, ws |-> ws, by |-> by, signed |-> HasSession(d),
   stage |-> "sent", now |-> 0, code |-> 0, row |-> NoRow]

\* Mutant of Queue: what cannot be sent is dropped.
QueueNot(d, id, ws) == UNCHANGED offlineQueue

Queue(d, id, ws) == offlineQueue' = [offlineQueue EXCEPT ![d][id] = ws]

\* pushEntry
PushEntry(d, id, ws, by) ==
  IF online[d]
  THEN puts' = puts \cup {PutCall(d, id, ws, by)} /\ UNCHANGED offlineQueue
  ELSE Queue(d, id, ws) /\ UNCHANGED puts

\* requestDelete: the request sent at once, or the ids left in the queue.
DeleteCalls(d, ids, by) ==
  {[dev |-> d, id |-> id, by |-> by, signed |-> HasSession(d), stage |-> "sent",
    now |-> 0, code |-> 0] : id \in IF online[d] THEN ids ELSE {}}

\* Mutant of DeletesQueued: a delete requested offline is dropped.
DeletesDropped(d, ids) == {}

DeletesQueued(d, ids) == IF online[d] THEN {} ELSE ids

RequestDelete(d, id, by) ==
  /\ deletes' = deletes \cup DeleteCalls(d, {id}, by)
  /\ offlineDeletes' = [offlineDeletes EXCEPT ![d] = @ \cup DeletesQueued(d, {id})]

\* autoSave: the version goes up in the store before the request is sent.
AutoSave(d, id, by) ==
  IF online[d]
  THEN LET bumped == Bump(tabs[d][id])
       IN /\ tabs' = [tabs EXCEPT ![d][id] = bumped]
          /\ isSyncing' = [isSyncing EXCEPT ![d] = FALSE]
          /\ PushEntry(d, id, bumped, by)
  ELSE /\ Queue(d, id, tabs[d][id])
       /\ UNCHANGED <<tabs, isSyncing, puts>>

-----------------------------------------------------------------------------
(* The user.  A change of the tabs reaches unsubStore in the same action. *)

Does(op) == op \in UserOps /\ ops < MaxOps /\ ops' = ops + 1

\* unsubStore on a new or changed tab: (re)start its debounce timer.
ChangeTab(d, id, e) ==
  /\ tabs' = [tabs EXCEPT ![d][id] = e]
  /\ timers' = IF Watching(d) THEN [timers EXCEPT ![d] = @ \cup {id}] ELSE timers
  /\ UNCHANGED <<server, library, queues, session, isSyncing, syncCursor, network,
                 runs, faults, polls>>

\* addWorkspace
Create(d, id) ==
  /\ Does("edit")
  /\ id \notin born /\ born' = born \cup {id}
  /\ ChangeTab(d, id, [content |-> ops', version |-> 1, saved |-> FALSE, open |-> TRUE])

\* Any edit of an open workspace's contents or name.
Edit(d, id) ==
  /\ Does("edit")
  /\ Has(tabs, d, id)
  /\ ChangeTab(d, id, [tabs[d][id] EXCEPT !.content = ops'])
  /\ UNCHANGED born

\* setWorkspaceSaved, offered to logged-in users.
ToggleSaved(d, id) ==
  /\ Does("save")
  /\ Has(tabs, d, id) /\ auth[d] = "authed"
  /\ ChangeTab(d, id, [tabs[d][id] EXCEPT !.saved = ~@])
  /\ UNCHANGED born

\* removeWorkspace, with unsubStore's reaction to a tab that went away.
RemoveTab(d, id) ==
  /\ Has(tabs, d, id)
  /\ tabs' = [tabs EXCEPT ![d][id] = NoEntry]
  /\ IF Watching(d)
     THEN /\ RequestDelete(d, id, "own")
          /\ offlineQueue' = [offlineQueue EXCEPT ![d][id] = NoEntry]
     ELSE UNCHANGED <<queues, deletes>>
  /\ UNCHANGED <<server, library, session, engine, puts, pulls, runs, born,
                 faults, polls>>

\* Closing the tab of a workspace that is not saved deletes the workspace.
CloseUnsaved(d, id) ==
  Does("close") /\ Has(tabs, d, id) /\ ~tabs[d][id].saved /\ RemoveTab(d, id)

\* Between tab bar and library: isSyncing, held meanwhile, ends FALSE.
MoveSaved(d, id, tab, filed, moved) ==
  /\ tabs' = [tabs EXCEPT ![d][id] = tab]
  /\ library' = [library EXCEPT ![d][id] = filed]
  /\ isSyncing' = [isSyncing EXCEPT ![d] = FALSE]
  /\ PushEntry(d, id, moved, "own")
  /\ UNCHANGED <<server, offlineDeletes, session, timers, syncCursor, deletes,
                 pulls, runs, born, faults, polls>>

\* closeSavedWorkspace
CloseSaved(d, id) ==
  LET closed == Bump([tabs[d][id] EXCEPT !.open = FALSE])
  IN /\ Does("close")
     /\ Has(tabs, d, id) /\ tabs[d][id].saved
     /\ MoveSaved(d, id, NoEntry, Append(library[d][id], closed), closed)

\* openSavedWorkspace of a workspace not open yet.
OpenSaved(d, id) ==
  LET opened == Bump([FirstFiled(d, id) EXCEPT !.open = TRUE])
  IN /\ Does("open")
     /\ Filed(d, id) /\ ~Has(tabs, d, id)
     /\ MoveSaved(d, id, opened, <<>>, opened)

\* renameSavedWorkspace of a closed one; of an open one it is Edit.
RenameClosed(d, id) ==
  LET renamed == Bump([FirstFiled(d, id) EXCEPT !.content = ops'])
  IN /\ Does("rename")
     /\ Filed(d, id) /\ ~Has(tabs, d, id)
     /\ library' = [library EXCEPT ![d][id] = [i \in DOMAIN @ |-> renamed]]
     /\ PushEntry(d, id, renamed, "own")
     /\ UNCHANGED <<server, tabs, offlineDeletes, session, engine, deletes,
                    pulls, runs, born, faults, polls>>

\* deleteSavedWorkspace: an open one goes the way of a closed tab, a closed one
\* is deleted directly.
DeleteOpen(d, id) ==
  Does("delete") /\ Has(tabs, d, id) /\ tabs[d][id].saved /\ RemoveTab(d, id)

DeleteClosed(d, id) ==
  /\ Does("delete")
  /\ Filed(d, id) /\ ~Has(tabs, d, id)
  /\ library' = [library EXCEPT ![d][id] = <<>>]
  /\ RequestDelete(d, id, "own")
  /\ UNCHANGED <<server, tabs, offlineQueue, session, engine, puts, pulls, runs,
                 born, faults, polls>>

-----------------------------------------------------------------------------
(* Autosave and pulls *)

\* A debounce timer fires; autoSave finds nothing to save if the tab is gone.
TimerFires(d, id) ==
  /\ id \in timers[d]
  /\ timers' = [timers EXCEPT ![d] = @ \ {id}]
  /\ IF Has(tabs, d, id)
     THEN AutoSave(d, id, "own")
     ELSE UNCHANGED <<tabs, offlineQueue, isSyncing, puts>>
  /\ UNCHANGED <<server, library, offlineDeletes, session, syncCursor, deletes,
                 pulls, runs, bounds>>

PullCall(d, by, since) ==
  [dev |-> d, by |-> by, since |-> since, stage |-> "sent",
   rows |-> [id \in Ids |-> NoRow], cursor |-> 0]

\* deltaRefresh, on focus or by polling.  The throttle starts a pull 15 s after
\* the last one at the earliest, so a second one overlaps only a slow first one.
DeltaRefresh(d) ==
  /\ auth[d] = "authed" /\ online[d]
  /\ PullsOverlap \/ \A q \in pulls : q.dev # d
  /\ polls < MaxPolls /\ polls' = polls + 1
  /\ pulls' = pulls \cup {PullCall(d, "own", syncCursor[d])}
  /\ UNCHANGED <<server, stores, queues, session, engine, puts, deletes, runs,
                 born, ops, faults>>

\* mergeById: last write wins per id, ties stay local.  A row of an excluded id
\* belongs elsewhere.
MergeById(local, rows, excluded) ==
  [id \in Ids |->
    LET loc == local[id]  row == rows[id]
        remoteWins == loc = NoEntry \/ row.version > loc.version
    IN IF row = NoRow THEN loc
       ELSE IF row.deleted THEN NoEntry
       ELSE IF ~remoteWins THEN loc
       ELSE IF id \in excluded THEN NoEntry
       ELSE EntryOf(row)]

\* The rows of saved workspaces, by whether they are open.
SavedRows(rows, open) ==
  {id \in Ids : rows[id] # NoRow /\ rows[id].saved /\ rows[id].open = open}

MergeWorkspaces(local, rows) == MergeById(local, rows, SavedRows(rows, FALSE))

\* The Map of mergeById keeps the last entry of an id.
MergeLibrary(local, rows, excluded) ==
  LET last == [id \in Ids |-> IF local[id] = <<>> THEN NoEntry
                              ELSE local[id][Len(local[id])]]
      merged == MergeById(last, rows, excluded)
  IN [id \in Ids |-> IF merged[id] = NoEntry THEN <<>> ELSE <<merged[id]>>]

\* Mutant of MergeSavedLibrary: the other half of the saved workspaces.
MergeOpenSaved(local, rows) == MergeLibrary(local, rows, Ids \ SavedRows(rows, TRUE))

MergeSavedLibrary(local, rows) ==
  MergeLibrary(local, rows, Ids \ SavedRows(rows, FALSE))

\* deltaRefresh once its rows are here.
DeltaApplied(q) ==
  LET d == q.dev
  IN /\ q \in pulls /\ q.by = "own" /\ q.stage = "answered"
     /\ pulls' = pulls \ {q}
     /\ syncCursor' = [syncCursor EXCEPT ![d] = q.cursor]
     /\ IF \E id \in Ids : q.rows[id] # NoRow
        THEN /\ tabs' = [tabs EXCEPT ![d] = MergeWorkspaces(@, q.rows)]
             /\ library' = [library EXCEPT ![d] = MergeSavedLibrary(@, q.rows)]
             /\ isSyncing' = [isSyncing EXCEPT ![d] = FALSE]
        ELSE UNCHANGED <<stores, isSyncing>>
     /\ UNCHANGED <<server, queues, session, timers, puts, deletes, runs,
                    bounds>>
-----------------------------------------------------------------------------
(* The server's handlers, from one await to the next; a call's stage is what   *)
(* has been done for it.                                                       *)

\* Date.now() never goes back.
Instants == {clock} \cup {now \in {clock + 1} : now <= MaxClock}

Becomes(calls, c, next) == (calls \ {c}) \cup {next}

\* Is a call's write still to come?
Due(c) == c.stage \in {"sent", "stamped"}

\* requireUser lets a call in that came with a session.  If that has ended since,
\* it was let in before, or is refused.
LetIn(c) == c.stage = "sent" /\ (HasSession(c.dev) \/ c.signed)
Refused(c) == c.stage = "sent" /\ ~HasSession(c.dev)

RefusePut(p) ==
  /\ p \in puts /\ Refused(p)
  /\ puts' = Becomes(puts, p, [p EXCEPT !.stage = "answered", !.code = 401])
  /\ UNCHANGED <<server, stores, queues, session, engine, deletes, pulls, runs,
                 bounds>>

\* upsertWorkspace takes the time before it sends its statement.
StampPut(p) ==
  /\ p \in puts /\ LetIn(p)
  /\ clock' \in Instants
  /\ puts' = Becomes(puts, p, [p EXCEPT !.stage = "stamped", !.now = clock'])
  /\ UNCHANGED <<table, late, stores, queues, session, engine, deletes, pulls,
                 runs, bounds>>

\* Is a write stamped with now left out by a delta of d?  A query that ran already
\* has a later cursor, or one under way asks for later rows.
Passed(d, now) ==
  \/ syncCursor[d] > now
  \/ \E q \in pulls : /\ q.dev = d
                      /\ \/ q.since > now
                         \/ q.stage = "answered" /\ q.cursor > now

Wrote(id, now) ==
  late' = [d \in Devices |-> IF Passed(d, now) THEN late[d] \cup {id}
                                               ELSE late[d] \ {id}]

WritePut(p) ==
  /\ p \in puts /\ p.stage = "stamped"
  /\ table' = Upserted(table, p.id, Account, p.ws, p.now)
  /\ IF Wins(table, p.id, Account, p.ws.version) THEN Wrote(p.id, p.now)
                                                 ELSE UNCHANGED late
  /\ puts' = IF p.by = "nobody" THEN puts \ {p}
             ELSE Becomes(puts, p, [p EXCEPT !.stage = "written", !.now = 0])
  /\ UNCHANGED <<clock, stores, queues, session, engine, deletes, pulls, runs,
                 bounds>>

\* The verdict comes from a second read: 200, or 409 with the row.  A row that is
\* not the caller's is answered 404, which no call meets with one account.
AnswerPut(p) ==
  LET row == OwnRow(table, p.id, Account)
      code == IF row = NoRow THEN 404
              ELSE IF Accepted(row, p.ws.version) THEN 200 ELSE 409
  IN /\ p \in puts /\ p.stage = "written"
     /\ puts' = Becomes(puts, p, [p EXCEPT !.stage = "answered", !.code = code,
                                           !.row = row])
     /\ UNCHANGED <<server, stores, queues, session, engine, deletes, pulls,
                    runs, bounds>>

RefuseDelete(c) ==
  /\ c \in deletes /\ Refused(c)
  /\ deletes' = Becomes(deletes, c, [c EXCEPT !.stage = "answered", !.code = 401])
  /\ UNCHANGED <<server, stores, queues, session, engine, puts, pulls, runs,
                 bounds>>

\* softDeleteWorkspace stamps like upsertWorkspace.
StampDelete(c) ==
  /\ c \in deletes /\ LetIn(c)
  /\ clock' \in Instants
  /\ deletes' = Becomes(deletes, c, [c EXCEPT !.stage = "stamped", !.now = clock'])
  /\ UNCHANGED <<table, late, stores, queues, session, engine, puts, pulls,
                 runs, bounds>>

WriteDelete(c) ==
  LET found == Owns(table, c.id, Account)
  IN /\ c \in deletes /\ c.stage = "stamped"
     /\ table' = SoftDeleted(table, c.id, Account, c.now)
     /\ IF found THEN Wrote(c.id, c.now) ELSE UNCHANGED late
     /\ deletes' = Becomes(deletes, c,
                          [c EXCEPT !.stage = "answered", !.now = 0,
                                    !.code = IF found THEN 204 ELSE 404])
     /\ UNCHANGED <<clock, stores, queues, session, engine, puts, pulls, runs,
                    bounds>>

\* The cursor is taken before the query is sent.  Pulls are only sent with a
\* session; one that is refused because that has ended fails (DeltaFails,
\* LoginFails).
StampPull(q) ==
  /\ q \in pulls /\ q.stage = "sent"
  /\ clock' \in Instants
  /\ pulls' = Becomes(pulls, q, [q EXCEPT !.stage = "stamped", !.cursor = clock'])
  /\ UNCHANGED <<table, late, stores, queues, session, engine, puts, deletes,
                 runs, bounds>>

AnswerPull(q) ==
  LET changed == ChangedSince(table, Account, q.since)
  IN /\ q \in pulls /\ q.stage = "stamped"
     /\ pulls' = Becomes(pulls, q,
          [q EXCEPT !.stage = "answered",
                    !.rows = [id \in Ids |-> IF id \in changed THEN table[id]
                                                               ELSE NoRow]])
     /\ UNCHANGED <<server, stores, queues, session, engine, puts, deletes, runs,
                    bounds>>

-----------------------------------------------------------------------------
(* Replies of pushes and deletes *)

\* A 200 is not adopted, and a 401 counts as done.
PutDone(p) ==
  /\ p \in puts /\ p.by \in {"own"} \cup Flushes /\ p.code \in {200, 401}
  /\ puts' = puts \ {p}
  /\ UNCHANGED <<server, stores, queues, session, engine, deletes, pulls, runs,
                 bounds>>

\* Mutant of Adopts: no guard against a late answer.
AdoptsAlways(local, row) == TRUE

\* A 409's row replaces a tab that has not moved past it.
Adopts(local, row) == row.version >= local.version

\* A 409 brings the server's row into the tabs; the library is left alone.
PutConflict(p) ==
  LET d == p.dev
  IN /\ p \in puts /\ p.by \in {"own"} \cup Flushes /\ p.code = 409
     /\ puts' = puts \ {p}
     /\ tabs' = IF Has(tabs, d, p.id) /\ Adopts(tabs[d][p.id], p.row)
                THEN [tabs EXCEPT ![d][p.id] = EntryOf(p.row)] ELSE tabs
     /\ isSyncing' = [isSyncing EXCEPT ![d] = FALSE]
     /\ UNCHANGED <<server, library, queues, session, timers, syncCursor,
                    deletes, pulls, runs, bounds>>

\* A call fails: its request is lost or late, or its reply is lost.  While the
\* device is online that is a fault of its own.
Fails(d) ==
  IF online[d] THEN CanDrop /\ faults < MaxFaults /\ faults' = faults + 1
               ELSE UNCHANGED faults

\* The calls without c; its write, if still to come, may still be made.
Abandoned(calls, c) ==
  (calls \ {c}) \cup IF Due(c) THEN {[c EXCEPT !.by = "nobody"]} ELSE {}

\* pushEntry's catch: what the tab holds now, or else what was sent, is queued.
PutFails(p) ==
  LET d == p.dev
  IN /\ p \in puts /\ p.by \in {"own"} \cup Flushes
     /\ Fails(d)
     /\ puts' = Abandoned(puts, p)
     /\ Queue(d, p.id, IF Has(tabs, d, p.id) THEN tabs[d][p.id] ELSE p.ws)
     /\ UNCHANGED <<server, stores, offlineDeletes, session, engine, deletes,
                    pulls, runs, born, ops, polls>>

\* deleteWorkspace resolves on 204 and on 404.
DeleteDone(c) ==
  /\ c \in deletes /\ c.code \in {204, 404}
  /\ deletes' = deletes \ {c}
  /\ UNCHANGED <<server, stores, queues, session, engine, puts, pulls, runs,
                 bounds>>

\* requestDelete's catch, for a failed call or an answer of 401.
DeleteFails(c) ==
  /\ c \in deletes /\ c.by # "nobody"
  /\ IF c.code = 401 THEN UNCHANGED faults ELSE Fails(c.dev)
  /\ deletes' = Abandoned(deletes, c)
  /\ offlineDeletes' = [offlineDeletes EXCEPT ![c.dev] = @ \cup {c.id}]
  /\ UNCHANGED <<server, stores, offlineQueue, session, engine, puts, pulls,
                 runs, born, ops, polls>>

\* deltaRefresh's catch: nothing but a log entry.
DeltaFails(q) ==
  /\ q \in pulls /\ q.by = "own"
  /\ IF HasSession(q.dev) THEN Fails(q.dev) ELSE UNCHANGED faults
  /\ pulls' = pulls \ {q}
  /\ UNCHANGED <<server, stores, queues, session, engine, puts, deletes, runs,
                 born, ops, polls>>

-----------------------------------------------------------------------------
(* flushOfflineQueue: deletes first, each awaited, then the pushes queued by    *)
(* then, each awaited.                                                         *)

StartFlush(d, f, queued) ==
  /\ flush' = [flush EXCEPT ![d][f] =
                 [NoFlush EXCEPT !.stage = "deletes", !.ids = queued]]
  /\ offlineDeletes' = [offlineDeletes EXCEPT ![d] = {}]

Awaits(d, by) == \/ \E p \in puts : p.dev = d /\ p.by = by
                 \/ \E c \in deletes : c.dev = d /\ c.by = by

FlushDelete(d, f, id) ==
  /\ flush[d][f].stage = "deletes" /\ id \in flush[d][f].ids /\ ~Awaits(d, f)
  /\ flush' = [flush EXCEPT ![d][f].ids = @ \ {id}]
  /\ RequestDelete(d, id, f)
  /\ UNCHANGED <<server, stores, offlineQueue, session, engine, puts, pulls,
                 login, bounds>>

FlushTakeQueue(d, f) ==
  /\ flush[d][f].stage = "deletes" /\ flush[d][f].ids = {} /\ ~Awaits(d, f)
  /\ flush' = [flush EXCEPT ![d][f] = [stage |-> "pushes", queued |-> offlineQueue[d],
                                       ids |-> {id \in Ids : Has(offlineQueue, d, id)}]]
  /\ offlineQueue' = [offlineQueue EXCEPT ![d] = Nothing]
  /\ UNCHANGED <<server, stores, offlineDeletes, session, engine, network, login,
                 bounds>>

\* A workspace still open is saved afresh, a closed one pushed as queued.
FlushPush(d, f, id) ==
  /\ flush[d][f].stage = "pushes" /\ id \in flush[d][f].ids /\ ~Awaits(d, f)
  /\ flush' = [flush EXCEPT ![d][f] =
                 [stage |-> "pushes", queued |-> [@.queued EXCEPT ![id] = NoEntry],
                  ids |-> @.ids \ {id}]]
  /\ IF Has(tabs, d, id)
     THEN AutoSave(d, id, f)
     ELSE /\ PushEntry(d, id, flush[d][f].queued[id], f)
          /\ UNCHANGED <<tabs, isSyncing>>
  /\ UNCHANGED <<server, library, offlineDeletes, session, timers, syncCursor,
                 deletes, pulls, login, bounds>>

\* Mutant of LoginOver: the finally block is forgotten.
LoginOverStuck(d) ==
  login' = [login EXCEPT ![d] = NoLogin] /\ UNCHANGED isSyncing

\* onLogin's finally
LoginOver(d) ==
  login' = [login EXCEPT ![d] = NoLogin] /\ isSyncing' = [isSyncing EXCEPT ![d] = FALSE]

\* The flush onLogin awaits ends the login too.
FlushEnds(d, f) ==
  /\ flush[d][f].stage = "pushes" /\ flush[d][f].ids = {} /\ ~Awaits(d, f)
  /\ flush' = [flush EXCEPT ![d][f] = NoFlush]
  /\ IF f = "loginFlush" THEN LoginOver(d) ELSE UNCHANGED <<isSyncing, login>>
  /\ UNCHANGED <<server, stores, queues, session, timers, syncCursor, network,
                 bounds>>

GoOffline(d) ==
  /\ online[d] /\ faults < MaxFaults /\ faults' = faults + 1
  /\ online' = [online EXCEPT ![d] = FALSE]
  /\ UNCHANGED <<server, stores, queues, auth, engine, network, runs, born, ops,
                 polls>>

\* The "online" event.  That one comes while the flush of the last one still
\* runs is not explored.
GoOnline(d) ==
  /\ ~online[d] /\ flush[d]["onlineFlush"].stage = "idle"
  /\ online' = [online EXCEPT ![d] = TRUE]
  /\ IF auth[d] = "authed" THEN StartFlush(d, "onlineFlush", offlineDeletes[d])
                         ELSE UNCHANGED <<offlineDeletes, flush>>
  /\ UNCHANGED <<server, stores, offlineQueue, auth, engine, network, login,
                 bounds>>

-----------------------------------------------------------------------------
(* Sign-in, page loads and onLogin.  Signing in navigates away and back. *)

\* A fresh page keeps the tabs (localStorage) and nothing else; the calls of the
\* old page may still reach the server.
FreshPage(d, status) ==
  /\ auth' = [auth EXCEPT ![d] = status]
  /\ library' = [library EXCEPT ![d] = NoneFiled]
  /\ timers' = [timers EXCEPT ![d] = {}]
  /\ offlineQueue' = [offlineQueue EXCEPT ![d] = Nothing]
  /\ offlineDeletes' = [offlineDeletes EXCEPT ![d] = {}]
  /\ isSyncing' = [isSyncing EXCEPT ![d] = FALSE]
  /\ syncCursor' = [syncCursor EXCEPT ![d] = 0]
  /\ puts' = {p \in puts : p.dev # d} \cup
             {[p EXCEPT !.by = "nobody"] : p \in {q \in puts : q.dev = d /\ Due(q)}}
  /\ deletes' = {c \in deletes : c.dev # d} \cup
       {[c EXCEPT !.by = "nobody"] : c \in {e \in deletes : e.dev = d /\ Due(e)}}
  /\ pulls' = {q \in pulls : q.dev # d}
  /\ login' = [login EXCEPT ![d] = NoLogin]
  /\ flush' = [flush EXCEPT ![d] = [f \in Flushes |-> NoFlush]]
  /\ UNCHANGED <<server, tabs, online, born, faults, polls>>

Reload(d) == Does("reload") /\ auth[d] = "authed" /\ FreshPage(d, "loading")

SignIn(d) ==
  Does("signin") /\ auth[d] = "anonymous" /\ online[d] /\ FreshPage(d, "loading")

\* A call whose page is gone: lost, or its reply has nowhere to go.
Orphaned(p) ==
  /\ \/ p \in puts /\ puts' = puts \ {p} /\ UNCHANGED deletes
     \/ p \in deletes /\ deletes' = deletes \ {p} /\ UNCHANGED puts
  /\ p.by = "nobody"
  /\ UNCHANGED <<server, stores, queues, session, engine, pulls, runs, bounds>>

\* logout: the library goes; queues, timers and calls in flight stay.
LogOut(d) ==
  /\ Does("logout") /\ auth[d] = "authed"
  /\ auth' = [auth EXCEPT ![d] = "anonymous"]
  /\ library' = [library EXCEPT ![d] = NoneFiled]
  /\ UNCHANGED <<server, tabs, queues, online, engine, network, runs, born,
                 faults, polls>>

\* The page learns who is logged in, and onLogin starts its pull of everything.
LoginStarts(d) ==
  /\ auth[d] = "loading" /\ online[d]
  /\ auth' = [auth EXCEPT ![d] = "authed"]
  /\ isSyncing' = [isSyncing EXCEPT ![d] = TRUE]
  /\ login' = [login EXCEPT ![d].stage = "pull"]
  /\ pulls' = pulls \cup {PullCall(d, "login", 0)}
  /\ UNCHANGED <<server, stores, queues, online, timers, syncCursor, puts,
                 deletes, flush, bounds>>

\* Mutant of LocalOnly: the remote ids are taken from the merged list.
LocalOnlyNone(merged, rows) == {id \in Ids : merged[id] # NoEntry /\ merged[id] = NoEntry}

LocalOnly(merged, rows) == {id \in Ids : merged[id] # NoEntry /\ rows[id] = NoRow}

\* The merge is computed now and committed to the store only after the pushes.
LoginPulled(q) ==
  LET d == q.dev
      merged == MergeWorkspaces(tabs[d], q.rows)
  IN /\ q \in pulls /\ q.by = "login" /\ q.stage = "answered"
     /\ pulls' = pulls \ {q}
     /\ syncCursor' = [syncCursor EXCEPT ![d] = q.cursor]
     /\ library' = [library EXCEPT ![d] = MergeSavedLibrary(@, q.rows)]
     /\ login' = [login EXCEPT ![d] =
          [stage |-> "push", stash |-> merged, ids |-> LocalOnly(merged, q.rows)]]
     /\ UNCHANGED <<server, tabs, queues, session, timers, isSyncing, puts,
                    deletes, flush, bounds>>

\* A workspace the server does not know is pushed as it is.  Offline, the call
\* is rejected at once, and with it the login.
LoginPush(d, id) ==
  /\ login[d].stage = "push" /\ id \in login[d].ids /\ ~Awaits(d, "login")
  /\ IF online[d]
     THEN /\ login' = [login EXCEPT ![d].ids = @ \ {id}]
          /\ puts' = puts \cup {PutCall(d, id, login[d].stash[id], "login")}
          /\ UNCHANGED isSyncing
     ELSE LoginOver(d) /\ UNCHANGED puts
  /\ UNCHANGED <<server, stores, queues, session, timers, syncCursor, deletes,
                 pulls, flush, bounds>>

\* The server's row, accepted or conflicting, goes into the merge.
LoginPushed(p) ==
  /\ p \in puts /\ p.by = "login" /\ p.code \in {200, 401, 409}
  /\ puts' = puts \ {p}
  /\ login' = IF p.code = 401 THEN login
              ELSE [login EXCEPT ![p.dev].stash[p.id] = EntryOf(p.row)]
  /\ UNCHANGED <<server, stores, queues, session, engine, deletes, pulls, flush,
                 bounds>>

\* The merge becomes the store's tabs, and onLogin goes on to flush the queues.
\* unsubStore reacts to that write if something else, since the login began, has
\* put isSyncing back to FALSE.
LoginCommits(d) ==
  LET stash == login[d].stash
      noticed == IF Watching(d) THEN {id \in Ids : stash[id] # tabs[d][id]} ELSE {}
      gone == {id \in noticed : stash[id] = NoEntry}
      queued == offlineDeletes[d] \cup DeletesQueued(d, gone)
  IN /\ login[d].stage = "push" /\ login[d].ids = {} /\ ~Awaits(d, "login")
     /\ tabs' = [tabs EXCEPT ![d] = stash]
     /\ timers' = [timers EXCEPT ![d] = @ \cup (noticed \ gone)]
     /\ deletes' = deletes \cup DeleteCalls(d, gone, "own")
     /\ offlineQueue' = [offlineQueue EXCEPT ![d] =
                           [id \in Ids |-> IF id \in gone THEN NoEntry ELSE @[id]]]
     /\ IF auth[d] = "authed"
        THEN /\ StartFlush(d, "loginFlush", queued)
             /\ login' = [login EXCEPT ![d] = [NoLogin EXCEPT !.stage = "flush"]]
             /\ UNCHANGED isSyncing
        ELSE /\ LoginOver(d)
             /\ UNCHANGED <<offlineDeletes, flush>>
     /\ UNCHANGED <<server, library, session, syncCursor, puts, pulls, bounds>>

\* onLogin's catch: a call of its own failed, and nothing is committed.
LoginFails(d) ==
  /\ \/ \E q \in pulls : /\ q.dev = d /\ q.by = "login"
                         /\ pulls' = pulls \ {q} /\ UNCHANGED puts
     \/ \E p \in puts : /\ p.dev = d /\ p.by = "login"
                        /\ puts' = Abandoned(puts, p) /\ UNCHANGED pulls
  /\ IF HasSession(d) THEN Fails(d) ELSE UNCHANGED faults
  /\ LoginOver(d)
  /\ UNCHANGED <<server, stores, queues, session, timers, syncCursor, deletes,
                 flush, born, ops, polls>>

-----------------------------------------------------------------------------
(* JavaScript runs to completion: while a device is between two awaits of its  *)
(* login or of a flush, no other event of the device is handled.               *)

Running(d) == \/ login[d].stage = "push" /\ ~Awaits(d, "login")
              \/ \E f \in Flushes : flush[d][f].stage # "idle" /\ ~Awaits(d, f)

Continues(d) ==
  \/ \E id \in Ids : \/ LoginPush(d, id)
                    \/ \E f \in Flushes : FlushDelete(d, f, id) \/ FlushPush(d, f, id)
  \/ \E f \in Flushes : FlushTakeQueue(d, f) \/ FlushEnds(d, f)
  \/ LoginCommits(d)

UserActs(d) ==
  \/ \E id \in Ids :
       \/ Create(d, id) \/ Edit(d, id) \/ ToggleSaved(d, id)
       \/ CloseUnsaved(d, id) \/ CloseSaved(d, id) \/ OpenSaved(d, id)
       \/ RenameClosed(d, id) \/ DeleteOpen(d, id) \/ DeleteClosed(d, id)
  \/ Reload(d) \/ SignIn(d) \/ LogOut(d)

TimerEvent(d) == \E id \in Ids : TimerFires(d, id)

ReplyEvent(d) ==
  \/ \E p \in puts : p.dev = d /\ (PutDone(p) \/ PutConflict(p) \/ LoginPushed(p))
  \/ \E c \in deletes : c.dev = d /\ DeleteDone(c)
  \/ \E q \in pulls : q.dev = d /\ (DeltaApplied(q) \/ LoginPulled(q))

FailureEvent(d) ==
  \/ \E p \in puts : p.dev = d /\ PutFails(p)
  \/ \E c \in deletes : c.dev = d /\ DeleteFails(c)
  \/ \E q \in pulls : q.dev = d /\ DeltaFails(q)
  \/ LoginFails(d)

Event(d) ==
  /\ ~Running(d)
  /\ \/ UserActs(d) \/ TimerEvent(d) \/ DeltaRefresh(d) \/ LoginStarts(d)
     \/ ReplyEvent(d) \/ FailureEvent(d)
     \/ GoOffline(d) \/ GoOnline(d)

ServerStep ==
  \/ \E p \in puts : RefusePut(p) \/ StampPut(p) \/ WritePut(p) \/ AnswerPut(p)
  \/ \E c \in deletes : RefuseDelete(c) \/ StampDelete(c) \/ WriteDelete(c)
  \/ \E q \in pulls : StampPull(q) \/ AnswerPull(q)

Next ==
  \/ \E d \in Devices : Continues(d) \/ Event(d)
  \/ \E p \in puts \cup deletes : Orphaned(p)
  \/ ServerStep

Spec == Init /\ [][Next]_vars

\* The devices, the server and the network keep going, and an outage ends; users
\* and polls need not act.  A call fails for certain only in an outage or
\* without a session.
Fairness ==
  /\ WF_vars(ServerStep)
  /\ \A d \in Devices :
       /\ WF_vars(Continues(d))
       /\ WF_vars(~Running(d) /\ TimerEvent(d))
       /\ WF_vars(~Running(d) /\ LoginStarts(d))
       /\ WF_vars(~Running(d) /\ ReplyEvent(d))
       /\ WF_vars(~Running(d) /\ (~online[d] \/ ~HasSession(d)) /\ FailureEvent(d))
       /\ WF_vars(~Running(d) /\ GoOnline(d))

FairSpec == Spec /\ Fairness

-----------------------------------------------------------------------------
(* Properties *)

ServerOK == table \in Tables /\ clock \in Nat /\ late \in [Devices -> SUBSET Ids]

StoresOK == tabs \in [Devices -> EntryMap] /\ library \in [Devices -> [Ids -> Seq(Entry)]]

QueuesOK ==
  offlineQueue \in [Devices -> EntryMap] /\ offlineDeletes \in [Devices -> SUBSET Ids]

SessionOK ==
  /\ auth \in [Devices -> {"anonymous", "loading", "authed"}]
  /\ online \in [Devices -> BOOLEAN]

EngineOK ==
  /\ timers \in [Devices -> SUBSET Ids] /\ isSyncing \in [Devices -> BOOLEAN]
  /\ syncCursor \in [Devices -> Nat]

Stages == {"sent", "stamped", "written", "answered"}

Coded(calls) == {c \in calls : c.stage = "answered" <=> c.code # 0}

PutRecord ==
  Coded([dev : Devices, id : Ids, ws : Entry, by : Waiters, signed : BOOLEAN,
         stage : Stages, now : Nat, code : {0, 200, 401, 404, 409},
         row : Row \cup {NoRow}])
DeleteRecord ==
  Coded([dev : Devices, id : Ids, by : Waiters, signed : BOOLEAN,
         stage : Stages \ {"written"}, now : Nat, code : {0, 204, 401, 404}])
PullRecord == [dev : Devices, by : {"own", "login"}, since : Nat, stage : Stages,
               rows : Tables, cursor : Nat]

NetworkOK ==
  /\ \A p \in puts : p \in PutRecord
  /\ \A c \in deletes : c \in DeleteRecord
  /\ \A q \in pulls : q \in PullRecord

LoginRecord == [stage : {"idle", "pull", "push", "flush"}, stash : EntryMap, ids : SUBSET Ids]
FlushRecord == [stage : {"idle", "deletes", "pushes"}, queued : EntryMap, ids : SUBSET Ids]

RunsOK == login \in [Devices -> LoginRecord] /\ flush \in [Devices -> [Flushes -> FlushRecord]]

BoundsOK == born \subseteq Ids /\ ops \in 0 .. MaxOps

\* Every variable keeps to the shape the code gives it.
TypeOK ==
  /\ ServerOK /\ StoresOK /\ QueuesOK /\ SessionOK /\ EngineOK /\ NetworkOK
  /\ RunsOK /\ BoundsOK

Live(id) == table[id] # NoRow /\ ~table[id].deleted

\* The entries a device holds for id.
Held(d, id) ==
  ({tabs[d][id]} \ {NoEntry}) \cup {library[d][id][i] : i \in DOMAIN library[d][id]}

\* Something of d's is still to be done for id: nothing that is lost comes back.
Tracked(d, id) ==
  \/ id \in timers[d] \/ Has(offlineQueue, d, id) \/ id \in offlineDeletes[d]
  \/ \E c \in puts \cup deletes : c.dev = d /\ c.id = id /\ c.by # "nobody"
  \/ login[d].stage # "idle"
  \/ \E f \in Flushes : flush[d][f].stage # "idle"

\* d is logged in and has nothing to do for id.
Settled(d, id) == auth[d] = "authed" /\ ~Tracked(d, id)

\* d's cursor is past the latest write of id: no delta will bring it again.
UpToDate(d, id) == Exists(table, id) => table[id].updatedAt < syncCursor[d]

InStep(d, id) ==
  LET closed == Live(id) /\ table[id].saved /\ ~table[id].open
      entry == IF Live(id) THEN EntryOf(table[id]) ELSE NoEntry
  IN tabs[d][id] = (IF closed THEN NoEntry ELSE entry)
     /\ library[d][id] = (IF closed THEN <<entry>> ELSE <<>>)

\* However devices edit, open, close, rename and delete a workspace: a device with
\* nothing left to do never runs ahead of the server, and once it has pulled past
\* the latest write it holds exactly what lives on the server, at the server's
\* version - a deletion reaches it, a late answer does not undo one - unless that
\* write was stamped before a cursor and written after its query, which the API does
\* not deliver (NothingSkipped of WorkspaceApi).
SettledAtServerVersion ==
  \A d \in Devices, id \in Ids :
    Settled(d, id) =>
      /\ \A e \in Held(d, id) : Exists(table, id) /\ e.version <= table[id].version
      /\ UpToDate(d, id) /\ id \notin late[d] =>
           /\ Live(id) <=> Held(d, id) # {}
           /\ \A e \in Held(d, id) : e.version = table[id].version

\* No workspace is missing: however users log in and out, reload and close while
\* calls are under way, pulls overlap and a login's commit overwrites the tabs, a
\* device with nothing left to do holds whatever lives on the server and was
\* stamped before its cursor, unless it was written after that cursor's query.  A
\* call that fails can end a login between cursor and commit.
NoneMissing ==
  faults = 0 =>
    \A d \in Devices, id \in Ids :
      Settled(d, id) /\ Live(id) /\ UpToDate(d, id) /\ id \notin late[d] =>
        Held(d, id) # {}

\* One device alone, between pulls, through outages and lost or late calls: with
\* nothing left to do it agrees with the server in every field.
SettledInStep ==
  \A d \in Devices, id \in Ids : Settled(d, id) => InStep(d, id)

\* The comment on autoSave: overlapping saves never send equal versions for
\* different contents, as long as the workspace is open.
OneContentPerVersion ==
  \A p, q \in puts :
    p.dev = q.dev /\ p.id = q.id /\ Has(tabs, p.dev, p.id)
      /\ p.ws.version = q.ws.version => p.ws = q.ws

\* onLogin writes the merge it stashed before its pushes.
Commits(d) == login[d].stage = "push" /\ login'[d].stage # "push"

\* Neither a late conflict nor a delta takes an open workspace back to an older
\* version (pushEntry's stale-response guard, mergeById); only onLogin's commit
\* of an earlier merge can.
VersionsForward ==
  [][\A d \in Devices, id \in Ids :
       Has(tabs, d, id) /\ Has(tabs, d, id)' /\ ~Commits(d) =>
         tabs[d][id].version <= tabs'[d][id].version]_vars

\* When outages end and the user stops, every edit and every close has reached
\* the server ("flushed on the online event").
EventuallyInStep == <>[](\A d \in Devices, id \in Ids : InStep(d, id))

\* isSyncing, which makes the engine ignore the user's changes, never stays set.
LoginSettles == \A d \in Devices : isSyncing[d] ~> ~isSyncing[d]

\* What was made anonymously is on the server after a login no call of which
\* fails ("local-only: keep local, will be pushed up").
Uploaded ==
  \A d \in Devices, id \in Ids :
    Has(tabs, d, id) /\ auth[d] = "loading" ~>
      \/ table[id] # NoRow \/ ~Has(tabs, d, id)
      \/ auth[d] = "anonymous" \/ faults > 0
=============================================================================
