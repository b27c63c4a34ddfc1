-------------------------- MODULE SyncEngineProofs --------------------------
(***************************************************************************)
(* Theorems about the sync engine, for every set of devices, ids and       *)
(* operations.  The first part is the types; the second that every entry   *)
(* anywhere has an id made before; the third that an open tab's version    *)
(* only grows; the fourth that overlapping saves of an open workspace at   *)
(* one version carry one content; the fifth that the engine's calls use    *)
(* the table as the register LwwStore.                                     *)
(***************************************************************************)
EXTENDS SyncEngine, SequenceTheorems, TLAPS

-----------------------------------------------------------------------------
(* Types *)

\* An answer with a verdict carries a row.
Replied == \A p \in puts : p.code \in {200, 409} => p.row \in Row

\* What a login or a flush is about to push is there.
Pushable ==
  /\ \A d \in Devices : \A id \in login[d].ids : login[d].stash[id] \in Entry
  /\ \A d \in Devices, f \in Flushes :
       flush[d][f].stage = "pushes" =>
         \A id \in flush[d][f].ids : flush[d][f].queued[id] \in Entry

TypeInv == TypeOK /\ Replied /\ Pushable

USE AccountAssumption, ContentsAssumption, BoundsAssumption

LEMMA StoreType ==
  ASSUME NEW store \in [Devices -> EntryMap], NEW d \in Devices, NEW id \in Ids,
         NEW e \in Entry \cup {NoEntry}
  PROVE  [store EXCEPT ![d][id] = e] \in [Devices -> EntryMap]
  BY DEF EntryMap

LEMMA LibraryType ==
  ASSUME NEW filed \in [Devices -> [Ids -> Seq(Entry)]], NEW d \in Devices, NEW id \in Ids,
         NEW entries \in Seq(Entry)
  PROVE  [filed EXCEPT ![d][id] = entries] \in [Devices -> [Ids -> Seq(Entry)]]
  OBVIOUS

LEMMA EntryOfType == ASSUME NEW row \in Row PROVE EntryOf(row) \in Entry
  BY DEF EntryOf, Row, Entry

LEMMA BumpType == ASSUME NEW e \in Entry PROVE Bump(e) \in Entry /\ Bump(e).version = e.version + 1
  BY DEF Bump, Entry

LEMMA UpsertedType ==
  ASSUME NEW t \in Tables, NEW id \in Ids, NEW w \in Entry, NEW now \in Nat
  PROVE  /\ Upserted(t, id, Account, w, now) \in Tables
         /\ Upserted(t, id, Account, w, now)[id] \in Row
  BY DEF Upserted, Wins, Exists, Tables, Row, Entry

LEMMA SoftDeletedType ==
  ASSUME NEW t \in Tables, NEW id \in Ids, NEW now \in Nat
  PROVE  SoftDeleted(t, id, Account, now) \in Tables
  BY DEF SoftDeleted, Owns, Exists, Tables, Row

LEMMA MergeByIdType ==
  ASSUME NEW local \in EntryMap, NEW rows \in Tables, NEW excluded
  PROVE  MergeById(local, rows, excluded) \in EntryMap
  BY EntryOfType DEF MergeById, EntryMap, Tables

LEMMA MergeWorkspacesType ==
  ASSUME NEW local \in EntryMap, NEW rows \in Tables
  PROVE  MergeWorkspaces(local, rows) \in EntryMap
  BY MergeByIdType DEF MergeWorkspaces

LEMMA MergeSavedLibraryType ==
  ASSUME NEW local \in [Ids -> Seq(Entry)], NEW rows \in Tables
  PROVE  MergeSavedLibrary(local, rows) \in [Ids -> Seq(Entry)]
<1> DEFINE last == [id \in Ids |-> IF local[id] = <<>> THEN NoEntry
                                   ELSE local[id][Len(local[id])]]
           merged == MergeById(last, rows, Ids \ SavedRows(rows, FALSE))
<1>1. last \in EntryMap
  <2> SUFFICES ASSUME NEW id \in Ids, local[id] # <<>>
               PROVE  local[id][Len(local[id])] \in Entry
    BY DEF EntryMap
  <2>1. local[id] \in Seq(Entry) /\ Len(local[id]) \in 1 .. Len(local[id])
    BY EmptySeq, LenProperties
  <2> QED
    BY <2>1
<1>2. merged \in EntryMap
  BY <1>1, MergeByIdType
<1>3. [id \in Ids |-> IF merged[id] = NoEntry THEN <<>> ELSE <<merged[id]>>] \in [Ids -> Seq(Entry)]
  <2>1. ASSUME NEW id \in Ids
        PROVE  (IF merged[id] = NoEntry THEN <<>> ELSE <<merged[id]>>) \in Seq(Entry)
    <3>1. merged[id] = NoEntry \/ merged[id] \in Entry
      BY <1>2 DEF EntryMap
    <3> HIDE DEF merged
    <3> QED
      BY <3>1
  <2> HIDE DEF merged
  <2> QED
    BY <2>1
<1> QED
  BY <1>3 DEF MergeSavedLibrary, MergeLibrary

LEMMA InitTypeInv == Init => TypeInv
<1> SUFFICES ASSUME Init PROVE TypeInv
  OBVIOUS
<1>1. /\ Nothing \in EntryMap /\ NoneFiled \in [Ids -> Seq(Entry)]
      /\ Local \in EntryMap
  BY EmptySeq DEF Nothing, NoneFiled, Local, EntryMap, Entry
<1>0. late \in [Devices -> SUBSET Ids]
  BY DEF Init
<1>2. /\ ServerOK /\ StoresOK
      /\ auth \in [Devices -> {"anonymous", "loading", "authed"}]
      /\ syncCursor \in [Devices -> Nat] /\ born \subseteq Ids
  <2>1. ASSUME NEW row \in Row, SyncedWith(row) PROVE <1>2
    <3>1. EntryOf(row) \in Entry
      BY EntryOfType
    <3>2. <<EntryOf(row)>> \in Seq(Entry)
      BY <3>1
    <3>3. [id \in Ids |-> EntryOf(row)] \in EntryMap
      BY <3>1 DEF EntryMap
    <3>4. [id \in Ids |-> <<EntryOf(row)>>] \in [Ids -> Seq(Entry)]
      BY <3>2
    <3>5. StoresOK
      BY <1>1, <2>1, <3>3, <3>4 DEF SyncedWith, StoresOK
    <3> QED
      BY <1>0, <2>1, <3>5 DEF SyncedWith, ServerOK, Tables
  <2>2. \A saved, open \in BOOLEAN : FirstRow(saved, open) \in Row
    BY DEF FirstRow, Row
  <2>3. ASSUME NEW status \in {"anonymous", "authed"}, NEW held \in [Devices -> EntryMap],
               Unsynced(status, held), born = {} \/ born = Ids
        PROVE  <1>2
    BY <1>0, <1>1, <2>3 DEF Unsynced, ServerOK, StoresOK, Tables
  <2> QED
    BY <1>1, <2>1, <2>2, <2>3 DEF Init
<1>3. QueuesOK /\ EngineOK /\ NetworkOK /\ BoundsOK /\ SessionOK
  BY <1>1, <1>2 DEF Init, QueuesOK, EngineOK, NetworkOK, BoundsOK, SessionOK
<1>4. RunsOK /\ Replied /\ Pushable
  BY <1>1 DEF Init, RunsOK, LoginRecord, FlushRecord, Replied, Pushable, NoLogin, NoFlush
<1> QED
  BY <1>2, <1>3, <1>4 DEF TypeInv, TypeOK

\* The shared tails.
LEMMA PushEntryType ==
  ASSUME TypeInv, NEW d \in Devices, NEW id \in Ids, NEW ws \in Entry, NEW by \in Waiters,
         PushEntry(d, id, ws, by)
  PROVE  /\ \A p \in puts' : p \in puts \/ p = PutCall(d, id, ws, by)
         /\ NetworkOK /\ UNCHANGED <<deletes, pulls>> => NetworkOK'
         /\ Replied'
         /\ offlineQueue' \in [Devices -> EntryMap]
<1>1. \A p \in puts' : p \in puts \/ p = PutCall(d, id, ws, by)
  BY DEF PushEntry, Queue
<1>2. offlineQueue' \in [Devices -> EntryMap]
  BY DEF TypeInv, TypeOK, QueuesOK, EntryMap, PushEntry, Queue
<1>3. Replied'
  BY <1>1 DEF TypeInv, Replied, PutCall
<1>4. PutCall(d, id, ws, by) \in PutRecord
  BY DEF PutCall, PutRecord, Coded, Stages, HasSession
<1> QED
  BY <1>1, <1>2, <1>3, <1>4 DEF NetworkOK

LEMMA AutoSaveType ==
  ASSUME TypeInv, NEW d \in Devices, NEW id \in Ids, NEW by \in Waiters,
         Has(tabs, d, id), AutoSave(d, id, by), UNCHANGED <<library, deletes, pulls>>
  PROVE  /\ NetworkOK' /\ Replied' /\ StoresOK'
         /\ offlineQueue' \in [Devices -> EntryMap]
         /\ isSyncing' \in [Devices -> BOOLEAN]
<1>1. tabs[d][id] \in Entry /\ Bump(tabs[d][id]) \in Entry
  BY BumpType DEF TypeInv, TypeOK, StoresOK, EntryMap, Has
<1>2. CASE online[d]
  <2>1. NetworkOK' /\ Replied' /\ offlineQueue' \in [Devices -> EntryMap]
    BY <1>1, <1>2, PushEntryType DEF AutoSave, TypeInv, TypeOK
  <2>2. StoresOK'
    <3>1. tabs' = [tabs EXCEPT ![d][id] = Bump(tabs[d][id])]
      BY <1>2 DEF AutoSave
    <3>2. tabs \in [Devices -> EntryMap] /\ library' \in [Devices -> [Ids -> Seq(Entry)]]
      BY DEF TypeInv, TypeOK, StoresOK
    <3>3. tabs' \in [Devices -> EntryMap]
      BY <1>1, <3>1, <3>2, StoreType
    <3> QED
      BY <3>2, <3>3 DEF StoresOK
  <2>3. isSyncing' \in [Devices -> BOOLEAN]
    BY <1>2 DEF AutoSave, TypeInv, TypeOK, EngineOK
  <2> QED
    BY <2>1, <2>2, <2>3
<1>3. CASE ~online[d]
  <2>1. offlineQueue' \in [Devices -> EntryMap]
    BY <1>1, <1>3, StoreType DEF AutoSave, Queue, TypeInv, TypeOK, QueuesOK
  <2> QED
    BY <1>3, <2>1
    DEF AutoSave, TypeInv, TypeOK, StoresOK, NetworkOK, Replied, EngineOK
<1> QED
  BY <1>2, <1>3

DeleteCall(d, id, by) ==
  [dev |-> d, id |-> id, by |-> by, signed |-> HasSession(d), stage |-> "sent",
   now |-> 0, code |-> 0]

LEMMA DeleteCallType ==
  ASSUME NEW d \in Devices, NEW id \in Ids, NEW by \in Waiters
  PROVE  DeleteCall(d, id, by) \in DeleteRecord
  BY DEF DeleteCall, DeleteRecord, Coded, Stages, HasSession

LEMMA RequestDeleteType ==
  ASSUME TypeInv, NEW d \in Devices, NEW id \in Ids, NEW by \in Waiters,
         RequestDelete(d, id, by), UNCHANGED <<puts, pulls>>
  PROVE  NetworkOK' /\ Replied' /\ offlineDeletes' \in [Devices -> SUBSET Ids]
<1>1. \A c \in deletes' : c \in deletes \/ c = DeleteCall(d, id, by)
  BY DEF RequestDelete, DeleteCalls, DeleteCall
<1>2. offlineDeletes' \in [Devices -> SUBSET Ids]
  BY DEF RequestDelete, DeletesQueued, TypeInv, TypeOK, QueuesOK
<1>3. NetworkOK'
  BY <1>1, DeleteCallType DEF TypeInv, TypeOK, NetworkOK
<1> QED
  BY <1>2, <1>3 DEF TypeInv, Replied

\* What an action leaves alone keeps its type.
LEMMA SameTypes ==
  ASSUME TypeInv
  PROVE  /\ UNCHANGED server => ServerOK'
         /\ UNCHANGED stores => StoresOK'
         /\ UNCHANGED queues => QueuesOK'
         /\ UNCHANGED session => SessionOK'
         /\ UNCHANGED engine => EngineOK'
         /\ UNCHANGED network => NetworkOK'
         /\ UNCHANGED puts => Replied'
         /\ UNCHANGED runs => RunsOK' /\ Pushable'
         /\ UNCHANGED <<born, ops>> => BoundsOK'
BY DEF TypeInv, TypeOK, Replied, Pushable, server, ServerOK, stores, StoresOK, queues,
       QueuesOK, session, SessionOK, engine, EngineOK, network, NetworkOK, runs, RunsOK,
       BoundsOK

LEMMA DoesType ==
  ASSUME TypeInv, NEW op, Does(op)
  PROVE  ops' \in Contents /\ (born' \subseteq Ids => BoundsOK')
  BY DEF Does, TypeInv, TypeOK, BoundsOK

LEMMA ChangeTabType ==
  ASSUME TypeInv, NEW d \in Devices, NEW id \in Ids, NEW e \in Entry, ChangeTab(d, id, e),
         BoundsOK'
  PROVE  TypeInv'
<1>1. StoresOK'
  BY StoreType DEF ChangeTab, TypeInv, TypeOK, StoresOK
<1>2. EngineOK'
  BY DEF ChangeTab, TypeInv, TypeOK, EngineOK
<1> QED
  BY <1>1, <1>2, SameTypes DEF ChangeTab, network, TypeInv, TypeOK

LEMMA RemoveTabType ==
  ASSUME TypeInv, NEW d \in Devices, NEW id \in Ids, RemoveTab(d, id), Does("close") \/ Does("delete")
  PROVE  TypeInv'
<1>1. StoresOK'
  BY StoreType DEF RemoveTab, TypeInv, TypeOK, StoresOK
<1>2. NetworkOK' /\ Replied' /\ QueuesOK'
  <2>1. CASE Watching(d)
    <3>1. /\ offlineQueue' = [offlineQueue EXCEPT ![d][id] = NoEntry]
          /\ RequestDelete(d, id, "own") /\ UNCHANGED <<puts, pulls>>
      BY <2>1 DEF RemoveTab
    <3>2. offlineQueue \in [Devices -> EntryMap]
      BY DEF TypeInv, TypeOK, QueuesOK
    <3>3. offlineQueue' \in [Devices -> EntryMap]
      BY <3>1, <3>2, StoreType
    <3> QED
      BY <3>1, <3>3, RequestDeleteType DEF QueuesOK, Waiters
  <2>2. CASE ~Watching(d)
    BY <2>2, SameTypes DEF RemoveTab, network
  <2> QED
    BY <2>1, <2>2
<1>3. BoundsOK'
  BY DoesType DEF RemoveTab, TypeInv, TypeOK, BoundsOK
<1> QED
  BY <1>1, <1>2, <1>3, SameTypes DEF RemoveTab, TypeInv, TypeOK

LEMMA MoveSavedType ==
  ASSUME TypeInv, NEW d \in Devices, NEW id \in Ids, NEW tab \in Entry \cup {NoEntry},
         NEW filed \in Seq(Entry), NEW moved \in Entry,
         MoveSaved(d, id, tab, filed, moved), BoundsOK'
  PROVE  TypeInv'
<1>1. StoresOK'
  <2>1. tabs' \in [Devices -> EntryMap]
    BY StoreType DEF MoveSaved, TypeInv, TypeOK, StoresOK
  <2>2. library' \in [Devices -> [Ids -> Seq(Entry)]]
    BY DEF MoveSaved, TypeInv, TypeOK, StoresOK
  <2> QED
    BY <2>1, <2>2 DEF StoresOK
<1>2. NetworkOK' /\ Replied' /\ offlineQueue' \in [Devices -> EntryMap]
  BY PushEntryType DEF MoveSaved, TypeInv, TypeOK, Waiters
<1>3. QueuesOK' /\ EngineOK'
  BY <1>2 DEF MoveSaved, TypeInv, TypeOK, QueuesOK, EngineOK
<1> QED
  BY <1>1, <1>2, <1>3, SameTypes DEF MoveSaved, TypeInv, TypeOK

LEMMA TabEntry ==
  ASSUME TypeInv, NEW d \in Devices, NEW id \in Ids, Has(tabs, d, id)
  PROVE  tabs[d][id] \in Entry
  BY DEF TypeInv, TypeOK, StoresOK, EntryMap, Has

LEMMA FiledEntry ==
  ASSUME TypeInv, NEW d \in Devices, NEW id \in Ids, Filed(d, id)
  PROVE  FirstFiled(d, id) \in Entry
  BY HeadTailProperties DEF TypeInv, TypeOK, StoresOK, Filed, FirstFiled

LEMMA UserType ==
  ASSUME TypeInv, NEW d \in Devices, NEW id \in Ids,
         \/ Create(d, id) \/ Edit(d, id) \/ ToggleSaved(d, id)
         \/ CloseUnsaved(d, id) \/ CloseSaved(d, id) \/ OpenSaved(d, id)
         \/ RenameClosed(d, id) \/ DeleteOpen(d, id) \/ DeleteClosed(d, id)
  PROVE  TypeInv'
<1>1. ASSUME Create(d, id) PROVE TypeInv'
  <2>1. ops' \in Contents /\ BoundsOK'
    BY <1>1, DoesType DEF Create, TypeInv, TypeOK, BoundsOK
  <2>2. [content |-> ops', version |-> 1, saved |-> FALSE, open |-> TRUE] \in Entry
    BY <2>1 DEF Entry
  <2> QED
    BY <1>1, <2>1, <2>2, ChangeTabType DEF Create
<1>2. ASSUME Edit(d, id) PROVE TypeInv'
  <2>1. ops' \in Contents /\ BoundsOK'
    BY <1>2, DoesType DEF Edit, TypeInv, TypeOK, BoundsOK
  <2>2. [tabs[d][id] EXCEPT !.content = ops'] \in Entry
    BY <1>2, <2>1, TabEntry DEF Edit, Entry
  <2> QED
    BY <1>2, <2>1, <2>2, ChangeTabType DEF Edit
<1>3. ASSUME ToggleSaved(d, id) PROVE TypeInv'
  <2>1. BoundsOK'
    BY <1>3, DoesType DEF ToggleSaved, TypeInv, TypeOK, BoundsOK
  <2>2. [tabs[d][id] EXCEPT !.saved = ~@] \in Entry
    BY <1>3, TabEntry DEF ToggleSaved, Entry
  <2> QED
    BY <1>3, <2>1, <2>2, ChangeTabType DEF ToggleSaved
<1>4. ASSUME CloseUnsaved(d, id) \/ DeleteOpen(d, id) PROVE TypeInv'
  BY <1>4, RemoveTabType DEF CloseUnsaved, DeleteOpen
<1>5. ASSUME CloseSaved(d, id) PROVE TypeInv'
  <2> DEFINE closed == Bump([tabs[d][id] EXCEPT !.open = FALSE])
  <2>1. closed \in Entry
    <3>1. [tabs[d][id] EXCEPT !.open = FALSE] \in Entry
      BY <1>5, TabEntry DEF CloseSaved, Entry
    <3> QED
      BY <3>1, BumpType
  <2>2. Append(library[d][id], closed) \in Seq(Entry)
    BY <2>1, AppendProperties DEF TypeInv, TypeOK, StoresOK
  <2>3. BoundsOK'
    BY <1>5, DoesType DEF CloseSaved, MoveSaved, TypeInv, TypeOK, BoundsOK
  <2> HIDE DEF closed
  <2> QED
    BY <1>5, <2>1, <2>2, <2>3, MoveSavedType DEF CloseSaved, closed
<1>6. ASSUME OpenSaved(d, id) PROVE TypeInv'
  <2> DEFINE opened == Bump([FirstFiled(d, id) EXCEPT !.open = TRUE])
  <2>1. opened \in Entry
    <3>1. [FirstFiled(d, id) EXCEPT !.open = TRUE] \in Entry
      BY <1>6, FiledEntry DEF OpenSaved, Entry
    <3> QED
      BY <3>1, BumpType
  <2>2. <<>> \in Seq(Entry)
    BY EmptySeq
  <2>3. BoundsOK'
    BY <1>6, DoesType DEF OpenSaved, MoveSaved, TypeInv, TypeOK, BoundsOK
  <2> HIDE DEF opened
  <2> QED
    BY <1>6, <2>1, <2>2, <2>3, MoveSavedType DEF OpenSaved, opened
<1>7. ASSUME RenameClosed(d, id) PROVE TypeInv'
  <2> DEFINE renamed == Bump([FirstFiled(d, id) EXCEPT !.content = ops'])
             entries == [i \in DOMAIN library[d][id] |-> renamed]
  <2>1. ops' \in Contents /\ BoundsOK'
    BY <1>7, DoesType DEF RenameClosed, TypeInv, TypeOK, BoundsOK
  <2>2. renamed \in Entry
    <3>1. [FirstFiled(d, id) EXCEPT !.content = ops'] \in Entry
      BY <1>7, <2>1, FiledEntry DEF RenameClosed, Entry
    <3> QED
      BY <3>1, BumpType
  <2>3. library[d][id] \in Seq(Entry)
    BY DEF TypeInv, TypeOK, StoresOK
  <2> HIDE DEF renamed
  <2>4. entries \in Seq(Entry)
    <3>1. DOMAIN library[d][id] = 1 .. Len(library[d][id]) /\ Len(library[d][id]) \in Nat
      BY <2>3, LenProperties
    <3> QED
      BY <2>2, <3>1, IsASeq
  <2>5. library' = [library EXCEPT ![d][id] = entries]
    BY <1>7 DEF RenameClosed, renamed
  <2>6. StoresOK'
    <3>1. library' \in [Devices -> [Ids -> Seq(Entry)]]
      BY <2>4, <2>5, LibraryType DEF TypeInv, TypeOK, StoresOK
    <3> QED
      BY <1>7, <3>1 DEF RenameClosed, TypeInv, TypeOK, StoresOK
  <2>7. NetworkOK' /\ Replied' /\ offlineQueue' \in [Devices -> EntryMap]
    BY <1>7, <2>2, PushEntryType DEF RenameClosed, TypeInv, TypeOK, Waiters, renamed
  <2>8. QueuesOK'
    BY <1>7, <2>7 DEF RenameClosed, TypeInv, TypeOK, QueuesOK
  <2> QED
    BY <1>7, <2>1, <2>6, <2>7, <2>8, SameTypes DEF RenameClosed, TypeInv, TypeOK
<1>8. ASSUME DeleteClosed(d, id) PROVE TypeInv'
  <2>1. StoresOK'
    BY <1>8, EmptySeq DEF DeleteClosed, TypeInv, TypeOK, StoresOK
  <2>2. NetworkOK' /\ Replied' /\ offlineDeletes' \in [Devices -> SUBSET Ids]
    BY <1>8, RequestDeleteType DEF DeleteClosed, Waiters
  <2>3. QueuesOK'
    BY <1>8, <2>2 DEF DeleteClosed, TypeInv, TypeOK, QueuesOK
  <2>4. BoundsOK'
    BY <1>8, DoesType DEF DeleteClosed, TypeInv, TypeOK, BoundsOK
  <2> QED
    BY <1>8, <2>1, <2>2, <2>3, <2>4, SameTypes DEF DeleteClosed, TypeInv, TypeOK
<1> QED
  BY <1>1, <1>2, <1>3, <1>4, <1>5, <1>6, <1>7, <1>8

LEMMA TimerType ==
  ASSUME TypeInv, NEW d \in Devices, NEW id \in Ids, TimerFires(d, id)
  PROVE  TypeInv'
<1>1. /\ NetworkOK' /\ Replied' /\ StoresOK'
      /\ offlineQueue' \in [Devices -> EntryMap] /\ isSyncing' \in [Devices -> BOOLEAN]
  <2>1. CASE Has(tabs, d, id)
    BY <2>1, AutoSaveType DEF TimerFires, Waiters
  <2>2. CASE ~Has(tabs, d, id)
    BY <2>2 DEF TimerFires, TypeInv, TypeOK, NetworkOK, Replied, StoresOK, QueuesOK, EngineOK
  <2> QED
    BY <2>1, <2>2
<1>2. QueuesOK' /\ EngineOK'
  BY <1>1 DEF TimerFires, TypeInv, TypeOK, QueuesOK, EngineOK
<1>3. BoundsOK'
  BY SameTypes DEF TimerFires, bounds
<1> QED
  BY <1>1, <1>2, <1>3, SameTypes DEF TimerFires, TypeInv, TypeOK

LEMMA PullCallType ==
  ASSUME TypeInv, NEW d \in Devices, NEW by \in {"own", "login"}, NEW since \in Nat,
         pulls' = pulls \cup {PullCall(d, by, since)}, UNCHANGED <<puts, deletes>>
  PROVE  NetworkOK' /\ Replied'
<1>1. PullCall(d, by, since) \in PullRecord
  BY DEF PullCall, PullRecord, Tables, Stages
<1> QED
  BY <1>1 DEF TypeInv, TypeOK, NetworkOK, Replied

LEMMA PullsType ==
  ASSUME TypeInv, NEW q \in pulls
  PROVE  /\ q.dev \in Devices /\ q.rows \in Tables /\ q.cursor \in Nat /\ q.since \in Nat
         /\ q.stage \in Stages
  BY DEF TypeInv, TypeOK, NetworkOK, PullRecord

LEMMA PutsType ==
  ASSUME TypeInv, NEW p \in puts
  PROVE  /\ p.dev \in Devices /\ p.id \in Ids /\ p.ws \in Entry /\ p.by \in Waiters
         /\ p.code \in {0, 200, 401, 404, 409} /\ p.row \in Row \cup {NoRow}
         /\ p.code \in {200, 409} => p.row \in Row
         /\ p.stage \in Stages /\ (p.stage = "answered" <=> p.code # 0)
  BY DEF TypeInv, TypeOK, NetworkOK, Replied, PutRecord, Coded

LEMMA DeletesType ==
  ASSUME TypeInv, NEW c \in deletes
  PROVE  /\ c.dev \in Devices /\ c.id \in Ids /\ c.by \in Waiters /\ c.code \in {0, 204, 401, 404}
         /\ c.stage \in Stages \ {"written"} /\ (c.stage = "answered" <=> c.code # 0)
  BY DEF TypeInv, TypeOK, NetworkOK, DeleteRecord, Coded

LEMMA DeltaRefreshType ==
  ASSUME TypeInv, NEW d \in Devices, DeltaRefresh(d)
  PROVE  TypeInv'
<1>1. syncCursor[d] \in Nat
  BY DEF TypeInv, TypeOK, EngineOK
<1>2. NetworkOK' /\ Replied'
  BY <1>1, PullCallType DEF DeltaRefresh
<1> QED
  BY <1>2, SameTypes DEF DeltaRefresh, TypeInv, TypeOK

LEMMA DeltaAppliedType ==
  ASSUME TypeInv, NEW q \in pulls, DeltaApplied(q)
  PROVE  TypeInv'
<1> DEFINE d == q.dev
<1>1. d \in Devices /\ q.rows \in Tables /\ q.cursor \in Nat
  BY PullsType
<1>2. StoresOK'
  <2>1. tabs[d] \in EntryMap /\ library[d] \in [Ids -> Seq(Entry)]
    BY <1>1 DEF TypeInv, TypeOK, StoresOK
  <2>2. /\ MergeWorkspaces(tabs[d], q.rows) \in EntryMap
        /\ MergeSavedLibrary(library[d], q.rows) \in [Ids -> Seq(Entry)]
    BY <1>1, <2>1, MergeWorkspacesType, MergeSavedLibraryType
  <2> QED
    BY <2>2 DEF DeltaApplied, stores, TypeInv, TypeOK, StoresOK
<1>3. NetworkOK' /\ Replied' /\ EngineOK'
  BY <1>1 DEF DeltaApplied, TypeInv, TypeOK, NetworkOK, Replied, EngineOK
<1>4. BoundsOK'
  BY SameTypes DEF DeltaApplied, bounds
<1> QED
  BY <1>2, <1>3, <1>4, SameTypes DEF DeltaApplied, TypeInv, TypeOK

\* What the server's steps make of a PUT: the call p with other values of its
\* last four fields.
PutOf(p, stage, now, code, row) ==
  [dev |-> p.dev, id |-> p.id, ws |-> p.ws, by |-> p.by, signed |-> p.signed,
   stage |-> stage, now |-> now, code |-> code, row |-> row]

Timed(p, now) == PutOf(p, "stamped", now, 0, p.row)
Stored(p) == PutOf(p, "written", 0, 0, p.row)
Answered(p, code, row) == PutOf(p, "answered", p.now, code, row)

LEMMA PutFields ==
  ASSUME NEW p \in PutRecord
  PROVE  /\ p.dev \in Devices /\ p.id \in Ids /\ p.ws \in Entry /\ p.by \in Waiters
         /\ p.signed \in BOOLEAN /\ p.stage \in Stages /\ p.now \in Nat
         /\ p.code \in {0, 200, 401, 404, 409} /\ p.row \in Row \cup {NoRow}
         /\ p.stage = "answered" <=> p.code # 0
         /\ p = PutOf(p, p.stage, p.now, p.code, p.row)
  BY DEF PutRecord, Coded, PutOf

LEMMA PutOfFields ==
  ASSUME NEW p, NEW stage, NEW now, NEW code, NEW row, NEW q,
         q = PutOf(p, stage, now, code, row)
  PROVE  /\ q.dev = p.dev /\ q.id = p.id /\ q.ws = p.ws /\ q.by = p.by /\ q.signed = p.signed
         /\ q.stage = stage /\ q.now = now /\ q.code = code /\ q.row = row
  BY DEF PutOf

LEMMA PutSteps ==
  ASSUME NEW p \in PutRecord
  PROVE  /\ p.stage = "sent" =>
              \A now : [p EXCEPT !.stage = "stamped", !.now = now] = Timed(p, now)
         /\ p.stage = "stamped" => [p EXCEPT !.stage = "written", !.now = 0] = Stored(p)
         /\ \A code, row :
              [p EXCEPT !.stage = "answered", !.code = code, !.row = row] = Answered(p, code, row)
         /\ \A code : [p EXCEPT !.stage = "answered", !.code = code] = Answered(p, code, p.row)
<1>1. PICK dev, id, ws, by, signed, stage, now, code, row :
        p = [dev |-> dev, id |-> id, ws |-> ws, by |-> by, signed |-> signed,
             stage |-> stage, now |-> now, code |-> code, row |-> row]
  BY PutFields DEF PutOf
<1> DEFINE Now(s, n, c, r) ==
      [dev |-> dev, id |-> id, ws |-> ws, by |-> by, signed |-> signed,
       stage |-> s, now |-> n, code |-> c, row |-> r]
<1>2. /\ \A s, n, c, r : PutOf(p, s, n, c, r) = Now(s, n, c, r)
      /\ p.code = code /\ p.now = now /\ p.row = row
  BY <1>1 DEF PutOf
<1>3. p.stage # "answered" => code = 0
  BY <1>2, PutFields
<1>4. ASSUME NEW s
      PROVE  [p EXCEPT !.stage = s] = Now(s, now, code, row)
  BY <1>1
<1>5. ASSUME NEW s, NEW n
      PROVE  [p EXCEPT !.stage = s, !.now = n] = Now(s, n, code, row)
  <2> DEFINE q == [p EXCEPT !.stage = s]
  <2>1. [p EXCEPT !.stage = s, !.now = n] = [q EXCEPT !.now = n]
    OBVIOUS
  <2>2. q = Now(s, now, code, row)
    BY <1>4
  <2> HIDE DEF q
  <2> QED
    BY <2>1, <2>2
<1>6. ASSUME NEW c
      PROVE  [p EXCEPT !.stage = "answered", !.code = c] = Now("answered", now, c, row)
  <2> DEFINE q == [p EXCEPT !.stage = "answered"]
  <2>1. [p EXCEPT !.stage = "answered", !.code = c] = [q EXCEPT !.code = c]
    OBVIOUS
  <2>2. q = Now("answered", now, code, row)
    BY <1>4
  <2> HIDE DEF q
  <2> QED
    BY <2>1, <2>2
<1>7. ASSUME NEW c, NEW r
      PROVE  [p EXCEPT !.stage = "answered", !.code = c, !.row = r] = Now("answered", now, c, r)
  <2> DEFINE q == [p EXCEPT !.stage = "answered", !.code = c]
  <2>1. [p EXCEPT !.stage = "answered", !.code = c, !.row = r] = [q EXCEPT !.row = r]
    OBVIOUS
  <2>2. q = Now("answered", now, c, row)
    BY <1>6
  <2> HIDE DEF q
  <2> QED
    BY <2>1, <2>2
<1> HIDE DEF Now
<1>8. ASSUME p.stage = "sent", NEW n
      PROVE  [p EXCEPT !.stage = "stamped", !.now = n] = Timed(p, n)
  <2>1. [p EXCEPT !.stage = "stamped", !.now = n] = Now("stamped", n, code, row)
    BY <1>5
  <2>2. Timed(p, n) = Now("stamped", n, code, row)
    BY <1>2, <1>3, <1>8 DEF Timed
  <2> QED
    BY <2>1, <2>2
<1>9. ASSUME p.stage = "stamped"
      PROVE  [p EXCEPT !.stage = "written", !.now = 0] = Stored(p)
  <2>1. [p EXCEPT !.stage = "written", !.now = 0] = Now("written", 0, code, row)
    BY <1>5
  <2>2. Stored(p) = Now("written", 0, code, row)
    BY <1>2, <1>3, <1>9 DEF Stored
  <2> QED
    BY <2>1, <2>2
<1>10. ASSUME NEW c, NEW r
       PROVE  [p EXCEPT !.stage = "answered", !.code = c, !.row = r] = Answered(p, c, r)
  <2>1. Answered(p, c, r) = Now("answered", now, c, r)
    BY <1>2 DEF Answered
  <2> QED
    BY <1>7, <2>1
<1>11. ASSUME NEW c
       PROVE  [p EXCEPT !.stage = "answered", !.code = c] = Answered(p, c, p.row)
  <2>1. Answered(p, c, p.row) = Now("answered", now, c, row)
    BY <1>2 DEF Answered
  <2> QED
    BY <1>6, <2>1
<1> QED
  BY <1>8, <1>9, <1>10, <1>11

LEMMA TimedType ==
  ASSUME NEW p, p \in PutRecord, NEW now, now \in Nat
  PROVE  Timed(p, now) \in PutRecord
  BY PutFields DEF Timed, PutOf, PutRecord, Coded, Stages

LEMMA StoredType ==
  ASSUME NEW p, p \in PutRecord
  PROVE  Stored(p) \in PutRecord
  BY PutFields DEF Stored, PutOf, PutRecord, Coded, Stages

LEMMA AnsweredType ==
  ASSUME NEW p, p \in PutRecord, NEW code, code \in {200, 401, 404, 409},
         NEW row, row \in Row \cup {NoRow}
  PROVE  Answered(p, code, row) \in PutRecord
  BY PutFields DEF Answered, PutOf, PutRecord, Coded, Stages

\* The same for a DELETE.
Served(c, stage, now, code) ==
  [dev |-> c.dev, id |-> c.id, by |-> c.by, signed |-> c.signed,
   stage |-> stage, now |-> now, code |-> code]

LEMMA DeleteFields ==
  ASSUME NEW c \in DeleteRecord
  PROVE  /\ c.dev \in Devices /\ c.id \in Ids /\ c.by \in Waiters
         /\ c.signed \in BOOLEAN /\ c.stage \in Stages /\ c.now \in Nat
         /\ c.code \in {0, 204, 401, 404}
         /\ c.stage = "answered" <=> c.code # 0
         /\ c = Served(c, c.stage, c.now, c.code)
  BY DEF DeleteRecord, Coded, Served

LEMMA ServedFields ==
  ASSUME NEW c, NEW stage, NEW now, NEW code, NEW e,
         e = Served(c, stage, now, code)
  PROVE  /\ e.dev = c.dev /\ e.id = c.id /\ e.by = c.by /\ e.signed = c.signed
         /\ e.stage = stage /\ e.now = now /\ e.code = code
  BY DEF Served

LEMMA DeleteSteps ==
  ASSUME NEW c \in DeleteRecord
  PROVE  /\ \A now : [c EXCEPT !.stage = "stamped", !.now = now] = Served(c, "stamped", now, c.code)
         /\ \A code : [c EXCEPT !.stage = "answered", !.now = 0, !.code = code]
                      = Served(c, "answered", 0, code)
         /\ \A code : [c EXCEPT !.stage = "answered", !.code = code]
                      = Served(c, "answered", c.now, code)
<1>1. PICK dev, id, by, signed, stage, now, code :
        c = [dev |-> dev, id |-> id, by |-> by, signed |-> signed,
             stage |-> stage, now |-> now, code |-> code]
  BY DeleteFields DEF Served
<1> DEFINE Now(s, n, r) ==
      [dev |-> dev, id |-> id, by |-> by, signed |-> signed, stage |-> s, now |-> n, code |-> r]
<1>2. /\ \A s, n, r : Served(c, s, n, r) = Now(s, n, r)
      /\ c.code = code /\ c.now = now
  BY <1>1 DEF Served
<1>3. ASSUME NEW s
      PROVE  [c EXCEPT !.stage = s] = Now(s, now, code)
  BY <1>1
<1>4. ASSUME NEW s, NEW n
      PROVE  [c EXCEPT !.stage = s, !.now = n] = Now(s, n, code)
  <2> DEFINE q == [c EXCEPT !.stage = s]
  <2>1. [c EXCEPT !.stage = s, !.now = n] = [q EXCEPT !.now = n]
    OBVIOUS
  <2>2. q = Now(s, now, code)
    BY <1>3
  <2> HIDE DEF q
  <2> QED
    BY <2>1, <2>2
<1>5. ASSUME NEW r
      PROVE  [c EXCEPT !.stage = "answered", !.now = 0, !.code = r] = Now("answered", 0, r)
  <2> DEFINE q == [c EXCEPT !.stage = "answered", !.now = 0]
  <2>1. [c EXCEPT !.stage = "answered", !.now = 0, !.code = r] = [q EXCEPT !.code = r]
    OBVIOUS
  <2>2. q = Now("answered", 0, code)
    BY <1>4
  <2> HIDE DEF q
  <2> QED
    BY <2>1, <2>2
<1>6. ASSUME NEW r
      PROVE  [c EXCEPT !.stage = "answered", !.code = r] = Now("answered", now, r)
  <2> DEFINE q == [c EXCEPT !.stage = "answered"]
  <2>1. [c EXCEPT !.stage = "answered", !.code = r] = [q EXCEPT !.code = r]
    OBVIOUS
  <2>2. q = Now("answered", now, code)
    BY <1>3
  <2> HIDE DEF q
  <2> QED
    BY <2>1, <2>2
<1> HIDE DEF Now
<1>7. ASSUME NEW n
      PROVE  [c EXCEPT !.stage = "stamped", !.now = n] = Served(c, "stamped", n, c.code)
  <2>1. Served(c, "stamped", n, c.code) = Now("stamped", n, code)
    BY <1>2
  <2> QED
    BY <1>4, <2>1
<1>8. ASSUME NEW r
      PROVE  [c EXCEPT !.stage = "answered", !.now = 0, !.code = r] = Served(c, "answered", 0, r)
  <2>1. Served(c, "answered", 0, r) = Now("answered", 0, r)
    BY <1>2
  <2> QED
    BY <1>5, <2>1
<1>9. ASSUME NEW r
      PROVE  [c EXCEPT !.stage = "answered", !.code = r] = Served(c, "answered", c.now, r)
  <2>1. Served(c, "answered", c.now, r) = Now("answered", now, r)
    BY <1>2
  <2> QED
    BY <1>6, <2>1
<1> QED
  BY <1>7, <1>8, <1>9

LEMMA DeleteTimedType ==
  ASSUME NEW c, c \in DeleteRecord, NEW now, now \in Nat
  PROVE  Served(c, "stamped", now, 0) \in DeleteRecord
  BY DeleteFields DEF Served, DeleteRecord, Coded, Stages

LEMMA DeleteAnsweredType ==
  ASSUME NEW c, c \in DeleteRecord, NEW code, code \in {204, 401, 404}, NEW now, now \in Nat
  PROVE  Served(c, "answered", now, code) \in DeleteRecord
  BY DeleteFields DEF Served, DeleteRecord, Coded, Stages

\* A pull that is given its cursor, and one that is given its rows.
Begun(q, now) == [q EXCEPT !.stage = "stamped", !.cursor = now]
Delivered(q, rows) == [q EXCEPT !.stage = "answered", !.rows = rows]

LEMMA BegunSteps ==
  ASSUME NEW q \in PullRecord, NEW now \in Nat
  PROVE  Begun(q, now) \in PullRecord /\ Begun(q, now).rows = q.rows
  BY DEF PullRecord, Begun, Stages

LEMMA DeliveredSteps ==
  ASSUME NEW q \in PullRecord, NEW rows \in Tables
  PROVE  Delivered(q, rows) \in PullRecord /\ Delivered(q, rows).rows = rows
  BY DEF PullRecord, Delivered, Stages

LEMMA PutsReplaced ==
  ASSUME TypeInv, NEW p \in puts, NEW q \in PutRecord, q.code \in {200, 409} => q.row \in Row,
         puts' \subseteq (puts \ {p}) \cup {q}, UNCHANGED <<deletes, pulls>>
  PROVE  NetworkOK' /\ Replied'
  BY DEF TypeInv, TypeOK, NetworkOK, Replied

LEMMA ClockType ==
  ASSUME TypeInv, clock' \in Instants
  PROVE  clock' \in Nat /\ clock' >= clock
  BY DEF TypeInv, TypeOK, ServerOK, Instants

LEMMA WroteType ==
  ASSUME TypeInv, NEW id \in Ids, NEW now, Wrote(id, now) \/ UNCHANGED late
  PROVE  late' \in [Devices -> SUBSET Ids]
  BY DEF Wrote, TypeInv, TypeOK, ServerOK

\* A server step leaves everything to the devices but the call it is about.
ServesPut(p) == RefusePut(p) \/ StampPut(p) \/ WritePut(p) \/ AnswerPut(p)
ServesDelete(c) == RefuseDelete(c) \/ StampDelete(c) \/ WriteDelete(c)
ServesPull(q) == StampPull(q) \/ AnswerPull(q)

LEMMA ServedStep ==
  ServerStep => \/ \E p \in puts : ServesPut(p)
                \/ \E c \in deletes : ServesDelete(c)
                \/ \E q \in pulls : ServesPull(q)
  BY DEF ServerStep, ServesPut, ServesDelete, ServesPull

LEMMA ServedSame ==
  ASSUME TypeInv
  PROVE  /\ \A p \in puts : ServesPut(p) =>
              UNCHANGED <<stores, queues, session, engine, deletes, pulls, runs, bounds>>
         /\ \A c \in deletes : ServesDelete(c) =>
              UNCHANGED <<stores, queues, session, engine, puts, pulls, runs, bounds>>
         /\ \A q \in pulls : ServesPull(q) =>
              UNCHANGED <<table, late, stores, queues, session, engine, puts, deletes, runs, bounds>>
  BY DEF ServesPut, ServesDelete, ServesPull, RefusePut, StampPut, WritePut, AnswerPut,
         RefuseDelete, StampDelete, WriteDelete, StampPull, AnswerPull, server

LEMMA ServerOnly ==
  ASSUME TypeInv, ServerStep
  PROVE  UNCHANGED <<stores, queues, session, engine, runs, bounds>>
  BY ServedStep, ServedSame

\* What becomes of a PUT.
LEMMA PutServed ==
  ASSUME TypeInv, NEW p \in puts
  PROVE  /\ RefusePut(p) => /\ puts' = (puts \ {p}) \cup {Answered(p, 401, p.row)}
                            /\ UNCHANGED server /\ ~HasSession(p.dev)
         /\ StampPut(p) => /\ puts' = (puts \ {p}) \cup {Timed(p, clock')}
                           /\ UNCHANGED <<table, late>> /\ clock' \in Nat /\ clock' >= clock
         /\ WritePut(p) => /\ puts' \subseteq (puts \ {p}) \cup {Stored(p)}
                           /\ puts \ {p} \subseteq puts'
                           /\ p.by # "nobody" => Stored(p) \in puts'
                           /\ UNCHANGED clock
         /\ AnswerPut(p) =>
              /\ UNCHANGED server
              /\ \E code \in {200, 404, 409}, row \in Row \cup {NoRow} :
                   /\ row = OwnRow(table, p.id, Account) /\ (code # 404 => row \in Row)
                   /\ puts' = (puts \ {p}) \cup {Answered(p, code, row)}
                   /\ code = 404 <=> row = NoRow
                   /\ code = 200 => Accepted(row, p.ws.version)
<1>1. p \in PutRecord /\ p.id \in Ids
  BY PutsType DEF TypeInv, TypeOK, NetworkOK
<1>2. ASSUME RefusePut(p)
      PROVE  /\ puts' = (puts \ {p}) \cup {Answered(p, 401, p.row)}
             /\ UNCHANGED server /\ ~HasSession(p.dev)
  <2>1. [p EXCEPT !.stage = "answered", !.code = 401] = Answered(p, 401, p.row)
    BY <1>1, PutSteps
  <2> QED
    BY <1>2, <2>1 DEF RefusePut, Refused, Becomes
<1>3. ASSUME StampPut(p)
      PROVE  /\ puts' = (puts \ {p}) \cup {Timed(p, clock')}
             /\ UNCHANGED <<table, late>> /\ clock' \in Nat /\ clock' >= clock
  <2>1. p.stage = "sent" /\ clock' \in Instants
    BY <1>3 DEF StampPut, LetIn
  <2>2. PICK now : now = clock'
    OBVIOUS
  <2>3. [p EXCEPT !.stage = "stamped", !.now = now] = Timed(p, now)
    BY <1>1, <2>1, PutSteps
  <2>4. puts' = (puts \ {p}) \cup {[p EXCEPT !.stage = "stamped", !.now = clock']}
    BY <1>3 DEF StampPut, Becomes
  <2>5. puts' = (puts \ {p}) \cup {Timed(p, clock')}
    BY <2>2, <2>3, <2>4
  <2>6. UNCHANGED <<table, late>>
    BY <1>3 DEF StampPut
  <2> QED
    BY <2>1, <2>5, <2>6, ClockType
<1>4. ASSUME WritePut(p)
      PROVE  /\ puts' \subseteq (puts \ {p}) \cup {Stored(p)}
             /\ puts \ {p} \subseteq puts'
             /\ p.by # "nobody" => Stored(p) \in puts'
             /\ UNCHANGED clock
  <2>1. [p EXCEPT !.stage = "written", !.now = 0] = Stored(p)
    BY <1>1, <1>4, PutSteps DEF WritePut
  <2>2. puts' = IF p.by = "nobody" THEN puts \ {p} ELSE (puts \ {p}) \cup {Stored(p)}
    BY <1>4, <2>1 DEF WritePut, Becomes
  <2>3. UNCHANGED clock
    BY <1>4 DEF WritePut
  <2> QED
    BY <2>2, <2>3
<1>5. ASSUME AnswerPut(p)
      PROVE  /\ UNCHANGED server
             /\ \E code \in {200, 404, 409}, row \in Row \cup {NoRow} :
                  /\ row = OwnRow(table, p.id, Account) /\ (code # 404 => row \in Row)
                  /\ puts' = (puts \ {p}) \cup {Answered(p, code, row)}
                  /\ code = 404 <=> row = NoRow
                  /\ code = 200 => Accepted(row, p.ws.version)
  <2>1. PICK row \in Row \cup {NoRow} : row = OwnRow(table, p.id, Account)
    BY <1>1 DEF OwnRow, Owns, Exists, TypeInv, TypeOK, ServerOK, Tables
  <2>2. PICK code \in {200, 404, 409} :
          code = IF row = NoRow THEN 404 ELSE IF Accepted(row, p.ws.version) THEN 200 ELSE 409
    <3>1. CASE row = NoRow
      BY <3>1
    <3>2. CASE row # NoRow /\ Accepted(row, p.ws.version)
      BY <3>2
    <3>3. CASE row # NoRow /\ ~Accepted(row, p.ws.version)
      BY <3>3
    <3> QED
      BY <3>1, <3>2, <3>3
  <2>3. [p EXCEPT !.stage = "answered", !.code = code, !.row = row] = Answered(p, code, row)
    <3>1. \A c, r : [p EXCEPT !.stage = "answered", !.code = c, !.row = r] = Answered(p, c, r)
      BY <1>1, PutSteps
    <3> QED
      BY <3>1
  <2>4. puts' = (puts \ {p}) \cup {[p EXCEPT !.stage = "answered", !.code = code, !.row = row]}
    BY <1>5, <2>1, <2>2 DEF AnswerPut, Becomes
  <2>5. UNCHANGED server
    BY <1>5 DEF AnswerPut
  <2>6. (code # 404 => row \in Row) /\ (code = 404 <=> row = NoRow)
        /\ (code = 200 => Accepted(row, p.ws.version))
    BY <2>2
  <2> QED
    BY <2>1, <2>3, <2>4, <2>5, <2>6
<1> QED
  BY <1>2, <1>3, <1>4, <1>5

\* Every step of a PUT leaves its call in place, or takes it away.
LEMMA PutChanged ==
  ASSUME TypeInv, NEW p \in puts, ServesPut(p)
  PROVE  \E q : /\ puts' \subseteq (puts \ {p}) \cup {q}
                /\ q.dev = p.dev /\ q.id = p.id /\ q.ws = p.ws /\ q.by = p.by
<1>1. ASSUME NEW stage, NEW now, NEW code, NEW row,
             puts' \subseteq (puts \ {p}) \cup {PutOf(p, stage, now, code, row)}
      PROVE  \E q : /\ puts' \subseteq (puts \ {p}) \cup {q}
                    /\ q.dev = p.dev /\ q.id = p.id /\ q.ws = p.ws /\ q.by = p.by
  <2> DEFINE q == PutOf(p, stage, now, code, row)
  <2>1. q.dev = p.dev /\ q.id = p.id /\ q.ws = p.ws /\ q.by = p.by
    BY PutOfFields
  <2> HIDE DEF q
  <2>2. puts' \subseteq (puts \ {p}) \cup {q}
    BY <1>1 DEF q
  <2> QED
    BY <2>1, <2>2
<1>2. \E stage, now, code, row : puts' \subseteq (puts \ {p}) \cup {PutOf(p, stage, now, code, row)}
  BY PutServed DEF ServesPut, Answered, Timed, Stored
<1> QED
  BY <1>1, <1>2

LEMMA ServePutType ==
  ASSUME TypeInv, NEW p \in puts, ServesPut(p)
  PROVE  TypeInv'
<1>1. p \in PutRecord /\ p.id \in Ids /\ p.ws \in Entry /\ p.now \in Nat
      /\ p.row \in Row \cup {NoRow}
  BY PutsType, PutFields DEF TypeInv, TypeOK, NetworkOK
<1>2. UNCHANGED <<stores, queues, session, engine, deletes, pulls, runs, bounds>>
  BY ServedSame
<1>3. ServerOK'
  <2>1. CASE RefusePut(p) \/ AnswerPut(p)
    BY <2>1, PutServed, SameTypes
  <2>2. CASE StampPut(p)
    BY <2>2, PutServed DEF TypeInv, TypeOK, ServerOK
  <2>3. CASE WritePut(p)
    <3>1. table' \in Tables
      BY <1>1, <2>3, UpsertedType DEF WritePut, TypeInv, TypeOK, ServerOK
    <3>2. late' \in [Devices -> SUBSET Ids]
      BY <1>1, <2>3, WroteType DEF WritePut
    <3> QED
      BY <2>3, <3>1, <3>2, PutServed DEF TypeInv, TypeOK, ServerOK
  <2> QED
    BY <2>1, <2>2, <2>3 DEF ServesPut
<1>4. \E q \in PutRecord : /\ puts' \subseteq (puts \ {p}) \cup {q}
                           /\ q.code \in {200, 409} => q.row \in Row
  <2>1. CASE RefusePut(p)
    <3>1. Answered(p, 401, p.row) \in PutRecord /\ Answered(p, 401, p.row).code = 401
      BY <1>1, AnsweredType DEF Answered, PutOf
    <3> QED
      BY <2>1, <3>1, PutServed
  <2>2. CASE StampPut(p)
    <3>1. puts' = (puts \ {p}) \cup {Timed(p, clock')} /\ clock' \in Nat
      BY <2>2, PutServed
    <3>2. Timed(p, clock') \in PutRecord /\ Timed(p, clock').code = 0
      BY <1>1, <3>1, TimedType DEF Timed, PutOf
    <3> QED
      BY <3>1, <3>2
  <2>3. CASE WritePut(p)
    <3>1. Stored(p) \in PutRecord /\ Stored(p).code = 0
      BY <1>1, StoredType DEF Stored, PutOf
    <3> QED
      BY <2>3, <3>1, PutServed
  <2>4. CASE AnswerPut(p)
    <3>1. PICK code \in {200, 404, 409}, row \in Row \cup {NoRow} :
            (code # 404 => row \in Row) /\ puts' = (puts \ {p}) \cup {Answered(p, code, row)}
      BY <2>4, PutServed
    <3>0. code \in {200, 401, 404, 409}
      OBVIOUS
    <3>2. Answered(p, code, row) \in PutRecord
      BY <1>1, <3>0, AnsweredType
    <3>3. Answered(p, code, row).code = code /\ Answered(p, code, row).row = row
      BY DEF Answered, PutOf
    <3> QED
      BY <3>1, <3>2, <3>3
  <2> QED
    BY <2>1, <2>2, <2>3, <2>4 DEF ServesPut
<1>5. NetworkOK' /\ Replied'
  BY <1>2, <1>4, PutsReplaced
<1>6. BoundsOK'
  BY <1>2, SameTypes DEF bounds
<1> QED
  BY <1>2, <1>3, <1>5, <1>6, SameTypes DEF TypeInv, TypeOK

\* What becomes of a DELETE.
LEMMA DeleteServed ==
  ASSUME TypeInv, NEW c \in deletes
  PROVE  /\ RefuseDelete(c) => /\ deletes' = (deletes \ {c}) \cup {Served(c, "answered", c.now, 401)}
                               /\ UNCHANGED server /\ ~HasSession(c.dev)
         /\ StampDelete(c) => /\ deletes' = (deletes \ {c}) \cup {Served(c, "stamped", clock', 0)}
                              /\ UNCHANGED <<table, late>> /\ clock' \in Nat /\ clock' >= clock
         /\ WriteDelete(c) =>
              /\ UNCHANGED clock
              /\ \E code \in {204, 404} :
                   /\ deletes' = (deletes \ {c}) \cup {Served(c, "answered", 0, code)}
                   /\ code = 204 <=> Owns(table, c.id, Account)
<1>1. c \in DeleteRecord
  BY DEF TypeInv, TypeOK, NetworkOK
<1>2. ASSUME RefuseDelete(c)
      PROVE  /\ deletes' = (deletes \ {c}) \cup {Served(c, "answered", c.now, 401)}
             /\ UNCHANGED server /\ ~HasSession(c.dev)
  <2>1. [c EXCEPT !.stage = "answered", !.code = 401] = Served(c, "answered", c.now, 401)
    <3>1. \A code : [c EXCEPT !.stage = "answered", !.code = code] = Served(c, "answered", c.now, code)
      BY <1>1, DeleteSteps
    <3> QED
      BY <3>1
  <2> QED
    BY <1>2, <2>1 DEF RefuseDelete, Refused, Becomes
<1>3. ASSUME StampDelete(c)
      PROVE  /\ deletes' = (deletes \ {c}) \cup {Served(c, "stamped", clock', 0)}
             /\ UNCHANGED <<table, late>> /\ clock' \in Nat /\ clock' >= clock
  <2>1. c.stage = "sent" /\ clock' \in Instants /\ c.code = 0
    BY <1>3, DeletesType DEF StampDelete, LetIn
  <2>2. PICK now : now = clock'
    OBVIOUS
  <2>3. [c EXCEPT !.stage = "stamped", !.now = now] = Served(c, "stamped", now, c.code)
    BY <1>1, DeleteSteps
  <2>4. deletes' = (deletes \ {c}) \cup {[c EXCEPT !.stage = "stamped", !.now = clock']}
    BY <1>3 DEF StampDelete, Becomes
  <2>5. deletes' = (deletes \ {c}) \cup {Served(c, "stamped", clock', 0)}
    BY <2>1, <2>2, <2>3, <2>4
  <2>6. UNCHANGED <<table, late>>
    BY <1>3 DEF StampDelete
  <2> QED
    BY <2>1, <2>5, <2>6, ClockType
<1>4. ASSUME WriteDelete(c)
      PROVE  /\ UNCHANGED clock
             /\ \E code \in {204, 404} :
                  /\ deletes' = (deletes \ {c}) \cup {Served(c, "answered", 0, code)}
                  /\ code = 204 <=> Owns(table, c.id, Account)
  <2>1. PICK code \in {204, 404} : code = IF Owns(table, c.id, Account) THEN 204 ELSE 404
    <3>1. CASE Owns(table, c.id, Account)
      BY <3>1
    <3>2. CASE ~Owns(table, c.id, Account)
      BY <3>2
    <3> QED
      BY <3>1, <3>2
  <2>2. [c EXCEPT !.stage = "answered", !.now = 0, !.code = code] = Served(c, "answered", 0, code)
    <3>1. \A r : [c EXCEPT !.stage = "answered", !.now = 0, !.code = r] = Served(c, "answered", 0, r)
      BY <1>1, DeleteSteps
    <3> QED
      BY <3>1
  <2>3. deletes' = (deletes \ {c}) \cup
                    {[c EXCEPT !.stage = "answered", !.now = 0, !.code = code]}
    BY <1>4, <2>1 DEF WriteDelete, Becomes
  <2>4. UNCHANGED clock
    BY <1>4 DEF WriteDelete
  <2> QED
    BY <2>1, <2>2, <2>3, <2>4
<1> QED
  BY <1>2, <1>3, <1>4

LEMMA ServeDeleteType ==
  ASSUME TypeInv, NEW c \in deletes, ServesDelete(c)
  PROVE  TypeInv'
<1>1. c.id \in Ids /\ c \in DeleteRecord /\ c.now \in Nat
  BY DeleteFields DEF TypeInv, TypeOK, NetworkOK
<1>2. UNCHANGED <<stores, queues, session, engine, puts, pulls, runs, bounds>>
  BY ServedSame
<1>3. ServerOK'
  <2>1. CASE RefuseDelete(c)
    BY <2>1, DeleteServed, SameTypes
  <2>2. CASE StampDelete(c)
    BY <2>2, DeleteServed DEF TypeInv, TypeOK, ServerOK
  <2>3. CASE WriteDelete(c)
    <3>1. table' \in Tables
      BY <1>1, <2>3, SoftDeletedType DEF WriteDelete, TypeInv, TypeOK, ServerOK
    <3>2. late' \in [Devices -> SUBSET Ids]
      BY <1>1, <2>3, WroteType DEF WriteDelete
    <3> QED
      BY <2>3, <3>1, <3>2, DeleteServed DEF TypeInv, TypeOK, ServerOK
  <2> QED
    BY <2>1, <2>2, <2>3 DEF ServesDelete
<1>4. \E e \in DeleteRecord : deletes' = (deletes \ {c}) \cup {e}
  <2>1. CASE RefuseDelete(c)
    <3>1. 401 \in {204, 401, 404}
      OBVIOUS
    <3>2. Served(c, "answered", c.now, 401) \in DeleteRecord
      BY <1>1, <3>1, DeleteAnsweredType
    <3> QED
      BY <2>1, <3>2, DeleteServed
  <2>2. CASE StampDelete(c)
    <3>1. c.stage = "sent"
      BY <2>2 DEF StampDelete, LetIn
    <3>2. c.code = 0
      BY <3>1, DeletesType
    <3>3. /\ deletes' = (deletes \ {c}) \cup {Served(c, "stamped", clock', 0)}
          /\ clock' \in Nat
      BY <2>2, DeleteServed
    <3>4. PICK now \in Nat : now = clock'
      BY <3>3
    <3>5. Served(c, "stamped", now, 0) \in DeleteRecord
      BY <1>1, <3>4, DeleteTimedType
    <3> QED
      BY <3>3, <3>4, <3>5
  <2>3. CASE WriteDelete(c)
    <3>1. PICK code \in {204, 404} : deletes' = (deletes \ {c}) \cup {Served(c, "answered", 0, code)}
      BY <2>3, DeleteServed
    <3>2. code \in {204, 401, 404} /\ 0 \in Nat
      OBVIOUS
    <3>3. Served(c, "answered", 0, code) \in DeleteRecord
      BY <1>1, <3>2, DeleteAnsweredType
    <3> QED
      BY <3>1, <3>3
  <2> QED
    BY <2>1, <2>2, <2>3 DEF ServesDelete
<1>5. NetworkOK' /\ Replied'
  BY <1>2, <1>4 DEF TypeInv, TypeOK, NetworkOK, Replied
<1>6. BoundsOK'
  BY <1>2, SameTypes DEF bounds
<1> QED
  BY <1>2, <1>3, <1>5, <1>6, SameTypes DEF TypeInv, TypeOK

\* What becomes of a pull.
Listing(q) == [id \in Ids |-> IF id \in ChangedSince(table, Account, q.since)
                              THEN table[id] ELSE NoRow]

LEMMA PullServed ==
  ASSUME TypeInv, NEW q \in pulls
  PROVE  /\ StampPull(q) => /\ pulls' = (pulls \ {q}) \cup {Begun(q, clock')}
                            /\ clock' \in Nat /\ clock' >= clock
         /\ AnswerPull(q) => /\ pulls' = (pulls \ {q}) \cup {Delivered(q, Listing(q))}
                             /\ UNCHANGED server
         /\ Listing(q) \in Tables
<1>1. StampPull(q) => /\ pulls' = (pulls \ {q}) \cup {Begun(q, clock')}
                      /\ clock' \in Nat /\ clock' >= clock
  BY ClockType DEF StampPull, Becomes, Begun
<1>2. AnswerPull(q) => /\ pulls' = (pulls \ {q}) \cup {Delivered(q, Listing(q))}
                       /\ UNCHANGED server
  BY DEF AnswerPull, Becomes, Delivered, Listing
<1>3. Listing(q) \in Tables
  BY DEF Listing, TypeInv, TypeOK, ServerOK, Tables
<1> QED
  BY <1>1, <1>2, <1>3

LEMMA ServePullType ==
  ASSUME TypeInv, NEW q \in pulls, ServesPull(q)
  PROVE  TypeInv'
<1>1. q \in PullRecord /\ Listing(q) \in Tables
  BY PullServed DEF TypeInv, TypeOK, NetworkOK
<1>2. UNCHANGED <<table, late, stores, queues, session, engine, puts, deletes, runs, bounds>>
  BY ServedSame
<1>3. ServerOK' /\ \E r \in PullRecord : pulls' = (pulls \ {q}) \cup {r}
  <2>1. CASE StampPull(q)
    <3>1. pulls' = (pulls \ {q}) \cup {Begun(q, clock')} /\ clock' \in Nat
      BY <2>1, PullServed
    <3>2. Begun(q, clock') \in PullRecord
      BY <1>1, <3>1, BegunSteps
    <3> QED
      BY <1>2, <3>1, <3>2 DEF TypeInv, TypeOK, ServerOK
  <2>2. CASE AnswerPull(q)
    <3>1. Delivered(q, Listing(q)) \in PullRecord
      BY <1>1, DeliveredSteps
    <3> QED
      BY <2>2, <3>1, PullServed, SameTypes
  <2> QED
    BY <2>1, <2>2 DEF ServesPull
<1>4. NetworkOK' /\ Replied'
  BY <1>2, <1>3 DEF TypeInv, TypeOK, NetworkOK, Replied
<1>5. BoundsOK'
  BY <1>2, SameTypes DEF bounds
<1> QED
  BY <1>2, <1>3, <1>4, <1>5, SameTypes DEF TypeInv, TypeOK

\* What is left of the calls when one fails.
Orphan(c) == [c EXCEPT !.by = "nobody"]

LEMMA AbandonedPut ==
  ASSUME TypeInv, NEW p \in puts, puts' = Abandoned(puts, p), UNCHANGED <<deletes, pulls>>
  PROVE  NetworkOK' /\ Replied'
<1>1. p \in PutRecord
  BY DEF TypeInv, TypeOK, NetworkOK
<1>2. CASE Due(p)
  <2>1. Orphan(p) \in PutRecord /\ Orphan(p).code = 0
    BY <1>1, <1>2 DEF Due, Orphan, PutRecord, Coded, Waiters
  <2>2. puts' = (puts \ {p}) \cup {Orphan(p)}
    BY <1>2 DEF Abandoned, Orphan
  <2> QED
    BY <2>1, <2>2, PutsReplaced
<1>3. CASE ~Due(p)
  BY <1>3 DEF Abandoned, TypeInv, TypeOK, NetworkOK, Replied
<1> QED
  BY <1>2, <1>3

LEMMA AbandonedDelete ==
  ASSUME TypeInv, NEW c \in deletes, deletes' = Abandoned(deletes, c), UNCHANGED <<puts, pulls>>
  PROVE  NetworkOK' /\ Replied'
<1>1. c \in DeleteRecord
  BY DEF TypeInv, TypeOK, NetworkOK
<1>2. [c EXCEPT !.by = "nobody"] \in DeleteRecord
  BY <1>1 DEF DeleteRecord, Coded, Waiters
<1> QED
  BY <1>2 DEF Abandoned, TypeInv, TypeOK, NetworkOK, Replied

\* Calls that leave.
LEMMA FewerCalls ==
  ASSUME TypeInv, puts' \subseteq puts, deletes' \subseteq deletes, pulls' \subseteq pulls
  PROVE  NetworkOK' /\ Replied'
  BY DEF TypeInv, TypeOK, NetworkOK, Replied

LEMMA ReplyType ==
  ASSUME TypeInv,
         \/ \E p \in puts : PutDone(p) \/ PutConflict(p) \/ LoginPushed(p) \/ PutFails(p)
         \/ \E c \in deletes : DeleteDone(c) \/ DeleteFails(c)
         \/ \E q \in pulls : DeltaFails(q)
         \/ \E p \in puts \cup deletes : Orphaned(p)
  PROVE  TypeInv'
<1>1. ASSUME NEW p \in puts, PutDone(p) PROVE TypeInv'
  BY <1>1, FewerCalls, SameTypes DEF PutDone, bounds, TypeInv, TypeOK
<1>2. ASSUME NEW p \in puts, PutConflict(p) PROVE TypeInv'
  <2>1. p.dev \in Devices /\ p.id \in Ids /\ p.row \in Row
    BY <1>2, PutsType DEF PutConflict
  <2>2. tabs' \in [Devices -> EntryMap]
    <3>1. tabs' = tabs \/ tabs' = [tabs EXCEPT ![p.dev][p.id] = EntryOf(p.row)]
      BY <1>2 DEF PutConflict
    <3>2. tabs \in [Devices -> EntryMap] /\ EntryOf(p.row) \in Entry
      BY <2>1, EntryOfType DEF TypeInv, TypeOK, StoresOK
    <3>3. [tabs EXCEPT ![p.dev][p.id] = EntryOf(p.row)] \in [Devices -> EntryMap]
      BY <2>1, <3>2, StoreType
    <3> QED
      BY <3>1, <3>2, <3>3
  <2>3. StoresOK' /\ EngineOK'
    BY <1>2, <2>1, <2>2 DEF PutConflict, TypeInv, TypeOK, StoresOK, EngineOK
  <2> QED
    BY <1>2, <2>3, FewerCalls, SameTypes DEF PutConflict, bounds, TypeInv, TypeOK
<1>3. ASSUME NEW p \in puts, LoginPushed(p) PROVE TypeInv'
  <2>1. p.dev \in Devices /\ p.id \in Ids /\ (p.code # 401 => p.row \in Row)
    BY <1>3, PutsType DEF LoginPushed
  <2>2. RunsOK' /\ Pushable'
    <3>1. CASE p.code = 401
      BY <1>3, <3>1 DEF LoginPushed, TypeInv, TypeOK, RunsOK, Pushable
    <3>2. CASE p.code # 401
      <4>1. EntryOf(p.row) \in Entry
        BY <2>1, <3>2, EntryOfType
      <4>2. login' = [login EXCEPT ![p.dev].stash[p.id] = EntryOf(p.row)] /\ UNCHANGED flush
        BY <1>3, <3>2 DEF LoginPushed
      <4>3. login[p.dev] \in LoginRecord /\ login \in [Devices -> LoginRecord]
        BY <2>1 DEF TypeInv, TypeOK, RunsOK
      <4>4. /\ login'[p.dev] \in LoginRecord
            /\ login'[p.dev].ids = login[p.dev].ids
            /\ \A id \in Ids : login'[p.dev].stash[id] =
                 IF id = p.id THEN EntryOf(p.row) ELSE login[p.dev].stash[id]
        BY <2>1, <4>1, <4>2, <4>3 DEF LoginRecord, EntryMap
      <4>5. \A d \in Devices : d # p.dev => login'[d] = login[d]
        BY <4>2, <4>3
      <4>6. RunsOK'
        BY <2>1, <4>2, <4>3, <4>4 DEF TypeInv, TypeOK, RunsOK
      <4>7. login[p.dev].ids \subseteq Ids
        BY <4>3 DEF LoginRecord
      <4> QED
        BY <4>1, <4>2, <4>4, <4>5, <4>6, <4>7 DEF TypeInv, Pushable
    <3> QED
      BY <3>1, <3>2
  <2> QED
    BY <1>3, <2>2, FewerCalls, SameTypes DEF LoginPushed, bounds, TypeInv, TypeOK
<1>4. ASSUME NEW p \in puts, PutFails(p) PROVE TypeInv'
  <2>1. p.dev \in Devices /\ p.id \in Ids /\ p.ws \in Entry
    BY PutsType
  <2>2. QueuesOK'
    <3>1. (IF Has(tabs, p.dev, p.id) THEN tabs[p.dev][p.id] ELSE p.ws) \in Entry
      BY <2>1, TabEntry
    <3>2. offlineQueue' \in [Devices -> EntryMap]
      BY <1>4, <2>1, <3>1, StoreType DEF PutFails, Queue, TypeInv, TypeOK, QueuesOK
    <3> QED
      BY <1>4, <3>2 DEF PutFails, TypeInv, TypeOK, QueuesOK
  <2> QED
    BY <1>4, <2>2, AbandonedPut, SameTypes DEF PutFails, TypeInv, TypeOK
<1>5. ASSUME NEW c \in deletes, DeleteDone(c) PROVE TypeInv'
  BY <1>5, FewerCalls, SameTypes DEF DeleteDone, bounds, TypeInv, TypeOK
<1>6. ASSUME NEW c \in deletes, DeleteFails(c) PROVE TypeInv'
  <2>1. c.dev \in Devices /\ c.id \in Ids
    BY DeletesType
  <2>2. QueuesOK'
    BY <1>6, <2>1 DEF DeleteFails, TypeInv, TypeOK, QueuesOK
  <2> QED
    BY <1>6, <2>2, AbandonedDelete, SameTypes DEF DeleteFails, TypeInv, TypeOK
<1>7. ASSUME NEW q \in pulls, DeltaFails(q) PROVE TypeInv'
  BY <1>7, FewerCalls, SameTypes DEF DeltaFails, TypeInv, TypeOK
<1>8. ASSUME NEW p \in puts \cup deletes, Orphaned(p) PROVE TypeInv'
  BY <1>8, FewerCalls, SameTypes DEF Orphaned, bounds, TypeInv, TypeOK
<1> QED
  BY <1>1, <1>2, <1>3, <1>4, <1>5, <1>6, <1>7, <1>8

\* A flush or login replaced by another record.
LEMMA FlushReplaced ==
  ASSUME TypeInv, NEW d \in Devices, NEW f \in Flushes, NEW r \in FlushRecord,
         flush' = [flush EXCEPT ![d][f] = r],
         r.stage = "pushes" => \A id \in r.ids : r.queued[id] \in Entry
  PROVE  /\ flush' \in [Devices -> [Flushes -> FlushRecord]]
         /\ \A e \in Devices, g \in Flushes :
              flush'[e][g].stage = "pushes" =>
                \A id \in flush'[e][g].ids : flush'[e][g].queued[id] \in Entry
<1>1. flush \in [Devices -> [Flushes -> FlushRecord]]
  BY DEF TypeInv, TypeOK, RunsOK
<1>2. \A e \in Devices, g \in Flushes :
        flush'[e][g] = IF e = d /\ g = f THEN r ELSE flush[e][g]
  BY <1>1
<1>3. flush' \in [Devices -> [Flushes -> FlushRecord]]
  BY <1>1
<1> QED
  BY <1>2, <1>3 DEF TypeInv, Pushable

LEMMA LoginReplaced ==
  ASSUME TypeInv, NEW d \in Devices, NEW r \in LoginRecord,
         login' = [login EXCEPT ![d] = r], \A id \in r.ids : r.stash[id] \in Entry
  PROVE  /\ login' \in [Devices -> LoginRecord]
         /\ \A e \in Devices : \A id \in login'[e].ids : login'[e].stash[id] \in Entry
<1>1. login \in [Devices -> LoginRecord]
  BY DEF TypeInv, TypeOK, RunsOK
<1>2. \A e \in Devices : login'[e] = IF e = d THEN r ELSE login[e]
  BY <1>1
<1> QED
  BY <1>1, <1>2 DEF TypeInv, Pushable

LEMMA LoginOverType ==
  ASSUME TypeInv, NEW d \in Devices, LoginOver(d)
  PROVE  /\ login' \in [Devices -> LoginRecord] /\ isSyncing' \in [Devices -> BOOLEAN]
         /\ \A e \in Devices : \A id \in login'[e].ids : login'[e].stash[id] \in Entry
<1>1. NoLogin \in LoginRecord /\ NoLogin.ids = {}
  BY DEF NoLogin, LoginRecord, Nothing, EntryMap
<1> QED
  BY <1>1, LoginReplaced DEF LoginOver, TypeInv, TypeOK, EngineOK

LEMMA StartFlushType ==
  ASSUME TypeInv, NEW d \in Devices, NEW f \in Flushes, NEW queued \in SUBSET Ids,
         StartFlush(d, f, queued)
  PROVE  /\ flush' \in [Devices -> [Flushes -> FlushRecord]]
         /\ \A e \in Devices, g \in Flushes :
              flush'[e][g].stage = "pushes" =>
                \A id \in flush'[e][g].ids : flush'[e][g].queued[id] \in Entry
         /\ offlineDeletes' \in [Devices -> SUBSET Ids]
<1> DEFINE r == [NoFlush EXCEPT !.stage = "deletes", !.ids = queued]
<1>1. r \in FlushRecord /\ r.stage = "deletes"
  BY DEF NoFlush, FlushRecord, Nothing, EntryMap
<1>2. flush' = [flush EXCEPT ![d][f] = r]
  BY DEF StartFlush
<1> HIDE DEF r
<1>3. offlineDeletes' \in [Devices -> SUBSET Ids]
  BY DEF StartFlush, TypeInv, TypeOK, QueuesOK
<1> QED
  BY <1>1, <1>2, <1>3, FlushReplaced

\* The ids of a flush without one.
LEMMA FlushOneLess ==
  ASSUME TypeInv, NEW d \in Devices, NEW f \in Flushes, NEW id \in Ids,
         \/ /\ flush[d][f].stage = "deletes"
            /\ flush' = [flush EXCEPT ![d][f].ids = @ \ {id}]
         \/ /\ flush[d][f].stage = "pushes"
            /\ flush' = [flush EXCEPT ![d][f] =
                 [stage |-> "pushes", queued |-> [@.queued EXCEPT ![id] = NoEntry],
                  ids |-> @.ids \ {id}]]
  PROVE  /\ flush' \in [Devices -> [Flushes -> FlushRecord]]
         /\ \A e \in Devices, g \in Flushes :
              flush'[e][g].stage = "pushes" =>
                \A i \in flush'[e][g].ids : flush'[e][g].queued[i] \in Entry
<1>1. flush \in [Devices -> [Flushes -> FlushRecord]] /\ flush[d][f] \in FlushRecord
  BY DEF TypeInv, TypeOK, RunsOK
<1>2. CASE flush[d][f].stage = "deletes" /\ flush' = [flush EXCEPT ![d][f].ids = @ \ {id}]
  <2> DEFINE r == [flush[d][f] EXCEPT !.ids = @ \ {id}]
  <2>1. r \in FlushRecord /\ r.stage = "deletes"
    BY <1>1, <1>2 DEF FlushRecord
  <2>2. flush' = [flush EXCEPT ![d][f] = r]
    BY <1>1, <1>2
  <2> HIDE DEF r
  <2> QED
    BY <2>1, <2>2, FlushReplaced
<1>3. CASE flush[d][f].stage = "pushes" /\ flush' = [flush EXCEPT ![d][f] =
             [stage |-> "pushes", queued |-> [@.queued EXCEPT ![id] = NoEntry],
              ids |-> @.ids \ {id}]]
  <2> DEFINE r == [stage |-> "pushes", queued |-> [flush[d][f].queued EXCEPT ![id] = NoEntry],
                   ids |-> flush[d][f].ids \ {id}]
  <2>1. r \in FlushRecord
    BY <1>1 DEF FlushRecord, EntryMap
  <2>2. \A i \in r.ids : r.queued[i] \in Entry
    <3>1. \A i \in flush[d][f].ids : flush[d][f].queued[i] \in Entry /\ i \in Ids
      BY <1>1, <1>3 DEF TypeInv, Pushable, FlushRecord
    <3> QED
      BY <1>1, <3>1 DEF FlushRecord, EntryMap
  <2>3. flush' = [flush EXCEPT ![d][f] = r]
    BY <1>1, <1>3
  <2> HIDE DEF r
  <2> QED
    BY <2>1, <2>2, <2>3, FlushReplaced
<1> QED
  BY <1>2, <1>3

LEMMA FlushType ==
  ASSUME TypeInv, NEW d \in Devices, NEW f \in Flushes,
         \/ FlushTakeQueue(d, f) \/ FlushEnds(d, f)
         \/ \E id \in Ids : FlushDelete(d, f, id) \/ FlushPush(d, f, id)
  PROVE  TypeInv'
<1>1. ASSUME FlushTakeQueue(d, f) PROVE TypeInv'
  <2> DEFINE r == [stage |-> "pushes", queued |-> offlineQueue[d],
                   ids |-> {id \in Ids : Has(offlineQueue, d, id)}]
  <2>1. r \in FlushRecord /\ \A id \in r.ids : r.queued[id] \in Entry
    BY DEF FlushRecord, TypeInv, TypeOK, QueuesOK, EntryMap, Has
  <2>2. flush' = [flush EXCEPT ![d][f] = r]
    BY <1>1 DEF FlushTakeQueue
  <2> HIDE DEF r
  <2>3. RunsOK' /\ Pushable'
    <3>1. /\ flush' \in [Devices -> [Flushes -> FlushRecord]]
          /\ \A e \in Devices, g \in Flushes :
               flush'[e][g].stage = "pushes" =>
                 \A i \in flush'[e][g].ids : flush'[e][g].queued[i] \in Entry
      BY <2>1, <2>2, FlushReplaced
    <3> QED
      BY <1>1, <3>1 DEF FlushTakeQueue, TypeInv, TypeOK, RunsOK, Pushable
  <2>4. QueuesOK'
    <3>1. Nothing \in EntryMap
      BY DEF Nothing, EntryMap
    <3> QED
      BY <1>1, <3>1 DEF FlushTakeQueue, TypeInv, TypeOK, QueuesOK
  <2> QED
    BY <1>1, <2>3, <2>4, SameTypes DEF FlushTakeQueue, network, bounds, TypeInv, TypeOK
<1>2. ASSUME FlushEnds(d, f) PROVE TypeInv'
  <2>1. NoFlush \in FlushRecord /\ NoFlush.stage = "idle"
    BY DEF NoFlush, FlushRecord, Nothing, EntryMap
  <2>2. RunsOK' /\ Pushable' /\ EngineOK'
    <3>1. CASE f = "loginFlush"
      BY <1>2, <2>1, <3>1, FlushReplaced, LoginOverType
      DEF FlushEnds, RunsOK, Pushable, TypeInv, TypeOK, EngineOK
    <3>2. CASE f # "loginFlush"
      BY <1>2, <2>1, <3>2, FlushReplaced
      DEF FlushEnds, RunsOK, Pushable, TypeInv, TypeOK, EngineOK
    <3> QED
      BY <3>1, <3>2
  <2> QED
    BY <1>2, <2>2, SameTypes DEF FlushEnds, network, bounds, TypeInv, TypeOK
<1>3. ASSUME NEW id \in Ids, FlushDelete(d, f, id) PROVE TypeInv'
  <2>1. RunsOK' /\ Pushable'
    BY <1>3, FlushOneLess DEF FlushDelete, RunsOK, Pushable, TypeInv, TypeOK
  <2>2. NetworkOK' /\ Replied' /\ QueuesOK'
    BY <1>3, RequestDeleteType DEF FlushDelete, Waiters, TypeInv, TypeOK, QueuesOK
  <2> QED
    BY <1>3, <2>1, <2>2, SameTypes DEF FlushDelete, bounds, TypeInv, TypeOK
<1>4. ASSUME NEW id \in Ids, FlushPush(d, f, id) PROVE TypeInv'
  <2>1. RunsOK' /\ Pushable'
    BY <1>4, FlushOneLess DEF FlushPush, RunsOK, Pushable, TypeInv, TypeOK
  <2>2. /\ NetworkOK' /\ Replied' /\ StoresOK'
        /\ offlineQueue' \in [Devices -> EntryMap] /\ isSyncing' \in [Devices -> BOOLEAN]
    <3>1. CASE Has(tabs, d, id)
      BY <1>4, <3>1, AutoSaveType DEF FlushPush, Waiters
    <3>2. CASE ~Has(tabs, d, id)
      <4>1. flush[d][f].queued[id] \in Entry
        BY <1>4 DEF FlushPush, TypeInv, Pushable
      <4> QED
        BY <1>4, <3>2, <4>1, PushEntryType
        DEF FlushPush, Waiters, TypeInv, TypeOK, StoresOK, EngineOK
    <3> QED
      BY <3>1, <3>2
  <2>3. QueuesOK' /\ EngineOK'
    BY <1>4, <2>2 DEF FlushPush, TypeInv, TypeOK, QueuesOK, EngineOK
  <2> QED
    BY <1>4, <2>1, <2>2, <2>3, SameTypes DEF FlushPush, bounds, TypeInv, TypeOK
<1> QED
  BY <1>1, <1>2, <1>3, <1>4

LEMMA FreshPageType ==
  ASSUME TypeInv, NEW d \in Devices, NEW status \in {"anonymous", "loading", "authed"},
         FreshPage(d, status), Does("reload") \/ Does("signin")
  PROVE  TypeInv'
<1>1. StoresOK'
  BY EmptySeq DEF FreshPage, NoneFiled, TypeInv, TypeOK, StoresOK
<1>2. QueuesOK'
  <2>1. Nothing \in EntryMap
    BY DEF Nothing, EntryMap
  <2> QED
    BY <2>1 DEF FreshPage, TypeInv, TypeOK, QueuesOK
<1>3. SessionOK' /\ EngineOK'
  BY DEF FreshPage, TypeInv, TypeOK, SessionOK, EngineOK
<1>4. NetworkOK' /\ Replied'
  <2>1. \A p \in puts : /\ p \in PutRecord /\ Orphan(p) \in PutRecord
                        /\ Orphan(p).code = p.code /\ Orphan(p).row = p.row
    BY DEF TypeInv, TypeOK, NetworkOK, PutRecord, Coded, Orphan, Waiters
  <2>2. \A p \in puts' : p \in puts \/ \E q \in puts : p = Orphan(q)
    BY DEF FreshPage, Orphan
  <2>3. \A c \in deletes : c \in DeleteRecord /\ Orphan(c) \in DeleteRecord
    BY DEF TypeInv, TypeOK, NetworkOK, DeleteRecord, Coded, Orphan, Waiters
  <2>4. \A c \in deletes' : c \in deletes \/ \E e \in deletes : c = Orphan(e)
    BY DEF FreshPage, Orphan
  <2>5. pulls' \subseteq pulls
    BY DEF FreshPage
  <2> QED
    BY <2>1, <2>2, <2>3, <2>4, <2>5 DEF TypeInv, TypeOK, NetworkOK, Replied
<1>5. RunsOK' /\ Pushable'
  <2>1. NoLogin \in LoginRecord /\ NoLogin.ids = {}
    BY DEF NoLogin, LoginRecord, Nothing, EntryMap
  <2>2. NoFlush \in FlushRecord /\ NoFlush.stage = "idle"
    BY DEF NoFlush, FlushRecord, Nothing, EntryMap
  <2>3. flush' \in [Devices -> [Flushes -> FlushRecord]]
    BY <2>2 DEF FreshPage, TypeInv, TypeOK, RunsOK
  <2>4. \A e \in Devices, f \in Flushes :
          flush'[e][f] = IF e = d THEN NoFlush ELSE flush[e][f]
    BY DEF FreshPage, TypeInv, TypeOK, RunsOK
  <2>5. login' = [login EXCEPT ![d] = NoLogin]
    BY DEF FreshPage
  <2>6. login' \in [Devices -> LoginRecord] /\ \A e \in Devices : \A id \in login'[e].ids : login'[e].stash[id] \in Entry
    BY <2>1, <2>5, LoginReplaced DEF TypeInv, TypeOK, RunsOK, Pushable
  <2>7. \A e \in Devices, f \in Flushes :
          flush'[e][f].stage = "pushes" =>
            \A id \in flush'[e][f].ids : flush'[e][f].queued[id] \in Entry
    BY <2>2, <2>4 DEF TypeInv, Pushable
  <2> QED
    BY <2>3, <2>6, <2>7 DEF RunsOK, Pushable
<1>6. BoundsOK'
  BY DoesType DEF FreshPage, TypeInv, TypeOK, BoundsOK
<1> QED
  BY <1>1, <1>2, <1>3, <1>4, <1>5, <1>6, SameTypes DEF FreshPage, TypeInv, TypeOK

LEMMA SessionType ==
  ASSUME TypeInv, NEW d \in Devices,
         Reload(d) \/ SignIn(d) \/ LogOut(d) \/ GoOffline(d) \/ GoOnline(d) \/ LoginStarts(d)
  PROVE  TypeInv'
<1>1. ASSUME Reload(d) \/ SignIn(d) PROVE TypeInv'
  BY <1>1, FreshPageType DEF Reload, SignIn
<1>2. ASSUME LogOut(d) PROVE TypeInv'
  <2>1. StoresOK' /\ SessionOK'
    BY <1>2, EmptySeq DEF LogOut, NoneFiled, TypeInv, TypeOK, StoresOK, SessionOK
  <2>2. BoundsOK'
    BY <1>2, DoesType DEF LogOut, TypeInv, TypeOK, BoundsOK
  <2> QED
    BY <1>2, <2>1, <2>2, SameTypes DEF LogOut, network, TypeInv, TypeOK
<1>3. ASSUME GoOffline(d) PROVE TypeInv'
  <2>1. SessionOK'
    BY <1>3 DEF GoOffline, TypeInv, TypeOK, SessionOK
  <2> QED
    BY <1>3, <2>1, SameTypes DEF GoOffline, network, TypeInv, TypeOK
<1>4. ASSUME GoOnline(d) PROVE TypeInv'
  <2>1. SessionOK'
    BY <1>4 DEF GoOnline, TypeInv, TypeOK, SessionOK
  <2>2. QueuesOK' /\ RunsOK' /\ Pushable'
    <3>1. CASE auth[d] = "authed"
      <4>1. offlineDeletes[d] \in SUBSET Ids
        BY DEF TypeInv, TypeOK, QueuesOK
      <4>2. StartFlush(d, "onlineFlush", offlineDeletes[d]) /\ UNCHANGED <<login, offlineQueue>>
        BY <1>4, <3>1 DEF GoOnline
      <4>3. "onlineFlush" \in Flushes
        BY DEF Flushes
      <4> QED
        BY <4>1, <4>2, <4>3, StartFlushType DEF TypeInv, TypeOK, QueuesOK, RunsOK, Pushable
    <3>2. CASE auth[d] # "authed"
      BY <1>4, <3>2, SameTypes DEF GoOnline, queues, runs
    <3> QED
      BY <3>1, <3>2
  <2> QED
    BY <1>4, <2>1, <2>2, SameTypes DEF GoOnline, network, bounds, TypeInv, TypeOK
<1>5. ASSUME LoginStarts(d) PROVE TypeInv'
  <2>1. SessionOK' /\ EngineOK'
    BY <1>5 DEF LoginStarts, TypeInv, TypeOK, SessionOK, EngineOK
  <2>2. NetworkOK' /\ Replied'
    BY <1>5, PullCallType DEF LoginStarts
  <2>3. RunsOK' /\ Pushable'
    <3> DEFINE r == [login[d] EXCEPT !.stage = "pull"]
    <3>1. r \in LoginRecord /\ \A id \in r.ids : r.stash[id] \in Entry
      BY DEF TypeInv, TypeOK, RunsOK, LoginRecord, Pushable
    <3>2. login' = [login EXCEPT ![d] = r] /\ UNCHANGED flush
      BY <1>5 DEF LoginStarts, TypeInv, TypeOK, RunsOK
    <3> HIDE DEF r
    <3> QED
      BY <3>1, <3>2, LoginReplaced DEF TypeInv, TypeOK, RunsOK, Pushable
  <2> QED
    BY <1>5, <2>1, <2>2, <2>3, SameTypes DEF LoginStarts, bounds, TypeInv, TypeOK
<1> QED
  BY <1>1, <1>2, <1>3, <1>4, <1>5

LEMMA LoginPulledType ==
  ASSUME TypeInv, NEW q \in pulls, LoginPulled(q)
  PROVE  TypeInv'
<1> DEFINE d == q.dev
           merged == MergeWorkspaces(tabs[d], q.rows)
           r == [stage |-> "push", stash |-> merged, ids |-> LocalOnly(merged, q.rows)]
<1>1. d \in Devices /\ q.rows \in Tables /\ q.cursor \in Nat
  BY PullsType
<1>2. merged \in EntryMap /\ MergeSavedLibrary(library[d], q.rows) \in [Ids -> Seq(Entry)]
  BY <1>1, MergeWorkspacesType, MergeSavedLibraryType DEF TypeInv, TypeOK, StoresOK
<1> HIDE DEF merged
<1>3. r \in LoginRecord /\ \A id \in r.ids : r.stash[id] \in Entry
  BY <1>2 DEF LoginRecord, LocalOnly, EntryMap
<1>4. login' = [login EXCEPT ![d] = r]
  BY DEF LoginPulled, merged
<1> HIDE DEF r
<1>5. RunsOK' /\ Pushable'
  <2>1. /\ login' \in [Devices -> LoginRecord]
        /\ \A e \in Devices : \A id \in login'[e].ids : login'[e].stash[id] \in Entry
    BY <1>1, <1>3, <1>4, LoginReplaced
  <2> QED
    BY <2>1 DEF LoginPulled, TypeInv, TypeOK, RunsOK, Pushable
<1>6. StoresOK'
  BY <1>1, <1>2 DEF LoginPulled, TypeInv, TypeOK, StoresOK
<1>7. EngineOK'
  BY <1>1 DEF LoginPulled, TypeInv, TypeOK, EngineOK
<1> QED
  BY <1>5, <1>6, <1>7, FewerCalls, SameTypes DEF LoginPulled, bounds, TypeInv, TypeOK

LEMMA LoginPushType ==
  ASSUME TypeInv, NEW d \in Devices, NEW id \in Ids, LoginPush(d, id)
  PROVE  TypeInv'
<1>1. CASE online[d]
  <2> DEFINE r == [login[d] EXCEPT !.ids = @ \ {id}]
             call == PutCall(d, id, login[d].stash[id], "login")
  <2>1. r \in LoginRecord /\ \A i \in r.ids : r.stash[i] \in Entry
    BY DEF TypeInv, TypeOK, RunsOK, LoginRecord, Pushable
  <2>2. login' = [login EXCEPT ![d] = r] /\ puts' = puts \cup {call}
    BY <1>1 DEF LoginPush, TypeInv, TypeOK, RunsOK
  <2>3. call \in PutRecord /\ call.code = 0
    <3>1. login[d].stash[id] \in Entry
      BY DEF LoginPush, TypeInv, Pushable
    <3> QED
      BY <3>1 DEF PutCall, PutRecord, Coded, Stages, HasSession, Waiters
  <2> HIDE DEF r, call
  <2>4. RunsOK' /\ Pushable'
    <3>1. /\ login' \in [Devices -> LoginRecord]
          /\ \A e \in Devices : \A i \in login'[e].ids : login'[e].stash[i] \in Entry
      BY <2>1, <2>2, LoginReplaced
    <3> QED
      BY <3>1 DEF LoginPush, TypeInv, TypeOK, RunsOK, Pushable
  <2>5. NetworkOK' /\ Replied'
    BY <2>2, <2>3 DEF LoginPush, TypeInv, TypeOK, NetworkOK, Replied
  <2>6. EngineOK'
    BY <1>1, SameTypes DEF LoginPush, engine
  <2> QED
    BY <2>4, <2>5, <2>6, SameTypes DEF LoginPush, bounds, TypeInv, TypeOK
<1>2. CASE ~online[d]
  <2>1. RunsOK' /\ Pushable' /\ EngineOK'
    BY <1>2, LoginOverType DEF LoginPush, TypeInv, TypeOK, RunsOK, Pushable, EngineOK
  <2> QED
    BY <1>2, <2>1, FewerCalls, SameTypes DEF LoginPush, bounds, TypeInv, TypeOK
<1> QED
  BY <1>1, <1>2

LEMMA LoginCommitsType ==
  ASSUME TypeInv, NEW d \in Devices, LoginCommits(d)
  PROVE  TypeInv'
<1> DEFINE stash == login[d].stash
           noticed == IF Watching(d) THEN {id \in Ids : stash[id] # tabs[d][id]} ELSE {}
           gone == {id \in noticed : stash[id] = NoEntry}
           queued == offlineDeletes[d] \cup DeletesQueued(d, gone)
<1>1. stash \in EntryMap /\ noticed \subseteq Ids /\ gone \subseteq Ids
  BY DEF TypeInv, TypeOK, RunsOK, LoginRecord
<1>2. queued \in SUBSET Ids
  BY <1>1 DEF DeletesQueued, TypeInv, TypeOK, QueuesOK
<1>3. /\ tabs' = [tabs EXCEPT ![d] = stash]
      /\ timers' = [timers EXCEPT ![d] = @ \cup (noticed \ gone)]
      /\ deletes' = deletes \cup DeleteCalls(d, gone, "own")
      /\ offlineQueue' = [offlineQueue EXCEPT ![d] =
                            [id \in Ids |-> IF id \in gone THEN NoEntry ELSE @[id]]]
      /\ UNCHANGED <<server, library, session, syncCursor, puts, pulls, bounds>>
      /\ IF auth[d] = "authed"
         THEN /\ StartFlush(d, "loginFlush", queued)
              /\ login' = [login EXCEPT ![d] = [NoLogin EXCEPT !.stage = "flush"]]
              /\ UNCHANGED isSyncing
         ELSE /\ LoginOver(d)
              /\ UNCHANGED <<offlineDeletes, flush>>
  BY DEF LoginCommits
<1> HIDE DEF stash, noticed, gone, queued
<1>4. StoresOK'
  BY <1>1, <1>3 DEF TypeInv, TypeOK, StoresOK
<1>5. NetworkOK' /\ Replied'
  <2>1. \A c \in DeleteCalls(d, gone, "own") : \E id \in Ids : c = DeleteCall(d, id, "own")
    BY <1>1 DEF DeleteCalls, DeleteCall
  <2>2. "own" \in Waiters
    BY DEF Waiters
  <2>3. \A c \in DeleteCalls(d, gone, "own") : c \in DeleteRecord
    BY <2>1, <2>2, DeleteCallType
  <2> QED
    BY <1>3, <2>3 DEF TypeInv, TypeOK, NetworkOK, Replied
<1>6. /\ RunsOK' /\ Pushable' /\ isSyncing' \in [Devices -> BOOLEAN]
      /\ offlineDeletes' \in [Devices -> SUBSET Ids]
  <2>1. CASE auth[d] = "authed"
    <3> DEFINE r == [NoLogin EXCEPT !.stage = "flush"]
    <3>1. r \in LoginRecord /\ r.ids = {}
      BY DEF NoLogin, LoginRecord, Nothing, EntryMap
    <3>2. "loginFlush" \in Flushes
      BY DEF Flushes
    <3>3. login' = [login EXCEPT ![d] = r] /\ StartFlush(d, "loginFlush", queued)
      BY <1>3, <2>1
    <3> HIDE DEF r
    <3>4. /\ login' \in [Devices -> LoginRecord]
          /\ \A e \in Devices : \A i \in login'[e].ids : login'[e].stash[i] \in Entry
      BY <3>1, <3>3, LoginReplaced
    <3> QED
      BY <1>2, <1>3, <2>1, <3>2, <3>3, <3>4, StartFlushType
      DEF RunsOK, Pushable, TypeInv, TypeOK, EngineOK
  <2>2. CASE auth[d] # "authed"
    BY <1>3, <2>2, LoginOverType DEF TypeInv, TypeOK, RunsOK, Pushable, QueuesOK
  <2> QED
    BY <2>1, <2>2
<1>7. QueuesOK' /\ EngineOK'
  <2>1. [id \in Ids |-> IF id \in gone THEN NoEntry ELSE offlineQueue[d][id]] \in EntryMap
    BY DEF TypeInv, TypeOK, QueuesOK, EntryMap
  <2>2. offlineQueue' \in [Devices -> EntryMap]
    BY <1>3, <2>1 DEF TypeInv, TypeOK, QueuesOK
  <2>3. timers' \in [Devices -> SUBSET Ids]
    BY <1>1, <1>3 DEF TypeInv, TypeOK, EngineOK
  <2> QED
    BY <1>3, <1>6, <2>2, <2>3 DEF TypeInv, TypeOK, QueuesOK, EngineOK
<1> QED
  BY <1>3, <1>4, <1>5, <1>6, <1>7, SameTypes DEF bounds, TypeInv, TypeOK

LEMMA LoginFailsType ==
  ASSUME TypeInv, NEW d \in Devices, LoginFails(d)
  PROVE  TypeInv'
<1>1. NetworkOK' /\ Replied'
  BY FewerCalls, AbandonedPut DEF LoginFails
<1>2. RunsOK' /\ Pushable' /\ EngineOK'
  BY LoginOverType DEF LoginFails, TypeInv, TypeOK, RunsOK, Pushable, EngineOK
<1> QED
  BY <1>1, <1>2, SameTypes DEF LoginFails, TypeInv, TypeOK

LEMMA NextTypeInv == TypeInv /\ [Next]_vars => TypeInv'
<1> SUFFICES ASSUME TypeInv, [Next]_vars PROVE TypeInv'
  OBVIOUS
<1>1. ASSUME NEW d \in Devices, Continues(d) PROVE TypeInv'
  BY <1>1, LoginPushType, FlushType, LoginCommitsType DEF Continues
<1>2. ASSUME NEW d \in Devices, Event(d) PROVE TypeInv'
  <2>1. CASE UserActs(d)
    BY <2>1, UserType, SessionType DEF UserActs
  <2>2. CASE TimerEvent(d)
    BY <2>2, TimerType DEF TimerEvent
  <2>3. CASE DeltaRefresh(d)
    BY <2>3, DeltaRefreshType
  <2>4. CASE ReplyEvent(d)
    BY <2>4, ReplyType, DeltaAppliedType, LoginPulledType DEF ReplyEvent
  <2>5. CASE FailureEvent(d)
    BY <2>5, ReplyType, LoginFailsType DEF FailureEvent
  <2>6. CASE LoginStarts(d) \/ GoOffline(d) \/ GoOnline(d)
    BY <2>6, SessionType
  <2> QED
    BY <1>2, <2>1, <2>2, <2>3, <2>4, <2>5, <2>6 DEF Event
<1>3. CASE \E p \in puts \cup deletes : Orphaned(p)
  BY <1>3, ReplyType
<1>4. CASE ServerStep
  BY <1>4, ServedStep, ServePutType, ServeDeleteType, ServePullType
<1>5. CASE UNCHANGED vars
  BY <1>5, SameTypes DEF vars, network, bounds, TypeInv, TypeOK
<1> QED
  BY <1>1, <1>2, <1>3, <1>4, <1>5 DEF Next

THEOREM TypeInvariance == Spec => []TypeInv
  BY InitTypeInv, NextTypeInv, PTL DEF Spec

\* Every variable of the engine keeps to the shape the code gives it: for every set
\* of devices, ids and operations, with logins, outages and overlapping pulls.
THEOREM SyncTypesCorrect == Spec => []TypeOK
<1>1. TypeInv => TypeOK
  BY DEF TypeInv
<1> QED
  BY <1>1, TypeInvariance, PTL

-----------------------------------------------------------------------------
(* Ids: whatever holds an entry or a row of an id, the id was created once. *)

Known(m) == \A id \in Ids : m[id] # NoEntry => id \in born
KnownRows(rows) == \A id \in Ids : rows[id] # NoRow => id \in born

TabsBorn == \A d \in Devices : Known(tabs[d])
LibraryBorn == \A d \in Devices, id \in Ids : library[d][id] # <<>> => id \in born
QueueBorn == \A d \in Devices : Known(offlineQueue[d])
LoginBorn == \A d \in Devices : Known(login[d].stash)
FlushBorn == \A d \in Devices, f \in Flushes : Known(flush[d][f].queued)
PutsBorn == \A p \in puts : p.id \in born
PullsBorn == \A q \in pulls : KnownRows(q.rows)
TableBorn == KnownRows(table)

BornInv ==
  TabsBorn /\ LibraryBorn /\ QueueBorn /\ LoginBorn /\ FlushBorn /\ PutsBorn /\ PullsBorn
    /\ TableBorn

LEMMA InitBorn == Init => BornInv
<1> SUFFICES ASSUME Init PROVE BornInv
  OBVIOUS
<1>1. TabsBorn /\ LibraryBorn /\ TableBorn
  <2>1. ASSUME born = Ids PROVE <1>1
    BY <2>1 DEF TabsBorn, LibraryBorn, TableBorn, Known, KnownRows
  <2>2. ASSUME Unsynced("authed", [d \in Devices |-> Nothing]) PROVE <1>1
    BY <2>2 DEF Unsynced, TabsBorn, LibraryBorn, TableBorn, Known, KnownRows, Nothing, NoneFiled
  <2> QED
    BY <2>1, <2>2 DEF Init, SyncedWith
<1>2. QueueBorn /\ LoginBorn /\ FlushBorn /\ PutsBorn /\ PullsBorn
  BY DEF Init, QueueBorn, LoginBorn, FlushBorn, PutsBorn, PullsBorn, Known, Nothing,
         NoLogin, NoFlush
<1> QED
  BY <1>1, <1>2 DEF BornInv

LEMMA SameBorn ==
  ASSUME BornInv, born \subseteq born'
  PROVE  /\ UNCHANGED tabs => TabsBorn'
         /\ UNCHANGED library => LibraryBorn'
         /\ UNCHANGED offlineQueue => QueueBorn'
         /\ UNCHANGED login => LoginBorn'
         /\ UNCHANGED flush => FlushBorn'
         /\ puts' \subseteq puts => PutsBorn'
         /\ pulls' \subseteq pulls => PullsBorn'
         /\ UNCHANGED table => TableBorn'
  BY DEF BornInv, TabsBorn, LibraryBorn, QueueBorn, LoginBorn, FlushBorn, PutsBorn, PullsBorn,
         TableBorn, Known, KnownRows

\* One entry of a store.
LEMMA BornEntry ==
  ASSUME NEW store \in [Devices -> EntryMap], \A d \in Devices : Known(store[d]),
         NEW d \in Devices, NEW id \in Ids, NEW e, id \in born \/ e = NoEntry
  PROVE  \A c \in Devices : Known([store EXCEPT ![d][id] = e][c])
  BY DEF Known, EntryMap

LEMMA BornPush ==
  ASSUME TypeInv, BornInv, UNCHANGED born, NEW d \in Devices, NEW id \in born, id \in Ids,
         NEW ws, NEW by, PushEntry(d, id, ws, by)
  PROVE  PutsBorn' /\ QueueBorn'
<1>1. PutsBorn'
  BY DEF PushEntry, PutCall, BornInv, PutsBorn
<1>2. QueueBorn'
  <2>1. CASE online[d]
    BY <2>1, SameBorn DEF PushEntry
  <2>2. CASE ~online[d]
    <3>1. offlineQueue' = [offlineQueue EXCEPT ![d][id] = ws]
      BY <2>2 DEF PushEntry, Queue
    <3>2. \A c \in Devices : Known([offlineQueue EXCEPT ![d][id] = ws][c])
      BY BornEntry DEF TypeInv, TypeOK, QueuesOK, BornInv, QueueBorn
    <3> QED
      BY <3>1, <3>2 DEF QueueBorn, Known
  <2> QED
    BY <2>1, <2>2
<1> QED
  BY <1>1, <1>2

LEMMA BornTabs ==
  ASSUME TypeInv, BornInv, born \subseteq born', NEW d \in Devices, NEW id \in Ids, NEW e,
         id \in born' \/ e = NoEntry, tabs' = [tabs EXCEPT ![d][id] = e]
  PROVE  TabsBorn'
<1>1. tabs \in [Devices -> EntryMap]
  BY DEF TypeInv, TypeOK, StoresOK
<1> QED
  BY <1>1 DEF BornInv, TabsBorn, Known, EntryMap

LEMMA BornAutoSave ==
  ASSUME TypeInv, BornInv, UNCHANGED born, NEW d \in Devices, NEW id \in Ids, NEW by,
         Has(tabs, d, id), AutoSave(d, id, by)
  PROVE  TabsBorn' /\ PutsBorn' /\ QueueBorn'
<1>1. id \in born
  BY DEF BornInv, TabsBorn, Known, Has
<1>2. CASE online[d]
  <2>1. tabs' = [tabs EXCEPT ![d][id] = Bump(tabs[d][id])] /\ PushEntry(d, id, Bump(tabs[d][id]), by)
    BY <1>2 DEF AutoSave
  <2> QED
    BY <1>1, <2>1, BornTabs, BornPush
<1>3. CASE ~online[d]
  <2>1. UNCHANGED <<tabs, puts>> /\ PushEntry(d, id, tabs[d][id], by)
    BY <1>3 DEF AutoSave, PushEntry
  <2> QED
    BY <1>1, <2>1, BornPush, SameBorn
<1> QED
  BY <1>2, <1>3

\* Merges make nothing of ids nobody holds.
LEMMA BornMerge ==
  ASSUME NEW local, Known(local), NEW rows, KnownRows(rows), NEW excluded
  PROVE  Known(MergeById(local, rows, excluded))
  BY DEF Known, KnownRows, MergeById

LEMMA BornMergeTabs ==
  ASSUME NEW local, Known(local), NEW rows, KnownRows(rows)
  PROVE  Known(MergeWorkspaces(local, rows))
  BY BornMerge DEF MergeWorkspaces

LEMMA BornMergeLibrary ==
  ASSUME NEW local, \A id \in Ids : local[id] # <<>> => id \in born, NEW rows, KnownRows(rows)
  PROVE  \A id \in Ids : MergeSavedLibrary(local, rows)[id] # <<>> => id \in born
<1> DEFINE last == [id \in Ids |-> IF local[id] = <<>> THEN NoEntry
                                   ELSE local[id][Len(local[id])]]
           merged == MergeById(last, rows, Ids \ SavedRows(rows, FALSE))
<1>1. Known(last)
  BY DEF Known
<1> HIDE DEF last
<1>2. Known(merged)
  BY <1>1, BornMerge
<1> HIDE DEF merged
<1>3. MergeSavedLibrary(local, rows) =
        [id \in Ids |-> IF merged[id] = NoEntry THEN <<>> ELSE <<merged[id]>>]
  BY DEF MergeSavedLibrary, MergeLibrary, merged, last
<1> QED
  BY <1>2, <1>3 DEF Known

LEMMA UserBorn ==
  ASSUME TypeInv, BornInv, NEW d \in Devices, NEW id \in Ids,
         \/ Create(d, id) \/ Edit(d, id) \/ ToggleSaved(d, id)
         \/ CloseUnsaved(d, id) \/ CloseSaved(d, id) \/ OpenSaved(d, id)
         \/ RenameClosed(d, id) \/ DeleteOpen(d, id) \/ DeleteClosed(d, id)
  PROVE  BornInv' /\ born \subseteq born'
<1>1. ASSUME NEW e, ChangeTab(d, id, e), born \subseteq born', id \in born'
      PROVE  BornInv'
  BY <1>1, BornTabs, SameBorn DEF ChangeTab, server, queues, network, runs, BornInv
<1>2. Has(tabs, d, id) \/ Filed(d, id) => id \in born
  BY DEF BornInv, TabsBorn, LibraryBorn, Known, Has, Filed
<1>3. ASSUME RemoveTab(d, id) PROVE BornInv'
  <2>1. TabsBorn'
    BY <1>3, BornTabs DEF RemoveTab
  <2>2. QueueBorn'
    <3>1. CASE Watching(d)
      <4>1. offlineQueue' = [offlineQueue EXCEPT ![d][id] = NoEntry]
        BY <1>3, <3>1 DEF RemoveTab
      <4>2. \A c \in Devices : Known([offlineQueue EXCEPT ![d][id] = NoEntry][c])
        BY BornEntry DEF TypeInv, TypeOK, QueuesOK, BornInv, QueueBorn
      <4> QED
        BY <1>3, <4>1, <4>2 DEF RemoveTab, QueueBorn, Known
    <3>2. CASE ~Watching(d)
      BY <1>3, <3>2, SameBorn DEF RemoveTab, queues
    <3> QED
      BY <3>1, <3>2
  <2> QED
    BY <1>3, <2>1, <2>2, SameBorn DEF RemoveTab, server, runs, BornInv
<1>4. ASSUME NEW tab, NEW filed, NEW moved, MoveSaved(d, id, tab, filed, moved), id \in born
      PROVE  BornInv'
  <2>1. TabsBorn'
    BY <1>4, BornTabs DEF MoveSaved
  <2>2. LibraryBorn'
    BY <1>4 DEF MoveSaved, BornInv, LibraryBorn, TypeInv, TypeOK, StoresOK
  <2>3. PutsBorn' /\ QueueBorn'
    BY <1>4, BornPush DEF MoveSaved
  <2> QED
    BY <1>4, <2>1, <2>2, <2>3, SameBorn DEF MoveSaved, server, runs, BornInv
<1>5. ASSUME RenameClosed(d, id) PROVE BornInv'
  <2>1. LibraryBorn'
    BY <1>2, <1>5 DEF RenameClosed, BornInv, LibraryBorn, TypeInv, TypeOK, StoresOK
  <2>2. PutsBorn' /\ QueueBorn'
    BY <1>2, <1>5, BornPush DEF RenameClosed
  <2> QED
    BY <1>5, <2>1, <2>2, SameBorn DEF RenameClosed, server, runs, BornInv
<1>6. ASSUME DeleteClosed(d, id) PROVE BornInv'
  <2>1. LibraryBorn'
    BY <1>6 DEF DeleteClosed, BornInv, LibraryBorn, TypeInv, TypeOK, StoresOK
  <2> QED
    BY <1>6, <2>1, SameBorn DEF DeleteClosed, server, runs, BornInv
<1>7. CASE Create(d, id) \/ Edit(d, id) \/ ToggleSaved(d, id)
  <2>1. born \subseteq born' /\ id \in born'
    BY <1>2, <1>7 DEF Create, Edit, ToggleSaved
  <2> QED
    BY <1>1, <1>7, <2>1 DEF Create, Edit, ToggleSaved
<1>8. CASE CloseUnsaved(d, id) \/ DeleteOpen(d, id)
  BY <1>3, <1>8 DEF CloseUnsaved, DeleteOpen, RemoveTab
<1>9. CASE CloseSaved(d, id) \/ OpenSaved(d, id)
  BY <1>2, <1>4, <1>9 DEF CloseSaved, OpenSaved, MoveSaved
<1>10. CASE RenameClosed(d, id) \/ DeleteClosed(d, id)
  BY <1>5, <1>6, <1>10 DEF RenameClosed, DeleteClosed
<1> QED
  BY <1>7, <1>8, <1>9, <1>10

LEMMA PullBorn ==
  ASSUME BornInv, NEW d, NEW by, NEW since, UNCHANGED born,
         pulls' = pulls \cup {PullCall(d, by, since)}
  PROVE  PullsBorn'
  BY DEF BornInv, PullsBorn, KnownRows, PullCall

LEMMA EngineBorn ==
  ASSUME TypeInv, BornInv,
         \/ \E d \in Devices, id \in Ids : TimerFires(d, id)
         \/ \E d \in Devices : DeltaRefresh(d)
         \/ \E q \in pulls : DeltaApplied(q) \/ DeltaFails(q) \/ ServesPull(q)
         \/ \E p \in puts : PutDone(p) \/ PutConflict(p) \/ PutFails(p) \/ ServesPut(p)
         \/ \E c \in deletes : DeleteDone(c) \/ DeleteFails(c) \/ ServesDelete(c)
         \/ \E p \in puts \cup deletes : Orphaned(p)
  PROVE  BornInv' /\ UNCHANGED born
<1>1. ASSUME NEW d \in Devices, NEW id \in Ids, TimerFires(d, id)
      PROVE  BornInv' /\ UNCHANGED born
  <2>1. UNCHANGED born
    BY <1>1 DEF TimerFires, bounds
  <2>2. CASE Has(tabs, d, id)
    BY <1>1, <2>1, <2>2, BornAutoSave, SameBorn DEF TimerFires, server, runs, BornInv
  <2>3. CASE ~Has(tabs, d, id)
    BY <1>1, <2>1, <2>3, SameBorn DEF TimerFires, server, runs, BornInv
  <2> QED
    BY <2>1, <2>2, <2>3
<1>2. ASSUME NEW d \in Devices, DeltaRefresh(d) PROVE BornInv' /\ UNCHANGED born
  BY <1>2, PullBorn, SameBorn DEF DeltaRefresh, server, stores, queues, runs, BornInv
<1>3. ASSUME NEW q \in pulls, DeltaApplied(q) PROVE BornInv' /\ UNCHANGED born
  <2>1. UNCHANGED born /\ pulls' \subseteq pulls
    BY <1>3 DEF DeltaApplied, bounds
  <2>2. q.dev \in Devices /\ KnownRows(q.rows)
    BY PullsType DEF BornInv, PullsBorn
  <2>3. TabsBorn' /\ LibraryBorn'
    <3>1. /\ \A d \in Devices : Known(tabs[d])
          /\ \A d \in Devices : \A id \in Ids : library[d][id] # <<>> => id \in born
      BY DEF BornInv, TabsBorn, LibraryBorn
    <3>2. /\ Known(MergeWorkspaces(tabs[q.dev], q.rows))
          /\ \A id \in Ids : MergeSavedLibrary(library[q.dev], q.rows)[id] # <<>> => id \in born
      BY <2>2, <3>1, BornMergeTabs, BornMergeLibrary
    <3>3. \/ UNCHANGED <<tabs, library>>
          \/ /\ tabs' = [tabs EXCEPT ![q.dev] = MergeWorkspaces(tabs[q.dev], q.rows)]
             /\ library' = [library EXCEPT ![q.dev] = MergeSavedLibrary(library[q.dev], q.rows)]
      BY <1>3 DEF DeltaApplied, stores
    <3>4. tabs \in [Devices -> EntryMap] /\ library \in [Devices -> [Ids -> Seq(Entry)]]
      BY DEF TypeInv, TypeOK, StoresOK
    <3> QED
      BY <2>1, <2>2, <3>1, <3>2, <3>3, <3>4 DEF TabsBorn, LibraryBorn, Known
  <2> QED
    BY <1>3, <2>1, <2>3, SameBorn DEF DeltaApplied, server, queues, runs, BornInv
<1>4. ASSUME NEW q \in pulls, DeltaFails(q) PROVE BornInv' /\ UNCHANGED born
  BY <1>4, SameBorn DEF DeltaFails, server, stores, queues, runs, BornInv
<1>5. ASSUME NEW q \in pulls, ServesPull(q) PROVE BornInv' /\ UNCHANGED born
  <2>1. UNCHANGED <<table, stores, queues, session, engine, puts, deletes, runs, bounds>>
    BY <1>5, ServedSame
  <2>2. q \in PullRecord /\ Listing(q) \in Tables
    BY PullServed DEF TypeInv, TypeOK, NetworkOK
  <2>3. KnownRows(q.rows) /\ KnownRows(Listing(q))
    BY DEF Listing, BornInv, PullsBorn, TableBorn, KnownRows
  <2>4. \E r : pulls' = (pulls \ {q}) \cup {r} /\ KnownRows(r.rows)
    <3>1. CASE StampPull(q)
      <4>1. pulls' = (pulls \ {q}) \cup {Begun(q, clock')} /\ clock' \in Nat
        BY <3>1, PullServed
      <4>2. Begun(q, clock').rows = q.rows
        BY <2>2, <4>1, BegunSteps
      <4> QED
        BY <2>3, <4>1, <4>2
    <3>2. CASE AnswerPull(q)
      <4>1. Delivered(q, Listing(q)).rows = Listing(q)
        BY <2>2, DeliveredSteps
      <4> QED
        BY <2>3, <3>2, <4>1, PullServed
    <3> QED
      BY <1>5, <3>1, <3>2 DEF ServesPull
  <2>5. PullsBorn' /\ UNCHANGED born
    BY <2>1, <2>4 DEF bounds, BornInv, PullsBorn, KnownRows
  <2> QED
    BY <2>1, <2>5, SameBorn DEF stores, queues, runs, BornInv
<1>6. ASSUME NEW p \in puts, PutDone(p) PROVE BornInv' /\ UNCHANGED born
  BY <1>6, SameBorn DEF PutDone, server, stores, queues, runs, bounds, BornInv
<1>7. ASSUME NEW p \in puts, PutConflict(p) PROVE BornInv' /\ UNCHANGED born
  <2>1. p.dev \in Devices /\ p.id \in Ids /\ p.id \in born
    BY PutsType DEF BornInv, PutsBorn
  <2>2. UNCHANGED born
    BY <1>7 DEF PutConflict, bounds
  <2>3. TabsBorn'
    <3>1. UNCHANGED tabs \/ tabs' = [tabs EXCEPT ![p.dev][p.id] = EntryOf(p.row)]
      BY <1>7 DEF PutConflict
    <3>2. CASE UNCHANGED tabs
      BY <2>2, <3>2, SameBorn
    <3>3. CASE tabs' = [tabs EXCEPT ![p.dev][p.id] = EntryOf(p.row)]
      BY <2>1, <2>2, <3>3, BornTabs
    <3> QED
      BY <3>1, <3>2, <3>3
  <2> QED
    BY <1>7, <2>2, <2>3, SameBorn DEF PutConflict, server, queues, runs, BornInv
<1>8. ASSUME NEW p \in puts, PutFails(p) PROVE BornInv' /\ UNCHANGED born
  <2>1. p \in PutRecord /\ p.dev \in Devices /\ p.id \in Ids /\ p.id \in born
    BY PutsType DEF BornInv, PutsBorn, TypeInv, TypeOK, NetworkOK
  <2>2. Orphan(p).id = p.id
    BY <2>1 DEF Orphan, PutRecord, Coded
  <2>3. PutsBorn'
    BY <1>8, <2>1, <2>2 DEF PutFails, Abandoned, Orphan, BornInv, PutsBorn
  <2>4. QueueBorn'
    <3> DEFINE e == IF Has(tabs, p.dev, p.id) THEN tabs[p.dev][p.id] ELSE p.ws
    <3>1. offlineQueue' = [offlineQueue EXCEPT ![p.dev][p.id] = e]
      BY <1>8 DEF PutFails, Queue
    <3> HIDE DEF e
    <3>2. \A c \in Devices : Known([offlineQueue EXCEPT ![p.dev][p.id] = e][c])
      BY <2>1, BornEntry DEF TypeInv, TypeOK, QueuesOK, BornInv, QueueBorn
    <3> QED
      BY <1>8, <3>1, <3>2 DEF PutFails, QueueBorn, Known
  <2> QED
    BY <1>8, <2>3, <2>4, SameBorn DEF PutFails, server, stores, runs, BornInv
<1>9. ASSUME NEW p \in puts, ServesPut(p) PROVE BornInv' /\ UNCHANGED born
  <2>1. p \in PutRecord /\ p.id \in Ids /\ p.id \in born
    BY PutsType DEF BornInv, PutsBorn, TypeInv, TypeOK, NetworkOK
  <2>2. UNCHANGED <<stores, queues, session, engine, deletes, pulls, runs, bounds>>
    BY <1>9, ServedSame
  <2>3. PutsBorn' /\ UNCHANGED born
    <3>1. \E q : puts' \subseteq (puts \ {p}) \cup {q} /\ q.id = p.id
      BY <1>9, PutChanged
    <3> QED
      BY <2>1, <2>2, <3>1 DEF bounds, BornInv, PutsBorn
  <2>4. TableBorn'
    <3>1. UNCHANGED table \/ table' = Upserted(table, p.id, Account, p.ws, p.now)
      BY <1>9, PutServed DEF ServesPut, WritePut, server
    <3>2. \A id \in Ids : id # p.id => Upserted(table, p.id, Account, p.ws, p.now)[id] = table[id]
      BY <2>1 DEF Upserted, TypeInv, TypeOK, ServerOK, Tables
    <3> QED
      BY <2>1, <2>3, <3>1, <3>2 DEF BornInv, TableBorn, KnownRows
  <2> QED
    BY <2>2, <2>3, <2>4, SameBorn DEF stores, queues, runs, BornInv
<1>10. ASSUME NEW c \in deletes, DeleteDone(c) \/ DeleteFails(c)
       PROVE  BornInv' /\ UNCHANGED born
  BY <1>10, SameBorn DEF DeleteDone, DeleteFails, server, stores, queues, runs, bounds, BornInv
<1>11. ASSUME NEW c \in deletes, ServesDelete(c) PROVE BornInv' /\ UNCHANGED born
  <2>1. \A id \in Ids : SoftDeleted(table, c.id, Account, c.now)[id] # NoRow => table[id] # NoRow
    BY DeletesType DEF SoftDeleted, Owns, Exists, TypeInv, TypeOK, ServerOK, Tables
  <2>2. UNCHANGED <<stores, queues, session, engine, puts, pulls, runs, bounds>>
    BY <1>11, ServedSame
  <2>3. UNCHANGED table \/ table' = SoftDeleted(table, c.id, Account, c.now)
    BY <1>11, DeleteServed DEF ServesDelete, WriteDelete, server
  <2>4. TableBorn' /\ UNCHANGED born
    BY <2>1, <2>2, <2>3 DEF bounds, BornInv, TableBorn, KnownRows
  <2> QED
    BY <2>2, <2>4, SameBorn DEF stores, queues, runs, BornInv
<1>12. ASSUME NEW p \in puts \cup deletes, Orphaned(p) PROVE BornInv' /\ UNCHANGED born
  BY <1>12, SameBorn DEF Orphaned, server, stores, queues, runs, bounds, BornInv
<1> QED
  BY <1>1, <1>2, <1>3, <1>4, <1>5, <1>6, <1>7, <1>8, <1>9, <1>10, <1>11, <1>12

LEMMA BornNothing == Known(Nothing) /\ Known(NoLogin.stash) /\ Known(NoFlush.queued)
  BY DEF Known, Nothing, NoLogin, NoFlush

LEMMA BornLogin ==
  ASSUME TypeInv, BornInv, UNCHANGED born, NEW d \in Devices, NEW r,
         login' = [login EXCEPT ![d] = r], Known(r.stash)
  PROVE  LoginBorn'
<1>1. \A e \in Devices : login'[e] = IF e = d THEN r ELSE login[e]
  BY DEF TypeInv, TypeOK, RunsOK
<1> QED
  BY <1>1 DEF BornInv, LoginBorn, Known

LEMMA BornFlush ==
  ASSUME TypeInv, BornInv, UNCHANGED born, NEW d \in Devices, NEW f \in Flushes, NEW r,
         flush' = [flush EXCEPT ![d][f] = r], Known(r.queued)
  PROVE  FlushBorn'
<1>1. \A e \in Devices, g \in Flushes :
        flush'[e][g] = IF e = d /\ g = f THEN r ELSE flush[e][g]
  BY DEF TypeInv, TypeOK, RunsOK
<1> QED
  BY <1>1 DEF BornInv, FlushBorn, Known

LEMMA BornStartFlush ==
  ASSUME TypeInv, BornInv, UNCHANGED born, NEW d \in Devices, NEW f \in Flushes, NEW queued,
         StartFlush(d, f, queued)
  PROVE  FlushBorn'
<1> DEFINE r == [NoFlush EXCEPT !.stage = "deletes", !.ids = queued]
<1>1. r.queued = NoFlush.queued
  BY DEF NoFlush
<1>2. flush' = [flush EXCEPT ![d][f] = r]
  BY DEF StartFlush
<1> HIDE DEF r
<1> QED
  BY <1>1, <1>2, BornNothing, BornFlush

LEMMA BornLoginOver ==
  ASSUME TypeInv, BornInv, UNCHANGED born, NEW d \in Devices, LoginOver(d)
  PROVE  LoginBorn'
  BY BornNothing, BornLogin DEF LoginOver

LEMMA FlushStepBorn ==
  ASSUME TypeInv, BornInv, NEW d \in Devices, NEW f \in Flushes,
         \/ FlushTakeQueue(d, f) \/ FlushEnds(d, f)
         \/ \E id \in Ids : FlushDelete(d, f, id) \/ FlushPush(d, f, id)
  PROVE  BornInv' /\ UNCHANGED born
<1>1. Known(flush[d][f].queued) /\ Known(offlineQueue[d])
  BY DEF BornInv, FlushBorn, QueueBorn
<1>2. ASSUME FlushTakeQueue(d, f) PROVE BornInv' /\ UNCHANGED born
  <2> DEFINE r == [stage |-> "pushes", queued |-> offlineQueue[d],
                   ids |-> {id \in Ids : Has(offlineQueue, d, id)}]
  <2>1. UNCHANGED born
    BY <1>2 DEF FlushTakeQueue, bounds
  <2>2. FlushBorn'
    <3>1. flush' = [flush EXCEPT ![d][f] = r] /\ Known(r.queued)
      BY <1>1, <1>2 DEF FlushTakeQueue
    <3> HIDE DEF r
    <3> QED
      BY <2>1, <3>1, BornFlush
  <2>3. QueueBorn'
    BY <1>2, <2>1, BornNothing
    DEF FlushTakeQueue, BornInv, QueueBorn, Known, TypeInv, TypeOK, QueuesOK
  <2> QED
    BY <1>2, <2>1, <2>2, <2>3, SameBorn DEF FlushTakeQueue, server, stores, network, BornInv
<1>3. ASSUME FlushEnds(d, f) PROVE BornInv' /\ UNCHANGED born
  <2>1. UNCHANGED born
    BY <1>3 DEF FlushEnds, bounds
  <2>2. FlushBorn'
    BY <1>3, <2>1, BornNothing, BornFlush DEF FlushEnds
  <2>3. LoginBorn'
    BY <1>3, <2>1, BornLoginOver, SameBorn DEF FlushEnds
  <2> QED
    BY <1>3, <2>1, <2>2, <2>3, SameBorn DEF FlushEnds, server, stores, queues, network, BornInv
<1>4. ASSUME NEW id \in Ids, FlushDelete(d, f, id) PROVE BornInv' /\ UNCHANGED born
  <2> DEFINE r == [flush[d][f] EXCEPT !.ids = @ \ {id}]
  <2>1. UNCHANGED born
    BY <1>4 DEF FlushDelete, bounds
  <2>2. FlushBorn'
    <3>1. flush' = [flush EXCEPT ![d][f] = r] /\ r.queued = flush[d][f].queued
      BY <1>4 DEF FlushDelete, TypeInv, TypeOK, RunsOK, FlushRecord
    <3> HIDE DEF r
    <3> QED
      BY <1>1, <2>1, <3>1, BornFlush
  <2> QED
    BY <1>4, <2>1, <2>2, SameBorn DEF FlushDelete, server, stores, BornInv
<1>5. ASSUME NEW id \in Ids, FlushPush(d, f, id) PROVE BornInv' /\ UNCHANGED born
  <2> DEFINE r == [stage |-> "pushes", queued |-> [flush[d][f].queued EXCEPT ![id] = NoEntry],
                   ids |-> flush[d][f].ids \ {id}]
  <2>1. UNCHANGED born
    BY <1>5 DEF FlushPush, bounds
  <2>2. flush[d][f] \in FlushRecord
    BY DEF TypeInv, TypeOK, RunsOK
  <2>3. FlushBorn'
    <3>1. flush' = [flush EXCEPT ![d][f] = r]
      BY <1>5, <2>2 DEF FlushPush, TypeInv, TypeOK, RunsOK
    <3>2. Known(r.queued)
      BY <1>1, <2>2 DEF Known, FlushRecord, EntryMap
    <3> HIDE DEF r
    <3> QED
      BY <2>1, <3>1, <3>2, BornFlush
  <2>4. TabsBorn' /\ PutsBorn' /\ QueueBorn'
    <3>1. CASE Has(tabs, d, id)
      BY <1>5, <2>1, <3>1, BornAutoSave DEF FlushPush
    <3>2. CASE ~Has(tabs, d, id)
      <4>1. id \in born
        BY <1>1, <1>5, NoEntryIsNoEntry DEF FlushPush, Known, TypeInv, Pushable
      <4> QED
        BY <1>5, <2>1, <3>2, <4>1, BornPush, SameBorn DEF FlushPush
    <3> QED
      BY <3>1, <3>2
  <2> QED
    BY <1>5, <2>1, <2>3, <2>4, SameBorn DEF FlushPush, server, BornInv
<1> QED
  BY <1>2, <1>3, <1>4, <1>5

LEMMA SessionBorn ==
  ASSUME TypeInv, BornInv, NEW d \in Devices,
         Reload(d) \/ SignIn(d) \/ LogOut(d) \/ GoOffline(d) \/ GoOnline(d) \/ LoginStarts(d)
  PROVE  BornInv' /\ UNCHANGED born
<1>1. ASSUME NEW status, FreshPage(d, status) PROVE BornInv' /\ UNCHANGED born
  <2>1. UNCHANGED <<born, tabs, table>> /\ pulls' \subseteq pulls
    BY <1>1 DEF FreshPage, server
  <2>2. LibraryBorn'
    BY <1>1, <2>1 DEF FreshPage, NoneFiled, BornInv, LibraryBorn, TypeInv, TypeOK, StoresOK
  <2>3. QueueBorn'
    BY <1>1, <2>1, BornNothing DEF FreshPage, BornInv, QueueBorn, Known, TypeInv, TypeOK, QueuesOK
  <2>4. LoginBorn'
    BY <1>1, <2>1, BornNothing, BornLogin DEF FreshPage
  <2>5. FlushBorn'
    <3>1. \A e \in Devices, f \in Flushes :
            flush'[e][f] = IF e = d THEN NoFlush ELSE flush[e][f]
      BY <1>1 DEF FreshPage, TypeInv, TypeOK, RunsOK
    <3> QED
      BY <2>1, <3>1, BornNothing DEF BornInv, FlushBorn, Known
  <2>6. PutsBorn'
    <3>1. \A q \in puts : Orphan(q).id = q.id
      BY DEF TypeInv, TypeOK, NetworkOK, PutRecord, Orphan
    <3>2. \A p \in puts' : p \in puts \/ \E q \in puts : p = Orphan(q)
      BY <1>1 DEF FreshPage, Orphan
    <3> QED
      BY <2>1, <3>1, <3>2 DEF BornInv, PutsBorn
  <2> QED
    BY <2>1, <2>2, <2>3, <2>4, <2>5, <2>6, SameBorn DEF BornInv
<1>2. ASSUME LogOut(d) PROVE BornInv' /\ UNCHANGED born
  <2>1. LibraryBorn' /\ UNCHANGED born
    BY <1>2 DEF LogOut, NoneFiled, BornInv, LibraryBorn, TypeInv, TypeOK, StoresOK
  <2> QED
    BY <1>2, <2>1, SameBorn DEF LogOut, server, queues, network, runs, BornInv
<1>3. ASSUME GoOffline(d) PROVE BornInv' /\ UNCHANGED born
  BY <1>3, SameBorn DEF GoOffline, server, stores, queues, network, runs, BornInv
<1>4. ASSUME GoOnline(d) PROVE BornInv' /\ UNCHANGED born
  <2>1. UNCHANGED born
    BY <1>4 DEF GoOnline, bounds
  <2>2. FlushBorn'
    <3>1. "onlineFlush" \in Flushes
      BY DEF Flushes
    <3> QED
      BY <1>4, <2>1, <3>1, BornStartFlush, SameBorn DEF GoOnline
  <2> QED
    BY <1>4, <2>1, <2>2, SameBorn DEF GoOnline, server, stores, network, BornInv
<1>5. ASSUME LoginStarts(d) PROVE BornInv' /\ UNCHANGED born
  <2> DEFINE r == [login[d] EXCEPT !.stage = "pull"]
  <2>1. UNCHANGED born
    BY <1>5 DEF LoginStarts, bounds
  <2>2. LoginBorn'
    <3>1. login' = [login EXCEPT ![d] = r] /\ r.stash = login[d].stash
      BY <1>5 DEF LoginStarts, TypeInv, TypeOK, RunsOK, LoginRecord
    <3> HIDE DEF r
    <3> QED
      BY <2>1, <3>1, BornLogin DEF BornInv, LoginBorn
  <2>3. PullsBorn'
    BY <1>5, <2>1, PullBorn DEF LoginStarts
  <2> QED
    BY <1>5, <2>1, <2>2, <2>3, SameBorn DEF LoginStarts, server, stores, queues, BornInv
<1> QED
  BY <1>1, <1>2, <1>3, <1>4, <1>5 DEF Reload, SignIn

LEMMA LoginStepBorn ==
  ASSUME TypeInv, BornInv,
         \/ \E q \in pulls : LoginPulled(q)
         \/ \E p \in puts : LoginPushed(p)
         \/ \E d \in Devices : \/ \E id \in Ids : LoginPush(d, id)
                              \/ LoginCommits(d) \/ LoginFails(d)
  PROVE  BornInv' /\ UNCHANGED born
<1>1. ASSUME NEW q \in pulls, LoginPulled(q) PROVE BornInv' /\ UNCHANGED born
  <2> DEFINE merged == MergeWorkspaces(tabs[q.dev], q.rows)
             r == [stage |-> "push", stash |-> merged, ids |-> LocalOnly(merged, q.rows)]
  <2>1. UNCHANGED born /\ q.dev \in Devices /\ KnownRows(q.rows)
    BY <1>1, PullsType DEF LoginPulled, bounds, BornInv, PullsBorn
  <2>2. /\ Known(merged)
        /\ \A id \in Ids : MergeSavedLibrary(library[q.dev], q.rows)[id] # <<>> => id \in born
    BY <2>1, BornMergeTabs, BornMergeLibrary DEF BornInv, TabsBorn, LibraryBorn
  <2>3. login' = [login EXCEPT ![q.dev] = r]
    BY <1>1 DEF LoginPulled
  <2>4. library' = [library EXCEPT ![q.dev] = MergeSavedLibrary(library[q.dev], q.rows)]
    BY <1>1 DEF LoginPulled
  <2> HIDE DEF merged
  <2>5. LoginBorn'
    <3>1. Known(r.stash)
      BY <2>2
    <3> HIDE DEF r
    <3> QED
      BY <2>1, <2>3, <3>1, BornLogin
  <2>6. LibraryBorn'
    BY <2>1, <2>2, <2>4 DEF BornInv, LibraryBorn, TypeInv, TypeOK, StoresOK
  <2> QED
    BY <1>1, <2>1, <2>5, <2>6, SameBorn DEF LoginPulled, server, queues, BornInv
<1>2. ASSUME NEW p \in puts, LoginPushed(p) PROVE BornInv' /\ UNCHANGED born
  <2>1. UNCHANGED born /\ p.dev \in Devices /\ p.id \in Ids /\ p.id \in born
    BY <1>2, PutsType DEF LoginPushed, bounds, BornInv, PutsBorn
  <2>2. LoginBorn'
    <3>1. CASE p.code = 401
      BY <1>2, <2>1, <3>1, SameBorn DEF LoginPushed
    <3>2. CASE p.code # 401
      <4> DEFINE r == [login[p.dev] EXCEPT !.stash[p.id] = EntryOf(p.row)]
      <4>1. login[p.dev] \in LoginRecord /\ Known(login[p.dev].stash)
        BY <2>1 DEF TypeInv, TypeOK, RunsOK, BornInv, LoginBorn
      <4>2. Known(r.stash)
        BY <2>1, <4>1 DEF Known, LoginRecord, EntryMap
      <4>3. login' = [login EXCEPT ![p.dev] = r]
        BY <1>2, <2>1, <3>2 DEF LoginPushed, TypeInv, TypeOK, RunsOK
      <4> HIDE DEF r
      <4> QED
        BY <2>1, <4>2, <4>3, BornLogin
    <3> QED
      BY <3>1, <3>2
  <2> QED
    BY <1>2, <2>1, <2>2, SameBorn DEF LoginPushed, server, stores, queues, BornInv
<1>3. ASSUME NEW d \in Devices, NEW id \in Ids, LoginPush(d, id)
      PROVE  BornInv' /\ UNCHANGED born
  <2>1. UNCHANGED born
    BY <1>3 DEF LoginPush, bounds
  <2>2. CASE online[d]
    <3> DEFINE r == [login[d] EXCEPT !.ids = @ \ {id}]
    <3>1. login' = [login EXCEPT ![d] = r] /\ r.stash = login[d].stash
      BY <1>3, <2>2 DEF LoginPush, TypeInv, TypeOK, RunsOK, LoginRecord
    <3> HIDE DEF r
    <3>2. LoginBorn'
      BY <2>1, <3>1, BornLogin DEF BornInv, LoginBorn
    <3>3. id \in born
      BY <1>3, NoEntryIsNoEntry DEF LoginPush, TypeInv, Pushable, BornInv, LoginBorn, Known
    <3>4. PutsBorn'
      BY <1>3, <2>1, <2>2, <3>3 DEF LoginPush, PutCall, BornInv, PutsBorn
    <3> QED
      BY <1>3, <2>1, <3>2, <3>4, SameBorn DEF LoginPush, server, stores, queues, BornInv
  <2>3. CASE ~online[d]
    BY <1>3, <2>1, <2>3, BornLoginOver, SameBorn
    DEF LoginPush, server, stores, queues, BornInv
  <2> QED
    BY <2>2, <2>3
<1>4. ASSUME NEW d \in Devices, LoginCommits(d) PROVE BornInv' /\ UNCHANGED born
  <2> DEFINE stash == login[d].stash
             noticed == IF Watching(d) THEN {id \in Ids : stash[id] # tabs[d][id]} ELSE {}
             gone == {id \in noticed : stash[id] = NoEntry}
             queued == offlineDeletes[d] \cup DeletesQueued(d, gone)
  <2>1. /\ tabs' = [tabs EXCEPT ![d] = stash]
        /\ offlineQueue' = [offlineQueue EXCEPT ![d] =
                              [id \in Ids |-> IF id \in gone THEN NoEntry ELSE @[id]]]
        /\ UNCHANGED <<table, library, puts, pulls, born>>
        /\ IF auth[d] = "authed"
           THEN /\ StartFlush(d, "loginFlush", queued)
                /\ login' = [login EXCEPT ![d] = [NoLogin EXCEPT !.stage = "flush"]]
           ELSE LoginOver(d) /\ UNCHANGED flush
    BY <1>4 DEF LoginCommits, server, bounds
  <2>2. Known(stash) /\ Known(offlineQueue[d])
    BY DEF BornInv, LoginBorn, QueueBorn
  <2> HIDE DEF stash, gone, queued
  <2>3. TabsBorn'
    BY <2>1, <2>2 DEF BornInv, TabsBorn, Known, TypeInv, TypeOK, StoresOK
  <2>4. QueueBorn'
    BY <2>1, <2>2 DEF BornInv, QueueBorn, Known, TypeInv, TypeOK, QueuesOK
  <2>5. LoginBorn' /\ FlushBorn'
    <3>1. CASE auth[d] = "authed"
      <4> DEFINE r == [NoLogin EXCEPT !.stage = "flush"]
      <4>1. r.stash = NoLogin.stash
        BY DEF NoLogin
      <4>2. login' = [login EXCEPT ![d] = r] /\ StartFlush(d, "loginFlush", queued)
        BY <2>1, <3>1
      <4> HIDE DEF r
      <4>3. "loginFlush" \in Flushes
        BY DEF Flushes
      <4> QED
        BY <2>1, <4>1, <4>2, <4>3, BornLogin, BornNothing, BornStartFlush
    <3>2. CASE auth[d] # "authed"
      BY <2>1, <3>2, BornLoginOver, SameBorn
    <3> QED
      BY <3>1, <3>2
  <2> QED
    BY <2>1, <2>3, <2>4, <2>5, SameBorn DEF BornInv
<1>5. ASSUME NEW d \in Devices, LoginFails(d) PROVE BornInv' /\ UNCHANGED born
  <2>1. UNCHANGED born
    BY <1>5 DEF LoginFails
  <2>2. PutsBorn' /\ PullsBorn'
    <3>1. CASE UNCHANGED puts /\ pulls' \subseteq pulls
      BY <2>1, <3>1, SameBorn
    <3>2. ASSUME NEW p \in puts, puts' = Abandoned(puts, p), UNCHANGED pulls
          PROVE  PutsBorn' /\ PullsBorn'
      <4>1. Orphan(p).id = p.id
        BY DEF Orphan, TypeInv, TypeOK, NetworkOK, PutRecord
      <4> QED
        BY <2>1, <3>2, <4>1, SameBorn DEF Abandoned, Orphan, BornInv, PutsBorn
    <3> QED
      BY <1>5, <3>1, <3>2 DEF LoginFails
  <2>3. LoginBorn'
    BY <1>5, <2>1, BornLoginOver DEF LoginFails
  <2> QED
    BY <1>5, <2>1, <2>2, <2>3, SameBorn DEF LoginFails, server, stores, queues, BornInv
<1> QED
  BY <1>1, <1>2, <1>3, <1>4, <1>5

LEMMA NextBorn == TypeInv /\ BornInv /\ [Next]_vars => BornInv'
<1> SUFFICES ASSUME TypeInv, BornInv, [Next]_vars PROVE BornInv'
  OBVIOUS
<1>1. ASSUME NEW d \in Devices, Continues(d) PROVE BornInv'
  BY <1>1, FlushStepBorn, LoginStepBorn DEF Continues
<1>2. ASSUME NEW d \in Devices, Event(d) PROVE BornInv'
  <2>1. CASE UserActs(d)
    BY <2>1, UserBorn, SessionBorn DEF UserActs
  <2>2. CASE TimerEvent(d) \/ DeltaRefresh(d)
    BY <2>2, EngineBorn DEF TimerEvent
  <2>3. CASE ReplyEvent(d)
    BY <2>3, EngineBorn, LoginStepBorn DEF ReplyEvent
  <2>4. CASE FailureEvent(d)
    BY <2>4, EngineBorn, LoginStepBorn DEF FailureEvent
  <2>5. CASE LoginStarts(d) \/ GoOffline(d) \/ GoOnline(d)
    BY <2>5, SessionBorn
  <2> QED
    BY <1>2, <2>1, <2>2, <2>3, <2>4, <2>5 DEF Event
<1>3. CASE \E p \in puts \cup deletes : Orphaned(p)
  BY <1>3, EngineBorn
<1>4. CASE ServerStep
  BY <1>4, EngineBorn, ServedStep
<1>5. CASE UNCHANGED vars
  BY <1>5, SameBorn DEF vars, server, stores, queues, network, runs, bounds, BornInv
<1> QED
  BY <1>1, <1>2, <1>3, <1>4, <1>5 DEF Next

LEMMA BornInvariance == Spec => [](TypeInv /\ BornInv)
<1>1. Init => TypeInv /\ BornInv
  BY InitTypeInv, InitBorn
<1>2. TypeInv /\ BornInv /\ [Next]_vars => (TypeInv /\ BornInv)'
  BY NextTypeInv, NextBorn
<1> QED
  BY <1>1, <1>2, PTL DEF Spec

-----------------------------------------------------------------------------
(* Versions of open tabs *)

\* A tab of d that is there before and after has not gone back.
Onward(d, id) ==
  Has(tabs, d, id) /\ Has(tabs, d, id)' => tabs[d][id].version <= tabs'[d][id].version

LEMMA OnwardSame ==
  ASSUME TypeInv, NEW d \in Devices, NEW id \in Ids, tabs'[d][id] = tabs[d][id]
  PROVE  Onward(d, id)
<1> SUFFICES ASSUME Has(tabs, d, id) PROVE tabs[d][id].version <= tabs'[d][id].version
  BY DEF Onward
<1>1. tabs[d][id].version \in Nat
  BY TabEntry DEF Entry
<1> QED
  BY <1>1

\* It is enough to look at the tab an action sets.
LEMMA OnwardOne ==
  ASSUME TypeInv, NEW d \in Devices, NEW id \in Ids, NEW e \in Entry \cup {NoEntry},
         tabs' = [tabs EXCEPT ![d][id] = e],
         Has(tabs, d, id) /\ e # NoEntry => tabs[d][id].version <= e.version
  PROVE  \A c \in Devices, i \in Ids : Onward(c, i)
<1> SUFFICES ASSUME NEW c \in Devices, NEW i \in Ids PROVE Onward(c, i)
  OBVIOUS
<1>1. tabs \in [Devices -> EntryMap]
  BY DEF TypeInv, TypeOK, StoresOK
<1>2. CASE c = d /\ i = id
  BY <1>1, <1>2 DEF Onward, Has, EntryMap
<1>3. CASE ~(c = d /\ i = id)
  BY <1>1, <1>3, OnwardSame DEF EntryMap
<1> QED
  BY <1>2, <1>3

LEMMA OnwardSave ==
  ASSUME TypeInv, NEW d \in Devices, NEW id \in Ids, NEW by, Has(tabs, d, id), AutoSave(d, id, by)
  PROVE  \A c \in Devices, i \in Ids : Onward(c, i)
<1>1. tabs[d][id] \in Entry /\ Bump(tabs[d][id]) \in Entry
      /\ tabs[d][id].version <= Bump(tabs[d][id]).version
  BY TabEntry, BumpType DEF Entry
<1>2. CASE online[d]
  <2>1. tabs' = [tabs EXCEPT ![d][id] = Bump(tabs[d][id])]
    BY <1>2 DEF AutoSave
  <2> QED
    BY <1>1, <2>1, OnwardOne
<1>3. CASE ~online[d]
  BY <1>3, OnwardSame DEF AutoSave
<1> QED
  BY <1>2, <1>3

LEMMA OnwardMerge ==
  ASSUME NEW local \in EntryMap, NEW rows \in Tables, NEW id \in Ids,
         local[id] # NoEntry, MergeWorkspaces(local, rows)[id] # NoEntry
  PROVE  local[id].version <= MergeWorkspaces(local, rows)[id].version
<1>1. local[id] \in Entry
  BY DEF EntryMap
<1>2. /\ local[id].version \in Nat
      /\ rows[id] # NoRow => rows[id].version \in Nat /\ EntryOf(rows[id]).version = rows[id].version
  BY <1>1 DEF Tables, Row, Entry, EntryOf
<1>3. \/ MergeWorkspaces(local, rows)[id] = local[id]
      \/ /\ rows[id] # NoRow /\ rows[id].version > local[id].version
         /\ MergeWorkspaces(local, rows)[id] = EntryOf(rows[id])
  BY DEF MergeWorkspaces, MergeById
<1> QED
  BY <1>2, <1>3

\* A tab that an action closes is not there afterwards.
LEMMA OnwardUser ==
  ASSUME TypeInv, BornInv, NEW d \in Devices, UserActs(d)
  PROVE  \A c \in Devices, i \in Ids : Onward(c, i)
<1>1. ASSUME NEW id \in Ids, Create(d, id) PROVE \A c \in Devices, i \in Ids : Onward(c, i)
  <2>1. ~Has(tabs, d, id)
    BY <1>1 DEF Create, Has, BornInv, TabsBorn, Known
  <2>2. [content |-> ops', version |-> 1, saved |-> FALSE, open |-> TRUE] \in Entry
    BY <1>1, DoesType DEF Create, Entry
  <2> QED
    BY <1>1, <2>1, <2>2, OnwardOne DEF Create, ChangeTab
<1>2. ASSUME NEW id \in Ids, Edit(d, id) \/ ToggleSaved(d, id)
      PROVE  \A c \in Devices, i \in Ids : Onward(c, i)
  <2>1. tabs[d][id] \in Entry
    BY <1>2, TabEntry DEF Edit, ToggleSaved
  <2>2. PICK e \in Entry : ChangeTab(d, id, e) /\ e.version = tabs[d][id].version
    <3>1. CASE Edit(d, id)
      <4>1. ops' \in Contents
        BY <3>1, DoesType DEF Edit
      <4>2. [tabs[d][id] EXCEPT !.content = ops'] \in Entry
        BY <2>1, <4>1 DEF Entry
      <4> QED
        BY <2>1, <3>1, <4>2 DEF Edit, Entry
    <3>2. CASE ToggleSaved(d, id)
      <4>1. [tabs[d][id] EXCEPT !.saved = ~@] \in Entry
        BY <2>1 DEF Entry
      <4> QED
        BY <2>1, <3>2, <4>1 DEF ToggleSaved, Entry
    <3> QED
      BY <1>2, <3>1, <3>2
  <2>3. tabs' = [tabs EXCEPT ![d][id] = e] /\ tabs[d][id].version <= e.version
    BY <2>1, <2>2 DEF ChangeTab, Entry
  <2> QED
    BY <2>3, OnwardOne
<1>3. ASSUME NEW id \in Ids, CloseUnsaved(d, id) \/ DeleteOpen(d, id) \/ CloseSaved(d, id)
      PROVE  \A c \in Devices, i \in Ids : Onward(c, i)
  <2>1. tabs' = [tabs EXCEPT ![d][id] = NoEntry]
    BY <1>3 DEF CloseUnsaved, DeleteOpen, CloseSaved, RemoveTab, MoveSaved
  <2> QED
    BY <2>1, OnwardOne
<1>4. ASSUME NEW id \in Ids, OpenSaved(d, id) PROVE \A c \in Devices, i \in Ids : Onward(c, i)
  <2> DEFINE opened == Bump([FirstFiled(d, id) EXCEPT !.open = TRUE])
  <2>1. opened \in Entry
    <3>1. [FirstFiled(d, id) EXCEPT !.open = TRUE] \in Entry
      BY <1>4, FiledEntry DEF OpenSaved, Entry
    <3> QED
      BY <3>1, BumpType
  <2>2. tabs' = [tabs EXCEPT ![d][id] = opened] /\ ~Has(tabs, d, id)
    BY <1>4 DEF OpenSaved, MoveSaved
  <2> QED
    BY <2>1, <2>2, OnwardOne
<1>5. ASSUME UNCHANGED tabs PROVE \A c \in Devices, i \in Ids : Onward(c, i)
  BY <1>5, OnwardSame
<1> QED
  BY <1>1, <1>2, <1>3, <1>4, <1>5
  DEF UserActs, RenameClosed, DeleteClosed, Reload, SignIn, FreshPage, LogOut

LEMMA OnwardReply ==
  ASSUME TypeInv, NEW d \in Devices, ReplyEvent(d)
  PROVE  \A c \in Devices, i \in Ids : Onward(c, i)
<1>1. ASSUME NEW p \in puts, PutConflict(p) PROVE \A c \in Devices, i \in Ids : Onward(c, i)
  <2>1. p.dev \in Devices /\ p.id \in Ids /\ p.row \in Row
    BY <1>1, PutsType DEF PutConflict, TypeInv, Replied
  <2>2. CASE Has(tabs, p.dev, p.id) /\ Adopts(tabs[p.dev][p.id], p.row)
    <3>1. tabs' = [tabs EXCEPT ![p.dev][p.id] = EntryOf(p.row)]
      BY <1>1, <2>2 DEF PutConflict
    <3>2. EntryOf(p.row) \in Entry /\ EntryOf(p.row).version = p.row.version
      BY <2>1, EntryOfType DEF EntryOf
    <3>3. tabs[p.dev][p.id].version <= p.row.version
      BY <2>1, <2>2, TabEntry DEF Adopts, Entry, Row
    <3> QED
      BY <2>1, <3>1, <3>2, <3>3, OnwardOne
  <2>3. CASE ~(Has(tabs, p.dev, p.id) /\ Adopts(tabs[p.dev][p.id], p.row))
    BY <1>1, <2>3, OnwardSame DEF PutConflict
  <2> QED
    BY <2>2, <2>3
<1>2. ASSUME NEW q \in pulls, DeltaApplied(q) PROVE \A c \in Devices, i \in Ids : Onward(c, i)
  <2> SUFFICES ASSUME NEW c \in Devices, NEW i \in Ids PROVE Onward(c, i)
    OBVIOUS
  <2>1. q.dev \in Devices /\ q.rows \in Tables /\ tabs \in [Devices -> EntryMap]
    BY PullsType DEF TypeInv, TypeOK, StoresOK
  <2>2. CASE c = q.dev /\ tabs' = [tabs EXCEPT ![q.dev] = MergeWorkspaces(@, q.rows)]
    BY <2>1, <2>2, OnwardMerge DEF Onward, Has
  <2>3. CASE tabs'[c][i] = tabs[c][i]
    BY <2>3, OnwardSame
  <2> QED
    BY <1>2, <2>1, <2>2, <2>3 DEF DeltaApplied, stores
<1>3. ASSUME UNCHANGED tabs PROVE \A c \in Devices, i \in Ids : Onward(c, i)
  BY <1>3, OnwardSame
<1> QED
  BY <1>1, <1>2, <1>3
  DEF ReplyEvent, PutDone, LoginPushed, DeleteDone, LoginPulled, stores

LEMMA OnwardContinues ==
  ASSUME TypeInv, NEW d \in Devices, Continues(d)
  PROVE  \A c \in Devices, i \in Ids : Commits(c) \/ Onward(c, i)
<1>1. ASSUME NEW f \in Flushes, NEW id \in Ids, FlushPush(d, f, id)
      PROVE  \A c \in Devices, i \in Ids : Onward(c, i)
  BY <1>1, OnwardSave, OnwardSame DEF FlushPush
<1>2. ASSUME LoginCommits(d) PROVE \A c \in Devices, i \in Ids : Commits(c) \/ Onward(c, i)
  <2>1. Commits(d)
    BY <1>2 DEF LoginCommits, LoginOver, NoLogin, Commits, TypeInv, TypeOK, RunsOK
  <2>2. ASSUME NEW c \in Devices, c # d, NEW i \in Ids PROVE tabs'[c][i] = tabs[c][i]
    BY <1>2, <2>2 DEF LoginCommits, TypeInv, TypeOK, StoresOK
  <2> QED
    BY <2>1, <2>2, OnwardSame
<1>3. ASSUME UNCHANGED tabs PROVE \A c \in Devices, i \in Ids : Onward(c, i)
  BY <1>3, OnwardSame
<1> QED
  BY <1>1, <1>2, <1>3
  DEF Continues, LoginPush, FlushDelete, FlushTakeQueue, FlushEnds, stores

LEMMA OnwardEvent ==
  ASSUME TypeInv, BornInv, NEW d \in Devices, Event(d)
  PROVE  \A c \in Devices, i \in Ids : Onward(c, i)
<1>1. CASE TimerEvent(d)
  BY <1>1, OnwardSave, OnwardSame DEF TimerEvent, TimerFires
<1>2. CASE UNCHANGED tabs
  BY <1>2, OnwardSame
<1>3. CASE DeltaRefresh(d) \/ LoginStarts(d) \/ GoOffline(d) \/ GoOnline(d) \/ FailureEvent(d)
  BY <1>2, <1>3
  DEF DeltaRefresh, LoginStarts, GoOffline, GoOnline, FailureEvent, PutFails, DeleteFails,
      DeltaFails, LoginFails, stores
<1> QED
  BY <1>1, <1>3, OnwardUser, OnwardReply DEF Event

LEMMA OnwardStep ==
  ASSUME TypeInv, BornInv, [Next]_vars
  PROVE  \A c \in Devices, i \in Ids : Commits(c) \/ Onward(c, i)
<1>1. ASSUME UNCHANGED tabs PROVE \A c \in Devices, i \in Ids : Onward(c, i)
  BY <1>1, OnwardSame
<1>2. (\E p \in puts \cup deletes : Orphaned(p)) \/ ServerStep \/ UNCHANGED vars => UNCHANGED tabs
  BY ServerOnly DEF Orphaned, stores, vars
<1> QED
  BY <1>1, <1>2, OnwardContinues, OnwardEvent DEF Next

\* Whatever the devices, their users, the network and the polls do: an open tab's
\* version never goes back, except by a login's commit.
THEOREM TabVersionsForward == Spec => VersionsForward
<1>1. TypeInv /\ BornInv /\ [Next]_vars =>
        [\A d \in Devices, id \in Ids :
           Has(tabs, d, id) /\ Has(tabs, d, id)' /\ ~Commits(d) =>
             tabs[d][id].version <= tabs'[d][id].version]_vars
  BY OnwardStep DEF Onward
<1> QED
  BY <1>1, BornInvariance, PTL DEF Spec, VersionsForward

-----------------------------------------------------------------------------
(* Overlapping saves of an open workspace *)

\* A tab that was not there is opened only where no save of it is on its way.
NoReturn ==
  \A d \in Devices, id \in Ids :
    Has(tabs, d, id)' /\ ~Has(tabs, d, id) => \A p \in puts : ~(p.dev = d /\ p.id = id)

NobodyLogsIn == \A d \in Devices : login[d].stage = "idle"

\* No save on its way is newer than the tab.
NoneNewer ==
  \A p \in puts :
    Has(tabs, p.dev, p.id) => p.ws.version <= tabs[p.dev][p.id].version

SavesInv == NoneNewer /\ OneContentPerVersion

\* p is a call that was there already, at whatever point of its way.
Earlier(p) == \E q \in puts : q.dev = p.dev /\ q.id = p.id /\ q.ws = p.ws

\* p sends what this step leaves in the tab, at a version the tab did not have.
FreshSave(p) ==
  Has(tabs, p.dev, p.id)' =>
    /\ p.ws = tabs'[p.dev][p.id]
    /\ Has(tabs, p.dev, p.id) => tabs[p.dev][p.id].version < p.ws.version

SendsFresh == \A p \in puts' : Earlier(p) \/ FreshSave(p)

LEMMA EarlierCalls == ASSUME puts' \subseteq puts PROVE SendsFresh
  BY DEF SendsFresh, Earlier

LEMMA EntryPushed ==
  ASSUME NEW d, NEW id, NEW ws, NEW by, PushEntry(d, id, ws, by)
  PROVE  \A p \in puts' : p \in puts \/ (p.dev = d /\ p.id = id /\ p.ws = ws)
  BY DEF PushEntry, PutCall

LEMMA CallAbandoned ==
  ASSUME TypeInv, NEW p \in puts, puts' = Abandoned(puts, p)
  PROVE  SendsFresh
<1> SUFFICES ASSUME NEW q \in puts' PROVE Earlier(q)
  BY DEF SendsFresh
<1>1. p \in PutRecord
  BY DEF TypeInv, TypeOK, NetworkOK
<1>2. q \in puts \/ q = Orphan(p)
  BY DEF Abandoned, Orphan
<1>3. Orphan(p).dev = p.dev /\ Orphan(p).id = p.id /\ Orphan(p).ws = p.ws
  BY <1>1 DEF Orphan, PutRecord, Coded
<1> QED
  BY <1>2, <1>3 DEF Earlier

LEMMA AutoSaveFresh ==
  ASSUME TypeInv, NEW d \in Devices, NEW id \in Ids, NEW by, Has(tabs, d, id), AutoSave(d, id, by)
  PROVE  SendsFresh
<1> SUFFICES ASSUME NEW p \in puts' PROVE Earlier(p) \/ FreshSave(p)
  BY DEF SendsFresh
<1>1. CASE online[d]
  <2> DEFINE bumped == Bump(tabs[d][id])
  <2>1. tabs' = [tabs EXCEPT ![d][id] = bumped] /\ PushEntry(d, id, bumped, by)
    BY <1>1 DEF AutoSave
  <2>2. p \in puts \/ (p.dev = d /\ p.id = id /\ p.ws = bumped)
    BY <2>1, EntryPushed
  <2>3. tabs'[d][id] = bumped
    BY <2>1 DEF TypeInv, TypeOK, StoresOK, EntryMap
  <2>4. tabs[d][id].version < bumped.version
    <3>1. PICK e \in Entry : e = tabs[d][id]
      BY TabEntry
    <3>2. bumped.version = e.version + 1 /\ e.version \in Nat
      BY <3>1, BumpType DEF Entry
    <3> QED
      BY <3>1, <3>2
  <2> QED
    BY <2>2, <2>3, <2>4 DEF Earlier, FreshSave
<1>2. CASE ~online[d]
  BY <1>2 DEF AutoSave, Earlier
<1> QED
  BY <1>1, <1>2

LEMMA UserSendsFresh ==
  ASSUME TypeInv, NEW d \in Devices, UserActs(d)
  PROVE  SendsFresh
<1>1. ASSUME NEW id \in Ids, NEW tab \in Entry \cup {NoEntry}, NEW filed, NEW moved,
             ~Has(tabs, d, id) \/ tab = NoEntry, tab \in {NoEntry, moved},
             MoveSaved(d, id, tab, filed, moved)
      PROVE  SendsFresh
  <2>1. tabs'[d][id] = tab /\ PushEntry(d, id, moved, "own")
    BY <1>1 DEF MoveSaved, TypeInv, TypeOK, StoresOK, EntryMap
  <2> SUFFICES ASSUME NEW p \in puts' PROVE Earlier(p) \/ FreshSave(p)
    BY DEF SendsFresh
  <2>2. p \in puts \/ (p.dev = d /\ p.id = id /\ p.ws = moved)
    BY <2>1, EntryPushed
  <2> QED
    BY <1>1, <2>1, <2>2 DEF Earlier, FreshSave, Has
<1>2. ASSUME NEW id \in Ids, CloseSaved(d, id) PROVE SendsFresh
  BY <1>1, <1>2 DEF CloseSaved
<1>3. ASSUME NEW id \in Ids, OpenSaved(d, id) PROVE SendsFresh
  <2> DEFINE opened == Bump([FirstFiled(d, id) EXCEPT !.open = TRUE])
  <2>1. ~Has(tabs, d, id) /\ MoveSaved(d, id, opened, <<>>, opened)
    BY <1>3 DEF OpenSaved
  <2>2. opened \in Entry
    <3>1. [FirstFiled(d, id) EXCEPT !.open = TRUE] \in Entry
      BY <1>3, FiledEntry DEF OpenSaved, Entry
    <3> QED
      BY <3>1, BumpType
  <2> QED
    BY <1>1, <2>1, <2>2
<1>4. ASSUME NEW id \in Ids, RenameClosed(d, id) PROVE SendsFresh
  <2> DEFINE renamed == Bump([FirstFiled(d, id) EXCEPT !.content = ops'])
  <2>1. ~Has(tabs, d, id) /\ tabs' = tabs /\ PushEntry(d, id, renamed, "own")
    BY <1>4 DEF RenameClosed
  <2> SUFFICES ASSUME NEW p \in puts' PROVE Earlier(p) \/ FreshSave(p)
    BY DEF SendsFresh
  <2>2. p \in puts \/ (p.dev = d /\ p.id = id)
    BY <2>1, EntryPushed
  <2> QED
    BY <2>1, <2>2 DEF Earlier, FreshSave, Has
<1>5. ASSUME FreshPage(d, auth'[d]) PROVE SendsFresh
  <2> SUFFICES ASSUME NEW p \in puts' PROVE Earlier(p)
    BY DEF SendsFresh
  <2>1. p \in puts \/ \E q \in puts : p = Orphan(q)
    BY <1>5 DEF FreshPage, Orphan
  <2>2. ASSUME NEW q \in puts PROVE Orphan(q).dev = q.dev /\ Orphan(q).id = q.id /\ Orphan(q).ws = q.ws
    BY DEF Orphan, TypeInv, TypeOK, NetworkOK, PutRecord
  <2> QED
    BY <2>1, <2>2 DEF Earlier
<1>6. ASSUME UNCHANGED puts PROVE SendsFresh
  BY <1>6, EarlierCalls
<1>7. CASE Reload(d) \/ SignIn(d)
  <2>1. FreshPage(d, "loading")
    BY <1>7 DEF Reload, SignIn
  <2>2. auth'[d] = "loading"
    BY <2>1 DEF FreshPage, TypeInv, TypeOK, SessionOK
  <2> QED
    BY <1>5, <2>1, <2>2
<1> QED
  BY <1>2, <1>3, <1>4, <1>6, <1>7
  DEF UserActs, Create, Edit, ToggleSaved, ChangeTab, CloseUnsaved, DeleteOpen, RemoveTab,
      DeleteClosed, LogOut, network

LEMMA ContinuesFresh ==
  ASSUME TypeInv, NobodyLogsIn, NEW d \in Devices, Continues(d)
  PROVE  SendsFresh
<1>1. ASSUME NEW f \in Flushes, NEW id \in Ids, FlushPush(d, f, id) PROVE SendsFresh
  <2>1. CASE Has(tabs, d, id)
    BY <1>1, <2>1, AutoSaveFresh DEF FlushPush
  <2>2. CASE ~Has(tabs, d, id)
    <3>1. tabs' = tabs /\ PushEntry(d, id, flush[d][f].queued[id], f)
      BY <1>1, <2>2 DEF FlushPush
    <3> SUFFICES ASSUME NEW p \in puts' PROVE Earlier(p) \/ FreshSave(p)
      BY DEF SendsFresh
    <3>2. p \in puts \/ (p.dev = d /\ p.id = id)
      BY <3>1, EntryPushed
    <3> QED
      <4>1. CASE p \in puts
        BY <4>1 DEF Earlier
      <4>2. CASE p.dev = d /\ p.id = id
        BY <2>2, <3>1, <4>2 DEF FreshSave, Has
      <4> QED
        BY <3>2, <4>1, <4>2
  <2> QED
    BY <2>1, <2>2
<1>2. ~LoginCommits(d) /\ \A id \in Ids : ~LoginPush(d, id)
  BY DEF NobodyLogsIn, LoginCommits, LoginPush
<1>3. ASSUME UNCHANGED puts PROVE SendsFresh
  BY <1>3, EarlierCalls
<1> QED
  BY <1>1, <1>2, <1>3 DEF Continues, FlushDelete, FlushTakeQueue, FlushEnds, network

LEMMA EventFresh ==
  ASSUME TypeInv, NEW d \in Devices, Event(d)
  PROVE  SendsFresh
<1>1. CASE TimerEvent(d)
  BY <1>1, AutoSaveFresh, EarlierCalls DEF TimerEvent, TimerFires
<1>2. CASE ReplyEvent(d)
  <2>1. ASSUME NEW p \in puts, PutDone(p) \/ PutConflict(p) \/ LoginPushed(p) PROVE puts' \subseteq puts
    BY <2>1 DEF PutDone, PutConflict, LoginPushed
  <2>2. ASSUME NEW c \in deletes, DeleteDone(c) PROVE puts' \subseteq puts
    BY <2>2 DEF DeleteDone
  <2>3. ASSUME NEW q \in pulls, DeltaApplied(q) \/ LoginPulled(q) PROVE puts' \subseteq puts
    BY <2>3 DEF DeltaApplied, LoginPulled
  <2>4. puts' \subseteq puts
    BY <1>2, <2>1, <2>2, <2>3 DEF ReplyEvent
  <2> QED
    BY <2>4, EarlierCalls
<1>3. CASE FailureEvent(d)
  BY <1>3, CallAbandoned, EarlierCalls DEF FailureEvent, PutFails, DeleteFails, DeltaFails, LoginFails
<1>4. CASE DeltaRefresh(d) \/ LoginStarts(d) \/ GoOffline(d) \/ GoOnline(d)
  BY <1>4, EarlierCalls DEF DeltaRefresh, LoginStarts, GoOffline, GoOnline, network
<1> QED
  BY <1>1, <1>2, <1>3, <1>4, UserSendsFresh DEF Event

LEMMA ServedFresh ==
  ASSUME TypeInv, ServerStep
  PROVE  SendsFresh
<1>1. ASSUME NEW p \in puts, ServesPut(p) PROVE SendsFresh
  BY <1>1, PutChanged DEF SendsFresh, Earlier
<1>2. ASSUME NEW c \in deletes, ServesDelete(c) PROVE SendsFresh
  BY <1>2, ServedSame, EarlierCalls
<1>3. ASSUME NEW q \in pulls, ServesPull(q) PROVE SendsFresh
  BY <1>3, ServedSame, EarlierCalls
<1> QED
  BY <1>1, <1>2, <1>3, ServedStep

LEMMA StepSendsFresh ==
  ASSUME TypeInv, NobodyLogsIn, [Next]_vars
  PROVE  SendsFresh
<1>1. ASSUME NEW p \in puts \cup deletes, Orphaned(p) PROVE SendsFresh
  BY <1>1, EarlierCalls DEF Orphaned
<1>2. CASE UNCHANGED vars
  BY <1>2, EarlierCalls DEF vars, network
<1> QED
  BY <1>1, <1>2, ContinuesFresh, EventFresh, ServedFresh DEF Next

LEMMA SavesStep ==
  ASSUME TypeInv, TypeInv', BornInv, SavesInv, NobodyLogsIn, NobodyLogsIn', NoReturn, [Next]_vars
  PROVE  SavesInv'
<1>1. ASSUME NEW p \in puts', Has(tabs, p.dev, p.id)'
      PROVE  /\ p.dev \in Devices /\ p.id \in Ids
             /\ p.ws.version \in Nat /\ tabs'[p.dev][p.id].version \in Nat
  <2>1. p \in PutRecord /\ tabs' \in [Devices -> EntryMap]
    BY DEF TypeInv, TypeOK, NetworkOK, StoresOK
  <2> QED
    BY <1>1, <2>1 DEF PutRecord, Coded, EntryMap, Entry, Has
<1>2. ASSUME NEW p \in puts', Earlier(p), Has(tabs, p.dev, p.id)'
      PROVE  /\ Has(tabs, p.dev, p.id) /\ tabs[p.dev][p.id].version \in Nat
             /\ p.ws.version <= tabs[p.dev][p.id].version
             /\ tabs[p.dev][p.id].version <= tabs'[p.dev][p.id].version
  <2>1. PICK q \in puts : q.dev = p.dev /\ q.id = p.id /\ q.ws = p.ws
    BY <1>2 DEF Earlier
  <2>2. Has(tabs, p.dev, p.id)
    BY <1>1, <1>2, <2>1 DEF NoReturn
  <2>3. p.ws.version <= tabs[p.dev][p.id].version
    BY <2>1, <2>2 DEF SavesInv, NoneNewer
  <2>4. ~Commits(p.dev)
    BY <1>1, <1>2 DEF NobodyLogsIn, Commits
  <2>5. Onward(p.dev, p.id)
    BY <1>1, <1>2, <2>4, OnwardStep
  <2>6. tabs[p.dev][p.id].version \in Nat
    BY <1>1, <1>2, <2>2, TabEntry DEF Entry
  <2> QED
    BY <1>2, <2>2, <2>3, <2>5, <2>6 DEF Onward
<1>3. \A p \in puts' : Earlier(p) \/ FreshSave(p)
  BY StepSendsFresh DEF SendsFresh
<1>4. NoneNewer'
  <2> SUFFICES ASSUME NEW p \in puts', Has(tabs, p.dev, p.id)'
               PROVE  p.ws.version <= tabs'[p.dev][p.id].version
    BY DEF NoneNewer
  <2>1. CASE Earlier(p)
    BY <1>1, <1>2, <2>1
  <2>2. CASE FreshSave(p)
    BY <1>1, <2>2 DEF FreshSave
  <2> QED
    BY <1>3, <2>1, <2>2
<1>5. OneContentPerVersion'
  <2> SUFFICES ASSUME NEW p \in puts', NEW q \in puts', p.dev = q.dev, p.id = q.id,
                      Has(tabs, p.dev, p.id)', p.ws.version = q.ws.version
               PROVE  p.ws = q.ws
    BY DEF OneContentPerVersion
  <2>1. CASE Earlier(p) /\ Earlier(q)
    <3>1. PICK a \in puts : a.dev = p.dev /\ a.id = p.id /\ a.ws = p.ws
      BY <2>1 DEF Earlier
    <3>2. PICK b \in puts : b.dev = q.dev /\ b.id = q.id /\ b.ws = q.ws
      BY <2>1 DEF Earlier
    <3>3. Has(tabs, a.dev, a.id)
      BY <1>2, <2>1, <3>1
    <3> QED
      BY <3>1, <3>2, <3>3 DEF SavesInv, OneContentPerVersion
  <2>2. CASE FreshSave(p) /\ FreshSave(q)
    BY <2>2 DEF FreshSave
  <2>3. ASSUME NEW a \in puts', NEW b \in puts', a.dev = b.dev, a.id = b.id,
               Has(tabs, a.dev, a.id)', Earlier(a), FreshSave(b)
        PROVE  a.ws.version < b.ws.version
    <3>1. Has(tabs, a.dev, a.id) /\ a.ws.version <= tabs[a.dev][a.id].version
          /\ tabs[a.dev][a.id].version \in Nat
      BY <1>2, <2>3
    <3>2. tabs[a.dev][a.id].version < b.ws.version
      BY <2>3, <3>1 DEF FreshSave
    <3>3. a.ws.version \in Nat /\ b.ws.version \in Nat
      BY <1>1, <2>3
    <3> QED
      BY <3>1, <3>2, <3>3
  <2>4. p.ws.version \in Nat
    BY <1>1
  <2>5. CASE Earlier(p) /\ FreshSave(q)
    <3>1. p.ws.version < q.ws.version
      BY <2>3, <2>5
    <3> QED
      BY <2>4, <3>1
  <2>6. CASE FreshSave(p) /\ Earlier(q)
    <3>1. q.ws.version < p.ws.version
      BY <2>3, <2>6
    <3> QED
      BY <2>4, <3>1
  <2> QED
    BY <1>3, <2>1, <2>2, <2>5, <2>6
<1> QED
  BY <1>4, <1>5 DEF SavesInv

\* Saves that overlap never send equal versions with different contents, whatever
\* devices, failures and late answers there are, as long as the workspace stays
\* open where a save of it is on its way, and but for a login, which sends what it
\* merged as it is.  (the comment on autoSave)
THEOREM OneContentWhileOpen ==
  Spec /\ []NobodyLogsIn /\ [][NoReturn]_vars => []OneContentPerVersion
<1>1. Init => SavesInv
  BY DEF Init, SavesInv, NoneNewer, OneContentPerVersion
<1>2. SavesInv /\ UNCHANGED vars => SavesInv'
  BY DEF SavesInv, NoneNewer, OneContentPerVersion, vars, network, stores, Has
<1>3. TypeInv /\ TypeInv' /\ BornInv /\ NobodyLogsIn /\ NobodyLogsIn' /\ SavesInv
        /\ [NoReturn]_vars /\ [Next]_vars => SavesInv'
  BY <1>2, SavesStep
<1>4. SavesInv => OneContentPerVersion
  BY DEF SavesInv
<1> QED
  BY <1>1, <1>3, <1>4, BornInvariance, PTL DEF Spec


\* Instances in which nothing opens a tab that was closed: no poll brings one, no
\* saved one is opened, nobody logs in.
NothingReopens ==
  /\ MaxPolls = 0
  /\ UserOps \cap {"open", "reload", "signin"} = {}
  /\ "anonymous" \notin Starts

\* What such an instance never sees.
NoArrivals ==
  /\ pulls = {} /\ polls = 0 /\ NobodyLogsIn
  /\ \A d \in Devices : auth[d] # "loading"

LEMMA InitNoArrivals == NothingReopens /\ Init => NoArrivals
<1> SUFFICES ASSUME NothingReopens, Init PROVE NoArrivals
  OBVIOUS
<1>1. auth = [d \in Devices |-> "authed"]
  BY DEF NothingReopens, Init, SyncedWith, Unsynced
<1>2. pulls = {} /\ polls = 0 /\ login = [d \in Devices |-> NoLogin]
  BY DEF Init
<1> QED
  BY <1>1, <1>2 DEF NoArrivals, NobodyLogsIn, NoLogin

LEMMA NextNoArrivals ==
  ASSUME NothingReopens, TypeInv, NoArrivals, [Next]_vars
  PROVE  NoArrivals'
<1>1. ASSUME NEW d \in Devices, Continues(d) PROVE NoArrivals'
  <2>1. ~LoginCommits(d) /\ \A id \in Ids : ~LoginPush(d, id)
    BY DEF NoArrivals, NobodyLogsIn, LoginCommits, LoginPush
  <2>2. ASSUME NEW f \in Flushes, FlushEnds(d, f) PROVE NoArrivals'
    <3>1. UNCHANGED <<pulls, polls, auth>>
      BY <2>2 DEF FlushEnds, session, network, bounds
    <3>2. login' = login \/ login' = [login EXCEPT ![d] = NoLogin]
      BY <2>2 DEF FlushEnds, LoginOver
    <3>3. \A e \in Devices : login'[e] = login[e] \/ login'[e] = NoLogin
      BY <3>2 DEF TypeInv, TypeOK, RunsOK
    <3>4. NobodyLogsIn'
      BY <3>3 DEF NoArrivals, NobodyLogsIn, NoLogin
    <3> QED
      BY <3>1, <3>4 DEF NoArrivals
  <2>3. ASSUME UNCHANGED <<pulls, polls, login, auth>> PROVE NoArrivals'
    BY <2>3 DEF NoArrivals, NobodyLogsIn
  <2> QED
    BY <1>1, <2>1, <2>2, <2>3
    DEF Continues, FlushPush, FlushDelete, FlushTakeQueue, session, network, bounds
<1>2. ASSUME UNCHANGED <<pulls, polls, login>>, \A d \in Devices : auth'[d] # "loading" PROVE NoArrivals'
  BY <1>2 DEF NoArrivals, NobodyLogsIn
<1>3. ASSUME NEW d \in Devices, Event(d) PROVE NoArrivals'
  <2>1. CASE UserActs(d)
    <3>1. ~Reload(d) /\ ~SignIn(d)
      BY DEF NothingReopens, Reload, SignIn, Does
    <3>2. CASE LogOut(d)
      BY <1>2, <3>2 DEF LogOut, NoArrivals, network, runs, TypeInv, TypeOK, SessionOK
    <3>3. CASE UNCHANGED <<pulls, polls, login, auth>>
      BY <1>2, <3>3 DEF NoArrivals
    <3> QED
      BY <2>1, <3>1, <3>2, <3>3
      DEF UserActs, Create, Edit, ToggleSaved, ChangeTab, CloseUnsaved, DeleteOpen, RemoveTab,
          CloseSaved, OpenSaved, MoveSaved, RenameClosed, DeleteClosed, runs, session, network
  <2>2. CASE TimerEvent(d)
    BY <1>2, <2>2 DEF TimerEvent, TimerFires, NoArrivals, runs, session, bounds
  <2>3. ~DeltaRefresh(d) /\ ~LoginStarts(d)
    BY DEF NothingReopens, NoArrivals, DeltaRefresh, LoginStarts
  <2>4. CASE ReplyEvent(d)
    <3>1. ASSUME NEW p \in puts, LoginPushed(p) PROVE NoArrivals'
      <4>1. \A c \in Devices : login'[c].stage = login[c].stage
        BY <3>1 DEF LoginPushed, TypeInv, TypeOK, RunsOK, LoginRecord
      <4> QED
        BY <3>1, <4>1 DEF LoginPushed, NoArrivals, NobodyLogsIn, session, bounds
    <3>2. CASE \E p \in puts : PutDone(p) \/ PutConflict(p)
      BY <1>2, <3>2 DEF PutDone, PutConflict, NoArrivals, runs, session, bounds
    <3>3. CASE \E c \in deletes : DeleteDone(c)
      BY <1>2, <3>3 DEF DeleteDone, NoArrivals, runs, session, bounds
    <3> QED
      BY <2>4, <3>1, <3>2, <3>3 DEF ReplyEvent, NoArrivals
  <2>5. CASE FailureEvent(d)
    <3>1. CASE \E p \in puts : PutFails(p)
      BY <1>2, <3>1 DEF PutFails, NoArrivals, runs, session
    <3>2. CASE \E c \in deletes : DeleteFails(c)
      BY <1>2, <3>2 DEF DeleteFails, NoArrivals, runs, session
    <3>3. CASE LoginFails(d)
      <4>1. login' = [login EXCEPT ![d] = NoLogin] /\ UNCHANGED <<auth, polls>>
        BY <3>3 DEF LoginFails, LoginOver, session
      <4>2. pulls' = pulls
        BY <3>3 DEF LoginFails, NoArrivals
      <4> QED
        BY <4>1, <4>2 DEF NoArrivals, NobodyLogsIn, NoLogin, TypeInv, TypeOK, RunsOK
    <3> QED
      BY <2>5, <3>1, <3>2, <3>3 DEF FailureEvent, NoArrivals
  <2>6. CASE GoOffline(d) \/ GoOnline(d)
    BY <1>2, <2>6 DEF GoOffline, GoOnline, NoArrivals, runs, network, bounds
  <2> QED
    BY <1>3, <2>1, <2>2, <2>3, <2>4, <2>5, <2>6 DEF Event
<1>4. CASE \E p \in puts \cup deletes : Orphaned(p)
  BY <1>2, <1>4 DEF Orphaned, NoArrivals, runs, session, bounds
<1>5. CASE ServerStep
  <2>1. UNCHANGED <<session, runs, bounds>>
    BY <1>5, ServerOnly
  <2>2. pulls' = {}
    <3>1. ASSUME NEW p \in puts, ServesPut(p) PROVE UNCHANGED pulls
      BY <3>1, ServedSame
    <3>2. ASSUME NEW c \in deletes, ServesDelete(c) PROVE UNCHANGED pulls
      BY <3>2, ServedSame
    <3>3. pulls = {}
      BY DEF NoArrivals
    <3> QED
      BY <1>5, <3>1, <3>2, <3>3, ServedStep
  <2> QED
    BY <1>2, <2>1, <2>2 DEF NoArrivals, runs, session, bounds
<1>6. CASE UNCHANGED vars
  BY <1>2, <1>6 DEF vars, NoArrivals, runs, session, network, bounds
<1> QED
  BY <1>1, <1>3, <1>4, <1>5, <1>6 DEF Next

\* Without arrivals a tab that was not there is a new workspace's.
LEMMA NoArrivalsNoReturn ==
  ASSUME NothingReopens, TypeInv, BornInv, NoArrivals, [Next]_vars
  PROVE  NoReturn
<1> DEFINE None(d, id) == \A p \in puts : ~(p.dev = d /\ p.id = id)
<1>1. ASSUME NEW d \in Devices, NEW id \in Ids, NEW e, tabs' = [tabs EXCEPT ![d][id] = e],
             Has(tabs, d, id) \/ e = NoEntry \/ None(d, id)
      PROVE  NoReturn
  <2> SUFFICES ASSUME NEW c \in Devices, NEW i \in Ids, Has(tabs, c, i)', ~Has(tabs, c, i)
               PROVE  None(c, i)
    BY DEF NoReturn
  <2>1. tabs \in [Devices -> EntryMap]
    BY DEF TypeInv, TypeOK, StoresOK
  <2>2. c = d /\ i = id
    BY <1>1, <2>1 DEF Has, EntryMap
  <2>3. tabs'[c][i] = e
    BY <1>1, <2>1, <2>2 DEF EntryMap
  <2> QED
    BY <1>1, <2>2, <2>3 DEF Has
<1>2. ASSUME UNCHANGED tabs PROVE NoReturn
  BY <1>2 DEF NoReturn, Has
<1>3. ASSUME NEW d \in Devices, NEW id \in Ids, NEW by, Has(tabs, d, id), AutoSave(d, id, by)
      PROVE  NoReturn
  BY <1>1, <1>2, <1>3 DEF AutoSave
<1>4. ASSUME NEW d \in Devices, Continues(d) PROVE NoReturn
  <2>1. ~LoginCommits(d) /\ \A id \in Ids : ~LoginPush(d, id)
    BY DEF NoArrivals, NobodyLogsIn, LoginCommits, LoginPush
  <2>2. ASSUME NEW f \in Flushes, NEW id \in Ids, FlushPush(d, f, id) PROVE NoReturn
    BY <1>2, <1>3, <2>2 DEF FlushPush
  <2> QED
    BY <1>2, <1>4, <2>1, <2>2 DEF Continues, FlushDelete, FlushTakeQueue, FlushEnds, stores
<1>5. ASSUME NEW d \in Devices, Event(d) PROVE NoReturn
  <2>1. CASE UserActs(d)
    <3>1. ~Reload(d) /\ ~SignIn(d) /\ \A id \in Ids : ~OpenSaved(d, id)
      BY DEF NothingReopens, Reload, SignIn, OpenSaved, Does
    <3>2. ASSUME NEW id \in Ids, Create(d, id) PROVE NoReturn
      <4>1. None(d, id)
        BY <3>2 DEF Create, BornInv, PutsBorn
      <4> QED
        BY <1>1, <3>2, <4>1 DEF Create, ChangeTab
    <3>3. ASSUME NEW id \in Ids, Edit(d, id) \/ ToggleSaved(d, id) PROVE NoReturn
      BY <1>1, <3>3 DEF Edit, ToggleSaved, ChangeTab
    <3>4. ASSUME NEW id \in Ids, CloseUnsaved(d, id) \/ DeleteOpen(d, id) \/ CloseSaved(d, id)
          PROVE  NoReturn
      <4>1. tabs' = [tabs EXCEPT ![d][id] = NoEntry]
        BY <3>4 DEF CloseUnsaved, DeleteOpen, CloseSaved, RemoveTab, MoveSaved
      <4> QED
        BY <1>1, <4>1
    <3> QED
      BY <1>2, <2>1, <3>1, <3>2, <3>3, <3>4 DEF UserActs, RenameClosed, DeleteClosed, LogOut
  <2>2. CASE TimerEvent(d)
    BY <1>2, <1>3, <2>2 DEF TimerEvent, TimerFires
  <2>3. ~DeltaRefresh(d) /\ ~LoginStarts(d)
    BY DEF NothingReopens, NoArrivals, DeltaRefresh, LoginStarts
  <2>4. CASE ReplyEvent(d)
    <3>1. ASSUME NEW p \in puts, PutConflict(p) PROVE NoReturn
      <4>1. p.dev \in Devices /\ p.id \in Ids
        BY PutsType
      <4>2. \/ UNCHANGED tabs
            \/ /\ Has(tabs, p.dev, p.id)
               /\ tabs' = [tabs EXCEPT ![p.dev][p.id] = EntryOf(p.row)]
        BY <3>1 DEF PutConflict
      <4> QED
        BY <1>1, <1>2, <4>1, <4>2
    <3> QED
      BY <1>2, <2>4, <3>1 DEF ReplyEvent, NoArrivals, PutDone, LoginPushed, DeleteDone, stores
  <2>5. CASE FailureEvent(d) \/ GoOffline(d) \/ GoOnline(d)
    BY <1>2, <2>5
    DEF FailureEvent, PutFails, DeleteFails, DeltaFails, LoginFails, GoOffline, GoOnline, stores
  <2> QED
    BY <1>5, <2>1, <2>2, <2>3, <2>4, <2>5 DEF Event
<1>6. (\E p \in puts \cup deletes : Orphaned(p)) \/ ServerStep \/ UNCHANGED vars => UNCHANGED tabs
  BY ServerOnly DEF Orphaned, stores, vars
<1> QED
  BY <1>2, <1>4, <1>5, <1>6 DEF Next

\* In particular where nothing reopens a tab: any number of devices edit, save and
\* close, calls fail, answers are late and logouts come between.
THEOREM OneContentUnlessReopened == NothingReopens => (Spec => []OneContentPerVersion)
<1> SUFFICES ASSUME NothingReopens PROVE Spec => []OneContentPerVersion
  OBVIOUS
<1>1. Init => SavesInv /\ NoArrivals
  BY InitNoArrivals DEF Init, SavesInv, NoneNewer, OneContentPerVersion
<1>2. TypeInv /\ TypeInv' /\ BornInv /\ SavesInv /\ NoArrivals /\ [Next]_vars => (SavesInv /\ NoArrivals)'
  <2> SUFFICES ASSUME TypeInv, TypeInv', BornInv, SavesInv, NoArrivals, [Next]_vars
               PROVE  SavesInv' /\ NoArrivals'
    OBVIOUS
  <2>1. NoArrivals' /\ NobodyLogsIn /\ NobodyLogsIn'
    BY NextNoArrivals DEF NoArrivals
  <2> QED
    BY <2>1, NoArrivalsNoReturn, SavesStep
<1>3. SavesInv => OneContentPerVersion
  BY DEF SavesInv
<1> QED
  BY <1>1, <1>2, <1>3, BornInvariance, PTL DEF Spec


-----------------------------------------------------------------------------
(* The server's table *)

\* What LwwStore says of a row, of the rows the engine's calls write.
Register == [id \in Ids |->
  IF Exists(table, id)
  THEN [owner |-> table[id].owner, version |-> table[id].version,
        deleted |-> table[id].deleted]
  ELSE NoRow]

Lww == INSTANCE LwwStore WITH reg <- Register, Absent <- NoRow

\* A step that leaves the other rows alone.
LEMMA RowReplaced ==
  ASSUME NEW id \in Ids, NEW row \in Row,
         table \in Tables, table' = [table EXCEPT ![id] = row]
  PROVE  /\ Lww!Only(id)
         /\ Register'[id] = [owner |-> row.owner, version |-> row.version,
                             deleted |-> row.deleted]
<1>1. table'[id] = row /\ row # NoRow /\ \A i \in Ids \ {id} : table'[i] = table[i]
  BY NoRowIsNoRow DEF Tables
<1>2. \A i \in Ids \ {id} : Register'[i] = Register[i]
  BY <1>1 DEF Register, Exists
<1>3. Register'[id] = [owner |-> row.owner, version |-> row.version, deleted |-> row.deleted]
  BY <1>1 DEF Register, Exists
<1> QED
  BY <1>2, <1>3 DEF Lww!Only

LEMMA PutIsWrite ==
  ASSUME TypeInv, NEW p \in puts, WritePut(p), ~UNCHANGED table
  PROVE  Lww!Create(p.id) \/ Lww!Overwrite(p.id)
<1>1. p.id \in Ids /\ p.ws \in Entry /\ table \in Tables /\ p.now \in Nat
  BY PutFields DEF TypeInv, TypeOK, NetworkOK, ServerOK
<1>2. table' = Upserted(table, p.id, Account, p.ws, p.now)
  BY DEF WritePut
<1>3. Wins(table, p.id, Account, p.ws.version)
  BY <1>2 DEF Upserted
<1> DEFINE row == [owner |-> Account, content |-> p.ws.content, version |-> p.ws.version,
                   updatedAt |-> p.now,
                   deleted |-> Exists(table, p.id) /\ table[p.id].deleted,
                   saved |-> p.ws.saved, open |-> p.ws.open]
<1>4. table' = [table EXCEPT ![p.id] = row]
  BY <1>2, <1>3 DEF Upserted
<1>5. row \in Row
  <2>1. PICK e \in Entry : e = p.ws
    BY <1>1
  <2>2. e.content \in Contents /\ e.version \in Nat /\ e.saved \in BOOLEAN /\ e.open \in BOOLEAN
    BY DEF Entry
  <2>3. PICK old \in Row \cup {NoRow} : old = table[p.id]
    BY <1>1 DEF Tables
  <2>4. PICK gone \in BOOLEAN : gone = (Exists(table, p.id) /\ table[p.id].deleted)
    BY <2>3 DEF Exists, Row
  <2> QED
    BY <1>1, <2>1, <2>2, <2>4 DEF Row
<1>6. /\ row.owner = Account /\ row.version = p.ws.version
      /\ row.deleted = (Exists(table, p.id) /\ table[p.id].deleted)
  OBVIOUS
<1> HIDE DEF row
<1>7. /\ Lww!Only(p.id)
      /\ Register'[p.id] = [owner |-> Account, version |-> p.ws.version, deleted |-> row.deleted]
  <2>1. PICK r \in Row : r = row
    BY <1>5
  <2>2. table' = [table EXCEPT ![p.id] = r]
    BY <1>4, <2>1
  <2>3. /\ Lww!Only(p.id)
        /\ Register'[p.id] = [owner |-> r.owner, version |-> r.version, deleted |-> r.deleted]
    BY <1>1, <2>2, RowReplaced
  <2> QED
    BY <1>6, <2>1, <2>3
<1>8. CASE Exists(table, p.id)
  <2>1. table[p.id].owner = Account /\ p.ws.version >= table[p.id].version
    BY <1>3, <1>8 DEF Wins
  <2>2. Register[p.id] = [owner |-> table[p.id].owner, version |-> table[p.id].version,
                          deleted |-> table[p.id].deleted]
    BY <1>1, <1>8 DEF Register
  <2>3. row.deleted = table[p.id].deleted
    <3>1. table[p.id].deleted \in BOOLEAN
      BY <1>1, <1>8 DEF Exists, Tables, Row
    <3> QED
      BY <1>6, <1>8, <3>1
  <2>4. Register[p.id] # NoRow
    <3>0. PICK old \in Row : old = table[p.id]
      BY <1>1, <1>8 DEF Exists, Tables
    <3>1. Register[p.id] \in [owner : Users, version : Nat, deleted : BOOLEAN]
      BY <2>2, <3>0 DEF Row
    <3> QED
      BY <3>1, NoRowIsNoRegister
  <2> QED
    BY <1>7, <2>1, <2>2, <2>3, <2>4 DEF Lww!Overwrite
<1>9. CASE ~Exists(table, p.id)
  <2>1. Register[p.id] = NoRow
    BY <1>1, <1>9 DEF Register
  <2>2. Register'[p.id] \in [owner : Users, version : Nat, deleted : {FALSE}]
    <3>1. row.deleted = FALSE /\ p.ws.version \in Nat
      <4>1. row.deleted \in BOOLEAN /\ ~row.deleted
        BY <1>5, <1>6, <1>9 DEF Row
      <4>2. p.ws.version \in Nat
        BY <1>1 DEF Entry
      <4> QED
        BY <4>1, <4>2
    <3>2. [owner |-> Account, version |-> p.ws.version, deleted |-> FALSE]
            \in [owner : Users, version : Nat, deleted : {FALSE}]
      BY <3>1, AccountAssumption
    <3> QED
      BY <1>7, <3>1, <3>2, Zenon
  <2> QED
    BY <1>7, <2>1, <2>2 DEF Lww!Create
<1> QED
  BY <1>8, <1>9

LEMMA DeleteIsDelete ==
  ASSUME TypeInv, NEW c \in deletes, WriteDelete(c), ~UNCHANGED table
  PROVE  Lww!Delete(c.id)
<1>1. c.id \in Ids /\ table \in Tables /\ c.now \in Nat
  BY DeleteFields DEF TypeInv, TypeOK, NetworkOK, ServerOK
<1>2. table' = SoftDeleted(table, c.id, Account, c.now)
  BY DEF WriteDelete
<1>3. Exists(table, c.id) /\ table[c.id].owner = Account
  BY <1>2 DEF SoftDeleted, Owns
<1>4. PICK old \in Row : old = table[c.id]
  BY <1>1, <1>3 DEF Exists, Tables
<1> DEFINE row == [owner |-> Account, content |-> old.content, version |-> old.version + 1,
                   updatedAt |-> c.now, deleted |-> TRUE,
                   saved |-> old.saved, open |-> old.open]
<1>5. table' = [table EXCEPT ![c.id] = row]
  BY <1>2, <1>3, <1>4 DEF SoftDeleted, Owns
<1>6. row \in Row
  BY <1>1 DEF Row
<1>7. row.owner = Account /\ row.version = old.version + 1 /\ row.deleted = TRUE
  OBVIOUS
<1> HIDE DEF row
<1>8. /\ Lww!Only(c.id)
      /\ Register'[c.id] = [owner |-> Account, version |-> old.version + 1, deleted |-> TRUE]
  BY <1>1, <1>5, <1>6, <1>7, RowReplaced
<1>9. Register[c.id] = [owner |-> Account, version |-> old.version, deleted |-> old.deleted]
  BY <1>1, <1>3, <1>4 DEF Register
<1>10. Register[c.id] # NoRow
  <2>1. Register[c.id] \in [owner : Users, version : Nat, deleted : BOOLEAN]
    BY <1>9 DEF Row
  <2> QED
    BY <2>1, NoRowIsNoRegister
<1> QED
  BY <1>8, <1>9, <1>10 DEF Lww!Delete

\* Between its calls no device touches the table.
LEMMA DeviceLeavesServer ==
  ASSUME NEW d \in Devices, Continues(d) \/ Event(d)
  PROVE  UNCHANGED table
<1>1. CASE Continues(d)
  BY <1>1 DEF Continues, LoginPush, FlushDelete, FlushPush, FlushTakeQueue, FlushEnds,
              LoginCommits, server
<1>2. CASE UserActs(d)
  <2>1. ASSUME NEW id \in Ids,
               \/ Create(d, id) \/ Edit(d, id) \/ ToggleSaved(d, id) \/ CloseUnsaved(d, id)
               \/ CloseSaved(d, id)
        PROVE  UNCHANGED table
    BY <2>1 DEF Create, Edit, ToggleSaved, CloseUnsaved, CloseSaved, ChangeTab, RemoveTab,
                MoveSaved, server
  <2>2. ASSUME NEW id \in Ids,
               OpenSaved(d, id) \/ RenameClosed(d, id) \/ DeleteOpen(d, id) \/ DeleteClosed(d, id)
        PROVE  UNCHANGED table
    BY <2>2 DEF OpenSaved, RenameClosed, DeleteOpen, DeleteClosed, RemoveTab, MoveSaved, server
  <2>3. CASE Reload(d) \/ SignIn(d) \/ LogOut(d)
    BY <2>3 DEF Reload, SignIn, LogOut, FreshPage, server
  <2> QED
    BY <1>2, <2>1, <2>2, <2>3 DEF UserActs
<1>3. CASE TimerEvent(d) \/ DeltaRefresh(d) \/ LoginStarts(d) \/ GoOffline(d) \/ GoOnline(d)
  BY <1>3 DEF TimerEvent, TimerFires, DeltaRefresh, LoginStarts, GoOffline, GoOnline, server
<1>4. CASE ReplyEvent(d)
  BY <1>4 DEF ReplyEvent, PutDone, PutConflict, LoginPushed, DeleteDone, DeltaApplied,
              LoginPulled, server
<1>5. CASE FailureEvent(d)
  BY <1>5 DEF FailureEvent, PutFails, DeleteFails, DeltaFails, LoginFails, server
<1> QED
  BY <1>1, <1>2, <1>3, <1>4, <1>5 DEF Event

LEMMA EngineStepIsLww == TypeInv /\ [Next]_vars => [Lww!Next]_Register
<1> SUFFICES ASSUME TypeInv, [Next]_vars PROVE [Lww!Next]_Register
  OBVIOUS
<1>1. ASSUME UNCHANGED table PROVE [Lww!Next]_Register
  BY <1>1 DEF Register, Exists
<1>2. ASSUME NEW p \in puts, ServesPut(p) PROVE [Lww!Next]_Register
  <2>1. p.id \in Ids
    BY PutsType
  <2>2. WritePut(p) \/ UNCHANGED table
    BY <1>2, PutServed DEF ServesPut, server
  <2> QED
    BY <1>1, <2>1, <2>2, PutIsWrite DEF Lww!Next
<1>3. ASSUME NEW c \in deletes, ServesDelete(c) PROVE [Lww!Next]_Register
  <2>1. c.id \in Ids
    BY DeletesType
  <2>2. WriteDelete(c) \/ UNCHANGED table
    BY <1>3, DeleteServed DEF ServesDelete, server
  <2> QED
    BY <1>1, <2>1, <2>2, DeleteIsDelete DEF Lww!Next
<1>4. ASSUME NEW q \in pulls, ServesPull(q) PROVE UNCHANGED table
  BY <1>4, ServedSame
<1>5. ASSUME NEW d \in Devices, Continues(d) \/ Event(d) PROVE UNCHANGED table
  BY <1>5, DeviceLeavesServer
<1>6. ASSUME NEW p \in puts \cup deletes, Orphaned(p) PROVE UNCHANGED table
  BY <1>6 DEF Orphaned, server
<1> QED
  BY <1>1, <1>2, <1>3, <1>4, <1>5, <1>6, ServedStep DEF Next, vars, server

\* The devices' pushes, retries and deletes, late, lost or repeated, never use the
\* table but as the register that the API is proved to be: each step creates a row,
\* overwrites one at no older version without reviving it, deletes one, or leaves
\* the table alone.
THEOREM EngineUsesRegister == Spec => [][Lww!Next]_Register
<1>1. TypeInv /\ [Next]_vars => [Lww!Next]_Register
  BY EngineStepIsLww
<1> QED
  BY <1>1, TypeInvariance, PTL DEF Spec

=============================================================================
