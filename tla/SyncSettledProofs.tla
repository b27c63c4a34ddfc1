------------------------- MODULE SyncSettledProofs -------------------------
(***************************************************************************)
(* Settled devices hold what lives on the server: SettledAtServerVersion   *)
(* for every set of devices and ids, any number of operations and pulls,   *)
(* as long as no call fails, nobody reloads, logs in or out, and the pulls *)
(* of a device do not overlap.  It leaves out a write that was stamped     *)
(* before a cursor and written after its query (`late`), which the API     *)
(* does not deliver (NothingSkipped of WorkspaceApi).                      *)
(*                                                                         *)
(* The invariant says of each device and id that the device is not ahead   *)
(* of the server, unless a timer or a push will see to it, and not behind  *)
(* what its cursor says it has pulled, unless a deletion is on its way.    *)
(*                                                                         *)
(* The second part is about every field, not the version alone: a device   *)
(* that works alone, through any outages and retries, settles in full      *)
(* agreement with the server (SettledInStep).                              *)
(*                                                                         *)
(* The third part is about workspaces, not versions, and everything users, *)
(* logins and overlapping pulls may do: none that lives on the server is   *)
(* missing from a settled device, as long as no call fails (NoneMissing).  *)
(***************************************************************************)
EXTENDS SyncEngineProofs

USE AccountAssumption, ContentsAssumption, BoundsAssumption

\* Nothing fails, the session lasts, and the throttle keeps pulls apart.
Undisturbed ==
  /\ MaxFaults = 0 /\ ~PullsOverlap
  /\ UserOps \cap {"reload", "signin", "logout"} = {}
  /\ Starts \subseteq {"synced", "saved", "closed", "new"}

\* Nothing but the user, the timers, the polls and the server moves.
CalmDevice(d) ==
  /\ online[d] /\ auth[d] = "authed" /\ ~isSyncing[d]
  /\ offlineQueue[d] = Nothing /\ offlineDeletes[d] = {}
  /\ login[d].stage = "idle" /\ \A f \in Flushes : flush[d][f].stage = "idle"

CalmCalls ==
  /\ \A p \in puts : p.by = "own" /\ p.code # 401
  /\ \A c \in deletes : c.by = "own" /\ c.code # 401
  /\ \A q \in pulls : q.by = "own"

Calm == (\A d \in Devices : CalmDevice(d)) /\ CalmCalls /\ faults = 0

\* The clock is not behind any row or cursor, nor any instant taken for one.
Stamped ==
  /\ \A id \in Ids : Exists(table, id) =>
       table[id].owner = Account /\ table[id].updatedAt <= clock
  /\ \A d \in Devices : syncCursor[d] <= clock

InTime ==
  /\ \A c \in puts \cup deletes : c.now <= clock
  /\ \A q \in pulls : q.cursor <= clock

\* A device waits for one pull at a time, of what its cursor does not cover.
OnePull ==
  /\ \A q, r \in pulls : q.dev = r.dev => q = r
  /\ \A q \in pulls : q.since = syncCursor[q.dev]

\* What an answered pull says of id is old news, or all there is to say, if the
\* row was not written after its query and stamped before its cursor.
NewsOf(q, id) ==
  /\ q.rows[id] # NoRow => Exists(table, id) /\ q.rows[id].version <= table[id].version
  /\ Exists(table, id) /\ table[id].updatedAt < q.cursor /\ id \notin late[q.dev] =>
       \/ q.rows[id] = table[id]
       \/ q.rows[id] = NoRow /\ table[id].updatedAt < q.since

Fresh ==
  \A q \in pulls : q.stage = "answered" => \A id \in Ids : NewsOf(q, id)

\* A push that was answered left a row no older than the one it brings back.
Judged ==
  \A p \in puts : p.code \in {200, 409} =>
    Exists(table, p.id) /\ p.row.version <= table[p.id].version

\* The server has version v of id or a later one, or a push will bring one.
Reached(d, id, v) ==
  \/ Exists(table, id) /\ v <= table[id].version
  \/ \E p \in puts : p.dev = d /\ p.id = id /\ Due(p) /\ v <= p.ws.version

NotAhead(d, id) ==
  /\ Has(tabs, d, id) => id \in timers[d] \/ Reached(d, id, tabs[d][id].version)
  /\ \A i \in DOMAIN library[d][id] : Reached(d, id, library[d][id][i].version)

Deleting(d, id) == \E c \in deletes : c.dev = d /\ c.id = id /\ c.code = 0

NotBehind(d, id) ==
  Exists(table, id) /\ table[id].updatedAt < syncCursor[d] /\ id \notin late[d] =>
    /\ table[id].deleted => Held(d, id) = {}
    /\ ~table[id].deleted =>
         \/ Deleting(d, id)
         \/ Held(d, id) # {} /\ \A e \in Held(d, id) : e.version >= table[id].version

SettledInv ==
  /\ Calm /\ Stamped /\ InTime /\ OnePull /\ Fresh /\ Judged
  /\ \A d \in Devices, id \in Ids : NotAhead(d, id) /\ NotBehind(d, id)

-----------------------------------------------------------------------------
(* It says what SettledAtServerVersion says, once nothing is left to do. *)

LEMMA HeldEntries ==
  ASSUME TypeInv, NEW d \in Devices, NEW id \in Ids, NEW e \in Held(d, id)
  PROVE  /\ e \in Entry
         /\ (Has(tabs, d, id) /\ e = tabs[d][id])
            \/ \E i \in DOMAIN library[d][id] : e = library[d][id][i]
<1>1. library[d][id] \in Seq(Entry)
  BY DEF TypeInv, TypeOK, StoresOK
<1>2. \A i \in DOMAIN library[d][id] : library[d][id][i] \in Entry
  BY <1>1
<1> QED
  BY <1>2, TabEntry DEF Held, Has

LEMMA SettledWhenDone == TypeInv /\ SettledInv => SettledAtServerVersion
<1> SUFFICES ASSUME TypeInv, SettledInv, NEW d \in Devices, NEW id \in Ids, Settled(d, id)
             PROVE  /\ \A e \in Held(d, id) : Exists(table, id) /\ e.version <= table[id].version
                    /\ UpToDate(d, id) /\ id \notin late[d] =>
                         /\ Live(id) <=> Held(d, id) # {}
                         /\ \A e \in Held(d, id) : e.version = table[id].version
  BY DEF SettledAtServerVersion
<1>1. /\ id \notin timers[d]
      /\ \A c \in puts \cup deletes : ~(c.dev = d /\ c.id = id)
  BY DEF Settled, Tracked, SettledInv, Calm, CalmCalls
<1>2. Exists(table, id) => table[id].version \in Nat
  BY DEF TypeInv, TypeOK, ServerOK, Tables, Exists, Row
<1>3. ASSUME NEW e \in Held(d, id)
      PROVE  Exists(table, id) /\ e.version <= table[id].version /\ e.version \in Nat
  BY <1>1, <1>3, HeldEntries DEF SettledInv, NotAhead, Reached, Entry
<1>4. ~Deleting(d, id)
  BY <1>1 DEF Deleting
<1>5. ASSUME UpToDate(d, id), id \notin late[d]
      PROVE  /\ Live(id) <=> Held(d, id) # {}
             /\ \A e \in Held(d, id) : e.version = table[id].version
  <2>1. Exists(table, id) => table[id].updatedAt < syncCursor[d]
    BY <1>5 DEF UpToDate
  <2> QED
    BY <1>2, <1>3, <1>4, <1>5, <2>1 DEF SettledInv, NotBehind, Live, Exists
<1> QED
  BY <1>3, <1>5

-----------------------------------------------------------------------------
(* What the user, or a timer, does on one device to one workspace. *)

Effect(d, id, tab, filed, sent, gone) ==
  /\ tabs' = [tabs EXCEPT ![d][id] = tab]
  /\ library' = [library EXCEPT ![d][id] = filed]
  /\ puts' = puts \cup sent
  /\ deletes' = deletes \cup gone
  /\ \A e \in Devices, i \in Ids :
       (e # d \/ i # id) /\ i \in timers[e] => i \in timers'[e]
  /\ UNCHANGED <<server, queues, session, isSyncing, syncCursor, pulls, runs, faults>>

Pushes(d, id) == {PutCall(d, id, ws, "own") : ws \in Entry}

LEMMA EffectStores ==
  ASSUME TypeInv, NEW d \in Devices, NEW id \in Ids, NEW tab, NEW filed, NEW sent, NEW gone,
         Effect(d, id, tab, filed, sent, gone)
  PROVE  /\ tabs'[d][id] = tab /\ library'[d][id] = filed
         /\ Held(d, id)' = ({tab} \ {NoEntry}) \cup {filed[i] : i \in DOMAIN filed}
         /\ \A e \in Devices, i \in Ids : e # d \/ i # id =>
              /\ tabs'[e][i] = tabs[e][i] /\ library'[e][i] = library[e][i]
              /\ Held(e, i)' = Held(e, i)
<1>1. tabs \in [Devices -> EntryMap] /\ library \in [Devices -> [Ids -> Seq(Entry)]]
  BY DEF TypeInv, TypeOK, StoresOK
<1>2. tabs'[d][id] = tab /\ library'[d][id] = filed
  BY <1>1 DEF Effect, EntryMap
<1>3. \A e \in Devices, i \in Ids : e # d \/ i # id =>
        tabs'[e][i] = tabs[e][i] /\ library'[e][i] = library[e][i]
  BY <1>1 DEF Effect, EntryMap
<1> QED
  BY <1>2, <1>3 DEF Held

LEMMA ReachedStays ==
  ASSUME UNCHANGED table, puts \subseteq puts', NEW d, NEW id, NEW v, Reached(d, id, v)
  PROVE  Reached(d, id, v)'
  BY DEF Reached

\* Nothing else has to be looked at than what is held of that one workspace.
LEMMA EffectKeeps ==
  ASSUME TypeInv, SettledInv, NEW d \in Devices, NEW id \in Ids, NEW tab, NEW filed,
         NEW sent \in SUBSET Pushes(d, id), NEW gone \in SUBSET {DeleteCall(d, id, "own")},
         Effect(d, id, tab, filed, sent, gone),
         NotAhead(d, id)', NotBehind(d, id)'
  PROVE  SettledInv'
<1>1. /\ \A p \in sent : p.by = "own" /\ p.code = 0 /\ p.now = 0
      /\ \A c \in gone : c.by = "own" /\ c.code = 0 /\ c.now = 0
  BY DEF Pushes, PutCall, DeleteCall
<1>2. Calm'
  BY <1>1 DEF SettledInv, Effect, Calm, CalmDevice, CalmCalls, queues, session, runs
<1>3. Stamped' /\ InTime' /\ OnePull' /\ Fresh' /\ Judged'
  <2>1. clock >= 0
    BY DEF TypeInv, TypeOK, ServerOK
  <2>2. InTime'
    BY <1>1, <2>1 DEF SettledInv, Effect, server, InTime
  <2> QED
    BY <1>1, <2>2 DEF SettledInv, Effect, server, Stamped, OnePull, Fresh, NewsOf, Judged
<1>4. ASSUME NEW e \in Devices, NEW i \in Ids, e # d \/ i # id
      PROVE  NotAhead(e, i)' /\ NotBehind(e, i)'
  <2>1. /\ tabs'[e][i] = tabs[e][i] /\ library'[e][i] = library[e][i]
        /\ Held(e, i)' = Held(e, i)
    BY <1>4, EffectStores
  <2>2. NotAhead(e, i) /\ NotBehind(e, i)
    BY DEF SettledInv
  <2>3. NotAhead(e, i)'
    BY <1>4, <2>1, <2>2, ReachedStays DEF NotAhead, Has, Effect, server
  <2>4. NotBehind(e, i)'
    BY <2>1, <2>2 DEF NotBehind, Deleting, Effect, server
  <2> QED
    BY <2>3, <2>4
<1> QED
  BY <1>2, <1>3, <1>4 DEF SettledInv

\* What is held afterwards is no older than what was held before.
LEMMA EffectNotBehind ==
  ASSUME TypeInv, SettledInv, NEW d \in Devices, NEW id \in Ids, NEW tab, NEW filed, NEW sent,
         NEW gone, Effect(d, id, tab, filed, sent, gone),
         Held(d, id) # {}, Held(d, id)' # {},
         \A e \in Held(d, id)' : e.version \in Nat /\ \E old \in Held(d, id) : old.version <= e.version
  PROVE  NotBehind(d, id)'
<1>1. \A e \in Held(d, id) : e.version \in Nat
  BY HeldEntries DEF Entry
<1>2. Exists(table, id) => table[id].version \in Nat
  BY DEF TypeInv, TypeOK, ServerOK, Tables, Exists, Row
<1>3. NotBehind(d, id)
  BY DEF SettledInv
<1>4. /\ table' = table /\ late' = late /\ syncCursor' = syncCursor
      /\ deletes \subseteq deletes'
  BY DEF Effect, server
<1> QED
  BY <1>1, <1>2, <1>3, <1>4 DEF NotBehind, Deleting

\* A deletion has been asked for.
LEMMA EffectDeletes ==
  ASSUME TypeInv, SettledInv, NEW d \in Devices, NEW id \in Ids, NEW tab, NEW filed, NEW sent,
         Effect(d, id, tab, filed, sent, {DeleteCall(d, id, "own")}), Held(d, id) # {}
  PROVE  NotBehind(d, id)'
<1>1. NotBehind(d, id)
  BY DEF SettledInv
<1>2. Deleting(d, id)'
  <2>1. \E c \in deletes' : c.dev = d /\ c.id = id /\ c.code = 0
    <3>1. DeleteCall(d, id, "own") \in deletes'
      BY DEF Effect
    <3> QED
      BY <3>1 DEF DeleteCall
  <2> QED
    BY <2>1 DEF Deleting
<1> QED
  BY <1>1, <1>2 DEF NotBehind, Effect, server

LEMMA FiledHeld ==
  ASSUME TypeInv, NEW d \in Devices, NEW id \in Ids, Filed(d, id)
  PROVE  FirstFiled(d, id) \in Held(d, id)
<1>1. library[d][id] \in Seq(Entry) /\ library[d][id] # <<>>
  BY DEF TypeInv, TypeOK, StoresOK, Filed
<1>2. FirstFiled(d, id) = library[d][id][1] /\ 1 \in DOMAIN library[d][id]
  BY <1>1, HeadTailProperties, EmptySeq, LenProperties DEF FirstFiled
<1> QED
  BY <1>2 DEF Held

\* A tab that is edited: its timer runs.
LEMMA TabEdited ==
  ASSUME TypeInv, SettledInv, NEW d \in Devices, NEW id \in Ids, NEW e \in Entry,
         Does("edit") \/ Does("save"), ChangeTab(d, id, e)
  PROVE  /\ Effect(d, id, e, library[d][id], {}, {})
         /\ NotAhead(d, id)'
<1>1. Watching(d)
  BY DEF SettledInv, Calm, CalmDevice, Watching
<1>2. tabs \in [Devices -> EntryMap] /\ timers \in [Devices -> SUBSET Ids]
      /\ library \in [Devices -> [Ids -> Seq(Entry)]]
  BY DEF TypeInv, TypeOK, StoresOK, EngineOK
<1>3. timers' = [timers EXCEPT ![d] = @ \cup {id}]
  BY <1>1 DEF ChangeTab
<1>4. Effect(d, id, e, library[d][id], {}, {})
  BY <1>2, <1>3 DEF ChangeTab, Effect, network
<1>5. id \in timers'[d]
  BY <1>2, <1>3
<1>6. NotAhead(d, id)
  BY DEF SettledInv
<1>7. NotAhead(d, id)'
  BY <1>5, <1>6, ReachedStays DEF NotAhead, ChangeTab, network, server
<1> QED
  BY <1>4, <1>7

LEMMA EditKeeps ==
  ASSUME TypeInv, BornInv, SettledInv, NEW d \in Devices, NEW id \in Ids,
         Create(d, id) \/ Edit(d, id) \/ ToggleSaved(d, id)
  PROVE  SettledInv'
<1>1. ASSUME Create(d, id) PROVE SettledInv'
  <2> DEFINE e == [content |-> ops', version |-> 1, saved |-> FALSE, open |-> TRUE]
  <2>1. e \in Entry
    BY <1>1, DoesType DEF Create, Entry
  <2>2. Effect(d, id, e, library[d][id], {}, {}) /\ NotAhead(d, id)'
    BY <1>1, <2>1, TabEdited DEF Create
  <2>3. ~Exists(table, id) /\ table' = table
    BY <1>1 DEF Create, ChangeTab, server, Exists, BornInv, TableBorn, KnownRows
  <2> HIDE DEF e
  <2>4. NotBehind(d, id)'
    BY <2>3 DEF NotBehind, Exists
  <2> QED
    BY <2>2, <2>4, EffectKeeps
<1>2. ASSUME NEW e \in Entry, ChangeTab(d, id, e), Does("edit") \/ Does("save"),
             Has(tabs, d, id), e.version = tabs[d][id].version
      PROVE  SettledInv'
  <2>1. Effect(d, id, e, library[d][id], {}, {}) /\ NotAhead(d, id)'
    BY <1>2, TabEdited
  <2>2. Held(d, id)' = ({e} \ {NoEntry}) \cup {library[d][id][i] : i \in DOMAIN library[d][id]}
    <3>1. tabs'[d][id] = e /\ library'[d][id] = library[d][id]
      BY <2>1, EffectStores
    <3>2. Held(d, id)' = ({tabs'[d][id]} \ {NoEntry})
                          \cup {library'[d][id][i] : i \in DOMAIN library'[d][id]}
      BY DEF Held
    <3> QED
      BY <3>1, <3>2, Zenon
  <2>3. tabs[d][id] \in Held(d, id) /\ Held(d, id)' # {}
    <3>1. e # NoEntry
      BY NoEntryIsNoEntry
    <3>2. e \in Held(d, id)'
      BY <2>2, <3>1, Zenon
    <3>3. tabs[d][id] \in Held(d, id)
      BY <1>2, Zenon DEF Held, Has
    <3> QED
      BY <3>2, <3>3, Zenon
  <2>4. \A n \in Held(d, id)' :
          n.version \in Nat /\ \E old \in Held(d, id) : old.version <= n.version
    <3> SUFFICES ASSUME NEW n \in Held(d, id)'
                 PROVE  n.version \in Nat /\ \E old \in Held(d, id) : old.version <= n.version
      OBVIOUS
    <3>1. CASE n = e
      <4>1. e.version \in Nat /\ e.version <= e.version
        BY DEF Entry
      <4> QED
        BY <1>2, <2>3, <3>1, <4>1
    <3>2. CASE n # e
      <4>1. n \in Held(d, id)
        BY <2>2, <3>2 DEF Held
      <4>2. n.version \in Nat /\ n.version <= n.version
        BY <4>1, HeldEntries DEF Entry
      <4> QED
        BY <4>1, <4>2
    <3> QED
      BY <3>1, <3>2
  <2>5. NotBehind(d, id)'
    BY <2>1, <2>3, <2>4, EffectNotBehind
  <2> QED
    BY <2>1, <2>5, EffectKeeps
<1>3. ASSUME Edit(d, id) PROVE SettledInv'
  <2>1. [tabs[d][id] EXCEPT !.content = ops'] \in Entry
    BY <1>3, DoesType, TabEntry DEF Edit, Entry
  <2>2. [tabs[d][id] EXCEPT !.content = ops'].version = tabs[d][id].version
    BY <1>3, TabEntry DEF Edit, Entry
  <2> QED
    BY <1>2, <1>3, <2>1, <2>2 DEF Edit
<1>4. ASSUME ToggleSaved(d, id) PROVE SettledInv'
  <2>1. [tabs[d][id] EXCEPT !.saved = ~@] \in Entry
    BY <1>4, TabEntry DEF ToggleSaved, Entry
  <2>2. [tabs[d][id] EXCEPT !.saved = ~@].version = tabs[d][id].version
    BY <1>4, TabEntry DEF ToggleSaved, Entry
  <2> QED
    BY <1>2, <1>4, <2>1, <2>2 DEF ToggleSaved
<1> QED
  BY <1>1, <1>3, <1>4

\* What is sent will reach the server.
LEMMA SentReached ==
  ASSUME NEW d, NEW id, NEW e, NEW tab, NEW filed, NEW gone, e.version \in Nat,
         Effect(d, id, tab, filed, {PutCall(d, id, e, "own")}, gone)
  PROVE  Reached(d, id, e.version)'
<1>1. \E p \in puts' : p.dev = d /\ p.id = id /\ Due(p) /\ e.version <= p.ws.version
  <2>1. PutCall(d, id, e, "own") \in puts'
    BY DEF Effect
  <2> QED
    BY <2>1 DEF PutCall, Due
<1> QED
  BY <1>1 DEF Reached

\* Entries of the library that were there before are still on their way, or there.
LEMMA FiledReached ==
  ASSUME SettledInv, NEW d \in Devices, NEW id \in Ids, NEW tab, NEW filed, NEW sent, NEW gone,
         Effect(d, id, tab, filed, sent, gone), NEW i \in DOMAIN library[d][id],
         NEW v, v = library[d][id][i].version
  PROVE  Reached(d, id, v)'
<1>1. Reached(d, id, v)
  BY DEF SettledInv, NotAhead
<1> QED
  BY <1>1, ReachedStays DEF Effect, server

\* e is held, and what else there is was held before.
Holds(d, id, e, tab, filed) ==
  /\ tab = NoEntry \/ tab = e
  /\ tab = e \/ \E i \in DOMAIN filed : filed[i] = e
  /\ \A i \in DOMAIN filed :
       filed[i] = e \/ \E j \in DOMAIN library[d][id] : filed[i] = library[d][id][j]

\* The version goes up in the store, and that version is sent.
LEMMA BumpKeeps ==
  ASSUME TypeInv, SettledInv, NEW d \in Devices, NEW id \in Ids, NEW old \in Held(d, id),
         NEW e \in Entry, e.version = old.version + 1,
         NEW tab, NEW filed,
         Effect(d, id, tab, filed, {PutCall(d, id, e, "own")}, {}),
         Holds(d, id, e, tab, filed)
  PROVE  SettledInv'
<1>1. old.version \in Nat /\ e.version \in Nat /\ old.version <= e.version
  BY HeldEntries DEF Entry
<1>2. /\ tabs'[d][id] = tab /\ library'[d][id] = filed
      /\ Held(d, id)' = ({tab} \ {NoEntry}) \cup {filed[i] : i \in DOMAIN filed}
  BY EffectStores
<1>3. Reached(d, id, e.version)'
  BY <1>1, SentReached
<1>4. NotAhead(d, id)'
  <2>1. ASSUME NEW i \in DOMAIN filed, NEW v, v = filed[i].version PROVE Reached(d, id, v)'
    <3>1. CASE filed[i] = e
      BY <1>3, <2>1, <3>1
    <3>2. CASE \E j \in DOMAIN library[d][id] : filed[i] = library[d][id][j]
      BY <2>1, <3>2, FiledReached
    <3> QED
      BY <3>1, <3>2 DEF Holds
  <2>2. \A i \in DOMAIN library'[d][id] : Reached(d, id, library[d][id][i].version)'
    BY <1>2, <2>1
  <2>3. Has(tabs, d, id)' => Reached(d, id, tabs[d][id].version)'
    BY <1>2, <1>3 DEF Has, Holds
  <2> QED
    BY <2>2, <2>3 DEF NotAhead
<1>5. Held(d, id)' # {}
  BY <1>2, NoEntryIsNoEntry DEF Holds
<1>6. \A n \in Held(d, id)' : n.version \in Nat /\ \E o \in Held(d, id) : o.version <= n.version
  <2> SUFFICES ASSUME NEW n \in Held(d, id)'
               PROVE  n.version \in Nat /\ \E o \in Held(d, id) : o.version <= n.version
    OBVIOUS
  <2>1. CASE n = e
    BY <1>1, <2>1
  <2>2. CASE n # e
    <3>1. n \in Held(d, id)
      BY <1>2, <2>2 DEF Held, Holds
    <3>2. n.version \in Nat /\ n.version <= n.version
      BY <3>1, HeldEntries DEF Entry
    <3> QED
      BY <3>1, <3>2
  <2> QED
    BY <2>1, <2>2
<1>7. NotBehind(d, id)'
  BY <1>5, <1>6, EffectNotBehind
<1>8. {PutCall(d, id, e, "own")} \in SUBSET Pushes(d, id) /\ {} \in SUBSET {DeleteCall(d, id, "own")}
  BY DEF Pushes
<1> QED
  BY <1>4, <1>7, <1>8, EffectKeeps

LEMMA MoveKeeps ==
  ASSUME TypeInv, SettledInv, NEW d \in Devices, NEW id \in Ids, NEW tab, NEW filed, NEW moved,
         MoveSaved(d, id, tab, filed, moved)
  PROVE  Effect(d, id, tab, filed, {PutCall(d, id, moved, "own")}, {})
<1>1. online[d] /\ isSyncing[d] = FALSE /\ isSyncing \in [Devices -> BOOLEAN]
  BY DEF SettledInv, Calm, CalmDevice, TypeInv, TypeOK, EngineOK
<1> QED
  BY <1>1 DEF MoveSaved, PushEntry, Effect, queues

LEMMA SavedKeeps ==
  ASSUME TypeInv, SettledInv, NEW d \in Devices, NEW id \in Ids,
         CloseSaved(d, id) \/ OpenSaved(d, id) \/ RenameClosed(d, id)
  PROVE  SettledInv'
<1>1. ASSUME CloseSaved(d, id) PROVE SettledInv'
  <2> DEFINE e == Bump([tabs[d][id] EXCEPT !.open = FALSE])
             filed == Append(library[d][id], e)
  <2>1. tabs[d][id] \in Entry /\ tabs[d][id] \in Held(d, id)
    BY <1>1, TabEntry DEF CloseSaved, Held, Has
  <2>2. e \in Entry /\ e.version = tabs[d][id].version + 1
    <3>1. [tabs[d][id] EXCEPT !.open = FALSE] \in Entry
          /\ [tabs[d][id] EXCEPT !.open = FALSE].version = tabs[d][id].version
      BY <2>1 DEF Entry
    <3> QED
      BY <3>1, BumpType
  <2>3. MoveSaved(d, id, NoEntry, filed, e)
    BY <1>1 DEF CloseSaved
  <2> HIDE DEF e
  <2>4. /\ \E i \in DOMAIN filed : filed[i] = e
        /\ \A i \in DOMAIN filed : filed[i] = e \/ \E j \in DOMAIN library[d][id] : filed[i] = library[d][id][j]
    <3>1. library[d][id] \in Seq(Entry)
      BY DEF TypeInv, TypeOK, StoresOK
    <3>2. PICK n \in Nat : n = Len(library[d][id]) /\ DOMAIN library[d][id] = 1 .. n
      BY <3>1, LenProperties
    <3>3. /\ DOMAIN filed = 1 .. n + 1 /\ filed[n + 1] = e
          /\ \A i \in 1 .. n : filed[i] = library[d][id][i]
      BY <2>2, <3>1, <3>2, AppendProperties
    <3> HIDE DEF filed
    <3> QED
      BY <3>2, <3>3
  <2> HIDE DEF filed
  <2>5. Effect(d, id, NoEntry, filed, {PutCall(d, id, e, "own")}, {})
    BY <2>3, MoveKeeps
  <2>6. Holds(d, id, e, NoEntry, filed)
    BY <2>4 DEF Holds
  <2> QED
    BY <2>1, <2>2, <2>5, <2>6, BumpKeeps
<1>2. ASSUME Filed(d, id) PROVE FirstFiled(d, id) \in Entry /\ FirstFiled(d, id) \in Held(d, id)
  BY <1>2, FiledEntry, FiledHeld
<1>3. ASSUME OpenSaved(d, id) PROVE SettledInv'
  <2> DEFINE e == Bump([FirstFiled(d, id) EXCEPT !.open = TRUE])
  <2>1. FirstFiled(d, id) \in Entry /\ FirstFiled(d, id) \in Held(d, id)
    BY <1>2, <1>3 DEF OpenSaved
  <2>2. e \in Entry /\ e.version = FirstFiled(d, id).version + 1
    <3>1. [FirstFiled(d, id) EXCEPT !.open = TRUE] \in Entry
          /\ [FirstFiled(d, id) EXCEPT !.open = TRUE].version = FirstFiled(d, id).version
      BY <2>1 DEF Entry
    <3> QED
      BY <3>1, BumpType
  <2>3. MoveSaved(d, id, e, <<>>, e)
    BY <1>3 DEF OpenSaved
  <2> HIDE DEF e
  <2>4. Effect(d, id, e, <<>>, {PutCall(d, id, e, "own")}, {})
    BY <2>3, MoveKeeps
  <2>5. Holds(d, id, e, e, <<>>)
    BY DEF Holds
  <2> QED
    BY <2>1, <2>2, <2>4, <2>5, BumpKeeps
<1>4. ASSUME RenameClosed(d, id) PROVE SettledInv'
  <2> DEFINE e == Bump([FirstFiled(d, id) EXCEPT !.content = ops'])
             filed == [i \in DOMAIN library[d][id] |-> e]
  <2>1. /\ FirstFiled(d, id) \in Entry /\ FirstFiled(d, id) \in Held(d, id)
        /\ ops' \in Contents
    BY <1>2, <1>4, DoesType DEF RenameClosed
  <2>2. e \in Entry /\ e.version = FirstFiled(d, id).version + 1
    <3>1. [FirstFiled(d, id) EXCEPT !.content = ops'] \in Entry
          /\ [FirstFiled(d, id) EXCEPT !.content = ops'].version = FirstFiled(d, id).version
      BY <2>1 DEF Entry
    <3> QED
      BY <3>1, BumpType
  <2>3. /\ library' = [library EXCEPT ![d][id] = filed] /\ PushEntry(d, id, e, "own")
        /\ UNCHANGED <<server, tabs, offlineDeletes, session, engine, deletes, pulls, runs, faults>>
        /\ tabs[d][id] = NoEntry
    <3>1. library' = [library EXCEPT ![d][id] = [i \in DOMAIN @ |-> e]]
      BY <1>4 DEF RenameClosed
    <3>2. library \in [Devices -> [Ids -> Seq(Entry)]]
      BY DEF TypeInv, TypeOK, StoresOK
    <3> HIDE DEF e
    <3>3. library' = [library EXCEPT ![d][id] = filed]
      BY <3>1, <3>2
    <3> QED
      BY <1>4, <3>3 DEF RenameClosed, Has, e
  <2> HIDE DEF e
  <2>4. \A i \in DOMAIN filed : filed[i] = e
    OBVIOUS
  <2>5. \E i \in DOMAIN filed : filed[i] = e
    <3>1. library[d][id] \in Seq(Entry) /\ library[d][id] # <<>>
      BY <1>4 DEF TypeInv, TypeOK, StoresOK, RenameClosed, Filed
    <3>2. 1 \in DOMAIN library[d][id]
      BY <3>1, EmptySeq, LenProperties
    <3> QED
      BY <3>2
  <2> HIDE DEF filed
  <2>6. Effect(d, id, NoEntry, filed, {PutCall(d, id, e, "own")}, {})
    <3>1. online[d] /\ tabs \in [Devices -> EntryMap] /\ tabs' = tabs
      BY <2>3 DEF SettledInv, Calm, CalmDevice, TypeInv, TypeOK, StoresOK
    <3>2. tabs' = [tabs EXCEPT ![d][id] = NoEntry]
      BY <2>3, <3>1 DEF EntryMap
    <3> QED
      BY <2>3, <3>1, <3>2 DEF PushEntry, Effect, queues, engine
  <2>7. Holds(d, id, e, NoEntry, filed)
    BY <2>4, <2>5 DEF Holds
  <2> QED
    BY <2>1, <2>2, <2>5, <2>6, <2>7, BumpKeeps
<1> QED
  BY <1>1, <1>3, <1>4

LEMMA TimerKeeps ==
  ASSUME TypeInv, SettledInv, NEW d \in Devices, NEW id \in Ids, TimerFires(d, id)
  PROVE  SettledInv'
<1> DEFINE e == Bump(tabs[d][id])
<1>1. /\ online[d] /\ isSyncing[d] = FALSE /\ isSyncing \in [Devices -> BOOLEAN]
      /\ tabs \in [Devices -> EntryMap] /\ timers \in [Devices -> SUBSET Ids]
      /\ library \in [Devices -> [Ids -> Seq(Entry)]]
  BY DEF SettledInv, Calm, CalmDevice, TypeInv, TypeOK, EngineOK, StoresOK
<1>2. /\ \A c \in Devices, i \in Ids : (c # d \/ i # id) /\ i \in timers[c] => i \in timers'[c]
      /\ UNCHANGED <<server, library, offlineDeletes, session, syncCursor, deletes, pulls, runs, faults>>
  BY <1>1 DEF TimerFires, bounds
<1>3. library' = [library EXCEPT ![d][id] = library[d][id]]
  BY <1>1, <1>2
<1>4. CASE Has(tabs, d, id)
  <2>1. tabs[d][id] \in Held(d, id) /\ e \in Entry /\ e.version = tabs[d][id].version + 1
    BY <1>4, TabEntry, BumpType DEF Held, Has
  <2>2. /\ tabs' = [tabs EXCEPT ![d][id] = e] /\ PushEntry(d, id, e, "own")
        /\ isSyncing' = [isSyncing EXCEPT ![d] = FALSE]
    BY <1>1, <1>4 DEF TimerFires, AutoSave
  <2> HIDE DEF e
  <2>3. Effect(d, id, e, library[d][id], {PutCall(d, id, e, "own")}, {})
    BY <1>1, <1>2, <1>3, <2>2 DEF PushEntry, Effect, queues
  <2>4. Holds(d, id, e, e, library[d][id])
    BY DEF Holds
  <2> QED
    BY <2>1, <2>3, <2>4, BumpKeeps
<1>5. CASE ~Has(tabs, d, id)
  <2>1. tabs' = [tabs EXCEPT ![d][id] = NoEntry] /\ UNCHANGED <<offlineQueue, isSyncing, puts>>
    BY <1>1, <1>5 DEF TimerFires, Has, EntryMap
  <2>2. Effect(d, id, NoEntry, library[d][id], {}, {})
    BY <1>2, <1>3, <2>1 DEF Effect, queues
  <2>3. /\ Held(d, id)' = Held(d, id) /\ tabs'[d][id] = NoEntry
        /\ library'[d][id] = library[d][id]
    BY <1>5, <2>2, EffectStores DEF Held, Has
  <2>4. NotAhead(d, id) /\ NotBehind(d, id)
    BY DEF SettledInv
  <2>5. NotBehind(d, id)'
    BY <2>2, <2>3, <2>4 DEF NotBehind, Deleting, Effect, server
  <2>6. NotAhead(d, id)'
    BY <2>2, <2>3, <2>4, ReachedStays DEF NotAhead, Has, Effect, server
  <2> QED
    BY <2>2, <2>5, <2>6, EffectKeeps
<1> QED
  BY <1>4, <1>5

LEMMA DeletionKeeps ==
  ASSUME TypeInv, SettledInv, NEW d \in Devices, NEW id \in Ids,
         CloseUnsaved(d, id) \/ DeleteOpen(d, id) \/ DeleteClosed(d, id)
  PROVE  SettledInv'
<1>1. /\ online[d] /\ Watching(d) /\ offlineQueue[d] = Nothing /\ offlineDeletes[d] = {}
      /\ offlineQueue \in [Devices -> EntryMap] /\ offlineDeletes \in [Devices -> SUBSET Ids]
      /\ tabs \in [Devices -> EntryMap] /\ library \in [Devices -> [Ids -> Seq(Entry)]]
  BY DEF SettledInv, Calm, CalmDevice, Watching, TypeInv, TypeOK, StoresOK, QueuesOK
<1>2. ASSUME RequestDelete(d, id, "own")
      PROVE  deletes' = deletes \cup {DeleteCall(d, id, "own")} /\ offlineDeletes' = offlineDeletes
  <2>1. DeleteCalls(d, {id}, "own") = {DeleteCall(d, id, "own")}
    BY <1>1 DEF DeleteCalls, DeleteCall
  <2>2. DeletesQueued(d, {id}) = {}
    BY <1>1 DEF DeletesQueued
  <2> QED
    BY <1>1, <1>2, <2>1, <2>2 DEF RequestDelete
<1>3. PICK tab, filed : /\ Effect(d, id, tab, filed, {}, {DeleteCall(d, id, "own")})
                        /\ tab = NoEntry
                        /\ filed = library[d][id] \/ filed = <<>>
                        /\ Held(d, id) # {}
  <2>1. CASE CloseUnsaved(d, id) \/ DeleteOpen(d, id)
    <3>1. RemoveTab(d, id) /\ Has(tabs, d, id)
      BY <2>1 DEF CloseUnsaved, DeleteOpen
    <3>2. [offlineQueue EXCEPT ![d][id] = NoEntry] = offlineQueue
      BY <1>1 DEF Nothing, EntryMap
    <3>3. offlineQueue' = offlineQueue /\ RequestDelete(d, id, "own")
      BY <1>1, <3>1, <3>2 DEF RemoveTab
    <3>4. library' = [library EXCEPT ![d][id] = library[d][id]]
      BY <1>1, <3>1 DEF RemoveTab
    <3>5. Effect(d, id, NoEntry, library[d][id], {}, {DeleteCall(d, id, "own")})
      BY <1>2, <3>1, <3>3, <3>4 DEF RemoveTab, Effect, queues, engine
    <3> QED
      BY <3>1, <3>5 DEF Held, Has
  <2>2. CASE DeleteClosed(d, id)
    <3>1. tabs' = [tabs EXCEPT ![d][id] = NoEntry]
      BY <1>1, <2>2 DEF DeleteClosed, Has, EntryMap
    <3>2. Effect(d, id, NoEntry, <<>>, {}, {DeleteCall(d, id, "own")})
      BY <1>2, <2>2, <3>1 DEF DeleteClosed, Effect, queues, engine
    <3> QED
      BY <2>2, <3>2, FiledHeld DEF DeleteClosed
  <2> QED
    BY <2>1, <2>2
<1>4. NotBehind(d, id)'
  BY <1>3, EffectDeletes
<1>5. NotAhead(d, id)'
  <2>1. tabs'[d][id] = NoEntry /\ library'[d][id] = filed
    BY <1>3, EffectStores
  <2>2. ASSUME NEW i \in DOMAIN filed, NEW v, v = filed[i].version PROVE Reached(d, id, v)'
    BY <1>3, <2>2, FiledReached
  <2> QED
    BY <2>1, <2>2 DEF NotAhead, Has
<1> QED
  BY <1>3, <1>4, <1>5, EffectKeeps

LEMMA UserKeeps ==
  ASSUME TypeInv, BornInv, SettledInv, Undisturbed, NEW d \in Devices, UserActs(d)
  PROVE  SettledInv'
  BY EditKeeps, SavedKeeps, DeletionKeeps
  DEF UserActs, Undisturbed, Reload, SignIn, LogOut, Does

-----------------------------------------------------------------------------
(* The server: rows only grow, and what is written is news to every cursor. *)

\* The row of i has just been written by the account, and the devices whose next
\* delta will leave it out are told.
WrittenNow(i) ==
  /\ table'[i] \in Row /\ table'[i].owner = Account /\ table'[i].updatedAt <= clock'
  /\ Exists(table, i) => table[i].version <= table'[i].version
  /\ \A d \in Devices : Passed(d, table'[i].updatedAt) => i \in late'[d]

Grown == /\ clock <= clock' /\ clock' \in Nat
         /\ \A i \in Ids :
              \/ WrittenNow(i)
              \/ table'[i] = table[i] /\ \A d \in Devices : i \in late[d] <=> i \in late'[d]

LEMMA ServerTypes ==
  ASSUME TypeInv
  PROVE  /\ clock \in Nat /\ \A d \in Devices : syncCursor[d] \in Nat
         /\ \A i \in Ids : Exists(table, i) =>
              /\ table[i] \in Row /\ table[i].version \in Nat /\ table[i].updatedAt \in Nat
  BY DEF TypeInv, TypeOK, ServerOK, EngineOK, Tables, Exists, Row

LEMMA GrownKeeps ==
  ASSUME TypeInv, SettledInv, Grown, UNCHANGED <<pulls, syncCursor>>
  PROVE  Stamped' /\ OnePull' /\ Fresh'
<1>1. Stamped'
  <2>1. ASSUME NEW i \in Ids, Exists(table, i)'
        PROVE  table'[i].owner = Account /\ table'[i].updatedAt <= clock'
    <3>1. CASE WrittenNow(i)
      BY <3>1 DEF WrittenNow
    <3>2. CASE table'[i] = table[i]
      BY <2>1, <3>2, ServerTypes DEF SettledInv, Stamped, Exists, Grown
    <3> QED
      BY <3>1, <3>2 DEF Grown
  <2>2. \A d \in Devices : syncCursor'[d] <= clock'
    BY ServerTypes DEF Grown, SettledInv, Stamped
  <2> QED
    BY <2>1, <2>2 DEF Stamped
<1>2. OnePull'
  BY DEF SettledInv, OnePull
<1>3. Fresh'
  <2> SUFFICES ASSUME NEW q \in pulls, q.stage = "answered", NEW i \in Ids
               PROVE  NewsOf(q, i)'
    BY DEF Fresh
  <2>1. q.dev \in Devices /\ q.cursor \in Nat
    BY PullsType
  <2>2. NewsOf(q, i)
    BY DEF SettledInv, Fresh
  <2>3. CASE table'[i] = table[i] /\ \A d \in Devices : i \in late[d] <=> i \in late'[d]
    BY <2>1, <2>2, <2>3 DEF NewsOf, Exists
  <2>4. CASE WrittenNow(i)
    <3>1. /\ table'[i] # NoRow /\ table'[i].version \in Nat /\ table'[i].updatedAt \in Nat
          /\ Exists(table, i) => table[i].version <= table'[i].version /\ table[i].version \in Nat
      BY <2>4, ServerTypes, NoRowIsNoRow DEF WrittenNow, Row
    <3>2. q.rows[i] # NoRow => q.rows[i].version \in Nat
      BY PullsType DEF Tables, Row
    <3>3. i \notin late'[q.dev] => ~(table'[i].updatedAt < q.cursor)
      BY <2>1, <2>4, <3>1 DEF WrittenNow, Passed
    <3>4. q.rows[i] # NoRow => q.rows[i].version <= table'[i].version
      BY <2>2, <3>1, <3>2 DEF NewsOf
    <3> QED
      BY <3>1, <3>3, <3>4 DEF NewsOf, Exists
  <2> QED
    BY <2>3, <2>4 DEF Grown
<1> QED
  BY <1>1, <1>2, <1>3

\* The calls take the time from the clock.
LEMMA GrownInTime ==
  ASSUME TypeInv, SettledInv, Grown, pulls' \subseteq pulls,
         \A c \in puts' \cup deletes' : c \in puts \cup deletes \/ c.now <= clock'
  PROVE  InTime'
<1>1. /\ \A c \in puts \cup deletes : c.now \in Nat /\ c.now <= clock
      /\ \A q \in pulls : q.cursor \in Nat /\ q.cursor <= clock
      /\ clock \in Nat
  BY ServerTypes, PullsType, PutFields, DeleteFields
  DEF SettledInv, InTime, TypeInv, TypeOK, NetworkOK
<1> QED
  BY <1>1 DEF InTime, Grown

LEMMA GrownExists ==
  ASSUME TypeInv, Grown, NEW i \in Ids, Exists(table, i)
  PROVE  /\ Exists(table, i)' /\ table[i].version <= table'[i].version
         /\ table[i].version \in Nat /\ table'[i].version \in Nat
  BY ServerTypes, NoRowIsNoRow DEF Grown, WrittenNow, Exists, Row

\* A push, or a deletion, whose write has not been made has still to make it.
StillDue(p) == \E q \in puts' : q.dev = p.dev /\ q.id = p.id /\ q.ws = p.ws /\ Due(q)
StillDeleting(c) == \E e \in deletes' : e.dev = c.dev /\ e.id = c.id /\ e.code = 0

\* What a push had in hand is either still in flight or on the server.
LEMMA GrownReached ==
  ASSUME TypeInv, Grown, NEW d \in Devices, NEW i \in Ids, NEW v \in Nat, Reached(d, i, v),
         \A p \in puts : p.dev = d /\ p.id = i /\ Due(p) =>
           StillDue(p) \/ (Exists(table, i)' /\ p.ws.version <= table'[i].version)
  PROVE  Reached(d, i, v)'
<1>1. CASE Exists(table, i) /\ v <= table[i].version
  BY <1>1, GrownExists DEF Reached
<1>2. ASSUME NEW p \in puts, p.dev = d, p.id = i, Due(p), v <= p.ws.version
      PROVE  Reached(d, i, v)'
  <2>1. p.ws.version \in Nat
    BY PutsType DEF Entry
  <2>2. CASE StillDue(p)
    BY <1>2, <2>2 DEF Reached, StillDue, Due
  <2>3. CASE Exists(table, i)' /\ p.ws.version <= table'[i].version
    <3>1. table'[i].version \in Nat
      <4>1. CASE table'[i] = table[i]
        BY <2>3, <4>1, ServerTypes DEF Exists
      <4>2. CASE WrittenNow(i)
        BY <4>2 DEF WrittenNow, Row
      <4> QED
        BY <4>1, <4>2 DEF Grown
    <3> QED
      BY <1>2, <2>1, <2>3, <3>1 DEF Reached
  <2> QED
    BY <1>2, <2>2, <2>3
<1> QED
  BY <1>1, <1>2 DEF Reached

LEMMA GrownPairs ==
  ASSUME TypeInv, SettledInv, Grown, UNCHANGED <<stores, timers, syncCursor>>,
         \A p \in puts : Due(p) =>
           StillDue(p) \/ (Exists(table, p.id)' /\ p.ws.version <= table'[p.id].version),
         \A c \in deletes : c.code = 0 =>
           StillDeleting(c) \/ ~Exists(table, c.id)' \/ WrittenNow(c.id)
  PROVE  \A d \in Devices, i \in Ids : NotAhead(d, i)' /\ NotBehind(d, i)'
<1> SUFFICES ASSUME NEW d \in Devices, NEW i \in Ids PROVE NotAhead(d, i)' /\ NotBehind(d, i)'
  OBVIOUS
<1>1. tabs' = tabs /\ library' = library /\ timers' = timers /\ syncCursor' = syncCursor
  BY DEF stores
<1>2. NotAhead(d, i) /\ NotBehind(d, i)
  BY DEF SettledInv
<1>3. ASSUME NEW v \in Nat, Reached(d, i, v) PROVE Reached(d, i, v)'
  BY <1>3, GrownReached
<1>4. NotAhead(d, i)'
  <2>1. Has(tabs, d, i) => tabs[d][i].version \in Nat
    BY TabEntry DEF Entry
  <2>2. \A j \in DOMAIN library[d][i] : library[d][i][j].version \in Nat
    <3>1. library[d][i] \in Seq(Entry)
      BY DEF TypeInv, TypeOK, StoresOK
    <3>2. \A j \in DOMAIN library[d][i] : library[d][i][j] \in Entry
      BY <3>1
    <3> QED
      BY <3>2 DEF Entry
  <2>3. \A j \in DOMAIN library[d][i] : Reached(d, i, library[d][i][j].version)'
    <3> SUFFICES ASSUME NEW j \in DOMAIN library[d][i], NEW v \in Nat, v = library[d][i][j].version
                 PROVE  Reached(d, i, v)'
      BY <1>1, <2>2
    <3> QED
      BY <1>2, <1>3 DEF NotAhead
  <2>4. Has(tabs, d, i) /\ i \notin timers[d] => Reached(d, i, tabs[d][i].version)'
    <3> SUFFICES ASSUME Has(tabs, d, i), i \notin timers[d], NEW v \in Nat, v = tabs[d][i].version
                 PROVE  Reached(d, i, v)'
      BY <1>1, <2>1
    <3> QED
      BY <1>2, <1>3 DEF NotAhead
  <2> QED
    BY <1>1, <2>3, <2>4 DEF NotAhead, Has
<1>5. NotBehind(d, i)'
  <2>1. Held(d, i)' = Held(d, i)
    BY <1>1 DEF Held
  <2>2. CASE WrittenNow(i)
    <3>1. i \notin late'[d] => ~(table'[i].updatedAt < syncCursor'[d])
      <4>1. table'[i].updatedAt \in Nat /\ syncCursor[d] \in Nat
        BY <2>2, ServerTypes DEF WrittenNow, Row
      <4> QED
        BY <1>1, <2>2, <4>1 DEF WrittenNow, Passed
    <3> QED
      BY <3>1 DEF NotBehind
  <2>3. CASE ~WrittenNow(i)
    <3>1. table'[i] = table[i] /\ (i \in late[d] <=> i \in late'[d])
      BY <2>3 DEF Grown
    <3>2. Exists(table, i)' /\ Deleting(d, i) => Deleting(d, i)'
      BY <2>3, <3>1 DEF Deleting, StillDeleting
    <3> QED
      BY <1>1, <1>2, <2>1, <3>1, <3>2 DEF NotBehind, Exists
  <2> QED
    BY <2>2, <2>3
<1> QED
  BY <1>4, <1>5

\* Nothing stored changes, and no call that has still to be served goes away.
LEMMA QuietPairs ==
  ASSUME TypeInv, SettledInv, UNCHANGED <<table, late, stores, timers, syncCursor>>,
         clock' \in Nat, clock' >= clock,
         \A p \in puts : Due(p) => StillDue(p),
         \A c \in deletes : c.code = 0 => StillDeleting(c)
  PROVE  Grown /\ \A d \in Devices, i \in Ids : NotAhead(d, i)' /\ NotBehind(d, i)'
<1>1. Grown
  BY ServerTypes DEF Grown
<1> QED
  BY <1>1, GrownPairs

LEMMA CallsStay ==
  /\ \A p \in puts \cap puts' : Due(p) => StillDue(p)
  /\ \A c \in deletes \cap deletes' : c.code = 0 => StillDeleting(c)
  BY DEF StillDue, StillDeleting

\* What a PUT, or a DELETE, has become after a step of the server.
LEMMA PutNext ==
  ASSUME TypeInv, NEW p \in puts, ServesPut(p)
  PROVE  \E q : /\ puts' \subseteq (puts \ {p}) \cup {q} /\ puts \ {p} \subseteq puts'
                /\ q.dev = p.dev /\ q.id = p.id /\ q.ws = p.ws /\ q.by = p.by
                /\ \/ q.row = p.row
                   \/ AnswerPut(p) /\ q.row = OwnRow(table, p.id, Account)
                /\ StampPut(p) => q \in puts' /\ Due(q)
<1>1. p \in PutRecord
  BY DEF TypeInv, TypeOK, NetworkOK
<1>2. CASE StampPut(p)
  <2>1. puts' = (puts \ {p}) \cup {Timed(p, clock')}
    BY <1>2, PutServed
  <2>2. PICK q : q = Timed(p, clock')
    OBVIOUS
  <2>3. q.dev = p.dev /\ q.id = p.id /\ q.ws = p.ws /\ q.by = p.by /\ q.row = p.row
        /\ Due(q)
    BY <2>2, PutOfFields DEF Timed, Due
  <2> QED
    BY <2>1, <2>2, <2>3
<1>3. CASE ~StampPut(p) /\ WritePut(p)
  <2>1. puts' \subseteq (puts \ {p}) \cup {Stored(p)} /\ puts \ {p} \subseteq puts'
    BY <1>3, PutServed
  <2>2. PICK q : q = Stored(p)
    OBVIOUS
  <2>3. q.dev = p.dev /\ q.id = p.id /\ q.ws = p.ws /\ q.by = p.by /\ q.row = p.row
    BY <2>2, PutOfFields DEF Stored
  <2> QED
    BY <1>3, <2>1, <2>2, <2>3
<1>4. CASE ~StampPut(p) /\ AnswerPut(p)
  <2>1. PICK code, row : /\ row = OwnRow(table, p.id, Account)
                         /\ puts' = (puts \ {p}) \cup {Answered(p, code, row)}
    BY <1>4, PutServed
  <2>2. PICK q : q = Answered(p, code, row)
    OBVIOUS
  <2>3. q.dev = p.dev /\ q.id = p.id /\ q.ws = p.ws /\ q.by = p.by /\ q.row = row
    BY <2>2, PutOfFields DEF Answered
  <2> QED
    BY <1>4, <2>1, <2>2, <2>3
<1>5. CASE ~StampPut(p) /\ RefusePut(p)
  <2>1. puts' = (puts \ {p}) \cup {Answered(p, 401, p.row)}
    BY <1>5, PutServed
  <2>2. PICK q : q = Answered(p, 401, p.row)
    OBVIOUS
  <2>3. q.dev = p.dev /\ q.id = p.id /\ q.ws = p.ws /\ q.by = p.by /\ q.row = p.row
    BY <2>2, PutOfFields DEF Answered
  <2> QED
    BY <1>5, <2>1, <2>2, <2>3
<1> QED
  BY <1>2, <1>3, <1>4, <1>5 DEF ServesPut

LEMMA DeleteNext ==
  ASSUME TypeInv, NEW c \in deletes, ServesDelete(c)
  PROVE  \E e : /\ deletes' = (deletes \ {c}) \cup {e}
                /\ e.dev = c.dev /\ e.id = c.id /\ e.by = c.by
                /\ StampDelete(c) => e.code = 0
<1>1. ASSUME NEW stage, NEW now, NEW code,
             deletes' = (deletes \ {c}) \cup {Served(c, stage, now, code)},
             StampDelete(c) => code = 0
      PROVE  \E e : /\ deletes' = (deletes \ {c}) \cup {e}
                    /\ e.dev = c.dev /\ e.id = c.id /\ e.by = c.by
                    /\ StampDelete(c) => e.code = 0
  <2>1. PICK e : e = Served(c, stage, now, code)
    OBVIOUS
  <2> QED
    BY <1>1, <2>1, ServedFields
<1>2. CASE StampDelete(c)
  BY <1>1, <1>2, DeleteServed
<1>3. CASE ~StampDelete(c) /\ WriteDelete(c)
  BY <1>1, <1>3, DeleteServed
<1>4. CASE ~StampDelete(c) /\ RefuseDelete(c)
  BY <1>1, <1>4, DeleteServed
<1> QED
  BY <1>2, <1>3, <1>4 DEF ServesDelete

\* The write of a PUT leaves a row no older than what was sent.
LEMMA PutGrows ==
  ASSUME TypeInv, SettledInv, NEW p \in puts, WritePut(p)
  PROVE  Grown /\ Exists(table, p.id)' /\ p.ws.version <= table'[p.id].version
<1> DEFINE t2 == Upserted(table, p.id, Account, p.ws, p.now)
<1>1. /\ p.dev \in Devices /\ p.id \in Ids /\ p.ws \in Entry /\ p.now \in Nat /\ p.now <= clock
      /\ p.ws.version \in Nat
  BY PutsType, PutFields DEF TypeInv, TypeOK, NetworkOK, SettledInv, InTime, Entry
<1>2. table' = t2 /\ clock' = clock
  BY DEF WritePut
<1>3. t2[p.id] \in Row /\ table \in Tables /\ clock \in Nat
  BY <1>1, UpsertedType DEF TypeInv, TypeOK, ServerOK
<1>4. CASE Wins(table, p.id, Account, p.ws.version)
  <2>1. table' = [table EXCEPT ![p.id] =
          [owner |-> Account, content |-> p.ws.content, version |-> p.ws.version,
           updatedAt |-> p.now, deleted |-> Exists(table, p.id) /\ table[p.id].deleted,
           saved |-> p.ws.saved, open |-> p.ws.open]]
    BY <1>2, <1>4 DEF Upserted
  <2>2. /\ table'[p.id].version = p.ws.version /\ table'[p.id].owner = Account
        /\ table'[p.id].updatedAt = p.now
        /\ \A i \in Ids \ {p.id} : table'[i] = table[i]
    BY <1>1, <1>3, <2>1 DEF Tables
  <2>3. table'[p.id] \in Row /\ Wrote(p.id, p.now)
    BY <1>2, <1>3, <1>4 DEF WritePut
  <2>4. Exists(table, p.id) => table[p.id].version <= p.ws.version
    BY <1>1, <1>4, ServerTypes DEF Wins
  <2>5. late \in [Devices -> SUBSET Ids]
    BY DEF TypeInv, TypeOK, ServerOK
  <2>6. /\ \A d \in Devices : Passed(d, p.now) => p.id \in late'[d]
        /\ \A i \in Ids \ {p.id}, d \in Devices : i \in late[d] <=> i \in late'[d]
    BY <2>3, <2>5 DEF Wrote
  <2>7. WrittenNow(p.id)
    BY <1>1, <1>2, <2>2, <2>3, <2>4, <2>6 DEF WrittenNow
  <2>8. Grown
    BY <1>2, <1>3, <2>2, <2>6, <2>7 DEF Grown
  <2>9. Exists(table, p.id)' /\ p.ws.version <= table'[p.id].version
    BY <1>1, <2>2, <2>3, NoRowIsNoRow DEF Exists
  <2> QED
    BY <2>8, <2>9
<1>5. CASE ~Wins(table, p.id, Account, p.ws.version)
  <2>1. table' = table /\ late' = late
    BY <1>2, <1>5 DEF Upserted, WritePut
  <2>2. Exists(table, p.id) /\ table[p.id].owner = Account
    BY <1>1, <1>5 DEF Wins, SettledInv, Stamped
  <2>3. p.ws.version <= table[p.id].version
    BY <1>1, <1>5, <2>2, ServerTypes DEF Wins
  <2> QED
    BY <1>2, <1>3, <2>1, <2>2, <2>3 DEF Grown, Exists
<1> QED
  BY <1>4, <1>5

LEMMA ServePutKeeps ==
  ASSUME TypeInv, SettledInv, NEW p \in puts, ServesPut(p)
  PROVE  SettledInv'
<1>1. p.dev \in Devices /\ p.id \in Ids /\ p.by = "own" /\ p.code # 401 /\ p.ws.version \in Nat
  BY PutsType DEF SettledInv, Calm, CalmCalls, Entry
<1>2. HasSession(p.dev)
  BY <1>1 DEF SettledInv, Calm, CalmDevice, HasSession
<1>3. UNCHANGED <<stores, queues, session, engine, deletes, pulls, runs, bounds>>
  BY ServedSame
<1>4. StampPut(p) \/ WritePut(p) \/ AnswerPut(p)
  BY <1>2, PutServed DEF ServesPut
<1>5. PICK q : /\ puts' \subseteq (puts \ {p}) \cup {q} /\ puts \ {p} \subseteq puts'
               /\ q.dev = p.dev /\ q.id = p.id /\ q.ws = p.ws /\ q.by = p.by
               /\ q.now \in {0, p.now, clock'} /\ q.code # 401
               /\ StampPut(p) => q \in puts' /\ Due(q)
               /\ q.code \in {200, 409} => AnswerPut(p) /\ q.row = table[p.id] /\ Exists(table, p.id)
  <2>1. CASE StampPut(p)
    <3>1. puts' = (puts \ {p}) \cup {Timed(p, clock')}
      BY <2>1, PutServed
    <3>2. PICK q : q = Timed(p, clock')
      OBVIOUS
    <3>3. /\ q.dev = p.dev /\ q.id = p.id /\ q.ws = p.ws /\ q.by = p.by
          /\ q.now = clock' /\ q.code = 0 /\ q.stage = "stamped"
      BY <3>2, PutOfFields DEF Timed
    <3> QED
      BY <3>1, <3>2, <3>3 DEF Due
  <2>2. CASE WritePut(p)
    <3>1. puts' \subseteq (puts \ {p}) \cup {Stored(p)} /\ puts \ {p} \subseteq puts'
      BY <2>2, PutServed
    <3>2. PICK q : q = Stored(p)
      OBVIOUS
    <3>3. /\ q.dev = p.dev /\ q.id = p.id /\ q.ws = p.ws /\ q.by = p.by /\ q.now = 0 /\ q.code = 0
      BY <3>2, PutOfFields DEF Stored
    <3>4. ~StampPut(p)
      BY <2>2 DEF StampPut, WritePut, LetIn
    <3> QED
      BY <3>1, <3>2, <3>3, <3>4
  <2>3. CASE AnswerPut(p)
    <3>1. PICK code \in {200, 404, 409}, row \in Row \cup {NoRow} :
            /\ row = OwnRow(table, p.id, Account) /\ (code # 404 => row \in Row)
            /\ puts' = (puts \ {p}) \cup {Answered(p, code, row)}
      BY <2>3, PutServed
    <3>2. PICK q : q = Answered(p, code, row)
      OBVIOUS
    <3>3. /\ q.dev = p.dev /\ q.id = p.id /\ q.ws = p.ws /\ q.by = p.by /\ q.now = p.now
          /\ q.code = code /\ q.row = row
      BY <3>2, PutOfFields DEF Answered
    <3>4. ~StampPut(p)
      BY <2>3 DEF StampPut, AnswerPut, LetIn
    <3>5. row \in Row => row = table[p.id] /\ Exists(table, p.id)
      BY <3>1, NoRowIsNoRow DEF OwnRow, Owns, Exists
    <3> QED
      BY <2>3, <3>1, <3>2, <3>3, <3>4, <3>5
  <2> QED
    BY <1>4, <2>1, <2>2, <2>3
<1>6. /\ Grown
      /\ Due(p) => StillDue(p) \/ (Exists(table, p.id)' /\ p.ws.version <= table'[p.id].version)
  <2>1. CASE StampPut(p)
    <3>1. UNCHANGED <<table, late>> /\ clock' \in Nat /\ clock' >= clock
      BY <2>1, PutServed
    <3> QED
      BY <1>5, <2>1, <3>1, ServerTypes DEF Grown, StillDue
  <2>2. CASE WritePut(p)
    BY <2>2, PutGrows
  <2>3. CASE AnswerPut(p)
    <3>1. UNCHANGED server /\ ~Due(p)
      BY <2>3, PutServed DEF AnswerPut, Due
    <3> QED
      BY <3>1, ServerTypes DEF Grown, server
  <2> QED
    BY <1>4, <2>1, <2>2, <2>3
<1>7. Stamped' /\ OnePull' /\ Fresh'
  BY <1>3, <1>6, GrownKeeps DEF engine
<1>8. InTime'
  <2>1. p.now <= clock /\ p.now \in Nat /\ clock \in Nat
    BY ServerTypes, PutFields DEF SettledInv, InTime, TypeInv, TypeOK, NetworkOK
  <2>2. q.now <= clock'
    BY <1>5, <1>6, <2>1 DEF Grown
  <2> QED
    BY <1>3, <1>5, <1>6, <2>2, GrownInTime
<1>9. \A d \in Devices, i \in Ids : NotAhead(d, i)' /\ NotBehind(d, i)'
  <2>1. \A r \in puts : Due(r) =>
          StillDue(r) \/ (Exists(table, r.id)' /\ r.ws.version <= table'[r.id].version)
    BY <1>5, <1>6, CallsStay
  <2>2. \A c \in deletes : c.code = 0 => StillDeleting(c)
    BY <1>3, CallsStay
  <2> QED
    BY <1>3, <1>6, <2>1, <2>2, GrownPairs DEF engine
<1>10. Calm'
  BY <1>1, <1>3, <1>5
  DEF SettledInv, Calm, CalmDevice, CalmCalls, queues, session, engine, runs, bounds
<1>11. Judged'
  <2> SUFFICES ASSUME NEW r \in puts', r.code \in {200, 409}
               PROVE  Exists(table, r.id)' /\ r.row.version <= table'[r.id].version
    BY DEF Judged
  <2>1. CASE r = q
    <3>1. r.row = table[p.id] /\ Exists(table, p.id) /\ r.id = p.id
      BY <1>5, <2>1
    <3> QED
      BY <1>1, <1>6, <3>1, GrownExists
  <2>2. CASE r \in puts
    <3>1. /\ r.id \in Ids /\ Exists(table, r.id) /\ r.row.version <= table[r.id].version
          /\ r.row \in Row
      BY <2>2, PutsType DEF SettledInv, Judged
    <3>2. r.row.version \in Nat
      BY <3>1 DEF Row
    <3> QED
      BY <1>6, <3>1, <3>2, GrownExists
  <2> QED
    BY <1>5, <2>1, <2>2
<1> QED
  BY <1>7, <1>8, <1>9, <1>10, <1>11 DEF SettledInv

\* What a DELETE writes is newer than what was there.
LEMMA DeleteGrows ==
  ASSUME TypeInv, SettledInv, NEW c \in deletes, WriteDelete(c)
  PROVE  Grown /\ (WrittenNow(c.id) \/ ~Exists(table, c.id)')
<1>1. /\ c.id \in Ids /\ c.now \in Nat /\ c.now <= clock /\ table \in Tables /\ clock \in Nat
  BY DeletesType, DeleteFields DEF TypeInv, TypeOK, NetworkOK, ServerOK, SettledInv, InTime
<1>2. table' = SoftDeleted(table, c.id, Account, c.now) /\ clock' = clock
  BY DEF WriteDelete
<1>3. CASE Exists(table, c.id)
  <2>1. table[c.id].owner = Account /\ table[c.id] \in Row
    BY <1>1, <1>3, ServerTypes DEF SettledInv, Stamped
  <2>2. table' = [table EXCEPT ![c.id] =
          [owner |-> Account, content |-> table[c.id].content,
           version |-> table[c.id].version + 1, updatedAt |-> c.now, deleted |-> TRUE,
           saved |-> table[c.id].saved, open |-> table[c.id].open]]
    BY <1>2, <1>3, <2>1 DEF SoftDeleted, Owns
  <2>3. /\ table'[c.id].owner = Account /\ table'[c.id].updatedAt = c.now
        /\ table'[c.id].version = table[c.id].version + 1
        /\ table'[c.id] = [owner |-> Account, content |-> table[c.id].content,
           version |-> table[c.id].version + 1, updatedAt |-> c.now, deleted |-> TRUE,
           saved |-> table[c.id].saved, open |-> table[c.id].open]
        /\ \A i \in Ids \ {c.id} : table'[i] = table[i]
    BY <1>1, <2>2 DEF Tables
  <2>4. table'[c.id] \in Row
    BY <1>1, <2>1, <2>3 DEF Row
  <2>5. Wrote(c.id, c.now) /\ late \in [Devices -> SUBSET Ids]
    BY <1>3, <2>1 DEF WriteDelete, Owns, TypeInv, TypeOK, ServerOK
  <2>6. /\ \A d \in Devices : Passed(d, c.now) => c.id \in late'[d]
        /\ \A i \in Ids \ {c.id}, d \in Devices : i \in late[d] <=> i \in late'[d]
    BY <2>5 DEF Wrote
  <2>7. WrittenNow(c.id)
    BY <1>1, <1>2, <2>1, <2>3, <2>4, <2>6 DEF WrittenNow, Row
  <2> QED
    BY <1>1, <1>2, <2>3, <2>6, <2>7 DEF Grown
<1>4. CASE ~Exists(table, c.id)
  <2>1. table' = table /\ late' = late
    BY <1>2, <1>4 DEF SoftDeleted, Owns, WriteDelete
  <2> QED
    BY <1>1, <1>2, <1>4, <2>1 DEF Grown, Exists
<1> QED
  BY <1>3, <1>4

LEMMA ServeDeleteKeeps ==
  ASSUME TypeInv, SettledInv, NEW c \in deletes, ServesDelete(c)
  PROVE  SettledInv'
<1>1. c.dev \in Devices /\ c.id \in Ids /\ c.by = "own"
  BY DeletesType DEF SettledInv, Calm, CalmCalls
<1>2. HasSession(c.dev)
  BY <1>1 DEF SettledInv, Calm, CalmDevice, HasSession
<1>3. UNCHANGED <<stores, queues, session, engine, puts, pulls, runs, bounds>>
  BY ServedSame
<1>4. StampDelete(c) \/ WriteDelete(c)
  BY <1>2, DeleteServed DEF ServesDelete
<1>5. PICK e : /\ deletes' = (deletes \ {c}) \cup {e}
               /\ e.dev = c.dev /\ e.id = c.id /\ e.by = c.by /\ e.now <= clock'
               /\ e.code # 401 /\ (StampDelete(c) => e.code = 0)
  <2>1. CASE StampDelete(c)
    <3>1. deletes' = (deletes \ {c}) \cup {Served(c, "stamped", clock', 0)}
      BY <2>1, DeleteServed
    <3>2. PICK e : e = Served(c, "stamped", clock', 0)
      OBVIOUS
    <3>3. e.dev = c.dev /\ e.id = c.id /\ e.by = c.by /\ e.now = clock' /\ e.code = 0
      BY <3>2, ServedFields
    <3>4. clock' \in Nat
      BY <2>1, DeleteServed
    <3> QED
      BY <3>1, <3>2, <3>3, <3>4
  <2>2. CASE WriteDelete(c)
    <3>1. PICK code \in {204, 404} : deletes' = (deletes \ {c}) \cup {Served(c, "answered", 0, code)}
      BY <2>2, DeleteServed
    <3>2. PICK e : e = Served(c, "answered", 0, code)
      OBVIOUS
    <3>3. e.dev = c.dev /\ e.id = c.id /\ e.by = c.by /\ e.now = 0 /\ e.code = code
      BY <3>2, ServedFields
    <3>4. ~StampDelete(c)
      BY <2>2 DEF StampDelete, WriteDelete, LetIn
    <3>5. clock' \in Nat
      BY <2>2, DeleteServed, ServerTypes
    <3> QED
      BY <3>1, <3>2, <3>3, <3>4, <3>5
  <2> QED
    BY <1>4, <2>1, <2>2
<1>6. Grown /\ (StillDeleting(c) \/ WrittenNow(c.id) \/ ~Exists(table, c.id)')
  <2>1. CASE StampDelete(c)
    <3>1. UNCHANGED <<table, late>> /\ clock' \in Nat /\ clock' >= clock
      BY <2>1, DeleteServed
    <3> QED
      BY <1>5, <2>1, <3>1, ServerTypes DEF Grown, StillDeleting
  <2>2. CASE WriteDelete(c)
    BY <2>2, DeleteGrows
  <2> QED
    BY <1>4, <2>1, <2>2
<1>7. Stamped' /\ OnePull' /\ Fresh' /\ InTime'
  BY <1>3, <1>5, <1>6, GrownKeeps, GrownInTime DEF engine
<1>8. \A d \in Devices, i \in Ids : NotAhead(d, i)' /\ NotBehind(d, i)'
  <2>1. \A r \in puts : Due(r) => StillDue(r)
    BY <1>3, CallsStay
  <2>2. \A r \in deletes : r.code = 0 => StillDeleting(r) \/ ~Exists(table, r.id)' \/ WrittenNow(r.id)
    BY <1>5, <1>6, CallsStay
  <2> QED
    BY <1>3, <1>6, <2>1, <2>2, GrownPairs DEF engine
<1>9. Calm'
  <2>1. CalmCalls
    BY DEF SettledInv, Calm
  <2>2. CalmCalls'
    BY <1>1, <1>3, <1>5, <2>1 DEF CalmCalls
  <2> QED
    BY <1>3, <2>2 DEF SettledInv, Calm, CalmDevice, queues, session, engine, runs, bounds
<1>10. Judged'
  <2> SUFFICES ASSUME NEW r \in puts, r.code \in {200, 409}
               PROVE  Exists(table, r.id)' /\ r.row.version <= table'[r.id].version
    BY <1>3 DEF Judged
  <2>1. /\ r.id \in Ids /\ Exists(table, r.id) /\ r.row.version <= table[r.id].version
        /\ r.row \in Row
    BY PutsType DEF SettledInv, Judged
  <2>2. r.row.version \in Nat
    BY <2>1 DEF Row
  <2> QED
    BY <1>6, <2>1, <2>2, GrownExists
<1> QED
  BY <1>7, <1>8, <1>9, <1>10 DEF SettledInv

-----------------------------------------------------------------------------
(* Answers come back, pulls go out. *)

LEMMA CallDoneKeeps ==
  ASSUME TypeInv, SettledInv,
         \/ \E p \in puts : PutDone(p)
         \/ \E c \in deletes : DeleteDone(c)
  PROVE  SettledInv'
<1>1. /\ UNCHANGED <<server, stores, queues, session, engine, pulls, runs, bounds>>
      /\ puts' \subseteq puts /\ deletes' \subseteq deletes
      /\ \A p \in puts : p.code = 0 => p \in puts'
      /\ \A c \in deletes : c.code = 0 => c \in deletes'
  BY DEF PutDone, DeleteDone
<1>2. \A d \in Devices, i \in Ids : NotAhead(d, i)' /\ NotBehind(d, i)'
  <2>1. \A p \in puts : Due(p) => StillDue(p)
    <3>1. \A p \in puts : Due(p) => p.code = 0
      BY PutsType DEF Due
    <3> QED
      BY <1>1, <3>1, CallsStay
  <2>2. \A c \in deletes : c.code = 0 => StillDeleting(c)
    BY <1>1, CallsStay
  <2> QED
    BY <1>1, <2>1, <2>2, QuietPairs, ServerTypes DEF engine, server
<1>3. Calm'
  BY <1>1 DEF SettledInv, Calm, CalmDevice, CalmCalls, queues, session, engine, runs, bounds
<1>4. Stamped' /\ OnePull' /\ Fresh' /\ InTime'
  <2>1. Grown
    BY <1>1, ServerTypes DEF Grown, server
  <2> QED
    BY <1>1, <2>1, GrownKeeps, GrownInTime DEF engine
<1>5. Judged'
  BY <1>1 DEF SettledInv, Judged, server
<1> QED
  BY <1>2, <1>3, <1>4, <1>5 DEF SettledInv

LEMMA PutConflictKeeps ==
  ASSUME TypeInv, SettledInv, NEW p \in puts, PutConflict(p)
  PROVE  SettledInv'
<1>1. /\ p.dev \in Devices /\ p.id \in Ids /\ p.row \in Row /\ p.code # 0 /\ ~Due(p)
      /\ tabs \in [Devices -> EntryMap] /\ isSyncing \in [Devices -> BOOLEAN]
  BY PutsType DEF PutConflict, Due, TypeInv, TypeOK, StoresOK, EngineOK
<1>2. /\ UNCHANGED <<server, library, queues, session, timers, syncCursor, deletes, pulls, runs, bounds>>
      /\ puts' = puts \ {p}
      /\ isSyncing' = [isSyncing EXCEPT ![p.dev] = FALSE]
  BY DEF PutConflict
<1>3. isSyncing' = isSyncing
  BY <1>1, <1>2 DEF SettledInv, Calm, CalmDevice
<1>4. Calm'
  BY <1>2, <1>3 DEF SettledInv, Calm, CalmDevice, CalmCalls, queues, session, runs, bounds
<1>5. Stamped' /\ OnePull' /\ Fresh' /\ InTime'
  <2>1. Grown
    BY <1>2, ServerTypes DEF Grown, server
  <2> QED
    BY <1>2, <2>1, GrownKeeps, GrownInTime
<1>6. Judged'
  BY <1>2 DEF SettledInv, Judged, server
<1>7. \A d \in Devices, i \in Ids : NotAhead(d, i)' /\ NotBehind(d, i)'
  <2>1. CASE tabs' = tabs
    <3>1. /\ \A r \in puts : Due(r) => StillDue(r)
          /\ \A c \in deletes : c.code = 0 => StillDeleting(c)
      BY <1>1, <1>2, CallsStay
    <3> QED
      BY <1>2, <2>1, <3>1, QuietPairs, ServerTypes DEF stores, server
  <2>2. CASE Has(tabs, p.dev, p.id) /\ Adopts(tabs[p.dev][p.id], p.row)
    <3> DEFINE e == EntryOf(p.row)
    <3>1. tabs' = [tabs EXCEPT ![p.dev][p.id] = e]
      BY <2>2 DEF PutConflict
    <3>2. e.version = p.row.version /\ e \in Entry /\ p.row.version \in Nat
      BY <1>1, EntryOfType DEF EntryOf, Row
    <3>3. /\ Exists(table, p.id) /\ e.version <= table[p.id].version
          /\ table[p.id].version \in Nat
      <4>1. Exists(table, p.id) /\ p.row.version <= table[p.id].version
        BY <2>2 DEF SettledInv, Judged, PutConflict
      <4> QED
        BY <1>1, <3>2, <4>1, ServerTypes
    <3>4. tabs[p.dev][p.id].version <= e.version /\ tabs[p.dev][p.id] \in Entry
      BY <1>1, <2>2, <3>2, TabEntry DEF Adopts, Entry
    <3> HIDE DEF e
    <3>5. /\ tabs'[p.dev][p.id] = e
          /\ \A d \in Devices, i \in Ids : d # p.dev \/ i # p.id => tabs'[d][i] = tabs[d][i]
      BY <1>1, <3>1 DEF EntryMap
    <3> SUFFICES ASSUME NEW d \in Devices, NEW i \in Ids PROVE NotAhead(d, i)' /\ NotBehind(d, i)'
      OBVIOUS
    <3>6. ASSUME NEW v, Reached(d, i, v) PROVE Reached(d, i, v)'
      BY <1>1, <1>2, <3>6 DEF Reached, server
    <3>7. NotAhead(d, i) /\ NotBehind(d, i)
      BY DEF SettledInv
    <3>8. \A j \in DOMAIN library[d][i] : Reached(d, i, library[d][i][j].version)'
      <4> SUFFICES ASSUME NEW j \in DOMAIN library[d][i], NEW v, v = library[d][i][j].version
                   PROVE  Reached(d, i, v)'
        BY <1>2
      <4> QED
        BY <3>6, <3>7 DEF NotAhead
    <3>9. CASE d # p.dev \/ i # p.id
      <4>1. tabs'[d][i] = tabs[d][i] /\ Held(d, i)' = Held(d, i)
        BY <1>2, <3>5, <3>9 DEF Held
      <4>2. Has(tabs, d, i) => i \in timers[d] \/ Reached(d, i, tabs[d][i].version)'
        <5> SUFFICES ASSUME NEW v, v = tabs[d][i].version, Reached(d, i, v)
                     PROVE  Reached(d, i, v)'
          BY <3>7, <4>1 DEF NotAhead
        <5> QED
          BY <3>6
      <4>3. NotAhead(d, i)'
        BY <1>2, <3>8, <4>1, <4>2 DEF NotAhead, Has
      <4>4. NotBehind(d, i)'
        BY <1>2, <3>7, <4>1 DEF NotBehind, Deleting, server
      <4> QED
        BY <4>3, <4>4
    <3>10. CASE d = p.dev /\ i = p.id
      <4>1. Reached(d, i, e.version)'
        BY <1>2, <3>3, <3>10 DEF Reached, server, Exists
      <4>2. NotAhead(d, i)'
        BY <1>2, <3>5, <3>8, <3>10, <4>1 DEF NotAhead, Has
      <4>3. /\ Held(d, i)' \subseteq Held(d, i) \cup {e} /\ e \in Held(d, i)'
            /\ tabs[d][i] \in Held(d, i)
        BY <1>2, <2>2, <3>2, <3>5, <3>10, NoEntryIsNoEntry DEF Held, Has
      <4>4. NotBehind(d, i)'
        <5>1. tabs[d][i].version \in Nat /\ e.version \in Nat
          BY <3>2, <3>4, <3>10 DEF Entry
        <5>2. (\A h \in Held(d, i) : h.version >= table[i].version) =>
                \A h \in Held(d, i)' : h.version >= table[i].version
          BY <3>3, <3>4, <3>10, <4>3, <5>1
        <5> QED
          BY <1>2, <3>7, <4>3, <5>2 DEF NotBehind, Deleting, server
      <4> QED
        BY <4>2, <4>4
    <3> QED
      BY <3>9, <3>10
  <2> QED
    BY <2>1, <2>2 DEF PutConflict
<1> QED
  BY <1>4, <1>5, <1>6, <1>7 DEF SettledInv

LEMMA DeltaRefreshKeeps ==
  ASSUME TypeInv, SettledInv, Undisturbed, NEW d \in Devices, DeltaRefresh(d)
  PROVE  SettledInv'
<1> DEFINE call == PullCall(d, "own", syncCursor[d])
<1>1. /\ UNCHANGED <<server, stores, queues, session, engine, puts, deletes, runs, faults>>
      /\ pulls' = pulls \cup {call} /\ \A q \in pulls : q.dev # d
  BY DEF DeltaRefresh, Undisturbed
<1>2. /\ call.dev = d /\ call.by = "own" /\ call.since = syncCursor[d]
      /\ call.stage = "sent" /\ call.cursor = 0
  BY DEF PullCall
<1> HIDE DEF call
<1>3. \A e \in Devices, i \in Ids : NotAhead(e, i)' /\ NotBehind(e, i)'
  BY <1>1, CallsStay, QuietPairs, ServerTypes DEF engine, server
<1>4. Calm'
  BY <1>1, <1>2 DEF SettledInv, Calm, CalmDevice, CalmCalls, queues, session, engine, runs
<1>5. Stamped' /\ InTime' /\ OnePull' /\ Judged'
  BY <1>1, <1>2, ServerTypes
  DEF SettledInv, Stamped, InTime, OnePull, Judged, server, engine
<1>6. Fresh'
  BY <1>1, <1>2 DEF SettledInv, Fresh, NewsOf, server
<1> QED
  BY <1>3, <1>4, <1>5, <1>6 DEF SettledInv

LEMMA ListingFresh ==
  ASSUME TypeInv, SettledInv, NEW q \in pulls, NEW i \in Ids
  PROVE  /\ Listing(q)[i] # NoRow => Exists(table, i) /\ Listing(q)[i] = table[i]
         /\ Exists(table, i) =>
              \/ Listing(q)[i] = table[i]
              \/ Listing(q)[i] = NoRow /\ table[i].updatedAt < q.since
<1>1. q.since \in Nat
  BY PullsType
<1>2. Exists(table, i) => table[i].owner = Account /\ table[i].updatedAt \in Nat
  BY ServerTypes DEF SettledInv, Stamped
<1> QED
  BY <1>1, <1>2 DEF Listing, ChangedSince, Owns, Exists

LEMMA ServePullKeeps ==
  ASSUME TypeInv, SettledInv, NEW q \in pulls, ServesPull(q)
  PROVE  SettledInv'
<1>1. q \in PullRecord /\ Listing(q) \in Tables /\ q.cursor \in Nat /\ q.cursor <= clock
  BY PullServed, PullsType DEF TypeInv, TypeOK, NetworkOK, SettledInv, InTime
<1>2. /\ UNCHANGED <<table, late, stores, queues, session, engine, puts, deletes, runs, bounds>>
      /\ clock \in Nat /\ clock' \in Nat /\ clock' >= clock
  BY ServedSame, PullServed, ServerTypes DEF ServesPull, server
<1>3. PICK a : /\ pulls' = (pulls \ {q}) \cup {a}
               /\ a.dev = q.dev /\ a.by = q.by /\ a.since = q.since /\ a.cursor <= clock'
               /\ a.stage = "answered" => a.rows = Listing(q)
  <2>1. CASE StampPull(q)
    <3>1. pulls' = (pulls \ {q}) \cup {Begun(q, clock')}
      BY <2>1, PullServed
    <3>2. PICK a : a = Begun(q, clock')
      OBVIOUS
    <3>3. /\ a.dev = q.dev /\ a.by = q.by /\ a.since = q.since /\ a.cursor = clock'
          /\ a.stage = "stamped"
      BY <1>1, <1>2, <3>2 DEF Begun, PullRecord
    <3> QED
      BY <1>2, <3>1, <3>2, <3>3
  <2>2. CASE AnswerPull(q)
    <3>1. pulls' = (pulls \ {q}) \cup {Delivered(q, Listing(q))} /\ UNCHANGED server
      BY <2>2, PullServed
    <3>2. PICK a : a = Delivered(q, Listing(q))
      OBVIOUS
    <3>3. /\ a.dev = q.dev /\ a.by = q.by /\ a.since = q.since /\ a.cursor = q.cursor
          /\ a.rows = Listing(q)
      <4>1. q \in PullRecord /\ Listing(q) \in Tables
        BY <1>1
      <4> QED
        BY <3>2, <4>1 DEF Delivered, PullRecord
    <3> QED
      BY <1>1, <3>1, <3>2, <3>3 DEF server
  <2> QED
    BY <2>1, <2>2 DEF ServesPull
<1>4. a.stage = "answered" => \A i \in Ids : NewsOf(a, i)
  <2> SUFFICES ASSUME a.stage = "answered", NEW i \in Ids PROVE NewsOf(a, i)
    OBVIOUS
  <2> QED
    BY <1>3, ListingFresh, ServerTypes DEF NewsOf
<1>5. Fresh'
  <2>1. \A r \in pulls' : r.stage = "answered" => \A i \in Ids : NewsOf(r, i)
    BY <1>3, <1>4 DEF SettledInv, Fresh
  <2> QED
    BY <1>2, <2>1 DEF Fresh, NewsOf
<1>6. OnePull'
  BY <1>2, <1>3 DEF SettledInv, OnePull, engine
<1>7. Calm'
  <2>1. CalmCalls
    BY DEF SettledInv, Calm
  <2>2. CalmCalls'
    BY <1>2, <1>3, <2>1 DEF CalmCalls
  <2> QED
    BY <1>2, <2>2 DEF SettledInv, Calm, CalmDevice, queues, session, engine, runs, bounds
<1>8. Stamped' /\ Judged'
  BY <1>2, ServerTypes DEF SettledInv, Stamped, Judged, engine
<1>9. InTime'
  <2>1. /\ \A c \in puts \cup deletes : c.now \in Nat /\ c.now <= clock
        /\ \A r \in pulls : r.cursor \in Nat /\ r.cursor <= clock
    BY PullsType, PutFields, DeleteFields DEF SettledInv, InTime, TypeInv, TypeOK, NetworkOK
  <2> QED
    BY <1>2, <1>3, <2>1 DEF InTime
<1>10. \A e \in Devices, i \in Ids : NotAhead(e, i)' /\ NotBehind(e, i)'
  BY <1>2, CallsStay, QuietPairs DEF engine
<1> QED
  BY <1>5, <1>6, <1>7, <1>8, <1>9, <1>10 DEF SettledInv

-----------------------------------------------------------------------------
(* A delta is merged. *)

\* The entry of the library that a merge looks at.
LastFiled(entries) == IF entries = <<>> THEN NoEntry ELSE entries[Len(entries)]

\* What the merge of a row makes of an entry that may be there.
Merged(e, row, excluded) ==
  IF row = NoRow THEN e
  ELSE IF row.deleted THEN NoEntry
  ELSE IF ~(e = NoEntry \/ row.version > e.version) THEN e
  ELSE IF excluded THEN NoEntry ELSE EntryOf(row)

Closed(row) == row # NoRow /\ row.saved /\ ~row.open

InTabs(e, row) == Merged(e, row, Closed(row))
InLibrary(e, row) == Merged(e, row, ~Closed(row))

LEMMA MergedTab ==
  ASSUME NEW local, NEW rows \in Tables, NEW i \in Ids
  PROVE  MergeWorkspaces(local, rows)[i] = InTabs(local[i], rows[i])
<1>1. i \in SavedRows(rows, FALSE) <=> Closed(rows[i])
  BY DEF SavedRows, Closed, Tables, Row
<1> QED
  BY <1>1 DEF MergeWorkspaces, MergeById, InTabs, Merged

LEMMA MergedFiled ==
  ASSUME NEW local, NEW rows \in Tables, NEW i \in Ids
  PROVE  MergeSavedLibrary(local, rows)[i] =
           LET e == InLibrary(LastFiled(local[i]), rows[i])
           IN IF e = NoEntry THEN <<>> ELSE <<e>>
<1> DEFINE last == [id \in Ids |-> IF local[id] = <<>> THEN NoEntry
                                   ELSE local[id][Len(local[id])]]
           merged == MergeById(last, rows, Ids \ SavedRows(rows, FALSE))
<1>1. i \in SavedRows(rows, FALSE) <=> Closed(rows[i])
  BY DEF SavedRows, Closed, Tables, Row
<1>2. last[i] = LastFiled(local[i])
  BY DEF LastFiled
<1> HIDE DEF last
<1>3. merged[i] = InLibrary(last[i], rows[i])
  BY <1>1 DEF MergeById, InLibrary, Merged
<1>4. MergeSavedLibrary(local, rows)[i] = IF merged[i] = NoEntry THEN <<>> ELSE <<merged[i]>>
  BY DEF MergeSavedLibrary, MergeLibrary, last
<1> QED
  BY <1>2, <1>3, <1>4

LEMMA LastFiledHeld ==
  ASSUME TypeInv, NEW d \in Devices, NEW i \in Ids, library[d][i] # <<>>
  PROVE  /\ LastFiled(library[d][i]) \in Held(d, i)
         /\ \E j \in DOMAIN library[d][i] : LastFiled(library[d][i]) = library[d][i][j]
<1>1. library[d][i] \in Seq(Entry)
  BY DEF TypeInv, TypeOK, StoresOK
<1>2. Len(library[d][i]) \in DOMAIN library[d][i]
  BY <1>1, EmptySeq, LenProperties
<1> QED
  BY <1>2 DEF LastFiled, Held

\* What device d may hold, and must hold, of id after the merge of a row.
AfterMerge(d, i, row, held) ==
  /\ held \subseteq Held(d, i) \cup {EntryOf(row)}
  /\ row = NoRow => held \subseteq Held(d, i) /\ (Held(d, i) # {} => held # {})
  /\ row # NoRow /\ row.deleted => held = {}
  /\ row # NoRow /\ ~row.deleted => held # {} /\ \A e \in held : e.version >= row.version

LEMMA AppliedHeld ==
  ASSUME TypeInv, NEW d \in Devices, NEW i \in Ids, NEW row \in Row \cup {NoRow}, NEW tab, NEW filed,
         tab = InTabs(tabs[d][i], row),
         filed = InLibrary(LastFiled(library[d][i]), row)
  PROVE  AfterMerge(d, i, row, {tab, filed} \ {NoEntry})
<1> DEFINE t == tabs[d][i]
           l == LastFiled(library[d][i])
<1>1. t = NoEntry \/ (t \in Entry /\ t \in Held(d, i))
  BY TabEntry DEF Has, Held
<1>2. l = NoEntry \/ (l \in Entry /\ l \in Held(d, i))
  BY LastFiledHeld, HeldEntries DEF LastFiled
<1>3. Held(d, i) # {} => t # NoEntry \/ l # NoEntry
  <2>1. CASE library[d][i] = <<>>
    <3>1. DOMAIN library[d][i] = {}
      BY <2>1
    <3> QED
      BY <3>1 DEF Held
  <2>2. CASE library[d][i] # <<>>
    BY <2>2, LastFiledHeld, HeldEntries, NoEntryIsNoEntry
  <2> QED
    BY <2>1, <2>2
<1>4. row # NoRow => /\ row.version \in Nat /\ EntryOf(row) \in Entry
                     /\ EntryOf(row).version = row.version /\ EntryOf(row) # NoEntry
  BY EntryOfType, NoEntryIsNoEntry DEF Row, EntryOf
<1> HIDE DEF t, l
<1>5. CASE row = NoRow
  BY <1>1, <1>2, <1>3, <1>5 DEF AfterMerge, InTabs, InLibrary, Merged, t, l
<1>6. CASE row # NoRow /\ row.deleted
  BY <1>6 DEF AfterMerge, InTabs, InLibrary, Merged
<1>7. CASE row # NoRow /\ ~row.deleted
  <2>1. tab = t \/ tab = NoEntry \/ tab = EntryOf(row)
    BY <1>7 DEF InTabs, InLibrary, Merged, t
  <2>2. filed = l \/ filed = NoEntry \/ filed = EntryOf(row)
    BY <1>7 DEF InTabs, InLibrary, Merged, l
  <2>3. tab # NoEntry => tab.version >= row.version
    <3>1. t \in Entry => t.version \in Nat
      BY DEF Entry
    <3> QED
      BY <1>1, <1>4, <1>7, <3>1 DEF InTabs, InLibrary, Merged, t
  <2>4. filed # NoEntry => filed.version >= row.version
    <3>1. l \in Entry => l.version \in Nat
      BY DEF Entry
    <3> QED
      BY <1>2, <1>4, <1>7, <3>1 DEF InTabs, InLibrary, Merged, l
  <2>5. tab # NoEntry \/ filed # NoEntry
    BY <1>4, <1>7 DEF InTabs, InLibrary, Merged, t, l
  <2>6. tab = NoEntry \/ tab \in Held(d, i) \cup {EntryOf(row)}
    BY <1>1, <2>1
  <2>7. filed = NoEntry \/ filed \in Held(d, i) \cup {EntryOf(row)}
    BY <1>2, <2>2
  <2> QED
    BY <1>7, <2>3, <2>4, <2>5, <2>6, <2>7 DEF AfterMerge
<1> QED
  BY <1>5, <1>6, <1>7

\* The cases of what may be held afterwards, and of what must be.
LEMMA AppliedKeeps ==
  ASSUME TypeInv, SettledInv, NEW q \in pulls, q.stage = "answered", NEW i \in Ids,
         UNCHANGED <<table, late, puts, deletes, timers>>,
         syncCursor'[q.dev] = q.cursor,
         LET t == tabs[q.dev][i]  s == library[q.dev][i]  row == q.rows[i]
             tab == InTabs(t, row)
             filed == InLibrary(LastFiled(s), row)
         IN \/ /\ tabs'[q.dev][i] = tab
               /\ library'[q.dev][i] = IF filed = NoEntry THEN <<>> ELSE <<filed>>
            \/ row = NoRow /\ tabs'[q.dev][i] = t /\ library'[q.dev][i] = s
  PROVE  NotAhead(q.dev, i)' /\ NotBehind(q.dev, i)'
<1> DEFINE d == q.dev
           row == q.rows[i]
           t == tabs[d][i]
           l == LastFiled(library[d][i])
           tab == InTabs(t, row)
           filed == InLibrary(l, row)
<1>1. d \in Devices /\ row \in Row \cup {NoRow} /\ NewsOf(q, i) /\ q.since = syncCursor[d]
  BY PullsType DEF Tables, SettledInv, Fresh, OnePull
<1>2. NotAhead(d, i) /\ NotBehind(d, i)
  BY <1>1 DEF SettledInv
<1>3. Held(d, i)' = ({tabs'[d][i]} \ {NoEntry}) \cup {library'[d][i][j] : j \in DOMAIN library'[d][i]}
  BY DEF Held
<1>4. ASSUME NEW v, Reached(d, i, v) PROVE Reached(d, i, v)'
  BY <1>4 DEF Reached
<1>5. ASSUME row # NoRow, NEW v, v = EntryOf(row).version PROVE Reached(d, i, v)'
  BY <1>1, <1>5 DEF NewsOf, Reached, EntryOf, Exists
<1>6. ASSUME NEW v, NEW j \in DOMAIN library[d][i], v = library[d][i][j].version
      PROVE  Reached(d, i, v)'
  BY <1>2, <1>4, <1>6 DEF NotAhead
<1>7. CASE row = NoRow /\ tabs'[d][i] = t /\ library'[d][i] = library[d][i]
  <2>1. Held(d, i)' = Held(d, i)
    BY <1>3, <1>7 DEF Held
  <2>2. NotBehind(d, i)'
    BY <1>1, <1>2, <1>7, <2>1, NoRowIsNoRow DEF NewsOf, NotBehind, Deleting, Exists
  <2>3. \A j \in DOMAIN library'[d][i] : Reached(d, i, library[d][i][j].version)'
    BY <1>6, <1>7
  <2>4. Has(tabs, d, i)' => i \in timers'[d] \/ Reached(d, i, tabs[d][i].version)'
    <3> SUFFICES ASSUME Has(tabs, d, i), i \notin timers[d], NEW v, v = tabs[d][i].version
                 PROVE  Reached(d, i, v)'
      BY <1>7 DEF Has
    <3> QED
      BY <1>2, <1>4 DEF NotAhead
  <2> QED
    BY <2>2, <2>3, <2>4 DEF NotAhead
<1>8. CASE tabs'[d][i] = tab /\ library'[d][i] = IF filed = NoEntry THEN <<>> ELSE <<filed>>
  <2> DEFINE held == {tab, filed} \ {NoEntry}
  <2>1. AfterMerge(d, i, row, held)
    <3>1. tab = InTabs(tabs[d][i], row) /\ filed = InLibrary(LastFiled(library[d][i]), row)
      OBVIOUS
    <3>2. PICK tab1, filed1 : tab1 = tab /\ filed1 = filed
      OBVIOUS
    <3> HIDE DEF tab, filed, row, d
    <3>3. AfterMerge(d, i, row, {tab1, filed1} \ {NoEntry})
      BY <1>1, <3>1, <3>2, AppliedHeld
    <3> QED
      BY <3>2, <3>3
  <2>2. Held(d, i)' = held
    <3>1. CASE filed = NoEntry
      <4>1. DOMAIN library'[d][i] = {}
        BY <1>8, <3>1
      <4> QED
        BY <1>3, <1>8, <3>1, <4>1
    <3>2. CASE filed # NoEntry
      <4>1. library'[d][i] = <<filed>>
        BY <1>8, <3>2
      <4> HIDE DEF filed, tab
      <4>2. {library'[d][i][j] : j \in DOMAIN library'[d][i]} = {filed}
        BY <4>1
      <4> QED
        BY <1>3, <1>8, <3>2, <4>2
    <3> QED
      BY <3>1, <3>2
  <2>3. NotBehind(d, i)'
    <3> SUFFICES ASSUME Exists(table, i), table[i].updatedAt < q.cursor, i \notin late[d]
                 PROVE  /\ table[i].deleted => held = {}
                        /\ ~table[i].deleted =>
                             \/ Deleting(d, i)
                             \/ held # {} /\ \A e \in held : e.version >= table[i].version
      BY <2>2 DEF NotBehind, Deleting, Exists
    <3> HIDE DEF held
    <3>1. CASE row = table[i]
      BY <2>1, <3>1 DEF AfterMerge, Exists
    <3>2. CASE row = NoRow /\ table[i].updatedAt < syncCursor[d]
      BY <1>2, <2>1, <3>2 DEF AfterMerge, NotBehind
    <3> QED
      BY <1>1, <3>1, <3>2 DEF NewsOf
  <2>4. ASSUME Has(tabs, d, i)', i \notin timers[d], NEW v, v = tabs'[d][i].version
        PROVE  Reached(d, i, v)'
    <3>1. tab = t \/ tab = NoEntry \/ (row # NoRow /\ tab = EntryOf(row))
      BY DEF InTabs, InLibrary, Merged
    <3>2. tab # NoEntry /\ v = tab.version
      BY <1>8, <2>4 DEF Has
    <3>3. CASE tab = t
      BY <1>2, <1>4, <2>4, <3>2, <3>3 DEF NotAhead, Has
    <3>4. CASE row # NoRow /\ tab = EntryOf(row)
      BY <1>5, <3>2, <3>4
    <3> QED
      BY <3>1, <3>2, <3>3, <3>4
  <2>5. ASSUME NEW j \in DOMAIN library'[d][i], NEW v, v = library'[d][i][j].version
        PROVE  Reached(d, i, v)'
    <3>1. filed # NoEntry /\ v = filed.version
      <4>1. filed # NoEntry
        BY <1>8, <2>5
      <4>2. library'[d][i] = <<filed>>
        BY <1>8, <4>1
      <4> HIDE DEF filed
      <4> QED
        BY <2>5, <4>1, <4>2
    <3>2. filed = l \/ filed = NoEntry \/ (row # NoRow /\ filed = EntryOf(row))
      BY DEF InTabs, InLibrary, Merged
    <3>3. CASE filed = l
      <4>1. library[d][i] # <<>>
        BY <3>1, <3>3 DEF LastFiled
      <4>2. PICK k \in DOMAIN library[d][i] : l = library[d][i][k]
        BY <1>1, <4>1, LastFiledHeld
      <4> QED
        BY <1>6, <3>1, <3>3, <4>2
    <3>4. CASE row # NoRow /\ filed = EntryOf(row)
      BY <1>5, <3>1, <3>4
    <3> QED
      BY <3>1, <3>2, <3>3, <3>4
  <2> QED
    BY <2>3, <2>4, <2>5 DEF NotAhead
<1> QED
  BY <1>7, <1>8

LEMMA DeltaAppliedKeeps ==
  ASSUME TypeInv, SettledInv, NEW q \in pulls, DeltaApplied(q)
  PROVE  SettledInv'
<1> DEFINE d == q.dev
<1>1. /\ d \in Devices /\ q.rows \in Tables /\ q.cursor \in Nat /\ q.stage = "answered"
      /\ tabs \in [Devices -> EntryMap] /\ library \in [Devices -> [Ids -> Seq(Entry)]]
      /\ isSyncing \in [Devices -> BOOLEAN] /\ syncCursor \in [Devices -> Nat]
  BY PullsType DEF DeltaApplied, TypeInv, TypeOK, StoresOK, EngineOK
<1>2. /\ pulls' = pulls \ {q} /\ syncCursor' = [syncCursor EXCEPT ![d] = q.cursor]
      /\ UNCHANGED <<server, queues, session, timers, puts, deletes, runs, bounds>>
  BY DEF DeltaApplied
<1>3. isSyncing' = isSyncing
  <2>1. isSyncing[d] = FALSE
    BY <1>1 DEF SettledInv, Calm, CalmDevice
  <2>2. [isSyncing EXCEPT ![d] = FALSE] = isSyncing
    BY <1>1, <2>1
  <2>3. isSyncing' = [isSyncing EXCEPT ![d] = FALSE] \/ isSyncing' = isSyncing
    BY DEF DeltaApplied
  <2> QED
    BY <2>2, <2>3
<1>4. Calm'
  BY <1>2, <1>3 DEF SettledInv, Calm, CalmDevice, CalmCalls, queues, session, runs, bounds
<1>5. Stamped' /\ InTime'
  BY <1>1, <1>2 DEF SettledInv, Stamped, InTime, server
<1>6. OnePull'
  BY <1>1, <1>2 DEF SettledInv, OnePull
<1>7. Fresh' /\ Judged'
  BY <1>2 DEF SettledInv, Fresh, NewsOf, Judged, server
<1>8. ASSUME NEW i \in Ids PROVE NotAhead(d, i)' /\ NotBehind(d, i)'
  <2>1. \/ /\ tabs'[d][i] = MergeWorkspaces(tabs[d], q.rows)[i]
           /\ library'[d][i] = MergeSavedLibrary(library[d], q.rows)[i]
        \/ /\ q.rows[i] = NoRow
           /\ tabs'[d][i] = tabs[d][i] /\ library'[d][i] = library[d][i]
    <3>1. CASE \E id \in Ids : q.rows[id] # NoRow
      <4>1. /\ tabs' = [tabs EXCEPT ![d] = MergeWorkspaces(tabs[d], q.rows)]
            /\ library' = [library EXCEPT ![d] = MergeSavedLibrary(library[d], q.rows)]
        BY <1>1, <3>1 DEF DeltaApplied
      <4> QED
        BY <1>1, <4>1
    <3>2. CASE ~\E id \in Ids : q.rows[id] # NoRow
      BY <3>2 DEF DeltaApplied, stores
    <3> QED
      BY <3>1, <3>2
  <2>2. UNCHANGED <<table, late, puts, deletes, timers>> /\ syncCursor'[d] = q.cursor
    BY <1>1, <1>2 DEF server
  <2>3. /\ MergeWorkspaces(tabs[d], q.rows)[i] = InTabs(tabs[d][i], q.rows[i])
        /\ MergeSavedLibrary(library[d], q.rows)[i] =
             LET e == InLibrary(LastFiled(library[d][i]), q.rows[i])
             IN IF e = NoEntry THEN <<>> ELSE <<e>>
    <3>1. MergeWorkspaces(tabs[d], q.rows)[i] = InTabs(tabs[d][i], q.rows[i])
      BY <1>1, MergedTab
    <3>2. PICK filed : filed = library[d]
      OBVIOUS
    <3>3. MergeSavedLibrary(filed, q.rows)[i] =
             LET e == InLibrary(LastFiled(filed[i]), q.rows[i])
             IN IF e = NoEntry THEN <<>> ELSE <<e>>
      BY <1>1, MergedFiled
    <3> QED
      BY <3>1, <3>2, <3>3
  <2> QED
    BY <1>1, <2>1, <2>2, <2>3, AppliedKeeps
<1>9. ASSUME NEW e \in Devices, e # d, NEW i \in Ids PROVE NotAhead(e, i)' /\ NotBehind(e, i)'
  <2>1. tabs'[e] = tabs[e] /\ library'[e] = library[e] /\ syncCursor'[e] = syncCursor[e]
    BY <1>1, <1>2, <1>9 DEF DeltaApplied, stores
  <2>2. Held(e, i)' = Held(e, i)
    BY <2>1 DEF Held
  <2>3. NotAhead(e, i) /\ NotBehind(e, i)
    BY DEF SettledInv
  <2>4. NotBehind(e, i)'
    BY <1>2, <2>1, <2>2, <2>3 DEF NotBehind, Deleting, server
  <2>5. NotAhead(e, i)'
    BY <1>2, <2>1, <2>3, ReachedStays DEF NotAhead, Has, server
  <2> QED
    BY <2>4, <2>5
<1> QED
  BY <1>4, <1>5, <1>6, <1>7, <1>8, <1>9 DEF SettledInv

-----------------------------------------------------------------------------
(* The theorem *)

LEMMA InitSettled == Undisturbed /\ Init => SettledInv
<1> SUFFICES ASSUME Undisturbed, Init PROVE SettledInv
  OBVIOUS
<1>1. /\ auth = [d \in Devices |-> "authed"] /\ clock = 2
      /\ syncCursor = [d \in Devices |-> 2]
      /\ \A i \in Ids : Exists(table, i) => table[i] \in Row /\ table[i].owner = Account
                                            /\ table[i].updatedAt = 1
      /\ \A d \in Devices, i \in Ids :
           \/ Held(d, i) = {} /\ ~Exists(table, i) /\ tabs[d][i] = NoEntry /\ library[d][i] = <<>>
           \/ /\ Exists(table, i) /\ ~table[i].deleted
              /\ Held(d, i) = {EntryOf(table[i])}
  <2>1. ASSUME NEW saved \in BOOLEAN, NEW open \in BOOLEAN, SyncedWith(FirstRow(saved, open))
        PROVE  <1>1
    <3> DEFINE row == FirstRow(saved, open)
    <3>1. row \in Row /\ row.owner = Account /\ row.updatedAt = 1 /\ ~row.deleted
      BY DEF FirstRow, Row
    <3>2. row # NoRow /\ EntryOf(row) # NoEntry
      BY <3>1, NoRowIsNoRow, NoEntryIsNoEntry, EntryOfType
    <3> HIDE DEF row
    <3>3. SyncedWith(row)
      BY <2>1 DEF row
    <3>4. \A i \in Ids : table[i] = row
      BY <3>3 DEF SyncedWith
    <3>5. \A d \in Devices, i \in Ids : Held(d, i) = {EntryOf(row)}
      <4> SUFFICES ASSUME NEW d \in Devices, NEW i \in Ids PROVE Held(d, i) = {EntryOf(row)}
        OBVIOUS
      <4>1. \/ tabs[d][i] = NoEntry /\ library[d][i] = <<EntryOf(row)>>
            \/ tabs[d][i] = EntryOf(row) /\ library[d][i] = <<>>
        BY <3>3 DEF SyncedWith, Nothing, NoneFiled
      <4>2. CASE tabs[d][i] = NoEntry /\ library[d][i] = <<EntryOf(row)>>
        <5>1. {library[d][i][j] : j \in DOMAIN library[d][i]} = {EntryOf(row)}
          BY <4>2
        <5> QED
          BY <4>2, <5>1 DEF Held
      <4>3. CASE tabs[d][i] = EntryOf(row) /\ library[d][i] = <<>>
        <5>1. DOMAIN library[d][i] = {}
          BY <4>3
        <5> QED
          BY <3>2, <4>3, <5>1 DEF Held
      <4> QED
        BY <4>1, <4>2, <4>3
    <3>6. auth = [d \in Devices |-> "authed"] /\ clock = 2 /\ syncCursor = [d \in Devices |-> 2]
      BY <3>3 DEF SyncedWith
    <3> QED
      BY <3>1, <3>2, <3>4, <3>5, <3>6 DEF Exists
  <2>2. ASSUME Unsynced("authed", [d \in Devices |-> Nothing]) PROVE <1>1
    <3>1. /\ auth = [d \in Devices |-> "authed"] /\ clock = 2
          /\ syncCursor = [d \in Devices |-> 2] /\ \A i \in Ids : table[i] = NoRow
          /\ \A d \in Devices, i \in Ids : tabs[d][i] = NoEntry /\ library[d][i] = <<>>
      BY <2>2 DEF Unsynced, Nothing, NoneFiled
    <3>2. ASSUME NEW d \in Devices, NEW i \in Ids PROVE Held(d, i) = {}
      <4>1. tabs[d][i] = NoEntry /\ DOMAIN library[d][i] = {}
        BY <3>1
      <4> QED
        BY <4>1 DEF Held
    <3> QED
      BY <3>1, <3>2 DEF Exists
  <2> QED
    BY <2>1, <2>2 DEF Init, Undisturbed
<1>2. Calm
  BY <1>1 DEF Init, Calm, CalmDevice, CalmCalls, NoLogin, NoFlush, Undisturbed
<1>3. Stamped /\ InTime /\ OnePull /\ Fresh /\ Judged
  BY <1>1 DEF Init, Stamped, InTime, OnePull, Fresh, Judged
<1>4. ASSUME NEW d \in Devices, NEW i \in Ids PROVE NotAhead(d, i) /\ NotBehind(d, i)
  <2>1. CASE Held(d, i) = {} /\ ~Exists(table, i) /\ tabs[d][i] = NoEntry /\ library[d][i] = <<>>
    <3>1. DOMAIN library[d][i] = {}
      BY <2>1
    <3> QED
      BY <2>1, <3>1 DEF NotAhead, NotBehind, Has
  <2>2. CASE Exists(table, i) /\ ~table[i].deleted /\ Held(d, i) = {EntryOf(table[i])}
    <3>1. table[i] \in Row
      BY <1>1, <2>2
    <3>2. EntryOf(table[i]).version = table[i].version /\ table[i].version \in Nat
      BY <3>1 DEF EntryOf, Row
    <3>3. \A e \in Held(d, i) : Reached(d, i, e.version) /\ e.version >= table[i].version
      BY <2>2, <3>2 DEF Reached
    <3>4. /\ Has(tabs, d, i) => tabs[d][i] \in Held(d, i)
          /\ \A j \in DOMAIN library[d][i] : library[d][i][j] \in Held(d, i)
      BY DEF Held, Has
    <3> QED
      BY <2>2, <3>3, <3>4 DEF NotAhead, NotBehind
  <2> QED
    BY <1>1, <2>1, <2>2
<1> QED
  BY <1>2, <1>3, <1>4 DEF SettledInv

LEMMA NextSettled ==
  ASSUME Undisturbed, TypeInv, BornInv, SettledInv, [Next]_vars
  PROVE  SettledInv'
<1>1. /\ \A d \in Devices : CalmDevice(d) /\ faults = 0 /\ MaxFaults = 0
      /\ CalmCalls
  BY DEF SettledInv, Calm, Undisturbed
<1>2. ASSUME NEW d \in Devices, Continues(d) PROVE FALSE
  BY <1>1, <1>2
  DEF Continues, CalmDevice, LoginPush, FlushDelete, FlushPush, FlushTakeQueue, FlushEnds, LoginCommits
<1>3. ASSUME NEW d \in Devices, Event(d) PROVE SettledInv'
  <2>1. CASE TimerEvent(d)
    BY <2>1, TimerKeeps DEF TimerEvent
  <2>2. CASE LoginStarts(d) \/ GoOffline(d) \/ GoOnline(d)
    BY <1>1, <2>2 DEF LoginStarts, GoOffline, GoOnline, CalmDevice
  <2>3. CASE ReplyEvent(d)
    <3>1. ASSUME NEW p \in puts, LoginPushed(p) PROVE FALSE
      BY <1>1, <3>1 DEF LoginPushed, CalmCalls
    <3>2. ASSUME NEW q \in pulls, LoginPulled(q) PROVE FALSE
      BY <1>1, <3>2 DEF LoginPulled, CalmCalls
    <3> QED
      BY <2>3, <3>1, <3>2, CallDoneKeeps, PutConflictKeeps, DeltaAppliedKeeps DEF ReplyEvent
  <2>4. CASE FailureEvent(d)
    <3>1. ASSUME NEW e \in Devices, Fails(e) PROVE FALSE
      BY <1>1, <3>1 DEF Fails, CalmDevice
    <3>2. HasSession(d)
      BY <1>1 DEF HasSession, CalmDevice
    <3> QED
      BY <1>1, <2>4, <3>1, <3>2
      DEF FailureEvent, PutFails, DeleteFails, DeltaFails, LoginFails, CalmCalls
  <2> QED
    BY <1>3, <2>1, <2>2, <2>3, <2>4, UserKeeps, DeltaRefreshKeeps DEF Event
<1>4. CASE \E p \in puts \cup deletes : Orphaned(p)
  BY <1>1, <1>4 DEF Orphaned, CalmCalls
<1>5. CASE ServerStep
  BY <1>5, ServedStep, ServePutKeeps, ServeDeleteKeeps, ServePullKeeps
<1>6. CASE UNCHANGED vars
  <2>1. UNCHANGED <<server, stores, queues, session, engine, network, runs, bounds>>
    BY <1>6 DEF vars
  <2>2. UNCHANGED <<table, clock, late, tabs, library, timers, syncCursor, isSyncing, puts,
                    deletes, pulls, online, auth, offlineQueue, offlineDeletes, login, flush, faults>>
    BY <2>1 DEF server, stores, queues, session, engine, network, runs, bounds
  <2>3. Calm' /\ Stamped' /\ InTime' /\ OnePull' /\ Fresh' /\ Judged'
    BY <2>2 DEF SettledInv, Calm, CalmDevice, CalmCalls, Stamped, InTime, OnePull, Fresh, NewsOf,
                Judged, Exists
  <2>4. \A d \in Devices, i \in Ids : NotAhead(d, i)' /\ NotBehind(d, i)'
    BY <2>1, <2>2, CallsStay, QuietPairs, ServerTypes
  <2> QED
    BY <2>3, <2>4 DEF SettledInv
<1> QED
  BY <1>2, <1>3, <1>4, <1>5, <1>6 DEF Next

\* Whatever the devices' users edit, save, close, open, rename and delete: a
\* device with nothing left to do never holds more than the server, and once its
\* cursor is past the latest write it holds exactly what lives there, at the
\* server's version, unless that write was stamped before a cursor of the device
\* and written after the query that went with it.
THEOREM SettledDevicesAgree == Undisturbed => (Spec => []SettledAtServerVersion)
<1> SUFFICES ASSUME Undisturbed PROVE Spec => []SettledAtServerVersion
  OBVIOUS
<1>1. Init => TypeInv /\ BornInv /\ SettledInv
  BY InitTypeInv, InitBorn, InitSettled
<1>2. TypeInv /\ BornInv /\ SettledInv /\ [Next]_vars => (TypeInv /\ BornInv /\ SettledInv)'
  BY NextTypeInv, NextBorn, NextSettled
<1>3. TypeInv /\ SettledInv => SettledAtServerVersion
  BY SettledWhenDone
<1> QED
  BY <1>1, <1>2, <1>3, PTL DEF Spec

-----------------------------------------------------------------------------
(* One device alone: settled, it agrees with the server in every field.        *)

\* A device that has edited and closed synced workspaces since its page was loaded.
Alone ==
  /\ \A c, d \in Devices : c = d
  /\ MaxPolls = 0 /\ UserOps \subseteq {"edit", "close"} /\ Starts \subseteq {"synced"}

\* Not among the saved workspaces of a library.
Ordinary(e) == ~e.saved /\ e.open

PlainSession == born = Ids /\ \A d \in Devices : auth[d] = "authed" /\ ~isSyncing[d]
PlainStores ==
  \A d \in Devices, id \in Ids :
    library[d][id] = <<>> /\ (Has(tabs, d, id) => Ordinary(tabs[d][id]))
PlainQueues ==
  \A d \in Devices, id \in Ids :
    /\ Has(offlineQueue, d, id) => Ordinary(offlineQueue[d][id])
    /\ \A f \in Flushes : flush[d][f].queued[id] # NoEntry => Ordinary(flush[d][f].queued[id])
PlainCalls ==
  \A p \in puts : p.by # "login" /\ Ordinary(p.ws) /\ (p.row # NoRow => Ordinary(p.row))
PlainTable ==
  \A id \in Ids : table[id] # NoRow /\ table[id].owner = Account /\ Ordinary(table[id])

\* All workspaces exist, are the account's, and no one is in a library.
Plain == PlainSession /\ PlainStores /\ PlainQueues /\ PlainCalls /\ PlainTable

\* A timer, the queue or a flush has yet to save the tab.
Awaiting(d, id) ==
  \/ id \in timers[d] \/ Has(offlineQueue, d, id)
  \/ \E f \in Flushes : flush[d][f].stage = "pushes" /\ id \in flush[d][f].ids

\* A PUT of what the tab holds is on its way.
Sending(d, id) ==
  \E p \in puts : /\ p.dev = d /\ p.id = id /\ Due(p) /\ p.by # "nobody"
                  /\ p.ws = tabs[d][id]

\* The DELETE of a closed workspace is queued or on its way.
DeletionDue(d, id) ==
  \/ id \in offlineDeletes[d]
  \/ \E f \in Flushes : flush[d][f].stage = "deletes" /\ id \in flush[d][f].ids
  \/ \E c \in deletes : c.dev = d /\ c.id = id /\ c.code = 0 /\ c.by # "nobody"

NoDeletion(d, id) ==
  /\ id \notin offlineDeletes[d]
  /\ \A f \in Flushes : flush[d][f].stage = "deletes" => id \notin flush[d][f].ids
  /\ \A c \in deletes : c.id # id

\* No save and no answer of id tells the server's version otherwise than the row.
SameStory(id) ==
  \A p \in puts : p.id = id =>
    /\ p.ws.version = table[id].version => p.ws = EntryOf(table[id])
    /\ p.row # NoRow => /\ p.row.version <= table[id].version
                        /\ p.row.version = table[id].version =>
                             EntryOf(p.row) = EntryOf(table[id])

\* An open workspace lives, is not behind the server, and what the server does not
\* have of it is going to be sent; a closed one is deleted or going to be.
OpenKept(d, id) ==
  /\ ~table[id].deleted /\ table[id].version <= tabs[d][id].version
  /\ NoDeletion(d, id) /\ SameStory(id)
  /\ tabs[d][id] = EntryOf(table[id]) \/ Awaiting(d, id) \/ Sending(d, id)

Kept(d, id) ==
  IF Has(tabs, d, id) THEN OpenKept(d, id) ELSE table[id].deleted \/ DeletionDue(d, id)

AloneInv ==
  /\ TypeInv /\ BornInv /\ NoArrivals /\ SavesInv /\ Plain
  /\ \A d \in Devices, id \in Ids : Kept(d, id)

LEMMA AloneReopensNothing == Alone => NothingReopens
  BY DEF Alone, NothingReopens

LEMMA AloneInStep ==
  ASSUME AloneInv PROVE SettledInStep
<1> SUFFICES ASSUME NEW d \in Devices, NEW id \in Ids, Settled(d, id) PROVE InStep(d, id)
  BY DEF SettledInStep
<1>1. Kept(d, id) /\ Plain
  BY DEF AloneInv
<1>2. ~Awaiting(d, id)
  BY DEF Settled, Tracked, Awaiting
<1>3. ~Sending(d, id)
  BY DEF Settled, Tracked, Sending
<1>4. ~DeletionDue(d, id)
  BY DEF Settled, Tracked, DeletionDue
<1>5. library[d][id] = <<>> /\ table[id] # NoRow /\ Ordinary(table[id])
  BY <1>1 DEF Plain, PlainStores, PlainTable
<1>6. CASE Has(tabs, d, id)
  <2>1. Live(id) /\ tabs[d][id] = EntryOf(table[id])
    BY <1>1, <1>2, <1>3, <1>5, <1>6 DEF Kept, OpenKept, Live
  <2> QED
    BY <1>5, <2>1 DEF InStep, Ordinary
<1>7. CASE ~Has(tabs, d, id)
  <2>1. ~Live(id)
    BY <1>1, <1>4, <1>7 DEF Kept, Live
  <2> QED
    BY <1>5, <1>7, <2>1 DEF InStep, Has
<1> QED
  BY <1>6, <1>7

LEMMA InitAlone == Alone /\ Init => AloneInv
<1> SUFFICES ASSUME Alone, Init PROVE AloneInv
  OBVIOUS
<1>1. TypeInv /\ BornInv /\ NoArrivals
  BY InitTypeInv, InitBorn, InitNoArrivals, AloneReopensNothing
<1>2. SavesInv
  BY DEF Init, SavesInv, NoneNewer, OneContentPerVersion
<1>3. SyncedWith(FirstRow(FALSE, TRUE))
  BY DEF Alone, Init
<1>4. PICK row : row = FirstRow(FALSE, TRUE)
  OBVIOUS
<1>5. /\ row.owner = Account /\ row.version = 1 /\ ~row.deleted /\ ~row.saved /\ row.open
  BY <1>4 DEF FirstRow
<1>6. row # NoRow
  <2>1. row \in Row
    BY <1>4 DEF FirstRow, Row
  <2> QED
    BY <2>1, NoRowIsNoRow
<1>7. /\ table = [id \in Ids |-> row] /\ auth = [d \in Devices |-> "authed"] /\ born = Ids
      /\ tabs = [d \in Devices |-> [id \in Ids |-> EntryOf(row)]]
      /\ library = [d \in Devices |-> NoneFiled]
  BY <1>3, <1>4, <1>5 DEF SyncedWith
<1>8. EntryOf(row).version = 1 /\ Ordinary(EntryOf(row)) /\ EntryOf(row) \in Entry
  <2>1. row \in Row
    BY <1>4 DEF FirstRow, Row
  <2> QED
    BY <1>5, <2>1, EntryOfType DEF EntryOf, Ordinary
<1>9. /\ offlineQueue = [d \in Devices |-> Nothing] /\ offlineDeletes = [d \in Devices |-> {}]
      /\ isSyncing = [d \in Devices |-> FALSE] /\ puts = {} /\ deletes = {}
      /\ flush = [d \in Devices |-> [f \in Flushes |-> NoFlush]]
  BY DEF Init
<1>10. Plain
  <2>1. PlainSession /\ PlainCalls
    BY <1>7, <1>9 DEF PlainSession, PlainCalls
  <2>2. PlainStores
    BY <1>7, <1>8 DEF PlainStores, NoneFiled
  <2>3. PlainQueues
    BY <1>9 DEF PlainQueues, Has, Nothing, NoFlush
  <2>4. PlainTable
    BY <1>5, <1>6, <1>7 DEF PlainTable, Ordinary
  <2> QED
    BY <2>1, <2>2, <2>3, <2>4 DEF Plain
<1>11. ASSUME NEW d \in Devices, NEW id \in Ids PROVE Kept(d, id)
  <2>1. /\ tabs[d][id] = EntryOf(table[id]) /\ tabs[d][id].version = 1
        /\ table[id].version = 1 /\ ~table[id].deleted
    BY <1>5, <1>7, <1>8
  <2>2. NoDeletion(d, id) /\ SameStory(id)
    BY <1>9 DEF NoDeletion, SameStory, NoFlush
  <2>3. Has(tabs, d, id)
    BY <1>7, <1>8, NoEntryIsNoEntry DEF Has
  <2> QED
    BY <2>1, <2>2, <2>3 DEF Kept, OpenKept
<1> QED
  BY <1>1, <1>2, <1>10, <1>11 DEF AloneInv

\* What can happen to such a device.
AloneStep ==
  \/ \E d \in Devices, id \in Ids : Edit(d, id) \/ CloseUnsaved(d, id) \/ TimerFires(d, id)
  \/ \E d \in Devices, f \in Flushes, id \in Ids : FlushDelete(d, f, id) \/ FlushPush(d, f, id)
  \/ \E d \in Devices, f \in Flushes : FlushTakeQueue(d, f) \/ FlushEnds(d, f)
  \/ \E d \in Devices : GoOffline(d) \/ GoOnline(d)
  \/ \E p \in puts : PutDone(p) \/ PutConflict(p) \/ PutFails(p) \/ ServesPut(p)
  \/ \E c \in deletes : DeleteDone(c) \/ DeleteFails(c) \/ ServesDelete(c)
  \/ \E p \in puts \cup deletes : Orphaned(p)
  \/ UNCHANGED vars

LEMMA AloneSteps ==
  ASSUME Alone, AloneInv, [Next]_vars PROVE AloneStep
<1>1. NoArrivals /\ Plain /\ BornInv /\ TypeInv
  BY DEF AloneInv
<1>2. ASSUME NEW d \in Devices, Continues(d) PROVE AloneStep
  <2>1. ~LoginCommits(d) /\ \A id \in Ids : ~LoginPush(d, id)
    BY <1>1 DEF NoArrivals, NobodyLogsIn, LoginCommits, LoginPush
  <2> QED
    BY <1>2, <2>1 DEF Continues, AloneStep
<1>3. ASSUME NEW d \in Devices, Event(d) PROVE AloneStep
  <2>1. CASE UserActs(d)
    <3>1. /\ ~Reload(d) /\ ~SignIn(d) /\ ~LogOut(d)
          /\ \A id \in Ids : /\ ~ToggleSaved(d, id) /\ ~OpenSaved(d, id) /\ ~RenameClosed(d, id)
                             /\ ~DeleteOpen(d, id) /\ ~DeleteClosed(d, id)
      BY DEF Alone, Reload, SignIn, LogOut, ToggleSaved, OpenSaved, RenameClosed, DeleteOpen,
             DeleteClosed, Does
    <3>2. \A id \in Ids : ~Create(d, id) /\ ~CloseSaved(d, id)
      BY <1>1 DEF Create, CloseSaved, Plain, PlainSession, PlainStores, Ordinary
    <3> QED
      BY <2>1, <3>1, <3>2 DEF UserActs, AloneStep
  <2>2. CASE TimerEvent(d) \/ GoOffline(d) \/ GoOnline(d)
    BY <2>2 DEF TimerEvent, AloneStep
  <2>3. ~DeltaRefresh(d) /\ ~LoginStarts(d)
    BY <1>1 DEF Alone, NoArrivals, DeltaRefresh, LoginStarts
  <2>4. CASE ReplyEvent(d)
    <3>1. \A p \in puts : ~LoginPushed(p)
      BY <1>1 DEF Plain, PlainCalls, LoginPushed
    <3> QED
      BY <1>1, <2>4, <3>1 DEF ReplyEvent, NoArrivals, AloneStep
  <2>5. CASE FailureEvent(d)
    <3>1. ~LoginFails(d)
      BY <1>1 DEF Plain, PlainCalls, NoArrivals, LoginFails
    <3> QED
      BY <1>1, <2>5, <3>1 DEF FailureEvent, NoArrivals, AloneStep
  <2> QED
    BY <1>3, <2>1, <2>2, <2>3, <2>4, <2>5 DEF Event
<1>4. CASE ServerStep
  BY <1>1, <1>4, ServedStep DEF NoArrivals, AloneStep
<1>5. (\E p \in puts \cup deletes : Orphaned(p)) \/ UNCHANGED vars => AloneStep
  BY DEF AloneStep
<1> QED
  BY <1>2, <1>3, <1>4, <1>5 DEF Next


-----------------------------------------------------------------------------
(* No workspace becomes a saved one, no call is the login's. *)

LEMMA OrdinaryTab ==
  ASSUME AloneInv, NEW d \in Devices, NEW id \in Ids, NEW e \in Entry \cup {NoEntry},
         tabs' = [tabs EXCEPT ![d][id] = e], e # NoEntry => Ordinary(e), library' = library
  PROVE  PlainStores'
<1> SUFFICES ASSUME NEW c \in Devices, NEW i \in Ids
             PROVE  library'[c][i] = <<>> /\ (Has(tabs, c, i)' => Ordinary(tabs'[c][i]))
  BY DEF PlainStores
<1>1. PlainStores /\ tabs \in [Devices -> EntryMap]
  BY DEF AloneInv, Plain, TypeInv, TypeOK, StoresOK
<1>2. CASE c = d /\ i = id
  BY <1>1, <1>2 DEF PlainStores, Has, EntryMap
<1>3. CASE ~(c = d /\ i = id)
  BY <1>1, <1>3 DEF PlainStores, Has, EntryMap
<1> QED
  BY <1>2, <1>3

LEMMA OrdinaryQueue ==
  ASSUME AloneInv, NEW d \in Devices, NEW id \in Ids, NEW e, Queue(d, id, e), Ordinary(e),
         flush' = flush
  PROVE  PlainQueues'
<1>1. PlainQueues /\ offlineQueue \in [Devices -> EntryMap]
  BY DEF AloneInv, Plain, TypeInv, TypeOK, QueuesOK
<1>2. ASSUME NEW c \in Devices, NEW i \in Ids, Has(offlineQueue, c, i)'
      PROVE  Ordinary(offlineQueue'[c][i])
  <2>1. CASE c = d /\ i = id
    BY <1>1, <2>1 DEF Queue, EntryMap
  <2>2. CASE ~(c = d /\ i = id)
    BY <1>1, <1>2, <2>2 DEF PlainQueues, Queue, Has, EntryMap
  <2> QED
    BY <2>1, <2>2
<1> QED
  BY <1>1, <1>2 DEF PlainQueues

\* What is pushed or queued is as ordinary as the entry.
LEMMA OrdinaryPush ==
  ASSUME AloneInv, NEW d \in Devices, NEW id \in Ids, NEW ws, NEW by, by # "login",
         PushEntry(d, id, ws, by), Ordinary(ws)
  PROVE  /\ PlainCalls'
         /\ \A c \in Devices, i \in Ids : Has(offlineQueue, c, i)' => Ordinary(offlineQueue'[c][i])
<1>1. PlainQueues /\ PlainCalls /\ offlineQueue \in [Devices -> EntryMap]
  BY DEF AloneInv, Plain, TypeInv, TypeOK, QueuesOK
<1>2. CASE online[d]
  <2>1. offlineQueue' = offlineQueue /\ puts' = puts \cup {PutCall(d, id, ws, by)}
    BY <1>2 DEF PushEntry
  <2>2. PlainCalls'
    BY <1>1, <2>1 DEF PlainCalls, PutCall
  <2> QED
    BY <1>1, <2>1, <2>2 DEF PlainQueues, Has
<1>3. CASE ~online[d]
  <2>1. puts' = puts /\ Queue(d, id, ws)
    BY <1>3 DEF PushEntry
  <2>2. PlainCalls'
    BY <1>1, <2>1 DEF PlainCalls
  <2>3. ASSUME NEW c \in Devices, NEW i \in Ids, Has(offlineQueue, c, i)'
        PROVE  Ordinary(offlineQueue'[c][i])
    <3>1. CASE c = d /\ i = id
      BY <1>1, <2>1, <3>1 DEF Queue, EntryMap
    <3>2. CASE ~(c = d /\ i = id)
      BY <1>1, <2>1, <2>3, <3>2 DEF PlainQueues, Queue, Has, EntryMap
    <3> QED
      BY <3>1, <3>2
  <2> QED
    BY <2>2, <2>3
<1> QED
  BY <1>2, <1>3

LEMMA OrdinarySave ==
  ASSUME AloneInv, NEW d \in Devices, NEW id \in Ids, NEW by, by # "login",
         Has(tabs, d, id), AutoSave(d, id, by), library' = library
  PROVE  /\ PlainStores' /\ PlainCalls' /\ \A c \in Devices : ~isSyncing'[c]
         /\ \A c \in Devices, i \in Ids : Has(offlineQueue, c, i)' => Ordinary(offlineQueue'[c][i])
<1>1. Plain /\ isSyncing \in [Devices -> BOOLEAN] /\ offlineQueue \in [Devices -> EntryMap]
  BY DEF AloneInv, TypeInv, TypeOK, EngineOK, QueuesOK
<1>2. tabs[d][id] \in Entry /\ Ordinary(tabs[d][id])
  BY TabEntry DEF AloneInv, Plain, PlainStores
<1>3. CASE online[d]
  <2>1. PICK bumped : bumped = Bump(tabs[d][id])
    OBVIOUS
  <2>2. bumped \in Entry /\ Ordinary(bumped)
    BY <1>2, <2>1, BumpType DEF Bump, Ordinary, Entry
  <2>3. /\ tabs' = [tabs EXCEPT ![d][id] = bumped] /\ PushEntry(d, id, bumped, by)
        /\ isSyncing' = [isSyncing EXCEPT ![d] = FALSE]
    BY <1>3, <2>1 DEF AutoSave
  <2>4. PlainStores'
    BY <2>2, <2>3, OrdinaryTab
  <2>5. \A c \in Devices : ~isSyncing'[c]
    BY <1>1, <2>3 DEF Plain, PlainSession
  <2> QED
    BY <2>2, <2>3, <2>4, <2>5, OrdinaryPush
<1>4. CASE ~online[d]
  <2>1. Queue(d, id, tabs[d][id]) /\ UNCHANGED <<tabs, isSyncing, puts>>
    BY <1>4 DEF AutoSave
  <2>2. PlainStores' /\ PlainCalls' /\ \A c \in Devices : ~isSyncing'[c]
    BY <1>1, <2>1 DEF Plain, PlainStores, PlainCalls, PlainSession, Has
  <2>3. ASSUME NEW c \in Devices, NEW i \in Ids, Has(offlineQueue, c, i)'
        PROVE  Ordinary(offlineQueue'[c][i])
    <3>1. CASE c = d /\ i = id
      BY <1>1, <1>2, <2>1, <3>1 DEF Queue, EntryMap
    <3>2. CASE ~(c = d /\ i = id)
      BY <1>1, <2>1, <2>3, <3>2 DEF Plain, PlainQueues, Queue, Has, EntryMap
    <3> QED
      BY <3>1, <3>2
  <2> QED
    BY <2>2, <2>3
<1> QED
  BY <1>3, <1>4

\* Steps that change what is plain at most by calls that go.
LEMMA SamePlain ==
  ASSUME AloneInv, puts' \subseteq puts,
         UNCHANGED <<table, tabs, library, offlineQueue, auth, isSyncing, flush, born>>
  PROVE  Plain'
  BY DEF AloneInv, Plain, PlainSession, PlainStores, PlainQueues, PlainCalls, PlainTable, Has

LEMMA UserPlain ==
  ASSUME AloneInv, NEW d \in Devices, NEW id \in Ids,
         Edit(d, id) \/ CloseUnsaved(d, id) \/ TimerFires(d, id)
  PROVE  Plain'
<1>1. Plain /\ TypeInv
  BY DEF AloneInv
<1>2. CASE Edit(d, id)
  <2>1. tabs[d][id] \in Entry /\ Ordinary(tabs[d][id]) /\ ops' \in Contents
    BY <1>1, <1>2, TabEntry, DoesType DEF Edit, Plain, PlainStores
  <2>2. PICK e : e = [tabs[d][id] EXCEPT !.content = ops']
    OBVIOUS
  <2>3. e \in Entry /\ Ordinary(e)
    BY <2>1, <2>2 DEF Entry, Ordinary
  <2>4. ChangeTab(d, id, e) /\ born' = born
    BY <1>2, <2>2 DEF Edit
  <2>5. PlainStores'
    BY <2>3, <2>4, OrdinaryTab DEF ChangeTab
  <2> QED
    BY <1>1, <2>4, <2>5
    DEF ChangeTab, Plain, PlainSession, PlainQueues, PlainCalls, PlainTable, Has, server, queues,
        session, network, runs
<1>3. CASE CloseUnsaved(d, id)
  <2>1. RemoveTab(d, id) /\ tabs' = [tabs EXCEPT ![d][id] = NoEntry] /\ library' = library
    BY <1>3 DEF CloseUnsaved, RemoveTab
  <2>2. PlainStores'
    BY <2>1, OrdinaryTab
  <2>3. PlainQueues'
    <3>1. offlineQueue' = offlineQueue \/ offlineQueue' = [offlineQueue EXCEPT ![d][id] = NoEntry]
      BY <2>1 DEF RemoveTab, queues
    <3>2. flush' = flush /\ offlineQueue \in [Devices -> EntryMap]
      BY <1>1, <2>1 DEF RemoveTab, runs, TypeInv, TypeOK, QueuesOK
    <3>3. ASSUME NEW c \in Devices, NEW i \in Ids, Has(offlineQueue, c, i)'
          PROVE  Ordinary(offlineQueue'[c][i])
      <4>1. offlineQueue'[c][i] = offlineQueue[c][i]
        BY <3>1, <3>2, <3>3 DEF Has, EntryMap
      <4> QED
        BY <1>1, <3>3, <4>1 DEF Plain, PlainQueues, Has
    <3> QED
      BY <1>1, <3>2, <3>3 DEF Plain, PlainQueues
  <2> QED
    BY <1>1, <2>1, <2>2, <2>3
    DEF RemoveTab, Plain, PlainSession, PlainCalls, PlainTable, server, session, engine
<1>4. CASE TimerFires(d, id)
  <2>1. CASE Has(tabs, d, id)
    <3>1. /\ AutoSave(d, id, "own")
          /\ UNCHANGED <<table, library, auth, flush, born>>
      BY <1>4, <2>1 DEF TimerFires, server, session, runs, bounds
    <3>2. /\ PlainStores' /\ PlainCalls' /\ \A c \in Devices : ~isSyncing'[c]
          /\ \A c \in Devices, i \in Ids : Has(offlineQueue, c, i)' => Ordinary(offlineQueue'[c][i])
      BY <2>1, <3>1, OrdinarySave
    <3> QED
      BY <1>1, <3>1, <3>2 DEF Plain, PlainSession, PlainQueues, PlainTable
  <2>2. CASE ~Has(tabs, d, id)
    <3>1. puts' \subseteq puts
          /\ UNCHANGED <<table, tabs, library, offlineQueue, auth, isSyncing, flush, born>>
      BY <1>4, <2>2 DEF TimerFires, server, session, runs, bounds
    <3> QED
      BY <3>1, SamePlain
  <2> QED
    BY <2>1, <2>2
<1> QED
  BY <1>2, <1>3, <1>4

LEMMA FlushPlain ==
  ASSUME AloneInv, NEW d \in Devices, NEW f \in Flushes,
         \/ \E id \in Ids : FlushDelete(d, f, id) \/ FlushPush(d, f, id)
         \/ FlushTakeQueue(d, f) \/ FlushEnds(d, f) \/ GoOnline(d)
  PROVE  Plain'
<1>1. /\ Plain /\ TypeInv
      /\ flush \in [Devices -> [Flushes -> FlushRecord]]
      /\ isSyncing \in [Devices -> BOOLEAN] /\ offlineQueue \in [Devices -> EntryMap]
  BY DEF AloneInv, TypeInv, TypeOK, RunsOK, EngineOK, QueuesOK
<1>2. ASSUME NEW g \in Flushes, NEW r, flush' = [flush EXCEPT ![d][g] = r],
             \A i \in Ids : r.queued[i] # NoEntry => Ordinary(r.queued[i]),
             \A c \in Devices, i \in Ids : Has(offlineQueue, c, i)' => Ordinary(offlineQueue'[c][i])
      PROVE  PlainQueues'
  <2> SUFFICES ASSUME NEW c \in Devices, NEW i \in Ids, NEW h \in Flushes,
                      flush'[c][h].queued[i] # NoEntry
               PROVE  Ordinary(flush'[c][h].queued[i])
    BY <1>2 DEF PlainQueues
  <2>1. CASE c = d /\ h = g
    BY <1>1, <1>2, <2>1
  <2>2. CASE ~(c = d /\ h = g)
    <3>1. flush'[c][h] = flush[c][h]
      BY <1>1, <1>2, <2>2
    <3> QED
      BY <1>1, <3>1 DEF Plain, PlainQueues
  <2> QED
    BY <2>1, <2>2
<1>3. ASSUME UNCHANGED offlineQueue
      PROVE  \A c \in Devices, i \in Ids : Has(offlineQueue, c, i)' => Ordinary(offlineQueue'[c][i])
  BY <1>1, <1>3 DEF Plain, PlainQueues, Has
<1>4. \A i \in Ids : Nothing[i] = NoEntry
  BY DEF Nothing
<1>5. \A i \in Ids : flush[d][f].queued[i] # NoEntry => Ordinary(flush[d][f].queued[i])
  BY <1>1 DEF Plain, PlainQueues
<1>6. ASSUME NEW id \in Ids, FlushDelete(d, f, id) PROVE Plain'
  <2>1. PICK r : r = [flush[d][f] EXCEPT !.ids = @ \ {id}]
    OBVIOUS
  <2>2. r.queued = flush[d][f].queued /\ flush' = [flush EXCEPT ![d][f] = r]
    BY <1>1, <1>6, <2>1 DEF FlushDelete, FlushRecord
  <2>3. PlainQueues'
    BY <1>2, <1>3, <1>5, <1>6, <2>2 DEF FlushDelete
  <2> QED
    BY <1>1, <1>6, <2>3
    DEF FlushDelete, Plain, PlainSession, PlainStores, PlainCalls, PlainTable, Has, server, stores,
        session, engine, bounds
<1>7. ASSUME NEW id \in Ids, FlushPush(d, f, id) PROVE Plain'
  <2>1. PICK r : r = [stage |-> "pushes", queued |-> [flush[d][f].queued EXCEPT ![id] = NoEntry],
                      ids |-> flush[d][f].ids \ {id}]
    OBVIOUS
  <2>2. flush' = [flush EXCEPT ![d][f] = r] /\ r.queued = [flush[d][f].queued EXCEPT ![id] = NoEntry]
    BY <1>1, <1>7, <2>1 DEF FlushPush
  <2>3. flush[d][f].queued \in EntryMap /\ flush[d][f].queued[id] \in Entry
    BY <1>1, <1>7 DEF FlushRecord, FlushPush, TypeInv, Pushable
  <2>4. \A i \in Ids : r.queued[i] # NoEntry => Ordinary(r.queued[i])
    BY <1>5, <2>2, <2>3 DEF EntryMap
  <2>5. UNCHANGED <<table, library, auth, born>>
    BY <1>7 DEF FlushPush, server, session, bounds
  <2>6. /\ PlainStores' /\ PlainCalls' /\ \A c \in Devices : ~isSyncing'[c]
        /\ \A c \in Devices, i \in Ids : Has(offlineQueue, c, i)' => Ordinary(offlineQueue'[c][i])
    <3>1. CASE Has(tabs, d, id)
      BY <1>7, <2>5, <3>1, OrdinarySave DEF FlushPush, Flushes
    <3>2. CASE ~Has(tabs, d, id)
      <4>1. PICK ws : ws = flush[d][f].queued[id]
        OBVIOUS
      <4>2. PushEntry(d, id, ws, f) /\ UNCHANGED <<tabs, isSyncing>>
        BY <1>7, <3>2, <4>1 DEF FlushPush
      <4>3. Ordinary(ws)
        BY <1>5, <2>3, <4>1, NoEntryIsNoEntry
      <4>4. PlainStores' /\ \A c \in Devices : ~isSyncing'[c]
        BY <1>1, <2>5, <4>2 DEF Plain, PlainStores, PlainSession, Has
      <4> QED
        BY <4>2, <4>3, <4>4, OrdinaryPush DEF Flushes
    <3> QED
      BY <3>1, <3>2
  <2>7. PlainQueues'
    BY <1>2, <2>2, <2>4, <2>6
  <2> QED
    BY <1>1, <2>5, <2>6, <2>7 DEF Plain, PlainSession, PlainTable
<1>8. CASE FlushTakeQueue(d, f)
  <2>1. PICK r : r = [stage |-> "pushes", queued |-> offlineQueue[d],
                      ids |-> {i \in Ids : Has(offlineQueue, d, i)}]
    OBVIOUS
  <2>2. /\ flush' = [flush EXCEPT ![d][f] = r] /\ r.queued = offlineQueue[d]
        /\ offlineQueue' = [offlineQueue EXCEPT ![d] = Nothing]
    BY <1>8, <2>1 DEF FlushTakeQueue
  <2>3. \A i \in Ids : r.queued[i] # NoEntry => Ordinary(r.queued[i])
    BY <1>1, <2>2 DEF Plain, PlainQueues, Has
  <2>4. ASSUME NEW c \in Devices, NEW i \in Ids, Has(offlineQueue, c, i)'
        PROVE  Ordinary(offlineQueue'[c][i])
    <3>1. c # d
      BY <1>1, <1>4, <2>2, <2>4 DEF Has
    <3> QED
      BY <1>1, <2>2, <2>4, <3>1 DEF Plain, PlainQueues, Has
  <2>5. PlainQueues'
    BY <1>2, <2>2, <2>3, <2>4
  <2> QED
    BY <1>1, <1>8, <2>5
    DEF FlushTakeQueue, Plain, PlainSession, PlainStores, PlainCalls, PlainTable, Has, server,
        stores, session, engine, network, bounds
<1>9. CASE FlushEnds(d, f)
  <2>1. flush' = [flush EXCEPT ![d][f] = NoFlush] /\ offlineQueue' = offlineQueue
    BY <1>9 DEF FlushEnds, queues
  <2>2. \A i \in Ids : NoFlush.queued[i] # NoEntry => Ordinary(NoFlush.queued[i])
    BY <1>4 DEF NoFlush
  <2>3. PlainQueues'
    BY <1>2, <1>3, <2>1, <2>2
  <2>4. \A c \in Devices : ~isSyncing'[c]
    BY <1>1, <1>9 DEF FlushEnds, LoginOver, Plain, PlainSession
  <2> QED
    BY <1>1, <1>9, <2>3, <2>4
    DEF FlushEnds, Plain, PlainSession, PlainStores, PlainCalls, PlainTable, Has, server,
        stores, session, network, bounds
<1>10. CASE GoOnline(d)
  <2>1. auth[d] = "authed"
    BY <1>1 DEF Plain, PlainSession
  <2>2. PICK r : r = [NoFlush EXCEPT !.stage = "deletes", !.ids = offlineDeletes[d]]
    OBVIOUS
  <2>3. /\ flush' = [flush EXCEPT ![d]["onlineFlush"] = r] /\ r.queued = Nothing
        /\ offlineQueue' = offlineQueue
    BY <1>10, <2>1, <2>2 DEF GoOnline, StartFlush, NoFlush
  <2>4. PlainQueues'
    BY <1>2, <1>3, <1>4, <2>3 DEF Flushes
  <2> QED
    BY <1>1, <1>10, <2>4
    DEF GoOnline, Plain, PlainSession, PlainStores, PlainCalls, PlainTable, Has, server,
        stores, engine, network, bounds
<1> QED
  BY <1>6, <1>7, <1>8, <1>9, <1>10

LEMMA CallPlain ==
  ASSUME AloneInv,
         \/ \E p \in puts : PutConflict(p) \/ PutFails(p) \/ ServesPut(p)
         \/ \E c \in deletes : ServesDelete(c)
  PROVE  Plain'
<1>1. Plain /\ TypeInv /\ table \in Tables
  BY DEF AloneInv, TypeInv, TypeOK, ServerOK
<1>2. ASSUME NEW p \in puts
      PROVE  /\ p.dev \in Devices /\ p.id \in Ids /\ p.ws \in Entry /\ p \in PutRecord
             /\ Ordinary(p.ws) /\ p.by # "login" /\ (p.row # NoRow => Ordinary(p.row))
  BY <1>1, PutsType DEF TypeInv, TypeOK, NetworkOK, Plain, PlainCalls
<1>3. ASSUME NEW p \in puts, PutConflict(p) PROVE Plain'
  <2>1. p.row \in Row /\ p.row # NoRow
    BY <1>1, <1>3, NoRowIsNoRow DEF PutConflict, TypeInv, Replied
  <2>2. EntryOf(p.row) \in Entry /\ Ordinary(EntryOf(p.row))
    BY <1>2, <2>1, EntryOfType DEF EntryOf, Ordinary
  <2>3. PlainStores'
    <3>1. CASE tabs' = tabs
      BY <1>1, <1>3, <3>1 DEF PutConflict, Plain, PlainStores, Has
    <3>2. CASE tabs' = [tabs EXCEPT ![p.dev][p.id] = EntryOf(p.row)]
      <4>1. PICK e : e = EntryOf(p.row)
        OBVIOUS
      <4>2. e \in Entry /\ Ordinary(e) /\ tabs' = [tabs EXCEPT ![p.dev][p.id] = e]
        BY <2>2, <3>2, <4>1
      <4>3. library' = library /\ p.dev \in Devices /\ p.id \in Ids
        BY <1>2, <1>3 DEF PutConflict
      <4> QED
        BY <4>2, <4>3, OrdinaryTab
    <3> QED
      BY <1>3, <3>1, <3>2 DEF PutConflict
  <2>4. \A c \in Devices : ~isSyncing'[c]
    BY <1>1, <1>2, <1>3 DEF PutConflict, Plain, PlainSession, TypeInv, TypeOK, EngineOK
  <2> QED
    BY <1>1, <1>3, <2>3, <2>4
    DEF PutConflict, Plain, PlainSession, PlainQueues, PlainCalls, PlainTable, Has, server, queues,
        session, runs, bounds
<1>4. ASSUME NEW p \in puts, PutFails(p) PROVE Plain'
  <2>1. PICK ws : ws = IF Has(tabs, p.dev, p.id) THEN tabs[p.dev][p.id] ELSE p.ws
    OBVIOUS
  <2>2. Queue(p.dev, p.id, ws) /\ Ordinary(ws) /\ flush' = flush
    BY <1>1, <1>2, <1>4, <2>1 DEF PutFails, runs, Plain, PlainStores
  <2>3. PlainQueues'
    BY <1>2, <2>2, OrdinaryQueue
  <2>4. PlainCalls'
    <3>1. ASSUME NEW q \in puts' PROVE q \in puts \/ q = Orphan(p)
      BY <1>4 DEF PutFails, Abandoned, Orphan
    <3>2. /\ Orphan(p).by # "login" /\ Orphan(p).ws = p.ws /\ Orphan(p).row = p.row
      BY <1>2 DEF Orphan, PutRecord, Coded
    <3> QED
      BY <1>1, <1>2, <3>1, <3>2 DEF Plain, PlainCalls
  <2> QED
    BY <1>1, <1>4, <2>3, <2>4
    DEF PutFails, Plain, PlainSession, PlainStores, PlainTable, Has, server, stores, session, engine
<1>5. ASSUME NEW p \in puts, ServesPut(p) PROVE Plain'
  <2>1. PICK q : /\ puts' \subseteq (puts \ {p}) \cup {q}
                 /\ q.ws = p.ws /\ q.by = p.by
                 /\ q.row = p.row \/ q.row = OwnRow(table, p.id, Account)
    BY <1>1, <1>5, PutNext
  <2>2. q.row # NoRow => Ordinary(q.row)
    BY <1>1, <1>2, <2>1 DEF OwnRow, Plain, PlainTable
  <2>3. PlainCalls'
    BY <1>1, <1>2, <2>1, <2>2 DEF Plain, PlainCalls
  <2>4. PlainTable'
    <3>1. CASE WritePut(p)
      <4>1. p.now \in Nat /\ table' = Upserted(table, p.id, Account, p.ws, p.now)
        BY <1>2, <3>1, PutFields DEF WritePut
      <4>2. PICK row : row = [owner |-> Account, content |-> p.ws.content, version |-> p.ws.version,
               updatedAt |-> p.now, deleted |-> Exists(table, p.id) /\ table[p.id].deleted,
               saved |-> p.ws.saved, open |-> p.ws.open]
        OBVIOUS
      <4>3. table' = table \/ table' = [table EXCEPT ![p.id] = row]
        BY <4>1, <4>2 DEF Upserted
      <4>4. row \in Row
        <5>1. (Exists(table, p.id) /\ table[p.id].deleted) \in BOOLEAN
          OBVIOUS
        <5> QED
          BY <1>2, <4>1, <4>2, <5>1 DEF Row, Entry
      <4>5. row # NoRow /\ row.owner = Account /\ Ordinary(row)
        BY <1>2, <4>2, <4>4, NoRowIsNoRow DEF Ordinary
      <4> QED
        BY <1>1, <1>2, <4>3, <4>5 DEF Plain, PlainTable, Tables
    <3>2. CASE ~WritePut(p)
      <4>1. table' = table
        BY <1>1, <1>5, <3>2, PutServed DEF ServesPut, server
      <4> QED
        BY <1>1, <4>1 DEF Plain, PlainTable
    <3> QED
      BY <3>1, <3>2
  <2> QED
    BY <1>1, <1>5, <2>3, <2>4, ServedSame
    DEF Plain, PlainSession, PlainStores, PlainQueues, Has, stores, queues, session,
        engine, runs, bounds
<1>6. ASSUME NEW c \in deletes, ServesDelete(c) PROVE Plain'
  <2>1. c.id \in Ids /\ c.now \in Nat
    BY <1>1, DeleteFields DEF TypeInv, TypeOK, NetworkOK
  <2>2. PlainTable'
    <3>1. CASE WriteDelete(c)
      <4>1. table' = SoftDeleted(table, c.id, Account, c.now)
        BY <3>1 DEF WriteDelete
      <4>2. PICK row : row = [owner |-> Account, content |-> table[c.id].content,
               version |-> table[c.id].version + 1, updatedAt |-> c.now, deleted |-> TRUE,
               saved |-> table[c.id].saved, open |-> table[c.id].open]
        OBVIOUS
      <4>3. table' = [table EXCEPT ![c.id] = row]
        BY <1>1, <2>1, <4>1, <4>2 DEF SoftDeleted, Owns, Exists, Plain, PlainTable
      <4>4. table[c.id] \in Row
        BY <1>1, <2>1 DEF Tables, Plain, PlainTable
      <4>5. row \in Row
        BY <2>1, <4>2, <4>4 DEF Row
      <4>6. row # NoRow /\ row.owner = Account /\ Ordinary(row)
        BY <1>1, <2>1, <4>2, <4>5, NoRowIsNoRow DEF Ordinary, Plain, PlainTable
      <4> QED
        BY <1>1, <2>1, <4>3, <4>6 DEF Plain, PlainTable, Tables
    <3>2. CASE ~WriteDelete(c)
      <4>1. table' = table
        BY <1>1, <1>6, <3>2, DeleteServed DEF ServesDelete, server
      <4> QED
        BY <1>1, <4>1 DEF Plain, PlainTable
    <3> QED
      BY <3>1, <3>2
  <2> QED
    BY <1>1, <1>6, <2>2, ServedSame
    DEF Plain, PlainSession, PlainStores, PlainQueues, PlainCalls, Has, stores, queues,
        session, engine, runs, bounds
<1> QED
  BY <1>3, <1>4, <1>5, <1>6

LEMMA NextPlain ==
  ASSUME AloneInv, AloneStep PROVE Plain'
<1>1. ASSUME NEW p \in puts, PutDone(p) PROVE Plain'
  BY <1>1, SamePlain DEF PutDone, server, stores, queues, session, engine, runs, bounds
<1>2. ASSUME NEW c \in deletes, DeleteDone(c) PROVE Plain'
  BY <1>2, SamePlain DEF DeleteDone, server, stores, queues, session, engine, runs, bounds
<1>3. ASSUME NEW c \in deletes, DeleteFails(c) PROVE Plain'
  BY <1>3, SamePlain DEF DeleteFails, server, stores, session, engine, runs
<1>4. ASSUME NEW p \in puts \cup deletes, Orphaned(p) PROVE Plain'
  BY <1>4, SamePlain DEF Orphaned, server, stores, queues, session, engine, runs, bounds
<1>5. ASSUME NEW d \in Devices, GoOffline(d) PROVE Plain'
  BY <1>5, SamePlain DEF GoOffline, server, stores, queues, engine, network, runs
<1>6. CASE UNCHANGED vars
  BY <1>6, SamePlain DEF vars, server, stores, queues, session, engine, network, runs, bounds
<1>7. ASSUME NEW d \in Devices, GoOnline(d) PROVE Plain'
  <2>1. "onlineFlush" \in Flushes
    BY DEF Flushes
  <2> QED
    BY <1>7, <2>1, FlushPlain
<1> QED
  BY <1>1, <1>2, <1>3, <1>4, <1>5, <1>6, <1>7, UserPlain, FlushPlain, CallPlain DEF AloneStep


-----------------------------------------------------------------------------
(* What the server does not have is on its way. *)

\* This step leaves id alone, or moves what is due for it one station on.
Untouched(d, id) ==
  /\ tabs'[d][id] = tabs[d][id] /\ table'[id] = table[id]
  /\ Awaiting(d, id) => Awaiting(d, id)'
  /\ Sending(d, id) => Sending(d, id)'
  /\ DeletionDue(d, id) => DeletionDue(d, id)'
  /\ NoDeletion(d, id) => NoDeletion(d, id)'
  /\ SameStory(id) => SameStory(id)'

LEMMA UntouchedKeeps ==
  ASSUME NEW d \in Devices, NEW id \in Ids, Kept(d, id), Untouched(d, id)
  PROVE  Kept(d, id)'
<1>1. CASE Has(tabs, d, id)
  <2>1. OpenKept(d, id) /\ Has(tabs, d, id)'
    BY <1>1 DEF Kept, Untouched, Has
  <2>2. SameStory(id)'
    BY <2>1 DEF OpenKept, Untouched
  <2>3. OpenKept(d, id)'
    BY <2>1, <2>2 DEF OpenKept, Untouched
  <2> QED
    BY <2>1, <2>3 DEF Kept
<1>2. CASE ~Has(tabs, d, id)
  BY <1>2 DEF Kept, Untouched, Has
<1> QED
  BY <1>1, <1>2

\* A closed workspace stays closed, and so does what is due for it.
LEMMA ClosedKeeps ==
  ASSUME NEW d \in Devices, NEW id \in Ids, Kept(d, id), ~Has(tabs, d, id), ~Has(tabs, d, id)',
         table[id].deleted => table'[id].deleted,
         DeletionDue(d, id) => DeletionDue(d, id)' \/ table'[id].deleted
  PROVE  Kept(d, id)'
  BY DEF Kept

LEMMA AloneTypes ==
  ASSUME AloneInv
  PROVE  /\ TypeInv /\ Plain /\ tabs \in [Devices -> EntryMap] /\ table \in Tables
         /\ offlineQueue \in [Devices -> EntryMap] /\ offlineDeletes \in [Devices -> SUBSET Ids]
         /\ timers \in [Devices -> SUBSET Ids] /\ auth = [d \in Devices |-> "authed"]
         /\ flush \in [Devices -> [Flushes -> FlushRecord]]
         /\ \A id \in Ids : table[id] \in Row /\ table[id].version \in Nat
         /\ \A d \in Devices, id \in Ids : Has(tabs, d, id) =>
              tabs[d][id] \in Entry /\ tabs[d][id].version \in Nat
         /\ \A p \in puts : /\ p \in PutRecord /\ p.dev \in Devices /\ p.id \in Ids
                            /\ p.ws \in Entry /\ p.ws.version \in Nat
                            /\ p.row # NoRow => p.row \in Row /\ p.row.version \in Nat
         /\ \A c \in deletes : c \in DeleteRecord /\ c.dev \in Devices /\ c.id \in Ids
         /\ \A d \in Devices : Watching(d) /\ HasSession(d)
<1>1. TypeInv /\ Plain
  BY DEF AloneInv
<1>2. /\ tabs \in [Devices -> EntryMap] /\ table \in Tables
      /\ offlineQueue \in [Devices -> EntryMap] /\ offlineDeletes \in [Devices -> SUBSET Ids]
      /\ timers \in [Devices -> SUBSET Ids] /\ flush \in [Devices -> [Flushes -> FlushRecord]]
  BY <1>1 DEF TypeInv, TypeOK, StoresOK, ServerOK, QueuesOK, EngineOK, RunsOK
<1>3. auth = [d \in Devices |-> "authed"] /\ \A d \in Devices : Watching(d) /\ HasSession(d)
  BY <1>1 DEF Plain, PlainSession, TypeInv, TypeOK, SessionOK, Watching, HasSession
<1>4. \A id \in Ids : table[id] \in Row /\ table[id].version \in Nat
  BY <1>1, <1>2 DEF Tables, Plain, PlainTable, Row
<1>5. \A d \in Devices, id \in Ids : Has(tabs, d, id) =>
        tabs[d][id] \in Entry /\ tabs[d][id].version \in Nat
  BY <1>2 DEF EntryMap, Has, Entry
<1>6. \A p \in puts : p \in PutRecord
  BY <1>1 DEF TypeInv, TypeOK, NetworkOK
<1>7. \A p \in puts : /\ p.dev \in Devices /\ p.id \in Ids
                      /\ p.ws \in Entry /\ p.ws.version \in Nat
                      /\ p.row # NoRow => p.row \in Row /\ p.row.version \in Nat
  BY <1>6 DEF PutRecord, Coded, Entry, Row
<1>8. \A c \in deletes : c \in DeleteRecord /\ c.dev \in Devices /\ c.id \in Ids
  BY <1>1 DEF TypeInv, TypeOK, NetworkOK, DeleteRecord, Coded
<1> QED
  BY <1>1, <1>2, <1>3, <1>4, <1>5, <1>6, <1>7, <1>8

LEMMA SamePairs ==
  ASSUME AloneInv, NEW d \in Devices, NEW id \in Ids,
         tabs'[d][id] = tabs[d][id], table'[id] = table[id],
         id \in timers[d] => id \in timers'[d],
         offlineQueue'[d][id] = offlineQueue[d][id],
         id \in offlineDeletes'[d] <=> id \in offlineDeletes[d],
         \A f \in Flushes : /\ flush'[d][f].stage = flush[d][f].stage
                            /\ id \in flush'[d][f].ids <=> id \in flush[d][f].ids,
         \A p \in puts' : p.id = id => p \in puts,
         \A p \in puts : p.id = id /\ p.code = 0 /\ p.by # "nobody" => p \in puts',
         \A c \in deletes' : c.id = id => c \in deletes,
         \A c \in deletes : c.id = id /\ c.code = 0 /\ c.by # "nobody" => c \in deletes'
  PROVE  Untouched(d, id)
<1>1. Awaiting(d, id) => Awaiting(d, id)'
  BY DEF Awaiting, Has
<1>2. Sending(d, id) => Sending(d, id)'
  <2>1. \A p \in puts : Due(p) => p.code = 0
    BY AloneTypes, PutFields DEF Due
  <2> QED
    BY <2>1 DEF Sending
<1>3. DeletionDue(d, id) => DeletionDue(d, id)'
  BY DEF DeletionDue
<1>4. NoDeletion(d, id) => NoDeletion(d, id)'
  BY DEF NoDeletion
<1>5. SameStory(id) => SameStory(id)'
  BY DEF SameStory
<1> QED
  BY <1>1, <1>2, <1>3, <1>4, <1>5 DEF Untouched

\* The PUT of a tab's new version, or the queue, carries the tab.
LEMMA SavedKept ==
  ASSUME AloneInv, NEW d \in Devices, NEW id \in Ids, NEW by, by # "nobody",
         Has(tabs, d, id), AutoSave(d, id, by),
         table' = table, deletes' = deletes, offlineDeletes' = offlineDeletes,
         NoDeletion(d, id)'
  PROVE  Kept(d, id)'
<1>1. OpenKept(d, id) /\ tabs[d][id] \in Entry /\ tabs[d][id].version \in Nat
      /\ table[id].version \in Nat
  BY AloneTypes DEF AloneInv, Kept
<1>2. /\ tabs \in [Devices -> EntryMap] /\ offlineQueue \in [Devices -> EntryMap]
  BY AloneTypes
<1>3. CASE online[d]
  <2>1. PICK bumped : bumped = Bump(tabs[d][id])
    OBVIOUS
  <2>2. bumped \in Entry /\ bumped.version = tabs[d][id].version + 1
    BY <1>1, <2>1, BumpType
  <2>3. PICK call : call = PutCall(d, id, bumped, by)
    OBVIOUS
  <2>4. /\ call.dev = d /\ call.id = id /\ call.ws = bumped /\ call.by = by
        /\ Due(call) /\ call.row = NoRow
    BY <2>3 DEF PutCall, Due
  <2>5. tabs' = [tabs EXCEPT ![d][id] = bumped] /\ puts' = puts \cup {call}
    BY <1>3, <2>1, <2>3 DEF AutoSave, PushEntry
  <2>6. tabs'[d][id] = bumped /\ Has(tabs, d, id)'
    BY <1>2, <2>2, <2>5, NoEntryIsNoEntry DEF EntryMap, Has
  <2>7. table[id].version < bumped.version
    BY <1>1, <2>2 DEF OpenKept
  <2>8. SameStory(id)'
    BY <1>1, <2>4, <2>5, <2>7 DEF OpenKept, SameStory
  <2>9. Sending(d, id)'
    BY <2>4, <2>5, <2>6 DEF Sending
  <2>10. table[id].version <= bumped.version
    BY <1>1, <2>2, <2>7
  <2>11. OpenKept(d, id)'
    BY <1>1, <2>6, <2>8, <2>9, <2>10 DEF OpenKept
  <2> QED
    BY <2>6, <2>11 DEF Kept
<1>4. CASE ~online[d]
  <2>1. Queue(d, id, tabs[d][id]) /\ UNCHANGED <<tabs, puts>>
    BY <1>4 DEF AutoSave
  <2>2. Has(offlineQueue, d, id)' /\ Has(tabs, d, id)'
    BY <1>1, <1>2, <2>1, NoEntryIsNoEntry DEF Queue, Has, EntryMap
  <2>3. Awaiting(d, id)'
    BY <2>2 DEF Awaiting
  <2>4. SameStory(id)'
    BY <1>1, <2>1 DEF OpenKept, SameStory
  <2>5. OpenKept(d, id)'
    BY <1>1, <2>1, <2>3, <2>4 DEF OpenKept
  <2> QED
    BY <2>2, <2>5 DEF Kept
<1> QED
  BY <1>3, <1>4

\* AutoSave and PushEntry touch one workspace.
LEMMA SavedOthers ==
  ASSUME AloneInv, NEW d \in Devices, NEW id \in Ids, NEW by,
         \/ AutoSave(d, id, by)
         \/ tabs' = tabs /\ \E ws : PushEntry(d, id, ws, by),
         NEW i \in Ids, i # id
  PROVE  /\ tabs'[d][i] = tabs[d][i] /\ offlineQueue'[d][i] = offlineQueue[d][i]
         /\ \A p \in puts' : p.id = i => p \in puts
         /\ \A p \in puts : p \in puts'
<1>1. /\ tabs \in [Devices -> EntryMap] /\ offlineQueue \in [Devices -> EntryMap]
  BY AloneTypes
<1>2. ASSUME NEW ws, PushEntry(d, id, ws, by)
      PROVE  /\ offlineQueue'[d][i] = offlineQueue[d][i]
             /\ \A p \in puts' : p.id = i => p \in puts
             /\ \A p \in puts : p \in puts'
  <2>1. CASE online[d]
    BY <1>2, <2>1 DEF PushEntry, PutCall
  <2>2. CASE ~online[d]
    BY <1>1, <1>2, <2>2 DEF PushEntry, Queue, EntryMap
  <2> QED
    BY <2>1, <2>2
<1>3. CASE AutoSave(d, id, by)
  <2>1. CASE online[d]
    BY <1>1, <1>2, <1>3, <2>1 DEF AutoSave, EntryMap
  <2>2. CASE ~online[d]
    BY <1>1, <1>3, <2>2 DEF AutoSave, Queue, EntryMap
  <2> QED
    BY <2>1, <2>2
<1> QED
  BY <1>2, <1>3

LEMMA EditKept ==
  ASSUME AloneInv, NEW d \in Devices, NEW id \in Ids, Edit(d, id), NEW i \in Ids
  PROVE  Kept(d, i)'
<1>1. Kept(d, i)
  BY DEF AloneInv
<1>2. PICK e : e = [tabs[d][id] EXCEPT !.content = ops']
  OBVIOUS
<1>3. /\ tabs' = [tabs EXCEPT ![d][id] = e] /\ timers' = [timers EXCEPT ![d] = @ \cup {id}]
      /\ Has(tabs, d, id)
      /\ UNCHANGED <<table, offlineQueue, offlineDeletes, puts, deletes, flush>>
  BY <1>2, AloneTypes DEF Edit, ChangeTab, server, queues, network, runs
<1>4. /\ tabs \in [Devices -> EntryMap] /\ timers \in [Devices -> SUBSET Ids]
      /\ tabs[d][id] \in Entry
  BY <1>3, AloneTypes
<1>5. e \in Entry /\ e.version = tabs[d][id].version
  <2>1. ops' \in Contents
    BY AloneTypes, DoesType DEF Edit
  <2> QED
    BY <1>2, <1>4, <2>1 DEF Entry
<1>6. CASE i = id
  <2>1. tabs'[d][i] = e /\ Has(tabs, d, i)' /\ i \in timers'[d]
    BY <1>3, <1>4, <1>5, <1>6, NoEntryIsNoEntry DEF EntryMap, Has
  <2>2. OpenKept(d, i)
    BY <1>1, <1>3, <1>6 DEF Kept
  <2>3. NoDeletion(d, i)' /\ SameStory(i)' /\ Awaiting(d, i)'
    BY <1>3, <2>1, <2>2 DEF OpenKept, NoDeletion, SameStory, Awaiting
  <2>4. OpenKept(d, i)'
    BY <1>3, <1>5, <1>6, <2>1, <2>2, <2>3 DEF OpenKept
  <2> QED
    BY <2>1, <2>4 DEF Kept
<1>7. CASE i # id
  <2>1. tabs'[d][i] = tabs[d][i] /\ (i \in timers[d] => i \in timers'[d])
    BY <1>3, <1>4, <1>7 DEF EntryMap
  <2>2. Untouched(d, i)
    BY <1>3, <2>1, SamePairs
  <2> QED
    BY <1>1, <2>2, UntouchedKeeps
<1> QED
  BY <1>6, <1>7

LEMMA CallsRequested ==
  ASSUME AloneInv, NEW d \in Devices, NEW id \in Ids, NEW by, by # "nobody",
         RequestDelete(d, id, by)
  PROVE  /\ DeletionDue(d, id)'
         /\ \A i \in Ids : i # id =>
              /\ i \in offlineDeletes'[d] <=> i \in offlineDeletes[d]
              /\ \A c \in deletes' : c.id = i => c \in deletes
              /\ \A c \in deletes : c \in deletes'
<1>1. offlineDeletes \in [Devices -> SUBSET Ids]
  BY AloneTypes
<1>2. CASE online[d]
  <2>1. PICK call : call = DeleteCall(d, id, by)
    OBVIOUS
  <2>2. call.dev = d /\ call.id = id /\ call.by = by /\ call.code = 0
    BY <2>1 DEF DeleteCall
  <2>3. deletes' = deletes \cup {call}
    BY <1>2, <2>1 DEF RequestDelete, DeleteCalls, DeleteCall
  <2>4. offlineDeletes'[d] = offlineDeletes[d]
    BY <1>1, <1>2 DEF RequestDelete, DeletesQueued
  <2>5. DeletionDue(d, id)'
    BY <2>2, <2>3 DEF DeletionDue
  <2> QED
    BY <2>2, <2>3, <2>4, <2>5
<1>3. CASE ~online[d]
  <2>1. offlineDeletes'[d] = offlineDeletes[d] \cup {id} /\ deletes' = deletes
    BY <1>1, <1>3 DEF RequestDelete, DeletesQueued, DeleteCalls
  <2>2. DeletionDue(d, id)'
    BY <2>1 DEF DeletionDue
  <2> QED
    BY <2>1, <2>2
<1> QED
  BY <1>2, <1>3

LEMMA CloseKept ==
  ASSUME AloneInv, NEW d \in Devices, NEW id \in Ids, CloseUnsaved(d, id), NEW i \in Ids
  PROVE  Kept(d, i)'
<1>1. Kept(d, i)
  BY DEF AloneInv
<1>2. /\ tabs' = [tabs EXCEPT ![d][id] = NoEntry] /\ RequestDelete(d, id, "own")
      /\ offlineQueue' = [offlineQueue EXCEPT ![d][id] = NoEntry]
      /\ UNCHANGED <<table, timers, puts, flush>>
  BY AloneTypes DEF CloseUnsaved, RemoveTab, server, engine, runs
<1>3. tabs \in [Devices -> EntryMap] /\ offlineQueue \in [Devices -> EntryMap]
  BY AloneTypes
<1>4. CASE i = id
  <2>1. ~Has(tabs, d, i)'
    BY <1>2, <1>3, <1>4 DEF Has, EntryMap
  <2>2. DeletionDue(d, i)'
    BY <1>2, <1>4, CallsRequested
  <2> QED
    BY <2>1, <2>2 DEF Kept
<1>5. CASE i # id
  <2>1. tabs'[d][i] = tabs[d][i] /\ offlineQueue'[d][i] = offlineQueue[d][i]
    BY <1>2, <1>3, <1>5 DEF EntryMap
  <2>2. /\ i \in offlineDeletes'[d] <=> i \in offlineDeletes[d]
        /\ \A c \in deletes' : c.id = i => c \in deletes
        /\ \A c \in deletes : c \in deletes'
    BY <1>2, <1>5, CallsRequested
  <2>3. Untouched(d, i)
    BY <1>2, <2>1, <2>2, SamePairs
  <2> QED
    BY <1>1, <2>3, UntouchedKeeps
<1> QED
  BY <1>4, <1>5

LEMMA TimerKept ==
  ASSUME AloneInv, NEW d \in Devices, NEW id \in Ids, TimerFires(d, id), NEW i \in Ids
  PROVE  Kept(d, i)'
<1>1. Kept(d, i)
  BY DEF AloneInv
<1>2. /\ timers' = [timers EXCEPT ![d] = @ \ {id}]
      /\ UNCHANGED <<table, offlineDeletes, deletes, flush>>
  BY DEF TimerFires, server, runs
<1>3. timers \in [Devices -> SUBSET Ids]
  BY AloneTypes
<1>4. CASE i = id /\ Has(tabs, d, id)
  <2>1. AutoSave(d, id, "own")
    BY <1>4 DEF TimerFires
  <2>2. NoDeletion(d, id)'
    BY <1>1, <1>2, <1>4 DEF Kept, OpenKept, NoDeletion
  <2> QED
    BY <1>2, <1>4, <2>1, <2>2, SavedKept
<1>5. CASE i = id /\ ~Has(tabs, d, id)
  <2>1. UNCHANGED tabs
    BY <1>5 DEF TimerFires
  <2>2. DeletionDue(d, i) => DeletionDue(d, i)'
    BY <1>2 DEF DeletionDue
  <2> QED
    BY <1>1, <1>2, <1>5, <2>1, <2>2, ClosedKeeps DEF Has
<1>6. CASE i # id
  <2>1. i \in timers[d] => i \in timers'[d]
    BY <1>2, <1>3, <1>6
  <2>2. /\ tabs'[d][i] = tabs[d][i] /\ offlineQueue'[d][i] = offlineQueue[d][i]
        /\ \A p \in puts' : p.id = i => p \in puts
        /\ \A p \in puts : p \in puts'
    <3>1. CASE Has(tabs, d, id)
      BY <1>6, <3>1, SavedOthers DEF TimerFires
    <3>2. CASE ~Has(tabs, d, id)
      BY <3>2 DEF TimerFires
    <3> QED
      BY <3>1, <3>2
  <2>3. Untouched(d, i)
    BY <1>2, <2>1, <2>2, SamePairs
  <2> QED
    BY <1>1, <2>3, UntouchedKeeps
<1> QED
  BY <1>4, <1>5, <1>6


LEMMA FlushDeleteKept ==
  ASSUME AloneInv, NEW d \in Devices, NEW f \in Flushes, NEW id \in Ids, FlushDelete(d, f, id),
         NEW i \in Ids
  PROVE  Kept(d, i)'
<1>1. Kept(d, i)
  BY DEF AloneInv
<1>2. PICK r : r = [flush[d][f] EXCEPT !.ids = @ \ {id}]
  OBVIOUS
<1>3. /\ flush' = [flush EXCEPT ![d][f] = r] /\ RequestDelete(d, id, f)
      /\ UNCHANGED <<table, tabs, timers, offlineQueue, puts>>
      /\ flush[d][f].stage = "deletes" /\ id \in flush[d][f].ids
  BY <1>2, AloneTypes DEF FlushDelete, server, stores, engine
<1>4. r.stage = flush[d][f].stage /\ r.ids = flush[d][f].ids \ {id}
  BY <1>2, AloneTypes DEF FlushRecord
<1>5. f # "nobody"
  BY DEF Flushes
<1>6. CASE i = id
  <2>1. ~Has(tabs, d, i)
    BY <1>1, <1>3, <1>6 DEF Kept, OpenKept, NoDeletion
  <2>2. DeletionDue(d, i)'
    BY <1>3, <1>5, <1>6, CallsRequested
  <2> QED
    BY <1>1, <1>3, <2>1, <2>2, ClosedKeeps DEF Has
<1>7. CASE i # id
  <2>1. \A g \in Flushes : /\ flush'[d][g].stage = flush[d][g].stage
                           /\ i \in flush'[d][g].ids <=> i \in flush[d][g].ids
    BY <1>3, <1>4, <1>7, AloneTypes
  <2>2. /\ i \in offlineDeletes'[d] <=> i \in offlineDeletes[d]
        /\ \A c \in deletes' : c.id = i => c \in deletes
        /\ \A c \in deletes : c \in deletes'
    BY <1>3, <1>5, <1>7, CallsRequested
  <2>3. Untouched(d, i)
    BY <1>3, <2>1, <2>2, SamePairs
  <2> QED
    BY <1>1, <2>3, UntouchedKeeps
<1> QED
  BY <1>6, <1>7

LEMMA FlushPushKept ==
  ASSUME AloneInv, NEW d \in Devices, NEW f \in Flushes, NEW id \in Ids, FlushPush(d, f, id),
         NEW i \in Ids
  PROVE  Kept(d, i)'
<1>1. Kept(d, i)
  BY DEF AloneInv
<1>2. PICK r : r = [stage |-> "pushes", queued |-> [flush[d][f].queued EXCEPT ![id] = NoEntry],
                    ids |-> flush[d][f].ids \ {id}]
  OBVIOUS
<1>3. /\ flush' = [flush EXCEPT ![d][f] = r] /\ flush[d][f].stage = "pushes"
      /\ UNCHANGED <<table, timers, offlineDeletes, deletes>>
  BY <1>2, AloneTypes DEF FlushPush, server
<1>4. r.stage = "pushes" /\ r.ids = flush[d][f].ids \ {id}
  BY <1>2
<1>5. f # "nobody"
  BY DEF Flushes
<1>6. \A g \in Flushes : /\ flush'[d][g].stage = flush[d][g].stage
                         /\ flush'[d][g].stage = "deletes" => flush'[d][g].ids = flush[d][g].ids
                         /\ i # id => (i \in flush'[d][g].ids <=> i \in flush[d][g].ids)
  BY <1>3, <1>4, AloneTypes
<1>7. CASE i = id /\ Has(tabs, d, id)
  <2>1. AutoSave(d, id, f)
    BY <1>7 DEF FlushPush
  <2>2. NoDeletion(d, id)'
    BY <1>1, <1>3, <1>6, <1>7 DEF Kept, OpenKept, NoDeletion
  <2> QED
    BY <1>3, <1>5, <1>7, <2>1, <2>2, SavedKept
<1>8. CASE i = id /\ ~Has(tabs, d, id)
  <2>1. UNCHANGED tabs
    BY <1>8 DEF FlushPush
  <2>2. DeletionDue(d, i) => DeletionDue(d, i)'
    BY <1>3, <1>6 DEF DeletionDue
  <2> QED
    BY <1>1, <1>3, <1>8, <2>1, <2>2, ClosedKeeps DEF Has
<1>9. CASE i # id
  <2>1. /\ tabs'[d][i] = tabs[d][i] /\ offlineQueue'[d][i] = offlineQueue[d][i]
        /\ \A p \in puts' : p.id = i => p \in puts
        /\ \A p \in puts : p \in puts'
    <3>1. AutoSave(d, id, f) \/ (tabs' = tabs /\ PushEntry(d, id, flush[d][f].queued[id], f))
      BY DEF FlushPush
    <3>2. AutoSave(d, id, f) \/ (tabs' = tabs /\ \E ws : PushEntry(d, id, ws, f))
      BY <3>1
    <3> QED
      BY <1>9, <3>2, SavedOthers
  <2>2. Untouched(d, i)
    BY <1>3, <1>6, <1>9, <2>1, SamePairs
  <2> QED
    BY <1>1, <2>2, UntouchedKeeps
<1> QED
  BY <1>7, <1>8, <1>9

LEMMA QueueTakenKept ==
  ASSUME AloneInv, NEW d \in Devices, NEW f \in Flushes, FlushTakeQueue(d, f), NEW i \in Ids
  PROVE  Kept(d, i)'
<1>1. Kept(d, i)
  BY DEF AloneInv
<1>2. PICK r : r = [stage |-> "pushes", queued |-> offlineQueue[d],
                    ids |-> {j \in Ids : Has(offlineQueue, d, j)}]
  OBVIOUS
<1>3. /\ flush' = [flush EXCEPT ![d][f] = r] /\ flush[d][f].stage = "deletes"
      /\ flush[d][f].ids = {}
      /\ UNCHANGED <<table, tabs, timers, offlineDeletes, puts, deletes>>
  BY <1>2 DEF FlushTakeQueue, server, stores, engine, network
<1>4. r.stage = "pushes" /\ r.ids = {j \in Ids : Has(offlineQueue, d, j)}
  BY <1>2
<1>5. flush'[d][f] = r /\ \A g \in Flushes \ {f} : flush'[d][g] = flush[d][g]
  BY <1>3, AloneTypes
<1>6. Awaiting(d, i) => Awaiting(d, i)'
  <2>1. CASE i \in timers[d]
    BY <1>3, <2>1 DEF Awaiting
  <2>2. CASE Has(offlineQueue, d, i)
    BY <1>4, <1>5, <2>2 DEF Awaiting
  <2>3. ASSUME NEW g \in Flushes, flush[d][g].stage = "pushes", i \in flush[d][g].ids
        PROVE  Awaiting(d, i)'
    <3>1. flush'[d][g] = flush[d][g]
      BY <1>3, <1>5, <2>3
    <3> QED
      BY <2>3, <3>1 DEF Awaiting
  <2> QED
    BY <2>1, <2>2, <2>3 DEF Awaiting
<1>7. Sending(d, i) => Sending(d, i)'
  BY <1>3 DEF Sending
<1>8. DeletionDue(d, i) => DeletionDue(d, i)'
  BY <1>3, <1>5 DEF DeletionDue
<1>9. NoDeletion(d, i) => NoDeletion(d, i)'
  BY <1>3, <1>4, <1>5 DEF NoDeletion
<1>10. SameStory(i) => SameStory(i)'
  BY <1>3 DEF SameStory
<1>11. Untouched(d, i)
  BY <1>3, <1>6, <1>7, <1>8, <1>9, <1>10 DEF Untouched
<1> QED
  BY <1>1, <1>11, UntouchedKeeps

LEMMA FlushEndsKept ==
  ASSUME AloneInv, NEW d \in Devices, NEW f \in Flushes, FlushEnds(d, f), NEW i \in Ids
  PROVE  Kept(d, i)'
<1>1. Kept(d, i)
  BY DEF AloneInv
<1>2. /\ flush' = [flush EXCEPT ![d][f] = NoFlush] /\ flush[d][f].stage = "pushes"
      /\ flush[d][f].ids = {}
      /\ UNCHANGED <<table, tabs, timers, offlineQueue, offlineDeletes, puts, deletes>>
  BY DEF FlushEnds, server, stores, queues, network
<1>3. flush'[d][f] = NoFlush /\ \A g \in Flushes \ {f} : flush'[d][g] = flush[d][g]
  BY <1>2, AloneTypes
<1>4. NoFlush.stage = "idle"
  BY DEF NoFlush
<1>5. \A g \in Flushes : i \in flush[d][g].ids => flush'[d][g] = flush[d][g]
  BY <1>2, <1>3
<1>6. \A g \in Flushes : flush'[d][g].stage = "deletes" => flush'[d][g] = flush[d][g]
  BY <1>3, <1>4
<1>7. Awaiting(d, i) => Awaiting(d, i)'
  BY <1>2, <1>5 DEF Awaiting, Has
<1>8. Sending(d, i) => Sending(d, i)'
  BY <1>2 DEF Sending
<1>9. DeletionDue(d, i) => DeletionDue(d, i)'
  BY <1>2, <1>5 DEF DeletionDue
<1>10. NoDeletion(d, i) => NoDeletion(d, i)'
  BY <1>2, <1>6 DEF NoDeletion
<1>11. SameStory(i) => SameStory(i)'
  BY <1>2 DEF SameStory
<1>12. Untouched(d, i)
  BY <1>2, <1>7, <1>8, <1>9, <1>10, <1>11 DEF Untouched
<1> QED
  BY <1>1, <1>12, UntouchedKeeps

\* The deletes in the queue become the flush's.
LEMMA GoOnlineKept ==
  ASSUME AloneInv, NEW d \in Devices, GoOnline(d), NEW i \in Ids
  PROVE  Kept(d, i)'
<1>1. Kept(d, i) /\ auth[d] = "authed" /\ "onlineFlush" \in Flushes
  BY DEF AloneInv, Plain, PlainSession, Flushes
<1>2. PICK r : r = [NoFlush EXCEPT !.stage = "deletes", !.ids = offlineDeletes[d]]
  OBVIOUS
<1>3. r.stage = "deletes" /\ r.ids = offlineDeletes[d]
  BY <1>2 DEF NoFlush
<1>4. /\ flush' = [flush EXCEPT ![d]["onlineFlush"] = r]
      /\ offlineDeletes' = [offlineDeletes EXCEPT ![d] = {}]
      /\ flush[d]["onlineFlush"].stage = "idle"
      /\ UNCHANGED <<table, tabs, timers, offlineQueue, puts, deletes>>
  BY <1>1, <1>2 DEF GoOnline, StartFlush, server, stores, engine, network
<1>5. /\ flush'[d]["onlineFlush"] = r
      /\ \A g \in Flushes \ {"onlineFlush"} : flush'[d][g] = flush[d][g]
      /\ offlineDeletes'[d] = {}
  BY <1>1, <1>4, AloneTypes
<1>6. Awaiting(d, i) => Awaiting(d, i)'
  BY <1>4, <1>5 DEF Awaiting, Has
<1>7. Sending(d, i) => Sending(d, i)'
  BY <1>4 DEF Sending
<1>8. DeletionDue(d, i) => DeletionDue(d, i)'
  <2>1. CASE i \in offlineDeletes[d]
    BY <1>1, <1>3, <1>5, <2>1 DEF DeletionDue
  <2>2. CASE i \notin offlineDeletes[d]
    BY <1>4, <1>5, <2>2 DEF DeletionDue
  <2> QED
    BY <2>1, <2>2
<1>9. NoDeletion(d, i) => NoDeletion(d, i)'
  BY <1>3, <1>4, <1>5 DEF NoDeletion
<1>10. SameStory(i) => SameStory(i)'
  BY <1>4 DEF SameStory
<1>11. Untouched(d, i)
  BY <1>4, <1>6, <1>7, <1>8, <1>9, <1>10 DEF Untouched
<1> QED
  BY <1>1, <1>11, UntouchedKeeps

-----------------------------------------------------------------------------
(* Calls *)

LEMMA CallGoneKept ==
  ASSUME AloneInv, NEW d \in Devices, NEW i \in Ids,
         \/ \E p \in puts : PutDone(p)
         \/ \E c \in deletes : DeleteDone(c)
         \/ \E c \in puts \cup deletes : Orphaned(c)
         \/ GoOffline(d)
         \/ UNCHANGED vars
  PROVE  Kept(d, i)'
<1>1. Kept(d, i)
  BY DEF AloneInv
<1>2. UNCHANGED <<table, tabs, timers, offlineQueue, offlineDeletes, flush>>
  BY DEF PutDone, DeleteDone, Orphaned, GoOffline, vars, server, stores, queues, engine, runs
<1>3. /\ puts' \subseteq puts /\ deletes' \subseteq deletes
      /\ \A p \in puts : p.code = 0 /\ p.by # "nobody" => p \in puts'
      /\ \A c \in deletes : c.code = 0 /\ c.by # "nobody" => c \in deletes'
  BY DEF PutDone, DeleteDone, Orphaned, GoOffline, vars, network
<1>4. Untouched(d, i)
  BY <1>2, <1>3, SamePairs
<1> QED
  BY <1>1, <1>4, UntouchedKeeps

\* An adopted row is what the server has: the tab is not behind it.
LEMMA ConflictKept ==
  ASSUME Alone, AloneInv, NEW p \in puts, PutConflict(p), NEW d \in Devices, NEW i \in Ids
  PROVE  Kept(d, i)'
<1>1. Kept(d, i) /\ TypeInv
  BY DEF AloneInv
<1>2. /\ puts' = puts \ {p} /\ p.code = 409 /\ p.dev = d /\ p.id \in Ids
      /\ UNCHANGED <<table, timers, offlineQueue, offlineDeletes, flush, deletes>>
  BY AloneTypes DEF PutConflict, Alone, server, queues, runs
<1>3. p.row \in Row /\ p.row # NoRow /\ p.row.version \in Nat
  BY <1>1, <1>2, NoRowIsNoRow DEF TypeInv, Replied, Row
<1>4. tabs \in [Devices -> EntryMap]
  BY AloneTypes
<1>5. CASE i = p.id /\ Has(tabs, d, i) /\ Adopts(tabs[d][i], p.row)
  <2>1. OpenKept(d, i)
    BY <1>1, <1>5 DEF Kept
  <2>2. PICK e : e = EntryOf(p.row)
    OBVIOUS
  <2>3. e \in Entry /\ e.version = p.row.version
    BY <1>3, <2>2, EntryOfType DEF EntryOf
  <2>4. tabs' = [tabs EXCEPT ![d][i] = e]
    BY <1>2, <1>5, <2>2 DEF PutConflict
  <2>5. tabs'[d][i] = e /\ Has(tabs, d, i)'
    BY <1>4, <2>3, <2>4, NoEntryIsNoEntry DEF EntryMap, Has
  <2>6. /\ p.row.version <= table[i].version
        /\ p.row.version = table[i].version => EntryOf(p.row) = EntryOf(table[i])
    BY <1>3, <1>5, <2>1 DEF OpenKept, SameStory
  <2>7. tabs[d][i].version <= p.row.version /\ table[i].version <= tabs[d][i].version
    BY <1>5, <2>1 DEF Adopts, OpenKept
  <2>8. tabs[d][i].version \in Nat /\ table[i].version \in Nat
    BY <1>5, AloneTypes
  <2>9. p.row.version = table[i].version
    BY <1>3, <2>6, <2>7, <2>8
  <2>10. e = EntryOf(table[i]) /\ table[i].version <= e.version
    BY <2>2, <2>3, <2>6, <2>8, <2>9
  <2>11. NoDeletion(d, i)' /\ SameStory(i)'
    BY <1>2, <2>1 DEF OpenKept, NoDeletion, SameStory
  <2>12. OpenKept(d, i)'
    BY <1>2, <2>1, <2>5, <2>10, <2>11 DEF OpenKept
  <2> QED
    BY <2>5, <2>12 DEF Kept
<1>6. CASE ~ (i = p.id /\ Has(tabs, d, i) /\ Adopts(tabs[d][i], p.row))
  <2>1. tabs'[d][i] = tabs[d][i]
    BY <1>2, <1>4, <1>6 DEF PutConflict, EntryMap
  <2>2. Untouched(d, i)
    BY <1>2, <2>1, SamePairs
  <2> QED
    BY <1>1, <2>2, UntouchedKeeps
<1> QED
  BY <1>5, <1>6

LEMMA PutFailsKept ==
  ASSUME Alone, AloneInv, NEW p \in puts, PutFails(p), NEW d \in Devices, NEW i \in Ids
  PROVE  Kept(d, i)'
<1>1. Kept(d, i)
  BY DEF AloneInv
<1>2. PICK ws : ws = IF Has(tabs, p.dev, p.id) THEN tabs[p.dev][p.id] ELSE p.ws
  OBVIOUS
<1>3. /\ puts' = Abandoned(puts, p) /\ p.dev = d /\ p.id \in Ids /\ p \in PutRecord
      /\ Queue(d, p.id, ws)
      /\ UNCHANGED <<table, tabs, timers, offlineDeletes, flush, deletes>>
  BY <1>2, AloneTypes DEF PutFails, Alone, server, stores, engine, runs
<1>4. \A q \in puts' : q \in puts \/ q = Orphan(p)
  BY <1>3 DEF Abandoned, Orphan
<1>5. Orphan(p).id = p.id /\ Orphan(p).ws = p.ws /\ Orphan(p).row = p.row
  BY <1>3 DEF Orphan, PutRecord, Coded
<1>6. \A q \in puts : q # p => q \in puts'
  BY <1>3 DEF Abandoned
<1>7. offlineQueue \in [Devices -> EntryMap]
  BY AloneTypes
<1>8. CASE i = p.id /\ Has(tabs, d, i)
  <2>1. OpenKept(d, i) /\ Has(tabs, d, i)'
    BY <1>1, <1>3, <1>8 DEF Kept, Has
  <2>2. ws = tabs[d][i]
    BY <1>2, <1>3, <1>8
  <2>3. Has(offlineQueue, d, i)'
    BY <1>3, <1>7, <1>8, <2>2 DEF Queue, Has, EntryMap
  <2>4. Awaiting(d, i)'
    BY <2>3 DEF Awaiting
  <2>5. SameStory(i)'
    BY <1>3, <1>4, <1>5, <2>1 DEF OpenKept, SameStory
  <2>6. NoDeletion(d, i)'
    BY <1>3, <2>1 DEF OpenKept, NoDeletion
  <2>7. OpenKept(d, i)'
    BY <1>3, <2>1, <2>4, <2>5, <2>6 DEF OpenKept
  <2> QED
    BY <2>1, <2>7 DEF Kept
<1>9. CASE i = p.id /\ ~Has(tabs, d, i)
  <2>1. DeletionDue(d, i) => DeletionDue(d, i)'
    BY <1>3 DEF DeletionDue
  <2> QED
    BY <1>1, <1>3, <1>9, <2>1, ClosedKeeps DEF Has
<1>10. CASE i # p.id
  <2>1. offlineQueue'[d][i] = offlineQueue[d][i]
    BY <1>3, <1>7, <1>10 DEF Queue, EntryMap
  <2>2. \A q \in puts' : q.id = i => q \in puts
    BY <1>4, <1>5, <1>10
  <2>3. \A q \in puts : q.id = i => q \in puts'
    BY <1>6, <1>10
  <2>4. Untouched(d, i)
    BY <1>3, <2>1, <2>2, <2>3, SamePairs
  <2> QED
    BY <1>1, <2>4, UntouchedKeeps
<1> QED
  BY <1>8, <1>9, <1>10

LEMMA DeleteFailsKept ==
  ASSUME Alone, AloneInv, NEW c \in deletes, DeleteFails(c), NEW d \in Devices, NEW i \in Ids
  PROVE  Kept(d, i)'
<1>1. Kept(d, i)
  BY DEF AloneInv
<1>2. /\ deletes' = Abandoned(deletes, c) /\ c.dev = d /\ c.id \in Ids /\ c \in DeleteRecord
      /\ offlineDeletes' = [offlineDeletes EXCEPT ![d] = @ \cup {c.id}]
      /\ UNCHANGED <<table, tabs, timers, offlineQueue, flush, puts>>
  BY AloneTypes DEF DeleteFails, Alone, server, stores, engine, runs
<1>3. offlineDeletes \in [Devices -> SUBSET Ids]
  BY AloneTypes
<1>4. CASE i = c.id
  <2>1. ~Has(tabs, d, i)
    BY <1>1, <1>4 DEF Kept, OpenKept, NoDeletion
  <2>2. DeletionDue(d, i)'
    BY <1>2, <1>3, <1>4 DEF DeletionDue
  <2> QED
    BY <1>1, <1>2, <2>1, <2>2, ClosedKeeps DEF Has
<1>5. CASE i # c.id
  <2>1. [c EXCEPT !.by = "nobody"].id = c.id
    BY <1>2 DEF DeleteRecord, Coded
  <2>2. \A b \in deletes' : b.id = i => b \in deletes
    BY <1>2, <1>5, <2>1 DEF Abandoned
  <2>3. \A b \in deletes : b.id = i => b \in deletes'
    BY <1>2, <1>5 DEF Abandoned
  <2>4. i \in offlineDeletes'[d] <=> i \in offlineDeletes[d]
    BY <1>2, <1>3, <1>5
  <2>5. Untouched(d, i)
    BY <1>2, <2>2, <2>3, <2>4, SamePairs
  <2> QED
    BY <1>1, <2>5, UntouchedKeeps
<1> QED
  BY <1>4, <1>5

LEMMA ServeDeleteKept ==
  ASSUME Alone, AloneInv, NEW c \in deletes, ServesDelete(c), NEW d \in Devices, NEW i \in Ids
  PROVE  Kept(d, i)'
<1>1. Kept(d, i) /\ HasSession(d) /\ Plain /\ TypeInv
  BY AloneTypes DEF AloneInv
<1>2. PICK e : /\ deletes' = (deletes \ {c}) \cup {e} /\ e.dev = c.dev /\ e.id = c.id /\ e.by = c.by
               /\ StampDelete(c) => e.code = 0
  BY <1>1, DeleteNext
<1>3. /\ c.dev = d /\ c.id \in Ids
      /\ UNCHANGED <<tabs, timers, offlineQueue, offlineDeletes, flush, puts>>
  BY <1>1, AloneTypes, ServedSame DEF Alone, stores, queues, engine, runs
<1>4. table \in Tables /\ table[c.id] # NoRow /\ table[c.id].owner = Account
  BY <1>1, <1>3, AloneTypes DEF Plain, PlainTable
<1>5. StampDelete(c) \/ WriteDelete(c)
  BY <1>1, <1>3, DeleteServed DEF ServesDelete
<1>6. CASE StampDelete(c)
  <2>1. table' = table
    BY <1>1, <1>6, DeleteServed
  <2>2. DeletionDue(d, i) => DeletionDue(d, i)'
    BY <1>2, <1>3, <1>6 DEF DeletionDue
  <2>3. NoDeletion(d, i) => NoDeletion(d, i)'
    BY <1>2, <1>3 DEF NoDeletion
  <2>4. /\ Awaiting(d, i) => Awaiting(d, i)'
        /\ Sending(d, i) => Sending(d, i)'
        /\ SameStory(i) => SameStory(i)'
    BY <1>3, <2>1 DEF Awaiting, Has, Sending, SameStory
  <2>5. Untouched(d, i)
    BY <1>3, <2>1, <2>2, <2>3, <2>4 DEF Untouched
  <2> QED
    BY <1>1, <2>5, UntouchedKeeps
<1>7. CASE WriteDelete(c)
  <2>1. /\ table'[c.id].deleted
        /\ i # c.id => table'[i] = table[i]
    <3>1. table' = SoftDeleted(table, c.id, Account, c.now)
      BY <1>7 DEF WriteDelete
    <3> QED
      BY <1>3, <1>4, <3>1 DEF SoftDeleted, Owns, Exists, Tables
  <2>2. CASE i = c.id
    <3>1. ~Has(tabs, d, i)
      BY <1>1, <2>2 DEF Kept, OpenKept, NoDeletion
    <3> QED
      BY <1>1, <1>3, <2>1, <2>2, <3>1, ClosedKeeps DEF Has
  <2>3. CASE i # c.id
    <3>1. /\ \A b \in deletes' : b.id = i => b \in deletes
          /\ \A b \in deletes : b.id = i => b \in deletes'
      BY <1>2, <2>3
    <3>2. Untouched(d, i)
      BY <1>3, <2>1, <2>3, <3>1, SamePairs
    <3> QED
      BY <1>1, <3>2, UntouchedKeeps
  <2> QED
    BY <2>2, <2>3
<1> QED
  BY <1>5, <1>6, <1>7

\* A PUT of the newest version is written; another of that version says the same.
LEMMA WritePutKept ==
  ASSUME Alone, AloneInv, NEW p \in puts, WritePut(p), NEW d \in Devices, NEW i \in Ids
  PROVE  Kept(d, i)'
<1>1. Kept(d, i) /\ HasSession(d) /\ Plain /\ SavesInv /\ TypeInv
  BY AloneTypes DEF AloneInv
<1>2. /\ p.dev = d /\ p.id \in Ids /\ p \in PutRecord /\ p.ws \in Entry /\ p.ws.version \in Nat
      /\ UNCHANGED <<tabs, timers, offlineQueue, offlineDeletes, flush, deletes>>
  BY AloneTypes DEF WritePut, Alone, stores, queues, engine, runs
<1>3. PICK t2 : t2 = Upserted(table, p.id, Account, p.ws, p.now)
  OBVIOUS
<1>4. table' = t2
  BY <1>3 DEF WritePut
<1>5. PICK a : /\ puts' \subseteq (puts \ {p}) \cup {a} /\ puts \ {p} \subseteq puts'
               /\ a.id = p.id /\ a.ws = p.ws /\ a.row = p.row
  <2>1. ~AnswerPut(p)
    BY DEF WritePut, AnswerPut
  <2> QED
    BY <1>1, <2>1, PutNext DEF ServesPut
<1>6. table \in Tables /\ table[p.id] # NoRow /\ table[p.id].owner = Account
      /\ table[p.id] \in Row /\ table[p.id].version \in Nat
  BY <1>1, <1>2, AloneTypes DEF Plain, PlainTable
<1>7. \/ t2 = table /\ p.ws.version < table[p.id].version
      \/ /\ table[p.id].version <= p.ws.version
         /\ t2[p.id].version = p.ws.version /\ t2[p.id].deleted = table[p.id].deleted
         /\ EntryOf(t2[p.id]) = p.ws
         /\ \A j \in Ids \ {p.id} : t2[j] = table[j]
  <2>1. CASE Wins(table, p.id, Account, p.ws.version)
    <3>1. PICK row : row = [owner |-> Account, content |-> p.ws.content, version |-> p.ws.version,
             updatedAt |-> p.now, deleted |-> Exists(table, p.id) /\ table[p.id].deleted,
             saved |-> p.ws.saved, open |-> p.ws.open]
      OBVIOUS
    <3>2. t2 = [table EXCEPT ![p.id] = row]
      BY <1>3, <2>1, <3>1 DEF Upserted
    <3>3. t2[p.id] = row /\ \A j \in Ids \ {p.id} : t2[j] = table[j]
      BY <1>2, <1>6, <3>2 DEF Tables
    <3>4. row.version = p.ws.version /\ EntryOf(row) = p.ws
      BY <1>2, <3>1 DEF EntryOf, Entry
    <3>5. row.deleted = table[p.id].deleted
      <4>1. table[p.id].deleted \in BOOLEAN
        BY <1>6 DEF Row
      <4>2. row.deleted = (Exists(table, p.id) /\ table[p.id].deleted) /\ Exists(table, p.id)
        BY <1>6, <3>1 DEF Exists
      <4> QED
        BY <4>1, <4>2
    <3>6. table[p.id].version <= p.ws.version
      BY <1>2, <1>6, <2>1 DEF Wins, Exists
    <3> QED
      BY <3>3, <3>4, <3>5, <3>6
  <2>2. CASE ~Wins(table, p.id, Account, p.ws.version)
    BY <1>2, <1>3, <1>6, <2>2 DEF Wins, Exists, Upserted
  <2> QED
    BY <2>1, <2>2
<1>8. CASE i = p.id /\ Has(tabs, d, i)
  <2>1. OpenKept(d, i) /\ Has(tabs, d, i)' /\ tabs[d][i].version \in Nat
    BY <1>1, <1>2, <1>8, AloneTypes DEF Kept, Has
  <2>2. \A q \in puts : q.id = i =>
          /\ q.dev = d /\ q.ws.version \in Nat /\ q.ws.version <= tabs[d][i].version
          /\ q.row # NoRow => q.row.version \in Nat
    <3>1. ASSUME NEW q \in puts, q.id = i
          PROVE  q.dev = d /\ q.ws.version \in Nat /\ (q.row # NoRow => q.row.version \in Nat)
      BY AloneTypes DEF Alone
    <3>2. ASSUME NEW q \in puts, q.id = i PROVE q.ws.version <= tabs[d][i].version
      BY <1>1, <1>8, <3>1, <3>2 DEF SavesInv, NoneNewer
    <3> QED
      BY <3>1, <3>2
  <2>3. \A q \in puts : q.id = i /\ q.ws.version = p.ws.version => q.ws = p.ws
    BY <1>1, <1>2, <1>8, <2>2 DEF SavesInv, OneContentPerVersion
  <2>4. SameStory(i)
    BY <2>1 DEF OpenKept
  <2>5. CASE t2 = table /\ p.ws.version < table[p.id].version
    <3>1. SameStory(i)'
      BY <1>4, <1>5, <1>6, <1>8, <2>4, <2>5 DEF SameStory
    <3>2. Sending(d, i) => Sending(d, i)' \/ Awaiting(d, i)'
      <4>1. ASSUME NEW q \in puts, q.ws = tabs[d][i] PROVE q # p
        BY <1>2, <1>6, <1>8, <2>1, <2>5, <4>1 DEF OpenKept
      <4> QED
        BY <1>2, <1>5, <4>1 DEF Sending
    <3>3. Awaiting(d, i) => Awaiting(d, i)'
      BY <1>2 DEF Awaiting, Has
    <3>4. NoDeletion(d, i) => NoDeletion(d, i)'
      BY <1>2 DEF NoDeletion
    <3>5. OpenKept(d, i)'
      BY <1>2, <1>4, <2>1, <2>5, <3>1, <3>2, <3>3, <3>4 DEF OpenKept
    <3> QED
      BY <2>1, <3>5 DEF Kept
  <2>6. CASE /\ table[p.id].version <= p.ws.version
             /\ t2[p.id].version = p.ws.version /\ t2[p.id].deleted = table[p.id].deleted
             /\ EntryOf(t2[p.id]) = p.ws
    <3>1. table'[i].version = p.ws.version /\ EntryOf(table'[i]) = p.ws
          /\ table'[i].deleted = table[i].deleted
      BY <1>4, <1>8, <2>6
    <3>2. p.ws.version <= tabs[d][i].version
      BY <1>8, <2>2
    <3>3. ASSUME NEW q \in puts, q.id = i
          PROVE  /\ q.ws.version = p.ws.version => q.ws = p.ws
                 /\ q.row # NoRow => /\ q.row.version <= p.ws.version
                                     /\ q.row.version = p.ws.version => EntryOf(q.row) = p.ws
      <4>1. q.ws.version = p.ws.version => q.ws = p.ws
        BY <2>3, <3>3
      <4>2. ASSUME q.row # NoRow PROVE q.row.version <= p.ws.version
                 /\ (q.row.version = p.ws.version => EntryOf(q.row) = p.ws)
        <5>1. /\ q.row.version <= table[i].version /\ q.row.version \in Nat
              /\ q.row.version = table[i].version => EntryOf(q.row) = EntryOf(table[i])
          BY <2>2, <2>4, <3>3, <4>2 DEF SameStory
        <5>2. q.row.version <= p.ws.version
          BY <1>2, <1>6, <1>8, <2>6, <5>1
        <5>3. ASSUME q.row.version = p.ws.version PROVE EntryOf(q.row) = p.ws
          <6>1. q.row.version = table[i].version /\ p.ws.version = table[i].version
            BY <1>2, <1>6, <1>8, <2>6, <5>1, <5>3
          <6>2. p.ws = EntryOf(table[i])
            BY <1>8, <2>4, <6>1 DEF SameStory
          <6> QED
            BY <5>1, <6>1, <6>2
        <5> QED
          BY <5>2, <5>3
      <4> QED
        BY <4>1, <4>2
    <3>4. SameStory(i)'
      <4> SUFFICES ASSUME NEW q \in puts', q.id = i
                   PROVE  /\ q.ws.version = table'[i].version => q.ws = EntryOf(table'[i])
                          /\ q.row # NoRow => /\ q.row.version <= table'[i].version
                                              /\ q.row.version = table'[i].version =>
                                                   EntryOf(q.row) = EntryOf(table'[i])
        BY DEF SameStory
      <4>1. CASE q \in puts
        BY <3>1, <3>3, <4>1
      <4>2. CASE q = a
        BY <1>5, <1>8, <3>1, <3>3, <4>2
      <4> QED
        BY <1>5, <4>1, <4>2
    <3>5. tabs[d][i] = EntryOf(table[i]) \/ Sending(d, i) =>
            tabs[d][i] = EntryOf(table'[i]) \/ Sending(d, i)'
      <4>1. CASE tabs[d][i] = EntryOf(table[i])
        <5>1. EntryOf(table[i]).version = table[i].version
          BY DEF EntryOf
        <5>2. p.ws.version = table[i].version
          BY <1>2, <1>6, <1>8, <2>1, <2>6, <3>2, <4>1, <5>1
        <5>3. p.ws = EntryOf(table[i])
          BY <1>8, <2>4, <5>2 DEF SameStory
        <5> QED
          BY <3>1, <4>1, <5>3
      <4>2. ASSUME NEW q \in puts, q.dev = d, q.id = i, Due(q), q.by # "nobody", q.ws = tabs[d][i]
            PROVE  tabs[d][i] = EntryOf(table'[i]) \/ Sending(d, i)'
        <5>1. CASE q = p
          BY <3>1, <4>2, <5>1
        <5>2. CASE q # p
          BY <1>2, <1>5, <4>2, <5>2 DEF Sending
        <5> QED
          BY <5>1, <5>2
      <4> QED
        BY <4>1, <4>2 DEF Sending
    <3>6. Awaiting(d, i) => Awaiting(d, i)'
      BY <1>2 DEF Awaiting, Has
    <3>7. NoDeletion(d, i) => NoDeletion(d, i)'
      BY <1>2 DEF NoDeletion
    <3>8. OpenKept(d, i)'
      BY <1>2, <2>1, <3>1, <3>2, <3>4, <3>5, <3>6, <3>7 DEF OpenKept
    <3> QED
      BY <2>1, <3>8 DEF Kept
  <2> QED
    BY <1>7, <2>5, <2>6
<1>9. CASE i = p.id /\ ~Has(tabs, d, i)
  <2>1. DeletionDue(d, i) => DeletionDue(d, i)'
    BY <1>2 DEF DeletionDue
  <2>2. table[i].deleted => table'[i].deleted
    BY <1>4, <1>7, <1>9
  <2> QED
    BY <1>1, <1>2, <1>9, <2>1, <2>2, ClosedKeeps DEF Has
<1>10. CASE i # p.id
  <2>1. table'[i] = table[i]
    BY <1>4, <1>7, <1>10
  <2>2. \A q \in puts' : q.id = i => q \in puts
    BY <1>5, <1>10
  <2>3. \A q \in puts : q.id = i => q \in puts'
    BY <1>5, <1>10
  <2>4. Untouched(d, i)
    BY <1>2, <2>1, <2>2, <2>3, SamePairs
  <2> QED
    BY <1>1, <2>4, UntouchedKeeps
<1> QED
  BY <1>8, <1>9, <1>10

LEMMA ServePutKept ==
  ASSUME Alone, AloneInv, NEW p \in puts, ServesPut(p), NEW d \in Devices, NEW i \in Ids
  PROVE  Kept(d, i)'
<1>1. Kept(d, i) /\ HasSession(d) /\ Plain /\ TypeInv
  BY AloneTypes DEF AloneInv
<1>2. p.dev = d /\ p.id \in Ids /\ table[p.id] # NoRow /\ table[p.id].owner = Account
  BY <1>1, AloneTypes DEF Alone, Plain, PlainTable
<1>3. CASE WritePut(p)
  BY <1>3, WritePutKept
<1>4. CASE StampPut(p) \/ AnswerPut(p)
  <2>1. UNCHANGED <<table, tabs, timers, offlineQueue, offlineDeletes, flush, deletes>>
    BY <1>1, <1>4, PutServed, ServedSame DEF ServesPut, server, stores, queues, engine, runs
  <2>2. PICK a : /\ puts' \subseteq (puts \ {p}) \cup {a} /\ puts \ {p} \subseteq puts'
                 /\ a.dev = p.dev /\ a.id = p.id /\ a.ws = p.ws /\ a.by = p.by
                 /\ a.row = p.row \/ a.row = OwnRow(table, p.id, Account)
                 /\ StampPut(p) => a \in puts' /\ Due(a)
    BY <1>1, <1>4, PutNext DEF ServesPut
  <2>3. Sending(d, i) => Sending(d, i)'
    <3>1. AnswerPut(p) => ~Due(p)
      BY DEF AnswerPut, Due
    <3> QED
      BY <1>4, <2>1, <2>2, <3>1 DEF Sending
  <2>4. SameStory(i) => SameStory(i)'
    <3> SUFFICES ASSUME SameStory(i), NEW q \in puts', q.id = i
                 PROVE  /\ q.ws.version = table[i].version => q.ws = EntryOf(table[i])
                        /\ q.row # NoRow => /\ q.row.version <= table[i].version
                                            /\ q.row.version = table[i].version =>
                                                 EntryOf(q.row) = EntryOf(table[i])
      BY <2>1 DEF SameStory
    <3>1. CASE q \in puts
      BY <3>1 DEF SameStory
    <3>2. CASE q = a
      <4>1. q.row = p.row \/ q.row = table[i]
        BY <1>2, <2>2, <3>2 DEF OwnRow, Owns, Exists
      <4>2. table[i].version \in Nat
        BY AloneTypes
      <4> QED
        BY <2>2, <3>2, <4>1, <4>2 DEF SameStory
    <3> QED
      BY <2>2, <3>1, <3>2
  <2>5. /\ Awaiting(d, i) => Awaiting(d, i)'
        /\ DeletionDue(d, i) => DeletionDue(d, i)'
        /\ NoDeletion(d, i) => NoDeletion(d, i)'
    BY <2>1 DEF Awaiting, Has, DeletionDue, NoDeletion
  <2>6. Untouched(d, i)
    BY <2>1, <2>3, <2>4, <2>5 DEF Untouched
  <2> QED
    BY <1>1, <2>6, UntouchedKeeps
<1> QED
  BY <1>1, <1>2, <1>3, <1>4, PutServed DEF ServesPut

LEMMA NextAlone ==
  ASSUME Alone, AloneInv, [Next]_vars PROVE AloneInv'
<1>1. AloneStep
  BY AloneSteps
<1>2. TypeInv' /\ BornInv' /\ NoArrivals' /\ SavesInv'
  <2>1. TypeInv /\ BornInv /\ NoArrivals /\ SavesInv /\ NothingReopens
    BY AloneReopensNothing DEF AloneInv
  <2>2. TypeInv' /\ BornInv' /\ NoArrivals'
    BY <2>1, NextTypeInv, NextBorn, NextNoArrivals
  <2>3. SavesInv'
    BY <2>1, <2>2, NoArrivalsNoReturn, SavesStep DEF NoArrivals
  <2> QED
    BY <2>2, <2>3
<1>3. Plain'
  BY <1>1, NextPlain
<1>4. ASSUME NEW d \in Devices, NEW i \in Ids PROVE Kept(d, i)'
  <2>1. ASSUME NEW e \in Devices PROVE e = d
    BY DEF Alone
  <2>2. CASE \E e \in Devices, id \in Ids : Edit(e, id) \/ CloseUnsaved(e, id) \/ TimerFires(e, id)
    BY <2>1, <2>2, EditKept, CloseKept, TimerKept
  <2>3. CASE \E e \in Devices, f \in Flushes, id \in Ids : FlushDelete(e, f, id) \/ FlushPush(e, f, id)
    BY <2>1, <2>3, FlushDeleteKept, FlushPushKept
  <2>4. CASE \E e \in Devices, f \in Flushes : FlushTakeQueue(e, f) \/ FlushEnds(e, f)
    BY <2>1, <2>4, QueueTakenKept, FlushEndsKept
  <2>5. CASE \E e \in Devices : GoOffline(e) \/ GoOnline(e)
    BY <2>1, <2>5, CallGoneKept, GoOnlineKept
  <2>6. CASE \E p \in puts : PutDone(p) \/ PutConflict(p) \/ PutFails(p) \/ ServesPut(p)
    BY <2>6, CallGoneKept, ConflictKept, PutFailsKept, ServePutKept
  <2>7. CASE \E c \in deletes : DeleteDone(c) \/ DeleteFails(c) \/ ServesDelete(c)
    BY <2>7, CallGoneKept, DeleteFailsKept, ServeDeleteKept
  <2>8. CASE (\E p \in puts \cup deletes : Orphaned(p)) \/ UNCHANGED vars
    BY <2>8, CallGoneKept
  <2> QED
    BY <1>1, <2>2, <2>3, <2>4, <2>5, <2>6, <2>7, <2>8 DEF AloneStep
<1> QED
  BY <1>2, <1>3, <1>4 DEF AloneInv

\* One device that edits and closes workspaces agrees with the server in every field
\* as soon as it has nothing left to do: through any outages, lost requests, lost
\* replies, late writes and failed deletes, for any workspaces and operations.
\* (autoSave, pushEntry, requestDelete, flushOfflineQueue)
THEOREM SettledAloneInStep == Alone => (Spec => []SettledInStep)
<1> SUFFICES ASSUME Alone PROVE Spec => []SettledInStep
  OBVIOUS
<1>1. Init => AloneInv
  BY InitAlone
<1>2. AloneInv /\ [Next]_vars => AloneInv'
  BY NextAlone
<1>3. AloneInv => SettledInStep
  BY AloneInStep
<1> QED
  BY <1>1, <1>2, <1>3, PTL DEF Spec

-----------------------------------------------------------------------------
(* As long as no call fails, no workspace is missing, logins included.         *)

\* The DELETE of id is on its way.
Leaving(d, id) ==
  \E c \in deletes : c.dev = d /\ c.id = id /\ c.code = 0 /\ c.by # "nobody"

\* onLogin has asked for the rows and nothing has reset isSyncing.
Fetching(d) == login[d].stage = "pull" /\ isSyncing[d]

\* The login's commit will overwrite the tabs, and nobody will notice.
Overwriting(d) == login[d].stage = "push" /\ isSyncing[d]

\* The workspace is in the library or the tabs, and if the login that runs is going
\* to overwrite them unnoticed, in what it will write; or its DELETE is on its way.
Sure(d, id) ==
  /\ ~Fetching(d)
  /\ \/ library[d][id] # <<>> \/ Leaving(d, id)
     \/ login[d].stage = "push" /\ login[d].stash[id] # NoEntry
     \/ tabs[d][id] # NoEntry /\ ~Overwriting(d)

\* Row id lives, and a pull that d has merged, or one that follows it, takes it for known.
Covered(d, id) ==
  /\ Live(id) /\ id \notin late[d]
  /\ \/ table[id].updatedAt < syncCursor[d]
     \/ \E q \in pulls : q.dev = d /\ table[id].updatedAt < q.since

NothingLost == \A d \in Devices, id \in Ids : auth[d] = "authed" /\ Covered(d, id) => Sure(d, id)

\* No one is offline, nothing is queued and no flush has anything to send.
Connected ==
  /\ \A d \in Devices : online[d] /\ offlineQueue[d] = Nothing
  /\ \A d \in Devices, f \in Flushes : flush[d][f].ids = {}
  /\ \A c \in puts \cup deletes : c.by \notin Flushes

\* The flush that ends a login runs while the login waits for it.
LoginFlushes ==
  \A d \in Devices : login[d].stage = "flush" <=> flush[d]["loginFlush"].stage # "idle"

\* What a page with a session can rely on.
PageSound(d) ==
  /\ offlineDeletes[d] = {}
  /\ \A c \in deletes : c.dev = d /\ c.code = 401 => c.by = "nobody"

LoginSound(d) ==
  /\ isSyncing[d] => login[d].stage # "idle"
  /\ \A q \in pulls : q.dev = d /\ q.by = "login" => q.since = 0 /\ login[d].stage = "pull"
  /\ \A q, r \in pulls : q.dev = d /\ r.dev = d /\ q.by = "login" /\ r.by = "login" => q = r

LoadingSound(d) == syncCursor[d] = 0 /\ \A q \in pulls : q.dev # d

PagesSound ==
  \A d \in Devices :
    /\ auth[d] # "anonymous" => PageSound(d)
    /\ auth[d] = "authed" => LoginSound(d)
    /\ auth[d] = "loading" => LoadingSound(d)

Owned == \A id \in Ids : Exists(table, id) => table[id].owner = Account

\* An answer brings what lives and was stamped before its cursor, unless it was asked
\* only for later rows or was there too early; a row it calls deleted is.
Truthful ==
  \A q \in pulls, id \in Ids : q.stage = "answered" =>
    /\ Live(id) /\ table[id].updatedAt < q.cursor /\ id \notin late[q.dev] =>
         q.rows[id] # NoRow \/ table[id].updatedAt < q.since
    /\ q.rows[id] # NoRow /\ q.rows[id].deleted => Exists(table, id) /\ table[id].deleted

Whole == NothingLost /\ Connected /\ LoginFlushes /\ PagesSound /\ Owned /\ Truthful

MissInv == faults \in Nat /\ (faults = 0 => Whole)

LEMMA WholeMeansNoneMissing == TypeInv /\ MissInv => NoneMissing
<1> SUFFICES ASSUME TypeInv, Whole, NEW d \in Devices, NEW id \in Ids, Settled(d, id), Live(id),
                    table[id].updatedAt < syncCursor[d], id \notin late[d]
             PROVE  Held(d, id) # {}
  BY DEF NoneMissing, MissInv, UpToDate, Live, Exists
<1>1. Sure(d, id)
  BY DEF Whole, NothingLost, Covered, Settled
<1>2. login[d].stage = "idle" /\ ~Leaving(d, id)
  BY DEF Settled, Tracked, Leaving
<1>3. CASE library[d][id] # <<>>
  <2>1. library[d][id] \in Seq(Entry)
    BY DEF TypeInv, TypeOK, StoresOK
  <2>2. 1 \in DOMAIN library[d][id]
    BY <1>3, <2>1, EmptySeq, LenProperties
  <2>3. library[d][id][1] \in Held(d, id)
    BY <2>2 DEF Held
  <2> QED
    BY <2>3
<1>4. CASE tabs[d][id] # NoEntry
  BY <1>4 DEF Held
<1> QED
  BY <1>1, <1>2, <1>3, <1>4 DEF Sure

\* A device that is between two awaits is neither flushing nor about to.
LEMMA EventsBetweenFlushes ==
  ASSUME Connected, LoginFlushes, NEW d \in Devices, ~Running(d)
  PROVE  /\ \A f \in Flushes : flush[d][f].stage = "idle"
         /\ login[d].stage # "flush"
<1>1. \A f \in Flushes : ~Awaits(d, f)
  BY DEF Connected, Awaits
<1>2. \A f \in Flushes : flush[d][f].stage = "idle"
  BY <1>1 DEF Running
<1> QED
  BY <1>2 DEF LoginFlushes, Flushes

\* Nothing the device holds for id, or is doing about it, goes away.
LEMMA SureElsewhere ==
  ASSUME NEW e \in Devices, NEW i \in Ids, Sure(e, i),
         tabs'[e][i] = tabs[e][i], library'[e][i] = library[e][i], deletes \subseteq deletes',
         login'[e] = login[e], isSyncing'[e] => isSyncing[e]
  PROVE  Sure(e, i)'
  BY DEF Sure, Fetching, Overwriting, Leaving

LEMMA SameNews ==
  ASSUME Owned, Truthful, UNCHANGED <<table, late, syncCursor>>, pulls' \subseteq pulls
  PROVE  /\ Owned' /\ Truthful'
         /\ \A e \in Devices, i \in Ids : Covered(e, i)' => Covered(e, i)
<1>1. \A i \in Ids : Live(i)' = Live(i) /\ Exists(table, i)' = Exists(table, i)
  BY DEF Live, Exists
<1>2. Owned'
  BY <1>1 DEF Owned
<1>3. Truthful'
  BY <1>1 DEF Truthful
<1>4. \A e \in Devices, i \in Ids : Covered(e, i)' => Covered(e, i)
  BY <1>1 DEF Covered
<1> QED
  BY <1>2, <1>3, <1>4

\* A step of tabs, library and calls: what remains to be said of it.
LEMMA StoresStirred ==
  ASSUME Whole, UNCHANGED <<table, late, syncCursor, session, flush, offlineQueue>>,
         pulls' \subseteq pulls,
         \A c \in deletes' : c \in deletes \/ (c.code = 0 /\ c.by \notin Flushes),
         \A p \in puts' : p \in puts \/ p.by \notin Flushes,
         \A e \in Devices : auth[e] # "anonymous" => offlineDeletes'[e] = offlineDeletes[e],
         \A e \in Devices : auth[e] = "authed" =>
           login'[e].stage = login[e].stage /\ (isSyncing'[e] => isSyncing[e]),
         \A e \in Devices : login'[e].stage = "flush" <=> login[e].stage = "flush",
         \A e \in Devices, i \in Ids : auth[e] = "authed" /\ Covered(e, i) /\ Sure(e, i) => Sure(e, i)'
  PROVE  Whole'
<1>1. Owned' /\ Truthful' /\ \A e \in Devices, i \in Ids : Covered(e, i)' => Covered(e, i)
  BY SameNews DEF Whole
<1>2. auth' = auth /\ online' = online
  BY DEF session
<1>3. NothingLost'
  BY <1>1, <1>2 DEF Whole, NothingLost
<1>4. Connected'
  BY <1>2 DEF Whole, Connected
<1>5. LoginFlushes'
  BY DEF Whole, LoginFlushes
<1>6. PagesSound'
  <2> SUFFICES ASSUME NEW e \in Devices
               PROVE  /\ auth[e] # "anonymous" => PageSound(e)'
                      /\ auth[e] = "authed" => LoginSound(e)'
                      /\ auth[e] = "loading" => LoadingSound(e)'
    BY <1>2 DEF PagesSound
  <2>1. auth[e] # "anonymous" => PageSound(e)'
    BY <1>2 DEF Whole, PagesSound, PageSound
  <2>2. auth[e] = "authed" => LoginSound(e)'
    BY DEF Whole, PagesSound, LoginSound
  <2>3. auth[e] = "loading" => LoadingSound(e)'
    BY DEF Whole, PagesSound, LoadingSound
  <2> QED
    BY <2>1, <2>2, <2>3
<1> QED
  BY <1>1, <1>3, <1>4, <1>5, <1>6 DEF Whole

\* The calls a device sends of its own.
LEMMA OwnDelete ==
  ASSUME Connected, NEW d \in Devices, NEW id \in Ids, RequestDelete(d, id, "own")
  PROVE  /\ Leaving(d, id)' /\ deletes \subseteq deletes'
         /\ \A c \in deletes' : c \in deletes \/ (c.code = 0 /\ c.by \notin Flushes)
         /\ offlineDeletes \in [Devices -> SUBSET Ids] => offlineDeletes' = offlineDeletes
<1> DEFINE call == DeleteCall(d, id, "own")
<1>1. online[d]
  BY DEF Connected
<1>2. deletes' = deletes \cup {call}
  BY <1>1 DEF RequestDelete, DeleteCalls, DeleteCall
<1>3. offlineDeletes' = [offlineDeletes EXCEPT ![d] = @ \cup {}]
  BY <1>1 DEF RequestDelete, DeletesQueued
<1>4. offlineDeletes \in [Devices -> SUBSET Ids] => offlineDeletes' = offlineDeletes
  BY <1>3
<1>5. call.dev = d /\ call.id = id /\ call.by = "own" /\ call.code = 0
  BY DEF DeleteCall
<1> QED
  BY <1>2, <1>4, <1>5 DEF Leaving, Flushes

LEMMA OwnPush ==
  ASSUME Connected, NEW d \in Devices, NEW id \in Ids, NEW ws, PushEntry(d, id, ws, "own")
  PROVE  /\ offlineQueue' = offlineQueue
         /\ \A p \in puts' : p \in puts \/ p.by \notin Flushes
<1>1. online[d]
  BY DEF Connected
<1> QED
  BY <1>1 DEF PushEntry, PutCall, Flushes

\* Stores are functions of devices and ids.
LEMMA TabReplaced ==
  ASSUME TypeInv, NEW d \in Devices, NEW id \in Ids, NEW e, tabs' = [tabs EXCEPT ![d][id] = e]
  PROVE  /\ tabs'[d][id] = e
         /\ \A x \in Devices, i \in Ids : x # d \/ i # id => tabs'[x][i] = tabs[x][i]
  BY DEF TypeInv, TypeOK, StoresOK, EntryMap

LEMMA FiledReplaced ==
  ASSUME TypeInv, NEW d \in Devices, NEW id \in Ids, NEW e, library' = [library EXCEPT ![d][id] = e]
  PROVE  /\ library'[d][id] = e
         /\ \A x \in Devices, i \in Ids : x # d \/ i # id => library'[x][i] = library[x][i]
  BY DEF TypeInv, TypeOK, StoresOK

LEMMA SyncingReset ==
  ASSUME TypeInv, NEW d \in Devices, isSyncing' = [isSyncing EXCEPT ![d] = FALSE]
  PROVE  ~isSyncing'[d] /\ \A x \in Devices : isSyncing'[x] => isSyncing[x]
  BY DEF TypeInv, TypeOK, EngineOK

LEMMA ChangeTabWhole ==
  ASSUME TypeInv, Whole, NEW d \in Devices, NEW id \in Ids, NEW e \in Entry, ChangeTab(d, id, e)
  PROVE  Whole'
<1>1. /\ UNCHANGED <<table, late, syncCursor, pulls, session, login, flush, queues, isSyncing,
                     library, puts, deletes>>
      /\ tabs' = [tabs EXCEPT ![d][id] = e]
  BY DEF ChangeTab, server, network, runs
<1>2. \A x \in Devices, i \in Ids : tabs'[x][i] = tabs[x][i] \/ tabs'[x][i] # NoEntry
  BY <1>1, TabReplaced, NoEntryIsNoEntry
<1>3. \A x \in Devices, i \in Ids : Sure(x, i) => Sure(x, i)'
  BY <1>1, <1>2 DEF Sure, Fetching, Overwriting, Leaving
<1> QED
  BY <1>1, <1>3, StoresStirred DEF queues

LEMMA RemoveTabWhole ==
  ASSUME TypeInv, Whole, NEW d \in Devices, NEW id \in Ids, RemoveTab(d, id),
         login[d].stage # "flush"
  PROVE  Whole'
<1>1. /\ UNCHANGED <<table, late, syncCursor, pulls, session, login, flush, isSyncing, library, puts>>
      /\ tabs' = [tabs EXCEPT ![d][id] = NoEntry]
  BY DEF RemoveTab, server, engine, runs
<1>2. \A x \in Devices, i \in Ids : (x # d \/ i # id) => tabs'[x][i] = tabs[x][i]
  BY <1>1, TabReplaced
<1>3. CASE Watching(d)
  <2>1. RequestDelete(d, id, "own") /\ offlineQueue' = [offlineQueue EXCEPT ![d][id] = NoEntry]
    BY <1>3 DEF RemoveTab
  <2>2. offlineQueue' = offlineQueue /\ offlineDeletes \in [Devices -> SUBSET Ids]
    <3>1. offlineQueue \in [Devices -> EntryMap] /\ offlineDeletes \in [Devices -> SUBSET Ids]
      BY DEF TypeInv, TypeOK, QueuesOK
    <3>2. offlineQueue[d][id] = NoEntry
      BY DEF Whole, Connected, Nothing
    <3> QED
      BY <2>1, <3>1, <3>2 DEF EntryMap
  <2>3. /\ Leaving(d, id)' /\ deletes \subseteq deletes' /\ offlineDeletes' = offlineDeletes
        /\ \A c \in deletes' : c \in deletes \/ (c.code = 0 /\ c.by \notin Flushes)
    BY <2>1, <2>2, OwnDelete DEF Whole
  <2>4. ASSUME NEW x \in Devices, NEW i \in Ids, Sure(x, i)
        PROVE  Sure(x, i)'
    <3>1. CASE x # d \/ i # id
      BY <1>1, <1>2, <2>3, <2>4, <3>1, SureElsewhere
    <3>2. CASE x = d /\ i = id
      BY <1>1, <2>3, <2>4, <3>2 DEF Sure, Fetching
    <3> QED
      BY <3>1, <3>2
  <2> QED
    BY <1>1, <2>2, <2>3, <2>4, StoresStirred DEF queues
<1>4. CASE ~Watching(d)
  <2>1. UNCHANGED <<queues, deletes>>
    BY <1>4 DEF RemoveTab
  <2>2. ASSUME NEW x \in Devices, NEW i \in Ids, auth[x] = "authed", Sure(x, i)
        PROVE  Sure(x, i)'
    <3>1. CASE x # d \/ i # id
      BY <1>1, <1>2, <2>1, <2>2, <3>1, SureElsewhere
    <3>2. CASE x = d /\ i = id
      <4>1. isSyncing[d]
        BY <1>4, <2>2, <3>2 DEF Watching
      <4>2. login[d].stage # "idle"
        BY <2>2, <3>2, <4>1 DEF Whole, PagesSound, LoginSound
      <4>3. login[d].stage \in {"idle", "pull", "push", "flush"}
        BY DEF TypeInv, TypeOK, RunsOK, LoginRecord
      <4>4. Overwriting(d) /\ ~Fetching(d)
        BY <2>2, <3>2, <4>1, <4>2, <4>3 DEF Sure, Fetching, Overwriting
      <4> QED
        BY <1>1, <2>1, <2>2, <3>2, <4>4 DEF Sure, Fetching, Leaving
    <3> QED
      BY <3>1, <3>2
  <2> QED
    BY <1>1, <2>1, <2>2, StoresStirred DEF queues
<1> QED
  BY <1>3, <1>4

LEMMA MoveSavedWhole ==
  ASSUME TypeInv, Whole, NEW d \in Devices, NEW id \in Ids, NEW tab, NEW filed, NEW moved,
         MoveSaved(d, id, tab, filed, moved), tab # NoEntry \/ filed # <<>>
  PROVE  Whole'
<1>1. /\ UNCHANGED <<table, late, syncCursor, pulls, session, login, flush, deletes, offlineDeletes>>
      /\ tabs' = [tabs EXCEPT ![d][id] = tab]
      /\ library' = [library EXCEPT ![d][id] = filed]
      /\ isSyncing' = [isSyncing EXCEPT ![d] = FALSE]
      /\ PushEntry(d, id, moved, "own")
  BY DEF MoveSaved, server, runs
<1>2. /\ \A x \in Devices, i \in Ids : (x # d \/ i # id) =>
           tabs'[x][i] = tabs[x][i] /\ library'[x][i] = library[x][i]
      /\ tabs'[d][id] = tab /\ library'[d][id] = filed
      /\ ~isSyncing'[d] /\ \A x \in Devices : isSyncing'[x] => isSyncing[x]
  <2>1. tabs'[d][id] = tab /\ \A x \in Devices, i \in Ids : (x # d \/ i # id) => tabs'[x][i] = tabs[x][i]
    BY <1>1 DEF TypeInv, TypeOK, StoresOK, EntryMap
  <2>2. /\ library'[d][id] = filed
        /\ \A x \in Devices, i \in Ids : (x # d \/ i # id) => library'[x][i] = library[x][i]
    BY <1>1 DEF TypeInv, TypeOK, StoresOK
  <2>3. ~isSyncing'[d] /\ \A x \in Devices : isSyncing'[x] => isSyncing[x]
    BY <1>1, SyncingReset
  <2> QED
    BY <2>1, <2>2, <2>3
<1>3. offlineQueue' = offlineQueue /\ \A p \in puts' : p \in puts \/ p.by \notin Flushes
  BY <1>1, OwnPush DEF Whole
<1>4. ASSUME NEW x \in Devices, NEW i \in Ids, Sure(x, i)
      PROVE  Sure(x, i)'
  <2>1. CASE x # d \/ i # id
    BY <1>1, <1>2, <1>4, <2>1, SureElsewhere
  <2>2. CASE x = d /\ i = id
    BY <1>2, <2>2 DEF Sure, Fetching, Overwriting
  <2> QED
    BY <2>1, <2>2
<1> QED
  BY <1>1, <1>2, <1>3, <1>4, StoresStirred DEF queues

LEMMA UserWhole ==
  ASSUME TypeInv, Whole, NEW d \in Devices, NEW id \in Ids, login[d].stage # "flush",
         \/ Create(d, id) \/ Edit(d, id) \/ ToggleSaved(d, id)
         \/ CloseUnsaved(d, id) \/ CloseSaved(d, id) \/ OpenSaved(d, id)
         \/ RenameClosed(d, id) \/ DeleteOpen(d, id) \/ DeleteClosed(d, id)
  PROVE  Whole'
<1>1. CASE Create(d, id)
  <2>1. [content |-> ops', version |-> 1, saved |-> FALSE, open |-> TRUE] \in Entry
    BY <1>1, DoesType DEF Create, Entry
  <2> QED
    BY <1>1, <2>1, ChangeTabWhole DEF Create
<1>2. CASE Edit(d, id) \/ ToggleSaved(d, id)
  <2>1. tabs[d][id] \in Entry
    BY <1>2, TabEntry DEF Edit, ToggleSaved
  <2>2. Edit(d, id) => [tabs[d][id] EXCEPT !.content = ops'] \in Entry
    BY <2>1, DoesType DEF Edit, Entry
  <2>3. [tabs[d][id] EXCEPT !.saved = ~@] \in Entry
    BY <2>1 DEF Entry
  <2> QED
    BY <1>2, <2>2, <2>3, ChangeTabWhole DEF Edit, ToggleSaved
<1>3. CASE CloseUnsaved(d, id) \/ DeleteOpen(d, id)
  BY <1>3, RemoveTabWhole DEF CloseUnsaved, DeleteOpen
<1>4. CASE CloseSaved(d, id)
  <2> DEFINE closed == Bump([tabs[d][id] EXCEPT !.open = FALSE])
  <2>1. MoveSaved(d, id, NoEntry, Append(library[d][id], closed), closed)
    BY <1>4 DEF CloseSaved
  <2>2. library[d][id] \in Seq(Entry) /\ closed \in Entry
    <3>1. tabs[d][id] \in Entry
      BY <1>4, TabEntry DEF CloseSaved
    <3>2. [tabs[d][id] EXCEPT !.open = FALSE] \in Entry
      BY <3>1 DEF Entry
    <3> QED
      BY <3>2, BumpType DEF TypeInv, TypeOK, StoresOK
  <2> HIDE DEF closed
  <2>3. Append(library[d][id], closed) # <<>>
    BY <2>2, AppendProperties
  <2> QED
    BY <2>1, <2>3, MoveSavedWhole
<1>5. CASE OpenSaved(d, id)
  <2> DEFINE opened == Bump([FirstFiled(d, id) EXCEPT !.open = TRUE])
  <2>1. MoveSaved(d, id, opened, <<>>, opened) /\ Filed(d, id)
    BY <1>5 DEF OpenSaved
  <2>2. [FirstFiled(d, id) EXCEPT !.open = TRUE] \in Entry
    BY <2>1, FiledEntry DEF Entry
  <2>3. opened # NoEntry
    BY <2>2, BumpType, NoEntryIsNoEntry
  <2> QED
    BY <2>1, <2>3, MoveSavedWhole
<1>6. CASE RenameClosed(d, id)
  <2> DEFINE renamed == Bump([FirstFiled(d, id) EXCEPT !.content = ops'])
  <2>1. /\ UNCHANGED <<table, late, syncCursor, pulls, session, login, flush, deletes,
                       offlineDeletes, isSyncing, tabs>>
        /\ library' = [library EXCEPT ![d][id] = [j \in DOMAIN @ |-> renamed]]
        /\ PushEntry(d, id, renamed, "own") /\ library[d][id] # <<>>
    BY <1>6 DEF RenameClosed, server, engine, runs, Filed
  <2>2. library[d][id] \in Seq(Entry)
    BY DEF TypeInv, TypeOK, StoresOK
  <2> HIDE DEF renamed
  <2>3. [j \in DOMAIN library[d][id] |-> renamed] # <<>>
    <3>1. DOMAIN library[d][id] # {}
      <4>1. Len(library[d][id]) \in DOMAIN library[d][id]
        BY <2>1, <2>2, EmptySeq, LenProperties
      <4> QED
        BY <4>1
    <3>2. DOMAIN [j \in DOMAIN library[d][id] |-> renamed] = DOMAIN library[d][id]
      OBVIOUS
    <3>3. DOMAIN <<>> = {}
      OBVIOUS
    <3> QED
      BY <3>1, <3>2, <3>3
  <2>4. \A x \in Devices, i \in Ids : library[x][i] # <<>> => library'[x][i] # <<>>
    <3>1. library' = [library EXCEPT ![d][id] = [j \in DOMAIN library[d][id] |-> renamed]]
      BY <2>1 DEF TypeInv, TypeOK, StoresOK
    <3> QED
      BY <2>3, <3>1, FiledReplaced
  <2>5. offlineQueue' = offlineQueue /\ \A p \in puts' : p \in puts \/ p.by \notin Flushes
    BY <2>1, OwnPush DEF Whole
  <2>6. \A x \in Devices, i \in Ids : Sure(x, i) => Sure(x, i)'
    BY <2>1, <2>4 DEF Sure, Fetching, Overwriting, Leaving
  <2> QED
    BY <2>1, <2>5, <2>6, StoresStirred DEF queues
<1>7. CASE DeleteClosed(d, id)
  <2>1. /\ UNCHANGED <<table, late, syncCursor, pulls, session, login, flush, offlineQueue,
                       isSyncing, tabs, puts>>
        /\ library' = [library EXCEPT ![d][id] = <<>>] /\ RequestDelete(d, id, "own")
    BY <1>7 DEF DeleteClosed, server, engine, runs
  <2>2. /\ Leaving(d, id)' /\ deletes \subseteq deletes' /\ offlineDeletes' = offlineDeletes
        /\ \A c \in deletes' : c \in deletes \/ (c.code = 0 /\ c.by \notin Flushes)
    BY <2>1, OwnDelete DEF Whole, TypeInv, TypeOK, QueuesOK
  <2>3. \A x \in Devices, i \in Ids : (x # d \/ i # id) => library'[x][i] = library[x][i]
    BY <2>1, FiledReplaced
  <2>4. ASSUME NEW x \in Devices, NEW i \in Ids, Sure(x, i)
        PROVE  Sure(x, i)'
    <3>1. CASE x # d \/ i # id
      BY <2>1, <2>2, <2>3, <2>4, <3>1, SureElsewhere
    <3>2. CASE x = d /\ i = id
      BY <2>1, <2>2, <2>4, <3>2 DEF Sure, Fetching
    <3> QED
      BY <3>1, <3>2
  <2> QED
    BY <2>1, <2>2, <2>4, StoresStirred DEF queues
<1> QED
  BY <1>1, <1>2, <1>3, <1>4, <1>5, <1>6, <1>7

LEMMA TimerWhole ==
  ASSUME TypeInv, Whole, NEW d \in Devices, NEW id \in Ids, TimerFires(d, id)
  PROVE  Whole'
<1>1. UNCHANGED <<table, late, syncCursor, pulls, session, login, flush, deletes, library,
                  offlineDeletes>>
  BY DEF TimerFires, server, runs
<1>2. CASE Has(tabs, d, id)
  <2>1. /\ tabs' = [tabs EXCEPT ![d][id] = Bump(tabs[d][id])]
        /\ isSyncing' = [isSyncing EXCEPT ![d] = FALSE]
        /\ PushEntry(d, id, Bump(tabs[d][id]), "own")
    BY <1>2 DEF TimerFires, AutoSave, Whole, Connected
  <2>2. Bump(tabs[d][id]) # NoEntry
    BY <1>2, TabEntry, BumpType, NoEntryIsNoEntry
  <2>3. /\ \A x \in Devices, i \in Ids : tabs[x][i] # NoEntry => tabs'[x][i] # NoEntry
        /\ \A x \in Devices : isSyncing'[x] => isSyncing[x]
    BY <2>1, <2>2, TabReplaced, SyncingReset
  <2>4. offlineQueue' = offlineQueue /\ \A p \in puts' : p \in puts \/ p.by \notin Flushes
    BY <2>1, OwnPush DEF Whole
  <2>5. \A x \in Devices, i \in Ids : Sure(x, i) => Sure(x, i)'
    BY <1>1, <2>3 DEF Sure, Fetching, Overwriting, Leaving
  <2> QED
    BY <1>1, <2>3, <2>4, <2>5, StoresStirred DEF queues
<1>3. CASE ~Has(tabs, d, id)
  <2>1. UNCHANGED <<tabs, offlineQueue, isSyncing, puts>>
    BY <1>3 DEF TimerFires
  <2>2. \A x \in Devices, i \in Ids : Sure(x, i) => Sure(x, i)'
    BY <1>1, <2>1 DEF Sure, Fetching, Overwriting, Leaving
  <2> QED
    BY <1>1, <2>1, <2>2, StoresStirred DEF queues
<1> QED
  BY <1>2, <1>3

\* Calls that end: what is in flight stays, or nobody waits for it.
LEMMA CallsEndWhole ==
  ASSUME TypeInv, Whole,
         \/ \E p \in puts : PutDone(p)
         \/ \E c \in deletes : DeleteDone(c)
         \/ \E p \in puts \cup deletes : Orphaned(p)
  PROVE  Whole'
<1>1. /\ UNCHANGED <<table, late, syncCursor, session, flush, offlineQueue, offlineDeletes, pulls,
                     login, isSyncing, tabs, library>>
      /\ puts' \subseteq puts /\ deletes' \subseteq deletes
      /\ \A c \in deletes : c.code = 0 /\ c.by # "nobody" => c \in deletes'
  BY DEF PutDone, DeleteDone, Orphaned, server, queues, engine, runs, stores
<1>2. \A e \in Devices, i \in Ids : Sure(e, i) => Sure(e, i)'
  BY <1>1 DEF Sure, Fetching, Overwriting, Leaving
<1> QED
  BY <1>1, <1>2, StoresStirred

LEMMA ConflictWhole ==
  ASSUME TypeInv, Whole, NEW p \in puts, PutConflict(p)
  PROVE  Whole'
<1>1. /\ UNCHANGED <<table, late, syncCursor, session, flush, offlineQueue, offlineDeletes, pulls,
                     login, library, deletes>>
      /\ puts' \subseteq puts
      /\ isSyncing' = [isSyncing EXCEPT ![p.dev] = FALSE]
      /\ tabs' = tabs \/ tabs' = [tabs EXCEPT ![p.dev][p.id] = EntryOf(p.row)]
  BY DEF PutConflict, server, queues, runs
<1>2. p.dev \in Devices /\ p.id \in Ids /\ EntryOf(p.row) # NoEntry
  BY PutsType, EntryOfType, NoEntryIsNoEntry DEF PutConflict
<1>3. \A x \in Devices : isSyncing'[x] => isSyncing[x]
  BY <1>1, <1>2, SyncingReset
<1>4. \A x \in Devices, i \in Ids : tabs[x][i] # NoEntry => tabs'[x][i] # NoEntry
  <2>1. CASE tabs' = tabs
    BY <2>1
  <2>2. CASE tabs' = [tabs EXCEPT ![p.dev][p.id] = EntryOf(p.row)]
    BY <1>2, <2>2, TabReplaced
  <2> QED
    BY <1>1, <2>1, <2>2
<1>5. \A x \in Devices, i \in Ids : Sure(x, i) => Sure(x, i)'
  BY <1>1, <1>3, <1>4 DEF Sure, Fetching, Overwriting, Leaving
<1> QED
  BY <1>1, <1>3, <1>5, StoresStirred

LEMMA LoginPushedWhole ==
  ASSUME TypeInv, Whole, NEW p \in puts, LoginPushed(p)
  PROVE  Whole'
<1>1. /\ UNCHANGED <<table, late, syncCursor, session, flush, offlineQueue, offlineDeletes, pulls,
                     tabs, library, isSyncing, deletes>>
      /\ puts' \subseteq puts /\ p.code \in {200, 401, 409}
      /\ login' = IF p.code = 401 THEN login
                  ELSE [login EXCEPT ![p.dev].stash[p.id] = EntryOf(p.row)]
  BY DEF LoginPushed, server, stores, engine, queues
<1>2. p.dev \in Devices /\ p.id \in Ids /\ (p.code # 401 => EntryOf(p.row) # NoEntry)
  BY <1>1, PutsType, EntryOfType, NoEntryIsNoEntry
<1>3. \A x \in Devices : /\ login'[x].stage = login[x].stage
                         /\ \A i \in Ids : login[x].stash[i] # NoEntry => login'[x].stash[i] # NoEntry
  <2>1. login \in [Devices -> LoginRecord]
    BY DEF TypeInv, TypeOK, RunsOK
  <2> QED
    BY <1>1, <1>2, <2>1 DEF LoginRecord, EntryMap
<1>4. \A x \in Devices, i \in Ids : Sure(x, i) => Sure(x, i)'
  BY <1>1, <1>3 DEF Sure, Fetching, Overwriting, Leaving
<1> QED
  BY <1>1, <1>3, <1>4, StoresStirred

\* Calls fail only without a session, and then nobody relies on them.
LEMMA FailureWhole ==
  ASSUME TypeInv, Whole, NEW d \in Devices, ~Running(d), FailureEvent(d), faults = 0, faults' = 0
  PROVE  Whole'
<1>1. online[d] /\ ~Fails(d)
  BY DEF Whole, Connected, Fails
<1>2. ASSUME NEW p \in puts, p.dev = d, PutFails(p) PROVE FALSE
  BY <1>1, <1>2 DEF PutFails
<1>3. ASSUME NEW c \in deletes, c.dev = d, DeleteFails(c) PROVE Whole'
  <2>1. c.code = 401 /\ c.by # "nobody"
    BY <1>1, <1>3 DEF DeleteFails
  <2>2. auth[d] = "anonymous"
    BY <1>3, <2>1 DEF Whole, PagesSound, PageSound
  <2>0. ~Due(c)
    BY <2>1 DEF Due, TypeInv, TypeOK, NetworkOK, DeleteRecord, Coded
  <2>3. /\ UNCHANGED <<table, late, syncCursor, session, flush, offlineQueue, pulls, login, isSyncing,
                       tabs, library, puts>>
        /\ deletes' = deletes \ {c}
        /\ offlineDeletes' = [offlineDeletes EXCEPT ![d] = @ \cup {c.id}]
    BY <1>3, <2>0, <2>1 DEF DeleteFails, Abandoned, server, stores, engine, runs
  <2>4. \A e \in Devices : auth[e] # "anonymous" => offlineDeletes'[e] = offlineDeletes[e]
    BY <2>2, <2>3 DEF TypeInv, TypeOK, QueuesOK
  <2>5. \A e \in Devices, i \in Ids : Sure(e, i) => Sure(e, i)'
    BY <2>1, <2>3 DEF Sure, Fetching, Overwriting, Leaving
  <2> QED
    BY <2>3, <2>4, <2>5, StoresStirred
<1>4. ASSUME NEW q \in pulls, q.dev = d, DeltaFails(q) PROVE Whole'
  <2>1. /\ UNCHANGED <<table, late, syncCursor, session, flush, offlineQueue, offlineDeletes, login,
                       isSyncing, tabs, library, puts, deletes>>
        /\ pulls' \subseteq pulls
    BY <1>4 DEF DeltaFails, server, stores, queues, engine, runs
  <2>2. \A e \in Devices, i \in Ids : Sure(e, i) => Sure(e, i)'
    BY <2>1 DEF Sure, Fetching, Overwriting, Leaving
  <2> QED
    BY <2>1, <2>2, StoresStirred
<1>5. ASSUME LoginFails(d) PROVE Whole'
  <2>1. auth[d] = "anonymous"
    BY <1>1, <1>5 DEF LoginFails, HasSession
  <2>2. /\ UNCHANGED <<table, late, syncCursor, session, flush, offlineQueue, offlineDeletes,
                       tabs, library, deletes>>
        /\ pulls' \subseteq pulls
        /\ login' = [login EXCEPT ![d] = NoLogin] /\ isSyncing' = [isSyncing EXCEPT ![d] = FALSE]
    BY <1>5 DEF LoginFails, LoginOver, server, stores, queues
  <2>3. \A p \in puts' : p \in puts \/ p.by \notin Flushes
    <3>1. \A p \in puts : [p EXCEPT !.by = "nobody"].by = "nobody"
      BY DEF TypeInv, TypeOK, NetworkOK, PutRecord, Coded
    <3> QED
      BY <1>5, <3>1 DEF LoginFails, Abandoned, Flushes
  <2>4. \A e \in Devices : e # d => login'[e] = login[e] /\ isSyncing'[e] = isSyncing[e]
    BY <2>2 DEF TypeInv, TypeOK, RunsOK, EngineOK
  <2>5. login[d].stage # "flush" /\ login'[d].stage # "flush"
    <3>1. login'[d] = NoLogin
      BY <2>2 DEF TypeInv, TypeOK, RunsOK
    <3> QED
      BY <3>1, EventsBetweenFlushes DEF Whole, NoLogin
  <2>6. \A e \in Devices, i \in Ids : auth[e] = "authed" /\ Sure(e, i) => Sure(e, i)'
    BY <2>1, <2>2, <2>4 DEF Sure, Fetching, Overwriting, Leaving
  <2> QED
    BY <2>1, <2>2, <2>3, <2>4, <2>5, <2>6, StoresStirred
<1> QED
  BY <1>2, <1>3, <1>4, <1>5 DEF FailureEvent

LEMMA DeltaRefreshWhole ==
  ASSUME TypeInv, Whole, NEW d \in Devices, DeltaRefresh(d)
  PROVE  Whole'
<1>1. /\ UNCHANGED <<table, late, syncCursor, auth, online, flush, queues, login, isSyncing, tabs,
                     library, puts, deletes>>
      /\ pulls' = pulls \cup {PullCall(d, "own", syncCursor[d])} /\ auth[d] = "authed"
  BY DEF DeltaRefresh, server, stores, session, engine, runs
<1> DEFINE call == PullCall(d, "own", syncCursor[d])
<1>2. /\ call.dev = d /\ call.by = "own" /\ call.since = syncCursor[d] /\ call.stage = "sent"
  BY DEF PullCall
<1> HIDE DEF call
<1>3. Owned'
  BY <1>1 DEF Whole, Owned, Exists
<1>4. Truthful'
  BY <1>1, <1>2 DEF Whole, Truthful, Live, Exists, call
<1>5. \A e \in Devices, i \in Ids : Covered(e, i)' => Covered(e, i)
  BY <1>1, <1>2 DEF Covered, Live, call
<1>6. NothingLost'
  <2>1. \A e \in Devices, i \in Ids : Sure(e, i) => Sure(e, i)'
    BY <1>1 DEF Sure, Fetching, Overwriting, Leaving
  <2> QED
    BY <1>1, <1>5, <2>1 DEF Whole, NothingLost
<1>7. Connected' /\ LoginFlushes'
  BY <1>1 DEF Whole, Connected, LoginFlushes, queues
<1>8. PagesSound'
  BY <1>1, <1>2 DEF Whole, PagesSound, PageSound, LoginSound, LoadingSound, queues, call
<1> QED
  BY <1>3, <1>4, <1>6, <1>7, <1>8 DEF Whole

LEMMA LoginStartsWhole ==
  ASSUME TypeInv, Whole, NEW d \in Devices, ~Running(d), LoginStarts(d)
  PROVE  Whole'
<1> DEFINE call == PullCall(d, "login", 0)
<1>1. /\ UNCHANGED <<table, late, syncCursor, online, flush, offlineQueue, offlineDeletes, tabs,
                     library, puts, deletes>>
      /\ auth[d] = "loading" /\ auth' = [auth EXCEPT ![d] = "authed"]
      /\ isSyncing' = [isSyncing EXCEPT ![d] = TRUE]
      /\ login' = [login EXCEPT ![d].stage = "pull"]
      /\ pulls' = pulls \cup {call}
  BY DEF LoginStarts, server, stores, queues
<1>2. call.dev = d /\ call.by = "login" /\ call.since = 0 /\ call.stage = "sent"
  BY DEF PullCall
<1> HIDE DEF call
<1>3. /\ auth'[d] = "authed" /\ login'[d].stage = "pull" /\ isSyncing'[d]
      /\ \A e \in Devices : e # d =>
           auth'[e] = auth[e] /\ login'[e] = login[e] /\ isSyncing'[e] = isSyncing[e]
  BY <1>1 DEF TypeInv, TypeOK, SessionOK, RunsOK, EngineOK, LoginRecord
<1>4. syncCursor[d] = 0 /\ \A q \in pulls : q.dev # d
  BY <1>1 DEF Whole, PagesSound, LoadingSound
<1>5. Owned'
  BY <1>1 DEF Whole, Owned, Exists
<1>6. Truthful'
  BY <1>1, <1>2 DEF Whole, Truthful, Live, Exists
<1>7. \A e \in Devices, i \in Ids : e # d /\ Covered(e, i)' => Covered(e, i)
  BY <1>1, <1>2 DEF Covered, Live
<1>8. \A i \in Ids : ~Covered(d, i)'
  <2>1. \A i \in Ids : Live(i) => table[i].updatedAt \in Nat
    BY ServerTypes DEF Live, Exists
  <2> QED
    BY <1>1, <1>2, <1>4, <2>1 DEF Covered, Live
<1>9. NothingLost'
  <2>1. \A e \in Devices, i \in Ids : e # d /\ Sure(e, i) => Sure(e, i)'
    BY <1>1, <1>3 DEF Sure, Fetching, Overwriting, Leaving
  <2> QED
    BY <1>3, <1>7, <1>8, <2>1 DEF Whole, NothingLost
<1>10. Connected' /\ LoginFlushes'
  <2>1. login[d].stage # "flush"
    BY EventsBetweenFlushes DEF Whole
  <2> QED
    BY <1>1, <1>3, <2>1 DEF Whole, Connected, LoginFlushes
<1>11. PagesSound'
  <2> SUFFICES ASSUME NEW e \in Devices
               PROVE  /\ auth'[e] # "anonymous" => PageSound(e)'
                      /\ auth'[e] = "authed" => LoginSound(e)'
                      /\ auth'[e] = "loading" => LoadingSound(e)'
    BY DEF PagesSound
  <2>1. CASE e = d
    BY <1>1, <1>2, <1>3, <1>4, <2>1 DEF Whole, PagesSound, PageSound, LoginSound
  <2>2. CASE e # d
    BY <1>1, <1>2, <1>3, <2>2 DEF Whole, PagesSound, PageSound, LoginSound, LoadingSound
  <2> QED
    BY <2>1, <2>2
<1> QED
  BY <1>5, <1>6, <1>9, <1>10, <1>11 DEF Whole

LEMMA LogOutWhole ==
  ASSUME TypeInv, Whole, NEW d \in Devices, LogOut(d)
  PROVE  Whole'
<1>1. /\ UNCHANGED <<table, late, syncCursor, online, flush, offlineQueue, offlineDeletes, tabs,
                     puts, deletes, pulls, login, isSyncing>>
      /\ auth' = [auth EXCEPT ![d] = "anonymous"]
      /\ library' = [library EXCEPT ![d] = NoneFiled]
  BY DEF LogOut, server, queues, engine, network, runs
<1>2. /\ auth'[d] = "anonymous"
      /\ \A e \in Devices : e # d => auth'[e] = auth[e] /\ library'[e] = library[e]
  BY <1>1 DEF TypeInv, TypeOK, SessionOK, StoresOK
<1>3. Owned' /\ Truthful' /\ \A e \in Devices, i \in Ids : Covered(e, i)' => Covered(e, i)
  BY <1>1, SameNews DEF Whole
<1>4. NothingLost'
  <2>1. \A e \in Devices, i \in Ids : e # d /\ Sure(e, i) => Sure(e, i)'
    BY <1>1, <1>2 DEF Sure, Fetching, Overwriting, Leaving
  <2> QED
    BY <1>2, <1>3, <2>1 DEF Whole, NothingLost
<1>5. Connected' /\ LoginFlushes'
  BY <1>1 DEF Whole, Connected, LoginFlushes
<1>6. PagesSound'
  BY <1>1, <1>2 DEF Whole, PagesSound, PageSound, LoginSound, LoadingSound
<1> QED
  BY <1>3, <1>4, <1>5, <1>6 DEF Whole

\* The calls of a page that is gone are nobody's.
LEMMA FreshPageWhole ==
  ASSUME TypeInv, Whole, NEW d \in Devices, FreshPage(d, "loading")
  PROVE  Whole'
<1>1. /\ UNCHANGED <<table, late, online, tabs>>
      /\ auth' = [auth EXCEPT ![d] = "loading"]
      /\ library' = [library EXCEPT ![d] = NoneFiled]
      /\ offlineQueue' = [offlineQueue EXCEPT ![d] = Nothing]
      /\ offlineDeletes' = [offlineDeletes EXCEPT ![d] = {}]
      /\ isSyncing' = [isSyncing EXCEPT ![d] = FALSE]
      /\ syncCursor' = [syncCursor EXCEPT ![d] = 0]
      /\ pulls' = {q \in pulls : q.dev # d}
      /\ login' = [login EXCEPT ![d] = NoLogin]
      /\ flush' = [flush EXCEPT ![d] = [f \in Flushes |-> NoFlush]]
  BY DEF FreshPage, server
<1>2. /\ auth'[d] = "loading" /\ offlineQueue'[d] = Nothing /\ offlineDeletes'[d] = {}
      /\ syncCursor'[d] = 0 /\ login'[d] = NoLogin /\ flush'[d] = [f \in Flushes |-> NoFlush]
  BY <1>1 DEF TypeInv, TypeOK, SessionOK, QueuesOK, EngineOK, RunsOK
<1>3. \A e \in Devices : e # d =>
        /\ auth'[e] = auth[e] /\ library'[e] = library[e] /\ isSyncing'[e] = isSyncing[e]
        /\ offlineQueue'[e] = offlineQueue[e] /\ offlineDeletes'[e] = offlineDeletes[e]
        /\ syncCursor'[e] = syncCursor[e] /\ login'[e] = login[e] /\ flush'[e] = flush[e]
  BY <1>1 DEF TypeInv, TypeOK, SessionOK, QueuesOK, EngineOK, RunsOK, StoresOK
<1>4. /\ \A c \in deletes' : \/ c \in deletes /\ c.dev # d
                             \/ c.dev = d /\ c.by = "nobody"
      /\ \A c \in deletes : c.dev # d => c \in deletes'
  <2>1. deletes' = {c \in deletes : c.dev # d} \cup
                   {[c EXCEPT !.by = "nobody"] : c \in {e \in deletes : e.dev = d /\ Due(e)}}
    BY DEF FreshPage
  <2>2. \A c \in deletes : [c EXCEPT !.by = "nobody"].dev = c.dev /\ [c EXCEPT !.by = "nobody"].by = "nobody"
    BY DEF TypeInv, TypeOK, NetworkOK, DeleteRecord, Coded
  <2> QED
    BY <2>1, <2>2
<1>5. \A p \in puts' : p \in puts \/ p.by = "nobody"
  <2>1. puts' = {p \in puts : p.dev # d} \cup
                {[p EXCEPT !.by = "nobody"] : p \in {q \in puts : q.dev = d /\ Due(q)}}
    BY DEF FreshPage
  <2>2. \A p \in puts : [p EXCEPT !.by = "nobody"].by = "nobody"
    BY DEF TypeInv, TypeOK, NetworkOK, PutRecord, Coded
  <2> QED
    BY <2>1, <2>2
<1>6. Owned'
  BY <1>1 DEF Whole, Owned, Exists
<1>7. Truthful'
  BY <1>1 DEF Whole, Truthful, Live, Exists
<1>8. NothingLost'
  <2>1. \A e \in Devices, i \in Ids : e # d /\ Covered(e, i)' => Covered(e, i)
    BY <1>1, <1>3 DEF Covered, Live
  <2>2. \A e \in Devices, i \in Ids : e # d /\ Sure(e, i) => Sure(e, i)'
    BY <1>1, <1>3, <1>4 DEF Sure, Fetching, Overwriting, Leaving
  <2> QED
    BY <1>2, <1>3, <2>1, <2>2 DEF Whole, NothingLost
<1>9. Connected'
  <2>1. \A e \in Devices : online'[e] /\ offlineQueue'[e] = Nothing
    BY <1>1, <1>2, <1>3 DEF Whole, Connected
  <2>2. \A e \in Devices, f \in Flushes : flush'[e][f].ids = {}
    BY <1>2, <1>3 DEF Whole, Connected, NoFlush
  <2>3. \A c \in puts' \cup deletes' : c.by \notin Flushes
    BY <1>4, <1>5 DEF Whole, Connected, Flushes
  <2> QED
    BY <2>1, <2>2, <2>3 DEF Connected
<1>10. LoginFlushes'
  BY <1>2, <1>3 DEF Whole, LoginFlushes, NoLogin, NoFlush, Flushes
<1>11. PagesSound'
  <2> SUFFICES ASSUME NEW e \in Devices
               PROVE  /\ auth'[e] # "anonymous" => PageSound(e)'
                      /\ auth'[e] = "authed" => LoginSound(e)'
                      /\ auth'[e] = "loading" => LoadingSound(e)'
    BY DEF PagesSound
  <2>1. CASE e = d
    BY <1>1, <1>2, <1>4, <2>1 DEF PageSound, LoadingSound
  <2>2. CASE e # d
    BY <1>1, <1>3, <1>4, <2>2 DEF Whole, PagesSound, PageSound, LoginSound, LoadingSound
  <2> QED
    BY <2>1, <2>2
<1> QED
  BY <1>6, <1>7, <1>8, <1>9, <1>10, <1>11 DEF Whole

\* A merge loses nothing but what the answer calls deleted, and takes in the rest.
LEMMA MergeKeeps ==
  ASSUME TypeInv, NEW d \in Devices, NEW i \in Ids, NEW rows \in Tables,
         rows[i] # NoRow => ~rows[i].deleted
  PROVE  LET tab == MergeWorkspaces(tabs[d], rows)[i]
             filed == MergeSavedLibrary(library[d], rows)[i]
         IN /\ rows[i] = NoRow => tab = tabs[d][i] /\ (library[d][i] # <<>> => filed # <<>>)
            /\ rows[i] # NoRow => tab # NoEntry \/ filed # <<>>
<1> DEFINE tab == MergeWorkspaces(tabs[d], rows)[i]
           filed == MergeSavedLibrary(library[d], rows)[i]
           e == InLibrary(LastFiled(library[d][i]), rows[i])
<1>1. tab = InTabs(tabs[d][i], rows[i])
  BY MergedTab
<1>2. filed = IF e = NoEntry THEN <<>> ELSE <<e>>
  BY MergedFiled
<1>3. e # NoEntry => filed # <<>>
  <2>1. <<e>> # <<>>
    OBVIOUS
  <2> QED
    BY <1>2, <2>1
<1>4. library[d][i] # <<>> => LastFiled(library[d][i]) # NoEntry
  BY LastFiledHeld, HeldEntries, NoEntryIsNoEntry
<1>5. rows[i] # NoRow => EntryOf(rows[i]) # NoEntry
  BY EntryOfType, NoEntryIsNoEntry DEF Tables
<1> HIDE DEF tab, filed
<1>6. rows[i] = NoRow => tab = tabs[d][i] /\ (library[d][i] # <<>> => filed # <<>>)
  BY <1>1, <1>3, <1>4 DEF InTabs, InLibrary, Merged
<1>7. rows[i] # NoRow => tab # NoEntry \/ filed # <<>>
  BY <1>1, <1>3, <1>5 DEF InTabs, InLibrary, Merged
<1> QED
  BY <1>6, <1>7 DEF tab, filed

\* What the merge of an answer makes known, the answer brought or an earlier one did.
LEMMA NewlyCovered ==
  ASSUME TypeInv, Whole, NEW q \in pulls, q.stage = "answered", UNCHANGED <<table, late>>, pulls' = pulls \ {q},
         syncCursor' = [syncCursor EXCEPT ![q.dev] = q.cursor]
  PROVE  /\ \A i \in Ids : Covered(q.dev, i)' =>
              /\ Live(i) /\ (q.rows[i] # NoRow => ~q.rows[i].deleted)
              /\ Covered(q.dev, i) \/ (q.rows[i] # NoRow)
         /\ \A e \in Devices, i \in Ids : e # q.dev /\ Covered(e, i)' => Covered(e, i)
<1>1. /\ q.dev \in Devices /\ syncCursor'[q.dev] = q.cursor
      /\ \A e \in Devices : e # q.dev => syncCursor'[e] = syncCursor[e]
  BY PullsType DEF TypeInv, TypeOK, EngineOK
<1>2. \A i \in Ids : Live(i)' = Live(i)
  BY DEF Live
<1>3. ASSUME NEW i \in Ids, Covered(q.dev, i)'
      PROVE  /\ Live(i) /\ (q.rows[i] # NoRow => ~q.rows[i].deleted)
             /\ Covered(q.dev, i) \/ (q.rows[i] # NoRow)
  <2>1. Live(i) /\ i \notin late[q.dev] /\ (q.rows[i] # NoRow => ~q.rows[i].deleted)
    BY <1>2, <1>3 DEF Covered, Whole, Truthful, Live
  <2>2. CASE table[i].updatedAt < q.cursor
    BY <2>1, <2>2 DEF Covered, Whole, Truthful
  <2>3. CASE \E r \in pulls' : r.dev = q.dev /\ table[i].updatedAt < r.since
    BY <2>1, <2>3 DEF Covered
  <2> QED
    BY <1>1, <1>3, <2>1, <2>2, <2>3 DEF Covered
<1>4. \A e \in Devices, i \in Ids : e # q.dev /\ Covered(e, i)' => Covered(e, i)
  BY <1>1, <1>2 DEF Covered
<1> QED
  BY <1>3, <1>4

\* Of an answer that is used up, what remains is the cursor.
LEMMA NewsUsedUp ==
  ASSUME TypeInv, Whole, NEW q \in pulls, UNCHANGED <<table, late>>, pulls' = pulls \ {q}
  PROVE  Owned' /\ Truthful'
<1>1. Owned'
  BY DEF Whole, Owned, Exists
<1>2. Truthful'
  BY DEF Whole, Truthful, Live, Exists
<1> QED
  BY <1>1, <1>2

LEMMA DeltaAppliedWhole ==
  ASSUME TypeInv, Whole, NEW q \in pulls, DeltaApplied(q)
  PROVE  Whole'
<1> DEFINE d == q.dev
<1>1. /\ UNCHANGED <<table, late, auth, online, flush, offlineQueue, offlineDeletes, login, puts, deletes>>
      /\ pulls' = pulls \ {q} /\ q.stage = "answered"
      /\ syncCursor' = [syncCursor EXCEPT ![d] = q.cursor]
  BY DEF DeltaApplied, server, queues, session, runs
<1>2. d \in Devices /\ q.rows \in Tables
  BY PullsType
<1>3. \/ /\ \A i \in Ids : q.rows[i] = NoRow
         /\ UNCHANGED <<tabs, library, isSyncing>>
      \/ /\ tabs' = [tabs EXCEPT ![d] = MergeWorkspaces(tabs[d], q.rows)]
         /\ library' = [library EXCEPT ![d] = MergeSavedLibrary(library[d], q.rows)]
         /\ isSyncing' = [isSyncing EXCEPT ![d] = FALSE]
  BY DEF DeltaApplied, stores
<1> HIDE DEF d
<1>4. /\ \A e \in Devices : e # d =>
           tabs'[e] = tabs[e] /\ library'[e] = library[e] /\ isSyncing'[e] = isSyncing[e]
      /\ isSyncing'[d] => isSyncing[d]
  BY <1>2, <1>3 DEF TypeInv, TypeOK, StoresOK, EngineOK
<1>5. ASSUME NEW i \in Ids, q.rows[i] # NoRow => ~q.rows[i].deleted
      PROVE  /\ q.rows[i] = NoRow =>
                  tabs'[d][i] = tabs[d][i] /\ (library[d][i] # <<>> => library'[d][i] # <<>>)
             /\ q.rows[i] # NoRow => ~isSyncing'[d] /\ (tabs'[d][i] # NoEntry \/ library'[d][i] # <<>>)
  <2>1. CASE /\ \A j \in Ids : q.rows[j] = NoRow
             /\ UNCHANGED <<tabs, library, isSyncing>>
    BY <2>1
  <2>2. CASE /\ tabs' = [tabs EXCEPT ![d] = MergeWorkspaces(tabs[d], q.rows)]
             /\ library' = [library EXCEPT ![d] = MergeSavedLibrary(library[d], q.rows)]
             /\ isSyncing' = [isSyncing EXCEPT ![d] = FALSE]
    <3>1. /\ tabs'[d] = MergeWorkspaces(tabs[d], q.rows)
          /\ library'[d] = MergeSavedLibrary(library[d], q.rows) /\ ~isSyncing'[d]
      BY <1>2, <2>2 DEF TypeInv, TypeOK, StoresOK, EngineOK
    <3> QED
      BY <1>2, <1>5, <3>1, MergeKeeps
  <2> QED
    BY <1>3, <2>1, <2>2
<1>6. ASSUME NEW e \in Devices, NEW i \in Ids, auth[e] = "authed", Covered(e, i)'
      PROVE  Sure(e, i)'
  <2>1. CASE e # d
    <3>1. Sure(e, i)
      BY <1>1, <1>6, <2>1, NewlyCovered DEF Whole, NothingLost, d
    <3> QED
      BY <1>1, <1>4, <2>1, <3>1 DEF Sure, Fetching, Overwriting, Leaving
  <2>2. CASE e = d
    <3>1. /\ q.rows[i] # NoRow => ~q.rows[i].deleted
          /\ Covered(d, i) \/ (q.rows[i] # NoRow)
      BY <1>1, <1>6, <2>2, NewlyCovered DEF d
    <3>2. CASE q.rows[i] # NoRow
      BY <1>5, <2>2, <3>1, <3>2 DEF Sure, Fetching, Overwriting
    <3>3. CASE q.rows[i] = NoRow
      <4>1. Sure(d, i)
        BY <1>6, <2>2, <3>1, <3>3 DEF Whole, NothingLost
      <4> QED
        BY <1>1, <1>4, <1>5, <2>2, <3>3, <4>1 DEF Sure, Fetching, Overwriting, Leaving
    <3> QED
      BY <3>2, <3>3
  <2> QED
    BY <2>1, <2>2
<1>7. NothingLost'
  BY <1>1, <1>6 DEF NothingLost
<1>8. Owned' /\ Truthful'
  BY <1>1, NewsUsedUp DEF d
<1>9. Connected' /\ LoginFlushes'
  BY <1>1 DEF Whole, Connected, LoginFlushes
<1>10. PagesSound'
  <2> SUFFICES ASSUME NEW e \in Devices
               PROVE  /\ auth[e] # "anonymous" => PageSound(e)'
                      /\ auth[e] = "authed" => LoginSound(e)'
                      /\ auth[e] = "loading" => LoadingSound(e)'
    BY <1>1 DEF PagesSound
  <2>1. /\ auth[e] # "anonymous" => PageSound(e)'
        /\ auth[e] = "authed" => LoginSound(e)'
    BY <1>1, <1>4 DEF Whole, PagesSound, PageSound, LoginSound
  <2>2. auth[e] = "loading" => LoadingSound(e)'
    <3>1. auth[e] = "loading" => e # d
      BY DEF Whole, PagesSound, LoadingSound, d
    <3>2. e # d => syncCursor'[e] = syncCursor[e]
      BY <1>1 DEF TypeInv, TypeOK, EngineOK
    <3> QED
      BY <1>1, <3>1, <3>2 DEF Whole, PagesSound, LoadingSound
  <2> QED
    BY <2>1, <2>2
<1> QED
  BY <1>7, <1>8, <1>9, <1>10 DEF Whole

LEMMA LoginPulledWhole ==
  ASSUME TypeInv, Whole, NEW q \in pulls, ~Running(q.dev), LoginPulled(q)
  PROVE  Whole'
<1> DEFINE d == q.dev
           merged == MergeWorkspaces(tabs[d], q.rows)
           filed == MergeSavedLibrary(library[d], q.rows)
           ids == LocalOnly(merged, q.rows)
<1>1. /\ UNCHANGED <<table, late, auth, online, flush, offlineQueue, offlineDeletes, isSyncing, tabs,
                     puts, deletes>>
      /\ pulls' = pulls \ {q} /\ q.stage = "answered" /\ q.by = "login"
      /\ syncCursor' = [syncCursor EXCEPT ![d] = q.cursor]
      /\ library' = [library EXCEPT ![d] = filed]
      /\ login' = [login EXCEPT ![d] = [stage |-> "push", stash |-> merged, ids |-> ids]]
  BY DEF LoginPulled, server, queues, session
<1>2. d \in Devices /\ q.rows \in Tables
  BY PullsType
<1>3. ASSUME NEW i \in Ids, q.rows[i] # NoRow => ~q.rows[i].deleted
      PROVE  /\ q.rows[i] = NoRow => merged[i] = tabs[d][i] /\ (library[d][i] # <<>> => filed[i] # <<>>)
             /\ q.rows[i] # NoRow => merged[i] # NoEntry \/ filed[i] # <<>>
  BY <1>2, <1>3, MergeKeeps
<1> HIDE DEF d, merged, filed, ids
<1>4. /\ \A e \in Devices : e # d => library'[e] = library[e] /\ login'[e] = login[e]
      /\ library'[d] = filed /\ login'[d].stage = "push" /\ login'[d].stash = merged
  BY <1>1, <1>2 DEF TypeInv, TypeOK, StoresOK, RunsOK
<1>5. /\ auth[d] # "loading"
      /\ auth[d] = "authed" => q.since = 0 /\ login[d].stage = "pull"
    BY <1>1, <1>2 DEF Whole, PagesSound, LoadingSound, LoginSound, d
<1>6. ASSUME NEW e \in Devices, NEW i \in Ids, auth[e] = "authed", Covered(e, i)'
      PROVE  Sure(e, i)'
  <2>1. CASE e # d
    <3>1. Sure(e, i)
      BY <1>1, <1>6, <2>1, NewlyCovered DEF Whole, NothingLost, d
    <3> QED
      BY <1>1, <1>4, <2>1, <3>1 DEF Sure, Fetching, Overwriting, Leaving
  <2>2. CASE e = d
    <3>1. /\ q.rows[i] # NoRow => ~q.rows[i].deleted
          /\ Covered(d, i) \/ (q.rows[i] # NoRow)
      BY <1>1, <1>6, <2>2, NewlyCovered DEF d
    <3>2. CASE q.rows[i] # NoRow
      BY <1>3, <1>4, <2>2, <3>1, <3>2 DEF Sure, Fetching
    <3>3. CASE q.rows[i] = NoRow
      <4>1. Sure(d, i) /\ login[d].stage = "pull"
        BY <1>5, <1>6, <2>2, <3>1, <3>3 DEF Whole, NothingLost
      <4>2. library[d][i] # <<>> \/ Leaving(d, i) \/ tabs[d][i] # NoEntry
        BY <4>1 DEF Sure
      <4>3. filed[i] # <<>> \/ Leaving(d, i) \/ merged[i] # NoEntry
        BY <1>3, <3>3, <4>2
      <4>4. Leaving(d, i)' = Leaving(d, i)
        BY <1>1 DEF Leaving
      <4> QED
        BY <1>4, <2>2, <4>3, <4>4 DEF Sure, Fetching
    <3> QED
      BY <3>2, <3>3
  <2> QED
    BY <2>1, <2>2
<1>7. NothingLost'
  BY <1>1, <1>6 DEF NothingLost
<1>8. Owned' /\ Truthful'
  BY <1>1, NewsUsedUp DEF d
<1>9. Connected' /\ LoginFlushes'
  <2>1. login[d].stage # "flush"
    BY <1>2, EventsBetweenFlushes DEF Whole, d
  <2>2. LoginFlushes'
    BY <1>1, <1>4, <2>1 DEF Whole, LoginFlushes
  <2> QED
    BY <1>1, <2>2 DEF Whole, Connected
<1>10. PagesSound'
  <2> SUFFICES ASSUME NEW e \in Devices
               PROVE  /\ auth[e] # "anonymous" => PageSound(e)'
                      /\ auth[e] = "authed" => LoginSound(e)'
                      /\ auth[e] = "loading" => LoadingSound(e)'
    BY <1>1 DEF PagesSound
  <2>1. auth[e] # "anonymous" => PageSound(e)'
    BY <1>1 DEF Whole, PagesSound, PageSound
  <2>2. auth[e] = "authed" => LoginSound(e)'
    <3>1. CASE e # d
      BY <1>1, <1>4, <3>1 DEF Whole, PagesSound, LoginSound
    <3>2. CASE e = d
      BY <1>1, <1>4, <3>2 DEF Whole, PagesSound, LoginSound, d
    <3> QED
      BY <3>1, <3>2
  <2>3. auth[e] = "loading" => LoadingSound(e)'
    <3>1. e # d => syncCursor'[e] = syncCursor[e]
      BY <1>1 DEF TypeInv, TypeOK, EngineOK
    <3> QED
      BY <1>1, <1>5, <3>1 DEF Whole, PagesSound, LoadingSound
  <2> QED
    BY <2>1, <2>2, <2>3
<1> QED
  BY <1>7, <1>8, <1>9, <1>10 DEF Whole

LEMMA LoginPushWhole ==
  ASSUME TypeInv, Whole, NEW d \in Devices, NEW id \in Ids, LoginPush(d, id)
  PROVE  Whole'
<1>1. /\ UNCHANGED <<table, late, syncCursor, session, flush, offlineQueue, offlineDeletes, pulls,
                     tabs, library, deletes, isSyncing>>
      /\ login' = [login EXCEPT ![d].ids = @ \ {id}]
      /\ puts' = puts \cup {PutCall(d, id, login[d].stash[id], "login")}
  BY DEF LoginPush, Whole, Connected, server, stores, queues
<1>2. \A x \in Devices : login'[x].stage = login[x].stage /\ login'[x].stash = login[x].stash
  BY <1>1 DEF TypeInv, TypeOK, RunsOK, LoginRecord
<1>3. \A p \in puts' : p \in puts \/ p.by \notin Flushes
  BY <1>1 DEF PutCall, Flushes
<1>4. \A x \in Devices, i \in Ids : Sure(x, i) => Sure(x, i)'
  BY <1>1, <1>2 DEF Sure, Fetching, Overwriting, Leaving
<1> QED
  BY <1>1, <1>2, <1>3, <1>4, StoresStirred

\* What the commit takes away before the store's subscription, that one deletes.
LEMMA LoginCommitsWhole ==
  ASSUME TypeInv, Whole, NEW d \in Devices, LoginCommits(d)
  PROVE  Whole'
<1> DEFINE stash == login[d].stash
           noticed == IF Watching(d) THEN {i \in Ids : stash[i] # tabs[d][i]} ELSE {}
           gone == {i \in noticed : stash[i] = NoEntry}
           calls == {DeleteCall(d, i, "own") : i \in gone}
           queued == offlineDeletes[d] \cup DeletesQueued(d, gone)
<1>1. online[d] /\ offlineQueue[d] = Nothing
  BY DEF Whole, Connected
<1>2. /\ UNCHANGED <<table, late, syncCursor, auth, online, pulls, puts, library>>
      /\ tabs' = [tabs EXCEPT ![d] = stash]
      /\ deletes' = deletes \cup calls
      /\ login[d].stage = "push"
      /\ offlineQueue' = [offlineQueue EXCEPT ![d] =
                            [i \in Ids |-> IF i \in gone THEN NoEntry ELSE @[i]]]
  BY <1>1 DEF LoginCommits, DeleteCalls, DeleteCall, server, session
<1>3. \/ /\ auth[d] = "authed" /\ StartFlush(d, "loginFlush", queued)
         /\ login' = [login EXCEPT ![d] = [NoLogin EXCEPT !.stage = "flush"]]
         /\ UNCHANGED isSyncing
      \/ /\ auth[d] # "authed" /\ LoginOver(d) /\ UNCHANGED <<offlineDeletes, flush>>
  BY DEF LoginCommits
<1>4. queued = offlineDeletes[d]
  BY <1>1 DEF DeletesQueued
<1>5. /\ \A c \in calls : c.dev = d /\ c.by = "own" /\ c.code = 0
      /\ \A i \in gone : \E c \in calls : c.id = i
  <2>1. \A i \in gone : DeleteCall(d, i, "own") \in calls
    OBVIOUS
  <2>2. \A c \in calls : c.dev = d /\ c.by = "own" /\ c.code = 0
    BY DEF DeleteCall
  <2> HIDE DEF calls, gone
  <2>3. \A i \in gone : \E c \in calls : c.id = i
    BY <2>1 DEF DeleteCall
  <2> QED
    BY <2>2, <2>3
<1>6. \A i \in Ids : i \notin gone /\ Watching(d) /\ tabs[d][i] # NoEntry => stash[i] # NoEntry
  OBVIOUS
<1> HIDE DEF stash, noticed, gone, calls, queued
<1>7. tabs'[d] = stash /\ \A e \in Devices : e # d => tabs'[e] = tabs[e]
  BY <1>2 DEF TypeInv, TypeOK, StoresOK
<1>8. offlineQueue' = offlineQueue
  <2>1. offlineQueue \in [Devices -> EntryMap]
    BY DEF TypeInv, TypeOK, QueuesOK
  <2>2. \A i \in Ids : offlineQueue[d][i] = NoEntry
    BY <1>1 DEF Nothing
  <2>3. [i \in Ids |-> IF i \in gone THEN NoEntry ELSE offlineQueue[d][i]] = offlineQueue[d]
    BY <2>1, <2>2 DEF EntryMap
  <2> QED
    BY <1>2, <2>1, <2>3
<1>9. /\ \A e \in Devices : e # d => login'[e] = login[e] /\ flush'[e] = flush[e]
                                     /\ offlineDeletes'[e] = offlineDeletes[e]
      /\ \A e \in Devices : isSyncing'[e] => isSyncing[e]
  <2>1. CASE auth[d] = "authed"
    BY <1>3, <2>1 DEF StartFlush, TypeInv, TypeOK, RunsOK, QueuesOK
  <2>2. CASE auth[d] # "authed"
    BY <1>3, <2>2 DEF LoginOver, TypeInv, TypeOK, RunsOK, EngineOK
  <2> QED
    BY <2>1, <2>2
<1>10. CASE auth[d] = "authed"
  <2>1. /\ flush' = [flush EXCEPT ![d]["loginFlush"] = [NoFlush EXCEPT !.stage = "deletes", !.ids = queued]]
        /\ offlineDeletes' = [offlineDeletes EXCEPT ![d] = {}]
        /\ login' = [login EXCEPT ![d] = [NoLogin EXCEPT !.stage = "flush"]]
    BY <1>3, <1>10 DEF StartFlush
  <2>2. queued = {}
    BY <1>4, <1>10 DEF Whole, PagesSound, PageSound
  <2>3. login'[d].stage = "flush" /\ offlineDeletes'[d] = {}
    <3>1. [NoLogin EXCEPT !.stage = "flush"].stage = "flush"
      BY DEF NoLogin
    <3> QED
      BY <2>1, <3>1 DEF TypeInv, TypeOK, RunsOK, QueuesOK
  <2>4. /\ flush'[d]["loginFlush"].stage = "deletes" /\ flush'[d]["loginFlush"].ids = {}
        /\ \A f \in Flushes : f # "loginFlush" => flush'[d][f] = flush[d][f]
    <3> DEFINE started == [NoFlush EXCEPT !.stage = "deletes", !.ids = queued]
    <3>1. started.stage = "deletes" /\ started.ids = {}
      BY <2>2 DEF NoFlush
    <3> HIDE DEF started
    <3>2. flush' = [flush EXCEPT ![d]["loginFlush"] = started] /\ flush \in [Devices -> [Flushes -> FlushRecord]]
      BY <2>1 DEF started, TypeInv, TypeOK, RunsOK
    <3> QED
      BY <3>1, <3>2 DEF Flushes
  <2>5. Connected' /\ LoginFlushes'
    <3>1. \A e \in Devices, f \in Flushes : flush'[e][f].ids = {}
      BY <1>9, <2>4 DEF Whole, Connected
    <3>2. \A c \in puts' \cup deletes' : c.by \notin Flushes
      BY <1>2, <1>5 DEF Whole, Connected, Flushes
    <3>3. LoginFlushes'
      BY <1>9, <2>3, <2>4 DEF Whole, LoginFlushes
    <3> QED
      BY <1>2, <1>8, <3>1, <3>2, <3>3 DEF Whole, Connected
  <2>6. ASSUME NEW i \in Ids, Sure(d, i) PROVE Sure(d, i)'
    <3>1. ~Fetching(d)'
      BY <2>3 DEF Fetching
    <3>2. CASE library[d][i] # <<>> \/ Leaving(d, i)
      BY <1>2, <3>1, <3>2 DEF Sure, Leaving
    <3>3. CASE stash[i] # NoEntry
      BY <1>7, <2>3, <3>1, <3>3 DEF Sure, Overwriting
    <3>4. CASE tabs[d][i] # NoEntry /\ ~isSyncing[d] /\ stash[i] = NoEntry
      <4>1. i \in gone
        BY <1>6, <1>10, <3>4 DEF Watching
      <4>2. Leaving(d, i)'
        BY <1>2, <1>5, <4>1 DEF Leaving
      <4> QED
        BY <3>1, <4>2 DEF Sure
    <3> QED
      BY <1>2, <2>6, <3>2, <3>3, <3>4 DEF Sure, Overwriting, stash
  <2> QED
    <3>1. NothingLost'
      <4>1. \A e \in Devices, i \in Ids : e # d /\ Sure(e, i) => Sure(e, i)'
        BY <1>2, <1>5, <1>7, <1>9 DEF Sure, Fetching, Overwriting, Leaving
      <4>2. \A e \in Devices, i \in Ids : Covered(e, i)' => Covered(e, i)
        BY <1>2, SameNews DEF Whole
      <4> QED
        BY <1>2, <2>6, <4>1, <4>2 DEF Whole, NothingLost
    <3>2. PagesSound'
      <4> SUFFICES ASSUME NEW e \in Devices
                   PROVE  /\ auth[e] # "anonymous" => PageSound(e)'
                          /\ auth[e] = "authed" => LoginSound(e)'
                          /\ auth[e] = "loading" => LoadingSound(e)'
        BY <1>2 DEF PagesSound
      <4>1. auth[e] # "anonymous" => PageSound(e)'
        BY <1>2, <1>5, <1>9, <2>3 DEF Whole, PagesSound, PageSound
      <4>2. auth[e] = "authed" => LoginSound(e)'
        BY <1>2, <1>9, <2>3 DEF Whole, PagesSound, LoginSound
      <4>3. auth[e] = "loading" => LoadingSound(e)'
        BY <1>2 DEF Whole, PagesSound, LoadingSound
      <4> QED
        BY <4>1, <4>2, <4>3
    <3> QED
      BY <1>2, <2>5, <3>1, <3>2, SameNews DEF Whole
<1>11. CASE auth[d] # "authed"
  <2>1. /\ login' = [login EXCEPT ![d] = NoLogin] /\ UNCHANGED <<offlineDeletes, flush>>
    BY <1>3, <1>11 DEF LoginOver
  <2>2. login'[d].stage # "flush"
    BY <2>1 DEF TypeInv, TypeOK, RunsOK, NoLogin
  <2>3. \A e \in Devices : login'[e].stage = "flush" <=> login[e].stage = "flush"
    BY <1>2, <1>9, <2>2
  <2>4. \A e \in Devices, i \in Ids : e # d /\ Sure(e, i) => Sure(e, i)'
    BY <1>2, <1>5, <1>7, <1>9 DEF Sure, Fetching, Overwriting, Leaving
  <2>5. \A c \in deletes' : c \in deletes \/ (c.code = 0 /\ c.by \notin Flushes)
    BY <1>2, <1>5 DEF Flushes
  <2> QED
    BY <1>2, <1>8, <1>9, <1>11, <2>1, <2>3, <2>4, <2>5, StoresStirred DEF session
<1> QED
  BY <1>10, <1>11

LEMMA FlushStepsWhole ==
  ASSUME TypeInv, Whole, NEW d \in Devices, NEW f \in Flushes, FlushTakeQueue(d, f) \/ FlushEnds(d, f)
  PROVE  Whole'
<1>1. CASE FlushTakeQueue(d, f)
  <2> DEFINE taken == [stage |-> "pushes", queued |-> offlineQueue[d],
                       ids |-> {id \in Ids : Has(offlineQueue, d, id)}]
  <2>1. /\ UNCHANGED <<table, late, syncCursor, auth, online, pulls, puts, deletes, tabs, library,
                       offlineDeletes, isSyncing, login>>
        /\ flush[d][f].stage = "deletes" /\ flush' = [flush EXCEPT ![d][f] = taken]
        /\ offlineQueue' = [offlineQueue EXCEPT ![d] = Nothing]
    BY <1>1 DEF FlushTakeQueue, server, stores, session, engine, network
  <2>2. taken.stage = "pushes" /\ taken.ids = {}
    BY DEF Whole, Connected, Has, Nothing
  <2> HIDE DEF taken
  <2>3. offlineQueue' = offlineQueue
    BY <2>1 DEF Whole, Connected, TypeInv, TypeOK, QueuesOK
  <2>4. \A e \in Devices, g \in Flushes :
          /\ flush'[e][g].ids = {}
          /\ flush'[e][g].stage # "idle" <=> flush[e][g].stage # "idle"
    BY <2>1, <2>2 DEF Whole, Connected, TypeInv, TypeOK, RunsOK
  <2>5. Connected' /\ LoginFlushes'
    BY <2>1, <2>3, <2>4 DEF Whole, Connected, LoginFlushes, Flushes
  <2>6. NothingLost' /\ PagesSound'
    <3>1. \A e \in Devices, i \in Ids : Sure(e, i) => Sure(e, i)'
      BY <2>1 DEF Sure, Fetching, Overwriting, Leaving
    <3>2. \A e \in Devices, i \in Ids : Covered(e, i)' => Covered(e, i)
      BY <2>1, SameNews DEF Whole
    <3>3. NothingLost'
      BY <2>1, <3>1, <3>2 DEF Whole, NothingLost
    <3>4. PagesSound'
      BY <2>1 DEF Whole, PagesSound, PageSound, LoginSound, LoadingSound
    <3> QED
      BY <3>3, <3>4
  <2> QED
    BY <2>1, <2>5, <2>6, SameNews DEF Whole
<1>2. CASE FlushEnds(d, f)
  <2>1. /\ UNCHANGED <<table, late, syncCursor, auth, online, pulls, puts, deletes, tabs, library,
                       offlineDeletes, offlineQueue>>
        /\ flush[d][f].stage = "pushes" /\ flush' = [flush EXCEPT ![d][f] = NoFlush]
        /\ IF f = "loginFlush"
           THEN /\ login' = [login EXCEPT ![d] = NoLogin]
                /\ isSyncing' = [isSyncing EXCEPT ![d] = FALSE]
           ELSE UNCHANGED <<isSyncing, login>>
    BY <1>2 DEF FlushEnds, LoginOver, server, stores, session, queues, network
  <2>2. /\ \A e \in Devices, g \in Flushes : (e # d \/ g # f) => flush'[e][g] = flush[e][g]
        /\ flush'[d][f].stage = "idle" /\ flush'[d][f].ids = {}
    BY <2>1 DEF TypeInv, TypeOK, RunsOK, NoFlush
  <2>3. \A e \in Devices : (e # d \/ f # "loginFlush") =>
          login'[e] = login[e] /\ isSyncing'[e] = isSyncing[e]
    BY <2>1 DEF TypeInv, TypeOK, RunsOK, EngineOK
  <2>4. f = "loginFlush" =>
          login[d].stage = "flush" /\ login'[d].stage = "idle" /\ ~isSyncing'[d]
    BY <2>1 DEF TypeInv, TypeOK, RunsOK, EngineOK, NoLogin, Whole, LoginFlushes
  <2>5. Connected'
    BY <2>1, <2>2 DEF Whole, Connected
  <2>6. LoginFlushes'
    <3> SUFFICES ASSUME NEW e \in Devices
                 PROVE  login'[e].stage = "flush" <=> flush'[e]["loginFlush"].stage # "idle"
      BY DEF LoginFlushes
    <3>1. CASE e = d /\ f = "loginFlush"
      BY <2>2, <2>4, <3>1
    <3>2. CASE e # d \/ f # "loginFlush"
      BY <2>2, <2>3, <3>2 DEF Whole, LoginFlushes, Flushes
    <3> QED
      BY <3>1, <3>2
  <2>7. NothingLost'
    <3>1. ASSUME NEW e \in Devices, NEW i \in Ids, Sure(e, i)
          PROVE  Sure(e, i)'
      <4>1. CASE e = d /\ f = "loginFlush"
        BY <2>1, <2>4, <3>1, <4>1 DEF Sure, Fetching, Overwriting, Leaving
      <4>2. CASE e # d \/ f # "loginFlush"
        BY <2>1, <2>3, <3>1, <4>2 DEF Sure, Fetching, Overwriting, Leaving
      <4> QED
        BY <4>1, <4>2
    <3>2. \A e \in Devices, i \in Ids : Covered(e, i)' => Covered(e, i)
      BY <2>1, SameNews DEF Whole
    <3> QED
      BY <2>1, <3>1, <3>2 DEF Whole, NothingLost
  <2>8. PagesSound'
    <3> SUFFICES ASSUME NEW e \in Devices
                 PROVE  /\ auth[e] # "anonymous" => PageSound(e)'
                        /\ auth[e] = "authed" => LoginSound(e)'
                        /\ auth[e] = "loading" => LoadingSound(e)'
      BY <2>1 DEF PagesSound
    <3>1. auth[e] # "anonymous" => PageSound(e)'
      BY <2>1 DEF Whole, PagesSound, PageSound
    <3>2. auth[e] = "authed" => LoginSound(e)'
      <4>1. CASE e = d /\ f = "loginFlush"
        BY <2>1, <2>4, <4>1 DEF Whole, PagesSound, LoginSound
      <4>2. CASE e # d \/ f # "loginFlush"
        BY <2>1, <2>3, <4>2 DEF Whole, PagesSound, LoginSound
      <4> QED
        BY <4>1, <4>2
    <3>3. auth[e] = "loading" => LoadingSound(e)'
      BY <2>1 DEF Whole, PagesSound, LoadingSound
    <3> QED
      BY <3>1, <3>2, <3>3
  <2> QED
    BY <2>1, <2>5, <2>6, <2>7, <2>8, SameNews DEF Whole
<1> QED
  BY <1>1, <1>2

LEMMA ContinuesWhole ==
  ASSUME TypeInv, Whole, NEW d \in Devices, Continues(d)
  PROVE  Whole'
<1>1. \A id \in Ids, f \in Flushes : ~FlushDelete(d, f, id) /\ ~FlushPush(d, f, id)
  BY DEF Whole, Connected, FlushDelete, FlushPush
<1> QED
  BY <1>1, LoginPushWhole, LoginCommitsWhole, FlushStepsWhole DEF Continues

\* Row i has just been written by the account; who may miss it is told, and a deleted
\* one stays deleted.
Written(i) ==
  /\ table'[i] \in Row /\ table'[i].owner = Account
  /\ \A d \in Devices : Passed(d, table'[i].updatedAt) => i \in late'[d]
  /\ Exists(table, i) /\ table[i].deleted => table'[i].deleted

Unwritten(i) == table'[i] = table[i] /\ \A d \in Devices : i \in late[d] => i \in late'[d]

LEMMA ServedWhole ==
  ASSUME TypeInv, Whole,
         UNCHANGED <<syncCursor, pulls, session, flush, queues, login, isSyncing, tabs, library>>,
         \A i \in Ids : Written(i) \/ Unwritten(i),
         \A c \in deletes' \cup puts' : c.by \notin Flushes,
         \A c \in deletes' : c.code = 401 => c \in deletes \/ auth[c.dev] = "anonymous",
         \A d \in Devices, i \in Ids : auth[d] = "authed" /\ Leaving(d, i) => Leaving(d, i)' \/ ~Live(i)'
  PROVE  Whole'
<1>1. \A q \in pulls : q.since \in Nat /\ q.cursor \in Nat /\ q.dev \in Devices
  BY PullsType
<1>2. ASSUME NEW i \in Ids, Written(i), NEW e \in Devices, i \notin late'[e]
      PROVE  /\ ~(table'[i].updatedAt < syncCursor[e])
             /\ \A q \in pulls : q.dev = e =>
                  /\ ~(table'[i].updatedAt < q.since)
                  /\ q.stage = "answered" => ~(table'[i].updatedAt < q.cursor)
  <2>1. table'[i].updatedAt \in Nat
    BY <1>2 DEF Written, Row
  <2>2. syncCursor[e] \in Nat
    BY ServerTypes
  <2>3. ~Passed(e, table'[i].updatedAt)
    BY <1>2 DEF Written
  <2> DEFINE now == table'[i].updatedAt
  <2> HIDE DEF now
  <2>4. /\ ~(syncCursor[e] > now)
        /\ \A q \in pulls : q.dev = e => ~(q.since > now) /\ ~(q.stage = "answered" /\ q.cursor > now)
    BY <2>3 DEF Passed, now
  <2>5. now \in Nat
    BY <2>1 DEF now
  <2>6. /\ ~(now < syncCursor[e])
        /\ \A q \in pulls : q.dev = e => ~(now < q.since) /\ (q.stage = "answered" => ~(now < q.cursor))
    BY <1>1, <2>2, <2>4, <2>5
  <2> QED
    BY <2>6 DEF now
<1>3. ASSUME NEW e \in Devices, NEW i \in Ids, Covered(e, i)'
      PROVE  Covered(e, i) /\ Live(i)'
  <2>1. /\ Live(i)' /\ i \notin late'[e]
        /\ \/ table'[i].updatedAt < syncCursor[e]
           \/ \E q \in pulls : q.dev = e /\ table'[i].updatedAt < q.since
    BY <1>3 DEF Covered
  <2>2. Unwritten(i)
    BY <1>2, <2>1
  <2>3. Live(i) /\ i \notin late[e]
    BY <2>1, <2>2 DEF Unwritten, Live
  <2> QED
    BY <2>1, <2>2, <2>3 DEF Covered, Unwritten
<1>4. NothingLost'
  <2>1. \A e \in Devices, i \in Ids : auth[e] = "authed" /\ Sure(e, i) /\ Live(i)' => Sure(e, i)'
    BY DEF Sure, Fetching, Overwriting
  <2> QED
    BY <1>3, <2>1 DEF Whole, NothingLost, session
<1>5. Connected' /\ LoginFlushes'
  BY DEF Whole, Connected, LoginFlushes, session, queues
<1>6. PagesSound'
  <2> SUFFICES ASSUME NEW e \in Devices
               PROVE  /\ auth[e] # "anonymous" => PageSound(e)'
                      /\ auth[e] = "authed" => LoginSound(e)'
                      /\ auth[e] = "loading" => LoadingSound(e)'
    BY DEF PagesSound, session
  <2>1. auth[e] # "anonymous" => PageSound(e)'
    BY DEF Whole, PagesSound, PageSound, queues
  <2>2. auth[e] = "authed" => LoginSound(e)'
    BY DEF Whole, PagesSound, LoginSound
  <2>3. auth[e] = "loading" => LoadingSound(e)'
    BY DEF Whole, PagesSound, LoadingSound
  <2> QED
    BY <2>1, <2>2, <2>3
<1>7. Owned'
  BY DEF Whole, Owned, Exists, Written, Unwritten
<1>8. Truthful'
  <2> SUFFICES ASSUME NEW q \in pulls, NEW i \in Ids, q.stage = "answered"
               PROVE  /\ Live(i)' /\ table'[i].updatedAt < q.cursor /\ i \notin late'[q.dev] =>
                           q.rows[i] # NoRow \/ table'[i].updatedAt < q.since
                      /\ q.rows[i] # NoRow /\ q.rows[i].deleted => Exists(table, i)' /\ table'[i].deleted
    BY DEF Truthful
  <2>1. CASE Written(i)
    <3>1. i \notin late'[q.dev] => ~(table'[i].updatedAt < q.cursor)
      BY <1>1, <1>2, <2>1
    <3>2. Exists(table, i)'
      BY <2>1, NoRowIsNoRow DEF Written, Exists
    <3> QED
      BY <2>1, <3>1, <3>2 DEF Whole, Truthful, Written
  <2>2. CASE Unwritten(i)
    BY <1>1, <2>2 DEF Whole, Truthful, Unwritten, Live, Exists
  <2> QED
    BY <2>1, <2>2
<1> QED
  BY <1>4, <1>5, <1>6, <1>7, <1>8 DEF Whole

LEMMA PutWrites ==
  ASSUME TypeInv, NEW p \in puts, WritePut(p), NEW i \in Ids
  PROVE  Written(i) \/ Unwritten(i)
<1>1. p \in PutRecord /\ p.id \in Ids /\ p.ws \in Entry /\ p.now \in Nat
  BY PutFields DEF TypeInv, TypeOK, NetworkOK
<1>2. table \in Tables /\ late \in [Devices -> SUBSET Ids]
  BY DEF TypeInv, TypeOK, ServerOK
<1>3. table' = Upserted(table, p.id, Account, p.ws, p.now)
  BY DEF WritePut
<1>4. CASE ~Wins(table, p.id, Account, p.ws.version)
  BY <1>3, <1>4 DEF WritePut, Upserted, Unwritten
<1>5. CASE Wins(table, p.id, Account, p.ws.version)
  <2>1. Wrote(p.id, p.now)
    BY <1>5 DEF WritePut
  <2> DEFINE row == [owner |-> Account, content |-> p.ws.content, version |-> p.ws.version,
                     updatedAt |-> p.now,
                     deleted |-> Exists(table, p.id) /\ table[p.id].deleted,
                     saved |-> p.ws.saved, open |-> p.ws.open]
  <2>2. table' = [table EXCEPT ![p.id] = row]
    BY <1>3, <1>5 DEF Upserted
  <2>3. row.owner = Account /\ row.updatedAt = p.now
        /\ (Exists(table, p.id) /\ table[p.id].deleted => row.deleted)
    OBVIOUS
  <2> HIDE DEF row
  <2>4. CASE i # p.id
    BY <1>1, <1>2, <2>1, <2>2, <2>4 DEF Tables, Wrote, Unwritten
  <2>5. CASE i = p.id
    <3>1. table'[i] = row /\ table'[i] \in Row
      BY <1>1, <1>2, <1>3, <2>2, <2>5, UpsertedType DEF Tables
    <3>2. \A d \in Devices : Passed(d, p.now) => i \in late'[d]
      BY <2>1, <2>5 DEF Wrote
    <3> QED
      BY <2>3, <2>5, <3>1, <3>2 DEF Written
  <2> QED
    BY <2>4, <2>5
<1> QED
  BY <1>4, <1>5

LEMMA ServePutWhole ==
  ASSUME TypeInv, Whole, NEW p \in puts, ServesPut(p)
  PROVE  Whole'
<1>1. UNCHANGED <<syncCursor, pulls, session, flush, queues, login, isSyncing, tabs, library, deletes>>
  BY ServedSame DEF stores, engine, runs
<1>2. PICK q : puts' \subseteq (puts \ {p}) \cup {q} /\ q.by = p.by
  BY PutChanged
<1>3. ASSUME NEW i \in Ids PROVE Written(i) \/ Unwritten(i)
  <2>1. CASE WritePut(p)
    BY <2>1, PutWrites
  <2>2. CASE ~WritePut(p)
    <3>1. UNCHANGED <<table, late>>
      BY <2>2, PutServed DEF ServesPut, server
    <3> QED
      BY <3>1 DEF Unwritten
  <2> QED
    BY <2>1, <2>2
<1>4. \A c \in deletes' \cup puts' : c.by \notin Flushes
  BY <1>1, <1>2 DEF Whole, Connected
<1>5. \A d \in Devices, i \in Ids : Leaving(d, i) => Leaving(d, i)'
  BY <1>1 DEF Leaving
<1> QED
  BY <1>1, <1>3, <1>4, <1>5, ServedWhole

\* The row a DELETE is about is written, and lives no more.
LEMMA DeleteWrites ==
  ASSUME TypeInv, Owned, NEW c \in deletes, WriteDelete(c)
  PROVE  ~Live(c.id)' /\ \A i \in Ids : Written(i) \/ Unwritten(i)
<1>1. c.id \in Ids /\ c.now \in Nat
  BY DeleteFields DEF TypeInv, TypeOK, NetworkOK
<1>2. table \in Tables /\ late \in [Devices -> SUBSET Ids]
  BY DEF TypeInv, TypeOK, ServerOK
<1>3. table' = SoftDeleted(table, c.id, Account, c.now)
  BY DEF WriteDelete
<1>4. CASE ~Owns(table, c.id, Account)
  <2>1. table' = table /\ late' = late
    BY <1>3, <1>4 DEF SoftDeleted, WriteDelete
  <2>2. ~Live(c.id)
    BY <1>1, <1>4 DEF Owned, Owns, Exists, Live
  <2> QED
    BY <2>1, <2>2 DEF Live, Unwritten
<1>5. CASE Owns(table, c.id, Account)
  <2>1. Wrote(c.id, c.now)
    BY <1>5 DEF WriteDelete
  <2> DEFINE row == [owner |-> Account, content |-> table[c.id].content,
                     version |-> table[c.id].version + 1, updatedAt |-> c.now, deleted |-> TRUE,
                     saved |-> table[c.id].saved, open |-> table[c.id].open]
  <2>2. table' = [table EXCEPT ![c.id] = row]
    BY <1>3, <1>5 DEF SoftDeleted, Owns
  <2>3. row \in Row /\ row.owner = Account /\ row.updatedAt = c.now /\ row.deleted
    <3>1. table[c.id] \in Row
      BY <1>1, <1>2, <1>5 DEF Owns, Exists, Tables
    <3> QED
      BY <1>1, <3>1 DEF Row
  <2> HIDE DEF row
  <2>4. table'[c.id] = row /\ \A i \in Ids \ {c.id} : table'[i] = table[i]
    BY <1>1, <1>2, <2>2 DEF Tables
  <2>5. /\ \A d \in Devices : Passed(d, c.now) => c.id \in late'[d]
        /\ \A i \in Ids \ {c.id}, d \in Devices : i \in late[d] => i \in late'[d]
    BY <1>2, <2>1 DEF Wrote
  <2>6. Written(c.id)
    BY <2>3, <2>4, <2>5 DEF Written
  <2>7. \A i \in Ids \ {c.id} : Unwritten(i)
    BY <2>4, <2>5 DEF Unwritten
  <2>8. ~Live(c.id)'
    BY <2>3, <2>4 DEF Live
  <2> QED
    BY <2>6, <2>7, <2>8
<1> QED
  BY <1>4, <1>5

LEMMA ServeDeleteWhole ==
  ASSUME TypeInv, Whole, NEW c \in deletes, ServesDelete(c)
  PROVE  Whole'
<1>1. UNCHANGED <<syncCursor, pulls, session, flush, queues, login, isSyncing, tabs, library, puts>>
  BY ServedSame DEF stores, engine, runs
<1>2. ASSUME NEW stage, NEW now, NEW code,
             deletes' = (deletes \ {c}) \cup {Served(c, stage, now, code)},
             code = 401 => ~HasSession(c.dev),
             code = 0 \/ WriteDelete(c) \/ ~HasSession(c.dev)
      PROVE  \E e : /\ deletes' = (deletes \ {c}) \cup {e}
                    /\ e.dev = c.dev /\ e.id = c.id /\ e.by = c.by
                    /\ e.code = 401 => ~HasSession(c.dev)
                    /\ e.code = 0 \/ WriteDelete(c) \/ ~HasSession(c.dev)
  <2>1. PICK e : e = Served(c, stage, now, code)
    OBVIOUS
  <2> QED
    BY <1>2, <2>1, ServedFields
<1>3. PICK e : /\ deletes' = (deletes \ {c}) \cup {e}
               /\ e.dev = c.dev /\ e.id = c.id /\ e.by = c.by
               /\ e.code = 401 => ~HasSession(c.dev)
               /\ e.code = 0 \/ WriteDelete(c) \/ ~HasSession(c.dev)
  <2>1. CASE StampDelete(c)
    BY <1>2, <2>1, DeleteServed
  <2>2. CASE WriteDelete(c)
    <3>1. PICK code \in {204, 404} : deletes' = (deletes \ {c}) \cup {Served(c, "answered", 0, code)}
      BY <2>2, DeleteServed
    <3> QED
      BY <1>2, <2>2, <3>1
  <2>3. CASE RefuseDelete(c)
    BY <1>2, <2>3, DeleteServed
  <2> QED
    BY <2>1, <2>2, <2>3 DEF ServesDelete
<1>4. \A i \in Ids : Written(i) \/ Unwritten(i)
  <2>1. CASE WriteDelete(c)
    BY <2>1, DeleteWrites DEF Whole
  <2>2. CASE ~WriteDelete(c)
    <3>1. UNCHANGED <<table, late>>
      BY <2>2, DeleteServed DEF ServesDelete, server
    <3> QED
      BY <3>1 DEF Unwritten
  <2> QED
    BY <2>1, <2>2
<1>5. \A x \in deletes' \cup puts' : x.by \notin Flushes
  BY <1>1, <1>3 DEF Whole, Connected
<1>6. \A x \in deletes' : x.code = 401 => x \in deletes \/ auth[x.dev] = "anonymous"
  BY <1>3 DEF HasSession
<1>7. ASSUME NEW d \in Devices, NEW i \in Ids, auth[d] = "authed", Leaving(d, i)
      PROVE  Leaving(d, i)' \/ ~Live(i)'
  <2>1. PICK x \in deletes : x.dev = d /\ x.id = i /\ x.code = 0 /\ x.by # "nobody"
    BY <1>7 DEF Leaving
  <2>2. CASE x # c
    BY <1>3, <2>1, <2>2 DEF Leaving
  <2>3. CASE x = c /\ WriteDelete(c)
    BY <2>1, <2>3, DeleteWrites DEF Whole
  <2>4. CASE x = c /\ ~WriteDelete(c)
    <3>1. e.code = 0
      BY <1>3, <1>7, <2>1, <2>4 DEF HasSession
    <3> QED
      BY <1>3, <2>1, <2>4, <3>1 DEF Leaving
  <2> QED
    BY <2>2, <2>3, <2>4
<1> QED
  BY <1>1, <1>4, <1>5, <1>6, <1>7, ServedWhole

LEMMA ServePullWhole ==
  ASSUME TypeInv, Whole, NEW q \in pulls, ServesPull(q)
  PROVE  Whole'
<1>1. /\ UNCHANGED <<table, late, syncCursor, auth, online, flush, queues, login, isSyncing, tabs, library,
                     puts, deletes>>
      /\ q \in PullRecord /\ q.since \in Nat /\ Listing(q) \in Tables
  BY ServedSame, PullServed, PullsType DEF TypeInv, TypeOK, NetworkOK, stores, session, engine, runs
<1>2. PICK a : /\ pulls' = (pulls \ {q}) \cup {a}
               /\ a.dev = q.dev /\ a.by = q.by /\ a.since = q.since
               /\ a.stage = "answered" => a.rows = Listing(q)
  <2>1. CASE StampPull(q)
    <3>1. pulls' = (pulls \ {q}) \cup {Begun(q, clock')}
      BY <2>1, PullServed
    <3>2. PICK a : a = Begun(q, clock')
      OBVIOUS
    <3>3. a.dev = q.dev /\ a.by = q.by /\ a.since = q.since /\ a.stage = "stamped"
      BY <1>1, <3>2 DEF Begun, PullRecord
    <3> QED
      BY <3>1, <3>2, <3>3
  <2>2. CASE AnswerPull(q)
    <3>1. pulls' = (pulls \ {q}) \cup {Delivered(q, Listing(q))}
      BY <2>2, PullServed
    <3>2. PICK a : a = Delivered(q, Listing(q))
      OBVIOUS
    <3>3. /\ a.dev = q.dev /\ a.by = q.by /\ a.since = q.since
          /\ a.rows = Listing(q)
      BY <1>1, <3>2 DEF Delivered, PullRecord
    <3> QED
      BY <3>1, <3>2, <3>3
  <2> QED
    BY <2>1, <2>2 DEF ServesPull
<1>3. \A i \in Ids : /\ Listing(q)[i] # NoRow => Listing(q)[i] = table[i]
                     /\ Listing(q)[i] = NoRow /\ Exists(table, i) => table[i].updatedAt < q.since
  <2> SUFFICES ASSUME NEW i \in Ids
               PROVE  /\ Listing(q)[i] # NoRow => Listing(q)[i] = table[i]
                      /\ Listing(q)[i] = NoRow /\ Exists(table, i) => table[i].updatedAt < q.since
    OBVIOUS
  <2>1. Exists(table, i) => table[i].updatedAt \in Nat /\ Owns(table, i, Account)
    BY ServerTypes DEF Whole, Owned, Owns
  <2>2. Listing(q)[i] = IF i \in ChangedSince(table, Account, q.since) THEN table[i] ELSE NoRow
    BY DEF Listing
  <2> QED
    BY <1>1, <2>1, <2>2 DEF ChangedSince, Owns, Exists
<1>4. Owned'
  BY <1>1 DEF Whole, Owned, Exists
<1>5. Truthful'
  <2> SUFFICES ASSUME NEW r \in pulls', NEW i \in Ids, r.stage = "answered"
               PROVE  /\ Live(i) /\ table[i].updatedAt < r.cursor /\ i \notin late[r.dev] =>
                           r.rows[i] # NoRow \/ table[i].updatedAt < r.since
                      /\ r.rows[i] # NoRow /\ r.rows[i].deleted => Exists(table, i) /\ table[i].deleted
    BY <1>1 DEF Truthful, Live, Exists
  <2>1. CASE r \in pulls
    BY <2>1 DEF Whole, Truthful
  <2>2. CASE r = a
    <3>1. r.rows = Listing(q) /\ r.since = q.since
      BY <1>2, <2>2
    <3> QED
      BY <1>3, <3>1 DEF Live, Exists
  <2> QED
    BY <1>2, <2>1, <2>2
<1>6. NothingLost'
  <2>1. \A e \in Devices, i \in Ids : Sure(e, i) => Sure(e, i)'
    BY <1>1 DEF Sure, Fetching, Overwriting, Leaving
  <2>2. \A e \in Devices, i \in Ids : Covered(e, i)' => Covered(e, i)
    BY <1>1, <1>2 DEF Covered, Live
  <2> QED
    BY <1>1, <2>1, <2>2 DEF Whole, NothingLost
<1>7. Connected' /\ LoginFlushes'
  BY <1>1 DEF Whole, Connected, LoginFlushes, queues
<1>8. PagesSound'
  <2> SUFFICES ASSUME NEW e \in Devices
               PROVE  /\ auth[e] # "anonymous" => PageSound(e)'
                      /\ auth[e] = "authed" => LoginSound(e)'
                      /\ auth[e] = "loading" => LoadingSound(e)'
    BY <1>1 DEF PagesSound
  <2>1. auth[e] # "anonymous" => PageSound(e)'
    BY <1>1 DEF Whole, PagesSound, PageSound, queues
  <2>2. auth[e] = "authed" => LoginSound(e)'
    BY <1>1, <1>2 DEF Whole, PagesSound, LoginSound
  <2>3. auth[e] = "loading" => LoadingSound(e)'
    BY <1>1, <1>2 DEF Whole, PagesSound, LoadingSound
  <2> QED
    BY <2>1, <2>2, <2>3
<1> QED
  BY <1>4, <1>5, <1>6, <1>7, <1>8 DEF Whole

LEMMA InitMiss == Init => MissInv
<1> SUFFICES ASSUME Init PROVE faults \in Nat /\ Whole
  BY DEF MissInv
<1>1. TypeInv
  BY InitTypeInv
<1>2. /\ puts = {} /\ deletes = {} /\ pulls = {} /\ faults = 0
      /\ \A d \in Devices :
           /\ online[d] /\ offlineQueue[d] = Nothing /\ offlineDeletes[d] = {} /\ ~isSyncing[d]
           /\ login[d].stage = "idle"
           /\ \A f \in Flushes : flush[d][f].stage = "idle" /\ flush[d][f].ids = {}
  BY DEF Init, NoLogin, NoFlush
<1>3. CASE \E row \in Row : SyncedWith(row) /\ row.owner = Account /\ row.updatedAt = 1
  <2>1. PICK row \in Row : SyncedWith(row) /\ row.owner = Account /\ row.updatedAt = 1
    BY <1>3
  <2>2. /\ \A i \in Ids : table[i] = row
        /\ \A d \in Devices : auth[d] = "authed" /\ syncCursor[d] = 2
    BY <2>1 DEF SyncedWith
  <2>3. ASSUME NEW d \in Devices, NEW i \in Ids
        PROVE  tabs[d][i] # NoEntry \/ library[d][i] # <<>>
    <3>1. EntryOf(row) # NoEntry /\ <<EntryOf(row)>> # <<>>
      BY EntryOfType, NoEntryIsNoEntry
    <3>2. \/ library = [e \in Devices |-> [id \in Ids |-> <<EntryOf(row)>>]]
          \/ tabs = [e \in Devices |-> [id \in Ids |-> EntryOf(row)]]
      BY <2>1 DEF SyncedWith
    <3> QED
      BY <3>1, <3>2
  <2>4. NothingLost
    BY <1>2, <2>3 DEF NothingLost, Sure, Fetching, Overwriting
  <2>5. PagesSound /\ Connected /\ LoginFlushes /\ Truthful
    BY <1>2, <2>2 DEF PagesSound, PageSound, LoginSound, Connected, LoginFlushes, Truthful, Flushes
  <2>6. Owned
    BY <1>2, <2>1, <2>2 DEF Owned
  <2> QED
    BY <1>2, <2>4, <2>5, <2>6 DEF Whole
<1>4. CASE \E status \in {"authed", "anonymous"} : \E held : Unsynced(status, held)
  <2>1. PICK status \in {"authed", "anonymous"} : \E held : Unsynced(status, held)
    BY <1>4
  <2>2. /\ \A i \in Ids : table[i] = NoRow
        /\ \A d \in Devices : auth[d] = status /\ syncCursor[d] \in {0, 2}
    BY <2>1 DEF Unsynced
  <2>3. NothingLost
    BY <2>2 DEF NothingLost, Covered, Live
  <2>4. PagesSound /\ Connected /\ LoginFlushes /\ Truthful
    BY <1>2, <2>1, <2>2 DEF PagesSound, PageSound, LoginSound, Connected, LoginFlushes, Truthful, Flushes
  <2>5. Owned
    BY <1>2, <2>2 DEF Owned, Exists
  <2> QED
    BY <1>2, <2>3, <2>4, <2>5 DEF Whole
<1>5. \/ \E row \in Row : SyncedWith(row) /\ row.owner = Account /\ row.updatedAt = 1
      \/ \E status \in {"authed", "anonymous"} : \E held : Unsynced(status, held)
  <2>1. \A saved, open \in BOOLEAN : FirstRow(saved, open) \in Row
    BY DEF FirstRow, Row
  <2>2. \A saved, open \in BOOLEAN : FirstRow(saved, open).owner = Account /\ FirstRow(saved, open).updatedAt = 1
    BY DEF FirstRow
  <2> QED
    BY <2>1, <2>2 DEF Init
<1> QED
  BY <1>2, <1>3, <1>4, <1>5

\* Failures are counted, never forgotten.
LEMMA FaultsGrow == [Next]_vars => faults' = faults \/ faults' = faults + 1
<1> SUFFICES ASSUME [Next]_vars PROVE faults' = faults \/ faults' = faults + 1
  OBVIOUS
<1>1. CASE UNCHANGED vars
  BY <1>1 DEF vars, bounds
<1>2. ASSUME NEW d \in Devices, Continues(d) PROVE faults' = faults
  BY <1>2 DEF Continues, LoginPush, FlushDelete, FlushPush, FlushTakeQueue, FlushEnds, LoginCommits, bounds
<1>3. ASSUME NEW d \in Devices, UserActs(d) PROVE faults' = faults
  <2>1. ASSUME NEW id \in Ids,
               \/ Create(d, id) \/ Edit(d, id) \/ ToggleSaved(d, id) \/ CloseUnsaved(d, id)
               \/ CloseSaved(d, id) \/ OpenSaved(d, id)
        PROVE  faults' = faults
    BY <2>1 DEF Create, Edit, ToggleSaved, CloseUnsaved, CloseSaved, OpenSaved, ChangeTab, RemoveTab,
                MoveSaved
  <2>2. ASSUME NEW id \in Ids, RenameClosed(d, id) \/ DeleteOpen(d, id) \/ DeleteClosed(d, id)
        PROVE  faults' = faults
    BY <2>2 DEF RenameClosed, DeleteOpen, DeleteClosed, RemoveTab
  <2>3. CASE Reload(d) \/ SignIn(d) \/ LogOut(d)
    BY <2>3 DEF Reload, SignIn, LogOut, FreshPage
  <2> QED
    BY <1>3, <2>1, <2>2, <2>3 DEF UserActs
<1>4. ASSUME NEW d \in Devices, Event(d) PROVE faults' = faults \/ faults' = faults + 1
  <2>1. CASE TimerEvent(d) \/ DeltaRefresh(d) \/ LoginStarts(d) \/ GoOffline(d) \/ GoOnline(d)
    BY <2>1 DEF TimerEvent, TimerFires, DeltaRefresh, LoginStarts, GoOffline, GoOnline, bounds
  <2>2. CASE ReplyEvent(d)
    BY <2>2 DEF ReplyEvent, PutDone, PutConflict, LoginPushed, DeleteDone, DeltaApplied, LoginPulled, bounds
  <2>3. CASE FailureEvent(d)
    BY <2>3 DEF FailureEvent, PutFails, DeleteFails, DeltaFails, LoginFails, Fails
  <2> QED
    BY <1>3, <1>4, <2>1, <2>2, <2>3 DEF Event
<1>5. CASE ServerStep \/ \E p \in puts \cup deletes : Orphaned(p)
  BY <1>5 DEF ServerStep, RefusePut, StampPut, WritePut, AnswerPut, RefuseDelete, StampDelete,
              WriteDelete, StampPull, AnswerPull, Orphaned, bounds
<1> QED
  BY <1>1, <1>2, <1>4, <1>5 DEF Next

LEMMA EventWhole ==
  ASSUME TypeInv, Whole, NEW d \in Devices, Event(d), faults = 0, faults' = 0
  PROVE  Whole'
<1>1. ~Running(d) /\ login[d].stage # "flush"
  BY EventsBetweenFlushes DEF Event, Whole
<1>2. CASE UserActs(d)
  <2>1. CASE Reload(d) \/ SignIn(d)
    BY <2>1, FreshPageWhole DEF Reload, SignIn
  <2> QED
    BY <1>1, <1>2, <2>1, UserWhole, LogOutWhole DEF UserActs
<1>3. CASE TimerEvent(d) \/ DeltaRefresh(d) \/ LoginStarts(d)
  BY <1>1, <1>3, TimerWhole, DeltaRefreshWhole, LoginStartsWhole DEF TimerEvent
<1>4. CASE ReplyEvent(d)
  BY <1>1, <1>4, CallsEndWhole, ConflictWhole, LoginPushedWhole, DeltaAppliedWhole, LoginPulledWhole
  DEF ReplyEvent
<1>5. CASE FailureEvent(d)
  BY <1>1, <1>5, FailureWhole
<1>6. ~GoOffline(d) /\ ~GoOnline(d)
  BY DEF GoOffline, GoOnline, Whole, Connected
<1> QED
  BY <1>2, <1>3, <1>4, <1>5, <1>6 DEF Event

LEMMA NextMiss == TypeInv /\ MissInv /\ [Next]_vars => MissInv'
<1> SUFFICES ASSUME TypeInv, MissInv, [Next]_vars PROVE MissInv'
  OBVIOUS
<1>1. faults' \in Nat /\ (faults' = 0 => faults = 0)
  BY FaultsGrow DEF MissInv
<1> SUFFICES ASSUME faults' = 0 PROVE Whole'
  BY <1>1 DEF MissInv
<1>2. faults = 0 /\ Whole
  BY <1>1 DEF MissInv
<1>3. CASE UNCHANGED vars
  <2>1. UNCHANGED <<table, late, tabs, library, offlineQueue, offlineDeletes, auth, online, isSyncing,
                    syncCursor, puts, deletes, pulls, login, flush>>
    BY <1>3 DEF vars, server, stores, queues, session, engine, network, runs
  <2>2. \A e \in Devices, i \in Ids : Sure(e, i) => Sure(e, i)'
    BY <2>1 DEF Sure, Fetching, Overwriting, Leaving
  <2> QED
    BY <1>2, <2>1, <2>2, StoresStirred DEF session
<1>4. ASSUME NEW d \in Devices, Continues(d) \/ Event(d) PROVE Whole'
  BY <1>2, <1>4, ContinuesWhole, EventWhole
<1>5. CASE \E p \in puts \cup deletes : Orphaned(p)
  BY <1>2, <1>5, CallsEndWhole
<1>6. CASE ServerStep
  BY <1>2, <1>6, ServedStep, ServePutWhole, ServeDeleteWhole, ServePullWhole
<1> QED
  BY <1>3, <1>4, <1>5, <1>6 DEF Next

\* As long as no call fails, whatever users, timers, polls and logins do, on any
\* number of devices, a settled device holds every workspace that lives on the server
\* and was stamped before its cursor, unless it was written after a query whose cursor
\* is past it.  (upsertWorkspace, softDeleteWorkspace, listWorkspaces, onLogin)
THEOREM NoneMissingAlways == Spec => []NoneMissing
<1>1. Init => TypeInv /\ MissInv
  BY InitTypeInv, InitMiss
<1>2. TypeInv /\ MissInv /\ [Next]_vars => (TypeInv /\ MissInv)'
  BY NextTypeInv, NextMiss
<1>3. TypeInv /\ MissInv => NoneMissing
  BY WholeMeansNoneMissing
<1> QED
  BY <1>1, <1>2, <1>3, PTL DEF Spec
=============================================================================
