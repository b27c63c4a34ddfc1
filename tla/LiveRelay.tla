----------------------------- MODULE LiveRelay -----------------------------
(* live-sync/src/session.ts: the Durable Object that relays one live session, *)
(* with the WebSockets to its pages and its row in D1.  A step is what runs   *)
(* between two awaits; statements sent to D1 take effect later.               *)
EXTENDS LiveDoc, Sequences

CONSTANTS
  MaxFaults,        \* connections cut, evictions, failed statements
  MaxDays           \* how often IDLE_TTL_MS goes by

ASSUME RelayAssumption == MaxFaults \in Nat /\ MaxDays \in Nat

\* Neither a document nor a row.
NoDoc == [none |-> TRUE]
NoRow == NoDoc

VARIABLES
  doc,      \* this.doc, NoDoc while the object is not in memory
  conns,    \* this.clients: the pages with an open socket among them
  ghosts,   \* this.clients: dead sockets whose close event is to come
  timer,    \* persistTimer is set
  alarm,    \* the alarm of the object is set
  stage,    \* the alarm handler: "none", what it read of the row, or "delete"
  row,      \* the row in live_sessions; idle: last_active_at is a day ago
  save,     \* the document a save has sent to D1, or NoDoc
  touches,  \* updateLastActive statements on their way
  excused,  \* a failure or a cleanup since the last save that took effect
  sock,     \* the WebSocket of a page
  up, down, \* messages on it, to the relay and to the page
  faults, days

relayVars == <<doc, conns, ghosts, timer, alarm, stage, row, save, touches, excused,
               sock, up, down, faults, days>>
d1Vars == <<row, save, touches>>

\* "off" before the page takes part, "connecting", "accepted" by the relay,
\* "open", "waiting" to reconnect, "closing" after the page left, "gone".
Socks == {"off", "connecting", "accepted", "open", "waiting", "closing", "gone"}
Receives(c) == sock[c] \in {"accepted", "open"}

Messages == [type : {"init"}] \cup [type : {"vector"}, sv : [Pages -> Nat]]
            \cup [type : {"diff", "update"}, u : Docs]

RelayInit ==
  /\ doc = NoDoc /\ conns = {} /\ ghosts = 0 /\ timer = FALSE
  /\ alarm = FALSE /\ stage = "none" /\ row = NoRow
  /\ save = NoDoc /\ touches = 0 /\ excused = FALSE
  /\ sock = [c \in Pages |-> "off"]
  /\ up = [c \in Pages |-> <<>>] /\ down = [c \in Pages |-> <<>>]
  /\ faults = 0 /\ days = 0

Fault == faults < MaxFaults /\ faults' = faults + 1

\* What load() finds.
Stored == IF row = NoRow THEN Empty ELSE IF row.state = NoDoc THEN Empty ELSE row.state

\* The constructor, under blockConcurrencyWhile, when the object is not in
\* memory.  A load that fails is logged, and the document stays empty.
InMemory ==
  \/ doc # NoDoc /\ UNCHANGED <<doc, excused, faults>>
  \/ doc = NoDoc /\ save = NoDoc /\ doc' = Stored /\ UNCHANGED <<excused, faults>>
  \/ doc = NoDoc /\ save = NoDoc /\ Fault /\ doc' = Empty /\ excused' = TRUE

\* handleWebSocketUpgrade.
Accept(c) ==
  /\ sock[c] = "connecting"
  /\ InMemory
  /\ conns' = conns \cup {c}
  /\ alarm' = TRUE
  /\ touches' = touches + 1
  /\ sock' = [sock EXCEPT ![c] = "accepted"]
  /\ down' = [down EXCEPT ![c] = <<[type |-> "init"]>>]
  /\ UNCHANGED <<ghosts, timer, stage, row, save, up, days>>

\* sendWebSocketMessage drops what is sent to a socket that is not open.
Reply(c, m) == down' = [down EXCEPT ![c] = IF Receives(c) THEN Append(@, m) ELSE @]

Take(c, type) ==
  /\ up[c] # <<>> /\ Head(up[c]).type = type
  /\ up' = [up EXCEPT ![c] = Tail(@)]

\* Step 0x00: the page asks for the relay's state vector.
AnswerInit(c) ==
  /\ Take(c, "init")
  /\ Reply(c, [type |-> "vector", sv |-> Vector(doc)])
  /\ UNCHANGED <<doc, conns, ghosts, timer, alarm, stage, row, save, touches, excused,
                 sock, faults, days>>

\* Step 0x01: the page's vector is answered with what it misses, even nothing.
AnswerVector(c) ==
  /\ Take(c, "vector")
  /\ Reply(c, [type |-> "diff", u |-> Diff(doc, Head(up[c]).sv)])
  /\ UNCHANGED <<doc, conns, ghosts, timer, alarm, stage, row, save, touches, excused,
                 sock, faults, days>>

\* Mutant of SchedulePersist: a save under way is thought to do.
PersistUnlessSaving == timer' = (timer \/ save = NoDoc)

SchedulePersist == timer' = TRUE

\* applyUpdate, for step 0x02 and for Y_UPDATE: merge, tell the others, and
\* start the debounce of the save anew.
ApplyUpdate(c) ==
  /\ Take(c, "diff") \/ Take(c, "update")
  /\ LET u == Head(up[c]).u IN
       /\ doc' = Merge(doc, u)
       /\ down' = [k \in Pages |-> IF k \in conns \ {c} /\ Receives(k)
                                   THEN Append(down[k], [type |-> "update", u |-> u])
                                   ELSE down[k]]
  /\ SchedulePersist
  /\ UNCHANGED <<conns, ghosts, alarm, stage, row, save, touches, excused, sock, faults, days>>

\* The close event: of a page that left, once its messages are handled, ...
Close(c) ==
  /\ sock[c] = "closing" /\ up[c] = <<>>
  /\ sock' = [sock EXCEPT ![c] = "gone"]
  /\ conns' = conns \ {c}
  /\ touches' = touches + 1
  /\ UNCHANGED <<doc, ghosts, timer, alarm, stage, row, save, excused, up, down, faults, days>>

\* ... and of a connection that was cut.
CloseGhost ==
  /\ ghosts > 0
  /\ ghosts' = ghosts - 1
  /\ touches' = touches + 1
  /\ UNCHANGED <<doc, conns, timer, alarm, stage, row, save, excused, sock, up, down, faults, days>>

\* updateLastActive takes effect, or fails and is logged.
Touch ==
  /\ touches > 0
  /\ touches' = touches - 1
  /\ \/ /\ row' = IF row = NoRow THEN [state |-> NoDoc, idle |-> FALSE]
                                 ELSE [row EXCEPT !.idle = FALSE]
        /\ UNCHANGED faults
     \/ Fault /\ UNCHANGED row
  /\ UNCHANGED <<doc, conns, ghosts, timer, alarm, stage, save, excused, sock, up, down, days>>

\* schedulePersist's timer runs out: save() encodes the document.  A save is
\* assumed to be over before the next one starts, five seconds later.
Persist ==
  /\ timer /\ save = NoDoc
  /\ timer' = FALSE
  /\ save' = doc
  /\ UNCHANGED <<doc, conns, ghosts, alarm, stage, row, touches, excused, sock, up, down, faults, days>>

SaveLands ==
  /\ save # NoDoc
  /\ row' = [state |-> save, idle |-> FALSE]
  /\ save' = NoDoc
  /\ excused' = FALSE
  /\ UNCHANGED <<doc, conns, ghosts, timer, alarm, stage, touches, sock, up, down, faults, days>>

\* A save that fails is logged and not tried again.
SaveFails ==
  /\ save # NoDoc
  /\ Fault
  /\ save' = NoDoc
  /\ excused' = TRUE
  /\ UNCHANGED <<doc, conns, ghosts, timer, alarm, stage, row, touches, sock, up, down, days>>

\* alarm(), long after it was set: the row is read; a missing one ends the
\* handler, which sets no other alarm.
AlarmReads ==
  /\ alarm /\ stage = "none"
  /\ row # NoRow \/ touches = 0
  /\ InMemory
  /\ alarm' = FALSE
  /\ stage' = IF row = NoRow THEN "none" ELSE IF row.idle THEN "stale" ELSE "fresh"
  /\ UNCHANGED <<conns, ghosts, timer, row, save, touches, sock, up, down, days>>

\* Then the clients of this moment and the row of that one decide.
AlarmDecides ==
  /\ stage \in {"stale", "fresh"}
  /\ IF stage = "stale" /\ conns = {} /\ ghosts = 0
     THEN stage' = "delete" /\ UNCHANGED alarm
     ELSE stage' = "none" /\ alarm' = TRUE
  /\ UNCHANGED <<doc, conns, ghosts, timer, row, save, touches, excused, sock, up, down, faults, days>>

\* The DELETE takes effect, and the clients are cleared: also one that
\* connected meanwhile.
AlarmDeletes ==
  /\ stage = "delete"
  /\ stage' = "none"
  /\ row' = NoRow
  /\ conns' = {} /\ ghosts' = 0
  /\ excused' = TRUE
  /\ UNCHANGED <<doc, timer, alarm, save, touches, sock, up, down, faults, days>>

\* A connection breaks; the page notices at once, the relay later.
Cut(c) ==
  /\ Receives(c)
  /\ Fault
  /\ sock' = [sock EXCEPT ![c] = "waiting"]
  /\ up' = [up EXCEPT ![c] = <<>>] /\ down' = [down EXCEPT ![c] = <<>>]
  /\ conns' = conns \ {c}
  /\ ghosts' = IF c \in conns THEN ghosts + 1 ELSE ghosts
  /\ UNCHANGED <<doc, timer, alarm, stage, row, save, touches, excused, days>>

\* The object is evicted or its worker redeployed, outside its alarm handler:
\* memory and sockets are gone.
Evict ==
  /\ doc # NoDoc /\ stage = "none"
  /\ Fault
  /\ doc' = NoDoc /\ conns' = {} /\ ghosts' = 0 /\ timer' = FALSE
  /\ sock' = [c \in Pages |-> CASE Receives(c) -> "waiting"
                                [] sock[c] = "closing" -> "gone"
                                [] OTHER -> sock[c]]
  /\ up' = [c \in Pages |-> <<>>] /\ down' = [c \in Pages |-> <<>>]
  /\ UNCHANGED <<alarm, stage, row, save, touches, excused, days>>

\* A day without traffic.
DayPasses ==
  /\ days < MaxDays /\ days' = days + 1
  /\ row # NoRow /\ ~timer /\ save = NoDoc /\ touches = 0
  /\ \A c \in Pages : up[c] = <<>> /\ down[c] = <<>>
  /\ row' = [row EXCEPT !.idle = TRUE]
  /\ UNCHANGED <<doc, conns, ghosts, timer, alarm, stage, save, touches, excused,
                 sock, up, down, faults>>

\* The relay's own steps, those of the network and of time.
RelayStep ==
  \/ \E c \in Pages : Accept(c) \/ AnswerInit(c) \/ AnswerVector(c) \/ ApplyUpdate(c) \/ Close(c)
  \/ CloseGhost \/ Touch \/ Persist \/ SaveLands \/ SaveFails
  \/ AlarmReads \/ AlarmDecides \/ AlarmDeletes
  \/ (\E c \in Pages : Cut(c)) \/ Evict \/ DayPasses

RelayTypeOK ==
  /\ doc \in Docs \cup {NoDoc} /\ conns \subseteq Pages /\ ghosts \in Nat
  /\ timer \in BOOLEAN /\ alarm \in BOOLEAN
  /\ stage \in {"none", "fresh", "stale", "delete"}
  /\ row \in [state : Docs \cup {NoDoc}, idle : BOOLEAN] \cup {NoRow}
  /\ save \in Docs \cup {NoDoc} /\ touches \in Nat /\ excused \in BOOLEAN
  /\ sock \in [Pages -> Socks]
  /\ up \in [Pages -> Seq(Messages)] /\ down \in [Pages -> Seq(Messages)]
  /\ faults \in 0..MaxFaults /\ days \in 0..MaxDays

\* What the relay has accepted is in its row, or a save of it is due or under
\* way; unless a save or the load failed, or the alarm cleaned the session up,
\* with no save since.  (applyUpdate, schedulePersist, save, load, alarm)
StoredOrDue ==
  doc # NoDoc => \/ Within(doc, Stored)
                 \/ timer
                 \/ save # NoDoc /\ Within(doc, save)
                 \/ excused
=============================================================================
