---------------------------- MODULE LiveSession ----------------------------
(* A live session with its pages: web/src/liveSyncProvider.ts talks to the    *)
(* relay, web/src/useLiveSession.ts mirrors the shared document into the      *)
(* workspace the session is pinned to and back.  The query tabs stand for the *)
(* three kinds of fields, which share one treatment.  A step of a page is one *)
(* event with all that React and Yjs run before the next event.               *)
EXTENDS LiveRelay, SequencesExt

CONSTANTS
  Host,             \* the page that creates the session, the others join
  Opening,          \* the workspace each page enters with
  MaxOps            \* what the users do, all together

\* Field 0 is the array of tab names, field f the text of tab f.  Contents are
\* sequences: of names "Query n", or of what was typed.  A workspace has tabs.
Names == 0
Workspaces == [names : Seq(Nat), texts : Seq(Seq(Nat))]
HasTabs(w) == Len(w.names) = Len(w.texts) /\ w.names # <<>>

ASSUME SessionAssumption ==
  /\ Host \in Pages /\ MaxOps \in Nat
  /\ Opening \in [Pages -> Workspaces] /\ \A c \in Pages : HasTabs(Opening[c])

VARIABLES
  listed,   \* the session's own row, written by POST /api/live-session
  made,     \* what each page has inserted: field and contents
  pdoc,     \* provider.doc
  store,    \* the pinned workspace: names and texts of its tabs
  phase,    \* "solo", "synced" (provider.synced), "bound" (synced rendered), "left"
  answer,   \* history: the relay's document in its answer that begins a page's sync
  ops

pageVars == <<made, pdoc, store, phase>>
vars == <<relayVars, pageVars, listed, answer, ops>>

Init ==
  /\ RelayInit
  /\ listed = FALSE
  /\ made = [c \in Pages |-> <<>>]
  /\ pdoc = [c \in Pages |-> Empty]
  /\ store = Opening
  /\ phase = [c \in Pages |-> "solo"]
  /\ answer = [c \in Pages |-> NoDoc]
  /\ ops = 0

-----------------------------------------------------------------------------
(* A turn t of a page: its document, its store, what every page made, and the *)
(* updates that doc.on("update") sends on the way.                            *)

Live(t, f) == {i \in Integrated(t.doc) \ t.doc.del : t.made[i[1]][i[2]].field = f}

\* The order of concurrent insertions is Yjs's; any fixed one will do.
Before(i, j) == i[1] < j[1] \/ (i[1] = j[1] /\ i[2] < j[2])

Contents(t, f) ==
  LET joined[S \in SUBSET Live(t, f)] ==
        IF S = {} THEN <<>>
        ELSE LET i == CHOOSE j \in S : \A k \in S \ {j} : Before(j, k)
             IN t.made[i[1]][i[2]].value \o joined[S \ {i}]
  IN joined[Live(t, f)]

\* An update of the page itself is merged, and sent.
Own(t, u, m) == [t EXCEPT !.doc = Merge(t.doc, u), !.out = Append(t.out, u), !.made = m]

\* One transaction of the page.
Transact(t, erased, f, value) ==
  LET n == Len(t.made[t.page]) + 1
      u == [ins |-> IF value = <<>> THEN {} ELSE {<<t.page, n>>}, del |-> erased]
      made2 == [t.made EXCEPT ![t.page] = Append(@, [field |-> f, value |-> value])]
  IN IF u = Empty THEN t ELSE Own(t, u, IF value = <<>> THEN t.made ELSE made2)

\* Y.Text: delete all of it, then insert: two transactions.
Rewrite(t, f, value) ==
  IF Contents(t, f) = value THEN t
  ELSE Transact(Transact(t, Live(t, f), f, <<>>), {}, f, value)

RewriteNames(t) ==
  IF Contents(t, Names) = t.store.names THEN t
  ELSE Transact(t, Live(t, Names), Names, t.store.names)

\* Mutant of Changed: an observer for insertions only.
Grown(b, t, f) == Live(t, f) \ Live(b, f) # {}

\* Mutant of Changed: the field is not observed.
NotObserved(b, t, f) == FALSE

\* An observer's event has a delta.
Changed(b, t, f) == Live(b, f) # Live(t, f)

Rebuilt(t, names) == [f \in DOMAIN names |-> Contents(t, f)]

\* The observers, after a transaction that led from b to t: reconcile*Names
\* rebuilds all tabs from the document, a field's own observer its text.
\* Fields are observed that the workspace had when the session began.
Observe(b, t) ==
  LET names == Contents(t, Names)
      rebuilt == Live(b, Names) # Live(t, Names) /\ names # <<>> /\ names # t.store.names
      heard == {f \in 1..Len(Opening[t.page].texts) : Changed(b, t, f)}
      texts == IF rebuilt THEN Rebuilt(t, names)
               ELSE [f \in DOMAIN t.store.texts |->
                       IF f \in heard THEN Contents(t, f) ELSE t.store.texts[f]]
  IN [t EXCEPT !.store = [names |-> IF rebuilt THEN names ELSE @.names, texts |-> texts],
               !.touched = @ \/ rebuilt \/ heard # {}]

\* The re-seed effect: the document is made to match the store, its observers
\* are switched off.
Reseed(t) ==
  LET after[f \in 0..Len(t.store.texts)] ==
        IF f = 0 THEN RewriteNames(t) ELSE Rewrite(after[f - 1], f, t.store.texts[f])
  IN after[Len(t.store.texts)]

\* seedDoc: empty fields get what the workspace held when the session began.
Fill(b, f, value) == IF Live(b, f) = {} THEN Observe(b, Transact(b, {}, f, value)) ELSE b

Seed(t) ==
  LET after[f \in 0..Len(Opening[t.page].texts)] ==
        IF f = 0 THEN Fill(t, Names, Opening[t.page].names)
                 ELSE Fill(after[f - 1], f, Opening[t.page].texts[f])
  IN after[Len(Opening[t.page].texts)]

Turn(c) == [page |-> c, doc |-> pdoc[c], store |-> store[c], made |-> made,
            out |-> <<>>, touched |-> FALSE]

\* A change of the workspace runs the re-seed effect once the page is bound.
Rendered(t) == IF t.touched /\ phase[t.page] = "bound" THEN Reseed(t) ELSE t

\* The turn is over: what it sends goes out if the socket is open.
Done(c, t) ==
  /\ pdoc' = [pdoc EXCEPT ![c] = t.doc]
  /\ store' = [store EXCEPT ![c] = t.store]
  /\ made' = t.made
  /\ up' = [up EXCEPT ![c] = IF sock[c] # "open" THEN @
                             ELSE @ \o [k \in DOMAIN t.out |-> [type |-> "update", u |-> t.out[k]]]]

-----------------------------------------------------------------------------
(* Starting, joining and leaving, and the provider's socket.                  *)

relayOwn == <<doc, conns, ghosts, timer, alarm, stage, row, save, touches, excused, faults, days>>

\* POST /api/live-session by the host, GET by the others; then the provider is
\* made and connects.
Start(c) ==
  /\ sock[c] = "off"
  /\ c = Host \/ listed
  /\ listed' = TRUE
  /\ sock' = [sock EXCEPT ![c] = "connecting"]
  /\ UNCHANGED <<relayOwn, up, down, pageVars, answer, ops>>

\* Mutant of Hello: the page waits to be asked.
NoHello == <<>>

Hello == <<[type |-> "init"]>>

\* "open": the page asks for the relay's state vector.
Open(c) ==
  /\ sock[c] = "accepted"
  /\ sock' = [sock EXCEPT ![c] = "open"]
  /\ up' = [up EXCEPT ![c] = @ \o Hello]
  /\ UNCHANGED <<relayOwn, down, pageVars, listed, answer, ops>>

\* scheduleReconnect's timer runs out.
Retry(c) ==
  /\ sock[c] = "waiting"
  /\ sock' = [sock EXCEPT ![c] = "connecting"]
  /\ UNCHANGED <<relayOwn, up, down, pageVars, listed, answer, ops>>

\* endLiveSession or the page is closed: destroy.  What was sent still arrives.
Leave(c) ==
  /\ ops < MaxOps /\ ops' = ops + 1
  /\ sock[c] \in {"connecting", "accepted", "open", "waiting"}
  /\ sock' = [sock EXCEPT ![c] = IF Receives(c) THEN "closing" ELSE "gone"]
  /\ down' = [down EXCEPT ![c] = <<>>]
  /\ phase' = [phase EXCEPT ![c] = "left"]
  /\ UNCHANGED <<relayOwn, up, made, pdoc, store, listed, answer>>

-----------------------------------------------------------------------------
(* handleMessage.                                                             *)

Receive(c, type) ==
  /\ sock[c] = "open" /\ down[c] # <<>> /\ Head(down[c]).type = type
  /\ down' = [down EXCEPT ![c] = Tail(@)]
  /\ UNCHANGED <<relayOwn, sock, listed, ops>>

Send(c, m) == up' = [up EXCEPT ![c] = Append(@, m)]

\* Step 0x00 is answered with the page's state vector, ...
PageInit(c) ==
  /\ Receive(c, "init")
  /\ Send(c, [type |-> "vector", sv |-> Vector(pdoc[c])])
  /\ UNCHANGED <<pageVars, answer>>

\* ... step 0x01 with what the relay misses.
PageVector(c) ==
  /\ Receive(c, "vector")
  /\ Send(c, [type |-> "diff", u |-> Diff(pdoc[c], Head(down[c]).sv)])
  /\ UNCHANGED <<pageVars, answer>>

\* applyUpdate with the provider as origin: observed, not sent back.
Applied(c) == LET t == Turn(c)
              IN Observe(t, [t EXCEPT !.doc = Merge(@, Head(down[c]).u)])

\* Mutant of Answered: the page seeds before it applies the answer.
SeededFirst(c) ==
  LET t == Seed(Turn(c)) IN Observe(t, [t EXCEPT !.doc = Merge(@, Head(down[c]).u)])

\* The "synced" listener seeds.
Answered(c) == Seed(Applied(c))

\* Step 0x02 answers the page's vector.  The first one ends the initial sync.
PageDiff(c) ==
  /\ Receive(c, "diff")
  /\ IF phase[c] = "solo"
     THEN Done(c, Answered(c)) /\ phase' = [phase EXCEPT ![c] = "synced"]
     ELSE Done(c, Rendered(Applied(c))) /\ UNCHANGED phase
  /\ UNCHANGED answer

PageUpdate(c) ==
  /\ Receive(c, "update")
  /\ Done(c, Rendered(Applied(c)))
  /\ UNCHANGED <<phase, answer>>

\* setSynced(true) is rendered: the editors are bound, the re-seed effect runs.
Bind(c) ==
  /\ phase[c] = "synced"
  /\ phase' = [phase EXCEPT ![c] = "bound"]
  /\ Done(c, Reseed(Turn(c)))
  /\ UNCHANGED <<relayOwn, sock, down, listed, answer, ops>>

-----------------------------------------------------------------------------
(* The user of a page.                                                        *)

Act(c, phases) ==
  /\ sock[c] # "off" /\ phase[c] \in phases
  /\ ops < MaxOps /\ ops' = ops + 1
  /\ UNCHANGED <<relayOwn, sock, down, phase, listed, answer>>

\* Typing into a tab that is bound: MonacoBinding inserts into the Y.Text, the
\* editor's onChange leaves the store alone, and observers fire.  Typed text is
\* told apart by its number.
Typed == <<MaxOps + ops>>
Type(c, f) ==
  /\ Act(c, {"bound"})
  /\ f \in DOMAIN store[c].texts
  /\ Done(c, Rendered(Observe(Turn(c), Transact(Turn(c), {}, f, Typed))))

\* Before that, typing goes into the store alone.
TypeSolo(c, f) ==
  /\ Act(c, {"solo", "synced"})
  /\ f \in DOMAIN store[c].texts
  /\ Done(c, [Turn(c) EXCEPT !.store.texts[f] = @ \o Typed])

\* addQueryTab and removeQueryTab change the store, the effect does the rest.
Edited(c, s) == Done(c, Rendered([Turn(c) EXCEPT !.store = s, !.touched = TRUE]))

\* The least n such that no tab is named "Query n".
NextName(names) ==
  CHOOSE k \in 1..(Len(names) + 1) :
    /\ \A i \in DOMAIN names : names[i] # k
    /\ \A j \in 1..(k - 1) : \E i \in DOMAIN names : names[i] = j

AddTab(c) ==
  /\ Act(c, {"solo", "synced", "bound"})
  /\ Edited(c, [names |-> Append(store[c].names, NextName(store[c].names)),
                texts |-> Append(store[c].texts, <<>>)])

RemoveTab(c, i) ==
  /\ Act(c, {"solo", "synced", "bound"})
  /\ i \in DOMAIN store[c].names /\ Len(store[c].names) > 1
  /\ Edited(c, [names |-> RemoveAt(store[c].names, i), texts |-> RemoveAt(store[c].texts, i)])

-----------------------------------------------------------------------------
\* The relay's steps; its last answer to a page that has none is remembered.
Noted ==
  /\ answer' = [c \in Pages |-> IF phase[c] = "solo" /\ up[c] # <<>> /\ up'[c] = Tail(up[c])
                                   /\ Head(up[c]).type = "vector" THEN doc ELSE answer[c]]
  /\ UNCHANGED <<pageVars, listed, ops>>

Relay == RelayStep /\ Noted

Deliver(c) == PageInit(c) \/ PageVector(c) \/ PageDiff(c) \/ PageUpdate(c)

User(c) ==
  \/ Leave(c) \/ AddTab(c)
  \/ \E f \in 1..Len(store[c].texts) : Type(c, f) \/ TypeSolo(c, f) \/ RemoveTab(c, f)

Next ==
  \/ Relay
  \/ \E c \in Pages : Start(c) \/ Open(c) \/ Retry(c) \/ Deliver(c) \/ Bind(c) \/ User(c)

\* What is done about page c without a user; Deliver and Bind by what they do
\* to one variable.
Handled(c) == (Accept(c) \/ AnswerInit(c) \/ AnswerVector(c) \/ ApplyUpdate(c) \/ Close(c)) /\ Noted
Delivered(c) == sock[c] = "open" /\ down[c] # <<>> /\ down' = [down EXCEPT ![c] = Tail(@)]
Rendering(c) == phase[c] = "synced" /\ phase' = [phase EXCEPT ![c] = "bound"]

Statement == (Touch \/ CloseGhost \/ Persist \/ SaveLands) /\ Noted
Alarm == (AlarmDecides \/ AlarmDeletes) /\ Noted

\* Messages and statements arrive, timers run out, React renders.
Fairness ==
  /\ \A c \in Pages :
       /\ WF_vars(Handled(c)) /\ WF_vars(Open(c) \/ Retry(c))
       /\ WF_down(Delivered(c)) /\ WF_phase(Rendering(c))
  /\ WF_vars(Statement) /\ WF_vars(Alarm)

Spec == Init /\ [][Next]_vars /\ Fairness

-----------------------------------------------------------------------------
\* Type invariant.
TypeOK ==
  /\ RelayTypeOK
  /\ listed \in BOOLEAN /\ ops \in 0..MaxOps
  /\ made \in [Pages -> Seq([field : Nat, value : Seq(Nat)])]
  /\ pdoc \in [Pages -> Docs]
  /\ store \in [Pages -> Workspaces]
  /\ \A c \in Pages : HasTabs(store[c])
  /\ phase \in [Pages -> {"solo", "synced", "bound", "left"}]
  /\ answer \in [Pages -> Docs \cup {NoDoc}]

Observed(c) == DOMAIN Opening[c].texts \cap DOMAIN store[c].texts

\* The state has its types, and between events the workspace of a bound page
\* shows the document: its tabs, and the text of every tab that is observed,
\* whichever side changed last and although both directions are written by
\* effects that switch each other off.
\* (fieldObserver, reconcileQueryTabNames, the re-seed effect)
ObservedInStep ==
  /\ TypeOK
  /\ \A c \in Pages : phase[c] = "bound" =>
       /\ Contents(Turn(c), Names) \in {<<>>, store[c].names}
       /\ \A f \in Observed(c) : store[c].texts[f] = Contents(Turn(c), f)

\* A page seeds a field only if, of all that the relay had in it when it answered
\* the page, nothing is left that the page does not know to be deleted; so two
\* pages seed one field only if both found it empty, whatever connections broke
\* and whatever the relay forgot.
\* (liveSyncProvider.ts step 0x02 and its "synced" event, seedDoc)
SeedOnlyIfEmpty ==
  [][\A c \in Pages : phase[c] = "solo" /\ phase'[c] = "synced" =>
       \A n \in DOMAIN made'[c] \ DOMAIN made[c] :
         Live([doc |-> answer[c], made |-> made], made'[c][n].field) \subseteq pdoc'[c].del]_vars

\* A page the relay knows, with no message on its way in either direction, holds
\* the relay's document and nothing else, whatever was cut, evicted, forgotten
\* or cleaned up before.
\* (both halves of the handshake, the broadcast, doc.on("update"))
QuietAgree ==
  \A c \in conns : sock[c] = "open" /\ up[c] = <<>> /\ down[c] = <<>> => pdoc[c] = doc

\* The document of a page with what the message it handles in this step brings.
Heard(c) ==
  IF down[c] # <<>> /\ down'[c] = Tail(down[c]) /\ Head(down[c]).type \in {"diff", "update"}
  THEN Merge(pdoc[c], Head(down[c]).u) ELSE pdoc[c]

\* What a bound page's own writes of one event take out of the tabs fs.
Removed(c, fs) ==
  LET kept == UNION {ToSet(Contents([doc |-> pdoc'[c], made |-> made'], f)) : f \in DOMAIN store'[c].texts}
      was == [doc |-> Heard(c), made |-> made]
  IN (UNION {ToSet(Contents(was, f)) : f \in fs}) \ kept

\* A bound page writes into the document; its list of tabs at most grows at its end.
Writes(c) ==
  /\ phase[c] = "bound" /\ phase'[c] = "bound"
  /\ pdoc'[c] # pdoc[c] /\ pdoc'[c] # Heard(c)
  /\ IsPrefix(store[c].names, store'[c].names)

\* Whatever a bound page writes into the document, for what its user did or in
\* answer to a message, text that anyone typed into an observed tab stays, unless
\* a tab goes.  (the re-seed effect, under concurrent edits)
SharedTextKept ==
  [][\A c \in Pages : Writes(c) => Removed(c, Observed(c)) = {}]_vars

\* The same of every tab: "Concurrent edits from multiple connections converge to
\* the same state with no data loss" (task-119.1, acceptance criterion 2).
TypedTextKept ==
  [][\A c \in Pages : Writes(c) =>
       Removed(c, DOMAIN store[c].texts) = {}]_vars

\* Cuts, evictions, reconnects and messages in any order: at last every page that
\* takes part is connected, and those the relay knows hold the document it holds.
\* (the handshake in both directions, applyUpdate, scheduleReconnect)
Converges ==
  <>[](\A c \in Pages : /\ sock[c] \in {"off", "open", "gone"}
                        /\ sock[c] = "open" /\ c \in conns => pdoc[c] = doc)
=============================================================================
