---------------------------- MODULE KeyExchange ----------------------------
(***************************************************************************)
(* How the devices of one account come to share its data encryption key    *)
(* (DEK): initEncryption of web/src/encryption.ts, run by every login,     *)
(* against functions/api/auth/enc-meta.ts.                                 *)
(*                                                                         *)
(* The server keeps a key wrapping key (KWK) and the DEK wrapped with one. *)
(* Each is written once, by a conditional UPDATE whose caller then reads   *)
(* back what won.  An account older than that scheme may have its DEK      *)
(* wrapped with the KWK of the old key-value store (`legacy`): the server  *)
(* offers it, the client that unwraps with it confirms it.                 *)
(*                                                                         *)
(* A key is a number, 0 is none; random keys are numbers nobody else has.  *)
(* A wrapped DEK is the pair of its keys: it unwraps with the KWK it       *)
(* names, no other.                                                        *)
(* A handler's statements, and a device's steps between two awaits that    *)
(* anything else can tell apart, are actions of their own.                 *)
(***************************************************************************)
EXTENDS Integers

CONSTANTS Devices,
          MaxLogins,  \* bound: page loads with a session
          MaxFaults   \* bound: calls that fail for a device with a session

ASSUME KeyBoundsAssumption == MaxLogins \in Nat /\ MaxFaults \in Nat

VARIABLES
  kwk, wrapped,  \* users.kwk and users.wrapped_dek
  legacy,        \* the account's kwk: entry of the old store, never written
  gets, puts,    \* handlers of enc-meta under way, or answered and undelivered
  confirms,      \* confirm_kwk PUTs under way
  auth,          \* per device: "in" or "out"
  page,          \* serial number of the device's page load
  stage,         \* where initEncryption waits: "get", "put", "import"; or "idle"
  dek,           \* its dekBytes
  key,           \* dekPromise
  currentUserId, \* "account" or "anon"
  cache,         \* localStorage: per device, the DEK of each namespace
  outcome,       \* how the latest login got its key (history)
  logins, faults \* history, for the bounds

server == <<kwk, wrapped, legacy>>
calls == <<gets, puts, confirms>>
session == <<auth, page>>
device == <<stage, dek, key, currentUserId, cache, outcome>>
bounds == <<logins, faults>>
vars == <<server, calls, session, device, bounds>>

NoKey == 0

\* The random keys: a page load has the server draw one KWK at most, and draws
\* one DEK to offer and one local key per namespace at most.
FreshKwk(n) == 4 * n
FreshDek(n) == 4 * n + 1
FreshLocal(n, user) == IF user = "account" THEN 4 * n + 2 ELSE 4 * n + 3

Wrapping == [kwk : Nat, dek : Nat]
NoWrap == [kwk |-> NoKey, dek |-> NoKey]
Opens(k, w) == w # NoWrap /\ k = w.kwk

\* A GET handler, by page load: its next statement, and what it answers.
Get == [page : Nat, at : {"getKwk", "setKwk", "rereadKwk", "getDek", "answered"},
        kwk : Nat, wrapped : Wrapping, legacy : Nat]
\* A PUT of a wrapped DEK, likewise.
Put == [page : Nat, at : {"setDek", "rereadDek", "answered"},
        sent : Wrapping, stored : Wrapping]

\* One invariant for all types; a device whose login has ended has a key to
\* encrypt with.
TypeOK ==
  /\ kwk \in Nat /\ legacy \in Nat /\ wrapped \in Wrapping
  /\ gets \subseteq Get /\ puts \subseteq Put
  /\ confirms \subseteq [page : Nat, kwk : Nat]
  /\ auth \in [Devices -> {"in", "out"}]
  /\ page \in [Devices -> 0 .. MaxLogins]
  /\ stage \in [Devices -> {"idle", "get", "put", "import"}]
  /\ dek \in [Devices -> Nat] /\ key \in [Devices -> Nat]
  /\ currentUserId \in [Devices -> {"account", "anon"}]
  /\ cache \in [Devices -> [{"account", "anon"} -> Nat]]
  /\ outcome \in [Devices -> {"none", "shared", "own", "local"}]
  /\ logins \in 0 .. MaxLogins /\ faults \in 0 .. MaxFaults
  /\ \A d \in Devices :
       auth[d] = "in" /\ stage[d] = "idle" => key[d] # NoKey

(***************************************************************************)
(* Accounts start new, or set up by earlier versions and logins: key 1 is  *)
(* the legacy KWK, 2 the one of the database, 3 the DEK.                   *)
(***************************************************************************)
Init ==
  /\ legacy \in {NoKey, 1}
  /\ kwk \in {NoKey, legacy, 2}
  /\ \/ wrapped = NoWrap
     \/ \E k \in {legacy, kwk} \ {NoKey} : wrapped = [kwk |-> k, dek |-> 3]
  /\ gets = {} /\ puts = {} /\ confirms = {}
  /\ auth = [d \in Devices |-> "out"]
  /\ page = [d \in Devices |-> 0]
  /\ stage = [d \in Devices |-> "idle"]
  /\ dek = [d \in Devices |-> NoKey]
  /\ key = [d \in Devices |-> NoKey]
  /\ currentUserId = [d \in Devices |-> "anon"]
  /\ cache = [d \in Devices |-> [u \in {"account", "anon"} |-> NoKey]]
  /\ outcome = [d \in Devices |-> "none"]
  /\ logins = 0 /\ faults = 0

(***************************************************************************)
(* The statements of db.ts, and what the handlers compute from them.       *)
(***************************************************************************)
KwkOverwritten(k) == k  \* mutant: no "AND kwk IS NULL"
KwkIfAbsent(k) == IF kwk = NoKey THEN k ELSE kwk
DekOverwritten(w) == w  \* mutant: no "AND wrapped_dek IS NULL"
DekIfAbsent(w) == IF wrapped = NoWrap THEN w ELSE wrapped

\* Mutant: the confirmation is stored as a new KWK would be.
KwkConfirmedIfAbsent(k) == IF kwk = NoKey THEN k ELSE kwk

\* PUT with confirm_kwk: only the account's own legacy key is ever adopted.
KwkConfirmed(k) == IF legacy # NoKey /\ legacy = k THEN k ELSE kwk

\* Mutant: the candidate is offered to accounts without a DEK.
OfferedIfNoDek(k) == IF wrapped = NoWrap /\ legacy # k THEN legacy ELSE NoKey

\* The candidate a GET answers beside the key it read.
Offered(k) == IF wrapped # NoWrap /\ legacy # k THEN legacy ELSE NoKey

GetKwk(g) ==
  /\ g.at = "getKwk"
  /\ IF kwk # NoKey
     THEN gets' = (gets \ {g}) \cup {[g EXCEPT !.at = "getDek", !.kwk = kwk]}
     ELSE gets' = (gets \ {g}) \cup {[g EXCEPT !.at = "setKwk", !.kwk = FreshKwk(g.page)]}
  /\ UNCHANGED <<server, puts, confirms, session, device, bounds>>

SetKwk(g) ==
  /\ g.at = "setKwk"
  /\ kwk' = KwkIfAbsent(g.kwk)
  /\ gets' = (gets \ {g}) \cup {[g EXCEPT !.at = "rereadKwk"]}
  /\ UNCHANGED <<wrapped, legacy, puts, confirms, session, device, bounds>>

RereadKwk(g) ==
  /\ g.at = "rereadKwk"
  /\ gets' = (gets \ {g}) \cup {[g EXCEPT !.at = "getDek", !.kwk = kwk]}
  /\ UNCHANGED <<server, puts, confirms, session, device, bounds>>

GetDek(g) ==
  /\ g.at = "getDek"
  /\ gets' = (gets \ {g}) \cup
       {[g EXCEPT !.at = "answered", !.wrapped = wrapped, !.legacy = Offered(g.kwk)]}
  /\ UNCHANGED <<server, puts, confirms, session, device, bounds>>

SetDek(p) ==
  /\ p.at = "setDek"
  /\ wrapped' = DekIfAbsent(p.sent)
  /\ puts' = (puts \ {p}) \cup {[p EXCEPT !.at = "rereadDek"]}
  /\ UNCHANGED <<kwk, legacy, gets, confirms, session, device, bounds>>

RereadDek(p) ==
  /\ p.at = "rereadDek"
  /\ puts' = (puts \ {p}) \cup {[p EXCEPT !.at = "answered", !.stored = wrapped]}
  /\ UNCHANGED <<server, gets, confirms, session, device, bounds>>

Confirm(c) ==
  /\ kwk' = KwkConfirmed(c.kwk)
  /\ confirms' = confirms \ {c}
  /\ UNCHANGED <<wrapped, legacy, gets, puts, session, device, bounds>>

(***************************************************************************)
(* Devices.                                                                *)
(***************************************************************************)
\* Mutant: one namespace for all users.
CachedForAll(d, k) == [cache EXCEPT ![d]["anon"] = k]

Cached(d, k) == [cache EXCEPT ![d][currentUserId[d]] = k]

\* Mutant: no key is generated where none is cached.
CachedKey(d) == cache[d][currentUserId[d]]

\* loadLocalKey: the cached key, or a fresh one put in the cache.
LocalKey(d) ==
  IF cache[d][currentUserId[d]] # NoKey
  THEN cache[d][currentUserId[d]]
  ELSE FreshLocal(page[d], currentUserId[d])

LoadLocalKey(d) ==
  /\ key' = [key EXCEPT ![d] = LocalKey(d)]
  /\ cache' = Cached(d, LocalKey(d))

\* A page load with a session: onLogin calls initEncryption, which asks for
\* the keys.  Calls of the previous page go on with nobody to answer.
Login(d) ==
  /\ logins < MaxLogins
  /\ logins' = logins + 1
  /\ auth' = [auth EXCEPT ![d] = "in"]
  /\ page' = [page EXCEPT ![d] = logins + 1]
  /\ currentUserId' = [currentUserId EXCEPT ![d] = "account"]
  /\ stage' = [stage EXCEPT ![d] = "get"]
  /\ key' = [key EXCEPT ![d] = NoKey]
  /\ dek' = [dek EXCEPT ![d] = NoKey]
  /\ outcome' = [outcome EXCEPT ![d] = "none"]
  /\ gets' = gets \cup {[page |-> logins + 1, at |-> "getKwk", kwk |-> NoKey,
                         wrapped |-> NoWrap, legacy |-> NoKey]}
  /\ UNCHANGED <<server, puts, confirms, cache, faults>>

\* getOrCreateKey before there is a key: a pull or a push of a saved workspace
\* that does not wait for the login, or anything after a logout.
UseKey(d) ==
  /\ page[d] # 0 /\ key[d] = NoKey
  /\ LoadLocalKey(d)
  /\ UNCHANGED <<server, calls, session, stage, dek, currentUserId, outcome, bounds>>

\* dekBytes is known: it is cached under whoever is the user now, and imported.
Keep(d, k, how) ==
  /\ dek' = [dek EXCEPT ![d] = k]
  /\ cache' = Cached(d, k)
  /\ stage' = [stage EXCEPT ![d] = "import"]
  /\ outcome' = [outcome EXCEPT ![d] = how]
  /\ UNCHANGED <<key, currentUserId>>

\* Any exception, and a wrapped DEK nothing unwraps: go on with the local key.
FallBack(d) ==
  /\ LoadLocalKey(d)
  /\ stage' = [stage EXCEPT ![d] = "idle"]
  /\ outcome' = [outcome EXCEPT ![d] = "local"]
  /\ UNCHANGED <<dek, currentUserId>>

Awaits(d, call, where) == stage[d] = where /\ call.page = page[d]

\* The account has no DEK yet: draw one, wrap it and send it.
Offer(d) == \E g \in gets :
  /\ Awaits(d, g, "get") /\ g.at = "answered" /\ g.wrapped = NoWrap
  /\ dek' = [dek EXCEPT ![d] = FreshDek(page[d])]
  /\ stage' = [stage EXCEPT ![d] = "put"]
  /\ gets' = gets \ {g}
  /\ puts' = puts \cup {[page |-> g.page, at |-> "setDek",
                         sent |-> [kwk |-> g.kwk, dek |-> FreshDek(page[d])], stored |-> NoWrap]}
  /\ UNCHANGED <<server, confirms, session, key, currentUserId, cache, outcome, bounds>>

UnwrapsDirectly(g) == Opens(g.kwk, g.wrapped)  \* mutant: no legacy key
Unwraps(g) == Opens(g.kwk, g.wrapped) \/ Opens(g.legacy, g.wrapped)

\* It has one: unwrap it, with the legacy key if the other one fails, and then
\* tell the server without waiting for the answer.
Unwrap(d) == \E g \in gets :
  /\ Awaits(d, g, "get") /\ g.at = "answered" /\ g.wrapped # NoWrap
  /\ gets' = gets \ {g}
  /\ IF Unwraps(g)
     THEN Keep(d, g.wrapped.dek, "shared")
     ELSE FallBack(d)
  /\ confirms' = IF ~Opens(g.kwk, g.wrapped) /\ Opens(g.legacy, g.wrapped)
                 THEN confirms \cup {[page |-> g.page, kwk |-> g.legacy]}
                 ELSE confirms
  /\ UNCHANGED <<server, puts, session, bounds>>

\* Mutant: the answer is ignored.
OwnKeyAdopted(p) == p.sent.dek

\* The DEK the PUT's answer leaves the device with: its own if that one won or
\* the winner does not unwrap, otherwise the winner.
Adopted(p) == IF Opens(p.sent.kwk, p.stored) THEN p.stored.dek ELSE p.sent.dek

Adopt(d) == \E p \in puts :
  /\ Awaits(d, p, "put") /\ p.at = "answered"
  /\ puts' = puts \ {p}
  /\ Keep(d, Adopted(p), "shared")
  /\ UNCHANGED <<server, gets, confirms, session, bounds>>

\* The import ends and getOrCreateKey has its answer.
Ready(d) ==
  /\ stage[d] = "import"
  /\ stage' = [stage EXCEPT ![d] = "idle"]
  /\ key' = [key EXCEPT ![d] = dek[d]]
  /\ UNCHANGED <<server, calls, session, dek, currentUserId, cache, outcome, bounds>>

(***************************************************************************)
(* Failures.  A call that failed for its device may have run, run later or *)
(* never run.  requireUser refuses one that comes after the logout.        *)
(***************************************************************************)
Fault == faults < MaxFaults /\ faults' = faults + 1
Refused(d, call, first) == auth[d] # "in" /\ call.at = first /\ UNCHANGED faults

GetFails(d) == \E g \in gets :
  /\ Awaits(d, g, "get")
  /\ Fault \/ Refused(d, g, "getKwk")
  /\ FallBack(d)
  /\ UNCHANGED <<server, calls, session, logins>>

\* The fetch rejects, and so does initEncryption's try block.
PutFails(d) == \E p \in puts :
  /\ Awaits(d, p, "put")
  /\ Fault
  /\ FallBack(d)
  /\ UNCHANGED <<server, calls, session, logins>>

\* The server answers with an error: go on with the key that was offered.
PutRefused(d) == \E p \in puts :
  /\ Awaits(d, p, "put")
  /\ Fault \/ Refused(d, p, "setDek")
  /\ Keep(d, p.sent.dek, "own")
  /\ UNCHANGED <<server, calls, session, logins>>

\* The best-effort confirmation fails.  (A GET or PUT nobody waits for needs no
\* such action: nothing makes it go on.)
LoseConfirm(c) ==
  /\ Fault
  /\ confirms' = confirms \ {c}
  /\ UNCHANGED <<server, gets, puts, session, device, logins>>

\* logout, and clearCachedKey: the request and the change of the page are one
\* step.  An initEncryption still waiting is not cancelled.
Logout(d) ==
  /\ auth[d] = "in"
  /\ auth' = [auth EXCEPT ![d] = "out"]
  /\ cache' = Cached(d, NoKey)
  /\ currentUserId' = [currentUserId EXCEPT ![d] = "anon"]
  /\ key' = [key EXCEPT ![d] = NoKey]
  /\ outcome' = [outcome EXCEPT ![d] = "none"]
  /\ UNCHANGED <<server, calls, page, stage, dek, bounds>>

(***************************************************************************)
(* The system.                                                             *)
(***************************************************************************)
ServeGet(g) == GetKwk(g) \/ SetKwk(g) \/ RereadKwk(g) \/ GetDek(g)
ServePut(p) == SetDek(p) \/ RereadDek(p)
Continue(d) == Offer(d) \/ Unwrap(d) \/ Adopt(d) \/ Ready(d)
Fail(d) == GetFails(d) \/ PutFails(d) \/ PutRefused(d)
Use(d) == Login(d) \/ UseKey(d) \/ Logout(d)

Next ==
  \/ \E g \in gets : ServeGet(g)
  \/ \E p \in puts : ServePut(p)
  \/ \E c \in confirms : Confirm(c) \/ LoseConfirm(c)
  \/ \E d \in Devices : Continue(d) \/ Fail(d) \/ Use(d)

Spec == Init /\ [][Next]_vars

\* Whose calls are certain to be executed: a page's that is still there.
Alive(call) == \E d \in Devices : auth[d] = "in" /\ call.page = page[d]

\* The server answers a page that waits, and the page goes on with the answer.
\* No login, logout or failure is fair.
FairSpec ==
  /\ Spec
  /\ \A n \in 1 .. MaxLogins :
       /\ WF_vars(\E g \in gets : g.page = n /\ Alive(g) /\ ServeGet(g))
       /\ WF_vars(\E p \in puts : p.page = n /\ Alive(p) /\ ServePut(p))
       /\ WF_vars(\E c \in confirms : c.page = n /\ Alive(c) /\ Confirm(c))
  /\ \A d \in Devices : WF_vars(Continue(d))

(***************************************************************************)
(* Properties.                                                             *)
(***************************************************************************)

\* A GET's answer holds a key that unwraps the DEK it holds, although the two
\* are read by different statements, around the writes of other handlers and
\* confirmations (enc-meta.ts:58-82): no login meets the "genuine corruption"
\* of encryption.ts:149.
AnswersUnwrap ==
  \A g \in gets : g.at = "answered" /\ g.wrapped # NoWrap => Unwraps(g)

\* Devices whose login went through hold one key: the one every other device
\* will unwrap from the server (first-login race, encryption.ts:155-176).
Holds(d) == stage[d] = "idle" /\ outcome[d] = "shared" /\ key[d] # NoKey
OneKey == \A d \in Devices : Holds(d) => wrapped # NoWrap /\ key[d] = wrapped.dek

\* Once the stored KWK unwraps the stored DEK no late write or confirmation
\* replaces it (db.ts:278-310, enc-meta.ts:99-117).
KwkStays == [][Opens(kwk, wrapped) => kwk' = kwk]_vars

\* A reload without the network finds the key in use: between logins the cache
\* of the user's namespace is never another key than the one encrypted with
\* (encryption.ts:14, 103-190).
ReloadKeepsKey ==
  \A d \in Devices : auth[d] = "in" /\ stage[d] = "idle" => cache[d]["account"] = key[d]

\* Key setup implements a key chosen once and learned from the server.
Register == INSTANCE KeyRegister WITH
  chosen <- wrapped.dek,
  learned <- [d \in Devices |-> IF Holds(d) THEN key[d] ELSE NoKey]
IsKeyRegister == Register!Spec

\* A login that nothing disturbs any more ends with the shared key
\* (encryption.ts:100-190).
Undisturbed(d) == stage[d] = "get" /\ faults = MaxFaults
LoginShares ==
  \A d \in Devices :
    Undisturbed(d) ~> (Holds(d) /\ key[d] = wrapped.dek) \/ auth[d] # "in"

\* It also leaves an account whose DEK the current KWK unwraps, so that later
\* logins need no legacy key (encryption.ts:126-145).
Repaired ==
  \A d \in Devices : Undisturbed(d) ~> Opens(kwk, wrapped) \/ auth[d] # "in"
=============================================================================
