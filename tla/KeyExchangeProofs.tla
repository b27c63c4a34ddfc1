------------------------- MODULE KeyExchangeProofs -------------------------
(***************************************************************************)
(* Proofs about KeyExchange, for any set of devices and any bounds.        *)
(*                                                                         *)
(* The argument: a KWK only changes while there is none, or by a           *)
(* confirmation; a confirmation exists only once the DEK is stored, and    *)
(* names the key it is wrapped with.  So as long as there is no DEK all    *)
(* answers hold the stored KWK, and all offers are wrapped with it.        *)
(***************************************************************************)
EXTENDS KeyExchange, TLAPS

\* What is drawn or stored is a key, and what was read of the DEK still holds.
Written ==
  /\ wrapped # NoWrap => wrapped.kwk # NoKey /\ wrapped.dek # NoKey
  /\ \A g \in gets :
       /\ g.page # 0
       /\ g.at \in {"setKwk", "getDek", "answered"} => g.kwk # NoKey
       /\ g.at = "rereadKwk" => kwk # NoKey
       /\ g.wrapped \in {NoWrap, wrapped}
  /\ \A p \in puts :
       /\ p.sent.kwk # NoKey /\ p.sent.dek # NoKey
       /\ p.at # "setDek" => wrapped # NoWrap
       /\ p.at = "answered" => p.stored = wrapped
  /\ \A c \in confirms : wrapped # NoWrap

\* Which KWK is where: before the DEK is stored everyone has the stored KWK,
\* afterwards what matters is what the DEK is wrapped with.
Wrapper == IF wrapped = NoWrap THEN kwk ELSE wrapped.kwk

KwkKnown ==
  /\ wrapped # NoWrap => wrapped.kwk \in {kwk, legacy}
  /\ \A g \in gets :
       /\ g.at \in {"getDek", "answered"} =>
            kwk = g.kwk \/ (wrapped # NoWrap /\ kwk = wrapped.kwk /\ kwk = legacy)
       /\ g.at = "answered" /\ g.wrapped = NoWrap => g.kwk = Wrapper
  /\ \A p \in puts : p.sent.kwk = Wrapper /\ kwk # NoKey
  /\ \A c \in confirms : c.kwk = wrapped.kwk

\* The key a login got from the server, on its way to the device and there.
Shared ==
  \A d \in Devices :
    /\ stage[d] = "import" => dek[d] # NoKey
    /\ stage[d] = "import" /\ outcome[d] = "shared" => wrapped # NoWrap /\ dek[d] = wrapped.dek
    /\ stage[d] = "idle" /\ outcome[d] = "shared" =>
         wrapped # NoWrap /\ key[d] = wrapped.dek

\* A page with a session caches in its user's namespace the key it will have.
CacheInStep ==
  \A d \in Devices : auth[d] = "in" =>
    /\ currentUserId[d] = "account"
    /\ stage[d] = "import" => cache[d]["account"] = dek[d]
    /\ stage[d] = "idle" => cache[d]["account"] = key[d]

IInv == TypeOK /\ Written /\ KwkKnown /\ AnswersUnwrap /\ Shared /\ CacheInStep

USE KeyBoundsAssumption

LEMMA NoWrapType == NoWrap \in Wrapping /\ NoWrap.dek = NoKey /\ NoWrap.kwk = NoKey
BY DEF NoWrap, Wrapping, NoKey

\* A local key is a key, and is what loadLocalKey leaves in the cache.
LEMMA LocalKeyIsKey ==
  ASSUME TypeOK, NEW d \in Devices
  PROVE  LocalKey(d) \in Nat \ {NoKey} /\ currentUserId[d] \in {"account", "anon"}
<1>1. /\ currentUserId[d] \in {"account", "anon"} /\ page[d] \in Nat
      /\ cache[d] \in [{"account", "anon"} -> Nat]
  BY DEF TypeOK
<1>2. FreshLocal(page[d], currentUserId[d]) \in Nat \ {NoKey}
  BY <1>1 DEF FreshLocal, NoKey
<1> QED
  BY <1>1, <1>2 DEF LocalKey

\* Writing the cache changes one namespace of one device.
LEMMA CachedType ==
  ASSUME TypeOK, NEW d \in Devices, NEW k \in Nat
  PROVE  /\ Cached(d, k) \in [Devices -> [{"account", "anon"} -> Nat]]
         /\ Cached(d, k)[d][currentUserId[d]] = k
         /\ \A e \in Devices \ {d} : Cached(d, k)[e] = cache[e]
         /\ \A u \in {"account", "anon"} :
              u # currentUserId[d] => Cached(d, k)[d][u] = cache[d][u]
<1>1. /\ cache \in [Devices -> [{"account", "anon"} -> Nat]]
      /\ currentUserId[d] \in {"account", "anon"}
  BY DEF TypeOK
<1>2. Cached(d, k) = [cache EXCEPT ![d] = [cache[d] EXCEPT ![currentUserId[d]] = k]]
  BY DEF Cached
<1>3. [cache[d] EXCEPT ![currentUserId[d]] = k] \in [{"account", "anon"} -> Nat]
  BY <1>1
<1> QED
  BY <1>1, <1>2, <1>3

(***************************************************************************)
(* Types.                                                                  *)
(***************************************************************************)
LEMMA TypeInit == Init => TypeOK
<1> SUFFICES ASSUME Init PROVE TypeOK
  OBVIOUS
<1>1. legacy \in Nat /\ kwk \in Nat /\ wrapped \in Wrapping
  <2>1. legacy \in Nat /\ kwk \in Nat
    BY DEF Init, NoKey
  <2>2. CASE wrapped = NoWrap
    BY <2>1, <2>2, NoWrapType
  <2>3. CASE \E k \in {legacy, kwk} \ {NoKey} : wrapped = [kwk |-> k, dek |-> 3]
    BY <2>1, <2>3 DEF Wrapping
  <2> QED
    BY <2>1, <2>2, <2>3 DEF Init
<1>2. cache \in [Devices -> [{"account", "anon"} -> Nat]]
  BY DEF Init, NoKey
<1> QED
  BY <1>1, <1>2 DEF Init, TypeOK, NoKey

\* An answer or an exception leaves a device with well-typed state.
LEMMA KeepType ==
  ASSUME TypeOK, NEW d \in Devices, NEW k \in Nat, NEW how \in {"shared", "own"},
         Keep(d, k, how)
  PROVE  /\ stage' \in [Devices -> {"idle", "get", "put", "import"}]
         /\ dek' \in [Devices -> Nat] /\ key' \in [Devices -> Nat]
         /\ currentUserId' \in [Devices -> {"account", "anon"}]
         /\ cache' \in [Devices -> [{"account", "anon"} -> Nat]]
         /\ outcome' \in [Devices -> {"none", "shared", "own", "local"}]
         /\ \A e \in Devices : stage'[e] = "idle" => stage[e] = "idle" /\ key'[e] = key[e]
<1>1. cache' \in [Devices -> [{"account", "anon"} -> Nat]]
  BY CachedType DEF Keep
<1> QED
  BY <1>1 DEF Keep, TypeOK

LEMMA FallBackType ==
  ASSUME TypeOK, NEW d \in Devices, FallBack(d)
  PROVE  /\ stage' \in [Devices -> {"idle", "get", "put", "import"}]
         /\ dek' \in [Devices -> Nat] /\ key' \in [Devices -> Nat]
         /\ currentUserId' \in [Devices -> {"account", "anon"}]
         /\ cache' \in [Devices -> [{"account", "anon"} -> Nat]]
         /\ outcome' \in [Devices -> {"none", "shared", "own", "local"}]
         /\ key'[d] # NoKey
         /\ \A e \in Devices \ {d} : stage'[e] = stage[e] /\ key'[e] = key[e]
<1>1. LocalKey(d) \in Nat \ {NoKey}
  BY LocalKeyIsKey
<1>2. cache' \in [Devices -> [{"account", "anon"} -> Nat]]
  BY <1>1, CachedType DEF FallBack, LoadLocalKey
<1> QED
  BY <1>1, <1>2 DEF FallBack, LoadLocalKey, TypeOK

\* Statements of a handler keep the calls well typed, and touch no device.
LEMMA ServeType ==
  ASSUME TypeOK,
         \/ \E g \in gets : ServeGet(g)
         \/ \E p \in puts : ServePut(p)
         \/ \E c \in confirms : Confirm(c) \/ LoseConfirm(c)
  PROVE  TypeOK'
<1>1. ASSUME NEW g \in gets, GetKwk(g) PROVE TypeOK'
  <2>1. g \in Get /\ FreshKwk(g.page) \in Nat
    BY DEF TypeOK, Get, FreshKwk
  <2>2. /\ [g EXCEPT !.at = "getDek", !.kwk = kwk] \in Get
        /\ [g EXCEPT !.at = "setKwk", !.kwk = FreshKwk(g.page)] \in Get
    BY <2>1 DEF TypeOK, Get
  <2>3. gets' \subseteq Get
    BY <1>1, <2>2 DEF GetKwk, TypeOK
  <2> QED
    BY <1>1, <2>3 DEF GetKwk, TypeOK, server, session, device, bounds
<1>2. ASSUME NEW g \in gets, SetKwk(g) PROVE TypeOK'
  <2>1. [g EXCEPT !.at = "rereadKwk"] \in Get
    BY DEF TypeOK, Get
  <2>2. gets' \subseteq Get /\ kwk' \in Nat
    BY <1>2, <2>1 DEF SetKwk, KwkIfAbsent, TypeOK, Get
  <2> QED
    BY <1>2, <2>2 DEF SetKwk, TypeOK, session, device, bounds
<1>3. ASSUME NEW g \in gets, RereadKwk(g) PROVE TypeOK'
  <2>1. [g EXCEPT !.at = "getDek", !.kwk = kwk] \in Get
    BY DEF TypeOK, Get
  <2>2. gets' \subseteq Get
    BY <1>3, <2>1 DEF RereadKwk, TypeOK
  <2> QED
    BY <1>3, <2>2 DEF RereadKwk, TypeOK, server, session, device, bounds
<1>4. ASSUME NEW g \in gets, GetDek(g) PROVE TypeOK'
  <2>1. Offered(g.kwk) \in Nat
    BY DEF TypeOK, Offered, NoKey
  <2>2. [g EXCEPT !.at = "answered", !.wrapped = wrapped, !.legacy = Offered(g.kwk)] \in Get
    <3>1. g \in Get /\ wrapped \in Wrapping
      BY DEF TypeOK
    <3>2. PICK k \in Nat : k = Offered(g.kwk)
      BY <2>1
    <3>3. [g EXCEPT !.at = "answered", !.wrapped = wrapped, !.legacy = k] \in Get
      BY <3>1 DEF Get
    <3> QED
      BY <3>2, <3>3
  <2>3. gets' \subseteq Get
    BY <1>4, <2>2 DEF GetDek, TypeOK
  <2> QED
    BY <1>4, <2>3 DEF GetDek, TypeOK, server, session, device, bounds
<1>5. ASSUME NEW p \in puts, SetDek(p) PROVE TypeOK'
  <2>1. [p EXCEPT !.at = "rereadDek"] \in Put /\ p.sent \in Wrapping
    BY DEF TypeOK, Put
  <2>2. puts' \subseteq Put /\ wrapped' \in Wrapping
    BY <1>5, <2>1 DEF SetDek, DekIfAbsent, TypeOK
  <2> QED
    BY <1>5, <2>2 DEF SetDek, TypeOK, session, device, bounds
<1>6. ASSUME NEW p \in puts, RereadDek(p) PROVE TypeOK'
  <2>1. [p EXCEPT !.at = "answered", !.stored = wrapped] \in Put
    BY DEF TypeOK, Put
  <2>2. puts' \subseteq Put
    BY <1>6, <2>1 DEF RereadDek, TypeOK
  <2> QED
    BY <1>6, <2>2 DEF RereadDek, TypeOK, server, session, device, bounds
<1>7. ASSUME NEW c \in confirms, Confirm(c) PROVE TypeOK'
  <2>1. kwk' \in Nat
    BY <1>7 DEF Confirm, KwkConfirmed, TypeOK
  <2> QED
    BY <1>7, <2>1 DEF Confirm, TypeOK, session, device, bounds
<1>8. ASSUME NEW c \in confirms, LoseConfirm(c) PROVE TypeOK'
  BY <1>8 DEF LoseConfirm, Fault, TypeOK, server, session, device
<1> QED
  BY <1>1, <1>2, <1>3, <1>4, <1>5, <1>6, <1>7, <1>8 DEF ServeGet, ServePut

LEMMA DeviceType ==
  ASSUME TypeOK, Written, Shared, NEW d \in Devices, Continue(d) \/ Fail(d) \/ Use(d)
  PROVE  TypeOK'
<1>0. FreshDek(page[d]) \in Nat \ {NoKey}
  BY DEF TypeOK, FreshDek, NoKey
<1>1. CASE Offer(d)
  <2>1. PICK g \in gets : Offer(d)!(g)
    BY <1>1 DEF Offer
  <2>2. [page |-> g.page, at |-> "setDek",
         sent |-> [kwk |-> g.kwk, dek |-> FreshDek(page[d])], stored |-> NoWrap] \in Put
    BY <1>0, NoWrapType DEF TypeOK, Get, Put, Wrapping
  <2>3. puts' \subseteq Put /\ gets' \subseteq Get
    BY <2>1, <2>2 DEF TypeOK
  <2> QED
    BY <1>0, <2>1, <2>3 DEF TypeOK, server, session, bounds
<1>2. CASE Unwrap(d)
  <2>1. PICK g \in gets : Unwrap(d)!(g)
    BY <1>2 DEF Unwrap
  <2>2. /\ g.wrapped.dek \in Nat
        /\ [page |-> g.page, kwk |-> g.legacy] \in [page : Nat, kwk : Nat]
    BY DEF TypeOK, Get, Wrapping
  <2>3. gets' \subseteq Get /\ confirms' \subseteq [page : Nat, kwk : Nat]
    BY <2>1, <2>2 DEF TypeOK
  <2>4. CASE Unwraps(g)
    BY <2>1, <2>2, <2>3, <2>4, KeepType DEF TypeOK, server, session, bounds
  <2>5. CASE ~Unwraps(g)
    BY <2>1, <2>3, <2>5, FallBackType DEF TypeOK, server, session, bounds
  <2> QED
    BY <2>4, <2>5
<1>3. CASE Adopt(d)
  <2>1. PICK p \in puts : Adopt(d)!(p)
    BY <1>3 DEF Adopt
  <2>2. Adopted(p) \in Nat
    BY DEF TypeOK, Put, Wrapping, Adopted
  <2> QED
    BY <2>1, <2>2, KeepType DEF TypeOK, server, session, bounds
<1>4. CASE Ready(d)
  BY <1>4 DEF Ready, TypeOK, Shared, server, calls, session, bounds
<1>5. CASE GetFails(d) \/ PutFails(d)
  <2>1. /\ FallBack(d) /\ UNCHANGED <<server, calls, session, logins>>
        /\ Fault \/ UNCHANGED faults
    BY <1>5 DEF GetFails, PutFails, Refused
  <2>2. faults' \in 0 .. MaxFaults
    BY <2>1 DEF Fault, TypeOK
  <2>3. UNCHANGED <<kwk, wrapped, legacy, gets, puts, confirms, auth, page, logins>>
    BY <2>1 DEF server, calls, session
  <2>4. \A e \in Devices : auth'[e] = "in" /\ stage'[e] = "idle" => key'[e] # NoKey
    BY <2>1, <2>3, FallBackType DEF TypeOK
  <2> QED
    BY <2>1, <2>2, <2>3, <2>4, FallBackType DEF TypeOK
<1>7. CASE PutRefused(d)
  <2>1. PICK p \in puts : PutRefused(d)!(p)
    BY <1>7 DEF PutRefused
  <2>2. p.sent.dek \in Nat
    BY DEF TypeOK, Put, Wrapping
  <2> QED
    BY <2>1, <2>2, KeepType DEF Fault, Refused, TypeOK, server, calls, session
<1>8. CASE Login(d)
  <2>1. [page |-> logins + 1, at |-> "getKwk", kwk |-> NoKey,
         wrapped |-> NoWrap, legacy |-> NoKey] \in Get
    BY NoWrapType DEF TypeOK, Get, NoKey
  <2>2. gets' \subseteq Get
    BY <1>8, <2>1 DEF Login, TypeOK
  <2> QED
    BY <1>8, <2>2 DEF Login, TypeOK, server, NoKey
<1>9. CASE UseKey(d)
  <2>1. LocalKey(d) \in Nat \ {NoKey}
    BY LocalKeyIsKey
  <2>2. cache' \in [Devices -> [{"account", "anon"} -> Nat]]
    BY <1>9, <2>1, CachedType DEF UseKey, LoadLocalKey
  <2> QED
    BY <1>9, <2>1, <2>2 DEF UseKey, LoadLocalKey, TypeOK, server, calls, session, bounds
<1>10. CASE Logout(d)
  <2>1. cache' \in [Devices -> [{"account", "anon"} -> Nat]]
    BY <1>10, CachedType DEF Logout, NoKey
  <2> QED
    BY <1>10, <2>1 DEF Logout, TypeOK, server, calls, bounds, NoKey
<1> QED
  BY <1>1, <1>2, <1>3, <1>4, <1>5, <1>7, <1>8, <1>9, <1>10
  DEF Continue, Fail, Use

(***************************************************************************)
(* What was written stays, so what was read stays true.                    *)
(***************************************************************************)
LEMMA WrittenServe ==
  ASSUME TypeOK, Written, KwkKnown,
         \/ \E g \in gets : ServeGet(g)
         \/ \E p \in puts : ServePut(p)
         \/ \E c \in confirms : Confirm(c) \/ LoseConfirm(c)
  PROVE  Written'
<1>1. ASSUME NEW g \in gets, GetKwk(g) PROVE Written'
  <2> DEFINE new == IF kwk # NoKey
                    THEN [g EXCEPT !.at = "getDek", !.kwk = kwk]
                    ELSE [g EXCEPT !.at = "setKwk", !.kwk = FreshKwk(g.page)]
  <2>1. g \in Get /\ g.page # 0 /\ g.wrapped \in {NoWrap, wrapped}
    BY DEF TypeOK, Written
  <2>2. FreshKwk(g.page) # NoKey
    BY <2>1 DEF FreshKwk, Get, NoKey
  <2>3. /\ new.page # 0 /\ new.wrapped = g.wrapped /\ new.at # "rereadKwk"
        /\ new.at \in {"setKwk", "getDek", "answered"} => new.kwk # NoKey
    BY <2>1, <2>2 DEF Get
  <2>4. gets' = (gets \ {g}) \cup {new} /\ UNCHANGED <<kwk, wrapped, puts, confirms>>
    BY <1>1 DEF GetKwk, server
  <2> QED
    BY <2>1, <2>3, <2>4 DEF Written
<1>2. ASSUME NEW g \in gets, SetKwk(g) PROVE Written'
  <2> DEFINE new == [g EXCEPT !.at = "rereadKwk"]
  <2>1. g \in Get /\ g.page # 0 /\ g.wrapped \in {NoWrap, wrapped} /\ g.kwk # NoKey
    BY <1>2 DEF TypeOK, Written, SetKwk
  <2>2. new.page # 0 /\ new.wrapped = g.wrapped /\ new.at = "rereadKwk"
    BY <2>1 DEF Get
  <2>3. kwk' # NoKey
    BY <1>2, <2>1 DEF SetKwk, KwkIfAbsent
  <2>4. gets' = (gets \ {g}) \cup {new} /\ UNCHANGED <<wrapped, puts, confirms>>
    BY <1>2 DEF SetKwk
  <2> QED
    BY <2>1, <2>2, <2>3, <2>4 DEF Written
<1>3. ASSUME NEW g \in gets, RereadKwk(g) PROVE Written'
  <2> DEFINE new == [g EXCEPT !.at = "getDek", !.kwk = kwk]
  <2>1. g \in Get /\ g.page # 0 /\ g.wrapped \in {NoWrap, wrapped} /\ kwk # NoKey
    BY <1>3 DEF TypeOK, Written, RereadKwk
  <2>2. new.page # 0 /\ new.wrapped = g.wrapped /\ new.at = "getDek" /\ new.kwk = kwk
    BY <2>1 DEF Get
  <2>3. gets' = (gets \ {g}) \cup {new} /\ UNCHANGED <<kwk, wrapped, puts, confirms>>
    BY <1>3 DEF RereadKwk, server
  <2> QED
    BY <2>1, <2>2, <2>3 DEF Written
<1>4. ASSUME NEW g \in gets, GetDek(g) PROVE Written'
  <2> DEFINE new == [g EXCEPT !.at = "answered", !.wrapped = wrapped,
                              !.legacy = Offered(g.kwk)]
  <2>1. g \in Get /\ g.page # 0 /\ g.kwk # NoKey
    BY <1>4 DEF TypeOK, Written, GetDek
  <2>2. new.page # 0 /\ new.wrapped = wrapped /\ new.at = "answered" /\ new.kwk # NoKey
    BY <2>1 DEF Get
  <2>3. gets' = (gets \ {g}) \cup {new} /\ UNCHANGED <<kwk, wrapped, puts, confirms>>
    BY <1>4 DEF GetDek, server
  <2> QED
    BY <2>1, <2>2, <2>3 DEF Written
<1>5. ASSUME NEW p \in puts, SetDek(p) PROVE Written'
  <2> DEFINE new == [p EXCEPT !.at = "rereadDek"]
  <2>1. p \in Put /\ p.sent \in Wrapping /\ p.sent.kwk # NoKey /\ p.sent.dek # NoKey
    BY DEF TypeOK, Written, Put
  <2>2. new.at = "rereadDek" /\ new.sent = p.sent
    BY <2>1 DEF Put
  <2>3. p.sent # NoWrap
    BY <2>1, NoWrapType
  <2>4. wrapped' = IF wrapped = NoWrap THEN p.sent ELSE wrapped
    BY <1>5 DEF SetDek, DekIfAbsent
  <2>5. puts' = (puts \ {p}) \cup {new} /\ UNCHANGED <<kwk, gets, confirms>>
    BY <1>5 DEF SetDek
  <2>6. wrapped' # NoWrap /\ wrapped'.kwk # NoKey /\ wrapped'.dek # NoKey
    BY <2>1, <2>3, <2>4 DEF Written
  <2>7. ASSUME NEW q \in puts, q.at = "answered" PROVE q.stored = wrapped'
    BY <2>4, <2>7 DEF Written
  <2>8. ASSUME NEW g \in gets PROVE g.wrapped \in {NoWrap, wrapped'}
    BY <2>4 DEF Written
  <2> QED
    BY <2>1, <2>2, <2>5, <2>6, <2>7, <2>8 DEF Written
<1>6. ASSUME NEW p \in puts, RereadDek(p) PROVE Written'
  <2> DEFINE new == [p EXCEPT !.at = "answered", !.stored = wrapped]
  <2>1. p \in Put /\ wrapped # NoWrap /\ p.sent.kwk # NoKey /\ p.sent.dek # NoKey
    BY <1>6 DEF TypeOK, Written, RereadDek
  <2>2. new.at = "answered" /\ new.sent = p.sent /\ new.stored = wrapped
    BY <2>1 DEF Put
  <2>3. puts' = (puts \ {p}) \cup {new} /\ UNCHANGED <<kwk, wrapped, gets, confirms>>
    BY <1>6 DEF RereadDek, server
  <2> QED
    BY <2>1, <2>2, <2>3 DEF Written
<1>7. ASSUME NEW c \in confirms, Confirm(c) PROVE Written'
  <2>1. kwk' = IF legacy # NoKey /\ legacy = c.kwk THEN c.kwk ELSE kwk
    BY <1>7 DEF Confirm, KwkConfirmed
  <2>2. kwk # NoKey => kwk' # NoKey
    BY <2>1
  <2> QED
    BY <1>7, <2>2 DEF Confirm, Written
<1>8. ASSUME NEW c \in confirms, LoseConfirm(c) PROVE Written'
  BY <1>8 DEF LoseConfirm, Written, server
<1> QED
  BY <1>1, <1>2, <1>3, <1>4, <1>5, <1>6, <1>7, <1>8 DEF ServeGet, ServePut

LEMMA WrittenDevice ==
  ASSUME TypeOK, Written, KwkKnown, NEW d \in Devices, Continue(d) \/ Fail(d) \/ Use(d)
  PROVE  Written'
<1>1. CASE Offer(d)
  <2>1. PICK g \in gets : Offer(d)!(g)
    BY <1>1 DEF Offer
  <2>2. g.kwk # NoKey /\ FreshDek(page[d]) # NoKey
    BY <2>1 DEF Written, TypeOK, FreshDek, NoKey
  <2> DEFINE new == [page |-> g.page, at |-> "setDek",
                     sent |-> [kwk |-> g.kwk, dek |-> FreshDek(page[d])], stored |-> NoWrap]
  <2>3. /\ gets' = gets \ {g} /\ puts' = puts \cup {new}
        /\ UNCHANGED <<kwk, wrapped, confirms>>
    BY <2>1 DEF server
  <2>4. new.at = "setDek" /\ new.sent.kwk = g.kwk /\ new.sent.dek = FreshDek(page[d])
    OBVIOUS
  <2> HIDE DEF new
  <2> QED
    BY <2>2, <2>3, <2>4 DEF Written
<1>2. CASE Unwrap(d)
  BY <1>2 DEF Unwrap, Written, server
<1>3. CASE Adopt(d)
  BY <1>3 DEF Adopt, Written, server
<1>4. CASE Login(d)
  <2> DEFINE new == [page |-> logins + 1, at |-> "getKwk", kwk |-> NoKey,
                     wrapped |-> NoWrap, legacy |-> NoKey]
  <2>1. new.page # 0 /\ new.at = "getKwk" /\ new.wrapped = NoWrap
    BY DEF TypeOK
  <2>2. gets' = gets \cup {new} /\ UNCHANGED <<kwk, wrapped, puts, confirms>>
    BY <1>4 DEF Login, server
  <2> HIDE DEF new
  <2> QED
    BY <2>1, <2>2 DEF Written
<1>5. CASE Ready(d) \/ Fail(d) \/ UseKey(d) \/ Logout(d)
  <2>1. UNCHANGED <<kwk, wrapped, gets, puts, confirms>>
    BY <1>5 DEF Ready, Fail, GetFails, PutFails, PutRefused, UseKey, Logout, server, calls
  <2> QED
    BY <2>1 DEF Written
<1> QED
  BY <1>1, <1>2, <1>3, <1>4, <1>5 DEF Continue, Use

(***************************************************************************)
(* The KWK of whoever has not seen the DEK is what the DEK is, or will be, *)
(* wrapped with.                                                           *)
(***************************************************************************)
LEMMA KwkKnownServe ==
  ASSUME TypeOK, Written, KwkKnown,
         \/ \E g \in gets : ServeGet(g)
         \/ \E p \in puts : ServePut(p)
         \/ \E c \in confirms : Confirm(c) \/ LoseConfirm(c)
  PROVE  KwkKnown'
<1>1. ASSUME NEW g \in gets, GetKwk(g) PROVE KwkKnown'
  <2> DEFINE new == IF kwk # NoKey
                    THEN [g EXCEPT !.at = "getDek", !.kwk = kwk]
                    ELSE [g EXCEPT !.at = "setKwk", !.kwk = FreshKwk(g.page)]
  <2>1. g \in Get
    BY DEF TypeOK
  <2>2. (new.at = "getDek" /\ new.kwk = kwk) \/ new.at = "setKwk"
    BY <2>1 DEF Get
  <2>3. gets' = (gets \ {g}) \cup {new} /\ UNCHANGED <<kwk, wrapped, legacy, puts, confirms>>
    BY <1>1 DEF GetKwk, server
  <2> HIDE DEF new
  <2> QED
    BY <2>2, <2>3 DEF KwkKnown, Wrapper
<1>2. ASSUME NEW g \in gets, SetKwk(g) PROVE KwkKnown'
  <2> DEFINE new == [g EXCEPT !.at = "rereadKwk"]
  <2>1. new.at = "rereadKwk"
    BY DEF TypeOK, Get
  <2>2. /\ gets' = (gets \ {g}) \cup {new} /\ UNCHANGED <<wrapped, legacy, puts, confirms>>
        /\ kwk' = IF kwk = NoKey THEN g.kwk ELSE kwk
    BY <1>2 DEF SetKwk, KwkIfAbsent
  <2> HIDE DEF new
  <2>3. CASE kwk # NoKey
    BY <2>1, <2>2, <2>3 DEF KwkKnown, Wrapper
  <2>4. CASE kwk = NoKey
    <3>1. puts = {} /\ \A h \in gets : h.at \notin {"getDek", "answered"}
      BY <2>4 DEF KwkKnown, Written
    <3>2. wrapped # NoWrap => wrapped.kwk = legacy
      BY <2>4 DEF KwkKnown, Written
    <3> QED
      BY <2>1, <2>2, <3>1, <3>2 DEF KwkKnown
  <2> QED
    BY <2>3, <2>4
<1>3. ASSUME NEW g \in gets, RereadKwk(g) PROVE KwkKnown'
  <2> DEFINE new == [g EXCEPT !.at = "getDek", !.kwk = kwk]
  <2>1. new.at = "getDek" /\ new.kwk = kwk
    BY DEF TypeOK, Get
  <2>2. gets' = (gets \ {g}) \cup {new} /\ UNCHANGED <<kwk, wrapped, legacy, puts, confirms>>
    BY <1>3 DEF RereadKwk, server
  <2> HIDE DEF new
  <2> QED
    BY <2>1, <2>2 DEF KwkKnown, Wrapper
<1>4. ASSUME NEW g \in gets, GetDek(g) PROVE KwkKnown'
  <2> DEFINE new == [g EXCEPT !.at = "answered", !.wrapped = wrapped,
                              !.legacy = Offered(g.kwk)]
  <2>1. new.at = "answered" /\ new.kwk = g.kwk /\ new.wrapped = wrapped
    BY DEF TypeOK, Get
  <2>2. gets' = (gets \ {g}) \cup {new} /\ UNCHANGED <<kwk, wrapped, legacy, puts, confirms>>
    BY <1>4 DEF GetDek, server
  <2>3. g.at = "getDek"
    BY <1>4 DEF GetDek
  <2> HIDE DEF new
  <2> QED
    BY <2>1, <2>2, <2>3 DEF KwkKnown, Wrapper
<1>5. ASSUME NEW p \in puts, SetDek(p) PROVE KwkKnown'
  <2> DEFINE new == [p EXCEPT !.at = "rereadDek"]
  <2>1. new.sent = p.sent
    BY DEF TypeOK, Put
  <2>2. /\ puts' = (puts \ {p}) \cup {new} /\ UNCHANGED <<kwk, legacy, gets, confirms>>
        /\ wrapped' = IF wrapped = NoWrap THEN p.sent ELSE wrapped
    BY <1>5 DEF SetDek, DekIfAbsent
  <2>3. p.sent.kwk = Wrapper /\ kwk # NoKey /\ p.sent # NoWrap
    BY NoWrapType DEF KwkKnown, Written
  <2> HIDE DEF new
  <2> QED
    BY <2>1, <2>2, <2>3 DEF KwkKnown, Wrapper, Written
<1>6. ASSUME NEW p \in puts, RereadDek(p) PROVE KwkKnown'
  <2> DEFINE new == [p EXCEPT !.at = "answered", !.stored = wrapped]
  <2>1. new.sent = p.sent
    BY DEF TypeOK, Put
  <2>2. puts' = (puts \ {p}) \cup {new} /\ UNCHANGED <<kwk, wrapped, legacy, gets, confirms>>
    BY <1>6 DEF RereadDek, server
  <2> HIDE DEF new
  <2> QED
    BY <2>1, <2>2 DEF KwkKnown, Wrapper
<1>7. ASSUME NEW c \in confirms, Confirm(c) PROVE KwkKnown'
  <2>1. wrapped # NoWrap /\ c.kwk = wrapped.kwk /\ wrapped.kwk # NoKey
    BY DEF KwkKnown, Written
  <2>2. /\ kwk' = kwk \/ (kwk' = wrapped.kwk /\ kwk' = legacy)
        /\ confirms' \subseteq confirms /\ UNCHANGED <<wrapped, legacy, gets, puts>>
    BY <1>7, <2>1 DEF Confirm, KwkConfirmed
  <2> QED
    BY <2>1, <2>2 DEF KwkKnown, Wrapper
<1>8. ASSUME NEW c \in confirms, LoseConfirm(c) PROVE KwkKnown'
  BY <1>8 DEF LoseConfirm, KwkKnown, Wrapper, server
<1> QED
  BY <1>1, <1>2, <1>3, <1>4, <1>5, <1>6, <1>7, <1>8 DEF ServeGet, ServePut

LEMMA KwkKnownDevice ==
  ASSUME TypeOK, Written, KwkKnown, NEW d \in Devices, Continue(d) \/ Fail(d) \/ Use(d)
  PROVE  KwkKnown'
<1>1. CASE Offer(d)
  <2>1. PICK g \in gets : Offer(d)!(g)
    BY <1>1 DEF Offer
  <2> DEFINE new == [page |-> g.page, at |-> "setDek",
                     sent |-> [kwk |-> g.kwk, dek |-> FreshDek(page[d])], stored |-> NoWrap]
  <2>2. /\ gets' \subseteq gets /\ puts' = puts \cup {new}
        /\ UNCHANGED <<kwk, wrapped, legacy, confirms>>
    BY <2>1 DEF server
  <2>3. new.sent.kwk = g.kwk
    OBVIOUS
  <2>4. g.kwk = Wrapper /\ g.kwk # NoKey
    BY <2>1 DEF KwkKnown, Written
  <2>5. kwk # NoKey
    BY <2>1, <2>4 DEF KwkKnown, Written
  <2> HIDE DEF new
  <2> QED
    BY <2>2, <2>3, <2>4, <2>5 DEF KwkKnown, Wrapper
<1>2. CASE Unwrap(d)
  <2>1. PICK g \in gets : Unwrap(d)!(g)
    BY <1>2 DEF Unwrap
  <2>2. g.wrapped = wrapped
    BY <2>1 DEF Written
  <2>3. /\ gets' \subseteq gets /\ UNCHANGED <<kwk, wrapped, legacy, puts>>
        /\ \A c \in confirms' : c \in confirms \/ c.kwk = wrapped.kwk
    BY <2>1, <2>2 DEF server, Opens
  <2> QED
    BY <2>3 DEF KwkKnown, Wrapper
<1>3. CASE Adopt(d)
  BY <1>3 DEF Adopt, KwkKnown, Wrapper, server
<1>4. CASE Login(d)
  <2> DEFINE new == [page |-> logins + 1, at |-> "getKwk", kwk |-> NoKey,
                     wrapped |-> NoWrap, legacy |-> NoKey]
  <2>1. new.at = "getKwk"
    OBVIOUS
  <2>2. gets' = gets \cup {new} /\ UNCHANGED <<kwk, wrapped, legacy, puts, confirms>>
    BY <1>4 DEF Login, server
  <2> HIDE DEF new
  <2> QED
    BY <2>1, <2>2 DEF KwkKnown, Wrapper
<1>5. CASE Ready(d) \/ Fail(d) \/ UseKey(d) \/ Logout(d)
  <2>1. UNCHANGED <<kwk, wrapped, legacy, gets, puts, confirms>>
    BY <1>5 DEF Ready, Fail, GetFails, PutFails, PutRefused, UseKey, Logout, server, calls
  <2> QED
    BY <2>1 DEF KwkKnown, Wrapper
<1> QED
  BY <1>1, <1>2, <1>3, <1>4, <1>5 DEF Continue, Use

(***************************************************************************)
(* The remaining conjuncts.                                                *)
(***************************************************************************)
LEMMA AnswersStep ==
  ASSUME TypeOK, Written, KwkKnown, AnswersUnwrap, Next
  PROVE  AnswersUnwrap'
<1>1. ASSUME NEW g \in gets, GetDek(g) PROVE AnswersUnwrap'
  <2> DEFINE new == [g EXCEPT !.at = "answered", !.wrapped = wrapped,
                              !.legacy = Offered(g.kwk)]
  <2>1. new.wrapped = wrapped /\ new.kwk = g.kwk /\ new.legacy = Offered(g.kwk)
    BY DEF TypeOK, Get
  <2>2. wrapped # NoWrap => wrapped.kwk \in {g.kwk, Offered(g.kwk)}
    BY <1>1 DEF KwkKnown, GetDek, Offered
  <2>3. new.wrapped # NoWrap => Unwraps(new)
    BY <2>1, <2>2 DEF Unwraps, Opens
  <2>4. gets' = (gets \ {g}) \cup {new}
    BY <1>1 DEF GetDek
  <2> HIDE DEF new
  <2> QED
    BY <2>3, <2>4 DEF AnswersUnwrap, Unwraps, Opens
<1>2. ASSUME NEW g \in gets, GetKwk(g) \/ SetKwk(g) \/ RereadKwk(g) PROVE AnswersUnwrap'
  <2>1. PICK new : gets' = (gets \ {g}) \cup {new} /\ new.at # "answered"
    <3>1. g \in Get
      BY DEF TypeOK
    <3>2. /\ [g EXCEPT !.at = "getDek", !.kwk = kwk].at = "getDek"
          /\ [g EXCEPT !.at = "setKwk", !.kwk = FreshKwk(g.page)].at = "setKwk"
          /\ [g EXCEPT !.at = "rereadKwk"].at = "rereadKwk"
      BY <3>1 DEF Get
    <3> QED
      BY <1>2, <3>2 DEF GetKwk, SetKwk, RereadKwk
  <2> QED
    BY <2>1 DEF AnswersUnwrap, Unwraps, Opens
<1>3. ASSUME NEW d \in Devices, Login(d) PROVE AnswersUnwrap'
  <2> DEFINE new == [page |-> logins + 1, at |-> "getKwk", kwk |-> NoKey,
                     wrapped |-> NoWrap, legacy |-> NoKey]
  <2>1. gets' = gets \cup {new} /\ new.at = "getKwk"
    BY <1>3 DEF Login
  <2> HIDE DEF new
  <2> QED
    BY <2>1 DEF AnswersUnwrap, Unwraps, Opens
<1>4. ASSUME gets' \subseteq gets PROVE AnswersUnwrap'
  BY <1>4 DEF AnswersUnwrap, Unwraps, Opens
<1>5. ASSUME NEW p \in puts, ServePut(p) PROVE gets' \subseteq gets
  BY <1>5 DEF ServePut, SetDek, RereadDek
<1>6. ASSUME NEW c \in confirms, Confirm(c) \/ LoseConfirm(c) PROVE gets' \subseteq gets
  BY <1>6 DEF Confirm, LoseConfirm
<1>7. ASSUME NEW d \in Devices, Continue(d) \/ Fail(d) \/ UseKey(d) \/ Logout(d)
      PROVE  gets' \subseteq gets
  BY <1>7 DEF Continue, Offer, Unwrap, Adopt, Ready, Fail, GetFails, PutFails, PutRefused,
              UseKey, Logout, calls
<1> QED
  BY <1>1, <1>2, <1>3, <1>4, <1>5, <1>6, <1>7 DEF Next, ServeGet, Use

\* The stored DEK is never replaced.
LEMMA DekStays ==
  ASSUME Next, wrapped # NoWrap
  PROVE  wrapped' = wrapped
<1>1. ASSUME NEW g \in gets, ServeGet(g) PROVE wrapped' = wrapped
  BY <1>1 DEF ServeGet, GetKwk, SetKwk, RereadKwk, GetDek, server
<1>2. ASSUME NEW p \in puts, ServePut(p) PROVE wrapped' = wrapped
  BY <1>2 DEF ServePut, SetDek, RereadDek, DekIfAbsent, server
<1>3. ASSUME NEW c \in confirms, Confirm(c) \/ LoseConfirm(c) PROVE wrapped' = wrapped
  BY <1>3 DEF Confirm, LoseConfirm, server
<1>4. ASSUME NEW d \in Devices, Continue(d) PROVE wrapped' = wrapped
  BY <1>4 DEF Continue, Offer, Unwrap, Adopt, Ready, server
<1>5. ASSUME NEW d \in Devices, Fail(d) \/ Use(d) PROVE wrapped' = wrapped
  BY <1>5 DEF Fail, GetFails, PutFails, PutRefused, Use, Login, UseKey, Logout, server
<1> QED
  BY <1>1, <1>2, <1>3, <1>4, <1>5 DEF Next

\* Nothing but devices changes devices.
LEMMA ServeLeavesDevices ==
  ASSUME \/ \E g \in gets : ServeGet(g)
         \/ \E p \in puts : ServePut(p)
         \/ \E c \in confirms : Confirm(c) \/ LoseConfirm(c)
  PROVE  UNCHANGED <<session, device>>
BY DEF ServeGet, GetKwk, SetKwk, RereadKwk, GetDek, ServePut, SetDek, RereadDek,
       Confirm, LoseConfirm

\* What a GET or a PUT answers is the stored DEK, and the device obtains it.
LEMMA AnswerIsDek ==
  ASSUME TypeOK, Written, KwkKnown, AnswersUnwrap
  PROVE  /\ \A g \in gets : g.at = "answered" /\ g.wrapped # NoWrap =>
              Unwraps(g) /\ g.wrapped = wrapped /\ wrapped.dek \in Nat \ {NoKey}
         /\ \A p \in puts : p.at = "answered" =>
              wrapped # NoWrap /\ Adopted(p) = wrapped.dek /\ wrapped.dek \in Nat \ {NoKey}
<1>1. wrapped # NoWrap => wrapped.dek \in Nat \ {NoKey}
  BY DEF TypeOK, Written, Wrapping
<1>2. ASSUME NEW p \in puts, p.at = "answered"
      PROVE  wrapped # NoWrap /\ Adopted(p) = wrapped.dek
  BY <1>2 DEF Written, KwkKnown, Wrapper, Adopted, Opens
<1> QED
  BY <1>1, <1>2 DEF AnswersUnwrap, Written

LEMMA SharedStep ==
  ASSUME TypeOK, Written, KwkKnown, AnswersUnwrap, Shared, Next
  PROVE  Shared'
<1>0. wrapped # NoWrap => wrapped' = wrapped
  BY DekStays
<1>1. ASSUME UNCHANGED device PROVE Shared'
  BY <1>0, <1>1 DEF Shared, device
<1>2. ASSUME NEW d \in Devices, NEW k \in Nat, k # NoKey, NEW how \in {"shared", "own"},
             Keep(d, k, how), how = "shared" => wrapped # NoWrap /\ k = wrapped.dek
      PROVE  Shared'
  BY <1>0, <1>2 DEF Shared, Keep, TypeOK
<1>3. ASSUME NEW d \in Devices, FallBack(d) PROVE Shared'
  BY <1>0, <1>3 DEF Shared, FallBack, LoadLocalKey, TypeOK
<1>4. ASSUME NEW d \in Devices, Offer(d) PROVE Shared'
  <2>1. /\ stage' = [stage EXCEPT ![d] = "put"] /\ UNCHANGED <<key, outcome>>
        /\ dek' = [dek EXCEPT ![d] = FreshDek(page[d])]
    BY <1>4 DEF Offer
  <2> QED
    BY <1>0, <2>1 DEF Shared, TypeOK
<1>5. ASSUME NEW d \in Devices, Unwrap(d) PROVE Shared'
  <2>1. PICK g \in gets : Unwrap(d)!(g)
    BY <1>5 DEF Unwrap
  <2>2. Unwraps(g) /\ g.wrapped = wrapped /\ wrapped.dek \in Nat \ {NoKey}
    BY <2>1, AnswerIsDek
  <2>3. Keep(d, wrapped.dek, "shared") /\ wrapped # NoWrap
    BY <2>1, <2>2
  <2> QED
    BY <1>2, <2>2, <2>3
<1>6. ASSUME NEW d \in Devices, Adopt(d) PROVE Shared'
  <2>1. PICK p \in puts : Adopt(d)!(p)
    BY <1>6 DEF Adopt
  <2>2. wrapped # NoWrap /\ Adopted(p) = wrapped.dek /\ wrapped.dek \in Nat \ {NoKey}
    BY <2>1, AnswerIsDek
  <2>3. Keep(d, wrapped.dek, "shared")
    BY <2>1, <2>2
  <2> QED
    BY <1>2, <2>2, <2>3
<1>7. ASSUME NEW d \in Devices, Ready(d) PROVE Shared'
  BY <1>0, <1>7 DEF Shared, Ready, TypeOK
<1>8. ASSUME NEW d \in Devices, Fail(d) PROVE Shared'
  <2>1. CASE GetFails(d) \/ PutFails(d)
    BY <1>3, <2>1 DEF GetFails, PutFails
  <2>2. CASE PutRefused(d)
    <3>1. PICK p \in puts : PutRefused(d)!(p)
      BY <2>2 DEF PutRefused
    <3>2. p.sent.dek \in Nat /\ p.sent.dek # NoKey
      BY DEF TypeOK, Put, Wrapping, Written
    <3>3. Keep(d, p.sent.dek, "own") /\ "own" # "shared"
      BY <3>1
    <3> QED
      BY <1>2, <3>2, <3>3
  <2> QED
    BY <1>8, <2>1, <2>2 DEF Fail
<1>9. ASSUME NEW d \in Devices, Login(d) PROVE Shared'
  BY <1>0, <1>9 DEF Shared, Login, TypeOK
<1>10. ASSUME NEW d \in Devices, UseKey(d) PROVE Shared'
  <2>1. stage[d] = "idle" /\ outcome[d] = "shared" => key[d] # NoKey
    BY DEF Shared, Written
  <2>2. /\ key[d] = NoKey /\ key' = [key EXCEPT ![d] = LocalKey(d)]
        /\ UNCHANGED <<stage, dek, outcome>>
    BY <1>10 DEF UseKey, LoadLocalKey
  <2> QED
    BY <1>0, <2>1, <2>2 DEF Shared, TypeOK
<1>11. ASSUME NEW d \in Devices, Logout(d) PROVE Shared'
  BY <1>0, <1>11 DEF Shared, Logout, TypeOK
<1> QED
  BY <1>1, <1>4, <1>5, <1>6, <1>7, <1>8, <1>9, <1>10, <1>11, ServeLeavesDevices
  DEF Next, Continue, Use

LEMMA CacheStep ==
  ASSUME TypeOK, Written, KwkKnown, AnswersUnwrap, Shared, CacheInStep, Next
  PROVE  CacheInStep'
<1>1. ASSUME UNCHANGED <<auth, stage, dek, key, currentUserId, cache>> PROVE CacheInStep'
  BY <1>1 DEF CacheInStep
<1>2. ASSUME NEW d \in Devices, NEW k \in Nat, NEW how \in {"shared", "own"},
             Keep(d, k, how), UNCHANGED auth
      PROVE  CacheInStep'
  <2>1. /\ cache'[d][currentUserId[d]] = k
        /\ \A e \in Devices \ {d} : cache'[e] = cache[e]
    <3>1. cache' = Cached(d, k)
      BY <1>2 DEF Keep
    <3>2. Cached(d, k)[d][currentUserId[d]] = k /\ \A e \in Devices \ {d} : Cached(d, k)[e] = cache[e]
      BY CachedType
    <3> QED
      BY <3>1, <3>2, Zenon
  <2> QED
    BY <1>2, <2>1 DEF CacheInStep, Keep, TypeOK
<1>3. ASSUME NEW d \in Devices, FallBack(d), UNCHANGED auth PROVE CacheInStep'
  <2>1. LocalKey(d) \in Nat
    BY LocalKeyIsKey
  <2>2. /\ cache'[d][currentUserId[d]] = LocalKey(d)
        /\ \A e \in Devices \ {d} : cache'[e] = cache[e]
    <3>1. PICK k \in Nat : k = LocalKey(d)
      BY <2>1
    <3>2. cache' = Cached(d, k)
      BY <1>3, <3>1 DEF FallBack, LoadLocalKey
    <3> QED
      BY <3>1, <3>2, CachedType
  <2> QED
    BY <1>3, <2>2 DEF CacheInStep, FallBack, LoadLocalKey, TypeOK
<1>4. ASSUME NEW d \in Devices, Offer(d) PROVE CacheInStep'
  <2>1. /\ stage' = [stage EXCEPT ![d] = "put"]
        /\ dek' = [dek EXCEPT ![d] = FreshDek(page[d])]
        /\ UNCHANGED <<auth, key, currentUserId, cache>>
    BY <1>4 DEF Offer, session
  <2> QED
    BY <2>1 DEF CacheInStep, TypeOK
<1>5. ASSUME NEW d \in Devices, Unwrap(d) PROVE CacheInStep'
  <2>1. PICK g \in gets : Unwrap(d)!(g)
    BY <1>5 DEF Unwrap
  <2>2. g.wrapped.dek \in Nat
    BY DEF TypeOK, Get, Wrapping
  <2> QED
    BY <1>2, <1>3, <2>1, <2>2 DEF session
<1>6. ASSUME NEW d \in Devices, Adopt(d) PROVE CacheInStep'
  <2>1. PICK p \in puts : Adopt(d)!(p)
    BY <1>6 DEF Adopt
  <2>2. Adopted(p) \in Nat
    BY DEF TypeOK, Put, Wrapping, Adopted
  <2> QED
    BY <1>2, <2>1, <2>2 DEF session
<1>7. ASSUME NEW d \in Devices, Ready(d) PROVE CacheInStep'
  BY <1>7 DEF CacheInStep, Ready, TypeOK, session
<1>8. ASSUME NEW d \in Devices, Fail(d) PROVE CacheInStep'
  <2>1. CASE GetFails(d) \/ PutFails(d)
    BY <1>3, <2>1 DEF GetFails, PutFails, session
  <2>2. CASE PutRefused(d)
    <3>1. PICK p \in puts : PutRefused(d)!(p)
      BY <2>2 DEF PutRefused
    <3>2. p.sent.dek \in Nat
      BY DEF TypeOK, Put, Wrapping
    <3> QED
      BY <1>2, <3>1, <3>2 DEF session
  <2> QED
    BY <1>8, <2>1, <2>2 DEF Fail
<1>9. ASSUME NEW d \in Devices, Login(d) PROVE CacheInStep'
  BY <1>9 DEF CacheInStep, Login, TypeOK
<1>10. ASSUME NEW d \in Devices, UseKey(d) PROVE CacheInStep'
  <2>1. LocalKey(d) \in Nat
    BY LocalKeyIsKey
  <2>2. /\ key[d] = NoKey /\ key' = [key EXCEPT ![d] = LocalKey(d)]
        /\ cache' = Cached(d, LocalKey(d))
        /\ UNCHANGED <<auth, stage, dek, currentUserId>>
    BY <1>10 DEF UseKey, LoadLocalKey, session
  <2>3. /\ cache'[d][currentUserId[d]] = LocalKey(d)
        /\ \A e \in Devices \ {d} : cache'[e] = cache[e]
    <3>1. PICK k \in Nat : k = LocalKey(d)
      BY <2>1
    <3>2. cache' = Cached(d, k)
      BY <2>2, <3>1
    <3> QED
      BY <3>1, <3>2, CachedType
  <2>4. ASSUME auth[d] = "in", stage[d] = "import" PROVE LocalKey(d) = dek[d]
    <3>1. cache[d]["account"] = dek[d] /\ currentUserId[d] = "account" /\ dek[d] # NoKey
      BY <2>4 DEF CacheInStep, Shared
    <3> QED
      BY <3>1 DEF LocalKey
  <2> QED
    BY <2>2, <2>3, <2>4 DEF CacheInStep, TypeOK
<1>11. ASSUME NEW d \in Devices, Logout(d) PROVE CacheInStep'
  <2>1. \A e \in Devices \ {d} : cache'[e] = cache[e]
    BY <1>11, CachedType DEF Logout, NoKey
  <2> QED
    BY <1>11, <2>1 DEF CacheInStep, Logout, TypeOK
<1>12. ASSUME UNCHANGED <<session, device>> PROVE CacheInStep'
  BY <1>1, <1>12 DEF session, device
<1> QED
  BY <1>4, <1>5, <1>6, <1>7, <1>8, <1>9, <1>10, <1>11, <1>12, ServeLeavesDevices
  DEF Next, Continue, Use

(***************************************************************************)
(* Theorems.                                                               *)
(***************************************************************************)
LEMMA InvInit == Init => IInv
<1> SUFFICES ASSUME Init PROVE IInv
  OBVIOUS
<1>1. TypeOK
  BY TypeInit
<1>2. wrapped # NoWrap => /\ wrapped.kwk \in {legacy, kwk} \ {NoKey}
                          /\ wrapped.dek = 3
  BY DEF Init
<1>3. Written /\ KwkKnown /\ AnswersUnwrap
  BY <1>2 DEF Init, Written, KwkKnown, AnswersUnwrap, NoKey
<1>4. Shared /\ CacheInStep
  BY DEF Init, Shared, CacheInStep
<1> QED
  BY <1>1, <1>3, <1>4 DEF IInv

LEMMA InvStep == IInv /\ [Next]_vars => IInv'
<1> SUFFICES ASSUME IInv, [Next]_vars PROVE IInv'
  OBVIOUS
<1> USE DEF IInv
<1>1. CASE Next
  <2>1. CASE \/ \E g \in gets : ServeGet(g)
             \/ \E p \in puts : ServePut(p)
             \/ \E c \in confirms : Confirm(c) \/ LoseConfirm(c)
    BY <1>1, <2>1, ServeType, WrittenServe, KwkKnownServe, AnswersStep, SharedStep, CacheStep
  <2>2. CASE \E d \in Devices : Continue(d) \/ Fail(d) \/ Use(d)
    BY <1>1, <2>2, DeviceType, WrittenDevice, KwkKnownDevice, AnswersStep, SharedStep, CacheStep
  <2> QED
    BY <1>1, <2>1, <2>2 DEF Next
<1>2. CASE UNCHANGED vars
  BY <1>2 DEF vars, server, calls, session, device, bounds, TypeOK, Written, KwkKnown,
              Wrapper, AnswersUnwrap, Unwraps, Opens, Shared, CacheInStep
<1> QED
  BY <1>1, <1>2

\* IInv is an invariant of key setup, whatever the devices and failures.
THEOREM KeyInvariance == Spec => []IInv
BY InvInit, InvStep, PTL DEF Spec

\* All state is of its type, and a device whose login ended has a key.
THEOREM KeyTypesCorrect == Spec => []TypeOK
<1>1. IInv => TypeOK
  BY DEF IInv
<1> QED
  BY KeyInvariance, <1>1, PTL

\* A GET's answer always holds a key that unwraps the DEK in it: the answer is
\* put together by several statements, and initEncryption relies on it.
THEOREM AnswersAlwaysUnwrap == Spec => []AnswersUnwrap
<1>1. IInv => AnswersUnwrap
  BY DEF IInv
<1> QED
  BY KeyInvariance, <1>1, PTL

\* Devices that finished a login through the server hold the one stored DEK,
\* however many raced to create it.
THEOREM OneKeyForAll == Spec => []OneKey
<1>1. IInv => OneKey
  BY DEF IInv, Shared, OneKey, Holds
<1> QED
  BY KeyInvariance, <1>1, PTL

\* Between logins a device's cache holds the key it encrypts with, so that a
\* reload without the network goes on with that key.
THEOREM ReloadsKeepKey == Spec => []ReloadKeepsKey
<1>1. IInv => ReloadKeepsKey
  BY DEF IInv, CacheInStep, ReloadKeepsKey
<1> QED
  BY KeyInvariance, <1>1, PTL

\* A step leaves alone a KWK that unwraps the stored DEK.
LEMMA KwkStep == IInv /\ Next => (Opens(kwk, wrapped) => kwk' = kwk)
<1> SUFFICES ASSUME IInv, Next, Opens(kwk, wrapped) PROVE kwk' = kwk
  OBVIOUS
<1>1. kwk # NoKey /\ kwk = wrapped.kwk
  BY DEF IInv, Written, Opens
<1>2. ASSUME NEW g \in gets, ServeGet(g) PROVE kwk' = kwk
  BY <1>1, <1>2 DEF ServeGet, GetKwk, SetKwk, RereadKwk, GetDek, KwkIfAbsent, server
<1>3. ASSUME NEW p \in puts, ServePut(p) PROVE kwk' = kwk
  BY <1>3 DEF ServePut, SetDek, RereadDek, server
<1>4. ASSUME NEW c \in confirms, Confirm(c) \/ LoseConfirm(c) PROVE kwk' = kwk
  <2>1. c.kwk = kwk
    BY <1>1 DEF IInv, KwkKnown
  <2> QED
    BY <1>4, <2>1 DEF Confirm, LoseConfirm, KwkConfirmed, server
<1>5. ASSUME NEW d \in Devices, Continue(d) PROVE kwk' = kwk
  BY <1>5 DEF Continue, Offer, Unwrap, Adopt, Ready, server
<1>6. ASSUME NEW d \in Devices, Fail(d) \/ Use(d) PROVE kwk' = kwk
  BY <1>6 DEF Fail, GetFails, PutFails, PutRefused, Use, Login, UseKey, Logout, server
<1> QED
  BY <1>2, <1>3, <1>4, <1>5, <1>6 DEF Next

\* Once the stored KWK unwraps the stored DEK it stays: no late first login and
\* no late confirmation takes the key away.
THEOREM KwkIsPermanent == Spec => KwkStays
<1>1. IInv /\ [Next]_vars => [Opens(kwk, wrapped) => kwk' = kwk]_vars
  BY KwkStep
<1> QED
  BY KeyInvariance, <1>1, PTL DEF Spec, KwkStays

(***************************************************************************)
(* Key setup implements the register.                                      *)
(***************************************************************************)
Learned == [d \in Devices |-> IF Holds(d) THEN key[d] ELSE NoKey]

\* Where nothing changes for other devices, only one device's entry does.
LEMMA LearnedElsewhere ==
  ASSUME NEW d \in Devices,
         \A e \in Devices \ {d} : Holds(e)' = Holds(e) /\ key'[e] = key[e]
  PROVE  Learned' = [Learned EXCEPT ![d] = Learned'[d]]
BY DEF Learned

\* A device's step is a Learn, a Forget or nothing.
LEMMA DeviceRegister ==
  ASSUME IInv, IInv', wrapped' = wrapped, NEW d \in Devices,
         \A e \in Devices \ {d} :
           stage'[e] = stage[e] /\ outcome'[e] = outcome[e] /\ key'[e] = key[e]
  PROVE  [Register!Next]_<<wrapped.dek, Learned>>
<1>1. Learned' = [Learned EXCEPT ![d] = Learned'[d]]
  <2>1. \A e \in Devices \ {d} : Holds(e)' = Holds(e) /\ key'[e] = key[e]
    BY DEF Holds
  <2> QED
    BY <2>1, LearnedElsewhere
<1>2. CASE Holds(d)'
  <2>1. Learned'[d] = wrapped.dek /\ wrapped.dek # 0
    BY <1>2 DEF Learned, Holds, IInv, Shared, NoKey
  <2>2. Register!Learn(d)
    BY <1>1, <2>1 DEF Register!Learn, Learned, NoKey
  <2> QED
    BY <2>2 DEF Register!Next
<1>3. CASE ~Holds(d)'
  <2>1. Learned'[d] = 0
    BY <1>3 DEF Learned, NoKey
  <2>2. Register!Forget(d)
    BY <1>1, <2>1 DEF Register!Forget, Learned, NoKey
  <2> QED
    BY <2>2 DEF Register!Next
<1> QED
  BY <1>2, <1>3

LEMMA RegisterStep == IInv /\ IInv' /\ Next => [Register!Next]_<<wrapped.dek, Learned>>
<1> SUFFICES ASSUME IInv, IInv', Next PROVE [Register!Next]_<<wrapped.dek, Learned>>
  OBVIOUS
<1>1. ASSUME UNCHANGED device PROVE UNCHANGED Learned
  BY <1>1 DEF Learned, Holds, device
<1>2. CASE \E p \in puts : SetDek(p) /\ wrapped = NoWrap
  <2>1. PICK p \in puts : SetDek(p) /\ wrapped = NoWrap
    BY <1>2
  <2>2. wrapped' = p.sent /\ UNCHANGED device
    BY <2>1 DEF SetDek, DekIfAbsent
  <2>3. p.sent.dek \in Nat \ {0}
    BY DEF IInv, TypeOK, Written, Put, Wrapping, NoKey
  <2>4. Register!Choose
    BY <1>1, <2>1, <2>2, <2>3, NoWrapType DEF Register!Choose, Learned, NoKey
  <2> QED
    BY <2>4 DEF Register!Next
<1>3. ASSUME wrapped' = wrapped, UNCHANGED device
      PROVE  [Register!Next]_<<wrapped.dek, Learned>>
  BY <1>1, <1>3
<1>4. ASSUME \/ \E g \in gets : ServeGet(g)
             \/ \E p \in puts : ServePut(p)
             \/ \E c \in confirms : Confirm(c) \/ LoseConfirm(c)
      PROVE  [Register!Next]_<<wrapped.dek, Learned>>
  <2>1. UNCHANGED device
    BY <1>4, ServeLeavesDevices
  <2>2. CASE wrapped # NoWrap
    BY <1>3, <2>1, <2>2, DekStays
  <2>3. CASE wrapped = NoWrap /\ \E p \in puts : SetDek(p)
    BY <1>2, <2>3
  <2>4. CASE ~\E p \in puts : SetDek(p)
    <3>1. wrapped' = wrapped
      BY <1>4, <2>4 DEF ServeGet, GetKwk, SetKwk, RereadKwk, GetDek, ServePut, RereadDek,
                        Confirm, LoseConfirm, server
    <3> QED
      BY <1>3, <2>1, <3>1
  <2> QED
    BY <2>2, <2>3, <2>4
<1>5. ASSUME NEW d \in Devices, Continue(d) \/ Fail(d) \/ Use(d)
      PROVE  [Register!Next]_<<wrapped.dek, Learned>>
  <2>1. wrapped' = wrapped
    BY <1>5 DEF Continue, Offer, Unwrap, Adopt, Ready, Fail, GetFails, PutFails, PutRefused,
                Use, Login, UseKey, Logout, server
  <2>2. \A e \in Devices \ {d} :
          stage'[e] = stage[e] /\ outcome'[e] = outcome[e] /\ key'[e] = key[e]
    <3>1. TypeOK
      BY DEF IInv
    <3>2. CASE Continue(d)
      BY <3>1, <3>2 DEF Continue, Offer, Unwrap, Adopt, Ready, Keep, FallBack, LoadLocalKey, TypeOK
    <3>3. CASE Fail(d)
      BY <3>1, <3>3 DEF Fail, GetFails, PutFails, PutRefused, Keep, FallBack, LoadLocalKey, TypeOK
    <3>4. CASE Use(d)
      BY <3>1, <3>4 DEF Use, Login, UseKey, Logout, LoadLocalKey, TypeOK
    <3> QED
      BY <1>5, <3>2, <3>3, <3>4
  <2> QED
    BY <2>1, <2>2, DeviceRegister
<1> QED
  BY <1>4, <1>5 DEF Next

\* Key setup is a key chosen once, and devices that learn it and nothing else.
THEOREM ImplementsKeyRegister == Spec => IsKeyRegister
<1>1. Init => Register!Init
  BY TypeInit DEF Init, Register!Init, Holds, TypeOK, Wrapping, NoKey
<1>2. IInv /\ IInv' /\ [Next]_vars => [Register!Next]_<<wrapped.dek, Learned>>
  <2>1. UNCHANGED vars => UNCHANGED <<wrapped.dek, Learned>>
    BY DEF vars, server, device, Learned, Holds
  <2> QED
    BY <2>1, RegisterStep
<1>3. IInv /\ IInv' /\ [Next]_vars =>
        [Register!Next]_<<wrapped.dek, [d \in Devices |-> IF Holds(d) THEN key[d] ELSE NoKey]>>
  BY <1>2 DEF Learned
<1> QED
  BY KeyInvariance, <1>1, <1>3, PTL DEF Spec, IsKeyRegister, Register!Spec
=============================================================================
