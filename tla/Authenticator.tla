----------------------------- MODULE Authenticator -----------------------------
(***************************************************************************)
(* CookieBearerTokenAuthenticatorService and its DAO: authenticators that  *)
(* are kept in Redis, where a header finds them by id, and written whole   *)
(* into a cookie, which Redis is not asked about.                          *)
(*                                                                         *)
(* Silhouette calls the service: retrieve, then discard if the             *)
(* authenticator is not valid any more or its user is gone, or else touch, *)
(* the application's action, and update if touch changed anything and the  *)
(* action neither discarded nor renewed the authenticator itself.          *)
(***************************************************************************)
EXTENDS Naturals, FiniteSets

CONSTANTS
    Id,         \* the ids that may be generated
    Request,    \* the requests the server may be serving at once
    Expiry,     \* authenticatorExpiry
    IdleTimes,  \* the values authenticatorIdleTimeout may have, None among them
    MaxTime,    \* bound: when the clock stops
    None

ASSUME TimeAssumption ==
    Expiry \in Nat /\ MaxTime \in Nat /\ IdleTimes \subseteq Nat \cup {None}

VARIABLES
    now,       \* the clock
    store,     \* Redis: what the key of an id holds, and whether it has a time to live
    cookie,    \* the browser's cookie
    req,       \* what each request has to do next, and the authenticator it holds
    held,      \* ... and the one its action goes on with after a renewal
    born,      \* when an authenticator was created; not in the code
    revoked,   \* "ended" once it was discarded, or renewed in the answer, "returned" once
               \* it was renewed for the application alone; not in the code
    idleTime,  \* authenticatorIdleTimeout, the same for ever
    alone      \* TRUE: requests come one by one and none fails; not in the code

authVars == <<now, store, cookie, req, held, born, revoked, idleTime, alone>>

Copy == [id : Id, lastUsed : 0..MaxTime, expires : 0..(MaxTime + Expiry)]
Stored == [copy : Copy, ttl : BOOLEAN]

ASSUME NoneAssumption == None \notin Id \cup Nat /\ None \notin Copy /\ None \notin Stored

Label == {"idle", "action", "set", "expireAt", "discard", "setCookie", "clearCookie"}

ReqState == [pc : Label, copy : Copy \cup {None}]

(* Types; a request that is busy holds an authenticator that was created and   *)
(* not used in the future, and a key holds the authenticator with its id.      *)
AuthenticatorTypeOK ==
    /\ now \in 0..MaxTime
    /\ store \in [Id -> Stored \cup {None}]
    /\ cookie \in Copy \cup {None}
    /\ req \in [Request -> ReqState]
    /\ held \in [Request -> Copy \cup {None}]
    /\ born \in [Id -> (0..MaxTime) \cup {None}]
    /\ revoked \in [Id -> {"no", "ended", "returned"}]
    /\ idleTime \in IdleTimes /\ alone \in BOOLEAN
    /\ \A r \in Request : req[r].pc = "idle" \/
         (req[r].copy # None /\ born[req[r].copy.id] # None /\ req[r].copy.lastUsed <= now)
    /\ \A r \in Request : held[r] # None =>
         req[r].pc \in {"set", "expireAt"} /\ born[held[r].id] # None
    /\ \A i \in Id : store[i] # None => store[i].copy.id = i /\ born[i] # None

AuthenticatorInit ==
    /\ now = 0
    /\ store = [i \in Id |-> None]
    /\ cookie = None
    /\ req = [r \in Request |-> [pc |-> "idle", copy |-> None]]
    /\ held = [r \in Request |-> None]
    /\ born = [i \in Id |-> None]
    /\ revoked = [i \in Id |-> "no"]
    /\ idleTime \in IdleTimes /\ alone \in BOOLEAN

Tick == now < MaxTime /\ now' = now + 1 /\ UNCHANGED <<store, cookie, req, held, born, revoked>>

-----------------------------------------------------------------------------
At(r, l)   == req[r].pc = l
Goto(r, l) == req' = [req EXCEPT ![r].pc = l]
Answer(r)  == req' = [req EXCEPT ![r] = [pc |-> "idle", copy |-> None]]
Carry(r, l, c) == req' = [req EXCEPT ![r] = [pc |-> l, copy |-> c]]

(* A request arrives.                                                          *)
Arrives(r) == At(r, "idle") /\ (alone => \A q \in Request : At(q, "idle"))

(* Redis drops a key when its time to live is over.                            *)
Present(i) == store[i] # None /\ (store[i].ttl => now < store[i].copy.expires)

(* ExpirableAuthenticator.isValid.                                             *)
IsValid(c) ==
    /\ now <= c.expires
    /\ idleTime # None => now <= c.lastUsed + idleTime

Fresh(i) == born[i] = None
Created(i) == [id |-> i, lastUsed |-> now, expires |-> now + Expiry]

(* A slip: the expiration date slides, too.                                    *)
TouchedForEver(c) ==
    IF idleTime # None THEN [c EXCEPT !.lastUsed = now, !.expires = now + Expiry] ELSE c

(* A slip: the date is when the authenticator would time out.                  *)
TouchedAhead(c) ==
    IF idleTime # None THEN [c EXCEPT !.lastUsed = now + idleTime] ELSE c

Touched(c) == IF idleTime # None THEN [c EXCEPT !.lastUsed = now] ELSE c

(* Log-in and sign-up: create, then init, whose first call is the DAO's SET.   *)
Create(r, i) ==
    /\ Arrives(r) /\ Fresh(i)
    /\ born' = [born EXCEPT ![i] = now]
    /\ Carry(r, "set", Created(i))
    /\ UNCHANGED <<now, store, cookie, held, revoked>>

(* retrieveBearerToken, then retrieveCookie: h is the id in the header.        *)
Retrieved(h) == IF h # None /\ Present(h) THEN store[h].copy ELSE cookie

(* A slip: whatever was retrieved is touched.                                  *)
RetrieveUnchecked(r, h) ==
    /\ Arrives(r)
    /\ Retrieved(h) # None
    /\ Carry(r, "action", Touched(Retrieved(h)))
    /\ UNCHANGED <<now, store, cookie, held, born, revoked>>

Retrieve(r, h) ==
    /\ Arrives(r)
    /\ Retrieved(h) # None /\ IsValid(Retrieved(h))
    /\ Carry(r, "action", Touched(Retrieved(h)))
    /\ UNCHANGED <<now, store, cookie, held, born, revoked>>

(* Not valid any more, or its user is gone.                                    *)
RetrieveInVain(r, h) ==
    /\ Arrives(r)
    /\ Retrieved(h) # None
    /\ Carry(r, "discard", Retrieved(h))
    /\ UNCHANGED <<now, store, cookie, held, born, revoked>>

-----------------------------------------------------------------------------
(* The action ends: the log-out discards, the application may renew, and       *)
(* everything else is followed by update, or by nothing without idle time.     *)
ActionEnds(r) ==
    /\ At(r, "action")
    /\ IF idleTime # None THEN Goto(r, "set") ELSE Answer(r)
    /\ UNCHANGED <<now, store, cookie, held, born, revoked>>

LogOut(r) == At(r, "action") /\ Goto(r, "discard") /\ UNCHANGED <<now, store, cookie, held, born, revoked>>

(* DAO.add, which is also update: SET takes the time to live away, ...         *)
Set(r) ==
    /\ At(r, "set")
    /\ store' = [store EXCEPT ![req[r].copy.id] = [copy |-> req[r].copy, ttl |-> FALSE]]
    /\ Goto(r, "expireAt")
    /\ UNCHANGED <<now, cookie, held, born, revoked>>

(* ... EXPIREAT sets it, unless the key was removed meanwhile.                 *)
ExpireAt(r) ==
    /\ At(r, "expireAt")
    /\ LET i == req[r].copy.id IN
       store' = IF Present(i) THEN [store EXCEPT ![i].ttl = TRUE] ELSE store
    /\ \/ held[r] = None /\ Goto(r, "setCookie")
       \/ held[r] # None /\ Carry(r, "action", held[r])
    /\ held' = [held EXCEPT ![r] = None]
    /\ UNCHANGED <<now, cookie, born, revoked>>

(* A slip: the cookie goes, the key stays.                                     *)
DiscardCookie(r) ==
    /\ At(r, "discard")
    /\ revoked' = [revoked EXCEPT ![req[r].copy.id] = "ended"]
    /\ Goto(r, "clearCookie")
    /\ UNCHANGED <<now, store, cookie, held, born>>

Discard(r) ==
    /\ At(r, "discard")
    /\ store' = [store EXCEPT ![req[r].copy.id] = None]
    /\ revoked' = [revoked EXCEPT ![req[r].copy.id] = "ended"]
    /\ Goto(r, "clearCookie")
    /\ UNCHANGED <<now, cookie, held, born>>

(* renew removes the old authenticator, then goes on as a log-in does.         *)
Replaced(r, i, how) ==
    /\ At(r, "action") /\ Fresh(i)
    /\ store' = [store EXCEPT ![req[r].copy.id] = None]
    /\ revoked' = [revoked EXCEPT ![req[r].copy.id] = how]
    /\ born' = [born EXCEPT ![i] = now]
    /\ Carry(r, "set", Created(i))

(* A slip: the new authenticator does not replace the old one.                 *)
RenewBeside(r, i) ==
    /\ At(r, "action") /\ Fresh(i)
    /\ revoked' = [revoked EXCEPT ![req[r].copy.id] = "ended"]
    /\ born' = [born EXCEPT ![i] = now]
    /\ Carry(r, "set", Created(i))
    /\ UNCHANGED <<now, store, cookie, held>>

(* With the result, the new authenticator is embedded in the answer; without,  *)
(* the action gets its value, and goes on with the authenticator it has.       *)
Renew(r, i) == Replaced(r, i, "ended") /\ UNCHANGED <<now, cookie, held>>

RenewValue(r, i) ==
    /\ Replaced(r, i, "returned")
    /\ held' = [held EXCEPT ![r] = req[r].copy]
    /\ UNCHANGED <<now, cookie>>

(* The browser takes the answers in whichever order they arrive.               *)
SetCookie(r) ==
    /\ At(r, "setCookie")
    /\ cookie' = req[r].copy
    /\ Answer(r)
    /\ UNCHANGED <<now, store, held, born, revoked>>

ClearCookie(r) ==
    /\ At(r, "clearCookie")
    /\ cookie' = None
    /\ Answer(r)
    /\ UNCHANGED <<now, store, held, born, revoked>>

(* A call fails, the server stops, or the answer is lost.                      *)
Abort(r) ==
    /\ ~alone
    /\ ~At(r, "idle")
    /\ Answer(r)
    /\ held' = [held EXCEPT ![r] = None]
    /\ UNCHANGED <<now, store, cookie, born, revoked>>

-----------------------------------------------------------------------------
RequestStep(r) ==
    \/ \E i \in Id : Create(r, i) \/ Renew(r, i) \/ RenewValue(r, i)
    \/ \E h \in Id \cup {None} : Retrieve(r, h) \/ RetrieveInVain(r, h)
    \/ ActionEnds(r) \/ LogOut(r)
    \/ Set(r) \/ ExpireAt(r) \/ Discard(r)
    \/ SetCookie(r) \/ ClearCookie(r) \/ Abort(r)

AuthenticatorNext ==
    /\ Tick \/ \E r \in Request : RequestStep(r)
    /\ UNCHANGED <<idleTime, alone>>

AuthenticatorSpec == AuthenticatorInit /\ [][AuthenticatorNext]_authVars

-----------------------------------------------------------------------------
(* All copies of an authenticator: in Redis, in the browser, in a request that *)
(* has not answered yet.                                                       *)
Copies(i) ==
    {c \in {cookie} : c # None /\ c.id = i}
    \cup {store[j].copy : j \in {k \in {i} : Present(k)}}
    \cup {req[r].copy : r \in {q \in Request : ~At(q, "idle") /\ req[q].copy.id = i}}
    \cup {held[r] : r \in {q \in Request : held[q] # None /\ held[q].id = i}}

Usable(i) == \E c \in Copies(i) : IsValid(c)

State == [i \in Id |-> IF born[i] = None THEN "new" ELSE IF Usable(i) THEN "open" ELSE "ended"]

SessionOf == INSTANCE Session WITH session <- State

(* A session that timed out or expired does not come back, whichever copy of   *)
(* it is shown, touched, written back late or left without a time to live      *)
(* (CookieBearerTokenAuthenticatorService.retrieve, touch, update).            *)
ImplementsSession == SessionOf!SessionSpec

(* No use prolongs an authenticator beyond what it was created for: copies are *)
(* touched and rewritten, their expiration is not                              *)
(* (CookieBearerTokenAuthenticatorService.touch, DAO.add).                     *)
NoCopyOutlivesExpiry == \A i \in Id : \A c \in Copies(i) : c.expires <= born[i] + Expiry

Revoked == {i \in Id : revoked[i] # "no"}

(* As long as requests do not overlap and none fails, an authenticator that    *)
(* was discarded, or renewed in the answer, opens nothing any more once the    *)
(* answer arrived: neither its bearer token nor the browser's cookie (Cookie-  *)
(* BearerTokenAuthenticatorService.discard, renew with a result).              *)
RevokedOpensNothing ==
    (alone /\ \A r \in Request : At(r, "idle")) =>
        \A i \in Id : revoked[i] = "ended" => ~Usable(i)

(* Without idle time a token that was discarded or renewed is gone at once and *)
(* for good, whatever requests were using it (CookieBearerTokenAuthenticator-  *)
(* Service.touch, discard, renew).                                             *)
RevokedTokenStaysOut == idleTime = None => \A i \in Revoked : store[i] = None
=============================================================================
