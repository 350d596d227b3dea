-------------------------- MODULE AuthenticatorProofs --------------------------
(***************************************************************************)
(* Theorems about Authenticator, for every number of ids and requests and  *)
(* every length of time.                                                   *)
(***************************************************************************)
EXTENDS Authenticator, TLAPS

-----------------------------------------------------------------------------
(* The inductive invariant. A copy is sound if its authenticator was created,  *)
(* it was not used in the future and it expires in time; every copy there is,  *)
(* in the browser, in Redis and in a request, is sound.                        *)
Sound(c, b, n) ==
    /\ c \in Copy
    /\ b[c.id] \in 0..MaxTime
    /\ c.lastUsed <= n
    /\ c.expires <= b[c.id] + Expiry

Types ==
    /\ now \in 0..MaxTime
    /\ store \in [Id -> Stored \cup {None}]
    /\ cookie \in Copy \cup {None}
    /\ req \in [Request -> ReqState]
    /\ held \in [Request -> Copy \cup {None}]
    /\ born \in [Id -> (0..MaxTime) \cup {None}]
    /\ revoked \in [Id -> {"no", "ended", "returned"}]
    /\ idleTime \in IdleTimes /\ alone \in BOOLEAN

CookieSound == cookie # None => Sound(cookie, born, now)
StoreSound  == \A i \in Id : store[i] # None =>
                  store[i].copy.id = i /\ Sound(store[i].copy, born, now)
ReqSound    == \A r \in Request : req[r].pc = "idle" \/ Sound(req[r].copy, born, now)

HeldSound   == \A r \in Request : held[r] # None =>
                  req[r].pc \in {"set", "expireAt"} /\ Sound(held[r], born, now)

CopiesSound == Types /\ CookieSound /\ StoreSound /\ ReqSound /\ HeldSound

-----------------------------------------------------------------------------
(* What is created is sound.                                                   *)
LEMMA CreatedIsSound ==
    ASSUME NEW i \in Id, Types, NEW b, b[i] = now
    PROVE  Sound(Created(i), b, now)
BY TimeAssumption DEF Sound, Created, Copy, Types

(* Touching a sound copy leaves it sound, and the same authenticator's.        *)
LEMMA TouchedIsSound ==
    ASSUME NEW c, Types, Sound(c, born, now)
    PROVE  Sound(Touched(c), born, now) /\ Touched(c).id = c.id
BY TimeAssumption DEF Sound, Touched, Copy, Types

(* A copy stays sound while time passes and authenticators are created.        *)
LEMMA SoundStays ==
    ASSUME NEW c, NEW b, NEW n \in Nat, NEW b2, NEW n2 \in Nat,
           Sound(c, b, n), n <= n2, \A i \in Id : b[i] # None => b2[i] = b[i]
    PROVE  Sound(c, b2, n2)
BY TimeAssumption, NoneAssumption DEF Sound, Copy

(* Initially there is no copy at all.                                          *)
LEMMA InitSound == AuthenticatorInit => CopiesSound
BY TimeAssumption DEF AuthenticatorInit, CopiesSound, Types, CookieSound, StoreSound,
   ReqSound, HeldSound, ReqState, Label

(* A request goes on with a sound copy, or is done; the other requests keep    *)
(* theirs, and so do the cookie and the keys if they are not written.          *)
Grows == born' \in [Id -> (0..MaxTime) \cup {None}]
         /\ \A i \in Id : born[i] # None => born'[i] = born[i]

LEMMA RequestSet ==
    ASSUME CopiesSound, Grows, UNCHANGED now,
           NEW r \in Request, NEW s \in ReqState, req' = [req EXCEPT ![r] = s],
           s.pc = "idle" \/ Sound(s.copy, born', now)
    PROVE  req' \in [Request -> ReqState] /\ ReqSound'
<1>1. req' \in [Request -> ReqState]
  BY DEF CopiesSound, Types
<1>2. ASSUME NEW q \in Request PROVE req'[q].pc = "idle" \/ Sound(req'[q].copy, born', now')
  <2>1. CASE q = r
    BY <2>1 DEF CopiesSound, Types
  <2>2. CASE q # r
    <3>1. req'[q] = req[q]
      BY <2>2 DEF CopiesSound, Types
    <3>2. now \in Nat
      BY DEF CopiesSound, Types
    <3> QED BY <3>1, <3>2, SoundStays DEF CopiesSound, ReqSound, Grows
  <2> QED BY <2>1, <2>2
<1> QED BY <1>1, <1>2 DEF ReqSound

LEMMA CookieKept ==
    ASSUME CopiesSound, Grows, UNCHANGED <<now, cookie>> PROVE CookieSound'
<1>1. now \in Nat
  BY DEF CopiesSound, Types
<1> QED BY <1>1, SoundStays DEF CopiesSound, CookieSound, Grows

LEMMA StoreKept ==
    ASSUME CopiesSound, Grows, UNCHANGED <<now, store>> PROVE StoreSound'
<1>1. now \in Nat
  BY DEF CopiesSound, Types
<1>2. ASSUME NEW i \in Id, store[i] # None
      PROVE  store[i].copy.id = i /\ Sound(store[i].copy, born', now)
  BY <1>1, <1>2, SoundStays DEF CopiesSound, StoreSound, Grows
<1> QED BY <1>2 DEF StoreSound

(* What a request that is not idle holds.                                      *)
LEMMA Holds ==
    ASSUME CopiesSound, NEW r \in Request, req[r].pc # "idle"
    PROVE  /\ Sound(req[r].copy, born, now)
           /\ req[r].copy \in Copy /\ req[r].copy.id \in Id
BY DEF CopiesSound, ReqSound, Sound, Copy

(* A request with another label, and the same copy.                            *)
LEMMA Relabelled ==
    ASSUME CopiesSound, NEW r \in Request, NEW l \in Label, Goto(r, l), req[r].pc # "idle",
           UNCHANGED <<now, born>>
    PROVE  req' \in [Request -> ReqState] /\ ReqSound'
<1>1. [req[r] EXCEPT !.pc = l] \in ReqState /\ [req[r] EXCEPT !.pc = l].copy = req[r].copy
  BY DEF CopiesSound, Types, ReqState
<1>2. req' = [req EXCEPT ![r] = [req[r] EXCEPT !.pc = l]]
  BY DEF Goto, CopiesSound, Types
<1>3. Grows
  BY DEF Grows, CopiesSound, Types
<1> QED BY <1>1, <1>2, <1>3, Holds, RequestSet

(* A request that is done.                                                     *)
LEMMA Answered ==
    ASSUME CopiesSound, NEW r \in Request, Answer(r), UNCHANGED <<now, born>>
    PROVE  req' \in [Request -> ReqState] /\ ReqSound'
<1>1. [pc |-> "idle", copy |-> None] \in ReqState
  BY DEF ReqState, Label
<1>2. Grows
  BY DEF Grows, CopiesSound, Types
<1> QED BY <1>1, <1>2, RequestSet DEF Answer

(* A request that goes on with another sound copy.                             *)
LEMMA Carried ==
    ASSUME CopiesSound, Grows, NEW r \in Request, NEW l \in Label, NEW c, Carry(r, l, c),
           Sound(c, born', now), UNCHANGED now
    PROVE  req' \in [Request -> ReqState] /\ ReqSound'
<1>1. [pc |-> l, copy |-> c] \in ReqState
  BY DEF ReqState, Sound
<1> QED BY <1>1, RequestSet DEF Carry

(* What a step does to the requests, label by label and copy by copy.          *)
Moves(r, l, c) ==
    \A q \in Request : /\ req'[q].pc = IF q = r THEN l ELSE req[q].pc
                       /\ req'[q].copy = IF q = r THEN c ELSE req[q].copy

LEMMA EveryMove ==
    ASSUME Types, NEW r \in Request
    PROVE  /\ \A l : Goto(r, l) => Moves(r, l, req[r].copy)
           /\ Answer(r) => Moves(r, "idle", None)
           /\ \A l, c : Carry(r, l, c) => Moves(r, l, c)
<1>1. \A l : Goto(r, l) => Moves(r, l, req[r].copy)
  BY DEF Goto, Moves, Types, ReqState
<1>2. Answer(r) => Moves(r, "idle", None)
  BY DEF Answer, Moves, Types
<1>3. \A l, c : Carry(r, l, c) => Moves(r, l, c)
  BY DEF Carry, Moves, Types
<1> QED BY <1>1, <1>2, <1>3

(* No action goes on with an authenticator that it did not have before.        *)
HeldKept == \A q \in Request : held'[q] \in {held[q], None}

LEMMA HeldIsKept ==
    ASSUME Types, NEW r \in Request
    PROVE  /\ UNCHANGED held => HeldKept
           /\ held' = [held EXCEPT ![r] = None] => HeldKept
BY DEF Types, HeldKept

(* What a step of a request does to the authenticators that were created, and  *)
(* to those that its action goes on with.                                      *)
LEMMA StepGrows ==
    ASSUME CopiesSound, NEW r \in Request, RequestStep(r)
    PROVE  Grows /\ UNCHANGED now
<1>1. now' = now /\ (born' = born \/ \E i \in Id : Fresh(i) /\ born' = [born EXCEPT ![i] = now])
  BY DEF RequestStep, Create, Renew, RenewValue, Replaced, Retrieve, RetrieveInVain, ActionEnds,
     LogOut, Set, ExpireAt, Discard, SetCookie, ClearCookie, Abort
<1> QED BY <1>1 DEF Grows, Fresh, CopiesSound, Types

LEMMA HeldStep ==
    ASSUME CopiesSound, NEW r \in Request, RequestStep(r)
    PROVE  held' \in [Request -> Copy \cup {None}] /\ HeldSound'
<1>n. Types /\ now \in Nat /\ Grows /\ UNCHANGED now
  BY StepGrows DEF CopiesSound, Types
<1>s. ASSUME NEW c, Sound(c, born, now) PROVE Sound(c, born', now')
  BY <1>n, <1>s, SoundStays DEF Grows
<1>u. ASSUME UNCHANGED held, NEW l, NEW c, Moves(r, l, c),
             held[r] = None \/ l \in {"set", "expireAt"}
      PROVE  held' \in [Request -> Copy \cup {None}] /\ HeldSound'
  BY <1>n, <1>s, <1>u DEF CopiesSound, HeldSound, Moves, Types
<1>d. ASSUME NEW l, NEW c, Moves(r, l, c), held' = [held EXCEPT ![r] = None]
      PROVE  held' \in [Request -> Copy \cup {None}] /\ HeldSound'
  BY <1>n, <1>s, <1>d DEF CopiesSound, HeldSound, Moves, Types
<1>p. req[r].pc \notin {"set", "expireAt"} => held[r] = None
  BY DEF CopiesSound, HeldSound
<1>1. ASSUME NEW i \in Id, Create(r, i) \/ Renew(r, i)
      PROVE  held' \in [Request -> Copy \cup {None}] /\ HeldSound'
  BY <1>1, <1>n, <1>u, EveryMove DEF Create, Renew, Replaced
<1>2. ASSUME NEW i \in Id, RenewValue(r, i)
      PROVE  held' \in [Request -> Copy \cup {None}] /\ HeldSound'
  <2>1. Moves(r, "set", Created(i)) /\ held' = [held EXCEPT ![r] = req[r].copy] /\ req[r].pc # "idle"
    BY <1>2, <1>n, EveryMove DEF RenewValue, Replaced, At
  <2>2. Sound(req[r].copy, born, now) /\ req[r].copy \in Copy
    BY <2>1, Holds
  <2> QED BY <1>n, <1>s, <2>1, <2>2 DEF CopiesSound, HeldSound, Moves, Types
<1>3. ASSUME NEW h \in Id \cup {None}, Retrieve(r, h) \/ RetrieveInVain(r, h)
      PROVE  held' \in [Request -> Copy \cup {None}] /\ HeldSound'
  <2>1. held[r] = None /\ UNCHANGED held /\ \E l, c : Moves(r, l, c)
    BY <1>3, <1>n, <1>p, EveryMove DEF Retrieve, RetrieveInVain, Arrives, At
  <2> QED BY <2>1, <1>u
<1>4. CASE ActionEnds(r) \/ LogOut(r) \/ Discard(r) \/ SetCookie(r) \/ ClearCookie(r)
  <2>1. held[r] = None /\ UNCHANGED held /\ \E l, c : Moves(r, l, c)
    BY <1>4, <1>n, <1>p, EveryMove DEF ActionEnds, LogOut, Discard, SetCookie, ClearCookie, At
  <2> QED BY <2>1, <1>u
<1>5. CASE Set(r)
  BY <1>5, <1>n, <1>u, EveryMove DEF Set
<1>6. CASE ExpireAt(r) \/ Abort(r)
  <2>1. held' = [held EXCEPT ![r] = None] /\ \E l, c : Moves(r, l, c)
    BY <1>6, <1>n, EveryMove DEF ExpireAt, Abort
  <2> QED BY <2>1, <1>d
<1> QED BY <1>1, <1>2, <1>3, <1>4, <1>5, <1>6 DEF RequestStep

(* The scenario of a history is never changed.                                 *)
LEMMA Rigid == [AuthenticatorNext]_authVars => UNCHANGED <<idleTime, alone>>
BY DEF AuthenticatorNext, authVars

(* Every step of the clock and of a request keeps all copies sound.            *)
LEMMA NextSound == CopiesSound /\ [AuthenticatorNext]_authVars => CopiesSound'
<1> SUFFICES ASSUME CopiesSound, [AuthenticatorNext]_authVars PROVE CopiesSound'
  OBVIOUS
<1>0. UNCHANGED <<idleTime, alone>>
  BY Rigid
<1>1. CASE UNCHANGED authVars
  BY <1>1 DEF authVars, CopiesSound, Types, CookieSound, StoreSound, ReqSound, HeldSound
<1>2. CASE Tick
  <2>1. Types'
    BY <1>0, <1>2, TimeAssumption DEF Tick, CopiesSound, Types
  <2>2. now \in Nat /\ now' \in Nat /\ now <= now' /\ UNCHANGED <<store, cookie, req, held, born>>
    BY <1>2 DEF Tick, CopiesSound, Types
  <2>3. ASSUME NEW c, Sound(c, born, now) PROVE Sound(c, born, now')
    BY <2>2, <2>3, SoundStays
  <2> QED BY <2>1, <2>2, <2>3 DEF CopiesSound, CookieSound, StoreSound, ReqSound, HeldSound
<1>3. ASSUME NEW r \in Request, RequestStep(r) PROVE CopiesSound'
  <2>n. now \in Nat /\ Types
    BY DEF CopiesSound, Types
  <2>h. held' \in [Request -> Copy \cup {None}] /\ HeldSound'
    BY <1>3, HeldStep
  <2>k. UNCHANGED born => Grows
    BY DEF Grows, CopiesSound, Types
  <2>b. ASSUME NEW i \in Id, Fresh(i), born' = [born EXCEPT ![i] = now]
        PROVE  Grows /\ Sound(Created(i), born', now)
    BY <2>b, <2>n, CreatedIsSound DEF Grows, Fresh, Types
  <2>l. /\ {"action", "set", "expireAt", "discard", "setCookie", "clearCookie"} \subseteq Label
    BY DEF Label
  <2>1. ASSUME NEW i \in Id, Create(r, i) PROVE CopiesSound'
    <3>1. Grows /\ Sound(Created(i), born', now) /\ Carry(r, "set", Created(i))
          /\ UNCHANGED <<now, store, cookie, revoked>>
      BY <2>1, <2>b DEF Create
    <3>2. req' \in [Request -> ReqState] /\ ReqSound'
      BY <3>1, <2>l, Carried
    <3> QED BY <1>0, <2>h, <3>1, <3>2, <2>n, CookieKept, StoreKept DEF CopiesSound, Types, Grows
  <2>2. ASSUME NEW i \in Id, NEW how \in {"ended", "returned"}, Replaced(r, i, how),
               UNCHANGED <<now, cookie>>
        PROVE  CopiesSound'
    <3>1. Grows /\ Sound(Created(i), born', now) /\ Carry(r, "set", Created(i))
          /\ UNCHANGED <<now, cookie>>
      BY <2>2, <2>b DEF Replaced
    <3>2. req' \in [Request -> ReqState] /\ ReqSound'
      BY <3>1, <2>l, Carried
    <3>3. revoked' \in [Id -> {"no", "ended", "returned"}]
          /\ store' \in [Id -> Stored \cup {None}]
      BY <2>2, <2>n DEF Replaced, Types
    <3>4. ASSUME NEW j \in Id, store'[j] # None PROVE store'[j] = store[j]
      BY <2>2, <2>n, <3>4 DEF Replaced, Types
    <3>5. StoreSound'
      BY <3>1, <3>4, <2>n, SoundStays DEF CopiesSound, StoreSound, Grows
    <3> QED BY <1>0, <2>h, <3>1, <3>2, <3>3, <3>5, <2>n, CookieKept DEF CopiesSound, Types, Grows
  <2>3. ASSUME NEW h \in Id \cup {None}, Retrieve(r, h) PROVE CopiesSound'
    <3>1. Sound(Retrieved(h), born, now)
      BY <2>3, <2>n DEF Retrieve, Retrieved, Present, CopiesSound, StoreSound, CookieSound
    <3>2. Grows /\ Sound(Touched(Retrieved(h)), born', now)
          /\ Carry(r, "action", Touched(Retrieved(h))) /\ UNCHANGED <<now, store, cookie, born, revoked>>
      BY <2>3, <2>n, <2>k, <3>1, TouchedIsSound DEF Retrieve
    <3>3. req' \in [Request -> ReqState] /\ ReqSound'
      BY <3>2, <2>l, Carried
    <3> QED BY <1>0, <2>h, <3>2, <3>3, <2>n, CookieKept, StoreKept DEF CopiesSound, Types
  <2>4. ASSUME NEW h \in Id \cup {None}, RetrieveInVain(r, h) PROVE CopiesSound'
    <3>1. Sound(Retrieved(h), born, now)
      BY <2>4, <2>n DEF RetrieveInVain, Retrieved, Present, CopiesSound, StoreSound, CookieSound
    <3>2. Grows /\ Sound(Retrieved(h), born', now)
          /\ Carry(r, "discard", Retrieved(h)) /\ UNCHANGED <<now, store, cookie, born, revoked>>
      BY <2>4, <2>n, <2>k, <3>1 DEF RetrieveInVain
    <3>3. req' \in [Request -> ReqState] /\ ReqSound'
      BY <3>2, <2>l, Carried
    <3> QED BY <1>0, <2>h, <3>2, <3>3, <2>n, CookieKept, StoreKept DEF CopiesSound, Types
  <2>5. CASE ActionEnds(r)
    <3>1. req' \in [Request -> ReqState] /\ ReqSound'
      BY <2>5, <2>l, Relabelled, Answered DEF ActionEnds, At
    <3> QED BY <1>0, <2>h, <2>5, <3>1, <2>n, <2>k, CookieKept, StoreKept DEF ActionEnds, CopiesSound, Types
  <2>6. CASE LogOut(r)
    <3>1. req' \in [Request -> ReqState] /\ ReqSound'
      BY <2>6, <2>l, Relabelled DEF LogOut, At
    <3> QED BY <1>0, <2>h, <2>6, <3>1, <2>n, <2>k, CookieKept, StoreKept DEF LogOut, CopiesSound, Types
  <2>8. CASE Set(r)
    <3> DEFINE c == req[r].copy
    <3>1. req' \in [Request -> ReqState] /\ ReqSound'
      BY <2>8, <2>l, Relabelled DEF Set, At
    <3>2. Sound(c, born, now) /\ c \in Copy /\ c.id \in Id
      BY <2>8, Holds DEF Set, At
    <3>3. store' = [store EXCEPT ![c.id] = [copy |-> c, ttl |-> FALSE]]
          /\ UNCHANGED <<now, cookie, born, revoked>>
      BY <2>8 DEF Set
    <3>4. store' \in [Id -> Stored \cup {None}]
      BY <3>2, <3>3, <2>n DEF Types, Stored
    <3>5. StoreSound'
      BY <3>2, <3>3, <2>n DEF Types, CopiesSound, StoreSound
    <3> QED BY <1>0, <2>h, <3>1, <3>3, <3>4, <3>5, <2>n, <2>k, CookieKept DEF CopiesSound, Types
  <2>9. CASE ExpireAt(r)
    <3> DEFINE i == req[r].copy.id
    <3>0. req[r].pc = "expireAt" /\ UNCHANGED <<now, born>>
      BY <2>9 DEF ExpireAt, At
    <3>a. ASSUME Goto(r, "setCookie") PROVE req' \in [Request -> ReqState] /\ ReqSound'
      BY <3>0, <3>a, <2>l, Relabelled
    <3>b. ASSUME held[r] # None, Carry(r, "action", held[r])
          PROVE  req' \in [Request -> ReqState] /\ ReqSound'
      <4>1. Sound(held[r], born', now) /\ Grows
        BY <3>0, <3>b, <2>k DEF CopiesSound, HeldSound
      <4> QED BY <3>0, <3>b, <4>1, <2>l, Carried
    <3>1. req' \in [Request -> ReqState] /\ ReqSound'
      BY <2>9, <3>a, <3>b DEF ExpireAt
    <3>2. i \in Id
      BY <2>9, Holds DEF ExpireAt, At
    <3>3. \/ store' = store
          \/ store[i] # None /\ store' = [store EXCEPT ![i] = [store[i] EXCEPT !.ttl = TRUE]]
      BY <2>9, <3>2, <2>n DEF ExpireAt, Present, Types
    <3>4. store' \in [Id -> Stored \cup {None}]
      BY ZenonT(60), <3>2, <3>3, <2>n DEF Types, Stored
    <3>5. ASSUME NEW j \in Id, store'[j] # None
          PROVE  store[j] # None /\ store'[j].copy = store[j].copy
      BY <3>2, <3>3, <3>5, <2>n DEF Types, Stored
    <3>6. UNCHANGED <<now, cookie, born, revoked>>
      BY <2>9 DEF ExpireAt
    <3>7. StoreSound'
      BY <3>5, <3>6 DEF CopiesSound, StoreSound
    <3> QED BY <1>0, <2>h, <3>1, <3>4, <3>6, <3>7, <2>n, <2>k, CookieKept DEF CopiesSound, Types
  <2>10. CASE Discard(r)
    <3>1. req' \in [Request -> ReqState] /\ ReqSound'
      BY <2>10, <2>l, Relabelled DEF Discard, At
    <3>2. req[r].copy.id \in Id
      BY <2>10, Holds DEF Discard, At
    <3>3. revoked' \in [Id -> {"no", "ended", "returned"}]
          /\ store' \in [Id -> Stored \cup {None}] /\ UNCHANGED <<now, cookie, born>>
      BY <2>10, <2>n DEF Discard, Types
    <3>4. ASSUME NEW j \in Id, store'[j] # None PROVE store'[j] = store[j]
      BY <2>10, <2>n, <3>4 DEF Discard, Types
    <3>5. StoreSound'
      BY <3>3, <3>4 DEF CopiesSound, StoreSound
    <3> QED BY <1>0, <2>h, <3>1, <3>3, <3>5, <2>n, <2>k, CookieKept DEF CopiesSound, Types
  <2>11. CASE SetCookie(r)
    <3>1. req' \in [Request -> ReqState] /\ ReqSound'
      BY <2>11, Answered DEF SetCookie
    <3>2. Sound(req[r].copy, born, now) /\ req[r].copy \in Copy
      BY <2>11, Holds DEF SetCookie, At
    <3>3. cookie' = req[r].copy /\ UNCHANGED <<now, store, born, revoked>>
      BY <2>11 DEF SetCookie
    <3> QED BY <1>0, <2>h, <3>1, <3>2, <3>3, <2>n, <2>k, StoreKept DEF CopiesSound, Types, CookieSound
  <2>12. CASE ClearCookie(r)
    <3>1. req' \in [Request -> ReqState] /\ ReqSound'
      BY <2>12, Answered DEF ClearCookie
    <3> QED BY <1>0, <2>h, <2>12, <3>1, <2>n, <2>k, StoreKept DEF ClearCookie, CopiesSound, Types, CookieSound
  <2>13. CASE Abort(r)
    <3>1. req' \in [Request -> ReqState] /\ ReqSound'
      BY <2>13, Answered DEF Abort
    <3> QED BY <1>0, <2>h, <2>13, <3>1, <2>n, <2>k, CookieKept, StoreKept DEF Abort, CopiesSound, Types
  <2> QED BY <1>3, <2>1, <2>2, <2>3, <2>4, <2>5, <2>6, <2>8, <2>9, <2>10, <2>11,
             <2>12, <2>13 DEF RequestStep, Renew, RenewValue
<1> QED BY <1>1, <1>2, <1>3 DEF AuthenticatorNext

-----------------------------------------------------------------------------
(* What the parts of the invariant amount to.                                  *)
LEMMA SoundImpliesTypes == CopiesSound => AuthenticatorTypeOK
BY NoneAssumption
DEF CopiesSound, Types, StoreSound, ReqSound, HeldSound, Sound, AuthenticatorTypeOK

LEMMA SoundImpliesExpiry == CopiesSound => NoCopyOutlivesExpiry
<1> SUFFICES ASSUME CopiesSound, NEW i \in Id, NEW c \in Copies(i)
             PROVE  c.expires <= born[i] + Expiry
  BY DEF NoCopyOutlivesExpiry
<1>1. Sound(c, born, now) /\ c.id = i
  BY DEF Copies, Present, At, CopiesSound, CookieSound, StoreSound, ReqSound, HeldSound
<1> QED BY <1>1 DEF Sound

LEMMA SoundAlways == AuthenticatorSpec => []CopiesSound
BY InitSound, NextSound, PTL DEF AuthenticatorSpec

(* Every request that is busy holds an authenticator that was created and that *)
(* nobody used in the future, and every key that of its id, however the        *)
(* requests interleave and wherever they are cut short.                        *)
THEOREM TypeCorrect == AuthenticatorSpec => []AuthenticatorTypeOK
BY SoundAlways, SoundImpliesTypes, PTL

(* No use prolongs an authenticator beyond what it was created for, with any   *)
(* idle time, however many requests touch it and write it back.                *)
THEOREM ExpiryCorrect == AuthenticatorSpec => []NoCopyOutlivesExpiry
BY SoundAlways, SoundImpliesExpiry, PTL

-----------------------------------------------------------------------------
(* Without idle time nothing is written back, and only what was just created   *)
(* is written at all: whoever is about to write holds the one copy there is.   *)
SoleCopy ==
    \A r \in Request : req[r].pc = "set" =>
        /\ revoked[req[r].copy.id] = "no"
        /\ store[req[r].copy.id] = None
        /\ cookie # None => cookie.id # req[r].copy.id
        /\ \A q \in Request : q # r /\ req[q].pc # "idle" => req[q].copy.id # req[r].copy.id
        /\ \A q \in Request : held[q] # None => held[q].id # req[r].copy.id

RevokedWasBorn == \A i \in Revoked : born[i] # None

RevokedInv ==
    /\ CopiesSound
    /\ RevokedWasBorn
    /\ idleTime = None => SoleCopy
    /\ RevokedTokenStaysOut

LEMMA RevokedInit == AuthenticatorInit => RevokedInv
BY InitSound DEF AuthenticatorInit, RevokedInv, SoleCopy, RevokedWasBorn, RevokedTokenStaysOut,
   Revoked

(* Only what a request holds is revoked, and that was created.                 *)
LEMMA RevokedBornStep ==
    CopiesSound /\ RevokedWasBorn /\ [AuthenticatorNext]_authVars => RevokedWasBorn'
<1> SUFFICES ASSUME CopiesSound, RevokedWasBorn, [AuthenticatorNext]_authVars PROVE RevokedWasBorn'
  OBVIOUS
<1>n. Types
  BY DEF CopiesSound
<1>1. ASSUME UNCHANGED <<born, revoked>> PROVE RevokedWasBorn'
  BY <1>1 DEF RevokedWasBorn, Revoked
<1>2. ASSUME NEW r \in Request, RequestStep(r) PROVE RevokedWasBorn'
  <2>b. ASSUME req[r].pc # "idle" PROVE req[r].copy.id \in Id /\ born[req[r].copy.id] # None
    BY <2>b, NoneAssumption, Holds DEF Sound
  <2>1. ASSUME NEW i \in Id, Create(r, i) PROVE RevokedWasBorn'
    BY <2>1, <1>n, NoneAssumption DEF Create, RevokedWasBorn, Revoked, Types
  <2>2. ASSUME NEW i \in Id, NEW how \in {"ended", "returned"}, Replaced(r, i, how)
        PROVE  RevokedWasBorn'
    <3>1. req[r].copy.id \in Id /\ born[req[r].copy.id] # None
      BY <2>2, <2>b DEF Replaced, At
    <3>2. now # None
      BY <1>n, NoneAssumption DEF Types
    <3> QED BY <2>2, <3>1, <3>2, <1>n DEF Replaced, RevokedWasBorn, Revoked, Types
  <2>3. CASE Discard(r)
    <3>1. req[r].copy.id \in Id /\ born[req[r].copy.id] # None
      BY <2>3, <2>b DEF Discard, At
    <3> QED BY <2>3, <3>1, <1>n DEF Discard, RevokedWasBorn, Revoked, Types
  <2>4. CASE UNCHANGED <<born, revoked>>
    BY <2>4, <1>1
  <2> QED BY <1>2, <2>1, <2>2, <2>3, <2>4 DEF RequestStep, Renew, RenewValue, Retrieve,
             RetrieveInVain, ActionEnds, LogOut, Set, ExpireAt, SetCookie, ClearCookie, Abort
<1> QED BY <1>1, <1>2 DEF AuthenticatorNext, Tick, authVars

(* An id that was never created has no copy anywhere, and was never revoked by *)
(* a request that held it.                                                     *)
LEMMA FreshNowhere ==
    ASSUME CopiesSound, NEW i \in Id, Fresh(i)
    PROVE  /\ store[i] = None
           /\ cookie # None => cookie.id # i
           /\ \A q \in Request : req[q].pc # "idle" => req[q].copy.id # i
           /\ \A q \in Request : held[q] # None => held[q].id # i
BY NoneAssumption DEF CopiesSound, CookieSound, StoreSound, ReqSound, HeldSound, Sound, Fresh

LEMMA RevokedStep == RevokedInv /\ [AuthenticatorNext]_authVars => RevokedInv'
<1> SUFFICES ASSUME RevokedInv, [AuthenticatorNext]_authVars, idleTime = None
             PROVE  SoleCopy' /\ RevokedTokenStaysOut'
  BY NextSound, RevokedBornStep, Rigid DEF RevokedInv, RevokedTokenStaysOut
<1>n. Types /\ CopiesSound /\ SoleCopy /\ RevokedWasBorn /\ RevokedTokenStaysOut
  BY DEF RevokedInv, CopiesSound
<1>1. CASE UNCHANGED authVars
  BY <1>1, <1>n DEF authVars, SoleCopy, RevokedTokenStaysOut, Revoked
<1>2. CASE Tick
  BY <1>2, <1>n DEF Tick, SoleCopy, RevokedTokenStaysOut, Revoked
<1>3. ASSUME NEW r \in Request, RequestStep(r) PROVE SoleCopy' /\ RevokedTokenStaysOut'
  <2>i. ASSUME req[r].pc # "idle" PROVE req[r].copy.id \in Id
    BY <2>i, <1>n, Holds
  <2>o. \A q \in Request : req[q].pc = "set" => req[q].copy.id \in Id
    BY <1>n, Holds
  <2>f. ASSUME NEW l, NEW c, Moves(r, l, c), l # "set",
               l = "idle" \/ (req[r].pc # "idle" /\ c = req[r].copy),
               UNCHANGED <<store, cookie, revoked>>, HeldKept
        PROVE  SoleCopy' /\ RevokedTokenStaysOut'
    BY <2>f, <1>n DEF Moves, SoleCopy, RevokedTokenStaysOut, Revoked, HeldKept
  <2>w. ASSUME NEW i \in Id, Fresh(i), Moves(r, "set", Created(i)), UNCHANGED cookie,
               \A j \in Id : store'[j] # None => store'[j] = store[j],
               \A j \in Id : revoked'[j] # revoked[j] => req[r].pc = "action" /\ j = req[r].copy.id,
               req[r].pc # "idle" \/ UNCHANGED held,
               \A q \in Request : held'[q] = held[q] \/ (q = r /\ held'[q] = req[r].copy)
        PROVE  SoleCopy'
    <3>1. Created(i).id = i
      BY DEF Created
    <3>2. /\ store[i] = None
          /\ cookie # None => cookie.id # i
          /\ \A q \in Request : req[q].pc # "idle" => req[q].copy.id # i
          /\ \A q \in Request : held[q] # None => held[q].id # i
      BY <2>w, <1>n, FreshNowhere
    <3>3. revoked[i] = "no"
      BY <2>w, <1>n DEF Fresh, RevokedWasBorn, Revoked
    <3>4. revoked'[i] = "no" /\ store'[i] = None
      BY <2>w, <3>2, <3>3
    <3>5. ASSUME NEW q \in Request, q # r, req[q].pc = "set"
          PROVE  revoked'[req[q].copy.id] = "no" /\ store'[req[q].copy.id] = None
      BY <2>w, <3>5, <2>o, <1>n DEF SoleCopy
    <3>6. \A q \in Request : held'[q] # None => held'[q].id # i
      BY <2>w, <3>2
    <3>7. ASSUME NEW q \in Request, q # r, req[q].pc = "set", NEW p \in Request, held'[p] # None
          PROVE  held'[p].id # req[q].copy.id
      BY <2>w, <3>7, <1>n DEF SoleCopy
    <3> QED BY <2>w, <3>1, <3>2, <3>4, <3>5, <3>6, <3>7, <1>n, <2>o DEF Moves, SoleCopy
  <2>h. ASSUME NEW h \in Id \cup {None}, NEW l, NEW c, Moves(r, l, c), l # "set",
               Retrieved(h) # None, c.id = Retrieved(h).id, UNCHANGED <<store, cookie, held, revoked>>
        PROVE  SoleCopy' /\ RevokedTokenStaysOut'
    <3>1. \/ h \in Id /\ store[h] # None /\ c.id = h
          \/ cookie # None /\ c.id = cookie.id
      BY <2>h, <1>n DEF Retrieved, Present, CopiesSound, StoreSound
    <3>2. \A q \in Request : req[q].pc = "set" => req[q].copy.id # c.id
      BY <3>1, <1>n DEF SoleCopy
    <3> QED BY <2>h, <3>2, <2>o, <1>n DEF Moves, SoleCopy, RevokedTokenStaysOut, Revoked
  <2>1. ASSUME NEW i \in Id, Create(r, i) PROVE SoleCopy' /\ RevokedTokenStaysOut'
    <3>1. Fresh(i) /\ Moves(r, "set", Created(i)) /\ UNCHANGED <<store, cookie, held, revoked>>
      BY <2>1, <1>n, EveryMove DEF Create
    <3> QED BY <3>1, <2>w, <1>n DEF RevokedTokenStaysOut, Revoked
  <2>2. ASSUME NEW i \in Id, NEW how \in {"ended", "returned"}, Replaced(r, i, how), UNCHANGED cookie,
               UNCHANGED held \/ held' = [held EXCEPT ![r] = req[r].copy]
        PROVE  SoleCopy' /\ RevokedTokenStaysOut'
    <3> DEFINE k == req[r].copy.id
    <3>1. Fresh(i) /\ Moves(r, "set", Created(i)) /\ UNCHANGED cookie /\ req[r].pc = "action"
      BY <2>2, <1>n, EveryMove DEF Replaced, At
    <3>2. k \in Id
      BY <3>1, <2>i
    <3>3. \A j \in Id : /\ store'[j] = IF j = k THEN None ELSE store[j]
                        /\ revoked'[j] = IF j = k THEN how ELSE revoked[j]
      BY <2>2, <3>2, <1>n DEF Replaced, Types
    <3>4. RevokedTokenStaysOut'
      BY <3>2, <3>3, <1>n DEF RevokedTokenStaysOut, Revoked
    <3>h. \A q \in Request : held'[q] = held[q] \/ (q = r /\ held'[q] = req[r].copy)
      BY <2>2, <1>n DEF Types
    <3>5. SoleCopy'
      BY <3>1, <3>3, <3>h, <2>w
    <3> QED BY <3>4, <3>5
  <2>3. ASSUME NEW h \in Id \cup {None}, Retrieve(r, h) PROVE SoleCopy' /\ RevokedTokenStaysOut'
    <3>1. /\ Moves(r, "action", Touched(Retrieved(h))) /\ Retrieved(h) # None
          /\ Touched(Retrieved(h)).id = Retrieved(h).id /\ UNCHANGED <<store, cookie, held, revoked>>
      BY <2>3, <1>n, EveryMove, idleTime = None DEF Retrieve, Touched
    <3> QED BY <3>1, <2>h
  <2>4. ASSUME NEW h \in Id \cup {None}, RetrieveInVain(r, h) PROVE SoleCopy' /\ RevokedTokenStaysOut'
    <3>1. /\ Moves(r, "discard", Retrieved(h)) /\ Retrieved(h) # None
          /\ UNCHANGED <<store, cookie, held, revoked>>
      BY <2>4, <1>n, EveryMove DEF RetrieveInVain
    <3> QED BY <3>1, <2>h
  <2>5. CASE ActionEnds(r)
    BY <2>5, <2>f, <1>n, EveryMove, HeldIsKept, idleTime = None DEF ActionEnds
  <2>6. CASE LogOut(r)
    BY <2>6, <2>f, <1>n, EveryMove, HeldIsKept DEF LogOut, At
  <2>8. CASE Set(r)
    <3>1. req[r].copy.id \in Id /\ req[r].pc = "set"
      BY <2>8, <2>i DEF Set, At
    <3>2. Moves(r, "expireAt", req[r].copy) /\ UNCHANGED <<cookie, held, revoked>>
      BY <2>8, <1>n, EveryMove DEF Set
    <3>3. \A j \in Id : j # req[r].copy.id => store'[j] = store[j]
      BY <2>8, <1>n DEF Set, Types
    <3> QED BY <3>1, <3>2, <3>3, <2>o, <1>n DEF Moves, SoleCopy, RevokedTokenStaysOut, Revoked
  <2>9. CASE ExpireAt(r)
    <3>1. req[r].copy.id \in Id /\ req[r].pc = "expireAt"
      BY <2>9, <2>i DEF ExpireAt, At
    <3>2. HeldKept /\ UNCHANGED <<cookie, revoked>>
      BY <2>9, <1>n, HeldIsKept DEF ExpireAt
    <3>3. \A j \in Id : store[j] = None => store'[j] = None
      BY <2>9, <3>1, <1>n DEF ExpireAt, Present, Types
    <3>4. RevokedTokenStaysOut'
      BY <3>2, <3>3, <1>n DEF RevokedTokenStaysOut, Revoked
    <3>5. PICK l, c : /\ Moves(r, l, c) /\ l # "set"
                      /\ c = req[r].copy \/ (held[r] # None /\ c = held[r])
      BY <2>9, <1>n, EveryMove DEF ExpireAt
    <3>6. \A q \in Request : req[q].pc = "set" => c.id # req[q].copy.id
      BY <3>1, <3>5, <1>n DEF SoleCopy
    <3>7. SoleCopy'
      BY <3>2, <3>3, <3>5, <3>6, <2>o, <1>n DEF Moves, SoleCopy, HeldKept
    <3> QED BY <3>4, <3>7
  <2>10. CASE Discard(r)
    <3> DEFINE i == req[r].copy.id
    <3>1. i \in Id /\ req[r].pc = "discard"
      BY <2>10, <2>i DEF Discard, At
    <3>2. Moves(r, "clearCookie", req[r].copy) /\ UNCHANGED <<cookie, held>>
      BY <2>10, <1>n, EveryMove DEF Discard
    <3>3. \A j \in Id : /\ store'[j] = IF j = i THEN None ELSE store[j]
                        /\ revoked'[j] = IF j = i THEN "ended" ELSE revoked[j]
      BY <2>10, <3>1, <1>n DEF Discard, Types
    <3>4. \A q \in Request : req[q].pc = "set" => req[q].copy.id # i
      BY <3>1, <1>n DEF SoleCopy
    <3>5. RevokedTokenStaysOut'
      BY <3>1, <3>3, <1>n DEF RevokedTokenStaysOut, Revoked
    <3>6. SoleCopy'
      BY <3>1, <3>2, <3>3, <3>4, <2>o, <1>n DEF Moves, SoleCopy
    <3> QED BY <3>5, <3>6
  <2>11. CASE SetCookie(r)
    <3>1. req[r].pc = "setCookie" /\ cookie' = req[r].copy /\ UNCHANGED <<store, held, revoked>>
          /\ Moves(r, "idle", None)
      BY <2>11, <1>n, EveryMove DEF SetCookie, At
    <3>2. \A q \in Request : req[q].pc = "set" => q # r /\ req[r].copy.id # req[q].copy.id
      BY <3>1, <1>n DEF SoleCopy
    <3> QED BY <3>1, <3>2, <1>n DEF Moves, SoleCopy, RevokedTokenStaysOut, Revoked
  <2>12. CASE ClearCookie(r)
    <3>1. cookie' = None /\ UNCHANGED <<store, held, revoked>> /\ Moves(r, "idle", None)
      BY <2>12, <1>n, EveryMove DEF ClearCookie
    <3> QED BY <3>1, <1>n DEF Moves, SoleCopy, RevokedTokenStaysOut, Revoked
  <2>13. CASE Abort(r)
    BY <2>13, <2>f, <1>n, EveryMove, HeldIsKept DEF Abort
  <2> QED BY <1>3, <2>1, <2>2, <2>3, <2>4, <2>5, <2>6, <2>8, <2>9, <2>10, <2>11,
             <2>12, <2>13 DEF RequestStep, Renew, RenewValue
<1> QED BY <1>1, <1>2, <1>3 DEF AuthenticatorNext

(* Without idle time a token that was discarded or renewed is gone at once and *)
(* for good, whatever requests hold it: none of them writes it back.           *)
THEOREM RevocationCorrect == AuthenticatorSpec => []RevokedTokenStaysOut
<1>1. RevokedInv /\ [AuthenticatorNext]_authVars => RevokedInv'
  BY RevokedStep
<1>2. RevokedInv => RevokedTokenStaysOut
  BY DEF RevokedInv
<1> QED BY <1>1, <1>2, RevokedInit, PTL DEF AuthenticatorSpec

-----------------------------------------------------------------------------
(* The refinement. Where copies are, without the sets that Copies builds.      *)
IsCopy(i, c) ==
    \/ c = cookie /\ cookie # None /\ c.id = i
    \/ Present(i) /\ c = store[i].copy
    \/ \E r \in Request : req[r].pc # "idle" /\ c = req[r].copy /\ c.id = i
    \/ \E r \in Request : held[r] # None /\ c = held[r] /\ c.id = i

LEMMA CopiesAre ==
    ASSUME NEW i \in Id, NEW c
    PROVE  /\ c \in Copies(i) <=> IsCopy(i, c)
           /\ c \in Copies(i)' <=> IsCopy(i, c)'
BY DEF Copies, IsCopy, At

LEMMA CopiesAreSound ==
    ASSUME CopiesSound, NEW i \in Id, NEW c, IsCopy(i, c)
    PROVE  c \in Copy /\ c.id = i /\ Sound(c, born, now)
BY DEF IsCopy, Present, CopiesSound, CookieSound, StoreSound, ReqSound, HeldSound, Sound

(* What is created is valid, and what is touched if it was valid before.       *)
LEMMA CreatedIsValid ==
    ASSUME Types, NEW i \in Id PROVE IsValid(Created(i))
BY TimeAssumption DEF Types, IsValid, Created

(* Validity only ever ends: a copy that is valid after a step was valid before.*)
LEMMA ValidBefore ==
    ASSUME Types, Types', now <= now', UNCHANGED idleTime, NEW c \in Copy, IsValid(c)'
    PROVE  IsValid(c)
BY TimeAssumption DEF Types, IsValid, Copy

(* Every valid copy after a step stems from a valid copy before it, unless it  *)
(* is the first of its authenticator.                                          *)
LEMMA CopiesStem ==
    ASSUME CopiesSound, CopiesSound', [AuthenticatorNext]_authVars,
           NEW i \in Id, ~Fresh(i), NEW c, IsCopy(i, c)', IsValid(c)'
    PROVE  \E b : IsCopy(i, b) /\ IsValid(b)
<1>n. Types /\ Types' /\ now \in Nat /\ now' \in Nat
  BY DEF CopiesSound, Types
<1>r. ASSUME NEW r \in Request, RequestStep(r) PROVE now' = now
  BY <1>r, StepGrows
<1>t. now <= now'
  BY <1>n, <1>r DEF AuthenticatorNext, Tick, authVars
<1>c. c \in Copy
  BY DEF IsCopy, Present, CopiesSound, CookieSound, StoreSound, ReqSound, HeldSound, Sound
<1>v. IsValid(c)
  BY <1>n, <1>t, <1>c, Rigid, ValidBefore
<1>1. CASE UNCHANGED <<store, cookie, req, held>>
  <2>1. Present(i)' => Present(i)
    BY <1>1, <1>t, <1>n DEF Present, CopiesSound, StoreSound, Sound, Copy
  <2>2. IsCopy(i, c)
    BY <1>1, <2>1 DEF IsCopy
  <2> QED BY <2>2, <1>v
<1>2. ASSUME NEW r \in Request, RequestStep(r) PROVE \E b : IsCopy(i, b) /\ IsValid(b)
  <2>n. now' = now /\ Types
    BY <1>2, <1>r, <1>n
  <2>i. req[r].pc # "idle" => req[r].copy.id \in Id
    BY Holds
  (* Nothing new in the store and the cookie, and the request moves on with    *)
  (* the same copy, or none.                                                   *)
  <2>f. ASSUME NEW l, NEW d, Moves(r, l, d),
               l = "idle" \/ (req[r].pc # "idle" /\ d = req[r].copy)
                          \/ (held[r] # None /\ d = held[r]),
               Present(i)' => Present(i) /\ store'[i].copy = store[i].copy,
               cookie' \in {cookie, None}, HeldKept
        PROVE  \E b : IsCopy(i, b) /\ IsValid(b)
    <3>1. IsCopy(i, c)
      BY <2>f DEF Moves, IsCopy, HeldKept
    <3> QED BY <3>1, <1>v
  <2>1. ASSUME NEW j \in Id, Create(r, j) PROVE IsCopy(i, c)
    <3>1. Moves(r, "set", Created(j)) /\ Fresh(j) /\ UNCHANGED <<store, cookie, held>>
      BY <2>1, <2>n, EveryMove DEF Create
    <3>2. Created(j).id # i
      BY <3>1 DEF Created
    <3>3. Present(i)' => Present(i) /\ store'[i].copy = store[i].copy
      BY <3>1, <2>n DEF Present
    <3> QED BY <3>1, <3>2, <3>3 DEF Moves, IsCopy
  <2>2. ASSUME NEW j \in Id, Renew(r, j) \/ RenewValue(r, j) PROVE IsCopy(i, c)
    <3>1. Moves(r, "set", Created(j)) /\ Fresh(j) /\ UNCHANGED cookie /\ req[r].pc # "idle"
      BY <2>2, <2>n, EveryMove DEF Renew, RenewValue, Replaced, At
    <3>2. Created(j).id # i
      BY <3>1 DEF Created
    <3>3. store' = [store EXCEPT ![req[r].copy.id] = None]
      BY <2>2 DEF Renew, RenewValue, Replaced
    <3>4. Present(i)' => Present(i) /\ store'[i].copy = store[i].copy
      BY <3>3, <2>n DEF Present, Types
    <3>5. \A q \in Request : held'[q] = held[q] \/ (q = r /\ held'[q] = req[r].copy)
      BY <2>2, <2>n DEF Renew, RenewValue, Types
    <3> QED BY <3>1, <3>2, <3>4, <3>5 DEF Moves, IsCopy
  <2>3. ASSUME NEW h \in Id \cup {None}, Retrieve(r, h) PROVE \E b : IsCopy(i, b) /\ IsValid(b)
    <3> DEFINE b == Retrieved(h)
    <3>1. Moves(r, "action", Touched(b)) /\ UNCHANGED <<store, cookie, held>> /\ IsValid(b) /\ b # None
      BY <2>3, <2>n, EveryMove DEF Retrieve
    <3>2. Sound(b, born, now) /\ (b.id = i => IsCopy(i, b))
      BY <3>1, <2>n DEF Retrieved, Present, CopiesSound, StoreSound, CookieSound, IsCopy
    <3>3. Touched(b).id = b.id
      BY <3>2, <2>n, TouchedIsSound
    <3>4. Present(i)' => Present(i) /\ store'[i].copy = store[i].copy
      BY <3>1, <2>n DEF Present
    <3> HIDE DEF b
    <3>5. IsCopy(i, c) \/ (c = Touched(b) /\ c.id = i)
      BY <3>1, <3>4 DEF Moves, IsCopy
    <3> QED BY <3>1, <3>2, <3>3, <3>5, <1>v
  <2>4. ASSUME NEW h \in Id \cup {None}, RetrieveInVain(r, h) PROVE IsCopy(i, c)
    <3> DEFINE b == Retrieved(h)
    <3>1. Moves(r, "discard", b) /\ UNCHANGED <<store, cookie, held>> /\ b # None
      BY <2>4, <2>n, EveryMove DEF RetrieveInVain
    <3>2. b.id = i => IsCopy(i, b)
      BY <3>1, <2>n DEF Retrieved, Present, CopiesSound, StoreSound, CookieSound, IsCopy
    <3>3. Present(i)' => Present(i) /\ store'[i].copy = store[i].copy
      BY <3>1, <2>n DEF Present
    <3> HIDE DEF b
    <3> QED BY <3>1, <3>2, <3>3 DEF Moves, IsCopy
  <2>5. CASE ActionEnds(r) \/ LogOut(r) \/ Abort(r)
    <3>1. UNCHANGED <<store, cookie>> /\ HeldKept
          /\ \E l, d : Moves(r, l, d) /\ (l = "idle" \/ (req[r].pc # "idle" /\ d = req[r].copy))
      BY <2>5, <2>n, EveryMove, HeldIsKept DEF ActionEnds, LogOut, Abort, At
    <3>2. Present(i)' => Present(i) /\ store'[i].copy = store[i].copy
      BY <3>1, <2>n DEF Present
    <3> QED BY <3>1, <3>2, <2>f
  <2>6. CASE Set(r)
    <3>1. /\ Moves(r, "expireAt", req[r].copy) /\ UNCHANGED <<cookie, held>> /\ HeldKept
          /\ req[r].pc # "idle"
      BY <2>6, <2>n, EveryMove, HeldIsKept DEF Set, At
    <3>2. store' = [store EXCEPT ![req[r].copy.id] = [copy |-> req[r].copy, ttl |-> FALSE]]
      BY <2>6 DEF Set
    <3>3. CASE i = req[r].copy.id
      <4>1. store'[i].copy = req[r].copy
        BY <3>2, <3>3, <2>n DEF Types
      <4>2. IsCopy(i, c)
        BY <3>1, <3>3, <4>1 DEF Moves, IsCopy
      <4> QED BY <4>2, <1>v
    <3>4. CASE i # req[r].copy.id
      <4>1. Present(i)' => Present(i) /\ store'[i].copy = store[i].copy
        BY <3>2, <3>4, <2>n DEF Present, Types
      <4> QED BY <3>1, <4>1, <2>f
    <3> QED BY <3>3, <3>4
  <2>7. CASE ExpireAt(r)
    <3> DEFINE k == req[r].copy.id
    <3>1. UNCHANGED cookie /\ HeldKept /\ req[r].pc # "idle"
      BY <2>7, <2>n, HeldIsKept DEF ExpireAt, At
    <3>m. \E l, d : Moves(r, l, d) /\ (d = req[r].copy \/ (held[r] # None /\ d = held[r]))
      BY <2>7, <2>n, EveryMove DEF ExpireAt
    <3>2. \/ store' = store
          \/ Present(k) /\ store' = [store EXCEPT ![k] = [store[k] EXCEPT !.ttl = TRUE]]
      BY <2>7, <2>n, <2>i, <3>1 DEF ExpireAt, Types
    <3>3. Present(i)' => Present(i) /\ store'[i].copy = store[i].copy
      BY <3>2, <2>n, <2>i, <3>1 DEF Present, Types, Stored
    <3> QED BY <3>1, <3>m, <3>3, <2>f
  <2>8. CASE Discard(r)
    <3>1. /\ Moves(r, "clearCookie", req[r].copy) /\ UNCHANGED cookie /\ HeldKept
          /\ req[r].pc # "idle"
      BY <2>8, <2>n, EveryMove, HeldIsKept DEF Discard, At
    <3>2. store' = [store EXCEPT ![req[r].copy.id] = None]
      BY <2>8 DEF Discard
    <3>3. Present(i)' => Present(i) /\ store'[i].copy = store[i].copy
      BY <3>2, <2>n DEF Present, Types
    <3> QED BY <3>1, <3>3, <2>f
  <2>9. CASE SetCookie(r)
    <3>1. Moves(r, "idle", None) /\ UNCHANGED <<store, held>> /\ cookie' = req[r].copy /\ req[r].pc # "idle"
      BY <2>9, <2>n, EveryMove DEF SetCookie, At
    <3>2. Present(i)' => Present(i) /\ store'[i].copy = store[i].copy
      BY <3>1, <2>n DEF Present
    <3>3. IsCopy(i, c)
      BY <3>1, <3>2 DEF Moves, IsCopy
    <3> QED BY <3>3, <1>v
  <2>10. CASE ClearCookie(r)
    <3>1. Moves(r, "idle", None) /\ UNCHANGED store /\ cookie' = None /\ HeldKept
      BY <2>10, <2>n, EveryMove, HeldIsKept DEF ClearCookie
    <3>2. Present(i)' => Present(i) /\ store'[i].copy = store[i].copy
      BY <3>1, <2>n DEF Present
    <3> QED BY <3>1, <3>2, <2>f
  <2> QED BY <1>2, <1>v, <2>1, <2>2, <2>3, <2>4, <2>5, <2>6, <2>7, <2>8, <2>9, <2>10 DEF RequestStep
<1> QED BY <1>1, <1>2 DEF AuthenticatorNext, Tick, authVars

(* An authenticator that is created has a valid copy: that of its request.     *)
LEMMA CreatedIsOpen ==
    ASSUME CopiesSound, CopiesSound', [AuthenticatorNext]_authVars,
           NEW i \in Id, Fresh(i), ~Fresh(i)'
    PROVE  Usable(i)'
<1>n. Types /\ now # None
  BY NoneAssumption DEF CopiesSound, Types
<1>1. PICK r \in Request : Create(r, i) \/ Renew(r, i) \/ RenewValue(r, i)
  <2>1. ASSUME NEW r \in Request, RequestStep(r)
        PROVE  Create(r, i) \/ Renew(r, i) \/ RenewValue(r, i)
    <3>1. \E j \in Id : Create(r, j) \/ Renew(r, j) \/ RenewValue(r, j)
      BY <2>1, <1>n DEF RequestStep, Retrieve, RetrieveInVain, ActionEnds, LogOut,
         Set, ExpireAt, Discard, SetCookie, ClearCookie, Abort, Fresh
    <3> QED BY <3>1, <1>n DEF Create, Renew, RenewValue, Replaced, Fresh, Types
  <2>2. ~UNCHANGED born
    BY DEF Fresh
  <2> QED BY <2>1, <2>2 DEF AuthenticatorNext, Tick, authVars
<1>2. PICK c : c = Created(i)
  OBVIOUS
<1>3. Moves(r, "set", c) /\ now' = now
  BY <1>1, <1>2, <1>n, EveryMove DEF Create, Renew, RenewValue, Replaced
<1>4. c.id = i /\ IsValid(c)
  BY <1>2, <1>n, CreatedIsValid DEF Created
<1>5. IsCopy(i, c)'
  BY <1>3, <1>4 DEF Moves, IsCopy
<1>6. IsValid(c)'
  BY <1>3, <1>4, Rigid DEF IsValid
<1> QED BY <1>5, <1>6, CopiesAre DEF Usable

(* What a step of the service may do to one session.                           *)
LEMMA OneSession ==
    ASSUME CopiesSound, CopiesSound', [AuthenticatorNext]_authVars, NEW i \in Id
    PROVE  /\ State[i] \in {"new", "open", "ended"}
           /\ State[i] = "new" => State'[i] \in {"new", "open"}
           /\ State[i] = "open" => State'[i] \in {"open", "ended"}
           /\ State[i] = "ended" => State'[i] = "ended"
<1>1. Fresh(i) /\ ~Fresh(i)' => Usable(i)'
  BY CreatedIsOpen
<1>2. ~Fresh(i) /\ Usable(i)' => Usable(i)
  <2> SUFFICES ASSUME ~Fresh(i), NEW c \in Copies(i)', IsValid(c)' PROVE Usable(i)
    BY DEF Usable
  <2>1. PICK b : IsCopy(i, b) /\ IsValid(b)
    BY CopiesAre, CopiesStem
  <2> QED BY <2>1, CopiesAre DEF Usable
<1>3. ~Fresh(i) => ~Fresh(i)'
  <2>1. ASSUME NEW r \in Request, RequestStep(r)
        PROVE  born' = born \/ \E j \in Id : Fresh(j) /\ born' = [born EXCEPT ![j] = now]
    BY <2>1 DEF RequestStep, Create, Renew, RenewValue, Replaced, Retrieve, RetrieveInVain,
       ActionEnds, LogOut, Set, ExpireAt, Discard, SetCookie, ClearCookie, Abort
  <2>2. born' = born \/ \E j \in Id : Fresh(j) /\ born' = [born EXCEPT ![j] = now]
    BY <2>1 DEF AuthenticatorNext, Tick, authVars
  <2> QED BY <2>2 DEF Fresh, CopiesSound, Types
<1>4. /\ State[i] = IF Fresh(i) THEN "new" ELSE IF Usable(i) THEN "open" ELSE "ended"
      /\ State'[i] = IF Fresh(i)' THEN "new" ELSE IF Usable(i)' THEN "open" ELSE "ended"
  BY DEF State, Fresh
<1> QED BY <1>1, <1>2, <1>3, <1>4

(* The steps of the service are steps of Session, or none at all.              *)
LEMMA SessionStep ==
    CopiesSound /\ CopiesSound' /\ [AuthenticatorNext]_authVars
        => [SessionOf!SessionNext]_State
<1> SUFFICES ASSUME CopiesSound, CopiesSound', [AuthenticatorNext]_authVars
             PROVE  SessionOf!SessionNext
  OBVIOUS
<1> DEFINE B == {i \in Id : State[i] = "new" /\ State'[i] = "open"}
           E == {i \in Id : State[i] # "new" /\ State'[i] = "ended"}
<1>1. State' = [i \in Id |-> State'[i]]
  BY DEF State
<1>2. \A i \in Id : State'[i] = IF i \in B THEN "open" ELSE IF i \in E THEN "ended" ELSE State[i]
  BY OneSession
<1>3. SessionOf!Change(B, E)
  BY <1>1, <1>2 DEF SessionOf!Change
<1> QED BY <1>3 DEF SessionOf!SessionNext

(* The service implements Session for any number of ids, requests and copies:  *)
(* a session that timed out, expired, or lost its last copy does not come back.*)
THEOREM ServiceImplementsSession == AuthenticatorSpec => ImplementsSession
<1>1. AuthenticatorInit => SessionOf!SessionInit
  BY DEF AuthenticatorInit, SessionOf!SessionInit, State
<1> QED BY <1>1, SoundAlways, SessionStep, PTL
        DEF AuthenticatorSpec, ImplementsSession, SessionOf!SessionSpec
-----------------------------------------------------------------------------
(* Requests one by one. At most one is busy; what it holds was not ended, but  *)
(* by itself; Redis has nothing that was; and while the browser does, the      *)
(* answer that replaces or clears its cookie is still to come.                 *)
OneByOne ==
    /\ \A q, r \in Request : req[q].pc # "idle" /\ req[r].pc # "idle" => q = r
    /\ \A r \in Request : req[r].pc \notin {"idle", "clearCookie"} => revoked[req[r].copy.id] # "ended"
    /\ \A r \in Request : held[r] # None => revoked[held[r].id] # "ended"
    /\ \A i \in Id : revoked[i] = "ended" => store[i] = None
    /\ cookie # None /\ revoked[cookie.id] = "ended" =>
         \E r \in Request : /\ req[r].pc \in {"set", "expireAt", "setCookie", "clearCookie"}
                           /\ held[r] = None

AloneInv ==
    /\ CopiesSound
    /\ RevokedWasBorn
    /\ alone => OneByOne

LEMMA AloneInit == AuthenticatorInit => AloneInv
BY InitSound DEF AuthenticatorInit, AloneInv, OneByOne, RevokedWasBorn, Revoked

LEMMA AloneStep == AloneInv /\ [AuthenticatorNext]_authVars => AloneInv'
<1> SUFFICES ASSUME AloneInv, [AuthenticatorNext]_authVars, alone PROVE OneByOne'
  BY NextSound, RevokedBornStep, Rigid DEF AloneInv
<1>n. Types /\ CopiesSound /\ OneByOne /\ RevokedWasBorn
  BY DEF AloneInv, CopiesSound
<1>1. CASE UNCHANGED authVars
  BY <1>1, <1>n DEF authVars, OneByOne
<1>2. CASE Tick
  BY <1>2, <1>n DEF Tick, OneByOne
<1>3. ASSUME NEW r \in Request, RequestStep(r) PROVE OneByOne'
  <2> DEFINE k == req[r].copy.id
  <2>i. ASSUME req[r].pc # "idle" PROVE k \in Id
    BY <2>i, <1>n, Holds
  <2>o. \A q \in Request : q # r => req[q].pc = "idle"
    <3>1. CASE req[r].pc # "idle"
      BY <3>1, <1>n DEF OneByOne
    <3>2. CASE req[r].pc = "idle"
      BY <3>2, <1>3 DEF RequestStep, Create, Renew, RenewValue, Replaced, Retrieve,
         RetrieveInVain, ActionEnds, LogOut, Set, ExpireAt, Discard, SetCookie, ClearCookie, Abort, Arrives, At
    <3> QED BY <3>1, <3>2
  <2>k. req[r].pc \notin {"idle", "clearCookie"} => revoked[k] # "ended"
    BY <1>n DEF OneByOne
  <2>c. req[r].pc \notin {"set", "expireAt", "setCookie", "clearCookie"} /\ cookie # None
          => revoked[cookie.id] # "ended"
    BY <1>n, <2>o DEF OneByOne
  <2>g. /\ \A q \in Request : q # r => held[q] = None
        /\ held[r] # None => /\ req[r].pc \in {"set", "expireAt"} /\ revoked[held[r].id] # "ended"
                             /\ cookie # None => revoked[cookie.id] # "ended"
    BY <1>n, <2>o DEF OneByOne, CopiesSound, HeldSound
  <2>s. \A i \in Id : revoked[i] = "ended" => store[i] = None
    BY <1>n DEF OneByOne
  (* What is to be shown of a request that moves on to l with c.               *)
  <2>m. ASSUME NEW l, NEW c, Moves(r, l, c), HeldKept,
               l \notin {"idle", "clearCookie"} => revoked'[c.id] # "ended",
               held'[r] # None => revoked'[held[r].id] # "ended",
               \A i \in Id : revoked'[i] = "ended" => store'[i] = None,
               cookie' # None /\ revoked'[cookie'.id] = "ended" =>
                 l \in {"set", "expireAt", "setCookie", "clearCookie"} /\ held'[r] = None
        PROVE  OneByOne'
    BY <2>m, <2>o, <2>g DEF Moves, OneByOne, HeldKept
  <2>w. UNCHANGED held => HeldKept
    BY <1>n, HeldIsKept
  <2>r. ASSUME NEW h \in Id \cup {None}, Arrives(r), Retrieved(h) # None
        PROVE  /\ revoked[Retrieved(h).id] # "ended"
               /\ cookie # None => revoked[cookie.id] # "ended"
    <3>1. cookie # None => revoked[cookie.id] # "ended"
      BY <2>r, <2>c DEF Arrives, At
    <3>2. CASE Retrieved(h) = cookie
      BY <3>1, <3>2, <2>r
    <3>3. CASE h \in Id /\ store[h] # None /\ Retrieved(h) = store[h].copy
      BY <3>1, <3>3, <2>s, <1>n DEF CopiesSound, StoreSound
    <3> QED BY <2>r, <3>1, <3>2, <3>3 DEF Retrieved, Present
  <2>1. ASSUME NEW i \in Id, Create(r, i) PROVE OneByOne'
    <3>1. Moves(r, "set", Created(i)) /\ Fresh(i) /\ UNCHANGED <<store, cookie, held, revoked>>
      BY <2>1, <1>n, EveryMove DEF Create
    <3>2. Created(i).id = i /\ revoked[i] # "ended"
      BY <3>1, <1>n DEF Created, Fresh, RevokedWasBorn, Revoked
    <3> QED BY <3>1, <3>2, <2>g, <2>s, <2>w, <2>m
  <2>2. ASSUME NEW i \in Id, NEW how \in {"ended", "returned"}, Replaced(r, i, how)
        PROVE  /\ Moves(r, "set", Created(i)) /\ req[r].pc = "action" /\ held[r] = None
               /\ k \in Id /\ Created(i).id = i /\ revoked'[i] # "ended"
               /\ \A j \in Id : revoked'[j] = IF j = k THEN how ELSE revoked[j]
               /\ \A j \in Id : revoked'[j] = "ended" => store'[j] = None
    <3>1. Moves(r, "set", Created(i)) /\ Fresh(i) /\ req[r].pc = "action"
      BY <2>2, <1>n, EveryMove DEF Replaced, At
    <3>2. k \in Id /\ k # i
      BY <3>1, <2>i, <1>n, FreshNowhere
    <3>3. \A j \in Id : /\ store'[j] = IF j = k THEN None ELSE store[j]
                        /\ revoked'[j] = IF j = k THEN how ELSE revoked[j]
      BY <2>2, <3>2, <1>n DEF Replaced, Types
    <3>4. Created(i).id = i /\ revoked'[i] # "ended"
      BY <3>1, <3>2, <3>3, <1>n DEF Created, Fresh, RevokedWasBorn, Revoked
    <3>5. \A j \in Id : revoked'[j] = "ended" => store'[j] = None
      BY <3>3, <2>s
    <3> QED BY <3>1, <3>2, <3>3, <3>4, <3>5, <2>g
  <2>e. ASSUME NEW i \in Id, Renew(r, i) PROVE OneByOne'
    <3>1. Replaced(r, i, "ended") /\ UNCHANGED <<cookie, held>>
      BY <2>e DEF Renew
    <3> QED BY <3>1, <2>2, <2>w, <2>m
  <2>v. ASSUME NEW i \in Id, RenewValue(r, i) PROVE OneByOne'
    <3>1. Replaced(r, i, "returned") /\ UNCHANGED cookie
          /\ held' = [held EXCEPT ![r] = req[r].copy]
      BY <2>v DEF RenewValue
    <3>2. \A q \in Request : held'[q] = IF q = r THEN req[r].copy ELSE None
      BY <3>1, <1>n, <2>g DEF Types
    <3>3. revoked'[k] # "ended"
      BY <3>1, <2>2
    <3>4. cookie # None => revoked'[cookie.id] # "ended"
      <4>1. cookie # None => cookie.id \in Id
        BY <1>n DEF Types, Copy
      <4> QED BY <3>1, <4>1, <2>2, <2>c
    <3> QED BY <3>1, <3>2, <3>3, <3>4, <2>2, <2>o DEF Moves, OneByOne
  <2>3. ASSUME NEW h \in Id \cup {None}, Retrieve(r, h) PROVE OneByOne'
    <3>1. /\ Moves(r, "action", Touched(Retrieved(h))) /\ Retrieved(h) # None /\ Arrives(r)
          /\ UNCHANGED <<store, cookie, held, revoked>>
      BY <2>3, <1>n, EveryMove DEF Retrieve
    <3>2. Touched(Retrieved(h)).id = Retrieved(h).id
      BY <3>1, <1>n, TouchedIsSound DEF Retrieved, Present, CopiesSound, StoreSound, CookieSound
    <3> QED BY <3>1, <3>2, <2>g, <2>r, <2>s, <2>w, <2>m DEF Arrives, At
  <2>4. ASSUME NEW h \in Id \cup {None}, RetrieveInVain(r, h) PROVE OneByOne'
    <3>1. /\ Moves(r, "discard", Retrieved(h)) /\ Retrieved(h) # None /\ Arrives(r)
          /\ UNCHANGED <<store, cookie, held, revoked>>
      BY <2>4, <1>n, EveryMove DEF RetrieveInVain
    <3> QED BY <3>1, <2>g, <2>r, <2>s, <2>w, <2>m DEF Arrives, At
  <2>5. CASE ActionEnds(r) \/ LogOut(r)
    <3>1. /\ req[r].pc = "action" /\ UNCHANGED <<store, cookie, held, revoked>>
          /\ \/ \E l \in {"set", "discard"} : Moves(r, l, req[r].copy)
             \/ Moves(r, "idle", None)
      BY <2>5, <1>n, EveryMove DEF ActionEnds, LogOut, At
    <3> QED BY <3>1, <2>g, <2>k, <2>c, <2>s, <2>w, <2>m
  <2>6. CASE Set(r)
    <3>1. Moves(r, "expireAt", req[r].copy) /\ req[r].pc = "set" /\ UNCHANGED <<cookie, held, revoked>>
      BY <2>6, <1>n, EveryMove DEF Set, At
    <3>2. \A j \in Id : j # k => store'[j] = store[j]
      BY <2>6, <1>n DEF Set, Types
    <3>3. \A j \in Id : revoked[j] = "ended" => store'[j] = None
      BY <3>1, <3>2, <2>k, <2>s
    <3>4. cookie # None /\ revoked[cookie.id] = "ended" => held[r] = None
      BY <2>g
    <3> QED BY <3>1, <3>3, <3>4, <2>g, <2>k, <2>w, <2>m
  <2>7. CASE ExpireAt(r)
    <3>1. req[r].pc = "expireAt" /\ UNCHANGED <<cookie, revoked>> /\ HeldKept /\ held'[r] = None
      BY <2>7, <1>n, HeldIsKept DEF ExpireAt, At, Types
    <3>2. \A j \in Id : store[j] = None => store'[j] = None
      BY <2>7, <3>1, <2>i, <1>n DEF ExpireAt, Present, Types
    <3>3. \/ Moves(r, "setCookie", req[r].copy)
          \/ held[r] # None /\ Moves(r, "action", held[r])
      BY <2>7, <1>n, EveryMove DEF ExpireAt
    <3> QED BY <3>1, <3>2, <3>3, <2>g, <2>k, <2>s, <2>m
  <2>8. CASE Discard(r)
    <3>1. Moves(r, "clearCookie", req[r].copy) /\ req[r].pc = "discard" /\ UNCHANGED held
      BY <2>8, <1>n, EveryMove DEF Discard, At
    <3>2. \A j \in Id : /\ store'[j] = IF j = k THEN None ELSE store[j]
                        /\ revoked'[j] = IF j = k THEN "ended" ELSE revoked[j]
      BY <2>8, <3>1, <2>i, <1>n DEF Discard, Types
    <3>3. \A j \in Id : revoked'[j] = "ended" => store'[j] = None
      BY <3>2, <2>s
    <3> QED BY <3>1, <3>3, <2>g, <2>w, <2>m
  <2>9. CASE SetCookie(r)
    <3>1. /\ Moves(r, "idle", None) /\ req[r].pc = "setCookie"
          /\ cookie' = req[r].copy /\ UNCHANGED <<store, held, revoked>>
      BY <2>9, <1>n, EveryMove DEF SetCookie, At
    <3> QED BY <3>1, <2>g, <2>k, <2>s, <2>w, <2>m
  <2>10. CASE ClearCookie(r)
    <3>1. /\ Moves(r, "idle", None) /\ cookie' = None /\ req[r].pc = "clearCookie"
          /\ UNCHANGED <<store, held, revoked>>
      BY <2>10, <1>n, EveryMove DEF ClearCookie, At
    <3> QED BY <3>1, <2>g, <2>s, <2>w, <2>m
  <2> QED BY <1>3, <2>1, <2>e, <2>v, <2>3, <2>4, <2>5, <2>6, <2>7, <2>8, <2>9, <2>10
          DEF RequestStep, Abort
<1> QED BY <1>1, <1>2, <1>3 DEF AuthenticatorNext

(* When requests come one by one and none fails, what was discarded, or        *)
(* renewed in the answer, has no copy left, with any idle time, as soon as the *)
(* answer arrived.                                                             *)
THEOREM RevocationComplete == AuthenticatorSpec => []RevokedOpensNothing
<1>1. AloneInv => RevokedOpensNothing
  <2> SUFFICES ASSUME AloneInv, alone, \A r \in Request : req[r].pc = "idle",
                      NEW i \in Id, revoked[i] = "ended", NEW c \in Copies(i)
               PROVE  FALSE
    BY DEF RevokedOpensNothing, Usable, At
  <2>1. store[i] = None /\ IsCopy(i, c)
    BY CopiesAre DEF AloneInv, OneByOne
  <2>2. \A r \in Request : held[r] = None
    BY DEF AloneInv, CopiesSound, HeldSound
  <2>3. cookie # None /\ cookie.id = i
    BY <2>1, <2>2 DEF IsCopy, Present
  <2> QED BY <2>3 DEF AloneInv, OneByOne
<1> QED BY <1>1, AloneInit, AloneStep, PTL DEF AuthenticatorSpec
=============================================================================
