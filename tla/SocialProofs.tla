---------------------------- MODULE SocialProofs ----------------------------
(***************************************************************************)
(* Theorems about social sign-in beside the other account flows, for any   *)
(* number of requests, users, addresses, tokens and accounts at providers. *)
(***************************************************************************)
EXTENDS SocialAccounts, SignUpProofs, FlowProofs

-----------------------------------------------------------------------------
(* A step is one of one flow, or nobody's.                                    *)
ChangesAny(r) ==
    \/ Changes(r)
    \/ \E p \in Profile, e \in Email : SocialUpdateEmailRequest(r, p, e)
    \/ \E p \in Profile, t \in Token : SocialChangeEmail(r, p, t)

DeletesAny(r) ==
    \/ (DeleteArrives(r) \/ Archive(r) \/ DeleteAbort(r)) /\ UNCHANGED socialLogin
    \/ DeleteEveryLogin(r) \/ PurgeUnlinked(r) \/ PurgeLinked(r)

Socials(r) == SocialArrives(r) \/ SocialStep(r) \/ SocialAbort(r)

Nobodys ==
    /\ UNCHANGED <<user, loginInfo, superadmin, passwordInfo, su, ue, dl, sa, socialLogin, socialInfo>>
    /\ \/ \E t \in Token : TokenExpires(t) /\ UNCHANGED <<profileEmail, socialSession>>
       \/ \E e \in Email : SessionExpires(e) /\ UNCHANGED <<profileEmail, socialSession>>
       \/ scenario # "stays" /\ \E p \in Profile, e \in Email : ProfileMoves(p, e)
       \/ \E p \in Profile : SocialSessionExpires(p)
       \/ UNCHANGED <<store, profileEmail, socialSession>>

SignUpIdle == \A r \in SignUpRequest : su[r].pc = "idle"
EmailsIdle == \A r \in EmailRequest : ue[r].pc = "idle"
DeletesIdle == \A r \in DeleteRequest : dl[r].pc = "idle"
SocialsIdle == \A r \in SocialRequest : sa[r].pc = "idle"
AllIdle == SignUpIdle /\ EmailsIdle /\ DeletesIdle /\ SocialsIdle

(* Somebody is busy when some handler is not idle.                             *)
LEMMA BusyCounts == Busy \in Nat /\ (Busy = 0 => AllIdle)
<1> DEFINE S == {r \in SignUpRequest : su[r].pc # "idle"}
           E == {r \in EmailRequest : ue[r].pc # "idle"}
           D == {r \in DeleteRequest : dl[r].pc # "idle"}
           O == {r \in SocialRequest : sa[r].pc # "idle"}
<1>1. IsFiniteSet(S) /\ IsFiniteSet(E) /\ IsFiniteSet(D) /\ IsFiniteSet(O)
  <2>1. S \subseteq SignUpRequest /\ E \subseteq EmailRequest /\ D \subseteq DeleteRequest
        /\ O \subseteq SocialRequest
    OBVIOUS
  <2>2. IsFiniteSet(SignUpRequest) /\ IsFiniteSet(EmailRequest) /\ IsFiniteSet(DeleteRequest)
        /\ IsFiniteSet(SocialRequest)
    BY RequestsAssumption
  <2> HIDE DEF S, E, D, O
  <2> QED BY <2>1, <2>2, FS_Subset
<1>2. Busy = Cardinality(S) + Cardinality(E) + Cardinality(D) + Cardinality(O)
  BY DEF Busy
<1>3. S = {} /\ E = {} /\ D = {} /\ O = {} => AllIdle
  BY DEF AllIdle, SignUpIdle, EmailsIdle, DeletesIdle, SocialsIdle
<1> HIDE DEF S, E, D, O
<1>4. /\ Cardinality(S) \in Nat /\ (Cardinality(S) = 0 => S = {})
      /\ Cardinality(E) \in Nat /\ (Cardinality(E) = 0 => E = {})
      /\ Cardinality(D) \in Nat /\ (Cardinality(D) = 0 => D = {})
      /\ Cardinality(O) \in Nat /\ (Cardinality(O) = 0 => O = {})
  BY <1>1, FS_CardinalityType, FS_EmptySet
<1> DEFINE s == Cardinality(S)  e == Cardinality(E)  d == Cardinality(D)  o == Cardinality(O)
<1>5. /\ s \in Nat /\ e \in Nat /\ d \in Nat /\ o \in Nat /\ Busy = s + e + d + o
      /\ (s = 0 => S = {}) /\ (e = 0 => E = {}) /\ (d = 0 => D = {}) /\ (o = 0 => O = {})
  BY <1>2, <1>4
<1> HIDE DEF s, e, d, o
<1>6. Busy \in Nat /\ (Busy = 0 => s = 0 /\ e = 0 /\ d = 0 /\ o = 0)
  BY <1>5
<1> QED BY <1>3, <1>5, <1>6

Counted == failures' = failures \/ (failures < Bound[scenario].failures /\ failures' = failures + 1)

(* Which step it is. A request arrives when there is room for it; addresses    *)
(* and users change in histories of one kind only.                             *)
Room == Busy < Bound[scenario].busy

LEMMA Flows ==
    ASSUME [AllNext]_allVars
    PROVE  /\ UNCHANGED <<scenario, swallowing>> /\ Counted
           /\ \/ \E r \in SignUpRequest : /\ SignsUp(r) /\ OnlySignUp
                                          /\ su[r].pc = "idle" => Room
              \/ \E r \in EmailRequest : /\ ChangesAny(r) /\ OnlyEmail
                                         /\ ue[r].pc = "idle" => Room /\ scenario = "moves"
              \/ \E r \in DeleteRequest : /\ DeletesAny(r) /\ OnlyDelete
                                          /\ dl[r].pc = "idle" => Room /\ scenario = "moves"
              \/ \E r \in SocialRequest : /\ Socials(r) /\ OnlySocial
                                          /\ sa[r].pc = "idle" => Room
              \/ Nobodys
<1>1. CASE Arrival
  BY <1>1 DEF Arrival, SignsUp, ChangesAny, Changes, DeletesAny, Socials, fixed, Counted, Room
<1>2. CASE Call
  <2>1. ASSUME NEW r \in DeleteRequest,
               Archive(r) \/ DeleteEveryLogin(r) \/ PurgeUnlinked(r) \/ PurgeLinked(r)
        PROVE  dl[r].pc # "idle"
    BY <2>1 DEF Archive, DeleteEveryLogin, DeleteLogins, PurgeUnlinked, Purge, PurgeLinked, DeleteAt
  <2>2. ASSUME NEW r \in SocialRequest, SocialStep(r) PROVE sa[r].pc # "idle"
    BY <2>2 DEF SocialStep, SocialFindByEmail, SocialFindLogin, AddSocialUser, AddSocialLogin,
       SaveSocialInfo, OpenSocialSession, SocialAt
  <2>3. ASSUME NEW r \in SignUpRequest, SignUpStep(r) PROVE su[r].pc # "idle"
    BY <2>3 DEF SignUpStep, Retrieve, RetrieveUser, AddUser, AddLogin, AddPassword, MailLookup,
       SaveToken, ExpireToken, SendMail, OpenSession, Activate, CountActive, Grant, At
  <2> QED BY <1>2, <2>1, <2>2, <2>3, EmailCalls
          DEF Call, SignsUp, ChangesAny, Changes, DeletesAny, Socials, fixed, Counted
<1>3. CASE Failure
  BY <1>3 DEF Failure, SignsUp, ChangesAny, Changes, DeletesAny, Socials, fixed, Counted,
     EmailAbort, EmailAt, DeleteAbort, DeleteAt, Abort, At, SocialAbort, SocialAt
<1>4. CASE Outside
  BY <1>4 DEF Outside, Nobodys, OnlySignUp, OnlySocial, socialVars, store, postgres, TokenExpires,
     SessionExpires, ProfileMoves, SocialSessionExpires, fixed, Counted
<1>5. CASE UNCHANGED allVars
  BY <1>5 DEF allVars, Nobodys, store, socialVars, fixed, Counted
<1> QED BY <1>1, <1>2, <1>3, <1>4, <1>5 DEF AllNext

-----------------------------------------------------------------------------
(* The types, and what each handler needs for the calls still to come.        *)
TypesInv ==
    /\ SignUpTypeOK /\ EmailTypes /\ DeleteTypeOK /\ SocialTypeOK
    /\ scenario \in Scenario
    /\ failures \in 0..Bound[scenario].failures

LEMMA TypesInit == AllInit => TypesInv
<1>1. SocialInit => SocialTypeOK
  BY DEF SocialInit, SocialTypeOK, SocialIdle, SocialHandler, SocialLabels
<1>2. ASSUME scenario \in Scenario PROVE 0 \in 0..Bound[scenario].failures
  BY <1>2, BoundAssumption
<1>3. ASSUME AllInit PROVE SignUpInit
  BY <1>3, FaultsAssumption DEF AllInit
<1> QED BY <1>1, <1>2, <1>3, TypeInit, EmailTypesInit, DeleteTypesInit DEF AllInit, TypesInv

LEMMA TypesImply == TypesInv => AllTypeOK
BY DEF TypesInv, AllTypeOK, EmailTypes, EmailReady, EmailTypeOK, ChangeLabels

SocialReady(h) ==
    /\ h.pc # "idle" => h.profile \in Profile /\ h.email \in Email
    /\ h.pc = "addLogin" => h.user \in UserId

LEMMA SocialSet ==
    ASSUME SocialTypeOK, NEW r \in SocialRequest, NEW h \in SocialHandler, SocialReady(h),
           sa' = [sa EXCEPT ![r] = h]
    PROVE  /\ sa' \in [SocialRequest -> SocialHandler]
           /\ \A q \in SocialRequest : SocialReady(sa'[q])
BY DEF SocialTypeOK, SocialReady

LEMMA SocialStepTypes ==
    ASSUME StoreTypeOK, SocialTypeOK, NEW r \in SocialRequest, Socials(r)
    PROVE  StoreTypeOK' /\ SocialTypeOK'
<1> DEFINE Handlers == /\ sa' \in [SocialRequest -> SocialHandler]
                       /\ \A q \in SocialRequest : SocialReady(sa'[q])
<1>h. /\ sa \in [SocialRequest -> SocialHandler] /\ sa[r] \in SocialHandler
      /\ SocialReady(sa[r])
  BY DEF SocialTypeOK, SocialReady
<1>t. /\ profileEmail \in [Profile -> Email \cup {Nil}]
      /\ socialLogin \in [Profile -> UserId \cup {Nil}]
      /\ socialInfo \subseteq Profile /\ socialSession \subseteq Profile
  BY DEF SocialTypeOK
<1>a. ASSUME SocialAnswer(r) PROVE Handlers
  <2>1. SocialIdle \in SocialHandler /\ SocialReady(SocialIdle)
    BY DEF SocialIdle, SocialHandler, SocialLabels, SocialReady
  <2> QED BY <1>a, <2>1, SocialSet DEF SocialAnswer
<1>g. ASSUME NEW l \in {"addUser", "saveInfo", "openSession"}, SocialGoto(r, l),
             sa[r].pc # "idle"
      PROVE  Handlers
  <2>1. [sa[r] EXCEPT !.pc = l] \in SocialHandler /\ SocialReady([sa[r] EXCEPT !.pc = l])
    BY <1>h, <1>g DEF SocialHandler, SocialLabels, SocialReady
  <2>2. sa' = [sa EXCEPT ![r] = [sa[r] EXCEPT !.pc = l]]
    BY <1>h, <1>g DEF SocialGoto
  <2> QED BY <2>1, <2>2, SocialSet
<1>l. ASSUME NEW u \in UserId, SocialLinks(r, u), sa[r].pc # "idle" PROVE Handlers
  <2>1. /\ [sa[r] EXCEPT !.pc = "addLogin", !.user = u] \in SocialHandler
        /\ SocialReady([sa[r] EXCEPT !.pc = "addLogin", !.user = u])
    BY <1>h, <1>l DEF SocialHandler, SocialLabels, SocialReady
  <2>2. sa' = [sa EXCEPT ![r] = [sa[r] EXCEPT !.pc = "addLogin", !.user = u]]
    BY <1>h, <1>l DEF SocialLinks
  <2> QED BY <2>1, <2>2, SocialSet
<1>o. Handlers /\ UNCHANGED socialStore => SocialTypeOK'
  BY <1>t DEF socialStore, SocialTypeOK, SocialReady
<1>1. ASSUME NEW p \in Profile, Authenticate(r, p) PROVE StoreTypeOK' /\ SocialTypeOK'
  <2> DEFINE h == [SocialIdle EXCEPT !.pc = "findEmail", !.profile = p, !.email = profileEmail[p]]
  <2>1. h \in SocialHandler /\ SocialReady(h)
    BY <1>1, <1>t DEF Authenticate, SocialIdle, SocialHandler, SocialLabels, SocialReady
  <2>2. Handlers
    BY <1>1, <2>1, SocialSet DEF Authenticate
  <2> QED BY <1>1, <1>o, <2>2, SameStore DEF Authenticate
<1>2. CASE SocialFindByEmail(r)
  <2>1. PICK u \in UserId \cup {Nil} : sa' = [sa EXCEPT ![r] = [@ EXCEPT !.pc = "findLogin", !.found = u]]
    BY <1>2 DEF SocialFindByEmail, FindByEmail
  <2> DEFINE h == [sa[r] EXCEPT !.pc = "findLogin", !.found = u]
  <2>2. h \in SocialHandler /\ SocialReady(h)
    BY <1>2, <1>h DEF SocialFindByEmail, SocialAt, SocialHandler, SocialLabels, SocialReady
  <2>3. sa' = [sa EXCEPT ![r] = h]
    BY <2>1, <1>h
  <2>4. Handlers
    BY <2>2, <2>3, SocialSet
  <2> QED BY <1>2, <1>o, <2>4, SameStore DEF SocialFindByEmail
<1>3. CASE SocialFindLogin(r)
  <2>1. sa[r].found # Nil => sa[r].found \in UserId
    BY <1>h DEF SocialHandler
  <2>2. Handlers
    BY <1>3, <1>a, <1>g, <1>l, <2>1 DEF SocialFindLogin, SocialAt
  <2> QED BY <1>3, <1>o, <2>2, SameStore DEF SocialFindLogin
<1>4. CASE AddSocialUser(r)
  <2>1. PICK u \in UserId : /\ user' = [UserAdded(u, sa[r].email) EXCEPT ![u].active = TRUE]
                            /\ SocialLinks(r, u)
    BY <1>4 DEF AddSocialUser
  <2>2. sa[r].email \in Email /\ sa[r].pc # "idle"
    BY <1>4, <1>h DEF AddSocialUser, SocialAt, SocialReady
  <2>3. user' \in [UserId -> UserRow]
    BY <2>1, <2>2 DEF StoreTypeOK, UserAdded, UserRow
  <2>4. StoreTypeOK'
    BY <1>4, <2>3 DEF AddSocialUser, StoreTypeOK, redis
  <2> QED BY <1>4, <1>l, <1>o, <2>1, <2>2, <2>4 DEF AddSocialUser
<1>5. CASE AddSocialLogin(r)
  <2>1. sa[r].pc # "idle" /\ sa[r].profile \in Profile /\ sa[r].user \in UserId
    BY <1>5, <1>h DEF AddSocialLogin, SocialAt, SocialReady
  <2>2. Handlers
    BY <1>5, <1>a, <1>g, <2>1 DEF AddSocialLogin
  <2>3. socialLogin' \in [Profile -> UserId \cup {Nil}]
    BY <1>5, <1>t, <2>1 DEF AddSocialLogin
  <2> QED BY <1>5, <1>t, <2>2, <2>3, SameStore DEF AddSocialLogin, SocialTypeOK, SocialReady
<1>6. CASE SaveSocialInfo(r)
  <2>1. sa[r].pc # "idle" /\ sa[r].profile \in Profile
    BY <1>6, <1>h DEF SaveSocialInfo, SocialAt, SocialReady
  <2>2. Handlers
    BY <1>6, <1>g, <2>1 DEF SaveSocialInfo
  <2> QED BY <1>6, <1>t, <2>1, <2>2, SameStore DEF SaveSocialInfo, SocialTypeOK, SocialReady
<1>7. CASE OpenSocialSession(r)
  <2>1. sa[r].profile \in Profile
    BY <1>7, <1>h DEF OpenSocialSession, SocialAt, SocialReady
  <2>2. Handlers
    BY <1>7, <1>a DEF OpenSocialSession
  <2> QED BY <1>7, <1>t, <2>1, <2>2, SameStore DEF OpenSocialSession, SocialTypeOK, SocialReady
<1>8. CASE SocialAbort(r)
  BY <1>8, <1>a, <1>o, SameStore DEF SocialAbort
<1> QED BY <1>1, <1>2, <1>3, <1>4, <1>5, <1>6, <1>7, <1>8 DEF Socials, SocialArrives, SocialStep

LEMMA EmailAnyTypes ==
    ASSUME StoreTypeOK, EmailTypes, SocialTypeOK, NEW r \in EmailRequest, ChangesAny(r)
    PROVE  StoreTypeOK' /\ EmailTypes'
<1>s. ASSUME NEW p \in Profile, SocialSignedIn(p)
      PROVE  socialLogin[p] \in UserId
  BY <1>s DEF SocialSignedIn, SocialTypeOK
<1>1. ASSUME NEW p \in Profile, NEW n \in Email, SocialUpdateEmailRequest(r, p, n)
      PROVE  StoreTypeOK' /\ EmailTypes'
  <2> DEFINE h == [EmailIdle EXCEPT !.pc = "retrieveUser", !.op = "request", !.id = socialLogin[p],
                                    !.new = n, !.login = socialLogin[p]]
  <2>1. h \in EmailHandler /\ EmailReady(h)
    BY <1>1, <1>s DEF SocialUpdateEmailRequest, EmailIdle, EmailHandler, EmailLabels, EmailReady,
       ChangeLabels
  <2> QED BY <1>1, <2>1, EmailSet, SameStore DEF SocialUpdateEmailRequest
<1>2. ASSUME NEW p \in Profile, NEW t \in Token, SocialChangeEmail(r, p, t)
      PROVE  StoreTypeOK' /\ EmailTypes'
  <2> DEFINE h == [EmailIdle EXCEPT !.pc = "retrieveUser", !.op = "change", !.id = socialLogin[p],
                                    !.token = t, !.login = socialLogin[p]]
  <2>1. h \in EmailHandler /\ EmailReady(h)
    BY <1>2, <1>s DEF SocialChangeEmail, EmailIdle, EmailHandler, EmailLabels, EmailReady,
       ChangeLabels
  <2> QED BY <1>2, <2>1, EmailSet, SameStore DEF SocialChangeEmail
<1> QED BY <1>1, <1>2, EmailStepTypes DEF ChangesAny

LEMMA DeleteAnyTypes ==
    ASSUME StoreTypeOK, DeleteTypeOK, SocialTypeOK, NEW r \in DeleteRequest, DeletesAny(r),
           OnlyDelete
    PROVE  StoreTypeOK' /\ DeleteTypeOK' /\ SocialTypeOK'
<1>1. CASE (DeleteArrives(r) \/ Archive(r) \/ DeleteAbort(r)) /\ UNCHANGED socialLogin
  BY <1>1, DeleteTypes DEF Deletes, DeleteStep, OnlyDelete, SocialTypeOK
<1>2. CASE DeleteEveryLogin(r)
  <2>1. DeleteLogins(r) /\ socialLogin' \in [Profile -> UserId \cup {Nil}]
    BY <1>2 DEF DeleteEveryLogin, SocialTypeOK
  <2> QED BY <2>1, DeleteTypes DEF Deletes, DeleteStep, OnlyDelete, SocialTypeOK
<1>3. CASE PurgeUnlinked(r)
  BY <1>3, DeleteTypes DEF PurgeUnlinked, Deletes, DeleteStep, OnlyDelete, SocialTypeOK
<1>4. CASE PurgeLinked(r)
  <2>1. DeleteTypeOK'
    BY <1>4 DEF PurgeLinked, DeleteTypeOK, DeleteHandler, DeleteLabels, DeleteIdle, DeleteAnswer
  <2> QED BY <1>4, <2>1, SameStore DEF PurgeLinked, OnlyDelete, SocialTypeOK
<1> QED BY <1>1, <1>2, <1>3, <1>4 DEF DeletesAny

LEMMA SignUpTypes ==
    ASSUME SignUpTypeOK, UNCHANGED swallowing, NEW r \in SignUpRequest, SignsUp(r)
    PROVE  SignUpTypeOK'
<1>1. SignUpNext
  BY DEF SignsUp, SignUpNext
<1> QED BY <1>1, TypeStep

LEMMA NobodysTypes ==
    ASSUME StoreTypeOK, SocialTypeOK, Nobodys
    PROVE  StoreTypeOK' /\ SocialTypeOK'
<1>s. profileEmail' \in [Profile -> Email \cup {Nil}] /\ socialSession' \subseteq Profile
      => SocialTypeOK'
  BY DEF SocialTypeOK, Nobodys
<1>1. ASSUME NEW t \in Token, TokenExpires(t), UNCHANGED <<profileEmail, socialSession>>
      PROVE  StoreTypeOK' /\ SocialTypeOK'
  BY <1>1, <1>s, TokenTypes DEF TokenExpires, SocialTypeOK
<1>2. ASSUME NEW e \in Email, SessionExpires(e), UNCHANGED <<profileEmail, socialSession>>
      PROVE  StoreTypeOK' /\ SocialTypeOK'
  BY <1>2, <1>s DEF SessionExpires, SocialTypeOK, StoreTypeOK, postgres
<1>3. ASSUME NEW p \in Profile, NEW e \in Email, ProfileMoves(p, e)
      PROVE  StoreTypeOK' /\ SocialTypeOK'
  BY <1>3, <1>s, SameStore DEF ProfileMoves, SocialTypeOK
<1>4. ASSUME NEW p \in Profile, SocialSessionExpires(p) PROVE StoreTypeOK' /\ SocialTypeOK'
  BY <1>4, <1>s, SameStore DEF SocialSessionExpires, SocialTypeOK
<1>5. CASE UNCHANGED <<store, profileEmail, socialSession>>
  BY <1>5, <1>s, SameStore DEF SocialTypeOK
<1> QED BY <1>1, <1>2, <1>3, <1>4, <1>5 DEF Nobodys

LEMMA TypesStep == TypesInv /\ [AllNext]_allVars => TypesInv'
<1> SUFFICES ASSUME TypesInv, [AllNext]_allVars PROVE TypesInv'
  OBVIOUS
<1>t. SignUpTypeOK /\ StoreTypeOK /\ EmailTypes /\ DeleteTypeOK /\ SocialTypeOK
  BY DEF TypesInv, SignUpTypeOK
<1>u. UNCHANGED <<scenario, swallowing>> /\ Counted
  BY Flows
<1>f. scenario' \in Scenario /\ failures' \in 0..Bound[scenario'].failures
  <2>1. scenario \in Scenario /\ failures \in 0..Bound[scenario].failures
    BY DEF TypesInv
  <2>2. Bound[scenario].failures \in Nat
    BY <2>1, BoundAssumption
  <2> QED BY <1>u, <2>1, <2>2 DEF Counted
<1>s. UNCHANGED su /\ StoreTypeOK' => SignUpTypeOK'
  BY <1>t, <1>u DEF SignUpTypeOK
<1>e. UNCHANGED ue => EmailTypes'
  BY <1>t DEF EmailTypes
<1>d. UNCHANGED dl => DeleteTypeOK'
  BY <1>t DEF DeleteTypeOK
<1>o. UNCHANGED socialVars => SocialTypeOK'
  BY <1>t DEF SocialTypeOK, socialVars
<1>1. ASSUME NEW r \in SignUpRequest, SignsUp(r), OnlySignUp PROVE TypesInv'
  BY <1>1, <1>t, <1>u, <1>f, <1>e, <1>d, <1>o, SignUpTypes DEF OnlySignUp, TypesInv
<1>2. ASSUME NEW r \in EmailRequest, ChangesAny(r), OnlyEmail PROVE TypesInv'
  BY <1>2, <1>t, <1>f, <1>s, <1>d, <1>o, EmailAnyTypes DEF OnlyEmail, TypesInv
<1>3. ASSUME NEW r \in DeleteRequest, DeletesAny(r), OnlyDelete PROVE TypesInv'
  <2>1. StoreTypeOK' /\ DeleteTypeOK' /\ SocialTypeOK'
    BY <1>3, <1>t, DeleteAnyTypes
  <2>2. UNCHANGED su /\ UNCHANGED ue
    BY <1>3 DEF OnlyDelete
  <2> QED BY <1>f, <1>s, <1>e, <2>1, <2>2 DEF TypesInv
<1>4. ASSUME NEW r \in SocialRequest, Socials(r), OnlySocial PROVE TypesInv'
  BY <1>4, <1>t, <1>f, <1>s, <1>e, <1>d, SocialStepTypes DEF OnlySocial, TypesInv
<1>5. CASE Nobodys
  <2>1. UNCHANGED su /\ UNCHANGED ue /\ UNCHANGED dl
    BY <1>5 DEF Nobodys
  <2> QED BY <1>5, <1>t, <1>f, <1>s, <1>e, <1>d, <2>1, NobodysTypes DEF TypesInv
<1> QED BY <1>1, <1>2, <1>3, <1>4, <1>5, Flows

(* The state is well formed in every reachable state, whatever overlaps, fails *)
(* or is swallowed: a social sign-in never links an account without having     *)
(* found or added a user (AccountService.createOrRetrieve).                    *)
THEOREM SocialTypeCorrect == AllSpec => []AllTypeOK
BY TypesInit, TypesStep, TypesImply, PTL DEF AllSpec

-----------------------------------------------------------------------------
(* Who is served                                                              *)
(* Addresses change and users go in histories of one kind.                     *)
NobodyMoves == scenario # "moves" => EmailsIdle /\ DeletesIdle

(* Requests that do not overlap: who is served is the only one.                *)
SignUpAlone(r) ==
    /\ \A q \in SignUpRequest : q # r => su[q].pc = "idle"
    /\ EmailsIdle /\ DeletesIdle /\ SocialsIdle
EmailAlone(r) ==
    /\ \A q \in EmailRequest : q # r => ue[q].pc = "idle"
    /\ SignUpIdle /\ DeletesIdle /\ SocialsIdle
DeleteAlone(r) ==
    /\ \A q \in DeleteRequest : q # r => dl[q].pc = "idle"
    /\ SignUpIdle /\ EmailsIdle /\ SocialsIdle
SocialAlone(r) ==
    /\ \A q \in SocialRequest : q # r => sa[q].pc = "idle"
    /\ SignUpIdle /\ EmailsIdle /\ DeletesIdle

OneServed ==
    \/ AllIdle
    \/ \E r \in SignUpRequest : SignUpAlone(r)
    \/ \E r \in EmailRequest : EmailAlone(r)
    \/ \E r \in DeleteRequest : DeleteAlone(r)
    \/ \E r \in SocialRequest : SocialAlone(r)

OneAtATime == scenario # "overlap" => OneServed

LEMMA SignUpOwn ==
    ASSUME SignUpTypeOK, UNCHANGED swallowing, NEW r \in SignUpRequest, SignsUp(r),
           NEW q \in SignUpRequest, q # r
    PROVE  su'[q] = su[q]
<1>1. ASSUME NEW h, su' = [su EXCEPT ![r] = h] PROVE su'[q] = su[q]
  BY <1>1 DEF SignUpTypeOK
<1>2. CASE SignUpArrives(r)
  BY <1>1, <1>2 DEF SignUpArrives, Subscribe, Resend, Confirm
<1>3. CASE SignUpStep(r)
  BY <1>1, <1>3
  DEF SignUpStep, Retrieve, RetrieveUser, AddUser, AddLogin, AddPassword, MailLookup,
      SaveToken, ExpireToken, SendMail, OpenSession, Activate, CountActive, Grant, Goto, Answer
<1>4. CASE Abort(r)
  BY <1>1, <1>4 DEF Abort, Answer
<1> QED BY <1>2, <1>3, <1>4 DEF SignsUp

LEMMA EmailOwn ==
    ASSUME EmailTypes, NEW r \in EmailRequest, ChangesAny(r), NEW q \in EmailRequest, q # r
    PROVE  ue'[q] = ue[q]
<1>1. ASSUME NEW h, ue' = [ue EXCEPT ![r] = h] PROVE ue'[q] = ue[q]
  BY <1>1 DEF EmailTypes
<1> USE DEF EmailGoto, EmailAnswer
<1>2. CASE EmailArrives(r) \/ EmailAbort(r)
  BY <1>1, <1>2 DEF EmailArrives, EmailAbort, UpdateEmailRequest, ChangeEmail
<1>3. ASSUME (\E p \in Profile, e \in Email : SocialUpdateEmailRequest(r, p, e))
             \/ \E p \in Profile, t \in Token : SocialChangeEmail(r, p, t)
      PROVE  ue'[q] = ue[q]
  BY <1>1, <1>3 DEF SocialUpdateEmailRequest, SocialChangeEmail
<1>4. CASE EmailStep(r)
  BY <1>1, <1>4
  DEF EmailStep, RetrieveActor, RetrieveToken, CheckEmailIsFree, EmailFindUser, SaveEmailToken,
      ExpireEmailToken, SendEmailMail, ReadRow, WriteRow, ReadLogin, WriteLogin, ReadPassword,
      MovePassword, RemovePassword, DeleteEmailToken
<1> QED BY <1>2, <1>3, <1>4 DEF ChangesAny, Changes

LEMMA DeleteOwn ==
    ASSUME DeleteTypeOK, NEW r \in DeleteRequest, DeletesAny(r), NEW q \in DeleteRequest, q # r
    PROVE  dl'[q] = dl[q]
<1>1. ASSUME NEW h, dl' = [dl EXCEPT ![r] = h] PROVE dl'[q] = dl[q]
  BY <1>1 DEF DeleteTypeOK
<1> QED BY <1>1
        DEF DeletesAny, DeleteArrives, Delete, DeleteFinds, Archive, DeleteAbort, DeleteEveryLogin,
            DeleteLogins, PurgeUnlinked, Purge, PurgeLinked, DeleteAnswer

LEMMA SocialOwn ==
    ASSUME SocialTypeOK, NEW r \in SocialRequest, Socials(r), NEW q \in SocialRequest, q # r
    PROVE  sa'[q] = sa[q]
<1>1. ASSUME NEW h, sa' = [sa EXCEPT ![r] = h] PROVE sa'[q] = sa[q]
  BY <1>1 DEF SocialTypeOK
<1> QED BY <1>1
        DEF Socials, SocialArrives, Authenticate, SocialStep, SocialFindByEmail, SocialFindLogin,
            AddSocialUser, AddSocialLogin, SaveSocialInfo, OpenSocialSession, SocialAbort,
            SocialGoto, SocialLinks, SocialAnswer

(* Whoever makes a step was served alone, and still is: it was served already,  *)
(* or it arrives when nobody is.                                               *)
LEMMA ServedAlone ==
    ASSUME Bound[scenario].busy = 1, TypesInv, OneServed, [AllNext]_allVars
    PROVE  \/ \E r \in SignUpRequest : /\ SignsUp(r) /\ OnlySignUp
                                       /\ SignUpAlone(r) /\ SignUpAlone(r)'
           \/ \E r \in EmailRequest : /\ ChangesAny(r) /\ OnlyEmail
                                      /\ EmailAlone(r) /\ EmailAlone(r)'
                                      /\ ue[r].pc = "idle" => scenario = "moves"
           \/ \E r \in DeleteRequest : /\ DeletesAny(r) /\ OnlyDelete
                                       /\ DeleteAlone(r) /\ DeleteAlone(r)'
                                       /\ dl[r].pc = "idle" => scenario = "moves"
           \/ \E r \in SocialRequest : /\ Socials(r) /\ OnlySocial
                                       /\ SocialAlone(r) /\ SocialAlone(r)'
           \/ Nobodys
<1>i. Room => AllIdle
  <2>1. Busy < 1 => Busy = 0
    BY BusyCounts
  <2> QED BY <2>1, BusyCounts DEF Room
<1> USE DEF OneServed, AllIdle, SignUpIdle, EmailsIdle, DeletesIdle, SocialsIdle, SignUpAlone,
            EmailAlone, DeleteAlone, SocialAlone
<1>t. SignUpTypeOK /\ EmailTypes /\ DeleteTypeOK /\ SocialTypeOK
  BY DEF TypesInv
<1>u. UNCHANGED swallowing
  BY Flows
<1>1. ASSUME NEW r \in SignUpRequest, SignsUp(r), OnlySignUp, su[r].pc = "idle" => Room
      PROVE  SignUpAlone(r) /\ SignUpAlone(r)'
  <2>1. SignUpAlone(r)
    BY <1>1, <1>i
  <2>2. \A q \in SignUpRequest : q # r => su'[q] = su[q]
    BY <1>1, <1>t, <1>u, SignUpOwn
  <2> QED BY <1>1, <2>1, <2>2 DEF OnlySignUp, socialVars
<1>2. ASSUME NEW r \in EmailRequest, ChangesAny(r), OnlyEmail, ue[r].pc = "idle" => Room
      PROVE  EmailAlone(r) /\ EmailAlone(r)'
  <2>1. EmailAlone(r)
    BY <1>2, <1>i
  <2>2. \A q \in EmailRequest : q # r => ue'[q] = ue[q]
    BY <1>2, <1>t, EmailOwn
  <2> QED BY <1>2, <2>1, <2>2 DEF OnlyEmail, socialVars
<1>3. ASSUME NEW r \in DeleteRequest, DeletesAny(r), OnlyDelete, dl[r].pc = "idle" => Room
      PROVE  DeleteAlone(r) /\ DeleteAlone(r)'
  <2>1. DeleteAlone(r)
    BY <1>3, <1>i
  <2>2. \A q \in DeleteRequest : q # r => dl'[q] = dl[q]
    BY <1>3, <1>t, DeleteOwn
  <2> QED BY <1>3, <2>1, <2>2 DEF OnlyDelete
<1>4. ASSUME NEW r \in SocialRequest, Socials(r), OnlySocial, sa[r].pc = "idle" => Room
      PROVE  SocialAlone(r) /\ SocialAlone(r)'
  <2>1. SocialAlone(r)
    BY <1>4, <1>i
  <2>2. \A q \in SocialRequest : q # r => sa'[q] = sa[q]
    BY <1>4, <1>t, SocialOwn
  <2> QED BY <1>4, <2>1, <2>2 DEF OnlySocial
<1> QED BY <1>1, <1>2, <1>3, <1>4, Flows

(* The bounds of the run: in two kinds of history requests do not overlap.     *)
Serially == Bound["moves"].busy = 1 /\ Bound["stays"].busy = 1

ServedInv == NobodyMoves /\ OneAtATime

LEMMA ServedInit == AllInit => ServedInv
BY DEF AllInit, SignUpInit, EmailInit, DeleteInit, SocialInit, Idle, EmailIdle, DeleteIdle,
   SocialIdle, ServedInv, NobodyMoves, OneAtATime, OneServed, AllIdle, SignUpIdle, EmailsIdle,
   DeletesIdle, SocialsIdle

LEMMA ServedStep ==
    ASSUME Serially
    PROVE  TypesInv /\ ServedInv /\ [AllNext]_allVars => ServedInv'
<1> SUFFICES ASSUME TypesInv, ServedInv, [AllNext]_allVars PROVE ServedInv'
  OBVIOUS
<1>u. UNCHANGED <<scenario, swallowing>>
  BY Flows
<1>1. NobodyMoves'
  <2>1. CASE scenario = "moves"
    BY <1>u, <2>1 DEF NobodyMoves
  <2>2. CASE scenario # "moves"
    <3>1. EmailsIdle /\ DeletesIdle
      BY <2>2 DEF ServedInv, NobodyMoves
    <3>2. UNCHANGED <<ue, dl>>
      BY <2>2, <3>1, Flows DEF EmailsIdle, DeletesIdle, OnlySignUp, OnlySocial, Nobodys
    <3> QED BY <3>1, <3>2 DEF NobodyMoves, EmailsIdle, DeletesIdle
  <2> QED BY <2>1, <2>2
<1>2. OneAtATime'
  <2>1. CASE scenario = "overlap"
    BY <1>u, <2>1 DEF OneAtATime
  <2>2. CASE scenario # "overlap"
    <3>1. OneServed
      BY <2>2 DEF ServedInv, OneAtATime
    <3>2. Bound[scenario].busy = 1
      BY <2>2 DEF TypesInv, Scenario, Serially
    <3>3. Nobodys => OneServed'
      BY <3>1 DEF Nobodys, OneServed, AllIdle, SignUpIdle, EmailsIdle, DeletesIdle, SocialsIdle,
         SignUpAlone, EmailAlone, DeleteAlone, SocialAlone
    <3>4. OneServed'
      BY <3>1, <3>2, <3>3, ServedAlone DEF OneServed
    <3> QED BY <3>4 DEF OneAtATime
  <2> QED BY <2>1, <2>2
<1> QED BY <1>1, <1>2 DEF ServedInv

(* The same with what is known in each kind of history.                        *)
LEMMA ServedFlows ==
    ASSUME Serially, TypesInv, ServedInv, [AllNext]_allVars
    PROVE  \/ \E r \in SignUpRequest : /\ SignsUp(r) /\ OnlySignUp
                                       /\ scenario # "overlap" => SignUpAlone(r) /\ SignUpAlone(r)'
           \/ \E r \in EmailRequest : /\ ChangesAny(r) /\ OnlyEmail /\ scenario = "moves"
                                      /\ EmailAlone(r) /\ EmailAlone(r)'
           \/ \E r \in DeleteRequest : /\ DeletesAny(r) /\ OnlyDelete /\ scenario = "moves"
                                       /\ DeleteAlone(r) /\ DeleteAlone(r)'
           \/ \E r \in SocialRequest : /\ Socials(r) /\ OnlySocial
                                       /\ scenario # "overlap" => SocialAlone(r) /\ SocialAlone(r)'
           \/ Nobodys
<1>1. scenario # "moves" => EmailsIdle /\ DeletesIdle
  BY DEF ServedInv, NobodyMoves
<1>2. CASE scenario = "overlap"
  BY <1>1, <1>2, Flows DEF EmailsIdle, DeletesIdle
<1>3. CASE scenario # "overlap"
  <2>1. OneServed /\ Bound[scenario].busy = 1
    BY <1>3 DEF ServedInv, OneAtATime, TypesInv, Scenario, Serially
  <2> QED BY <1>1, <1>3, <2>1, ServedAlone DEF EmailsIdle, DeletesIdle
<1> QED BY <1>2, <1>3

-----------------------------------------------------------------------------
(* What a step does to the rows, and to the handler of a social sign-in       *)
(* What a signed-in user of a provider asks for starts a change of address as   *)
(* any other does.                                                             *)
LEMMA EmailAddresses ==
    ASSUME StoreTypeOK, EmailTypes, NEW r \in EmailRequest, ChangesAny(r)
    PROVE  Changes(r) \/ (UNCHANGED user /\ ue'[r].pc = "retrieveUser")
<1>t. ue \in [EmailRequest -> EmailHandler]
  BY DEF EmailTypes
<1>1. ASSUME NEW p \in Profile, NEW e \in Email, SocialUpdateEmailRequest(r, p, e)
      PROVE  UNCHANGED user /\ ue'[r].pc = "retrieveUser"
  BY <1>t, <1>1 DEF SocialUpdateEmailRequest, EmailIdle, store, postgres
<1>2. ASSUME NEW p \in Profile, NEW t \in Token, SocialChangeEmail(r, p, t)
      PROVE  UNCHANGED user /\ ue'[r].pc = "retrieveUser"
  BY <1>t, <1>2 DEF SocialChangeEmail, EmailIdle, store, postgres
<1> QED BY <1>1, <1>2 DEF ChangesAny

LEMMA DeleteRows ==
    ASSUME StoreTypeOK, DeleteTypeOK, NEW r \in DeleteRequest, DeletesAny(r), NEW u \in UserId
    PROVE  /\ user'[u].email = user[u].email
           /\ user'[u].row = "live" => user[u].row = "live"
           /\ user[u].row # "never" => user'[u].row # "never"
<1>1. UNCHANGED user \/ Archive(r) \/ Purge(r)
  BY DEF DeletesAny, DeleteArrives, Delete, DeleteAbort, DeleteEveryLogin, DeleteLogins,
     PurgeUnlinked, PurgeLinked, store, postgres
<1> QED BY <1>1, RowsDeleted

SocialKept(r) == sa'[r].profile = sa[r].profile /\ sa'[r].email = sa[r].email

LEMMA SocialAfter ==
    ASSUME StoreTypeOK, SocialTypeOK, NEW r \in SocialRequest, Socials(r)
    PROVE  \/ sa'[r].pc = "idle" /\ UNCHANGED <<user, socialLogin>>
           \/ /\ sa'[r].pc = "findEmail" /\ UNCHANGED <<user, socialLogin>>
              /\ sa'[r].email = profileEmail[sa'[r].profile]
           \/ /\ sa[r].pc = "findEmail" /\ sa'[r].pc = "findLogin"
              /\ SocialKept(r) /\ UNCHANGED <<user, socialLogin>>
              /\ \/ sa'[r].found \in FindByEmail(sa[r].email)
                 \/ sa'[r].found = Nil /\ FindByEmail(sa[r].email) = {}
           \/ /\ sa[r].pc = "findLogin" /\ SocialKept(r) /\ UNCHANGED <<user, socialLogin>>
              /\ \/ /\ sa'[r].pc = "saveInfo"
                    /\ sa[r].found # Nil /\ socialLogin[sa[r].profile] = sa[r].found
                 \/ sa'[r].pc = "addLogin" /\ sa[r].found # Nil /\ sa'[r].user = sa[r].found
                 \/ sa'[r].pc = "addUser" /\ sa[r].found = Nil
           \/ /\ sa[r].pc = "addUser" /\ sa'[r].pc = "addLogin"
              /\ SocialKept(r) /\ UNCHANGED socialLogin
              /\ \E u \in UserId : /\ user[u].row = "never" /\ sa'[r].user = u
                                   /\ user'[u].row = "live" /\ user'[u].email = sa[r].email
                                   /\ \A v \in UserId : v # u => user'[v] = user[v]
           \/ /\ sa[r].pc = "addLogin" /\ sa'[r].pc = "saveInfo"
              /\ SocialKept(r) /\ UNCHANGED user
              /\ socialLogin[sa[r].profile] = Nil
              /\ socialLogin' = [socialLogin EXCEPT ![sa[r].profile] = sa[r].user]
           \/ /\ sa[r].pc = "saveInfo" /\ sa'[r].pc = "openSession"
              /\ SocialKept(r) /\ UNCHANGED <<user, socialLogin>>
<1>h. sa \in [SocialRequest -> SocialHandler] /\ user \in [UserId -> UserRow]
  BY DEF SocialTypeOK, StoreTypeOK
<1>a. SocialAnswer(r) => sa'[r].pc = "idle"
  BY <1>h DEF SocialAnswer, SocialIdle
<1>g. ASSUME NEW l, SocialGoto(r, l) PROVE sa'[r].pc = l /\ SocialKept(r)
  BY <1>h, <1>g DEF SocialGoto, SocialKept, SocialHandler
<1>l. ASSUME NEW u, SocialLinks(r, u)
      PROVE  sa'[r].pc = "addLogin" /\ sa'[r].user = u /\ SocialKept(r)
  BY <1>h, <1>l DEF SocialLinks, SocialKept, SocialHandler
<1> USE DEF SocialAt, store, postgres, socialStore
<1>1. ASSUME NEW p \in Profile, Authenticate(r, p)
      PROVE  sa'[r].pc = "findEmail" /\ sa'[r].email = profileEmail[sa'[r].profile]
  BY <1>h, <1>1 DEF Authenticate, SocialIdle
<1>2. CASE SocialFindByEmail(r)
  <2>1. PICK u \in IF FindByEmail(sa[r].email) = {} THEN {Nil} ELSE FindByEmail(sa[r].email) :
          sa' = [sa EXCEPT ![r] = [@ EXCEPT !.pc = "findLogin", !.found = u]]
    BY <1>2 DEF SocialFindByEmail
  <2>2. sa'[r].pc = "findLogin" /\ sa'[r].found = u /\ SocialKept(r)
    BY <1>h, <2>1 DEF SocialKept, SocialHandler
  <2> QED BY <1>2, <2>2 DEF SocialFindByEmail
<1>3. CASE SocialFindLogin(r)
  BY <1>3, <1>a, <1>g, <1>l DEF SocialFindLogin
<1>4. CASE AddSocialUser(r)
  <2>1. PICK u \in UserId : /\ user[u].row = "never"
                            /\ user' = [UserAdded(u, sa[r].email) EXCEPT ![u].active = TRUE]
                            /\ SocialLinks(r, u)
    BY <1>4 DEF AddSocialUser
  <2>2. /\ user'[u].row = "live" /\ user'[u].email = sa[r].email
        /\ \A v \in UserId : v # u => user'[v] = user[v]
    BY <1>h, <2>1 DEF UserAdded
  <2> QED BY <1>4, <1>l, <2>1, <2>2 DEF AddSocialUser
<1>5. CASE AddSocialLogin(r)
  BY <1>5, <1>a, <1>g DEF AddSocialLogin
<1>6. CASE SaveSocialInfo(r)
  BY <1>6, <1>g DEF SaveSocialInfo
<1>7. CASE OpenSocialSession(r)
  BY <1>7, <1>a DEF OpenSocialSession
<1>8. CASE SocialAbort(r)
  BY <1>8, <1>a DEF SocialAbort
<1>9. \A p \in Profile : Authenticate(r, p) => UNCHANGED <<user, socialLogin>>
  BY DEF Authenticate
<1> QED BY <1>1, <1>2, <1>3, <1>4, <1>5, <1>6, <1>7, <1>8, <1>9 DEF Socials, SocialArrives, SocialStep

-----------------------------------------------------------------------------
(* The invariants                                                              *)

(* Whoever was found or added by an address keeps it until the session is open: *)
(* rows are added at ids that were never drawn, and who changes an address or   *)
(* deletes a user is served alone.                                             *)
Named(u, e) == user[u].row # "never" /\ user[u].email = e

NamedInv ==
    /\ \A p \in Profile : socialLogin[p] # Nil => user[socialLogin[p]].row # "never"
    /\ \A r \in SocialRequest :
         /\ sa[r].pc = "findLogin" /\ sa[r].found # Nil => Named(sa[r].found, sa[r].email)
         /\ sa[r].pc = "addLogin" => Named(sa[r].user, sa[r].email)
         /\ sa[r].pc \in {"saveInfo", "openSession"} =>
              /\ socialLogin[sa[r].profile] # Nil
              /\ Named(socialLogin[sa[r].profile], sa[r].email)

AboutToAdd(h) == h.pc = "addUser" \/ (h.pc = "findLogin" /\ h.found = Nil)

TwinsInv ==
    scenario # "overlap" =>
      /\ NoTwins
      /\ \A r \in SignUpRequest :
           su[r].pc \in {"retrieve", "retrieveUser", "addUser"} => FindByEmail(su[r].email) = {}
      /\ \A r \in EmailRequest :
           ue[r].op = "change" /\ ue[r].pc \in {"findUser", "readRow", "writeRow"} =>
              FindByEmail(ue[r].new) = {}
      /\ \A r \in SocialRequest : AboutToAdd(sa[r]) => FindByEmail(sa[r].email) = {}

(* While addresses stay, a login info leads to a user with the address that its *)
(* provider gives, and that every sign-in under way was given.                 *)
DoorInv ==
    scenario = "stays" =>
      /\ \A u \in UserId : user[u].row \in {"never", "live"}
      /\ \A p \in Profile : socialLogin[p] # Nil =>
            profileEmail[p] \in Email /\ Named(socialLogin[p], profileEmail[p])
      /\ \A r \in SocialRequest : sa[r].pc # "idle" => sa[r].email = profileEmail[sa[r].profile]

LEMMA FirstInv == AllInit => NamedInv /\ TwinsInv /\ DoorInv
BY NilAssumption
DEF AllInit, SignUpInit, StoreInit, EmailInit, SocialInit, Idle, EmailIdle, SocialIdle,
    NamedInv, TwinsInv, NoTwins, DoorInv, FindByEmail, IsLive

-----------------------------------------------------------------------------
(* NamedInv                                                                    *)

(* Rows that were drawn keep their address in a sign-up and a social sign-in.  *)
NamedThen(u, e) == user'[u].row # "never" /\ user'[u].email = e

NamesStay == \A u \in UserId : \A e : Named(u, e) => NamedThen(u, e)

LEMMA NamesKept ==
    ASSUME \/ RowsStay
           \/ \E e : RowAppears(e)
    PROVE  NamesStay
BY DEF RowsStay, RowAppears, NamesStay, Named, NamedThen

LEMMA SocialNames ==
    ASSUME StoreTypeOK, SocialTypeOK, NEW r \in SocialRequest, Socials(r)
    PROVE  NamesStay
<1>1. UNCHANGED user => RowsStay
  BY DEF RowsStay
<1>2. ASSUME \E u \in UserId : /\ user[u].row = "never" /\ user'[u].row = "live"
                               /\ user'[u].email = sa[r].email
                               /\ \A v \in UserId : v # u => user'[v] = user[v]
      PROVE  RowAppears(sa[r].email)
  BY <1>2 DEF RowAppears
<1> QED BY <1>1, <1>2, SocialAfter, NamesKept

LEMMA NamedStep ==
    ASSUME Serially
    PROVE  TypesInv /\ ServedInv /\ NamedInv /\ [AllNext]_allVars => NamedInv'
<1> SUFFICES ASSUME TypesInv, ServedInv, NamedInv, [AllNext]_allVars PROVE NamedInv'
  OBVIOUS
<1>t. /\ SignUpTypeOK /\ StoreTypeOK /\ EmailTypes /\ DeleteTypeOK /\ SocialTypeOK
      /\ sa \in [SocialRequest -> SocialHandler]
      /\ socialLogin \in [Profile -> UserId \cup {Nil}]
  BY DEF TypesInv, SignUpTypeOK, SocialTypeOK
<1>h. ASSUME NEW r \in SocialRequest
      PROVE  /\ sa[r].found # Nil => sa[r].found \in UserId
             /\ sa[r].pc = "addLogin" => sa[r].user \in UserId
             /\ sa[r].pc # "idle" => sa[r].profile \in Profile
  BY <1>t DEF SocialTypeOK, SocialHandler
<1>n. ASSUME NamesStay, UNCHANGED <<sa, socialLogin>> PROVE NamedInv'
  <2>1. \A p \in Profile : socialLogin[p] # Nil => user'[socialLogin[p]].row # "never"
    BY <1>t, <1>n DEF NamedInv, NamesStay, Named, NamedThen
  <2>2. ASSUME NEW r \in SocialRequest
        PROVE  /\ sa[r].pc = "findLogin" /\ sa[r].found # Nil => NamedThen(sa[r].found, sa[r].email)
               /\ sa[r].pc = "addLogin" => NamedThen(sa[r].user, sa[r].email)
               /\ sa[r].pc \in {"saveInfo", "openSession"} =>
                    NamedThen(socialLogin[sa[r].profile], sa[r].email)
    BY <1>t, <1>h, <1>n DEF NamedInv, NamesStay, Named, NamedThen
  <2> QED BY <1>n, <2>1, <2>2 DEF NamedInv, Named, NamedThen
<1>i. ASSUME SocialsIdle, UNCHANGED sa,
             \A u \in UserId : user[u].row # "never" => user'[u].row # "never",
             \A p \in Profile : socialLogin'[p] \in {socialLogin[p], Nil}
      PROVE  NamedInv'
  <2>1. \A p \in Profile : socialLogin'[p] # Nil => user'[socialLogin'[p]].row # "never"
    BY <1>t, <1>i DEF NamedInv
  <2> QED BY <1>i, <2>1 DEF NamedInv, SocialsIdle
<1>1. ASSUME NEW r \in SignUpRequest, SignsUp(r), OnlySignUp PROVE NamedInv'
  BY <1>1, <1>t, <1>n, RowsAdded, NamesKept DEF OnlySignUp, socialVars
<1>2. ASSUME NEW r \in EmailRequest, ChangesAny(r), OnlyEmail, EmailAlone(r) PROVE NamedInv'
  <2>1. \A u \in UserId : user[u].row # "never" => user'[u].row # "never"
    BY <1>2, <1>t, EmailAddresses, EmailRows
  <2> QED BY <1>2, <1>i, <2>1 DEF OnlyEmail, socialVars, EmailAlone
<1>3. ASSUME NEW r \in DeleteRequest, DeletesAny(r), OnlyDelete, DeleteAlone(r) PROVE NamedInv'
  <2>1. \A u \in UserId : user[u].row # "never" => user'[u].row # "never"
    BY <1>3, <1>t, DeleteRows
  <2>2. \A p \in Profile : socialLogin'[p] \in {socialLogin[p], Nil}
    BY <1>3 DEF DeletesAny, DeleteEveryLogin, PurgeUnlinked, PurgeLinked
  <2> QED BY <1>3, <1>i, <2>1, <2>2 DEF OnlyDelete, DeleteAlone
<1>4. ASSUME NEW r \in SocialRequest, Socials(r) PROVE NamedInv'
  <2>1. NamesStay
    BY <1>4, <1>t, SocialNames
  <2>2. \A q \in SocialRequest : q # r => sa'[q] = sa[q]
    BY <1>4, <1>t, SocialOwn
  <2>3. \A p \in Profile : socialLogin[p] # Nil => socialLogin'[p] = socialLogin[p]
    BY <1>4, <1>t, SocialAfter
  <2>4. ASSUME NEW p \in Profile, socialLogin'[p] # Nil
        PROVE  user'[socialLogin'[p]].row # "never"
    <3>1. CASE socialLogin'[p] = socialLogin[p]
      BY <1>t, <2>1, <2>4, <3>1 DEF NamedInv, NamesStay, Named, NamedThen
    <3>2. CASE socialLogin'[p] # socialLogin[p]
      <4>1. /\ sa[r].pc = "addLogin" /\ UNCHANGED user
            /\ socialLogin' = [socialLogin EXCEPT ![sa[r].profile] = sa[r].user]
        BY <1>4, <1>t, <3>2, SocialAfter
      <4>2. socialLogin'[p] = sa[r].user
        BY <1>t, <3>2, <4>1
      <4> QED BY <4>1, <4>2 DEF NamedInv, Named, NamedThen
    <3> QED BY <3>1, <3>2
  <2>5. ASSUME NEW q \in SocialRequest, q # r
        PROVE  /\ sa'[q].pc = "findLogin" /\ sa'[q].found # Nil => NamedThen(sa[q].found, sa[q].email)
               /\ sa'[q].pc = "addLogin" => NamedThen(sa[q].user, sa[q].email)
               /\ sa'[q].pc \in {"saveInfo", "openSession"} =>
                    /\ socialLogin'[sa[q].profile] # Nil
                    /\ NamedThen(socialLogin[sa[q].profile], sa[q].email)
    <3>1. sa'[q] = sa[q]
      BY <2>2, <2>5
    <3>2. /\ sa[q].pc = "findLogin" /\ sa[q].found # Nil => NamedThen(sa[q].found, sa[q].email)
          /\ sa[q].pc = "addLogin" => NamedThen(sa[q].user, sa[q].email)
      BY <1>h, <2>1, <3>1 DEF NamedInv, NamesStay, Named, NamedThen
    <3>3. ASSUME sa[q].pc \in {"saveInfo", "openSession"}
          PROVE  /\ socialLogin'[sa[q].profile] # Nil
                 /\ NamedThen(socialLogin[sa[q].profile], sa[q].email)
      <4>1. /\ socialLogin[sa[q].profile] # Nil /\ sa[q].profile \in Profile
            /\ Named(socialLogin[sa[q].profile], sa[q].email)
        BY <1>h, <3>3 DEF NamedInv
      <4>2. socialLogin[sa[q].profile] \in UserId /\ socialLogin'[sa[q].profile] = socialLogin[sa[q].profile]
        BY <1>t, <2>3, <4>1
      <4> QED BY <2>1, <3>1, <4>1, <4>2 DEF NamesStay, Named, NamedThen
    <3> QED BY <3>1, <3>2, <3>3
  <2>6. /\ sa'[r].pc = "findLogin" /\ sa'[r].found # Nil => NamedThen(sa'[r].found, sa'[r].email)
        /\ sa'[r].pc = "addLogin" => NamedThen(sa'[r].user, sa'[r].email)
        /\ sa'[r].pc \in {"saveInfo", "openSession"} =>
             /\ socialLogin'[sa'[r].profile] # Nil
             /\ NamedThen(socialLogin'[sa'[r].profile], sa'[r].email)
    <3> DEFINE G == /\ sa'[r].pc = "findLogin" /\ sa'[r].found # Nil => NamedThen(sa'[r].found, sa'[r].email)
                    /\ sa'[r].pc = "addLogin" => NamedThen(sa'[r].user, sa'[r].email)
                    /\ sa'[r].pc \in {"saveInfo", "openSession"} =>
                         /\ socialLogin'[sa'[r].profile] # Nil
                         /\ NamedThen(socialLogin'[sa'[r].profile], sa'[r].email)
    <3> SUFFICES G
      OBVIOUS
    <3>s. UNCHANGED user => \A u, e : Named(u, e) => NamedThen(u, e)
      BY DEF Named, NamedThen
    <3>1. CASE sa'[r].pc \in {"idle", "findEmail", "addUser"}
      BY <3>1
    <3>2. CASE /\ sa'[r].pc = "findLogin" /\ sa'[r].email = sa[r].email /\ UNCHANGED user
               /\ sa'[r].found \in FindByEmail(sa[r].email) \/ sa'[r].found = Nil
      BY <3>2 DEF FindByEmail, IsLive, NamedThen
    <3>3. CASE /\ sa[r].pc = "findLogin" /\ SocialKept(r) /\ UNCHANGED <<user, socialLogin>>
               /\ sa'[r].pc = "saveInfo" /\ sa[r].found # Nil /\ socialLogin[sa[r].profile] = sa[r].found
      BY <3>3, <3>s DEF NamedInv, SocialKept
    <3>4. CASE /\ sa[r].pc = "findLogin" /\ SocialKept(r) /\ UNCHANGED user
               /\ sa'[r].pc = "addLogin" /\ sa[r].found # Nil /\ sa'[r].user = sa[r].found
      BY <3>4, <3>s DEF NamedInv, SocialKept
    <3>5. CASE /\ sa'[r].pc = "addLogin" /\ SocialKept(r) /\ user'[sa'[r].user].row = "live"
               /\ user'[sa'[r].user].email = sa[r].email
      BY <3>5 DEF NamedThen, SocialKept
    <3>6. CASE /\ sa[r].pc = "addLogin" /\ sa'[r].pc = "saveInfo" /\ SocialKept(r) /\ UNCHANGED user
               /\ socialLogin' = [socialLogin EXCEPT ![sa[r].profile] = sa[r].user]
      <4>1. socialLogin'[sa'[r].profile] = sa[r].user /\ sa[r].user # Nil
        BY <1>t, <1>h, <3>6, NilAssumption DEF SocialKept
      <4> QED BY <3>6, <3>s, <4>1 DEF NamedInv, SocialKept
    <3>7. CASE /\ sa[r].pc = "saveInfo" /\ sa'[r].pc = "openSession"
               /\ SocialKept(r) /\ UNCHANGED <<user, socialLogin>>
      BY <3>7, <3>s DEF NamedInv, SocialKept
    <3> HIDE DEF G
    <3>8. G
      BY <1>4, <1>t, <3>1, <3>2, <3>3, <3>4, <3>5, <3>6, <3>7, SocialAfter DEF SocialKept
    <3> QED BY <3>8
  <2>7. ASSUME NEW q \in SocialRequest
        PROVE  /\ sa'[q].pc = "findLogin" /\ sa'[q].found # Nil => NamedThen(sa'[q].found, sa'[q].email)
               /\ sa'[q].pc = "addLogin" => NamedThen(sa'[q].user, sa'[q].email)
               /\ sa'[q].pc \in {"saveInfo", "openSession"} =>
                    /\ socialLogin'[sa'[q].profile] # Nil
                    /\ NamedThen(socialLogin'[sa'[q].profile], sa'[q].email)
    <3>1. CASE q = r
      BY <2>6, <3>1
    <3>2. CASE q # r
      <4>1. sa'[q] = sa[q]
        BY <2>2, <3>2
      <4>2. sa'[q].pc \in {"saveInfo", "openSession"} => socialLogin'[sa[q].profile] = socialLogin[sa[q].profile]
        BY <1>h, <2>3, <4>1 DEF NamedInv
      <4> QED BY <2>5, <3>2, <4>1, <4>2
    <3> QED BY <3>1, <3>2
  <2> QED BY <2>4, <2>7 DEF NamedInv, Named, NamedThen
<1>5. CASE Nobodys
  BY <1>5, <1>n, NamesKept DEF Nobodys, RowsStay
<1> QED BY <1>1, <1>2, <1>3, <1>4, <1>5, ServedFlows

LEMMA SocialInvHolds ==
    ASSUME Serially
    PROVE  AllSpec => [](TypesInv /\ ServedInv /\ NamedInv)
<1>1. TypesInv /\ ServedInv /\ [AllNext]_allVars => ServedInv'
  BY ServedStep
<1>2. TypesInv /\ ServedInv /\ NamedInv /\ [AllNext]_allVars => NamedInv'
  BY NamedStep
<1> QED BY <1>1, <1>2, TypesInit, TypesStep, ServedInit, FirstInv, PTL DEF AllSpec

(* A social sign-in that was accepted opens a session of a user that has the   *)
(* address the provider vouched for, however many requests overlap as long as  *)
(* nobody changes an address or is deleted, and with such changes if requests  *)
(* come one by one (AccountService.handleUserOptAndAuthLoginInfoOpt).          *)
THEOREM SignedInCorrect ==
    ASSUME Serially
    PROVE  AllSpec => []SignedInAsProfile
<1>1. NamedInv => SignedInAsProfile
  BY DEF NamedInv, Named, SignedInAsProfile, SocialAt
<1> QED BY <1>1, SocialInvHolds, PTL

-----------------------------------------------------------------------------
(* TwinsInv                                                                    *)

SocialFree == \A r \in SocialRequest : AboutToAdd(sa[r]) => FindByEmail(sa[r].email) = {}

LEMMA EmailTwinsAny ==
    ASSUME StoreTypeOK, EmailTypes, NoTwins, EmailFree, NEW r \in EmailRequest, ChangesAny(r)
    PROVE  /\ NoTwins'
           /\ ue'[r].op = "change" /\ ue'[r].pc \in {"findUser", "readRow", "writeRow"} =>
                FreeThen(ue'[r].new)
<1>1. ASSUME UNCHANGED user PROVE NoTwins'
  BY <1>1, FoundStay DEF NoTwins, RowsStay
<1> QED BY <1>1, EmailAddresses, EmailTwins

LEMMA SocialTwins ==
    ASSUME StoreTypeOK, SocialTypeOK, NoTwins, SocialFree, NEW r \in SocialRequest, Socials(r)
    PROVE  /\ NoTwins'
           /\ AboutToAdd(sa'[r]) => FreeThen(sa'[r].email)
<1>1. CASE UNCHANGED user
  <2>1. RowsStay
    BY <1>1 DEF RowsStay
  <2>2. NoTwins'
    BY <2>1, FoundStay DEF NoTwins
  <2>3. ASSUME AboutToAdd(sa'[r])
        PROVE  FindByEmail(sa'[r].email) = {}
    BY <2>3, SocialAfter, NilAssumption DEF SocialKept, SocialFree, AboutToAdd, FindByEmail
  <2> QED BY <2>1, <2>2, <2>3, FoundStay
<1>2. ASSUME sa[r].pc = "addUser", sa'[r].pc = "addLogin",
             \E u \in UserId : /\ user'[u].row = "live" /\ user'[u].email = sa[r].email
                              /\ \A v \in UserId : v # u => user'[v] = user[v]
      PROVE  /\ NoTwins' /\ sa'[r].pc = "addLogin"
  <2>1. FindByEmail(sa[r].email) = {}
    BY <1>2 DEF SocialFree, AboutToAdd
  <2> QED BY <1>2, <2>1, RowApart
<1> QED BY <1>1, <1>2, SocialAfter DEF AboutToAdd

LEMMA TwinsStep ==
    ASSUME Serially
    PROVE  TypesInv /\ ServedInv /\ TwinsInv /\ [AllNext]_allVars => TwinsInv'
<1> SUFFICES ASSUME TypesInv, ServedInv, TwinsInv, [AllNext]_allVars PROVE TwinsInv'
  OBVIOUS
<1>u. UNCHANGED scenario
  BY Flows
<1> SUFFICES ASSUME scenario # "overlap"
             PROVE  NoTwins' /\ SignUpFree' /\ EmailFree' /\ SocialFree'
  BY <1>u DEF TwinsInv, SignUpFree, EmailFree, SocialFree
<1>t. SignUpTypeOK /\ StoreTypeOK /\ EmailTypes /\ DeleteTypeOK /\ SocialTypeOK
  BY DEF TypesInv, SignUpTypeOK
<1>f. NoTwins /\ SignUpFree /\ EmailFree /\ SocialFree
  BY DEF TwinsInv, SignUpFree, EmailFree, SocialFree
<1>i. /\ SignUpIdle' => SignUpFree'
      /\ EmailsIdle' => EmailFree'
      /\ SocialsIdle' => SocialFree'
  BY DEF SignUpIdle, SignUpFree, EmailsIdle, EmailFree, SocialsIdle, SocialFree, AboutToAdd
<1>1. ASSUME NEW r \in SignUpRequest, SignsUp(r), SignUpAlone(r)'
      PROVE  NoTwins' /\ SignUpFree' /\ EmailFree' /\ SocialFree'
  <2>1. NoTwins' /\ (su'[r].pc \in {"retrieve", "retrieveUser", "addUser"} =>
                        FreeThen(su'[r].email))
    BY <1>1, <1>t, <1>f, SignUpTwins
  <2>2. SignUpFree'
    BY <1>1, <2>1 DEF SignUpAlone, SignUpFree, FindByEmail, IsLive, FreeThen
  <2> QED BY <1>1, <1>i, <2>1, <2>2 DEF SignUpAlone
<1>2. ASSUME NEW r \in EmailRequest, ChangesAny(r), EmailAlone(r)'
      PROVE  NoTwins' /\ SignUpFree' /\ EmailFree' /\ SocialFree'
  <2>1. NoTwins' /\ (ue'[r].op = "change" /\ ue'[r].pc \in {"findUser", "readRow", "writeRow"} =>
                        FreeThen(ue'[r].new))
    BY <1>2, <1>t, <1>f, EmailTwinsAny
  <2>2. EmailFree'
    BY <1>2, <2>1 DEF EmailAlone, EmailFree, FindByEmail, IsLive, FreeThen
  <2> QED BY <1>2, <1>i, <2>1, <2>2 DEF EmailAlone
<1>3. ASSUME NEW r \in DeleteRequest, DeletesAny(r), DeleteAlone(r)'
      PROVE  NoTwins' /\ SignUpFree' /\ EmailFree' /\ SocialFree'
  <2>1. \A e \in Email : FindByEmail(e)' \subseteq FindByEmail(e)
    BY <1>3, <1>t, DeleteRows DEF FindByEmail, IsLive
  <2>2. NoTwins'
    BY <1>f, <2>1 DEF NoTwins
  <2> QED BY <1>3, <1>i, <2>2 DEF DeleteAlone
<1>4. ASSUME NEW r \in SocialRequest, Socials(r), SocialAlone(r)'
      PROVE  NoTwins' /\ SignUpFree' /\ EmailFree' /\ SocialFree'
  <2>1. NoTwins' /\ (AboutToAdd(sa'[r]) => FreeThen(sa'[r].email))
    BY <1>4, <1>t, <1>f, SocialTwins
  <2>2. SocialFree'
    BY <1>4, <2>1 DEF SocialAlone, SocialFree, AboutToAdd, FindByEmail, IsLive, FreeThen
  <2> QED BY <1>4, <1>i, <2>1, <2>2 DEF SocialAlone
<1>5. CASE Nobodys
  <2>1. RowsStay /\ UNCHANGED <<su, ue, sa>>
    BY <1>5 DEF Nobodys, RowsStay
  <2>2. NoTwins'
    BY <1>f, <2>1, FoundStay DEF NoTwins
  <2> QED BY <1>f, <2>1, <2>2, FoundStay DEF SignUpFree, EmailFree, SocialFree
<1> QED BY <1>1, <1>2, <1>3, <1>4, <1>5, ServedFlows

LEMMA TwinsHold ==
    ASSUME Serially
    PROVE  AllSpec => [](TypesInv /\ TwinsInv)
<1>1. TypesInv /\ ServedInv /\ [AllNext]_allVars => ServedInv'
  BY ServedStep
<1>2. TypesInv /\ ServedInv /\ TwinsInv /\ [AllNext]_allVars => TwinsInv'
  BY TwinsStep
<1> QED BY <1>1, <1>2, TypesInit, TypesStep, ServedInit, FirstInv, PTL DEF AllSpec

(* Requests that come one by one give an address to one live user at most,     *)
(* whichever way they come in, whatever is changed, deleted or cut short: the  *)
(* user is looked up by address before the provider's key (createOrRetrieve),  *)
(* an address is checked again when its link is followed (updateEmail), and    *)
(* nobody signs up with an address in use (SignUps.signUp).                    *)
THEOREM OneUserPerEmailSociallyCorrect ==
    ASSUME Serially
    PROVE  AllSpec => []OneUserPerEmailSerially
<1>1. TwinsInv => OneUserPerEmailSerially
  <2> SUFFICES ASSUME NoTwins, NEW e \in Email PROVE Cardinality(FindByEmail(e)) <= 1
    BY DEF TwinsInv, OneUserPerEmailSerially, OneUserPerEmail
  <2>1. CASE FindByEmail(e) = {}
    BY <2>1, FS_EmptySet
  <2>2. ASSUME NEW u \in FindByEmail(e) PROVE Cardinality(FindByEmail(e)) <= 1
    <3>1. FindByEmail(e) = {u}
      BY DEF NoTwins
    <3> QED BY <3>1, FS_Singleton
  <2> QED BY <2>1, <2>2
<1> QED BY <1>1, TwinsHold, PTL

-----------------------------------------------------------------------------
(* DoorInv                                                                     *)

LEMMA ProfilesStay ==
    ASSUME NEW r \in SocialRequest, Socials(r)
    PROVE  UNCHANGED profileEmail
BY DEF Socials, SocialArrives, Authenticate, SocialStep, SocialFindByEmail, SocialFindLogin,
   AddSocialUser, AddSocialLogin, SaveSocialInfo, OpenSocialSession, SocialAbort, socialStore

LEMMA DoorStep ==
    ASSUME Serially
    PROVE  TypesInv /\ ServedInv /\ NamedInv /\ DoorInv /\ [AllNext]_allVars => DoorInv'
<1> SUFFICES ASSUME TypesInv, ServedInv, NamedInv, DoorInv, [AllNext]_allVars PROVE DoorInv'
  OBVIOUS
<1>u. UNCHANGED scenario
  BY Flows
<1> DEFINE Rows == \A u \in UserId : user'[u].row \in {"never", "live"}
           Doors == \A p \in Profile : socialLogin'[p] # Nil =>
                       /\ profileEmail'[p] \in Email
                       /\ NamedThen(socialLogin'[p], profileEmail'[p])
           Told == \A r \in SocialRequest :
                      sa'[r].pc # "idle" => sa'[r].email = profileEmail'[sa'[r].profile]
<1> SUFFICES ASSUME scenario = "stays" PROVE Rows /\ Doors /\ Told
  BY <1>u DEF DoorInv, Named, NamedThen
<1>t. /\ SignUpTypeOK /\ StoreTypeOK /\ SocialTypeOK
      /\ socialLogin \in [Profile -> UserId \cup {Nil}]
  BY DEF TypesInv, SignUpTypeOK, SocialTypeOK
<1>d. /\ \A u \in UserId : user[u].row \in {"never", "live"}
      /\ \A p \in Profile : socialLogin[p] # Nil =>
            profileEmail[p] \in Email /\ Named(socialLogin[p], profileEmail[p])
      /\ \A r \in SocialRequest : sa[r].pc # "idle" => sa[r].email = profileEmail[sa[r].profile]
  BY DEF DoorInv
<1>r. RowsStay \/ (\E e : RowAppears(e)) => Rows
  BY <1>d DEF RowsStay, RowAppears
<1>k. ASSUME NamesStay, UNCHANGED profileEmail, NEW p \in Profile, socialLogin[p] # Nil,
             socialLogin'[p] = socialLogin[p]
      PROVE  profileEmail'[p] \in Email /\ NamedThen(socialLogin'[p], profileEmail'[p])
  BY <1>t, <1>d, <1>k DEF NamesStay
<1>1. ASSUME NEW r \in SignUpRequest, SignsUp(r), OnlySignUp PROVE Rows /\ Doors /\ Told
  <2>1. RowsStay \/ \E e : RowAppears(e)
    BY <1>1, <1>t, RowsAdded
  <2>2. NamesStay /\ UNCHANGED <<profileEmail, socialLogin, sa>>
    BY <1>1, <2>1, NamesKept DEF OnlySignUp, socialVars
  <2> QED BY <1>d, <1>k, <1>r, <2>1, <2>2
<1>2. ASSUME NEW r \in SocialRequest, Socials(r) PROVE Rows /\ Doors /\ Told
  <2>1. NamesStay /\ UNCHANGED profileEmail
    BY <1>2, <1>t, SocialNames, ProfilesStay
  <2>2. UNCHANGED user => RowsStay
    BY DEF RowsStay
  <2>3. RowsStay \/ \E e : RowAppears(e)
    BY <1>2, <1>t, <2>2, SocialAfter DEF RowAppears
  <2>4. ASSUME NEW p \in Profile, socialLogin'[p] # Nil
        PROVE  profileEmail'[p] \in Email /\ NamedThen(socialLogin'[p], profileEmail'[p])
    <3>1. CASE socialLogin'[p] = socialLogin[p]
      BY <1>k, <2>1, <2>4, <3>1
    <3>2. CASE socialLogin'[p] # socialLogin[p]
      <4>1. /\ sa[r].pc = "addLogin" /\ UNCHANGED user
            /\ socialLogin' = [socialLogin EXCEPT ![sa[r].profile] = sa[r].user]
        BY <1>2, <1>t, <3>2, SocialAfter
      <4>2. socialLogin'[p] = sa[r].user /\ p = sa[r].profile
        BY <1>t, <3>2, <4>1
      <4>3. Named(sa[r].user, sa[r].email) /\ sa[r].email \in Email /\ sa[r].email = profileEmail[p]
        BY <1>t, <1>d, <4>1, <4>2 DEF NamedInv, SocialTypeOK
      <4> QED BY <2>1, <4>1, <4>2, <4>3 DEF Named, NamedThen
    <3> QED BY <3>1, <3>2
  <2>5. ASSUME NEW q \in SocialRequest, sa'[q].pc # "idle"
        PROVE  sa'[q].email = profileEmail'[sa'[q].profile]
    <3>1. CASE q # r
      BY <1>2, <1>t, <1>d, <2>1, <2>5, <3>1, SocialOwn
    <3>2. CASE q = r
      BY <1>2, <1>t, <1>d, <2>1, <2>5, <3>2, SocialAfter DEF SocialKept
    <3> QED BY <3>1, <3>2
  <2> QED BY <1>r, <2>3, <2>4, <2>5
<1>3. CASE Nobodys
  <2>1. RowsStay /\ UNCHANGED <<profileEmail, socialLogin, sa>>
    BY <1>3 DEF Nobodys, RowsStay, ProfileMoves, SocialSessionExpires
  <2>2. NamesStay
    BY <2>1, NamesKept
  <2> QED BY <1>d, <1>k, <1>r, <2>1, <2>2
<1> QED BY <1>1, <1>2, <1>3, ServedFlows

(* While addresses stay and nobody is deleted, whoever signed in with a        *)
(* provider once can do so again, at any moment and wherever a flow was cut    *)
(* short: the address of the account leads to the user that its key leads to,  *)
(* and to no other (AccountService.createOrRetrieve, save).                    *)
THEOREM DoorStaysOpenCorrect ==
    ASSUME Serially
    PROVE  AllSpec => []DoorStaysOpen
<1>1. TypesInv /\ TwinsInv /\ DoorInv => DoorStaysOpen
  <2> SUFFICES ASSUME TypesInv, TwinsInv, DoorInv, scenario = "stays",
                      NEW p \in Profile, socialLogin[p] # Nil
               PROVE  FindByEmail(profileEmail[p]) = {socialLogin[p]}
    BY DEF DoorStaysOpen
  <2>1. NoTwins
    BY DEF TwinsInv
  <2>2. profileEmail[p] \in Email /\ Named(socialLogin[p], profileEmail[p])
    BY DEF DoorInv
  <2>3. socialLogin[p] \in UserId
    BY DEF TypesInv, SocialTypeOK
  <2>4. socialLogin[p] \in FindByEmail(profileEmail[p])
    BY <2>2, <2>3 DEF DoorInv, Named, FindByEmail, IsLive
  <2> QED BY <2>1, <2>2, <2>4 DEF NoTwins
<1>2. TypesInv /\ ServedInv /\ NamedInv /\ DoorInv /\ [AllNext]_allVars => DoorInv'
  BY DoorStep
<1> QED BY <1>1, <1>2, TypesInit, TypesStep, FirstInv, SocialInvHolds, TwinsHold, PTL DEF AllSpec
=============================================================================
