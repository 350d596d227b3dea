---------------------------- MODULE AccountStore ----------------------------
(***************************************************************************)
(* The state that every account flow of the middleware shares, and the     *)
(* statements the DAOs run against it.                                     *)
(*                                                                         *)
(* PostgreSQL holds the users, the login infos and the superadmin role;    *)
(* Redis holds the password hashes, the one-time tokens sent by mail and   *)
(* the sessions.  A flow is a chain of Futures; TryBDCall opens a          *)
(* transaction of its own for each DAO call, and a Redis command is atomic *)
(* by itself, so a flow is modelled with one step per call and nothing     *)
(* groups two of them.                                                     *)
(***************************************************************************)
EXTENDS Naturals, FiniteSets

CONSTANTS
    UserId,       \* the UUIDs that UUID.randomUUID may return
    Email,        \* e-mail addresses
    Password,     \* hashed passwords
    Token,        \* the values BearerTokenGenerator may return
    Nil,          \* None
    CallsFail,    \* TRUE: a call may fail, and the server may stop between two calls
    ErrorsSwallowed  \* TRUE: a call may fail where the code goes on as if it had not;
                     \* then there are histories with and without such calls

ASSUME NilAssumption == Nil \notin UserId /\ Nil \notin Email /\ Nil \notin Password
ASSUME UserIdAssumption == IsFiniteSet(UserId)
ASSUME FaultsAssumption == CallsFail \in BOOLEAN /\ ErrorsSwallowed \in BOOLEAN

VARIABLES
    user,         \* entity_users
    loginInfo,    \* auth_login_info, provider "credentials": address -> user
    superadmin,   \* entity_relation_users_roles, role "superadmin"
    passwordInfo, \* Redis: address -> password hash
    token,        \* Redis: the tokens mailed to users
    session,      \* Redis: the addresses a CookieBearerTokenAuthenticator names
    swallowing    \* whether calls fail so in this history; never changes

postgres == <<user, loginInfo, superadmin>>
redis    == <<passwordInfo, token, session>>
store    == <<user, loginInfo, superadmin, passwordInfo, token, session>>

-----------------------------------------------------------------------------
(* "row" folds the presence of the row and its column "deleted": a purged id *)
(* is not a free one, since random UUIDs do not come back.                   *)
UserRow == [row : {"never", "live", "deleted", "purged"},
            email : Email \cup {Nil}, active : BOOLEAN]

(* "kind" is the kind of key the token was stored under, "none" before it is *)
(* drawn; "stored" ends with DEL or when its time to live has passed.  "sent" *)
(* is no part of the store: it says that the token went out by mail.         *)
TokenRow == [kind : {"none", "confirm", "forgot", "email"}, stored : BOOLEAN,
             user : UserId \cup {Nil}, email : Email \cup {Nil},
             ttl : BOOLEAN, sent : BOOLEAN]

StoreTypeOK ==
    /\ user \in [UserId -> UserRow]
    /\ loginInfo \in [Email -> UserId \cup {Nil}]
    /\ superadmin \in SUBSET UserId
    /\ passwordInfo \in [Email -> Password \cup {Nil}]
    /\ token \in [Token -> TokenRow]
    /\ \A t \in Token : token[t].kind # "none" => /\ token[t].user \in UserId
                                                 /\ token[t].email \in Email
    /\ session \in SUBSET Email

StoreInit ==
    /\ user = [u \in UserId |-> [row |-> "never", email |-> Nil, active |-> FALSE]]
    /\ loginInfo = [e \in Email |-> Nil]
    /\ superadmin = {}
    /\ passwordInfo = [e \in Email |-> Nil]
    /\ token = [t \in Token |-> [kind |-> "none", stored |-> FALSE, user |-> Nil,
                                 email |-> Nil, ttl |-> FALSE, sent |-> FALSE]]
    /\ session = {}

-----------------------------------------------------------------------------
(* Queries. A SELECT without LIMIT whose caller takes headOption yields any   *)
(* matching row; callers pick one with \E.                                    *)
Exists(u)          == user[u].row \in {"live", "deleted"}
IsLive(u)          == user[u].row = "live"
FindByEmail(e)     == {u \in UserId : IsLive(u) /\ user[u].email = e}
FindDeletedOrNot(e) == {u \in UserId : Exists(u) /\ user[u].email = e}
FindInactive(e)    == {u \in FindDeletedOrNot(e) : ~user[u].active}
ActiveUsers        == {u \in UserId : Exists(u) /\ user[u].active}
FindById(u)        == u # Nil /\ IsLive(u)

(* Statements, each the value of the table after it.                          *)
UserAdded(u, e) ==
    [user EXCEPT ![u] = [row |-> "live", email |-> e, active |-> FALSE]]
ActiveUpdated(u) ==
    [user EXCEPT ![u].active = Exists(u)]
LoginAllowed(e, u) == loginInfo[e] = Nil /\ Exists(u)       \* primary and foreign key
RoleAllowed(u)     == u \notin superadmin /\ Exists(u)      \* primary and foreign key
IsReferenced(u)    == u \in superadmin \/ \E e \in Email : loginInfo[e] = u

(* SET without a time to live; EXPIRE is a second command.                    *)
TokenStored(t, kind, u, e) ==
    [token EXCEPT ![t] = [kind |-> kind, stored |-> TRUE, user |-> u, email |-> e,
                          ttl |-> FALSE, sent |-> FALSE]]
TokenGone(t) == [token EXCEPT ![t].stored = FALSE]
FreshTokens  == {t \in Token : token[t].kind = "none"}
TokenFound(t, kind) == token[t].stored /\ token[t].kind = kind

(* Only who received the mail knows a token.                                  *)
TokenKnown(t, kind) == token[t].kind = kind /\ token[t].sent

(* Redis drops a key whose time to live has passed, at any moment.            *)
TokenExpires(t) ==
    /\ token[t].stored /\ token[t].ttl
    /\ token' = TokenGone(t)
    /\ UNCHANGED <<postgres, passwordInfo, session>>

(* An authenticator is stored with its time of expiration: the last one of an  *)
(* address may go at any moment.                                              *)
SessionExpires(e) ==
    /\ e \in session
    /\ session' = session \ {e}
    /\ UNCHANGED <<postgres, passwordInfo, token>>

-----------------------------------------------------------------------------
(* Whoever activated a user, or gave it another address, could read the        *)
(* mailbox of the address its row now holds: a token naming the user went      *)
(* there, whatever happened between the mail and its use                       *)
(* (ConfirmEmailService.sendEmailConfirmation, UpdateEmailService.updateEmail). *)
ActiveOnlyByMail ==
    \A u \in ActiveUsers : \E t \in Token :
        /\ token[t].sent
        /\ token[t].kind \in {"confirm", "email"}
        /\ token[t].user = u
        /\ token[t].email = user[u].email

(* One e-mail corresponds to at most one user (UserDAO.scala:54).              *)
OneUserPerEmail == \A e \in Email : Cardinality(FindByEmail(e)) <= 1

(* An authLoginInfo cannot exist without user: where a login info is found, a  *)
(* user is found by the same address (AccountService.scala:126).               *)
NoLoginWithoutUser == \A e \in Email : loginInfo[e] # Nil => FindByEmail(e) # {}

(* At most one user is ever superadmin: two confirmations that overlap may     *)
(* both find a count above one, but never both a count of one                  *)
(* (SignUpService.grantToAdminFirstUser).                                      *)
AtMostOneSuperadmin == Cardinality(superadmin) <= 1

(* A user has one login info at most: a change of address moves it, and leaves *)
(* none behind that still leads to the user - as long as one change of address *)
(* is followed at a time: two may read the login info of one address, and the  *)
(* second then writes over the one that somebody signed up with in between     *)
(* (UpdateEmailService.updateLoginInfo, AccountService.save).                  *)
OneLoginPerUser ==
    \A e, f \in Email : loginInfo[e] # Nil /\ loginInfo[e] = loginInfo[f] => e = f
=============================================================================
