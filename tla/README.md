# A TLA+ model of the QGD middleware

The repository is a Play 2 library that a web application embeds: accounts and
sign-in over PostgreSQL and Redis, an OAuth2 server, notifications, web sockets,
packages, groups and automatic CRUD. This directory models the parts that keep state
and let others change it at the same time, checks them with TLC and proves their
central properties with TLAPS. Paths below are relative to
`src/app/com/noeupapp/middleware/`.

## 1. Inventory

What runs concurrently: a request is a chain of `Future`s (`EitherT ... .run`).
`TryBDCall` (`errorHandle/ExceptionEither.scala:18`) opens one transaction per DAO
call; a Redis command is atomic by itself; nothing groups two calls. So between any
two calls of one request, calls of other requests run, and the server may stop. There
is no lock, no retry and no compensation anywhere. Actors (notifications, web sockets)
handle one message at a time, but hand work to `Future`s and the scheduler.

| component | state | operations | what is hard | what makes it correct | status |
|---|---|---|---|---|---|
| Account store (`UserDAO`, `AuthLoginInfoDao`, `AuthInfoDAOImpl`) | `entity_users`, `auth_login_info`, role rows; Redis keys | single statements | `email` is not unique; `deleted` hides rows from some queries only | one login info per address, leading to a user that holds it | modelled |
| Sign up (`SignUps`, `SignUpService`, `ConfirmEmailService`, `AccountService`) | none of its own | sign up, re-send, confirm | check and insert apart; three inserts; errors reported as "none"; token not consumed | no take-over of an address; nobody active without having read a mail; one superadmin | modelled, proved |
| Log in (`Logins`) | sessions | authenticate, log out | session names an address, not a user | a session leads to an account | modelled, proved |
| Change of address (`UpdateEmailService`) | tokens | request, follow link | five stores changed one by one; stale copy of the row written back; administrator acting for another | no login info lost, doubled or unusable | modelled, proved |
| Forgotten password (`ForgotPasswordService`) | tokens | ask, follow link | token read first, deleted last | a link works once | modelled |
| Deletion (`UserService.delete`) | - | archive, purge, cascade | login infos and password left behind; foreign keys | an address is either usable or free | partly: no administrator's `PUT` and `POST` of rows |
| Social sign-in (`SocialAuths`, `AccountService.createOrRetrieve`) | login infos of other providers, OAuth infos | sign in | find, add, add, save apart; the missing case `(None, Some(_))`; the provider's address moves | nobody is signed in as another; a retry finds its way | modelled |
| Authenticator (`customAuthenticator/`) | Redis, and a self-contained cookie | create, retrieve, touch, update, renew, discard | `update == add` restores what was discarded; `SET` then `EXPIREAT`; the cookie is not asked about | what expired stays expired | modelled, proved |
| Notifications (`notifications/`) | listeners, routers, Redis list per user | register, send, list, mark read | read, delete, write back, while others append | stored and mailed once; nothing comes back | modelled, proved |
| Web sockets (`webSockets/`) | connections, timers, clients | connect, token, time out, join, send | timer against token; a look-up in another thread; replaced client | a message reaches only its user, and reaches it; no connection hangs | modelled, proved |
| Packages (`packages/`) | credit in a row | authorise, map state, bill, delete | read, check, write back the whole row | credit is spent once and runs out | partly, proved: only actions that take a unit |
| OAuth2 server (`authorizationServer/`, `oauth2/`) | codes | authorize, token | see section 5 | - | not modelled |
| Clients, grant types | tables | CRUD | - | - | not modelled |
| Groups, organisations, entities (`entities/`) | tables, hierarchy | create, add, remove | three transactions; results thrown away | - | not modelled |
| Automatic CRUD (`crudauto/`), files (`files/`) | any table | find, add, update, delete | whole row written back after it was read | depends on the row | not modelled by itself |
| Evolutions (`evolution/`) | schema | seven numbered steps | order is up to the caller | - | constraints only |
| Roles, errors, mail, configuration, parsing, views | - | - | - | - | see `PROJECT.json` |
| Front-end bundles (`public/javascripts/` at the top) | - | - | - | - | not modelled |

Interaction: controllers call services, services call DAOs; the account flows share
the tables and keys of the account store and nothing else. Sign-up confirmation sends
a message to the notification actor, which broadcasts to the Redis, mail and web-socket
listeners; the last hands it to the manager of the connections, whose guards look their
tokens up among the authenticators.

## 2. Modules

| module | models |
|---|---|
| `AccountStore` | the tables and keys, the queries and statements of the DAOs with their constraints, expiry, and the properties stated over the store alone |
| `SignUp` | sign up, confirmation, re-sending; its own specification `SignUpSpec` |
| `LogIn`, `UpdateEmail`, `ForgotPassword`, `UserDeletion` | one flow each |
| `Accounts` | the five flows over one store |
| `SocialAuth` | sign-in with a provider |
| `SocialAccounts` | social sign-in beside sign-up, change of address and deletion |
| `Authenticator` | `CookieBearerTokenAuthenticatorService` and its DAO, with Redis, one browser and the order of Silhouette's calls |
| `Recipients`, `Notifications` | who a notification is for; the notification actor, its listeners, `setRead` |
| `WebSockets` | guards, timers, look-ups and the manager |
| `Delivery` | `Notifications` and `WebSockets` composed |
| `Packages` | `PackageHandler`, and CRUD on the rows it reads |
| `LoginRegistry`, `Session`, `NotificationInbox`, `Credit` | abstract specifications, implemented by `SignUp`, `Authenticator`, `Notifications` and `Packages` |
| `SignUpInvariant`, `SignUpProofs`, `FlowProofs`, `AccountsProofs`, `SocialProofs`, `AuthenticatorProofs`, `NotificationsProofs`, `DeliveryProofs`, `PackagesProofs` | the proofs |
| `MC...` | the instances for TLC |

How the code became actions. A handler has a label (`pc`) that says which call comes
next, and the local values the `for` comprehension has bound so far. Each DAO call or
Redis command is one action; a step that only looks at values already bound belongs to
the action before it. A `Left` ends the chain (`Answer`), and what was written stays.
`Abort` is any call failing, or the server stopping, before its call has an effect: the
chain ends there. Where the code turns an error into a result
(`AccountService.retrieve`, `AuthInfoDAOImpl.find`, `add` and `remove`) the model has
the extra outcome, in histories where `swallowing` holds. An actor takes the message at
the head of its mailbox in one action, and what it hands to a `Future` or the scheduler
is an action of its own.

Accounts:

* `user[u]`: `row` folds the presence of the row and `deleted`; a `purged` id is never
  drawn again, as UUIDs are random. Names, avatar, owner and dates are left out.
* `loginInfo[e]`: `auth_login_info` for the provider `credentials`. Its primary key is
  the function; its foreign key is `LoginAllowed` and `IsReferenced` (`Evolution._1`).
  `socialLogin[p]` and `socialInfo` are the rows and OAuth infos of other providers.
* `superadmin`: the rows of `entity_relation_users_roles` for that role. The role
  `admin` is given by hand; `Admin` is a constant.
* `passwordInfo[e]`: the Redis key of a login info. `Password` is the set of hashes: the
  code stores them and asks whether a password matches one.
* `token[t]`: a mailed token with the kind of its key, what it holds, whether it is
  stored and has a time to live. `sent` is not stored by the code: it says that the
  mail left, hence that the owner of `email` can know the token. A handler follows a
  link only if the token was sent.
* `AccountService.retrieve` is two transactions, the login info and then its user. Both
  flows that use it, log in and out (`RetrieveLogin`, `RetrieveOwner`) and the change of
  address (`RetrieveActor` for the second), have an action for each.
* `session`: the addresses named by a live authenticator. Several sessions of one
  address are one member, so the log-out or expiry of one of several is a stutter.

Queries without `LIMIT` whose caller takes `headOption` return any matching row
(`\E u \in FindByEmail(e)`). The LEFT JOIN with the roles can double a row, never add
one, and is left out.

Authenticator: `store[i]` is a Redis key with the copy it holds and whether it has a
time to live; `cookie` is the copy in the browser; a request carries a third one. An
expired key with a time to live is not `Present`. A header names an id, a cookie is the
authenticator itself. There are two renewals. `Renew`, with a result, embeds the new
authenticator in the answer. `RenewValue`, without one, gives the action the serialised
authenticator to use as it likes; nothing is embedded, and the action goes on with the
old one, which `held` keeps until the new one is stored. Nothing in `src/` calls either;
an application may. `born` and `revoked` only serve the properties; `revoked[i]` is
"ended" after a discard or a renewal in the answer, "returned" after the other renewal.

Notifications and web sockets: one mailbox per actor (`actorBox`, `inbox[l]`,
`managerBox`, `box[c]`), a Redis list per user, the requests of `setRead` with the
list they read, and per connection its socket, timer, guard and pending look-up.
`Delivery` adds the forwarding from one to the other, and `sent`, the order of sending.

* A stored notification is a JSON text, and `setRead` keeps the texts that do not contain
  the marked UUID anywhere (`filterNot(_.contains(...))`, `NotificationService.scala:33`).
  The model keeps of a text which UUIDs occur in it: `Mentions[n]`, `n` itself and any
  others. `Without` drops what mentions the marked one. In the runs the data of one
  notification holds the UUID of the other.
* `OnStart` registers its three listeners one by one (`RegisterNext`); sends may come
  before and between. `observersMap` keeps a router for each list of listeners that a
  broadcast met, as the code does under a hash of the list; a listener that is registered
  later is in a later list, hence in a new router.

Packages: `row[i]` is the row with pack, date of billing (as a Boolean) and state; a
request holds the copy it read. The application's `jsonProcess` is `addRNJ` of
`packages/README.md:150-152`, which asks for one unit and takes one. Its `deleteRNJ`
(`packages/README.md:153-154`) gives a unit back with `userPlusOne` and is not modelled:
what section 3 says of packages speaks of actions that take, and not of an application
that also gives back. A state that does not parse (`PackageHandler.scala:120-127`) counts
as the whole offer; the handler never writes one, and the model has none.

### Scenarios that a history fixes

Some variables are chosen in the initial state and never change. They let one run
check histories of several kinds where all of them together would be too many states,
or where a property is only promised for some:

| variable | chooses | why |
|---|---|---|
| `swallowing` (accounts) | errors are swallowed, or flows may be cut short | one swallowed password error plus one change of address cut short leave a login info that nobody can use: each alone does not, and that is the property |
| `scenario` (social) | overlapping requests with swallowed errors; one by one with moving addresses; one by one with cut flows | `Bound` gives each its number of requests, tokens, failures and profiles |
| `part` (delivery) | connections alone; connections with notifications; notifications stored, mailed and marked as read; for the last two, whether sends may come before the listeners are registered (`delivery_live`) or only after | the listeners read mailboxes of their own and share nothing |
| `idleTime`, `alone` (authenticator) | idle timeout or none; requests one by one without failure, or anything | both are configurations of one server; what is revoked stays out only in some |
| `load` (packages) | how many requests overlap at most | the bound on what a package serves depends on it |

## 3. Runs

| run | instance | question | result |
|---|---|---|---|
| `signup` | 2 handlers, 2 users, 2 addresses, 2 passwords, 2 tokens; calls fail, errors swallowed or not | what do concurrent sign-ups and confirmations keep? | holds, 0.6 million states |
| `accounts` | two requests of any flows but log-in at once; both users may be administrators | what do the flows keep when they interleave? | holds, 1.0 million states |
| `accounts_failure` | one request at a time; one flow cut short anywhere, or any number of swallowed errors | is every login info still usable? does an address have one user? does every mailed link expire? | holds, 0.4 million states |
| `accounts_serial` | one request at a time, no failure, no deletion; fairness | do the three stores agree, and what must happen? | holds, 0.7 million states |
| `signup_twins` | two sign-ups | is an address unique? (comment in `UserDAO`) | no: two live rows |
| `archived_login` | sign-up, deletion | has every login info its user? (comment in `AccountService`) | no, after a deletion without purge |
| `forgot_twice` | two requests with one link | does the link work once? ("expired or already used", `ForgotPasswords.scala:85`) | no |
| `delivery` | 1 connection with 2 messages, or 2 with 1 each; 2 with 1 each and 2 notifications; 2 overlapping `setRead`s | who gets what, and in which order? what may a `setRead` drop? | holds, 0.9 million states |
| `delivery_live` | 1 connection, 2 notifications, 1 `setRead` at a time, listeners registered early or late; fairness | is everything stored, mailed, delivered, closed? | holds, 0.1 million states |
| `authenticator` | 2 ids, 2 requests, expiry 1, idle time 0, 1 or none, clock to 2 | does what ended stay ended? | holds, 0.5 million states |
| `packages` | 2 rows, 1 to 3 requests, offers of 0 (none), 2 and 3 | how often is a unit spent? | holds, 2.1 million states |
| `social` | 3 users, 2 addresses, 2 profiles, 2 social requests and one of each other flow | is anybody signed in as another, or locked out by a failure? | holds, 1.0 million states |

Properties of the accounts:

* `SignUpTypeOK`, `AccountsTypeOK`, `AllTypeOK`: types, and every handler has each value
  that its next call passes on.
* `ActiveOnlyByMail`: an active user was named by a token mailed to the address in
  its row - through orphan rows, repeated links, changes of address and swallowed errors.
* `AtMostOneSuperadmin`: two confirmations that overlap both see a count above one, or
  one of them sees one. It needs that nobody is deactivated, so it holds of `SignUp`
  and not of `Accounts` (see section 6).
* `SessionHasLogin`: the sign-up that loses a race opens no session.
* `ImplementsLoginRegistry`: an address is claimed once, its password chosen once and
  after the claim, the first superadmin appointed once.
* `OneLoginPerUser`: no interleaving with one change of address leaves a user with two
  login infos (with two of them one does: section 6).
* `EveryLoginUsable`: the order of the writes in `updateEmail` is the one that keeps an
  account recoverable.
* `EveryAccountOpens`, `NoPasswordLeftBehind`: between requests row, login info and
  password agree.
* `FirstActiveIsGranted`: liveness, with one request at a time; two first confirmations
  that overlap appoint nobody (section 6).
* `MailedTokenExpires`: `SET` and `EXPIRE` are two commands. A stop between them leaves a
  key for good, one at most for each flow cut short, and its link was never mailed.
* `OneUserPerEmail`: holds with one request at a time, wherever flows are cut short and
  whoever is deleted; `signup_twins` shows the race.
* `SignedInAsProfile`: a social session leads to the user of its profile's login info,
  also when others sign in, sign up and swallow errors at the same time.
* `OneUserPerEmailSerially`: failures and retries of a social sign-in add no second user.
* `DoorStaysOpen`: once a profile is linked, it can sign in again, at any moment - as long
  as nobody changes an address or is deleted, whatever was cut short.

Properties of the rest:

* `RefusedClientIsDoomed`, `SharedClientIsDoomed`: a connection that was told "forbidden"
  is nobody's client and a client is one user's - except where the timer's block was
  already on a thread when the message came that cancels it, so that `cancel` did nothing.
  Then a refused connection may join, and a second token may make it another user's client
  as well; the properties say that it is about to be closed, for the `PoisonPill` is in its
  mailbox or that block still waits to run.
* `OnlyToItsUser`, `DeliveredInOrder`: over three mailboxes, a router and replaced
  connections, what arrives arrives at one connection of its addressee, once, in order.
* `ImplementsInbox`, `StoredAndMailedOnce`, with one `setRead` of a user at a time: a
  notification is stored once and mailed once at most, and gone for good when it is gone.
  With two at a time a list is stored twice (section 6).
* `LostOnlyIfNamedOrOvertaken`, with any number of them: a stored notification goes because
  its text has the marked UUID - as its own, or in its data -, or because the request read
  the list before it was stored, or was cut short.
* `EverySendIsStored`, `ConnectedUserGetsIt`, `JoinsOrCloses`, `RefusedIsClosed`: liveness
  from `send` to Redis and to the browser, and of every connection. The first two speak of
  what the notification actor takes after it registered the listener; what it broadcasts
  before is lost to that listener.
* `ImplementsSession`, `NoCopyOutlivesExpiry`: expired or timed out is for ever, over all
  copies, late writes and keys left without a time to live.
* `RevokedOpensNothing` (requests one by one; discarded, or renewed in the answer),
  `RevokedTokenStaysOut` (no idle timeout, Redis only): the two conditions under which a
  discarded or renewed authenticator stays out.
* `PackagesTypeOK`, `CreditRunsOut`: credit is never negative, and `n` units serve at most
  `choose(n + load, load) - 1` actions however requests overlap. `OfferCovers`,
  `ImplementsCredit`: one by one, `n` units serve at most `n`.

Bounds. Two handlers are enough for every race of the code, which is always between two
requests. Two users in `signup` are two that race for one address, or that each have one
and are confirmed at once; two passwords tell who chose the one that is stored; two
addresses are the old and the new one. A sign-up needs one token, a change of address or
a forgotten password another; `accounts_serial` has three. In `accounts` sessions are
opened by sign-ups and closed by expiry: log-in and log-out, which write nothing but
sessions, would take seven times as many states. They are in `accounts_failure` and
`accounts_serial`, and in every interleaving that the theorems of section 4 speak of.
`MaxBusy` bounds the requests served at once, `MaxFailures` the flows cut short. Social histories of the kind
`moves` have two users, the others three (`Bound`). Two connections are one that replaces
and one that is replaced, of one user or of two; two messages are junk or a refused token
before a valid one, on one connection, as guards share nothing. Two notifications are the
least that have an order, and the least of which one is read while the other arrives.
`MaxStored = 2` bounds the lists that a `setRead` reads: two of them that overlap could
double a list for ever. Dates are passed strictly, so with an expiry of 1 an idle time of
0 runs out first and one of 1, prolonged by a use, last; a clock to 2 passes both. Two ids
are a session and its renewal. Offers of 2 and 3 with three requests reach
the bound of `CreditRunsOut`; `MaxServed = 10` is above what an offer of 2 may serve
(9), and only the pack with that offer allows the action.
Tokens, ids and connections are used up, which bounds a behaviour; `CHECK_DEADLOCK
FALSE` because a server with everything used has nothing left to do. Symmetry sets
permute model values only, and are used in runs without liveness properties.

Fairness. `AccountsFairness` is weak fairness of each handler's next call and of nothing
else: the execution context runs the callback of every completed `Future`, and a call
answers or throws. `DeliveryFairness` adds that the dispatcher runs an actor that has
mail, that the scheduler fires, and that Play closes the connection of a stopped actor.
No request need ever arrive, no token need ever expire, no client need ever write or
leave. A step that may be disabled again (a guard whose connection closes) is only ever
weakly fair.

Why some properties are conditional. With two requests at once most of the stronger
ones fail, for the reasons of section 6; the run says under which condition they hold.

## 4. Proofs

Each theorem holds for every value of the constants: any number of handlers, users,
addresses, tokens, ids, requests and rows, with failing calls.

`SignUpProofs` proves `TypeCorrect`: `SignUpSpec => []SignUpTypeOK`. The type invariant is
inductive because it says, label by label, which local values a handler has (`Ready`).

It also proves that `SignUpInv` (module `SignUpInvariant`) is inductive, then reads
the properties off it. Its parts:

* `RowsInv`: a sign-up deletes no row, so whatever refers to a user - a handler, a token,
  a login info - refers to a live one, and no row that was never written counts as active.
* `AdminInv`: a handler between its activation and its grant confirms an active user; all
  handlers about to grant confirm the same user, and nobody else has the role. This is the
  argument that counting after activating is enough: who counts one sees its own user and
  therefore no other, and a later activation makes every later count two. The primary key
  then lets one insert through.
* `RegistryInv`: a handler about to insert a login info owns a row that no login info
  refers to; one about to store a password owns the login info, and no password is there
  yet; only the winner of a race goes on to the mail and the session.
* `MailInv`: a token names a user that holds the token's address, and a handler that
  activates holds a token that was sent.

Theorems: `AtMostOneSuperadminCorrect`, `ActiveOnlyByMailCorrect`,
`SessionHasLoginCorrect` and `RefinesRegistry` (each step of `SignUp` is a step or a
stutter of `LoginRegistry`, under the identity on three tables). Assumptions: `Nil` is no
user, address or password; `UserId` is finite (only `Cardinality` needs it); the two
switches are Booleans.

`AuthenticatorProofs`. The invariant `CopiesSound` says of every copy - cookie, key,
request - that its authenticator was created, that it was not used in the future, and
that it expires no later than its creation plus the expiry. Type correctness
(`TypeCorrect`) and `NoCopyOutlivesExpiry` (`ExpiryCorrect`) follow. For
`RevocationCorrect` the invariant `RevokedInv` adds, for histories without idle time, that
a request about to write holds the only copy there is (`SoleCopy`): then nobody can
revoke it before it is written, and nothing is written after. `ServiceImplementsSession`
rests on `CopiesStem`: every copy that is valid after a step stems from one that was
valid before it, or is its authenticator's first. Assumptions: times are natural
numbers; `None` is no id, number or copy.

`PackagesProofs`. `TypeCorrect` holds for any overlap: who writes credit has checked, in the
copy it writes, that there is some. With `load = 1` the invariant `SerialInv` adds that
one request is busy at most and its copy is the row (`OneBusy`, `CopyCurrent`); that the
offer covers what was served and what is left (`OfferCoversSerially`) and each step of
`Credit` (`HandlerImplementsCredit`) follow.

`CreditAlwaysRunsOut` is for any overlap again. What a row can still serve is not its
credit: a request that read it early writes an old credit back. So the proof looks at a
row's profile: for each `y`, how many requests at most may find `y` units or more before
somebody else writes the row (`Profile`; `Spenders` are those whose copy still allows
it, and all `load` of them count as long as the row itself has `y`). An action that is
served may raise the profile at low levels, but it lowers it at a higher one (the order
`Above`), hence leaves at least one profile behind for good (`RowSpent`, `BeyondGrows`).
`RunsOutInv` says that at least as many profiles lie above the row's as it has served
actions. A profile never rises with `y` and never exceeds `load`, so there are at most
`choose(n + k, k)` of them (`Fits`, by the rule of Pascal's triangle), one of which the
row still has: that is the bound, and the reason for its `- 1`. The count needs
induction over numbers. The library's induction theorems take an operator, which no
prover here can instantiate, so `Induction` is stated of sets of numbers and proved from
the well-foundedness of inclusion among finite sets; that the recursive `factorial`
behind `choose` exists and obeys its equation is proved from it too (`FactorialIs`).

Assumptions: offers are natural numbers or `None`; `Request` is finite.

`AccountsProofs`: the five flows over one store. It reuses what `SignUpProofs` says of
a step of the sign-up and `FlowProofs` of the types of a change of address and of a
deletion, and of what each flow does to rows and addresses, since every step of `Accounts` is one of a single flow (`Flows`). No bound of a run is assumed, unless said below.

* `AccountsTypeCorrect`. `TypesInv` is `AccountsTypeOK` made inductive: it also says which
  of the two requests of a change of address a label belongs to (`EmailReady`).
* `AccountsActiveOnlyByMail`. Here the argument of `MailInv` fails: rows are deleted,
  written back from stale copies and changed by administrators. What survives
  (`AddedInv`, `MailedInv`): a user named by a token was added once; the address of a row
  is the one its confirmation tokens go to, or one that a token was mailed to for that user;
  and a handler that changes an address holds such a token.
* `MailedTokensExpire`, for any overlap and any number of flows cut short. `ExpiryInv` says
  that a key without a time to live is either the one that a handler gives it next or one
  of a flow that was cut short, of which there are no more than `failures`; and that who is
  about to mail a link has seen its key expire.
* `LoginsStaySingle`, if there is one handler for changes of address (section 6 says why).
  `LoginsInv` adds that a sign-up about to add a login info is the only one to have added
  its user, and that a change of address about to replace a login info has read the only one
  of its user.
* `OpensServedOneByOne`, `NoPasswordLeftServedOneByOne`, under `Serially`: one request at a time, no failure, no swallowed error, no deletion, no
  administrator - the conditions of the run `accounts_serial`, any number of users,
  addresses, passwords, tokens and handlers. Neither is inductive: in the middle of a request the three
  stores disagree. `SerialInv` says call by call what is missing: `RowWritten`,
  `LoginWritten` for a sign-up, `RowMoved`, `LoginMoved`, `PasswordMoved` for a change of
  address, while every other account opens (`Settled`). One lemma for each statement takes
  one of these to the next, one lemma for each flow puts them in order. It needs the
  request sets to be finite (`RequestsAssumption`), because a count of busy handlers
  decides whether a request is accepted.
* `LoginsStayUsable`, under `CutShortOnce`: one request at a time, no administrator, and at most one
  flow cut short, at any call, or any number of swallowed errors - the conditions of
  the run `accounts_failure`. `UsableInv` keeps one of two facts, while no user was deleted. `Aligned`:
  a login info names the address of its user, except between two writes of a change of
  address; swallowed errors leave it alone, because every flow goes on to its next write.
  `Backed`: a login info has a password, except between two writes, and unless the write of
  the password was swallowed. A change of address that is cut short between the row
  and the login info breaks `Aligned` only; any other flow, wherever it is cut short, breaks
  `Backed` at most (`CutShort`). What a change of address still has to write is said
  by `HoldsRow` and `Carries`.
* `NoLoginWithoutUserServedOneByOne`, from the same invariant: while no flow was cut short
  and no user deleted, the comment of `AccountService` is right whenever no request is served, also
  when passwords got lost. `archived_login` shows that the deletion has to be excluded.
* `OneUserPerEmailServedOneByOne` only needs `MaxBusy = 1`: administrators, deletions, any
  number of flows cut short and of errors swallowed are allowed. `UniqueInv` says which
  calls rely on an address that was found to be free: a sign-up from its arrival to the
  insertion, a change of address from the second check to the row. It holds between
  the calls of a request too.

`SocialProofs`: social sign-in beside sign-up, change of address and deletion.
`SocialTypeCorrect` holds for any bounds. The other three assume `Serially`: in the two kinds of history
`moves` and `stays` requests come one by one (`Bound` lets one in at a time), which
`ServedInv` turns into facts about handlers; in `overlap` any number overlap. Failures and swallowed
errors are not restricted.

* `SignedInCorrect`. `NamedInv` follows a user from the look-up to the session: found or added with
  the provider's address, and keeping it, because ids are drawn once
  and whoever changes an address or deletes a user is served alone (`NamesStay`).
* `OneUserPerEmailSociallyCorrect`. `TwinsInv` says of each flow between which of its calls
  it relies on an address being free: a sign-up from its first look-up to the insertion, a change of
  address from the second check to the row, a social sign-in that found nobody.
* `DoorStaysOpenCorrect`. `DoorInv`: while addresses stay, a login info leads to a live user with the
  address its provider gives; with `TwinsInv` to nobody else. It holds in the middle of a
  request too.

`NotificationsProofs`, for any `Mentions` and with listeners registered at any moment.
`TypeCorrect` and `LossExplained` hold for any number of `setRead`s of one user. `OneCopy` and `InboxImplemented` assume `MaxReaders = 1`, one `setRead` of a user
at a time; with two, both fail (section 6). `OnceInv` follows a notification through the
places it can be in (not sent, in the actor's mailbox, in a listener's, being pushed,
pushed; the same for the mail) and says that it is in one of them, once; a listener is
registered once, hence once in each router. `ListInv` says that what a `setRead` has read is still stored until it deletes
the list, and that nothing of it is stored when it writes back. The facts about
sequences that both need (`AppendIs`, `TailIs`, `ConcatIs`: contents, and no
repetition) are proved there first.

`DeliveryProofs`, for any number of connections and notifications. `SocketsInv` ties
each connection to its timer (`GuardOnce`): before the timer fires or is cancelled nothing was
looked up or refused; once it is cancelled one token is looked up at most, and only one of
waiting, refused and joined is true; and every look-up and every `Join` under way comes
from a token that the connection showed. From it follow `SocketsTypeCorrect`, `RefusedClientGoes`, `SharedClientGoes`, the last two
with the exception of section 3: the timer's block on a thread before it is cancelled.
A refused connection has its `PoisonPill` from the same step that told it, and keeps it
until its actor stops (`Doomed`). `ToItsUserOnly` and
`InOrder` rest on `OrderInv`: each mailbox on the way (`actorBox`, `inbox`, `managerBox`) and each
browser holds a chain in the order of sending, and everything further along was sent
before everything behind it (`Ahead`). That is why one replaced client after another
changes nothing. `DeliveryNotifies`: `Delivery` implements `Notifications`, so the theorems about
notifications hold of the composed system, `DeliveryKeepsOneCopy` being the instance that
the run checks.

`RevocationComplete` (in `AuthenticatorProofs`) is `RevokedOpensNothing`, which speaks of
the histories in which requests come one by one (`alone`). `OneByOne` says of them that
what a busy request holds was not ended unless by itself, that Redis holds nothing that
was, and that while the browser still does, the answer that replaces or clears its cookie
is on its way. `HeldSound` ties what an action goes on with after a renewal without a
result to the renewal it is in; such a renewal ends nothing in the browser, so the
theorem says nothing of it.

Only model-checked: all liveness (`FirstActiveIsGranted`,
`EverySendIsStored`, `ConnectedUserGetsIt`, `JoinsOrCloses`, `RefusedIsClosed`), since fairness and
`ENABLED` are out of this prover's reach. Every invariant and every action property and
refinement that a run checks is stated by a theorem above.

## 5. Not modelled

* Inside the account flows: the administrator's `PUT` of a whole user row
  (`Users.update`) and his `POST` of users, which would let a row take any value; roles
  other than superadmin; the organisation lookup in `AccountService.retrieve`, which only
  reads; who owns which client. `Logins.scala:114` stays a hazard without a property: a
  session names an address, and the code promises nothing about its next owner.
* OAuth2 server. A code is a single random row; `deleteAuthCode`
  (`AuthorizationHandler.scala:301`) is a TODO that does nothing and codes live
  `Int.MaxValue` seconds (`Authorizations.scala:102`), so a code may be exchanged for
  ever, and no line of code or docs promises otherwise. Rows of `auth_access_tokens` are
  inserted only after a refresh token was found in that table, where nothing ever puts
  one: the refresh flow never gets past its first query. What does run issues an
  authenticator, which is modelled.
* Groups, organisations, entities. Sequences of inserts whose results are ignored
  (`GroupService.scala:203`), three transactions for an organisation, and SQL that is read
  by nobody but `findAdmin`; `GroupDAO.update` is rejected by PostgreSQL
  (`SET grou.name = ...`). Nothing states what the rows should keep.
* Automatic CRUD and files. Generic over the application's rows, by reflection and JSON:
  what a lost update means depends on the row. Its find, rewrite and delete are modelled
  where the repository gives the row a meaning, in `Packages`.
* Front-end bundles (`src/public/javascripts/ui.js`, `vendor.js`, `app.js`): minified
  third-party code (Bootstrap UI, jQuery plug-ins, charts, maps, the demo pages of an
  admin template), 42 lines that are the repository's only `.js`. They keep no state of
  this middleware and call none of its routes, so there is nothing of the system in them
  to model. The program is Scala.
* Clients, grant types, evolutions beyond their constraints, mail texts, configuration,
  parsing, views: single rows, pure functions and I/O.

## 6. What the model taught

Situations TLC reaches when the condition of a property is dropped, kept here because
they bound what can be claimed.

Accounts, two requests at once:

* Two changes of one user's address read the same login info. After the first has moved
  it, somebody else may sign up with the old address; the second then runs `UPDATE ...
  WHERE provider_key = old` (`AuthLoginInfoDao.scala:44`) on that row, takes it from its
  owner, and leaves its own user with two. `OneLoginPerUser` is therefore stated, checked
  and proved with one change of address at a time.
* `updateUser` writes back a row it read before: an activation or a deletion in between
  is undone. A user set back to inactive lets a later confirmation count one again, and a
  second superadmin is appointed.
* Two first confirmations that overlap both count two: nobody becomes superadmin.
* An orphan row left by a refused login info is still found by address, can be mailed,
  confirmed and made superadmin, and cannot sign in.
* A session outlives a change of address and belongs to the next owner of the address.
* An archived user's login info keeps its address from signing up again, and each
  attempt leaves one more inactive row.
* A sign-up whose password was not stored, followed by a change of address that stops
  half way, needs two failures of two kinds to leave a login info without any way to
  sign in: `EveryLoginUsable` says that one kind is not enough.

Social sign-in: after a deletion without purge, or a change of address, the next sign-in
with the profile is a `MatchError` (`(None, Some(_))`), or the "TODO" failure if somebody
else has taken the address. `(Some, None)` returns the account before it was saved, which
only the login event sees. Two sign-ins that overlap leave two users with one address.
Social users are active at once, without a mail. A sign-in cut short repairs itself with
the next one.

Authenticator: `update` is `add`. A request that had retrieved an authenticator before
another one renewed or discarded it puts the key back at its end, although the comment
of `renew` says that "after that it isn't possible to use a bearer token which was bound
to this authenticator" (`CookieBearerTokenAuthenticator.scala:344`). The cookie is not
checked against Redis at all. A stop between `SET` and `EXPIREAT` leaves a key for ever;
`isValid` is what keeps it from opening anything.

Authenticator, renewed without a result: the browser's cookie stays the old one, which is
not asked about in Redis and opens the application until it expires, unless the action
puts the returned one in its place; and with an idle timeout the `update` at the end of the
action, which is `add`, puts the key of the old one back.

Notifications: `setRead` drops every text in which the marked UUID occurs, hence also an
unread notification whose data holds the UUID of the one that was read
(`NotificationService.scala:33`). Two `setRead`s of one user bring back what the other marked as read, or
double the list. A notification stored between `LRANGE` and `DEL` is lost. A failure
before the write back loses the list. The order of `RPUSH`es is not kept.

Web sockets: a second connection replaces the first, which then gets nothing and stays
open; nobody sends `Quit`, so what is sent to a closed client is lost. A timer that fired
just before the message that cancels it lets the connection join and closes it; a
connection refused at that moment may still join with a second token before it is closed.

Packages: two requests that read one state both spend it, contrary to "user can create 5
other users" (`packages/README.md:68`); with `k` requests at once `n` units serve up to
`choose(n + k, k) - 1` actions. A request in flight un-bills a row that was billed
meanwhile, and is served by one that was deleted.

## 7. What could come next

1. The composition of `Authenticator` with `LogIn`, so that a session is not a bit but its
   copies, and of the web-socket look-up with `Authenticator`.
2. Organisations, once the code states what its rows must keep.
