---------------------------- MODULE Notifications ----------------------------
(***************************************************************************)
(* Notifications: the actor that broadcasts a notification to the          *)
(* listeners registered so far, through a router it keeps for each list of *)
(* them; OnStart, which registers three; these, which store it in Redis,   *)
(* mail it and hand it to the web sockets; and NotificationService.setRead,*)
(* which rewrites the stored list with three Redis commands.               *)
(*                                                                         *)
(* An actor handles one message at a time, in the order they were sent.    *)
(* What a listener starts in a Future runs whenever the pool gets to it.   *)
(***************************************************************************)
EXTENDS Recipients, Naturals, FiniteSets, SequencesExt

CONSTANTS
    Notif,         \* the UUIDs that send may draw
    Mentions,      \* those that occur in the JSON text stored for each of them
    ReadRequest,   \* the setRead requests the server may be serving at once
    MaxReaders,    \* bound: how many of them for one user
    MaxStored,     \* bound: how long a list they read may be
    Nobody         \* None

ASSUME NobodyAssumption == Nobody \notin User /\ Nobody \notin Notif
(* The text holds the UUID itself as "id"; the type and the data, which are    *)
(* the sender's, may hold others.                                              *)
ASSUME MentionsAssumption ==
    /\ Mentions \in [Notif -> SUBSET Notif]
    /\ \A n \in Notif : n \in Mentions[n]
ASSUME ReadersAssumption ==
    MaxReaders \in Nat \ {0} /\ MaxStored \in Nat /\ IsFiniteSet(ReadRequest)

Listener == {"webSocket", "redis", "mailer"}
AtStart  == <<"webSocket", "redis", "mailer">>

VARIABLES
    addressee,     \* whom a notification is for, Nobody before it is sent
    actorBox,      \* mailbox of the notification actor
    actors,        \* its list of listeners
    observersMap,  \* its routers: the listeners that each was made with, under a
                   \* hash of their list, which stands for the list here
    starting,      \* the listeners that OnStart has yet to register
    inbox,         \* mailbox of each listener
    pushing,       \* the RPUSHes started and not yet executed
    mailing,       \* the mails started and not yet sent
    mailed,        \* the notifications a mail was sent for, in that order
    redisList,     \* Redis: the list of each user
    rd,            \* what each setRead has to do next, and its local values
    failed         \* the RPUSHes that were logged as errors, the requests that
                   \* were cut short between two commands

registry    == <<actors, observersMap, starting>>
actorVars   == <<actorBox, inbox, registry>>
mailVars    == <<mailing, mailed>>
requestVars == <<rd, failed>>
notifVars   == <<addressee, actorBox, inbox, registry, pushing, mailing, mailed, redisList,
                 rd, failed>>

-----------------------------------------------------------------------------
Message == [kind : {"register"}, listener : Listener]
           \cup [kind : {"send"}, notif : Notif]

Registration(l) == [kind |-> "register", listener |-> l]
Sending(n)      == [kind |-> "send", notif |-> n]

Reader == [pc : {"idle", "delete", "restore"}, user : User \cup {Nobody},
           notif : Notif \cup {Nobody}, copy : Seq(Notif)]

ReaderIdle == [pc |-> "idle", user |-> Nobody, notif |-> Nobody, copy |-> <<>>]

(* Mailboxes, lists and requests have their types; a router serves the list it *)
(* was made for; whatever is on its way, or stored, is addressed to somebody,  *)
(* and a list holds its own user's.                                            *)
NotificationsTypeOK ==
    /\ addressee \in [Notif -> User \cup {Nobody}]
    /\ actorBox \in Seq(Message)
    /\ actors \in Seq(Listener) /\ starting \in Seq(Listener)
    /\ \A list \in DOMAIN observersMap : list \in Seq(Listener) /\ observersMap[list] = list
    /\ inbox \in [Listener -> Seq(Notif)]
    /\ pushing \subseteq Notif /\ mailing \subseteq Notif
    /\ mailed \in Seq(Notif)
    /\ redisList \in [User -> Seq(Notif)]
    /\ \A u \in User : \A n \in ToSet(redisList[u]) : addressee[n] = u
    /\ \A n \in pushing \cup mailing : addressee[n] # Nobody
    /\ rd \in [ReadRequest -> Reader]
    /\ failed \subseteq Notif \cup ReadRequest
    /\ \A r \in ReadRequest : rd[r].pc # "idle" =>
         /\ rd[r].user \in User
         /\ \A n \in ToSet(rd[r].copy) : addressee[n] = rd[r].user

(* OnStart, an eager singleton as others of the application may be, has just   *)
(* created the listeners; or they have long been registered.                   *)
NotificationsInit ==
    /\ addressee = [n \in Notif |-> Nobody]
    /\ actorBox = <<>>
    /\ \/ starting = AtStart /\ actors = <<>>
       \/ starting = <<>> /\ actors = AtStart
    /\ observersMap = [list \in {} |-> list]
    /\ inbox = [l \in Listener |-> <<>>]
    /\ pushing = {} /\ mailing = {} /\ mailed = <<>>
    /\ redisList = [u \in User |-> <<>>]
    /\ rd = [r \in ReadRequest |-> ReaderIdle]
    /\ failed = {}

-----------------------------------------------------------------------------
(* Notification.send, from any thread: a fresh UUID, and a message.            *)
Send(n, u) ==
    /\ addressee[n] = Nobody
    /\ addressee' = [addressee EXCEPT ![n] = u]
    /\ actorBox' = Append(actorBox, Sending(n))
    /\ UNCHANGED <<registry, inbox, pushing, mailVars, redisList, requestVars>>

(* OnStart: the messages of others may come before and between its three.      *)
RegisterNext ==
    /\ starting # <<>>
    /\ actorBox' = Append(actorBox, Registration(Head(starting)))
    /\ starting' = Tail(starting)
    /\ UNCHANGED <<addressee, actors, observersMap, inbox, pushing, mailVars, redisList,
                   requestVars>>

RegisterListener ==
    /\ actorBox # <<>> /\ Head(actorBox).kind = "register"
    /\ actors' = Append(actors, Head(actorBox).listener)
    /\ actorBox' = Tail(actorBox)
    /\ UNCHANGED <<addressee, observersMap, starting, inbox, pushing, mailVars, redisList,
                   requestVars>>

(* What the router of these listeners adds to their mailboxes, in the thread   *)
(* that sends.                                                                 *)
Routed(listeners, n) ==
    [l \in Listener |->
        inbox[l] \o [i \in 1..Cardinality({k \in DOMAIN listeners : listeners[k] = l}) |-> n]]

(* A slip: the router made first is taken for every list.                      *)
BroadcastStale ==
    /\ actorBox # <<>> /\ Head(actorBox).kind = "send"
    /\ LET first == IF DOMAIN observersMap = {} THEN actors
                    ELSE CHOOSE list \in DOMAIN observersMap : TRUE
       IN  /\ inbox' = Routed(first, Head(actorBox).notif)
           /\ observersMap' = [list \in {first} |-> list]
    /\ actorBox' = Tail(actorBox)
    /\ UNCHANGED <<addressee, actors, starting, pushing, mailVars, redisList, requestVars>>

(* createOrRetrieveBroadcastActor: the router kept for the listeners of now,   *)
(* or else a new one of them.                                                  *)
Observers == IF actors \in DOMAIN observersMap THEN observersMap[actors] ELSE actors

(* NotificationActor.send; without listeners a warning is logged.              *)
Broadcast ==
    /\ actorBox # <<>> /\ Head(actorBox).kind = "send"
    /\ inbox' = Routed(Observers, Head(actorBox).notif)
    /\ observersMap' = [list \in DOMAIN observersMap \cup {actors} |->
                          IF list = actors THEN Observers ELSE observersMap[list]]
    /\ actorBox' = Tail(actorBox)
    /\ UNCHANGED <<addressee, actors, starting, pushing, mailVars, redisList, requestVars>>

Take(l) == inbox[l] # <<>> /\ inbox' = [inbox EXCEPT ![l] = Tail(@)]

(* RedisStorageNotificationActor: the command runs in a Future.                *)
StartPush ==
    /\ Take("redis")
    /\ pushing' = pushing \cup {Head(inbox["redis"])}
    /\ UNCHANGED <<addressee, actorBox, registry, mailVars, redisList, requestVars>>

(* A slip: one list for everybody.                                             *)
PushShared(n) ==
    /\ n \in pushing
    /\ pushing' = pushing \ {n}
    /\ redisList' = [u \in User |-> Append(redisList[u], n)]
    /\ UNCHANGED <<addressee, actorVars, mailVars, requestVars>>

Push(n) ==
    /\ n \in pushing
    /\ pushing' = pushing \ {n}
    /\ redisList' = [redisList EXCEPT ![addressee[n]] = Append(@, n)]
    /\ UNCHANGED <<addressee, actorVars, mailVars, requestVars>>

(* An error is logged, and the notification is not stored.                     *)
PushFails(n) ==
    /\ n \in pushing
    /\ pushing' = pushing \ {n}
    /\ failed' = failed \cup {n}
    /\ UNCHANGED <<addressee, actorVars, mailVars, redisList, rd>>

StartMail ==
    /\ Take("mailer")
    /\ mailing' = mailing \cup {Head(inbox["mailer"])}
    /\ UNCHANGED <<addressee, actorBox, registry, pushing, mailed, redisList, requestVars>>

(* MailerNotificationService.sendMail: no mail if the user or its address is   *)
(* not found, or if the application has no text for the kind of message.       *)
Mail(n) ==
    /\ n \in mailing
    /\ mailing' = mailing \ {n}
    /\ mailed' \in {mailed, Append(mailed, n)}
    /\ UNCHANGED <<addressee, actorVars, pushing, redisList, requestVars>>

(* WebSocketNotificationActor; what it sends on belongs to WebSockets.         *)
ForwardToSocket ==
    /\ Take("webSocket")
    /\ UNCHANGED <<addressee, actorBox, registry, pushing, mailVars, redisList,
                   requestVars>>

-----------------------------------------------------------------------------
ReadersOf(u) == {r \in ReadRequest : rd[r].user = u}

(* filterNot(_.contains(n)), without recursion: the texts where n does not     *)
(* occur are kept, each at its rank.                                           *)
Without(s, n) ==
    LET keep    == {i \in DOMAIN s : n \notin Mentions[s[i]]}
        rank(i) == Cardinality({k \in keep : k <= i})
    IN  [j \in 1..Cardinality(keep) |-> s[CHOOSE i \in keep : rank(i) = j]]

(* NotificationService.setRead: LRANGE, ...                                    *)
ReadAll(r, u, n) ==
    /\ rd[r].pc = "idle"
    /\ Cardinality(ReadersOf(u)) < MaxReaders /\ Len(redisList[u]) <= MaxStored
    /\ rd' = [rd EXCEPT ![r] = [pc |-> "delete", user |-> u, notif |-> n,
                                copy |-> redisList[u]]]
    /\ failed' = failed \ {r}
    /\ UNCHANGED <<addressee, actorVars, pushing, mailVars, redisList>>

(* A slip: the list is not deleted before it is written back.                  *)
DeleteNothing(r) ==
    /\ rd[r].pc = "delete"
    /\ rd' = [rd EXCEPT ![r].pc = "restore"]
    /\ UNCHANGED <<addressee, actorVars, pushing, mailVars, redisList, failed>>

(* ... DEL, ...                                                                *)
DeleteAll(r) ==
    /\ rd[r].pc = "delete"
    /\ redisList' = [redisList EXCEPT ![rd[r].user] = <<>>]
    /\ rd' = [rd EXCEPT ![r].pc = "restore"]
    /\ UNCHANGED <<addressee, actorVars, pushing, mailVars, failed>>

(* A slip: everything that was read is written back.                           *)
RestoreEverything(r) ==
    /\ rd[r].pc = "restore"
    /\ redisList' = [redisList EXCEPT ![rd[r].user] = @ \o rd[r].copy]
    /\ rd' = [rd EXCEPT ![r] = ReaderIdle]
    /\ UNCHANGED <<addressee, actorVars, pushing, mailVars, failed>>

(* A slip: filter for filterNot.                                               *)
RestoreNamed(r) ==
    /\ rd[r].pc = "restore"
    /\ redisList' = [redisList EXCEPT ![rd[r].user] =
                        @ \o SelectSeq(rd[r].copy, LAMBDA m : rd[r].notif \in Mentions[m])]
    /\ rd' = [rd EXCEPT ![r] = ReaderIdle]
    /\ UNCHANGED <<addressee, actorVars, pushing, mailVars, failed>>

(* ... RPUSH of what was read, but for the texts with the marked UUID.         *)
RestoreOthers(r) ==
    /\ rd[r].pc = "restore"
    /\ redisList' = [redisList EXCEPT ![rd[r].user] = @ \o Without(rd[r].copy, rd[r].notif)]
    /\ rd' = [rd EXCEPT ![r] = ReaderIdle]
    /\ UNCHANGED <<addressee, actorVars, pushing, mailVars, failed>>

(* A command fails, or the server stops, between two of them.                  *)
ReadAborts(r) ==
    /\ rd[r].pc # "idle"
    /\ rd' = [rd EXCEPT ![r] = ReaderIdle]
    /\ failed' = failed \cup {r}
    /\ UNCHANGED <<addressee, actorVars, pushing, mailVars, redisList>>

-----------------------------------------------------------------------------
ActorStep    == RegisterListener \/ Broadcast
StorageStep  == StartPush \/ \E n \in Notif : Push(n) \/ PushFails(n)
MailerStep   == StartMail \/ \E n \in Notif : Mail(n)
ReadStep(r)  == DeleteAll(r) \/ RestoreOthers(r) \/ ReadAborts(r)
Arrival      == \/ \E n \in Notif, u \in User : Send(n, u)
                \/ \E r \in ReadRequest, u \in User, n \in Notif : ReadAll(r, u, n)

NotificationsNext ==
    \/ Arrival \/ RegisterNext
    \/ ActorStep \/ StorageStep \/ MailerStep \/ ForwardToSocket
    \/ \E r \in ReadRequest : ReadStep(r)

NotificationsSpec == NotificationsInit /\ [][NotificationsNext]_notifVars

-----------------------------------------------------------------------------
(* A notification not yet stored, one that its reader can still get, ...       *)
Travelling(n) ==
    \/ addressee[n] = Nobody
    \/ Sending(n) \in ToSet(actorBox)
    \/ n \in ToSet(inbox["redis"])
    \/ n \in pushing

Kept(n) ==
    \/ \E u \in User : n \in ToSet(redisList[u])
    \/ \E r \in ReadRequest :
         /\ rd[r].pc = "restore" /\ n \in ToSet(rd[r].copy)
         /\ rd[r].notif \notin Mentions[n]

Stage == [n \in Notif |-> IF Kept(n) THEN "kept" ELSE IF Travelling(n) THEN "new" ELSE "gone"]

Inbox == INSTANCE NotificationInbox WITH Item <- Notif, stage <- Stage

(* ... and neither of them again: with one setRead of a user at a time         *)
(* (MaxReaders = 1), what was marked or lost does not come back, whichever     *)
(* pushes and mails run in between and wherever a request is cut short         *)
(* (NotificationService.setRead, RedisStorageNotificationActor).               *)
ImplementsInbox == Inbox!InboxSpec

(* With one setRead of a user at a time (MaxReaders = 1) nobody is shown or     *)
(* mailed a notification twice: the routers, the Futures and the rewriting of  *)
(* the list, wherever it is cut short, leave one copy. Two that overlap may    *)
(* both write back what both had read (NotificationActor.send, setRead).       *)
StoredAndMailedOnce ==
    /\ \A u \in User : IsInjective(redisList[u])
    /\ IsInjective(mailed)

(* However many requests rewrite the list at once, a notification that was     *)
(* stored is lost to one of them only if the UUID that this one marks occurs   *)
(* in its text, or if this one had read the list before it was stored or was   *)
(* cut short: the others are written back (NotificationService.setRead).       *)
LostOnlyIfNamedOrOvertaken ==
    [][\A n \in Notif : Kept(n) /\ ~Kept(n)' =>
         \E r \in ReadRequest :
            /\ rd[r].user = addressee[n]
            /\ \/ rd[r].notif \in Mentions[n]
               \/ n \notin ToSet(rd[r].copy)
               \/ r \in failed']_notifVars
=============================================================================
