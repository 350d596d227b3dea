------------------------------- MODULE Delivery -------------------------------
(***************************************************************************)
(* From Notification.send to Redis, to the mailbox and to the browser: the *)
(* notification actor and its listeners, setRead, the web-socket manager   *)
(* and the guarded connections.                                            *)
(*                                                                         *)
(* The listeners only read their own mailboxes. A history follows either   *)
(* the two that store and mail or the one that goes on to the web sockets; *)
(* the mailboxes of the others are left as they are, as if those were slow,*)
(* and so is that of the notification actor where nothing is sent.         *)
(***************************************************************************)
EXTENDS Notifications, WebSockets

CONSTANT Parts   \* bounds: what the histories exercise, one of these each

(* The notifications sent, whether some may be before OnStart registered its   *)
(* listeners, whether they are stored or go to the sockets, the connections    *)
(* opened, the messages written on each, and whether tokens end and clients    *)
(* are refused.                                                                *)
Part == [notifs : SUBSET Notif, early : BOOLEAN, stored : BOOLEAN,
         conns : SUBSET Conn, messages : 0..MaxMessages, refusals : BOOLEAN]

ASSUME PartsAssumption == Parts \subseteq Part
ASSUME PayloadAssumption == Payload = Notif

VARIABLES
    sent,    \* the notifications in the order they were sent; not in the code
    part     \* what this history exercises; never changes

deliveryVars == <<notifVars, wsVars, sent, part>>

DeliveryInit ==
    /\ NotificationsInit /\ WebSocketsInit
    /\ sent = <<>>
    /\ part \in Parts /\ part.early = (starting # <<>>)

-----------------------------------------------------------------------------
SendNotification(n, u) ==
    /\ n \in part.notifs
    /\ Send(n, u)
    /\ sent' = Append(sent, n)
    /\ UNCHANGED <<wsVars, part>>

MarkRead(r, u, n) == part.stored /\ ReadAll(r, u, n) /\ UNCHANGED <<wsVars, sent, part>>

Distribute == part.notifs # {} /\ ActorStep /\ UNCHANGED <<wsVars, sent, part>>

(* OnStart registers a listener.                                               *)
Start == part.notifs # {} /\ RegisterNext /\ UNCHANGED <<wsVars, sent, part>>

Store(n) ==
    /\ part.stored
    /\ StartPush \/ Push(n) \/ PushFails(n)
    /\ UNCHANGED <<wsVars, sent, part>>

SendMail(n) ==
    /\ part.stored
    /\ StartMail \/ Mail(n)
    /\ UNCHANGED <<wsVars, sent, part>>

SetRead(r) == ReadStep(r) /\ UNCHANGED <<wsVars, sent, part>>

-----------------------------------------------------------------------------
Waiting == ToSet(managerBox)

(* A slip: one message waits for a user at a time.                             *)
ForwardOne ==
    /\ ~part.stored
    /\ ForwardToSocket
    /\ LET n == Head(inbox["webSocket"]) IN
       IF \E m \in Waiting : m.user = addressee[n] THEN UNCHANGED wsVars
                                                   ELSE SendToUser(addressee[n], n)
    /\ UNCHANGED <<sent, part>>

(* A slip: notifications overtake what the manager has not handled yet.        *)
ForwardFirst ==
    /\ ~part.stored
    /\ ForwardToSocket
    /\ LET n == Head(inbox["webSocket"]) IN
       managerBox' = <<SendTo(addressee[n], n)>> \o managerBox
    /\ UNCHANGED <<guardVars, delivered, live, clients, sent, part>>

(* WebSocketNotificationActor hands it to the manager.                         *)
Forward ==
    /\ ~part.stored
    /\ ForwardToSocket
    /\ LET n == Head(inbox["webSocket"]) IN SendToUser(addressee[n], n)
    /\ UNCHANGED <<sent, part>>

SocketStep ==
    /\ WebSocketsNext
    /\ \A c \in Conn : /\ socket'[c] # "new" => c \in part.conns
                       /\ written'[c] <= part.messages
    /\ ~part.refusals => UNCHANGED live /\ \A c \in Conn : "forbidden" \notin told'[c]
    /\ UNCHANGED <<notifVars, sent, part>>

DeliveryNext ==
    \/ \E n \in Notif, u \in User : SendNotification(n, u)
    \/ \E r \in ReadRequest, u \in User, n \in Notif : MarkRead(r, u, n)
    \/ Start \/ Distribute \/ Forward \/ SocketStep
    \/ \E n \in Notif : Store(n) \/ SendMail(n)
    \/ \E r \in ReadRequest : SetRead(r)

DeliverySpec == DeliveryInit /\ [][DeliveryNext]_deliveryVars

(* OnStart runs to its end, the dispatcher runs the actors that have mail and  *)
(* the pool every Future it was given, a command answers or fails, the         *)
(* scheduler fires, and Play closes the connection of an actor that stopped.   *)
DeliveryFairness ==
    /\ WF_deliveryVars(Start)
    /\ WF_deliveryVars(Distribute)
    /\ WF_deliveryVars(Forward)
    /\ \A n \in Notif : WF_deliveryVars(Store(n)) /\ WF_deliveryVars(SendMail(n))
    /\ \A r \in ReadRequest : WF_deliveryVars(SetRead(r))
    /\ WF_wsVars(ManagerStep)
    /\ \A c \in Conn :
         /\ WF_wsVars(TimerExpires(c)) /\ WF_wsVars(TimerRuns(c))
         /\ WF_wsVars(GuardStep(c)) /\ WF_wsVars(LookupStep(c)) /\ WF_wsVars(Closes(c))

DeliveryFairSpec == DeliverySpec /\ DeliveryFairness

-----------------------------------------------------------------------------
(* A notification reaches one connection at most, and one on which a token of  *)
(* its addressee was shown, whoever joins, leaves or is replaced while it is   *)
(* on its way (WebSocketManagerActor, WebSocketSecurityActor.checkToken).      *)
OnlyToItsUser ==
    \A c, d \in Conn : \A n \in ToSet(delivered[c]) :
        /\ \E t \in shown[c] : TokenUser[t] = addressee[n]
        /\ n \in ToSet(delivered[d]) => c = d

(* What a connection gets, it gets once and in the order it was sent, through  *)
(* three mailboxes and a router (NotificationActor, WebSocketManagerActor).    *)
DeliveredInOrder ==
    \A c \in Conn : \A i, j \in DOMAIN delivered[c] :
        i < j => \E k, l \in DOMAIN sent :
            k < l /\ sent[k] = delivered[c][i] /\ sent[l] = delivered[c][j]

(* Waiting for the notification actor, which knows the listener by then, or    *)
(* for the listener.                                                           *)
OnItsWay(n, l) ==
    \/ Sending(n) \in ToSet(actorBox) /\ l \in ToSet(actors)
    \/ n \in ToSet(inbox[l])

(* A notification is stored or its failure logged, however busy its reader is, *)
(* if the notification actor handles it after the registration of the listener *)
(* that stores it, whichever routers it made before                            *)
(* (NotificationActor.createOrRetrieveBroadcastActor,                          *)
(* RedisStorageNotificationActor.addNotification).                             *)
EverySendIsStored ==
    \A n \in Notif :
        (part.stored /\ (OnItsWay(n, "redis") \/ n \in pushing)) ~> (Kept(n) \/ n \in failed)

(* A notification sent to a user who is connected arrives, unless the          *)
(* connection ends or is replaced meanwhile, or no web-socket listener is      *)
(* registered yet (Notification.send, WebSocketManagerActor.receive).          *)
ConnectedUserGetsIt ==
    \A n \in Notif, u \in User, c \in Conn :
        (addressee[n] = u /\ OnItsWay(n, "webSocket") /\ clients[u] = c) ~>
            (n \in ToSet(delivered[c]) \/ clients[u] # c \/ ~CanWrite(c))
=============================================================================
