----------------------------- MODULE WebSockets -----------------------------
(***************************************************************************)
(* Web sockets: the actor that guards one connection (WebSocketSecurity-   *)
(* Actor), its one-minute timer, the look-up of the token it is shown, and *)
(* the one manager that knows which connection belongs to which user.      *)
(*                                                                         *)
(* Play creates the guarding actor of a connection and passes it what the  *)
(* client writes; it stops the actor when the client leaves or a message   *)
(* makes it throw, and closes the connection once the actor has stopped.   *)
(***************************************************************************)
EXTENDS Recipients, Naturals, FiniteSets, SequencesExt

CONSTANTS
    Conn,          \* connections, each opened once
    WsToken,       \* the ids of authenticators
    TokenUser,     \* whose account each of them leads to
    Payload,       \* what can be sent to a user
    MaxMessages,   \* bound: the messages a client writes on one connection
    NoConn         \* None

ASSUME TokenUserAssumption == TokenUser \in [WsToken -> User]
ASSUME WsAssumption == NoConn \notin Conn /\ MaxMessages \in Nat

(* A message isToken rejects, and PoisonPill.                                  *)
Junk == "junk"
Pill == "pill"

ASSUME MessagesAssumption == Junk \notin WsToken /\ Pill \notin WsToken

VARIABLES
    socket,     \* each connection: new, open, ending once its actor stopped, closed
    timer,      \* the timer of its actor; executed: its block waits for a thread
    box,        \* mailbox of its actor
    written,    \* how many messages its client wrote
    lookup,     \* the look-ups under way, with what Redis answered
    told,       \* the errors written to the client
    shown,      \* the tokens that were looked up; not in the code
    delivered,  \* what was written to the client for a user
    live,       \* the tokens that still open a session
    managerBox, \* mailbox of the manager
    clients     \* its map

guardVars   == <<socket, timer, box, written, lookup, told, shown>>
managerVars == <<managerBox, clients, delivered>>
wsVars      == <<socket, timer, box, written, lookup, told, shown, delivered, live,
                 managerBox, clients>>

Lookup == [token : WsToken, found : BOOLEAN]
ManagerMessage == [kind : {"join"}, user : User, conn : Conn]
                  \cup [kind : {"send"}, user : User, payload : Payload]

Join(u, c)   == [kind |-> "join", user |-> u, conn |-> c]
SendTo(u, m) == [kind |-> "send", user |-> u, payload |-> m]

(* Types; and every connection that was opened has had its timer started.      *)
WebSocketsTypeOK ==
    /\ socket \in [Conn -> {"new", "open", "ending", "closed"}]
    /\ timer \in [Conn -> {"none", "scheduled", "executed", "done", "cancelled"}]
    /\ box \in [Conn -> Seq(WsToken \cup {Junk, Pill})]
    /\ written \in [Conn -> 0..MaxMessages]
    /\ lookup \in [Conn -> Seq(Lookup)]
    /\ told \in [Conn -> SUBSET {"tokenNotFound", "forbidden"}]
    /\ shown \in [Conn -> SUBSET WsToken]
    /\ delivered \in [Conn -> Seq(Payload)]
    /\ live \subseteq WsToken
    /\ managerBox \in Seq(ManagerMessage)
    /\ clients \in [User -> Conn \cup {NoConn}]
    /\ \A c \in Conn : (socket[c] = "new") <=> (timer[c] = "none")

WebSocketsInit ==
    /\ socket = [c \in Conn |-> "new"]
    /\ timer = [c \in Conn |-> "none"]
    /\ box = [c \in Conn |-> <<>>]
    /\ written = [c \in Conn |-> 0]
    /\ lookup = [c \in Conn |-> <<>>]
    /\ told = [c \in Conn |-> {}]
    /\ shown = [c \in Conn |-> {}]
    /\ delivered = [c \in Conn |-> <<>>]
    /\ live = WsToken
    /\ managerBox = <<>>
    /\ clients = [u \in User |-> NoConn]

-----------------------------------------------------------------------------
(* A slip: the timer is not started.                                           *)
OpenUntimed(c) ==
    /\ socket[c] = "new"
    /\ socket' = [socket EXCEPT ![c] = "open"]
    /\ UNCHANGED <<timer, box, written, lookup, told, shown, live, managerVars>>

(* The connection, as Play drives it.                                          *)
Open(c) ==
    /\ socket[c] = "new"
    /\ socket' = [socket EXCEPT ![c] = "open"]
    /\ timer' = [timer EXCEPT ![c] = "scheduled"]
    /\ UNCHANGED <<box, written, lookup, told, shown, live, managerVars>>

ClientWrites(c, m) ==
    /\ socket[c] = "open"
    /\ written[c] < MaxMessages
    /\ written' = [written EXCEPT ![c] = @ + 1]
    /\ box' = [box EXCEPT ![c] = Append(@, m)]
    /\ UNCHANGED <<socket, timer, lookup, told, shown, live, managerVars>>

ClientLeaves(c) ==
    /\ socket[c] = "open"
    /\ Pill \notin ToSet(box[c])
    /\ box' = [box EXCEPT ![c] = Append(@, Pill)]
    /\ UNCHANGED <<socket, timer, written, lookup, told, shown, live, managerVars>>

Closes(c) ==
    /\ socket[c] = "ending"
    /\ socket' = [socket EXCEPT ![c] = "closed"]
    /\ UNCHANGED <<timer, box, written, lookup, told, shown, live, managerVars>>

(* An authenticator expires or is discarded, a user is deleted.                *)
TokenEnds(t) ==
    /\ t \in live
    /\ live' = live \ {t}
    /\ UNCHANGED <<guardVars, managerVars>>

-----------------------------------------------------------------------------
CanWrite(c)   == socket[c] \in {"open", "ending"}
Tell(c, e)    == told' = [told EXCEPT ![c] = IF CanWrite(c) THEN @ \cup {e} ELSE @]
IsStopped(c)  == socket[c] # "open"
(* A message to an actor that has stopped is lost. PoisonPill follows what the *)
(* client is told in the same step, as nothing reads what it was told.         *)
Poison(c, b)  == box' = [b EXCEPT ![c] = IF IsStopped(c) THEN <<>> ELSE Append(@, Pill)]
StopActor(c)  == /\ socket' = [socket EXCEPT ![c] = "ending"]
                 /\ box' = [box EXCEPT ![c] = <<>>]

(* scheduleOnce, in two parts: the scheduler hands the block to a thread, from *)
(* when on it cannot be cancelled, and isCancelled stays false; the thread     *)
(* runs it.                                                                    *)
TimerExpires(c) ==
    /\ timer[c] = "scheduled"
    /\ timer' = [timer EXCEPT ![c] = "executed"]
    /\ UNCHANGED <<socket, box, written, lookup, told, shown, live, managerVars>>

TimerRuns(c) ==
    /\ timer[c] = "executed"
    /\ timer' = [timer EXCEPT ![c] = "done"]
    /\ Tell(c, "tokenNotFound")
    /\ Poison(c, box)
    /\ UNCHANGED <<socket, written, lookup, shown, live, managerVars>>

Cancelled(c) == [timer EXCEPT ![c] = IF @ = "scheduled" THEN "cancelled" ELSE @]
HasMail(c)   == socket[c] = "open" /\ box[c] # <<>>

(* WebSocketSecurityActor.receive: a message after the timer was cancelled is  *)
(* dropped.                                                                    *)
IgnoreMessage(c) ==
    /\ HasMail(c) /\ Head(box[c]) # Pill
    /\ timer[c] = "cancelled"
    /\ box' = [box EXCEPT ![c] = Tail(@)]
    /\ UNCHANGED <<socket, timer, written, lookup, told, shown, live, managerVars>>

(* A slip: the timer is not cancelled, and a token is still taken.             *)
RefuseJunkAndWait(c) ==
    /\ HasMail(c) /\ Head(box[c]) = Junk
    /\ timer[c] # "cancelled"
    /\ Tell(c, "forbidden")
    /\ Poison(c, [box EXCEPT ![c] = Tail(@)])
    /\ UNCHANGED <<socket, timer, written, lookup, shown, live, managerVars>>

RefuseJunk(c) ==
    /\ HasMail(c) /\ Head(box[c]) = Junk
    /\ timer[c] # "cancelled"
    /\ timer' = Cancelled(c)
    /\ Tell(c, "forbidden")
    /\ Poison(c, [box EXCEPT ![c] = Tail(@)])
    /\ UNCHANGED <<socket, written, lookup, shown, live, managerVars>>

(* A slip: the timer is not asked whether a token was shown before.            *)
CheckEveryToken(c) ==
    /\ HasMail(c) /\ Head(box[c]) \in WsToken
    /\ LET t == Head(box[c]) IN
       /\ lookup' = [lookup EXCEPT ![c] = Append(@, [token |-> t, found |-> t \in live])]
       /\ shown' = [shown EXCEPT ![c] = @ \cup {t}]
    /\ timer' = Cancelled(c)
    /\ box' = [box EXCEPT ![c] = Tail(@)]
    /\ UNCHANGED <<socket, written, told, live, managerVars>>

(* checkToken: Redis is asked at once, the account in a Future.                *)
CheckToken(c) ==
    /\ HasMail(c) /\ Head(box[c]) \in WsToken
    /\ timer[c] # "cancelled"
    /\ LET t == Head(box[c]) IN
       /\ lookup' = [lookup EXCEPT ![c] = Append(@, [token |-> t, found |-> t \in live])]
       /\ shown' = [shown EXCEPT ![c] = @ \cup {t}]
    /\ timer' = Cancelled(c)
    /\ box' = [box EXCEPT ![c] = Tail(@)]
    /\ UNCHANGED <<socket, written, told, live, managerVars>>

(* An exception of Redis leaves receive, and Play stops the actor.             *)
CheckThrows(c) ==
    /\ HasMail(c) /\ Head(box[c]) \in WsToken
    /\ timer[c] # "cancelled"
    /\ timer' = Cancelled(c)
    /\ StopActor(c)
    /\ UNCHANGED <<written, lookup, told, shown, live, managerVars>>

Stop(c) ==
    /\ HasMail(c) /\ Head(box[c]) = Pill
    /\ StopActor(c)
    /\ UNCHANGED <<timer, written, lookup, told, shown, live, managerVars>>

LookupEnded(c, i) == lookup' = [lookup EXCEPT ![c] = RemoveAt(@, i)]

(* findUserByToken succeeded: the authenticator is valid, its account is there. *)
LookupJoins(c) ==
    \E i \in DOMAIN lookup[c] :
        /\ lookup[c][i].found /\ lookup[c][i].token \in live
        /\ LookupEnded(c, i)
        /\ managerBox' = Append(managerBox, Join(TokenUser[lookup[c][i].token], c))
        /\ UNCHANGED <<socket, timer, box, written, told, shown, delivered, live, clients>>

(* A slip: the client is told, and its connection kept.                        *)
LookupOnlyTells(c) ==
    \E i \in DOMAIN lookup[c] :
        /\ LookupEnded(c, i)
        /\ Tell(c, "forbidden")
        /\ UNCHANGED <<socket, timer, box, written, shown, live, managerVars>>

(* The token or its account is gone, or a query answers with an error.         *)
LookupRefuses(c) ==
    \E i \in DOMAIN lookup[c] :
        /\ LookupEnded(c, i)
        /\ Tell(c, "forbidden")
        /\ Poison(c, box)
        /\ UNCHANGED <<socket, timer, written, shown, live, managerVars>>

-----------------------------------------------------------------------------
(* WebSocketManagerActor.receive.                                              *)
ManagerHas(kind) == managerBox # <<>> /\ Head(managerBox).kind = kind

(* Any part of the application may send to a user; WebSocketEndPoint.test does. *)
SendToUser(u, m) ==
    /\ managerBox' = Append(managerBox, SendTo(u, m))
    /\ UNCHANGED <<guardVars, delivered, live, clients>>

JoinClient ==
    /\ ManagerHas("join")
    /\ clients' = [clients EXCEPT ![Head(managerBox).user] = Head(managerBox).conn]
    /\ managerBox' = Tail(managerBox)
    /\ UNCHANGED <<guardVars, delivered, live>>

WrittenTo(C, m) ==
    [c \in Conn |-> IF c \in C /\ CanWrite(c) THEN Append(delivered[c], m) ELSE delivered[c]]

(* A slip: written to every client, as Broadcast does.                         *)
SendClients ==
    /\ ManagerHas("send")
    /\ delivered' = WrittenTo({clients[u] : u \in User}, Head(managerBox).payload)
    /\ managerBox' = Tail(managerBox)
    /\ UNCHANGED <<guardVars, live, clients>>

(* The client of the user, if there is one; what is written to a connection    *)
(* that was closed is lost, and the map keeps it: nobody sends Quit.           *)
SendClient ==
    /\ ManagerHas("send")
    /\ delivered' = WrittenTo({clients[Head(managerBox).user]}, Head(managerBox).payload)
    /\ managerBox' = Tail(managerBox)
    /\ UNCHANGED <<guardVars, live, clients>>

-----------------------------------------------------------------------------
Browser(c) == Open(c) \/ ClientLeaves(c) \/ \E m \in WsToken \cup {Junk} : ClientWrites(c, m)
GuardStep(c) == \/ IgnoreMessage(c) \/ RefuseJunk(c) \/ CheckToken(c) \/ CheckThrows(c)
                \/ Stop(c)
LookupStep(c) == LookupJoins(c) \/ LookupRefuses(c)
ManagerStep == JoinClient \/ SendClient

WebSocketsNext ==
    \/ \E c \in Conn : \/ Browser(c) \/ Closes(c)
                       \/ TimerExpires(c) \/ TimerRuns(c)
                       \/ GuardStep(c) \/ LookupStep(c)
    \/ \E t \in WsToken : TokenEnds(t)
    \/ ManagerStep

WebSocketsSpec == WebSocketsInit /\ [][WebSocketsNext]_wsVars

-----------------------------------------------------------------------------
(* Its actor has stopped, or is about to: PoisonPill waits in its mailbox.      *)
Doomed(c) == socket[c] \in {"ending", "closed"} \/ Pill \in ToSet(box[c])

(* A connection that was refused is nobody's client, as the tokens written     *)
(* behind the refused message are ignored; if it is one all the same, then the *)
(* scheduler had handed the timer's block to a thread before the message came, *)
(* so that cancel did nothing, and the connection is about to be closed        *)
(* (WebSocketSecurityActor.receive, checkToken, scheduler).                    *)
RefusedClientIsDoomed ==
    \A c \in Conn : told[c] # {} /\ (\E u \in User : clients[u] = c) =>
        timer[c] \in {"executed", "done"} /\ Doomed(c)

(* A connection is the client of one user, as a second token is ignored; if it *)
(* is that of two, then the timer's block had been handed to a thread, and     *)
(* waits to run, which closes the connection, or has run, and the connection   *)
(* is about to be closed                                                       *)
(* (WebSocketSecurityActor.receive, scheduler.isCancelled).                    *)
SharedClientIsDoomed ==
    \A u, v \in User :
        u # v /\ clients[u] = clients[v] /\ clients[u] # NoConn =>
            timer[clients[u]] = "executed" \/ Doomed(clients[u])

(* A connection that was refused, or waited too long, is closed                *)
(* (WebSocketSecurityActor, self ! PoisonPill).                                *)
RefusedIsClosed == \A c \in Conn : (told[c] # {}) ~> (socket[c] = "closed")

(* A connection does not stay open without belonging to anybody: it joins or   *)
(* is closed, with the timer running out or cancelled at any moment            *)
(* (WebSocketSecurityActor.scheduler, checkToken).                             *)
JoinsOrCloses ==
    \A c \in Conn :
        (timer[c] = "scheduled") ~>
            (socket[c] = "closed" \/ \E u \in User : clients[u] = c)
=============================================================================
