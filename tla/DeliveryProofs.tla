---------------------------- MODULE DeliveryProofs ----------------------------
(***************************************************************************)
(* Theorems about Delivery, and so about the notifications and the web     *)
(* sockets it composes, for any number of users, connections, tokens and   *)
(* notifications, and whatever its histories exercise.                     *)
(***************************************************************************)
EXTENDS Delivery, NotificationsProofs

(* What the web sockets can do here: a step of their own, or what the          *)
(* listener of the notifications hands to the manager.                         *)
SocketsNext == WebSocketsNext \/ \E u \in User, m \in Payload : SendToUser(u, m)

(* What a connection's timer says of what came before: nothing was looked up   *)
(* or told before it fired or was cancelled, and a cancelled one lets one      *)
(* token in.                                                                   *)
Joins(u, c) == Join(u, c) \in ToSet(managerBox) \/ clients[u] = c

GuardOnce(c) ==
    /\ timer[c] \in {"none", "scheduled"} =>
         told[c] = {} /\ shown[c] = {} /\ lookup[c] = <<>>
    /\ timer[c] = "cancelled" =>
         /\ \A s, t \in shown[c] : s = t
         /\ Len(lookup[c]) <= 1
         /\ told[c] # {} => lookup[c] = <<>>
         /\ told[c] # {} \/ lookup[c] # <<>> => \A u \in User : ~Joins(u, c)
    /\ \A k \in ToSet(lookup[c]) : k.token \in shown[c]
    /\ \A u \in User : Joins(u, c) => \E t \in shown[c] : TokenUser[t] = u

(* Who was told something, or had the timer run, was sent PoisonPill too.      *)
Refused(c) == told[c] # {} \/ timer[c] = "done"

SocketsInv == /\ WebSocketsTypeOK
              /\ \A c \in Conn : GuardOnce(c) /\ (Refused(c) => Doomed(c))

-----------------------------------------------------------------------------
(* The order in which notifications were sent, and where they are on their     *)
(* way to a browser: what is further on was sent before what follows.          *)
Order == {p \in Notif \X Notif :
            \E k, l \in DOMAIN sent : k < l /\ sent[k] = p[1] /\ sent[l] = p[2]}

MessageOrder == {p \in Message \X Message :
    p[1].kind = "send" /\ p[2].kind = "send" => <<p[1].notif, p[2].notif>> \in Order}

ManagerOrder == {p \in ManagerMessage \X ManagerMessage :
    p[1].kind = "send" /\ p[2].kind = "send" => <<p[1].payload, p[2].payload>> \in Order}

Chain(s, R) == \A i, j \in DOMAIN s : i < j => <<s[i], s[j]>> \in R

AtActor     == {n \in Notif : Sending(n) \in ToSet(actorBox)}
AtForwarder == ToSet(inbox["webSocket"])
AtManager   == {n \in Notif : \E u \in User : SendTo(u, n) \in ToSet(managerBox)}
AtClients   == {n \in Notif : \E c \in Conn : n \in ToSet(delivered[c])}

Ahead(S, T) == \A n \in S, m \in T : <<n, m>> \in Order

OrderInv ==
    /\ sent \in Seq(Notif) /\ IsInjective(sent)
    /\ \A n \in Notif : n \in ToSet(sent) <=> addressee[n] # Nobody
    /\ Chain(actorBox, MessageOrder)
    /\ Chain(inbox["webSocket"], Order)
    /\ Chain(managerBox, ManagerOrder)
    /\ \A c \in Conn : Chain(delivered[c], Order)
    /\ Ahead(AtForwarder, AtActor)
    /\ Ahead(AtManager, AtActor \cup AtForwarder)
    /\ Ahead(AtClients, AtActor \cup AtForwarder \cup AtManager)

AddressInv ==
    /\ \A u \in User, n \in Notif : SendTo(u, n) \in ToSet(managerBox) => addressee[n] = u
    /\ OnlyToItsUser

DeliveryInv == TypeInv /\ OnceInv /\ SocketsInv /\ OrderInv /\ AddressInv

-----------------------------------------------------------------------------
LEMMA RemoveAtIs ==
  ASSUME NEW S, NEW s \in Seq(S), NEW i \in DOMAIN s
  PROVE  /\ s[i] \in S /\ s[i] \in ToSet(s)
         /\ RemoveAt(s, i) \in Seq(S)
         /\ Len(s) \in Nat \ {0} /\ Len(RemoveAt(s, i)) = Len(s) - 1
         /\ ToSet(RemoveAt(s, i)) \subseteq ToSet(s)
<1>1. i \in 1..Len(s) /\ Len(s) \in Nat
  BY LenProperties
<1> DEFINE a == SubSeq(s, 1, i - 1)
           b == SubSeq(s, i + 1, Len(s))
<1>2. a \in Seq(S) /\ Len(a) = i - 1 /\ \A k \in 1..Len(a) : a[k] = s[k]
  BY <1>1, SubSeqProperties
<1>3. b \in Seq(S) /\ Len(b) = Len(s) - i /\ \A k \in 1..Len(b) : b[k] = s[k + i]
  BY <1>1, SubSeqProperties
<1>4. RemoveAt(s, i) = a \o b
  BY DEF RemoveAt
<1> HIDE DEF a, b
<1>5. /\ a \o b \in Seq(S) /\ Len(a \o b) = Len(a) + Len(b)
      /\ ToSet(a \o b) = ToSet(a) \cup ToSet(b)
  BY <1>2, <1>3, ConcatIs, ConcatProperties
<1>6. ToSet(s) = {s[k] : k \in 1..Len(s)}
  BY ToSetIsRange
<1>7. \A x \in ToSet(a) : x \in ToSet(s)
  <2>1. \A k \in 1..Len(a) : k \in 1..Len(s)
    BY <1>1, <1>2
  <2> QED BY <1>2, <1>6, <2>1, ToSetIsRange
<1>8. \A x \in ToSet(b) : x \in ToSet(s)
  <2>1. \A k \in 1..Len(b) : k + i \in 1..Len(s)
    BY <1>1, <1>3
  <2> QED BY <1>3, <1>6, <2>1, ToSetIsRange
<1>9. ToSet(RemoveAt(s, i)) \subseteq ToSet(s)
  BY <1>4, <1>5, <1>7, <1>8
<1>10. /\ RemoveAt(s, i) \in Seq(S)
       /\ Len(s) \in Nat \ {0} /\ Len(RemoveAt(s, i)) = Len(s) - 1
  BY <1>1, <1>2, <1>3, <1>4, <1>5
<1>11. s[i] \in S /\ s[i] \in ToSet(s)
  BY <1>1, <1>6
<1> QED BY <1>9, <1>10, <1>11

LEMMA SocketsTypeInit == WebSocketsInit => WebSocketsTypeOK
  BY WsAssumption DEF WebSocketsInit, WebSocketsTypeOK

LEMMA SocketsTypeStep == WebSocketsTypeOK /\ [SocketsNext]_wsVars => WebSocketsTypeOK'
<1> SUFFICES ASSUME WebSocketsTypeOK, [SocketsNext]_wsVars PROVE WebSocketsTypeOK'
  OBVIOUS
<1> USE DEF WebSocketsTypeOK
<1>1. ASSUME NEW c \in Conn, Open(c) PROVE WebSocketsTypeOK'
  BY <1>1 DEF Open, managerVars
<1>2. ASSUME NEW c \in Conn, NEW m \in WsToken \cup {Junk}, ClientWrites(c, m)
      PROVE  WebSocketsTypeOK'
  <2>1. box' \in [Conn -> Seq(WsToken \cup {Junk, Pill})]
    BY <1>2 DEF ClientWrites
  <2>2. written' \in [Conn -> 0..MaxMessages]
    BY <1>2, WsAssumption DEF ClientWrites
  <2> QED BY <1>2, <2>1, <2>2 DEF ClientWrites, managerVars
<1>3. ASSUME NEW c \in Conn, ClientLeaves(c) PROVE WebSocketsTypeOK'
  BY <1>3 DEF ClientLeaves, managerVars
<1>4. ASSUME NEW c \in Conn, Closes(c) PROVE WebSocketsTypeOK'
  BY <1>4 DEF Closes, managerVars
<1>5. ASSUME NEW t \in WsToken, TokenEnds(t) PROVE WebSocketsTypeOK'
  BY <1>5 DEF TokenEnds, guardVars, managerVars
<1>6. ASSUME NEW c \in Conn, TimerExpires(c) PROVE WebSocketsTypeOK'
  BY <1>6 DEF TimerExpires, managerVars
<1>p. ASSUME NEW c \in Conn, NEW b \in [Conn -> Seq(WsToken \cup {Junk, Pill})], Poison(c, b)
      PROVE  box' \in [Conn -> Seq(WsToken \cup {Junk, Pill})]
  BY <1>p, EmptySeq DEF Poison
<1>e. ASSUME NEW c \in Conn, NEW e \in {"tokenNotFound", "forbidden"}, Tell(c, e)
      PROVE  told' \in [Conn -> SUBSET {"tokenNotFound", "forbidden"}]
  BY <1>e DEF Tell
<1>t. ASSUME NEW c \in Conn, HasMail(c)
      PROVE  /\ [box EXCEPT ![c] = Tail(@)] \in [Conn -> Seq(WsToken \cup {Junk, Pill})]
             /\ timer[c] # "none" /\ socket[c] = "open"
  BY <1>t, TailIs DEF HasMail
<1>7. ASSUME NEW c \in Conn, TimerRuns(c) PROVE WebSocketsTypeOK'
  BY <1>7, <1>p, <1>e DEF TimerRuns, managerVars
<1>8. ASSUME NEW c \in Conn, IgnoreMessage(c) PROVE WebSocketsTypeOK'
  BY <1>8, <1>t DEF IgnoreMessage, managerVars
<1>9. ASSUME NEW c \in Conn, RefuseJunk(c) PROVE WebSocketsTypeOK'
  BY <1>9, <1>t, <1>p, <1>e DEF RefuseJunk, Cancelled, managerVars
<1>10. ASSUME NEW c \in Conn, CheckToken(c) PROVE WebSocketsTypeOK'
  <2>1. lookup' \in [Conn -> Seq(Lookup)] /\ shown' \in [Conn -> SUBSET WsToken]
    <3> DEFINE t == Head(box[c])
               k == [token |-> t, found |-> t \in live]
    <3>1. k \in Lookup
      BY <1>10 DEF CheckToken, Lookup
    <3>2. lookup' = [lookup EXCEPT ![c] = Append(@, k)] /\ shown' = [shown EXCEPT ![c] = @ \cup {t}]
      BY <1>10 DEF CheckToken
    <3>3. t \in WsToken
      BY <1>10 DEF CheckToken
    <3> HIDE DEF k, t
    <3> QED BY <3>1, <3>2, <3>3, AppendIs
  <2> QED BY <1>10, <1>t, <2>1 DEF CheckToken, Cancelled, managerVars
<1>11. ASSUME NEW c \in Conn, CheckThrows(c) PROVE WebSocketsTypeOK'
  BY <1>11, <1>t, EmptySeq DEF CheckThrows, StopActor, Cancelled, managerVars
<1>12. ASSUME NEW c \in Conn, Stop(c) PROVE WebSocketsTypeOK'
  BY <1>12, <1>t, EmptySeq DEF Stop, StopActor, managerVars
<1>l. ASSUME NEW c \in Conn, NEW i \in DOMAIN lookup[c], LookupEnded(c, i)
      PROVE  lookup' \in [Conn -> Seq(Lookup)] /\ lookup[c][i] \in Lookup
  BY <1>l, RemoveAtIs DEF LookupEnded
<1>13. ASSUME NEW c \in Conn, LookupJoins(c) PROVE WebSocketsTypeOK'
  <2>1. PICK i \in DOMAIN lookup[c] :
          /\ LookupEnded(c, i)
          /\ managerBox' = Append(managerBox, Join(TokenUser[lookup[c][i].token], c))
          /\ UNCHANGED <<socket, timer, box, written, told, shown, delivered, live, clients>>
    BY <1>13 DEF LookupJoins
  <2>2. Join(TokenUser[lookup[c][i].token], c) \in ManagerMessage
    BY <1>l, <2>1, TokenUserAssumption DEF Join, ManagerMessage, Lookup
  <2>3. managerBox' \in Seq(ManagerMessage)
    BY <2>1, <2>2, AppendIs
  <2> QED BY <1>l, <2>1, <2>3
<1>14. ASSUME NEW c \in Conn, LookupRefuses(c) PROVE WebSocketsTypeOK'
  BY <1>14, <1>l, <1>p, <1>e DEF LookupRefuses, managerVars
<1>15. CASE JoinClient
  BY <1>15, TailIs DEF JoinClient, ManagerHas, ManagerMessage, guardVars
<1>16. CASE SendClient
  <2>1. Head(managerBox).payload \in Payload /\ Tail(managerBox) \in Seq(ManagerMessage)
    BY <1>16, TailIs DEF SendClient, ManagerHas, ManagerMessage
  <2>2. delivered' \in [Conn -> Seq(Payload)]
    BY <1>16, <2>1 DEF SendClient, WrittenTo
  <2> QED BY <1>16, <2>1, <2>2 DEF SendClient, guardVars
<1>17. ASSUME NEW u \in User, NEW m \in Payload, SendToUser(u, m) PROVE WebSocketsTypeOK'
  <2>1. SendTo(u, m) \in ManagerMessage
    BY DEF SendTo, ManagerMessage
  <2> QED BY <1>17, <2>1, AppendIs DEF SendToUser, guardVars
<1>18. CASE UNCHANGED wsVars
  BY <1>18 DEF wsVars
<1> QED
  BY <1>1, <1>2, <1>3, <1>4, <1>5, <1>6, <1>7, <1>8, <1>9, <1>10, <1>11, <1>12, <1>13, <1>14,
     <1>15, <1>16, <1>17, <1>18
  DEF SocketsNext, WebSocketsNext, Browser, GuardStep, LookupStep, ManagerStep

LEMMA GuardInit == WebSocketsInit => \A c \in Conn : GuardOnce(c) /\ ~Refused(c)
  BY WsAssumption, EmptyIs DEF WebSocketsInit, GuardOnce, Joins, Refused

(* A connection whose timer, errors, look-ups and tokens stay as they are, and *)
(* that nobody joins.                                                          *)
Quiet(c) ==
    /\ UNCHANGED <<timer[c], told[c], shown[c], lookup[c]>>
    /\ \A u \in User : Joins(u, c)' => Joins(u, c)

LEMMA QuietGuard == ASSUME NEW c \in Conn, GuardOnce(c), Quiet(c) PROVE GuardOnce(c)'
  BY DEF GuardOnce, Quiet

LEMMA GuardOnceStep ==
  ASSUME WebSocketsTypeOK, \A c \in Conn : GuardOnce(c), [SocketsNext]_wsVars, NEW c \in Conn
  PROVE  GuardOnce(c)'
<1>0. /\ timer \in [Conn -> {"none", "scheduled", "executed", "done", "cancelled"}]
      /\ lookup \in [Conn -> Seq(Lookup)] /\ told \in [Conn -> SUBSET {"tokenNotFound", "forbidden"}]
      /\ shown \in [Conn -> SUBSET WsToken] /\ managerBox \in Seq(ManagerMessage)
      /\ clients \in [User -> Conn \cup {NoConn}]
      /\ (socket[c] = "new") <=> (timer[c] = "none")
      /\ GuardOnce(c)
  BY DEF WebSocketsTypeOK
<1>j. ASSUME UNCHANGED <<managerBox, clients>> PROVE \A u \in User : Joins(u, c)' <=> Joins(u, c)
  BY <1>j DEF Joins
<1>1. ASSUME NEW d \in Conn, Open(d) PROVE GuardOnce(c)'
  <2>1. CASE c = d
    <3>1. timer[c] = "none" /\ timer'[c] = "scheduled" /\ UNCHANGED <<told, shown, lookup, managerBox, clients>>
      BY <1>0, <1>1, <2>1 DEF Open, managerVars
    <3> QED BY <1>0, <1>j, <3>1 DEF GuardOnce
  <2>2. CASE c # d
    BY <1>0, <1>1, <1>j, <2>2, QuietGuard DEF Open, managerVars, Quiet
  <2> QED BY <2>1, <2>2
<1>2. ASSUME UNCHANGED <<timer, told, shown, lookup, managerBox, clients>> PROVE GuardOnce(c)'
  BY <1>0, <1>2, <1>j, QuietGuard DEF Quiet
<1>3. ASSUME NEW d \in Conn, TimerExpires(d) \/ TimerRuns(d) PROVE GuardOnce(c)'
  <2>1. CASE c = d
    <3>1. timer'[c] \in {"executed", "done"} /\ UNCHANGED <<shown, lookup, managerBox, clients>>
      BY <1>0, <1>3, <2>1 DEF TimerExpires, TimerRuns, managerVars
    <3> QED BY <1>0, <1>j, <3>1 DEF GuardOnce
  <2>2. CASE c # d
    BY <1>0, <1>3, <1>j, <2>2, QuietGuard DEF TimerExpires, TimerRuns, Tell, managerVars, Quiet
  <2> QED BY <2>1, <2>2
<1>4. ASSUME NEW d \in Conn, RefuseJunk(d) PROVE GuardOnce(c)'
  <2>1. CASE c = d
    <3>1. /\ timer[c] \notin {"none", "cancelled"}
          /\ timer'[c] = IF timer[c] = "scheduled" THEN "cancelled" ELSE timer[c]
          /\ UNCHANGED <<shown, lookup, managerBox, clients>>
      BY <1>0, <1>4, <2>1 DEF RefuseJunk, HasMail, Cancelled, managerVars
    <3>2. timer[c] = "scheduled" => lookup[c] = <<>> /\ shown[c] = {} /\ \A u \in User : ~Joins(u, c)
      BY <1>0 DEF GuardOnce
    <3> QED BY <1>0, <1>j, <3>1, <3>2 DEF GuardOnce
  <2>2. CASE c # d
    BY <1>0, <1>4, <1>j, <2>2, QuietGuard DEF RefuseJunk, Cancelled, Tell, managerVars, Quiet
  <2> QED BY <2>1, <2>2
<1>5. ASSUME NEW d \in Conn, CheckToken(d) PROVE GuardOnce(c)'
  <2> DEFINE t == Head(box[d])
             k == [token |-> t, found |-> t \in live]
  <2>1. /\ k \in Lookup /\ k.token = t
        /\ lookup' = [lookup EXCEPT ![d] = Append(@, k)]
        /\ shown' = [shown EXCEPT ![d] = @ \cup {t}]
    BY <1>5 DEF CheckToken, Lookup
  <2> HIDE DEF k, t
  <2>2. CASE c = d
    <3>1. /\ timer[c] \notin {"none", "cancelled"}
          /\ timer'[c] = IF timer[c] = "scheduled" THEN "cancelled" ELSE timer[c]
          /\ UNCHANGED <<told, managerBox, clients>>
      BY <1>0, <1>5, <2>2 DEF CheckToken, HasMail, Cancelled, managerVars
    <3>2. /\ shown'[c] = shown[c] \cup {t}
          /\ ToSet(lookup'[c]) = ToSet(lookup[c]) \cup {k}
          /\ Len(lookup'[c]) = Len(lookup[c]) + 1 /\ lookup'[c] # <<>>
      <4>1. lookup[c] \in Seq(Lookup) /\ lookup'[c] = Append(lookup[c], k) /\ shown'[c] = shown[c] \cup {t}
        BY <1>0, <2>1, <2>2
      <4>2. ToSet(Append(lookup[c], k)) = ToSet(lookup[c]) \cup {k}
        BY <2>1, <4>1, AppendIs
      <4>3. Len(Append(lookup[c], k)) = Len(lookup[c]) + 1 /\ Append(lookup[c], k) # <<>>
        BY <2>1, <4>1
      <4> QED BY <4>1, <4>2, <4>3
    <3>3. timer[c] = "scheduled" => lookup[c] = <<>> /\ Len(lookup[c]) = 0 /\ told[c] = {}
                                    /\ shown[c] = {} /\ \A u \in User : ~Joins(u, c)
      BY <1>0 DEF GuardOnce
    <3> QED BY <1>0, <1>j, <2>1, <3>1, <3>2, <3>3 DEF GuardOnce
  <2>3. CASE c # d
    BY <1>0, <1>5, <1>j, <2>1, <2>3, QuietGuard DEF CheckToken, Cancelled, managerVars, Quiet
  <2> QED BY <2>2, <2>3
<1>6. ASSUME NEW d \in Conn, CheckThrows(d) PROVE GuardOnce(c)'
  <2>1. CASE c = d
    <3>1. /\ timer[c] \notin {"none", "cancelled"}
          /\ timer'[c] = IF timer[c] = "scheduled" THEN "cancelled" ELSE timer[c]
          /\ UNCHANGED <<told, shown, lookup, managerBox, clients>>
      BY <1>0, <1>6, <2>1 DEF CheckThrows, HasMail, Cancelled, managerVars
    <3>2. timer[c] = "scheduled" => lookup[c] = <<>> /\ Len(lookup[c]) = 0 /\ told[c] = {}
                                    /\ shown[c] = {} /\ \A u \in User : ~Joins(u, c)
      BY <1>0 DEF GuardOnce
    <3> QED BY <1>0, <1>j, <3>1, <3>2 DEF GuardOnce
  <2>2. CASE c # d
    BY <1>0, <1>6, <1>j, <2>2, QuietGuard DEF CheckThrows, Cancelled, managerVars, Quiet
  <2> QED BY <2>1, <2>2
<1>l. ASSUME NEW d \in Conn, NEW i \in DOMAIN lookup[d], LookupEnded(d, i)
      PROVE  /\ lookup[d][i] \in Lookup /\ lookup[d][i] \in ToSet(lookup[d]) /\ lookup[d] # <<>>
             /\ ToSet(lookup'[d]) \subseteq ToSet(lookup[d])
             /\ Len(lookup'[d]) = Len(lookup[d]) - 1 /\ Len(lookup[d]) \in Nat \ {0}
             /\ Len(lookup'[d]) <= Len(lookup[d])
             /\ Len(lookup[d]) = 1 => lookup'[d] = <<>>
             /\ \A e \in Conn : e # d => lookup'[e] = lookup[e]
  <2>1. lookup[d] \in Seq(Lookup) /\ lookup'[d] = RemoveAt(lookup[d], i)
        /\ \A e \in Conn : e # d => lookup'[e] = lookup[e]
    BY <1>0, <1>l DEF LookupEnded
  <2> QED BY <2>1, RemoveAtIs, EmptySeq
<1>7. ASSUME NEW d \in Conn, LookupJoins(d) PROVE GuardOnce(c)'
  <2>1. PICK i \in DOMAIN lookup[d] :
          /\ LookupEnded(d, i)
          /\ managerBox' = Append(managerBox, Join(TokenUser[lookup[d][i].token], d))
          /\ UNCHANGED <<socket, timer, box, written, told, shown, delivered, live, clients>>
    BY <1>7 DEF LookupJoins
  <2> DEFINE v == TokenUser[lookup[d][i].token]
  <2>2. v \in User /\ Join(v, d) \in ManagerMessage
    BY <1>l, <2>1, TokenUserAssumption DEF Join, ManagerMessage, Lookup
  <2>3. ToSet(managerBox') = ToSet(managerBox) \cup {Join(v, d)}
    BY <1>0, <2>1, <2>2, AppendIs
  <2>4. \A u \in User : Joins(u, c)' => Joins(u, c) \/ (u = v /\ c = d)
    BY <2>1, <2>3 DEF Joins, Join
  <2>5. CASE c = d
    <3>1. lookup[c][i].token \in shown[c]
      BY <1>0, <1>l, <2>1, <2>5 DEF GuardOnce
    <3>2. timer[c] \notin {"none", "scheduled"} /\ (timer[c] = "cancelled" => told[c] = {} /\ lookup'[c] = <<>>)
      BY <1>0, <1>l, <2>1, <2>5 DEF GuardOnce
    <3>3. Len(lookup'[c]) <= Len(lookup[c]) /\ ToSet(lookup'[c]) \subseteq ToSet(lookup[c])
      BY <1>l, <2>1, <2>5
    <3>4. timer'[c] = "cancelled" =>
            /\ \A s, t \in shown'[c] : s = t
            /\ Len(lookup'[c]) <= 1 /\ told'[c] = {} /\ lookup'[c] = <<>>
      BY <1>0, <2>1, <3>2, EmptySeq DEF GuardOnce
    <3>5. \A u \in User : Joins(u, c)' => \E t \in shown'[c] : TokenUser[t] = u
      BY <1>0, <2>1, <2>4, <2>5, <3>1 DEF GuardOnce
    <3>6. \A k \in ToSet(lookup'[c]) : k.token \in shown'[c]
      BY <1>0, <2>1, <3>3 DEF GuardOnce
    <3> QED BY <2>1, <3>2, <3>4, <3>5, <3>6 DEF GuardOnce
  <2>6. CASE c # d
    BY <1>0, <1>l, <2>1, <2>4, <2>6, QuietGuard DEF Quiet
  <2> QED BY <2>5, <2>6
<1>8. ASSUME NEW d \in Conn, LookupRefuses(d) PROVE GuardOnce(c)'
  <2>1. PICK i \in DOMAIN lookup[d] : LookupEnded(d, i)
    BY <1>8 DEF LookupRefuses
  <2>2. UNCHANGED <<timer, shown, managerBox, clients>> /\ Tell(d, "forbidden")
    BY <1>8 DEF LookupRefuses, managerVars
  <2>3. CASE c = d
    <3>1. timer[c] \notin {"none", "scheduled"}
          /\ (timer[c] = "cancelled" => lookup'[c] = <<>> /\ \A u \in User : ~Joins(u, c))
      BY <1>0, <1>l, <2>1, <2>3 DEF GuardOnce
    <3>2. Len(lookup'[c]) <= Len(lookup[c]) /\ ToSet(lookup'[c]) \subseteq ToSet(lookup[c])
      BY <1>l, <2>1, <2>3
    <3> QED BY <1>0, <1>j, <2>2, <3>1, <3>2, EmptySeq DEF GuardOnce
  <2>4. CASE c # d
    BY <1>0, <1>l, <1>j, <2>1, <2>2, <2>4, QuietGuard DEF Quiet, Tell
  <2> QED BY <2>3, <2>4
<1>9. CASE JoinClient
  <2>1. /\ Head(managerBox) \in ManagerMessage /\ Head(managerBox).kind = "join"
        /\ ToSet(managerBox) = {Head(managerBox)} \cup ToSet(managerBox')
    BY <1>0, <1>9, TailIs DEF JoinClient, ManagerHas
  <2>2. Head(managerBox) = Join(Head(managerBox).user, Head(managerBox).conn)
    BY <2>1 DEF ManagerMessage, Join
  <2>3. \A u \in User : Joins(u, c)' => Joins(u, c)
    BY <1>0, <1>9, <2>1, <2>2 DEF JoinClient, Joins
  <2> QED BY <1>0, <1>9, <2>3, QuietGuard DEF JoinClient, Quiet, guardVars
<1>10. CASE SendClient
  <2>1. ToSet(managerBox') \subseteq ToSet(managerBox)
    BY <1>0, <1>10, TailIs DEF SendClient, ManagerHas
  <2> QED BY <1>0, <1>10, <2>1, QuietGuard DEF SendClient, Quiet, Joins, guardVars
<1>11. ASSUME NEW u \in User, NEW m \in Payload, SendToUser(u, m) PROVE GuardOnce(c)'
  <2>1. SendTo(u, m) \in ManagerMessage /\ \A v \in User : Join(v, c) # SendTo(u, m)
    BY DEF SendTo, Join, ManagerMessage
  <2>2. ToSet(managerBox') = ToSet(managerBox) \cup {SendTo(u, m)}
    BY <1>0, <1>11, <2>1, AppendIs DEF SendToUser
  <2> QED BY <1>0, <1>11, <2>1, <2>2, QuietGuard DEF SendToUser, Quiet, Joins, guardVars
<1> QED
  BY <1>1, <1>2, <1>3, <1>4, <1>5, <1>6, <1>7, <1>8, <1>9, <1>10, <1>11
  DEF SocketsNext, WebSocketsNext, Browser, GuardStep, LookupStep, ManagerStep, wsVars, managerVars,
      ClientWrites, ClientLeaves, Closes, TokenEnds, IgnoreMessage, Stop, guardVars

-----------------------------------------------------------------------------
(* PoisonPill is never taken out of a mailbox but by the actor that stops.     *)
LEMMA PoisonDooms ==
  ASSUME WebSocketsTypeOK, NEW d \in Conn, socket[d] # "new",
         NEW b \in [Conn -> Seq(WsToken \cup {Junk, Pill})], Poison(d, b), UNCHANGED socket
  PROVE  Doomed(d)' /\ \A c \in Conn : c # d => box'[c] = b[c]
<1>1. socket[d] \in {"open", "ending", "closed"} /\ \A c \in Conn : c # d => box'[c] = b[c]
  BY DEF WebSocketsTypeOK, Poison
<1>2. CASE socket[d] = "open"
  <2>1. box'[d] = Append(b[d], Pill) /\ b[d] \in Seq(WsToken \cup {Junk, Pill})
    BY <1>2 DEF Poison, IsStopped
  <2> QED BY <1>1, <2>1, AppendIs DEF Doomed
<1>3. CASE socket[d] # "open"
  BY <1>1, <1>3 DEF Doomed
<1> QED BY <1>1, <1>2, <1>3

LEMMA DoomStays ==
  ASSUME WebSocketsTypeOK, \A c \in Conn : GuardOnce(c), [SocketsNext]_wsVars,
         NEW c \in Conn, Doomed(c)
  PROVE  Doomed(c)'
<1>0. /\ socket \in [Conn -> {"new", "open", "ending", "closed"}]
      /\ box \in [Conn -> Seq(WsToken \cup {Junk, Pill})]
      /\ \A d \in Conn : timer[d] # "none" \/ lookup[d] # <<>> => socket[d] # "new"
  BY DEF WebSocketsTypeOK, GuardOnce
<1>1. CASE UNCHANGED <<socket, box>>
  BY <1>1 DEF Doomed
<1>2. ASSUME NEW d \in Conn, Open(d) \/ Closes(d) PROVE Doomed(c)'
  BY <1>0, <1>2 DEF Open, Closes, Doomed
<1>3. ASSUME NEW d \in Conn, NEW m \in WsToken \cup {Junk, Pill},
             box' = [box EXCEPT ![d] = Append(@, m)], UNCHANGED socket
      PROVE  Doomed(c)'
  <2>1. ToSet(Append(box[d], m)) = ToSet(box[d]) \cup {m}
    BY <1>0, AppendIs
  <2>2. ToSet(box[c]) \subseteq ToSet(box'[c])
    BY <1>0, <1>3, <2>1
  <2> QED BY <1>3, <2>2 DEF Doomed
<1>t. ASSUME NEW d \in Conn, HasMail(d), Head(box[d]) # Pill
      PROVE  /\ [box EXCEPT ![d] = Tail(@)] \in [Conn -> Seq(WsToken \cup {Junk, Pill})]
             /\ Pill \in ToSet(box[d]) => Pill \in ToSet(Tail(box[d]))
             /\ socket[d] = "open"
  BY <1>0, <1>t, TailIs DEF HasMail
<1>4. ASSUME NEW d \in Conn, IgnoreMessage(d) \/ CheckToken(d) PROVE Doomed(c)'
  <2>1. /\ HasMail(d) /\ Head(box[d]) # Pill /\ UNCHANGED socket
        /\ box' = [box EXCEPT ![d] = Tail(@)]
    BY <1>4, MessagesAssumption DEF IgnoreMessage, CheckToken
  <2> QED BY <1>0, <1>t, <2>1 DEF Doomed
<1>5. ASSUME NEW d \in Conn, RefuseJunk(d) PROVE Doomed(c)'
  <2> DEFINE b == [box EXCEPT ![d] = Tail(@)]
  <2>1. HasMail(d) /\ Head(box[d]) # Pill /\ UNCHANGED socket /\ Poison(d, b)
    BY <1>5 DEF RefuseJunk, Junk, Pill
  <2>2. /\ b \in [Conn -> Seq(WsToken \cup {Junk, Pill})] /\ socket[d] # "new"
        /\ \A e \in Conn : e # d => b[e] = box[e]
    BY <1>0, <1>t, <2>1
  <2> HIDE DEF b
  <2>3. Doomed(d)' /\ \A e \in Conn : e # d => box'[e] = b[e]
    BY <2>1, <2>2, PoisonDooms
  <2> QED BY <2>1, <2>2, <2>3 DEF Doomed
<1>6. ASSUME NEW d \in Conn, CheckThrows(d) \/ Stop(d) PROVE Doomed(c)'
  BY <1>0, <1>6 DEF CheckThrows, Stop, StopActor, Doomed
<1>7. ASSUME NEW d \in Conn, TimerRuns(d) \/ LookupRefuses(d) PROVE Doomed(c)'
  <2>1. socket[d] # "new" /\ UNCHANGED socket /\ Poison(d, box)
    BY <1>0, <1>7 DEF TimerRuns, LookupRefuses
  <2>2. Doomed(d)' /\ \A e \in Conn : e # d => box'[e] = box[e]
    BY <1>0, <2>1, PoisonDooms
  <2> QED BY <2>1, <2>2 DEF Doomed
<1> QED
  BY <1>1, <1>2, <1>3, <1>4, <1>5, <1>6, <1>7
  DEF SocketsNext, WebSocketsNext, Browser, GuardStep, LookupStep, ManagerStep, wsVars, managerVars,
      guardVars, ClientWrites, ClientLeaves, TokenEnds, TimerExpires, LookupJoins, JoinClient,
      SendClient, SendToUser

LEMMA RefusedStep ==
  ASSUME WebSocketsTypeOK, \A c \in Conn : GuardOnce(c), [SocketsNext]_wsVars,
         NEW c \in Conn, Refused(c) => Doomed(c), Refused(c)'
  PROVE  Doomed(c)'
<1>0. /\ timer \in [Conn -> {"none", "scheduled", "executed", "done", "cancelled"}]
      /\ told \in [Conn -> SUBSET {"tokenNotFound", "forbidden"}]
      /\ box \in [Conn -> Seq(WsToken \cup {Junk, Pill})]
      /\ \A d \in Conn : timer[d] # "none" \/ lookup[d] # <<>> => socket[d] # "new"
  BY DEF WebSocketsTypeOK, GuardOnce
<1>1. CASE TimerRuns(c) \/ LookupRefuses(c)
  <2>1. socket[c] # "new" /\ UNCHANGED socket /\ Poison(c, box)
    BY <1>0, <1>1 DEF TimerRuns, LookupRefuses
  <2> QED BY <1>0, <2>1, PoisonDooms
<1>2. CASE RefuseJunk(c)
  <2>1. socket[c] # "new" /\ UNCHANGED socket /\ Poison(c, [box EXCEPT ![c] = Tail(@)])
    BY <1>2 DEF RefuseJunk, HasMail
  <2>2. [box EXCEPT ![c] = Tail(@)] \in [Conn -> Seq(WsToken \cup {Junk, Pill})]
    BY <1>0, <1>2, TailIs DEF RefuseJunk, HasMail
  <2> QED BY <2>1, <2>2, PoisonDooms
<1>3. CASE ~TimerRuns(c) /\ ~LookupRefuses(c) /\ ~RefuseJunk(c)
  <2>1. ASSUME NEW d \in Conn, d # c, TimerRuns(d) \/ LookupRefuses(d) \/ RefuseJunk(d)
        PROVE  Refused(c)
    BY <1>0, <2>1 DEF TimerRuns, LookupRefuses, RefuseJunk, Tell, Cancelled, Refused
  <2>2. ASSUME NEW d \in Conn, Open(d) \/ TimerExpires(d) \/ CheckToken(d) \/ CheckThrows(d)
        PROVE  Refused(c)
    BY <1>0, <2>2 DEF Open, TimerExpires, CheckToken, CheckThrows, Cancelled, Refused
  <2>3. ASSUME UNCHANGED <<timer, told>> PROVE Refused(c)
    BY <2>3 DEF Refused
  <2>4. Refused(c)
    BY <1>3, <2>1, <2>2, <2>3
    DEF SocketsNext, WebSocketsNext, Browser, GuardStep, LookupStep, ManagerStep, wsVars, managerVars,
        guardVars, ClientWrites, ClientLeaves, Closes, TokenEnds, IgnoreMessage, Stop, LookupJoins,
        JoinClient, SendClient, SendToUser
  <2> QED BY <2>4, DoomStays
<1> QED BY <1>1, <1>2, <1>3

LEMMA SocketsInvInit == WebSocketsInit => SocketsInv
  BY SocketsTypeInit, GuardInit DEF SocketsInv

LEMMA SocketsInvStep == SocketsInv /\ [SocketsNext]_wsVars => SocketsInv'
  BY SocketsTypeStep, GuardOnceStep, RefusedStep DEF SocketsInv

-----------------------------------------------------------------------------
(* Every step of the composition is one of the notifications, one of the web   *)
(* sockets, or of both.                                                        *)
LEMMA NotificationsPart == [DeliveryNext]_deliveryVars => [NotificationsNext]_notifVars
<1> SUFFICES ASSUME [DeliveryNext]_deliveryVars PROVE [NotificationsNext]_notifVars
  OBVIOUS
<1>1. ASSUME NEW n \in Notif, NEW u \in User, SendNotification(n, u) PROVE NotificationsNext
  BY <1>1 DEF SendNotification, NotificationsNext, Arrival
<1>2. ASSUME NEW r \in ReadRequest, NEW u \in User, NEW n \in Notif, MarkRead(r, u, n)
      PROVE  NotificationsNext
  BY <1>2 DEF MarkRead, NotificationsNext, Arrival
<1>3. CASE Distribute
  BY <1>3 DEF Distribute, NotificationsNext
<1>4. CASE Forward
  BY <1>4 DEF Forward, NotificationsNext
<1>5. CASE SocketStep
  BY <1>5 DEF SocketStep
<1>6. ASSUME NEW n \in Notif, Store(n) \/ SendMail(n) PROVE NotificationsNext
  BY <1>6 DEF Store, SendMail, NotificationsNext, StorageStep, MailerStep
<1>7. ASSUME NEW r \in ReadRequest, SetRead(r) PROVE NotificationsNext
  BY <1>7 DEF SetRead, NotificationsNext
<1>8. CASE Start
  BY <1>8 DEF Start, NotificationsNext
<1>9. CASE UNCHANGED deliveryVars
  BY <1>9 DEF deliveryVars
<1> QED BY <1>1, <1>2, <1>3, <1>4, <1>5, <1>6, <1>7, <1>8, <1>9 DEF DeliveryNext

LEMMA ForwardIs ==
  ASSUME TypeInv, Forward
  PROVE  LET n == Head(inbox["webSocket"]) IN
         /\ n \in Notif /\ addressee[n] \in User
         /\ SendToUser(addressee[n], n)
<1>1. inbox["webSocket"] \in Seq(Notif) /\ inbox["webSocket"] # <<>>
  BY DEF TypeInv, NotificationsTypeOK, Listener, Forward, ForwardToSocket, Take
<1> DEFINE n == Head(inbox["webSocket"])
<1>2. n \in Notif /\ n \in ToSet(inbox["webSocket"])
  BY <1>1, TailIs
<1>3. addressee[n] # Nobody /\ addressee[n] \in User \cup {Nobody}
  BY <1>2 DEF TypeInv, NotificationsTypeOK, Listener
<1> QED BY <1>2, <1>3 DEF Forward

LEMMA SocketsPart == TypeInv /\ [DeliveryNext]_deliveryVars => [SocketsNext]_wsVars
<1> SUFFICES ASSUME TypeInv, [DeliveryNext]_deliveryVars PROVE [SocketsNext]_wsVars
  OBVIOUS
<1>1. CASE Forward
  BY <1>1, ForwardIs, PayloadAssumption DEF SocketsNext
<1>2. CASE SocketStep
  BY <1>2 DEF SocketStep, SocketsNext
<1>3. CASE UNCHANGED wsVars
  BY <1>3
<1> QED
  BY <1>1, <1>2, <1>3
  DEF DeliveryNext, SendNotification, MarkRead, Start, Distribute, Store, SendMail, SetRead,
      deliveryVars

LEMMA SocketsInvariant == DeliverySpec => [](TypeInv /\ SocketsInv)
<1> DEFINE Inv == TypeInv /\ SocketsInv
<1>1. DeliveryInit => Inv
  BY TypeInit, SocketsInvInit DEF DeliveryInit
<1>2. Inv /\ [DeliveryNext]_deliveryVars => Inv'
  BY NotificationsPart, SocketsPart, TypeStep, SocketsInvStep
<1> QED BY <1>1, <1>2, PTL DEF DeliverySpec

(* The guards of the connections and the manager keep their types, and every   *)
(* connection that was opened has had its timer started                        *)
(* (WebSocketSecurityActor, WebSocketManagerActor).                            *)
THEOREM SocketsTypeCorrect == DeliverySpec => []WebSocketsTypeOK
<1>1. SocketsInv => WebSocketsTypeOK
  BY DEF SocketsInv
<1> QED BY <1>1, SocketsInvariant, PTL

(* A connection that was refused is not a client, whatever it writes behind    *)
(* the refused message and however late Redis answers, unless the timer's block *)
(* was on a thread before that message came: then it is about to be closed     *)
(* (WebSocketSecurityActor.receive, checkToken, scheduler).                    *)
THEOREM RefusedClientGoes == DeliverySpec => []RefusedClientIsDoomed
<1>1. SocketsInv => RefusedClientIsDoomed
  <2> SUFFICES ASSUME SocketsInv, NEW c \in Conn, told[c] # {}, NEW u \in User, clients[u] = c
               PROVE  timer[c] \in {"executed", "done"} /\ Doomed(c)
    BY DEF RefusedClientIsDoomed
  <2>1. GuardOnce(c) /\ Joins(u, c) /\ Doomed(c)
    BY DEF SocketsInv, Refused, Joins
  <2>2. timer[c] \in {"none", "scheduled", "executed", "done", "cancelled"}
    BY DEF SocketsInv, WebSocketsTypeOK
  <2> QED BY <2>1, <2>2 DEF GuardOnce
<1> QED BY <1>1, SocketsInvariant, PTL

(* A connection is the client of one user, whichever tokens it shows and       *)
(* however many look-ups run; where a second one got in, because the timer's   *)
(* block was on a thread, that block has yet to run or the connection is about *)
(* to be closed (WebSocketSecurityActor.receive, scheduler.isCancelled).       *)
THEOREM SharedClientGoes == DeliverySpec => []SharedClientIsDoomed
<1>1. SocketsInv => SharedClientIsDoomed
  <2> SUFFICES ASSUME SocketsInv, NEW u \in User, NEW v \in User, u # v,
                      clients[u] = clients[v], clients[u] # NoConn
               PROVE  timer[clients[u]] = "executed" \/ Doomed(clients[u])
    BY DEF SharedClientIsDoomed
  <2>1. clients[u] \in Conn /\ timer[clients[u]] \in {"none", "scheduled", "executed", "done", "cancelled"}
    BY DEF SocketsInv, WebSocketsTypeOK
  <2>2. /\ \E t \in shown[clients[u]] : TokenUser[t] = u
        /\ \E t \in shown[clients[u]] : TokenUser[t] = v
    BY <2>1 DEF SocketsInv, GuardOnce, Joins
  <2>3. timer[clients[u]] \in {"executed", "done"}
    BY <2>1, <2>2 DEF SocketsInv, GuardOnce
  <2> QED BY <2>1, <2>3 DEF SocketsInv, Refused
<1> QED BY <1>1, SocketsInvariant, PTL

-----------------------------------------------------------------------------
(* Chains: what appending, taking the head and the order's growth leave.      *)
LEMMA ChainAppend ==
  ASSUME NEW S, NEW s \in Seq(S), NEW x \in S, NEW R, Chain(s, R), \A y \in ToSet(s) : <<y, x>> \in R
  PROVE  Chain(Append(s, x), R)
<1>1. /\ Len(Append(s, x)) = Len(s) + 1 /\ Len(s) \in Nat /\ DOMAIN s = 1..Len(s)
      /\ DOMAIN Append(s, x) = 1..Len(s) + 1
      /\ \A i \in 1..Len(s) : Append(s, x)[i] = s[i]
      /\ Append(s, x)[Len(s) + 1] = x
  BY AppendProperties, LenProperties
<1>2. \A i \in 1..Len(s) : s[i] \in ToSet(s)
  BY ToSetIsRange
<1>3. ASSUME NEW i \in 1..Len(s) + 1, NEW j \in 1..Len(s) + 1, i < j
      PROVE  <<Append(s, x)[i], Append(s, x)[j]>> \in R
  <2>1. i \in 1..Len(s) /\ (j \in 1..Len(s) \/ j = Len(s) + 1)
    BY <1>1, <1>3
  <2> QED BY <1>1, <1>2, <1>3, <2>1 DEF Chain
<1> QED BY <1>1, <1>3 DEF Chain

LEMMA ChainTail ==
  ASSUME NEW S, NEW s \in Seq(S), s # <<>>, NEW R, Chain(s, R)
  PROVE  Chain(Tail(s), R) /\ \A x \in ToSet(Tail(s)) : <<Head(s), x>> \in R
<1>1. /\ Head(s) = s[1] /\ Tail(s) \in Seq(S) /\ Len(Tail(s)) = Len(s) - 1 /\ Len(s) \in Nat \ {0}
      /\ \A i \in 1..Len(Tail(s)) : Tail(s)[i] = s[i + 1]
      /\ DOMAIN s = 1..Len(s) /\ DOMAIN Tail(s) = 1..Len(Tail(s))
  BY HeadTailProperties, EmptySeq, LenProperties
<1>2. Chain(Tail(s), R)
  BY <1>1 DEF Chain
<1>3. \A i \in 1..Len(Tail(s)) : <<Head(s), Tail(s)[i]>> \in R
  BY <1>1 DEF Chain
<1>4. ToSet(Tail(s)) = {Tail(s)[i] : i \in 1..Len(Tail(s))}
  BY <1>1, ToSetIsRange
<1> QED BY <1>2, <1>3, <1>4

LEMMA ChainConcat ==
  ASSUME NEW S, NEW s \in Seq(S), NEW t \in Seq(S), NEW R, Chain(s, R), Chain(t, R),
         \A x \in ToSet(s), y \in ToSet(t) : <<x, y>> \in R
  PROVE  Chain(s \o t, R)
<1>1. /\ s \o t \in Seq(S) /\ Len(s \o t) = Len(s) + Len(t) /\ DOMAIN (s \o t) = 1..Len(s \o t)
      /\ DOMAIN s = 1..Len(s) /\ DOMAIN t = 1..Len(t) /\ Len(s) \in Nat /\ Len(t) \in Nat
      /\ \A i \in 1..Len(s) + Len(t) :
           (s \o t)[i] = IF i <= Len(s) THEN s[i] ELSE t[i - Len(s)]
  BY ConcatProperties, LenProperties
<1>2. (\A i \in 1..Len(s) : s[i] \in ToSet(s)) /\ (\A i \in 1..Len(t) : t[i] \in ToSet(t))
  BY ToSetIsRange
<1>3. ASSUME NEW i \in 1..Len(s) + Len(t), NEW j \in 1..Len(s) + Len(t), i < j
      PROVE  <<(s \o t)[i], (s \o t)[j]>> \in R
  <2>1. CASE j <= Len(s)
    BY <1>1, <1>3, <2>1 DEF Chain
  <2>2. CASE i <= Len(s) /\ ~(j <= Len(s))
    <3>1. i \in 1..Len(s) /\ j - Len(s) \in 1..Len(t)
      BY <1>1, <2>2
    <3> QED BY <1>1, <1>2, <2>2, <3>1
  <2>3. CASE ~(i <= Len(s))
    <3>1. i - Len(s) \in 1..Len(t) /\ j - Len(s) \in 1..Len(t) /\ i - Len(s) < j - Len(s)
          /\ ~(j <= Len(s))
      BY <1>1, <1>3, <2>3
    <3> QED BY <1>1, <2>3, <3>1 DEF Chain
  <2> QED BY <1>1, <2>1, <2>2, <2>3
<1> QED BY <1>1, <1>3 DEF Chain

LEMMA ChainMore ==
  ASSUME NEW s, NEW R, NEW Q, R \subseteq Q, Chain(s, R) PROVE Chain(s, Q)
  BY DEF Chain

LEMMA SameOrder ==
  ASSUME sent' = sent
  PROVE  Order' = Order /\ MessageOrder' = MessageOrder /\ ManagerOrder' = ManagerOrder
  BY DEF Order, MessageOrder, ManagerOrder

(* Nothing is before itself, and a new notification is behind the others.     *)
LEMMA OrderIsStrict == ASSUME OrderInv, NEW n \in Notif PROVE <<n, n>> \notin Order
<1>1. ASSUME NEW k \in DOMAIN sent, NEW l \in DOMAIN sent, k < l, sent[k] = sent[l] PROVE FALSE
  <2>1. k = l
    BY <1>1 DEF OrderInv, IsInjective
  <2>2. k \in 1..Len(sent)
    BY LenProperties DEF OrderInv
  <2> QED BY <1>1, <2>1, <2>2
<1> QED BY <1>1 DEF Order

LEMMA OrderGrows ==
  ASSUME sent \in Seq(Notif), NEW n \in Notif, sent' = Append(sent, n)
  PROVE  /\ Order \subseteq Order' /\ MessageOrder \subseteq MessageOrder'
         /\ ManagerOrder \subseteq ManagerOrder'
         /\ \A m \in ToSet(sent) : <<m, n>> \in Order'
<1>1. /\ DOMAIN sent = 1..Len(sent) /\ DOMAIN sent' = 1..Len(sent) + 1 /\ Len(sent) \in Nat
      /\ \A i \in 1..Len(sent) : sent'[i] = sent[i]
      /\ sent'[Len(sent) + 1] = n
  BY AppendProperties, LenProperties
<1>2. \A i \in 1..Len(sent) : i \in 1..Len(sent) + 1 /\ i < Len(sent) + 1
  BY <1>1
<1>3. Order \subseteq Order'
  BY <1>1, <1>2 DEF Order
<1>4. MessageOrder \subseteq MessageOrder' /\ ManagerOrder \subseteq ManagerOrder'
  BY <1>3 DEF MessageOrder, ManagerOrder
<1>5. ASSUME NEW i \in 1..Len(sent) PROVE <<sent[i], n>> \in Order'
  <2>1. sent[i] \in Notif /\ Len(sent) + 1 \in 1..Len(sent) + 1
    BY <1>1
  <2>2. <<sent[i], n>> \in Notif \X Notif /\ sent'[i] = sent[i] /\ sent'[Len(sent) + 1] = n
        /\ i \in DOMAIN sent' /\ Len(sent) + 1 \in DOMAIN sent' /\ i < Len(sent) + 1
    BY <1>1, <1>2, <2>1
  <2>3. \E k, l \in DOMAIN sent' : k < l /\ sent'[k] = sent[i] /\ sent'[l] = n
    BY <2>2
  <2> QED BY <2>2, <2>3 DEF Order
<1>6. \A m \in ToSet(sent) : <<m, n>> \in Order'
  BY <1>5, ToSetIsRange
<1> QED BY <1>3, <1>4, <1>6

(* Whatever is on its way has been sent.                                      *)
LEMMA PlacesAreSent ==
  ASSUME TypeInv, WebSocketsTypeOK, OrderInv, AddressInv
  PROVE  AtActor \cup AtForwarder \cup AtManager \cup AtClients \subseteq ToSet(sent)
<1>1. \A n \in AtActor : n \in Notif /\ addressee[n] # Nobody
  BY DEF AtActor, TypeInv
<1>2. \A n \in AtForwarder : n \in Notif /\ addressee[n] # Nobody
  <2>1. inbox["webSocket"] \in Seq(Notif)
    BY DEF TypeInv, NotificationsTypeOK, Listener
  <2> QED BY <2>1, ToSetIsRange DEF AtForwarder, TypeInv, Listener
<1>3. \A n \in AtManager : n \in Notif /\ addressee[n] # Nobody
  BY NobodyAssumption DEF AtManager, AddressInv
<1>4. \A n \in AtClients : n \in Notif /\ addressee[n] # Nobody
  <2>1. ASSUME NEW c \in Conn, NEW n \in ToSet(delivered[c]) PROVE addressee[n] \in User
    BY TokenUserAssumption DEF AddressInv, OnlyToItsUser, WebSocketsTypeOK
  <2> QED BY <2>1, NobodyAssumption DEF AtClients
<1> QED BY <1>1, <1>2, <1>3, <1>4 DEF OrderInv

-----------------------------------------------------------------------------
LEMMA OrderInit == DeliveryInit => OrderInv /\ AddressInv
<1> SUFFICES ASSUME DeliveryInit PROVE OrderInv /\ AddressInv
  OBVIOUS
<1>1. /\ sent = <<>> /\ inbox["webSocket"] = <<>> /\ managerBox = <<>>
      /\ \A c \in Conn : delivered[c] = <<>>
      /\ \A n \in Notif : addressee[n] = Nobody
  BY DEF DeliveryInit, NotificationsInit, WebSocketsInit, Listener
<1>2. Chain(actorBox, MessageOrder)
  BY DEF DeliveryInit, NotificationsInit, Chain
<1>3. AtForwarder = {} /\ AtManager = {} /\ AtClients = {}
  BY <1>1, EmptyIs DEF AtForwarder, AtManager, AtClients
<1> QED BY <1>1, <1>2, <1>3, EmptyIs DEF OrderInv, AddressInv, OnlyToItsUser, Chain, Ahead

(* The parts of the state the order is about.                                 *)
orderVars == <<sent, addressee, actorBox, inbox["webSocket"], managerBox, delivered>>

LEMMA AddressSame ==
  ASSUME AddressInv, UNCHANGED <<addressee, delivered>>, \A c \in Conn : shown[c] \subseteq shown'[c],
         \A u \in User, n \in Notif : SendTo(u, n) \in ToSet(managerBox') => SendTo(u, n) \in ToSet(managerBox)
  PROVE  AddressInv'
  BY DEF AddressInv, OnlyToItsUser

LEMMA OrderSameStep ==
  ASSUME OrderInv, AddressInv, UNCHANGED orderVars, \A c \in Conn : shown[c] \subseteq shown'[c]
  PROVE  OrderInv' /\ AddressInv'
<1>1. /\ UNCHANGED <<sent, addressee, actorBox, managerBox, delivered>>
      /\ inbox'["webSocket"] = inbox["webSocket"]
  BY DEF orderVars
<1>2. Order' = Order /\ MessageOrder' = MessageOrder /\ ManagerOrder' = ManagerOrder
  BY <1>1, SameOrder
<1>3. AtActor' = AtActor /\ AtForwarder' = AtForwarder /\ AtManager' = AtManager
      /\ AtClients' = AtClients
  BY <1>1 DEF AtActor, AtForwarder, AtManager, AtClients
<1>4. OrderInv'
  BY <1>1, <1>2, <1>3 DEF OrderInv, Ahead
<1>5. AddressInv'
  BY <1>1, AddressSame
<1> QED BY <1>4, <1>5

LEMMA SendOrder ==
  ASSUME TypeInv, WebSocketsTypeOK, OrderInv, AddressInv,
         NEW n \in Notif, NEW u \in User, SendNotification(n, u)
  PROVE  OrderInv' /\ AddressInv'
<1>1. /\ addressee[n] = Nobody /\ addressee' = [addressee EXCEPT ![n] = u]
      /\ actorBox' = Append(actorBox, Sending(n)) /\ sent' = Append(sent, n)
      /\ UNCHANGED <<inbox, managerBox, delivered, shown>>
  BY DEF SendNotification, Send, wsVars
<1>2. /\ sent \in Seq(Notif) /\ n \notin ToSet(sent) /\ actorBox \in Seq(Message)
      /\ addressee \in [Notif -> User \cup {Nobody}] /\ Sending(n) \in Message
  BY <1>1 DEF OrderInv, TypeInv, NotificationsTypeOK, Sending, Message
<1>3. AtActor \cup AtForwarder \cup AtManager \cup AtClients \subseteq ToSet(sent)
  BY PlacesAreSent
<1>4. sent' \in Seq(Notif) /\ IsInjective(sent') /\ ToSet(sent') = ToSet(sent) \cup {n}
  BY <1>1, <1>2, AppendIs DEF OrderInv
<1>5. \A m \in Notif : m \in ToSet(sent') <=> addressee'[m] # Nobody
  BY <1>1, <1>2, <1>4, NobodyAssumption DEF OrderInv
<1>6. /\ Order \subseteq Order' /\ MessageOrder \subseteq MessageOrder'
      /\ ManagerOrder \subseteq ManagerOrder'
      /\ \A m \in ToSet(sent) : <<m, n>> \in Order'
  BY <1>1, <1>2, OrderGrows
<1>7. Chain(actorBox', MessageOrder')
  <2>1. ASSUME NEW y \in ToSet(actorBox) PROVE <<y, Sending(n)>> \in MessageOrder'
    <3>1. y \in Message /\ Sending(n).kind = "send" /\ Sending(n).notif = n
      BY <1>2, ToSetIsRange DEF Sending
    <3>2. y.kind = "send" => y.notif \in AtActor
      BY <3>1 DEF AtActor, Message, Sending
    <3> QED BY <1>2, <1>3, <1>6, <3>1, <3>2 DEF MessageOrder
  <2>2. Chain(actorBox, MessageOrder')
    BY <1>6, ChainMore DEF OrderInv
  <2> QED BY <1>1, <1>2, <2>1, <2>2, ChainAppend
<1>8. /\ Chain(inbox["webSocket"], Order') /\ Chain(managerBox, ManagerOrder')
      /\ \A c \in Conn : Chain(delivered[c], Order')
  BY <1>6, ChainMore DEF OrderInv
<1>9. AtActor' = AtActor \cup {n}
  <2>1. ToSet(actorBox') = ToSet(actorBox) \cup {Sending(n)}
    BY <1>1, <1>2, AppendIs
  <2> QED BY <2>1 DEF AtActor, Sending
<1>10. AtForwarder' = AtForwarder /\ AtManager' = AtManager /\ AtClients' = AtClients
  BY <1>1 DEF AtForwarder, AtManager, AtClients
<1>11. /\ Ahead(AtForwarder, AtActor)' /\ Ahead(AtManager, AtActor \cup AtForwarder)'
       /\ Ahead(AtClients, AtActor \cup AtForwarder \cup AtManager)'
  BY <1>3, <1>6, <1>9, <1>10 DEF OrderInv, Ahead
<1>12. AddressInv'
  <2>1. \A m \in ToSet(sent) : addressee'[m] = addressee[m]
    BY <1>1, <1>2
  <2>2. \A v \in User, m \in Notif : SendTo(v, m) \in ToSet(managerBox) => addressee'[m] = v
    BY <1>3, <2>1 DEF AddressInv, AtManager
  <2>3. \A c \in Conn : \A m \in ToSet(delivered[c]) : addressee'[m] = addressee[m]
    <3>1. \A c \in Conn : ToSet(delivered[c]) \subseteq Notif
      BY PayloadAssumption, ToSetIsRange DEF WebSocketsTypeOK
    <3> QED BY <1>3, <2>1, <3>1 DEF AtClients
  <2>4. OnlyToItsUser'
    <3>1. delivered' = delivered /\ shown' = shown
      BY <1>1
    <3> QED BY <2>3, <3>1 DEF AddressInv, OnlyToItsUser
  <2> QED BY <1>1, <2>2, <2>4 DEF AddressInv
<1> QED BY <1>1, <1>4, <1>5, <1>7, <1>8, <1>11, <1>12 DEF OrderInv

LEMMA RegisterOrder ==
  ASSUME TypeInv, OrderInv, AddressInv, RegisterListener, UNCHANGED <<wsVars, sent>>
  PROVE  OrderInv' /\ AddressInv'
<1>1. /\ actorBox \in Seq(Message) /\ actorBox # <<>> /\ actorBox' = Tail(actorBox)
      /\ UNCHANGED <<sent, addressee, inbox, managerBox, delivered, shown>>
  BY DEF TypeInv, NotificationsTypeOK, RegisterListener, wsVars
<1>2. Order' = Order /\ MessageOrder' = MessageOrder /\ ManagerOrder' = ManagerOrder
  BY <1>1, SameOrder
<1>3. Chain(actorBox', MessageOrder)
  BY <1>1, ChainTail DEF OrderInv
<1>4. AtActor' \subseteq AtActor
  <2>1. ToSet(actorBox') \subseteq ToSet(actorBox)
    BY <1>1, TailIs
  <2> QED BY <2>1 DEF AtActor
<1>5. AtForwarder' = AtForwarder /\ AtManager' = AtManager /\ AtClients' = AtClients
  BY <1>1 DEF AtForwarder, AtManager, AtClients
<1> QED BY <1>1, <1>2, <1>3, <1>4, <1>5 DEF OrderInv, AddressInv, OnlyToItsUser, Ahead

LEMMA StartOrder ==
  ASSUME TypeInv, OrderInv, AddressInv, RegisterNext, UNCHANGED <<wsVars, sent>>
  PROVE  OrderInv' /\ AddressInv'
<1> DEFINE m == Registration(Head(starting))
<1>1. /\ actorBox \in Seq(Message) /\ m \in Message /\ actorBox' = Append(actorBox, m)
      /\ ToSet(actorBox') = ToSet(actorBox) \cup {m}
      /\ UNCHANGED <<sent, addressee, inbox, managerBox, delivered, shown>>
  BY NextIs DEF TypeInv, NotificationsTypeOK, RegisterNext, wsVars
<1>2. Order' = Order /\ MessageOrder' = MessageOrder /\ ManagerOrder' = ManagerOrder
  BY <1>1, SameOrder
<1>3. Chain(actorBox', MessageOrder)
  <2>1. m.kind = "register"
    BY DEF Registration
  <2>2. \A y \in ToSet(actorBox) : <<y, m>> \in MessageOrder
    BY <1>1, <2>1, ToSetIsRange DEF MessageOrder
  <2> HIDE DEF m
  <2> QED BY <1>1, <2>2, ChainAppend DEF OrderInv
<1>4. AtActor' = AtActor
  BY <1>1 DEF AtActor, Sending, Registration
<1>5. AtForwarder' = AtForwarder /\ AtManager' = AtManager /\ AtClients' = AtClients
  BY <1>1 DEF AtForwarder, AtManager, AtClients
<1> QED BY <1>1, <1>2, <1>3, <1>4, <1>5 DEF OrderInv, AddressInv, OnlyToItsUser, Ahead

LEMMA BroadcastOrder ==
  ASSUME TypeInv, RouterOnce, OrderInv, AddressInv, Broadcast, UNCHANGED <<wsVars, sent>>
  PROVE  OrderInv' /\ AddressInv'
<1> DEFINE n == Head(actorBox).notif
           t == Copied("webSocket")
<1>1. /\ actorBox \in Seq(Message) /\ actorBox # <<>> /\ actorBox' = Tail(actorBox)
      /\ inbox["webSocket"] \in Seq(Notif) /\ actors \in Seq(Listener) /\ IsInjective(actors)
      /\ UNCHANGED <<sent, addressee, managerBox, delivered, shown>>
  BY DEF TypeInv, NotificationsTypeOK, Broadcast, wsVars, RouterOnce, Listener
<1>2. Order' = Order /\ MessageOrder' = MessageOrder /\ ManagerOrder' = ManagerOrder
  BY <1>1, SameOrder
<1>3. n \in Notif /\ Head(actorBox) = Sending(n)
  BY <1>1, HeadIs DEF Broadcast
<1>4. inbox'["webSocket"] = inbox["webSocket"] \o t
  BY RoutedIs DEF TypeInv, Listener
<1>5. t \in Seq(Notif) /\ ToSet(t) \subseteq {n} /\ IsInjective(t)
  BY <1>1, <1>3, CopiedIs
<1>6. /\ Sending(n) \in ToSet(actorBox) /\ ToSet(actorBox') \subseteq ToSet(actorBox)
      /\ Chain(actorBox', MessageOrder)
      /\ \A x \in ToSet(actorBox') : <<Sending(n), x>> \in MessageOrder
  BY <1>1, <1>3, TailIs, ChainTail DEF OrderInv
<1> HIDE DEF n, t
<1>7. n \in AtActor /\ AtActor' \subseteq AtActor /\ \A m \in AtActor' : <<n, m>> \in Order
  <2>1. \A m \in AtActor' : Sending(m) \in ToSet(actorBox') /\ m \in Notif
    BY DEF AtActor
  <2>2. \A m \in AtActor' : <<n, m>> \in Order
    BY <1>6, <2>1 DEF MessageOrder, Sending
  <2> QED BY <1>3, <1>6, <2>2 DEF AtActor
<1>8. AtForwarder' \subseteq AtForwarder \cup {n}
  <2>1. ToSet(inbox["webSocket"] \o t) = ToSet(inbox["webSocket"]) \cup ToSet(t)
    BY <1>1, <1>5, ConcatIs
  <2> QED BY <1>4, <1>5, <2>1 DEF AtForwarder
<1>9. AtManager' = AtManager /\ AtClients' = AtClients
  BY <1>1 DEF AtManager, AtClients
<1>10. Chain(inbox'["webSocket"], Order)
  <2>1. Chain(t, Order)
    <3>0. DOMAIN t = 1..Len(t) /\ \A i \in 1..Len(t) : t[i] \in ToSet(t)
      BY <1>5, ToSetIsRange, LenProperties
    <3>1. DOMAIN t = 1..Len(t) /\ \A i \in 1..Len(t) : t[i] = n
      BY <1>5, <3>0
    <3> QED BY <1>5, <3>1 DEF Chain, IsInjective
  <2>2. \A x \in ToSet(inbox["webSocket"]), y \in ToSet(t) : <<x, y>> \in Order
    BY <1>5, <1>7 DEF OrderInv, Ahead, AtForwarder
  <2> QED BY <1>1, <1>4, <1>5, <2>1, <2>2, ChainConcat DEF OrderInv
<1>11. /\ Ahead(AtForwarder, AtActor)' /\ Ahead(AtManager, AtActor \cup AtForwarder)'
       /\ Ahead(AtClients, AtActor \cup AtForwarder \cup AtManager)'
  BY <1>2, <1>7, <1>8, <1>9 DEF OrderInv, Ahead
<1>12. OrderInv'
  BY <1>1, <1>2, <1>6, <1>10, <1>11 DEF OrderInv
<1> QED BY <1>1, <1>12, AddressSame

LEMMA ForwardOrder ==
  ASSUME TypeInv, WebSocketsTypeOK, OrderInv, AddressInv, Forward
  PROVE  OrderInv' /\ AddressInv'
<1> DEFINE n == Head(inbox["webSocket"])
           m == SendTo(addressee[n], n)
<1>1. /\ inbox["webSocket"] \in Seq(Notif) /\ inbox["webSocket"] # <<>>
      /\ inbox'["webSocket"] = Tail(inbox["webSocket"])
      /\ UNCHANGED <<sent, addressee, actorBox, delivered, shown>>
  BY DEF TypeInv, NotificationsTypeOK, Listener, Forward, ForwardToSocket, Take, SendToUser, guardVars
<1>2. n \in Notif /\ addressee[n] \in User /\ managerBox' = Append(managerBox, m)
  BY ForwardIs DEF SendToUser
<1>3. m \in ManagerMessage /\ managerBox \in Seq(ManagerMessage) /\ m.payload = n
  BY <1>2, PayloadAssumption DEF SendTo, ManagerMessage, WebSocketsTypeOK
<1>4. Order' = Order /\ MessageOrder' = MessageOrder /\ ManagerOrder' = ManagerOrder
  BY <1>1, SameOrder
<1>5. /\ n \in AtForwarder /\ AtForwarder' \subseteq AtForwarder
      /\ \A x \in AtForwarder' : <<n, x>> \in Order
      /\ Chain(inbox'["webSocket"], Order)
  BY <1>1, TailIs, ChainTail DEF AtForwarder, OrderInv
<1>6. ToSet(managerBox') = ToSet(managerBox) \cup {m}
  BY <1>2, <1>3, AppendIs
<1>7. AtManager' \subseteq AtManager \cup {n}
  BY <1>6 DEF AtManager, SendTo
<1>8. AtActor' = AtActor /\ AtClients' = AtClients
  BY <1>1 DEF AtActor, AtClients
<1>9. Chain(managerBox', ManagerOrder)
  <2>1. ASSUME NEW y \in ToSet(managerBox), y.kind = "send" PROVE <<y.payload, n>> \in Order
    <3>1. y \in ManagerMessage
      BY <1>3, ToSetIsRange
    <3>2. y.payload \in AtManager
      BY <2>1, <3>1, PayloadAssumption DEF AtManager, ManagerMessage, SendTo
    <3> QED BY <1>5, <3>2 DEF OrderInv, Ahead
  <2>2. \A y \in ToSet(managerBox) : <<y, m>> \in ManagerOrder
    BY <1>3, <2>1, ToSetIsRange DEF ManagerOrder
  <2> HIDE DEF m
  <2> QED BY <1>2, <1>3, <2>2, ChainAppend DEF OrderInv
<1>10. /\ Ahead(AtForwarder, AtActor)' /\ Ahead(AtManager, AtActor \cup AtForwarder)'
       /\ Ahead(AtClients, AtActor \cup AtForwarder \cup AtManager)'
  <2> HIDE DEF n, m
  <2> QED BY <1>4, <1>5, <1>7, <1>8 DEF OrderInv, Ahead
<1>11. OrderInv'
  BY <1>1, <1>4, <1>5, <1>9, <1>10 DEF OrderInv
<1>12. AddressInv'
  <2>1. \A u \in User, x \in Notif : SendTo(u, x) \in ToSet(managerBox') =>
          SendTo(u, x) \in ToSet(managerBox) \/ (x = n /\ u = addressee[n])
    BY <1>6 DEF SendTo
  <2>2. \A u \in User, x \in Notif : SendTo(u, x) \in ToSet(managerBox') => addressee'[x] = u
    BY <1>1, <2>1 DEF AddressInv
  <2> QED BY <1>1, <2>2 DEF AddressInv, OnlyToItsUser
<1> QED BY <1>11, <1>12

(* The manager's part: a Join changes no order, ...                           *)
LEMMA JoinOrder ==
  ASSUME WebSocketsTypeOK, OrderInv, AddressInv, NEW m \in ManagerMessage, m.kind = "join",
         managerBox' = Append(managerBox, m),
         UNCHANGED <<sent, addressee, actorBox, inbox, delivered, shown>>
  PROVE  OrderInv' /\ AddressInv'
<1>1. managerBox \in Seq(ManagerMessage)
  BY DEF WebSocketsTypeOK
<1>2. Order' = Order /\ MessageOrder' = MessageOrder /\ ManagerOrder' = ManagerOrder
  BY SameOrder
<1>3. \A u \in User, n \in Notif : SendTo(u, n) \in ToSet(managerBox') <=> SendTo(u, n) \in ToSet(managerBox)
  <2>1. ToSet(managerBox') = ToSet(managerBox) \cup {m}
    BY <1>1, AppendIs
  <2>2. \A u \in User, n \in Notif : SendTo(u, n) # m
    BY DEF SendTo
  <2> QED BY <2>1, <2>2
<1>4. AtActor' = AtActor /\ AtForwarder' = AtForwarder /\ AtManager' = AtManager
      /\ AtClients' = AtClients
  BY <1>3 DEF AtActor, AtForwarder, AtManager, AtClients
<1>5. Chain(managerBox', ManagerOrder)
  <2>1. \A y \in ToSet(managerBox) : <<y, m>> \in ManagerOrder
    BY <1>1, ToSetIsRange DEF ManagerOrder
  <2> QED BY <1>1, <2>1, ChainAppend DEF OrderInv
<1>6. OrderInv'
  BY <1>2, <1>4, <1>5 DEF OrderInv, Ahead
<1> QED BY <1>3, <1>6, AddressSame

(* ... handling one takes it away, ...                                        *)
LEMMA JoinedOrder ==
  ASSUME WebSocketsTypeOK, OrderInv, AddressInv, JoinClient,
         UNCHANGED <<sent, addressee, actorBox, inbox>>
  PROVE  OrderInv' /\ AddressInv'
<1>1. /\ managerBox \in Seq(ManagerMessage) /\ managerBox # <<>> /\ managerBox' = Tail(managerBox)
      /\ UNCHANGED <<delivered, shown>>
  BY DEF WebSocketsTypeOK, JoinClient, ManagerHas, guardVars
<1>2. Order' = Order /\ MessageOrder' = MessageOrder /\ ManagerOrder' = ManagerOrder
  BY SameOrder
<1>3. ToSet(managerBox') \subseteq ToSet(managerBox) /\ Chain(managerBox', ManagerOrder)
  BY <1>1, TailIs, ChainTail DEF OrderInv
<1>4. AtActor' = AtActor /\ AtForwarder' = AtForwarder /\ AtManager' \subseteq AtManager
      /\ AtClients' = AtClients
  BY <1>1, <1>3 DEF AtActor, AtForwarder, AtManager, AtClients
<1>5. OrderInv'
  BY <1>1, <1>2, <1>3, <1>4 DEF OrderInv, Ahead
<1> QED BY <1>1, <1>3, <1>5, AddressSame

(* ... and what is written to a client was sent after what was written before. *)
LEMMA SendClientOrder ==
  ASSUME SocketsInv, OrderInv, AddressInv, SendClient,
         UNCHANGED <<sent, addressee, actorBox, inbox>>
  PROVE  OrderInv' /\ AddressInv'
<1> DEFINE n == Head(managerBox).payload
           v == Head(managerBox).user
<1>1. /\ managerBox \in Seq(ManagerMessage) /\ managerBox # <<>> /\ managerBox' = Tail(managerBox)
      /\ delivered \in [Conn -> Seq(Notif)] /\ UNCHANGED shown
      /\ delivered' = WrittenTo({clients[v]}, n)
      /\ Head(managerBox).kind = "send"
  BY PayloadAssumption DEF SocketsInv, WebSocketsTypeOK, SendClient, ManagerHas, guardVars
<1>2. Order' = Order /\ MessageOrder' = MessageOrder /\ ManagerOrder' = ManagerOrder
  BY SameOrder
<1>3. n \in Notif /\ v \in User /\ Head(managerBox) = SendTo(v, n)
  BY <1>1, TailIs, PayloadAssumption DEF ManagerMessage, SendTo
<1>4. /\ SendTo(v, n) \in ToSet(managerBox) /\ ToSet(managerBox') \subseteq ToSet(managerBox)
      /\ Chain(managerBox', ManagerOrder)
      /\ \A x \in ToSet(managerBox') : <<SendTo(v, n), x>> \in ManagerOrder
  BY <1>1, <1>3, TailIs, ChainTail DEF OrderInv
<1>5. \A c \in Conn : delivered'[c] = delivered[c] \/ (c = clients[v] /\ delivered'[c] = Append(delivered[c], n))
  BY <1>1 DEF WrittenTo
<1> HIDE DEF n, v
<1>6. addressee[n] = v /\ n \in AtManager
  BY <1>3, <1>4 DEF AddressInv, AtManager
<1>7. AtManager' \subseteq AtManager /\ \A x \in AtManager' : <<n, x>> \in Order
  BY <1>4 DEF AtManager, ManagerOrder, SendTo
<1>8. \A c \in Conn : ToSet(delivered'[c]) \subseteq ToSet(delivered[c]) \cup {n}
  <2>1. \A c \in Conn : ToSet(Append(delivered[c], n)) = ToSet(delivered[c]) \cup {n}
    BY <1>1, <1>3, AppendIs
  <2> QED BY <1>5, <2>1
<1>9. AtClients' \subseteq AtClients \cup {n}
  BY <1>8 DEF AtClients
<1>10. AtActor' = AtActor /\ AtForwarder' = AtForwarder
  BY DEF AtActor, AtForwarder
<1>11. \A x \in AtClients : <<x, n>> \in Order
  BY <1>6 DEF OrderInv, Ahead
<1>12. \A c \in Conn : Chain(delivered'[c], Order)
  <2> SUFFICES ASSUME NEW c \in Conn, delivered'[c] = Append(delivered[c], n)
               PROVE  Chain(delivered'[c], Order)
    BY <1>5 DEF OrderInv
  <2>1. \A x \in ToSet(delivered[c]) : <<x, n>> \in Order
    BY <1>1, <1>11, ToSetIsRange DEF AtClients
  <2> QED BY <1>1, <1>3, <2>1, ChainAppend DEF OrderInv
<1>13. /\ Ahead(AtForwarder, AtActor)' /\ Ahead(AtManager, AtActor \cup AtForwarder)'
       /\ Ahead(AtClients, AtActor \cup AtForwarder \cup AtManager)'
  BY <1>2, <1>6, <1>7, <1>9, <1>10 DEF OrderInv, Ahead
<1>14. OrderInv'
  BY <1>1, <1>2, <1>4, <1>12, <1>13 DEF OrderInv
<1>15. OnlyToItsUser'
  <2>1. \A c \in Conn : n \notin ToSet(delivered[c])
    BY <1>3, <1>11, OrderIsStrict DEF AtClients
  <2>2. ASSUME NEW c \in Conn, n \in ToSet(delivered'[c])
        PROVE  c = clients[v] /\ \E t \in shown[c] : TokenUser[t] = addressee[n]
    <3>1. c = clients[v]
      BY <1>5, <2>1, <2>2
    <3> QED BY <1>3, <1>6, <3>1 DEF SocketsInv, GuardOnce, Joins
  <2>3. \A c \in Conn : \A x \in ToSet(delivered'[c]) : x = n \/ x \in ToSet(delivered[c])
    BY <1>8
  <2>4. ASSUME NEW c \in Conn, NEW d \in Conn, NEW x \in ToSet(delivered'[c])
        PROVE  /\ \E t \in shown[c] : TokenUser[t] = addressee[x]
               /\ x \in ToSet(delivered'[d]) => c = d
    <3>1. CASE x = n
      BY <2>2, <3>1
    <3>2. CASE x # n
      BY <2>3, <3>2 DEF AddressInv, OnlyToItsUser
    <3> QED BY <3>1, <3>2
  <2>5. shown' = shown /\ addressee' = addressee
    BY <1>1
  <2> QED BY <2>4, <2>5 DEF OnlyToItsUser
<1> QED BY <1>4, <1>14, <1>15 DEF AddressInv

LEMMA SocketsOrder ==
  ASSUME SocketsInv, OrderInv, AddressInv, [WebSocketsNext]_wsVars,
         UNCHANGED <<sent, addressee, actorBox, inbox>>
  PROVE  OrderInv' /\ AddressInv'
<1>1. CASE UNCHANGED <<managerBox, delivered>> /\ \A c \in Conn : shown[c] \subseteq shown'[c]
  BY <1>1, OrderSameStep DEF orderVars
<1>2. ASSUME NEW c \in Conn, CheckToken(c) PROVE OrderInv' /\ AddressInv'
  <2>1. \A d \in Conn : shown[d] \subseteq shown'[d]
    BY <1>2 DEF CheckToken, SocketsInv, WebSocketsTypeOK
  <2> QED BY <1>1, <1>2, <2>1 DEF CheckToken, managerVars
<1>3. ASSUME NEW c \in Conn, LookupJoins(c) PROVE OrderInv' /\ AddressInv'
  <2>1. PICK i \in DOMAIN lookup[c] :
          /\ managerBox' = Append(managerBox, Join(TokenUser[lookup[c][i].token], c))
          /\ UNCHANGED <<shown, delivered>>
    BY <1>3 DEF LookupJoins
  <2>2. lookup[c][i] \in Lookup
    BY <2>1 DEF SocketsInv, WebSocketsTypeOK
  <2>3. Join(TokenUser[lookup[c][i].token], c) \in ManagerMessage
        /\ Join(TokenUser[lookup[c][i].token], c).kind = "join"
    BY <2>2, TokenUserAssumption DEF Join, ManagerMessage, Lookup
  <2> QED BY <2>1, <2>3, JoinOrder DEF SocketsInv
<1>4. CASE JoinClient
  BY <1>4, JoinedOrder DEF SocketsInv
<1>5. CASE SendClient
  BY <1>5, SendClientOrder
<1>6. CASE UNCHANGED <<shown, managerBox, delivered>>
  BY <1>1, <1>6
<1> QED
  BY <1>2, <1>3, <1>4, <1>5, <1>6
  DEF WebSocketsNext, Browser, GuardStep, LookupStep, ManagerStep, wsVars, managerVars, guardVars,
      Open, ClientWrites, ClientLeaves, Closes, TokenEnds, TimerExpires, TimerRuns, IgnoreMessage,
      RefuseJunk, CheckThrows, Stop, LookupRefuses

LEMMA OrderStep ==
  ASSUME TypeInv, RouterOnce, SocketsInv, OrderInv, AddressInv, [DeliveryNext]_deliveryVars
  PROVE  OrderInv' /\ AddressInv'
<1>1. ASSUME NEW n \in Notif, NEW u \in User, SendNotification(n, u) PROVE OrderInv' /\ AddressInv'
  BY <1>1, SendOrder DEF SocketsInv
<1>2. CASE Distribute
  BY <1>2, RegisterOrder, BroadcastOrder DEF Distribute, ActorStep
<1>3. CASE Forward
  BY <1>3, ForwardOrder DEF SocketsInv
<1>4. CASE SocketStep
  BY <1>4, SocketsOrder DEF SocketStep, notifVars
<1>5. ASSUME NEW l \in {"redis", "mailer"}, Take(l), UNCHANGED <<addressee, actorBox, wsVars, sent>>
      PROVE  OrderInv' /\ AddressInv'
  <2>1. inbox'["webSocket"] = inbox["webSocket"] /\ UNCHANGED <<managerBox, delivered, shown>>
    BY <1>5, TakeIs DEF Listener, wsVars
  <2> QED BY <1>5, <2>1, OrderSameStep DEF orderVars
<1>6. CASE UNCHANGED <<addressee, actorBox, inbox, wsVars, sent>>
  BY <1>6, OrderSameStep DEF orderVars, wsVars
<1>7. CASE Start
  BY <1>7, StartOrder DEF Start
<1> QED
  BY <1>1, <1>2, <1>3, <1>4, <1>5, <1>6, <1>7
  DEF DeliveryNext, MarkRead, Store, SendMail, SetRead, ReadAll, StartPush, Push, PushFails,
      StartMail, Mail, ReadStep, DeleteAll, RestoreOthers, ReadAborts, actorVars, registry, notifVars,
      deliveryVars

LEMMA DeliveryInvariant == DeliverySpec => []DeliveryInv
<1>1. DeliveryInit => DeliveryInv
  BY TypeInit, OnceInit, SocketsInvInit, OrderInit DEF DeliveryInit, DeliveryInv
<1>2. DeliveryInv /\ [DeliveryNext]_deliveryVars => DeliveryInv'
  <2> SUFFICES ASSUME DeliveryInv, [DeliveryNext]_deliveryVars PROVE DeliveryInv'
    OBVIOUS
  <2>1. TypeInv' /\ OnceInv'
    BY NotificationsPart, TypeStep, OnceStep DEF DeliveryInv
  <2>2. SocketsInv'
    BY SocketsPart, SocketsInvStep DEF DeliveryInv
  <2>3. OrderInv' /\ AddressInv'
    BY OrderStep DEF DeliveryInv, OnceInv
  <2> QED BY <2>1, <2>2, <2>3 DEF DeliveryInv
<1> QED BY <1>1, <1>2, PTL DEF DeliverySpec

(* A notification reaches one connection at most, one that showed a token of   *)
(* its addressee, whoever joins, leaves or is replaced while it travels        *)
(* (WebSocketManagerActor.receive, WebSocketSecurityActor.checkToken).         *)
THEOREM ToItsUserOnly == DeliverySpec => []OnlyToItsUser
<1>1. DeliveryInv => OnlyToItsUser
  BY DEF DeliveryInv, AddressInv
<1> QED BY <1>1, DeliveryInvariant, PTL

(* A connection gets what it gets once and in the order it was sent: three     *)
(* mailboxes, the router and the manager neither repeat nor reorder            *)
(* (NotificationActor.send, WebSocketNotificationActor, WebSocketManagerActor). *)
THEOREM InOrder == DeliverySpec => []DeliveredInOrder
<1>1. DeliveryInv => DeliveredInOrder
  <2>1. ASSUME DeliveryInv, NEW c \in Conn, NEW i \in DOMAIN delivered[c], NEW j \in DOMAIN delivered[c],
               i < j
        PROVE  <<delivered[c][i], delivered[c][j]>> \in Order
    BY <2>1 DEF DeliveryInv, OrderInv, Chain
  <2> QED BY ZenonT(60), <2>1 DEF Order, DeliveredInOrder
<1> QED BY <1>1, DeliveryInvariant, PTL

(* The notifications of the composition are those of Notifications, so what is *)
(* proved of them holds here: their types, one copy, the inbox, and who loses  *)
(* what (NotificationActor, NotificationService.setRead).                      *)
THEOREM DeliveryNotifies == DeliverySpec => NotificationsSpec
<1>1. DeliveryInit => NotificationsInit
  BY DEF DeliveryInit
<1> QED BY <1>1, NotificationsPart, PTL DEF DeliverySpec, NotificationsSpec

(* In particular a stored notification is shown or mailed once, and an item of *)
(* the inbox does not come back, also with everything else running.            *)
THEOREM DeliveryKeepsOneCopy ==
  ASSUME MaxReaders = 1
  PROVE  DeliverySpec => []StoredAndMailedOnce /\ ImplementsInbox /\ LostOnlyIfNamedOrOvertaken
  BY DeliveryNotifies, OneCopy, InboxImplemented, LossExplained, PTL
=============================================================================
