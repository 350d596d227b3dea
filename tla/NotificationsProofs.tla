------------------------- MODULE NotificationsProofs -------------------------
(***************************************************************************)
(* Theorems about Notifications, for any number of users, notifications    *)
(* and requests; those about what a reader finds again assume, as the code *)
(* does, that a user marks one notification at a time.                     *)
(***************************************************************************)
EXTENDS Notifications, FunctionTheorems, FiniteSetTheorems, SequenceTheorems, TLAPS

(* Sequences without repetition                                               *)

LEMMA ToSetIsRange ==
  ASSUME NEW S, NEW s \in Seq(S) PROVE ToSet(s) = {s[i] : i \in 1..Len(s)} /\ ToSet(s) \subseteq S
  BY DEF ToSet

LEMMA EmptyIs == ToSet(<<>>) = {} /\ IsInjective(<<>>)
  BY DEF ToSet, IsInjective

LEMMA AppendIs ==
  ASSUME NEW S, NEW s \in Seq(S), NEW x \in S
  PROVE  /\ Append(s, x) \in Seq(S)
         /\ ToSet(Append(s, x)) = ToSet(s) \cup {x}
         /\ IsInjective(s) /\ x \notin ToSet(s) => IsInjective(Append(s, x))
<1>0. /\ Append(s, x) \in Seq(S) /\ Len(Append(s, x)) = Len(s) + 1 /\ Len(s) \in Nat
      /\ \A i \in 1..Len(s) : Append(s, x)[i] = s[i]
      /\ Append(s, x)[Len(s) + 1] = x
  BY AppendProperties, LenProperties
<1>1. ToSet(Append(s, x)) = ToSet(s) \cup {x}
  <2>1. \A i \in 1..Len(s) + 1 : i \in 1..Len(s) \/ i = Len(s) + 1
    BY <1>0
  <2>2. \A i \in 1..Len(s) : i \in 1..Len(s) + 1
    BY <1>0
  <2>3. Len(s) + 1 \in 1..Len(s) + 1
    BY <1>0
  <2>4. ToSet(Append(s, x)) = {Append(s, x)[i] : i \in 1..Len(s) + 1}
    BY <1>0, ToSetIsRange
  <2>5. ToSet(s) = {s[i] : i \in 1..Len(s)}
    BY ToSetIsRange
  <2> QED BY <1>0, <2>1, <2>2, <2>3, <2>4, <2>5, Zenon
<1>2. IsInjective(s) /\ x \notin ToSet(s) => IsInjective(Append(s, x))
  BY DEF ToSet, IsInjective
<1> QED BY <1>1, <1>2

LEMMA TailIs ==
  ASSUME NEW S, NEW s \in Seq(S), s # <<>>
  PROVE  /\ Head(s) \in S /\ Tail(s) \in Seq(S)
         /\ ToSet(s) = {Head(s)} \cup ToSet(Tail(s))
         /\ IsInjective(s) => IsInjective(Tail(s)) /\ Head(s) \notin ToSet(Tail(s))
<1>1. /\ Head(s) = s[1] /\ Tail(s) \in Seq(S) /\ Len(Tail(s)) = Len(s) - 1 /\ Len(s) \in Nat \ {0}
      /\ \A i \in 1..Len(Tail(s)) : Tail(s)[i] = s[i + 1]
  BY HeadTailProperties, EmptySeq
<1>2. ASSUME NEW i \in 1..Len(s), i # 1 PROVE \E k \in 1..Len(Tail(s)) : s[i] = Tail(s)[k]
  <2>1. i - 1 \in 1..Len(Tail(s)) /\ (i - 1) + 1 = i
    BY <1>1, <1>2
  <2> QED BY <1>1, <2>1
<1>3. ToSet(s) = {Head(s)} \cup ToSet(Tail(s))
  <2>1. \A k \in 1..Len(Tail(s)) : k + 1 \in 1..Len(s) /\ Tail(s)[k] = s[k + 1]
    BY <1>1
  <2>2. 1 \in 1..Len(s)
    BY <1>1
  <2>3. ToSet(s) = {s[i] : i \in 1..Len(s)}
    BY ToSetIsRange
  <2>4. ToSet(Tail(s)) = {Tail(s)[i] : i \in 1..Len(Tail(s))}
    BY <1>1, ToSetIsRange
  <2> QED BY <1>1, <1>2, <2>1, <2>2, <2>3, <2>4, ZenonT(60)
<1>4. IsInjective(s) => IsInjective(Tail(s)) /\ Head(s) \notin ToSet(Tail(s))
  BY <1>1 DEF ToSet, IsInjective
<1> QED BY <1>1, <1>3, <1>4

LEMMA ConcatIs ==
  ASSUME NEW S, NEW s \in Seq(S), NEW t \in Seq(S)
  PROVE  /\ s \o t \in Seq(S)
         /\ ToSet(s \o t) = ToSet(s) \cup ToSet(t)
         /\ IsInjective(s) /\ IsInjective(t) /\ ToSet(s) \cap ToSet(t) = {} => IsInjective(s \o t)
<1>1. /\ s \o t \in Seq(S) /\ Len(s \o t) = Len(s) + Len(t)
      /\ \A i \in 1..Len(s) + Len(t) :
           (s \o t)[i] = IF i <= Len(s) THEN s[i] ELSE t[i - Len(s)]
  BY ConcatProperties
<1>2. \A i \in 1..Len(s) : i \in 1..Len(s \o t) /\ (s \o t)[i] = s[i]
  BY <1>1
<1>3. \A i \in 1..Len(t) : i + Len(s) \in 1..Len(s \o t) /\ (s \o t)[i + Len(s)] = t[i]
  BY <1>1
<1>4. \A i \in 1..Len(s \o t) : i \in 1..Len(s) \/ i - Len(s) \in 1..Len(t)
  BY <1>1
<1>5. ToSet(s \o t) = ToSet(s) \cup ToSet(t)
  BY SMTT(30), <1>1, <1>2, <1>3, <1>4 DEF ToSet
<1>6. ASSUME IsInjective(s), IsInjective(t), ToSet(s) \cap ToSet(t) = {},
             NEW i \in 1..Len(s \o t), NEW j \in 1..Len(s \o t), (s \o t)[i] = (s \o t)[j]
      PROVE  i = j
  <2>1. CASE i \in 1..Len(s) /\ j \in 1..Len(s)
    BY <1>2, <1>6, <2>1 DEF IsInjective
  <2>2. CASE i - Len(s) \in 1..Len(t) /\ j - Len(s) \in 1..Len(t)
    <3>1. /\ (s \o t)[(i - Len(s)) + Len(s)] = t[i - Len(s)]
          /\ (s \o t)[(j - Len(s)) + Len(s)] = t[j - Len(s)]
          /\ (i - Len(s)) + Len(s) = i /\ (j - Len(s)) + Len(s) = j
      BY <1>3, <2>2
    <3>2. i - Len(s) = j - Len(s)
      BY <1>6, <2>2, <3>1 DEF IsInjective
    <3> QED BY <3>1, <3>2
  <2>3. ASSUME NEW k \in 1..Len(s), NEW l \in 1..Len(s \o t), l - Len(s) \in 1..Len(t)
        PROVE  (s \o t)[k] # (s \o t)[l]
    <3>1. (l - Len(s)) + Len(s) = l
      BY <2>3
    <3>2. (s \o t)[k] \in ToSet(s) /\ (s \o t)[l] \in ToSet(t)
      BY <1>2, <1>3, <2>3, <3>1 DEF ToSet
    <3> QED BY <1>6, <3>2
  <2> QED BY <1>4, <1>6, <2>1, <2>2, <2>3
<1>7. DOMAIN (s \o t) = 1..Len(s \o t)
  BY <1>1
<1> QED BY <1>1, <1>5, <1>6, <1>7 DEF IsInjective

(* filterNot keeps the texts without the mark, as often as they were there.    *)
LEMMA WithoutIs ==
  ASSUME NEW S, NEW s \in Seq(S), NEW n
  PROVE  /\ Without(s, n) \in Seq(S)
         /\ ToSet(Without(s, n)) = {m \in ToSet(s) : n \notin Mentions[m]}
         /\ IsInjective(s) => IsInjective(Without(s, n))
<1> DEFINE keep == {i \in DOMAIN s : n \notin Mentions[s[i]]}
           upTo(i) == {k \in keep : k <= i}
           rank(i) == Cardinality(upTo(i))
           f == [i \in keep |-> rank(i)]
           N == Cardinality(keep)
           at(j) == CHOOSE i \in keep : rank(i) = j
<1>1. IsFiniteSet(keep) /\ N \in Nat /\ IsFiniteSet(1..N) /\ Cardinality(1..N) = N
  <2>1. IsFiniteSet(1..Len(s)) /\ keep \in SUBSET (1..Len(s))
    BY FS_Interval
  <2>2. IsFiniteSet(keep) /\ N \in Nat
    BY <2>1, FS_Subset, FS_CardinalityType
  <2> QED BY <2>2, FS_Interval
<1>2. ASSUME NEW i \in keep PROVE IsFiniteSet(upTo(i)) /\ rank(i) \in 1..N
  <2>1. IsFiniteSet(upTo(i)) /\ rank(i) \in Nat /\ rank(i) <= N
    BY <1>1, FS_Subset, FS_CardinalityType
  <2>2. i \in upTo(i)
    OBVIOUS
  <2>3. rank(i) # 0
    BY <2>1, <2>2, FS_EmptySet
  <2> QED BY <2>1, <2>3, <1>1
<1>3. ASSUME NEW i \in keep, NEW k \in keep, i < k PROVE rank(i) # rank(k)
  <2>1. upTo(i) \in SUBSET upTo(k) /\ k \in upTo(k) /\ k \notin upTo(i)
    BY <1>3
  <2>2. IsFiniteSet(upTo(k))
    BY <1>2
  <2> QED BY <2>1, <2>2, FS_Subset
<1>4. \A i, k \in keep : rank(i) = rank(k) => i = k
  <2>1. \A i, k \in keep : i = k \/ i < k \/ k < i
    OBVIOUS
  <2> QED BY <1>3, <2>1, Zenon
<1> HIDE DEF rank
<1>5. f \in Injection(keep, 1..N)
  BY <1>2, <1>4 DEF Injection, IsInjective
<1>6. f \in Surjection(keep, 1..N)
  BY <1>1, <1>5, FS_Injection
<1>7. \A j \in 1..N : \E i \in keep : rank(i) = j
  BY <1>6 DEF Surjection
<1>8. \A j \in 1..N : at(j) \in keep /\ rank(at(j)) = j
  BY <1>7
<1>9. \A i \in keep : rank(i) \in 1..N /\ at(rank(i)) = i
  BY <1>2, <1>4, <1>8
<1>10. Without(s, n) = [j \in 1..N |-> s[at(j)]]
  BY DEF Without, rank
<1> HIDE DEF at, N
<1>11. \A j \in 1..N : s[at(j)] \in S
  BY <1>8
<1>12. Without(s, n) \in Seq(S) /\ DOMAIN Without(s, n) = 1..N
  BY <1>1, <1>10, <1>11 DEF N
<1>13. ToSet(Without(s, n)) = {m \in ToSet(s) : n \notin Mentions[m]}
  BY <1>8, <1>9, <1>10, <1>12 DEF ToSet
<1>14. IsInjective(s) => IsInjective(Without(s, n))
  BY <1>8, <1>10, <1>12 DEF IsInjective
<1> QED BY <1>12, <1>13, <1>14

-----------------------------------------------------------------------------
(* What is on its way is addressed to somebody, wherever it is.               *)
TypeInv ==
    /\ NotificationsTypeOK
    /\ \A n \in Notif : Sending(n) \in ToSet(actorBox) => addressee[n] # Nobody
    /\ \A l \in Listener : \A n \in ToSet(inbox[l]) : addressee[n] # Nobody

LEMMA TypeInit == NotificationsInit => TypeInv
<1> SUFFICES ASSUME NotificationsInit PROVE TypeInv
  OBVIOUS
<1>1. actorBox \in Seq(Message) /\ \A n \in Notif : Sending(n) \notin ToSet(actorBox)
  BY DEF NotificationsInit, Message, Registration, Sending, Listener, ToSet
<1>2. actors \in Seq(Listener) /\ starting \in Seq(Listener) /\ DOMAIN observersMap = {}
  <2>1. AtStart \in Seq(Listener) /\ <<>> \in Seq(Listener)
    BY DEF AtStart, Listener
  <2> QED BY <2>1 DEF NotificationsInit
<1> QED
  BY <1>1, <1>2, EmptyIs
  DEF NotificationsInit, TypeInv, NotificationsTypeOK, Reader, ReaderIdle

(* What the head of the notification actor's mailbox can be.                  *)
LEMMA HeadIs ==
  ASSUME actorBox \in Seq(Message), actorBox # <<>>
  PROVE  /\ Head(actorBox).kind = "register" =>
              /\ Head(actorBox).listener \in Listener
              /\ Head(actorBox) = Registration(Head(actorBox).listener)
         /\ Head(actorBox).kind = "send" =>
              /\ Head(actorBox).notif \in Notif
              /\ Head(actorBox) = Sending(Head(actorBox).notif)
<1>1. Head(actorBox) \in Message
  BY TailIs
<1> QED BY <1>1 DEF Message, Registration, Sending

(* What OnStart adds to it.                                                   *)
LEMMA NextIs ==
  ASSUME actorBox \in Seq(Message), starting \in Seq(Listener), RegisterNext
  PROVE  /\ Head(starting) \in Listener /\ starting' \in Seq(Listener)
         /\ Registration(Head(starting)) \in Message
         /\ actorBox' \in Seq(Message)
         /\ ToSet(actorBox') = ToSet(actorBox) \cup {Registration(Head(starting))}
<1>1. Head(starting) \in Listener /\ Tail(starting) \in Seq(Listener)
  BY TailIs DEF RegisterNext
<1>2. Registration(Head(starting)) \in Message
  BY <1>1 DEF Registration, Message
<1> QED BY <1>1, <1>2, AppendIs DEF RegisterNext

(* What the router puts into the mailbox of a listener: it serves the          *)
(* listeners of now, even if it was made before.                               *)
Copied(l) == [i \in 1..Cardinality({k \in DOMAIN actors : actors[k] = l}) |-> Head(actorBox).notif]

LEMMA RoutedIs ==
  ASSUME NotificationsTypeOK, Broadcast
  PROVE  /\ inbox' = [l \in Listener |-> inbox[l] \o Copied(l)]
         /\ \A list \in DOMAIN observersMap' :
              list \in Seq(Listener) /\ observersMap'[list] = list
<1>1. Observers = actors
  BY DEF Observers, NotificationsTypeOK
<1>2. inbox' = [l \in Listener |-> inbox[l] \o Copied(l)]
  BY <1>1 DEF Broadcast, Routed, Copied
<1>3. observersMap' = [list \in DOMAIN observersMap \cup {actors} |->
                         IF list = actors THEN actors ELSE observersMap[list]]
  BY <1>1 DEF Broadcast
<1> QED BY <1>2, <1>3 DEF NotificationsTypeOK

LEMMA CopiedIs ==
  ASSUME NEW l, actors \in Seq(Listener), Head(actorBox).notif \in Notif
  PROVE  /\ Copied(l) \in Seq(Notif)
         /\ ToSet(Copied(l)) \subseteq {Head(actorBox).notif}
         /\ IsInjective(actors) => IsInjective(Copied(l))
<1> DEFINE who == {k \in DOMAIN actors : actors[k] = l}
<1>1. IsFiniteSet(1..Len(actors)) /\ DOMAIN actors = 1..Len(actors) /\ Len(actors) \in Nat
  BY FS_Interval, LenProperties
<1>2. IsFiniteSet(who) /\ Cardinality(who) \in Nat
  BY <1>1, FS_Subset, FS_CardinalityType
<1>3. ASSUME IsInjective(actors) PROVE Cardinality(who) <= 1
  <2>1. ASSUME NEW k \in who PROVE who = {k}
    BY <1>3 DEF IsInjective
  <2>2. CASE who = {}
    <3>1. Cardinality(who) = 0
      BY <2>2, FS_EmptySet, Zenon
    <3> QED BY <3>1
  <2>3. CASE \E k : who = {k}
    <3>1. Cardinality(who) = 1
      BY <1>2, <2>3, FS_Singleton, Zenon
    <3> QED BY <3>1
  <2> QED BY <2>1, <2>2, <2>3
<1> HIDE DEF who
<1>4. Copied(l) = [i \in 1..Cardinality(who) |-> Head(actorBox).notif]
  BY DEF Copied, who
<1>5. Copied(l) \in Seq(Notif) /\ ToSet(Copied(l)) \subseteq {Head(actorBox).notif}
  BY <1>2, <1>4 DEF ToSet
<1>6. IsInjective(actors) => IsInjective(Copied(l))
  BY <1>2, <1>3, <1>4 DEF IsInjective
<1> QED BY <1>5, <1>6

LEMMA TypeStep == TypeInv /\ [NotificationsNext]_notifVars => TypeInv'
<1> SUFFICES ASSUME TypeInv, [NotificationsNext]_notifVars PROVE TypeInv'
  OBVIOUS
<1> USE DEF TypeInv, NotificationsTypeOK
<1>1. ASSUME NEW n \in Notif, NEW u \in User, Send(n, u) PROVE TypeInv'
  <2>1. addressee' \in [Notif -> User \cup {Nobody}] /\ addressee'[n] # Nobody
    BY <1>1, NobodyAssumption DEF Send
  <2>2. \A m \in Notif : addressee[m] # Nobody => addressee'[m] = addressee[m]
    BY <1>1 DEF Send
  <2>3. Sending(n) \in Message
    BY DEF Sending, Message
  <2>4. actorBox' \in Seq(Message) /\ ToSet(actorBox') = ToSet(actorBox) \cup {Sending(n)}
    BY <1>1, <2>3, AppendIs DEF Send
  <2>5. \A m \in Notif : Sending(m) = Sending(n) => m = n
    BY DEF Sending
  <2>6. \A m \in Notif : Sending(m) \in ToSet(actorBox') => addressee'[m] # Nobody
    BY <2>1, <2>2, <2>4, <2>5, NobodyAssumption
  <2>7. \A v \in User : \A m \in ToSet(redisList'[v]) : addressee'[m] = v
    BY <1>1, <2>2, NobodyAssumption, ToSetIsRange DEF Send
  <2>8. \A l \in Listener : \A m \in ToSet(inbox'[l]) : addressee'[m] # Nobody
    BY <1>1, <2>2, ToSetIsRange DEF Send
  <2>9. \A m \in pushing' \cup mailing' : addressee'[m] # Nobody
    BY <1>1, <2>2 DEF Send, mailVars
  <2>10. \A r \in ReadRequest : rd'[r].pc # "idle" =>
            rd'[r].user \in User /\ \A m \in ToSet(rd'[r].copy) : addressee'[m] = rd'[r].user
    <3>1. \A r \in ReadRequest : rd[r].copy \in Seq(Notif)
      BY DEF Reader
    <3> QED BY <1>1, <2>2, <3>1, NobodyAssumption, ToSetIsRange DEF Send, requestVars
  <2> QED BY <1>1, <2>1, <2>4, <2>6, <2>7, <2>8, <2>9, <2>10 DEF Send, registry, mailVars, requestVars
<1>2. CASE RegisterListener
  <2>1. Head(actorBox).listener \in Listener /\ Tail(actorBox) \in Seq(Message)
        /\ ToSet(Tail(actorBox)) \subseteq ToSet(actorBox)
    BY <1>2, HeadIs, TailIs DEF RegisterListener
  <2>2. actors' \in Seq(Listener)
    BY <1>2, <2>1, AppendIs DEF RegisterListener
  <2> QED BY <1>2, <2>1, <2>2 DEF RegisterListener, mailVars, requestVars
<1>3. CASE Broadcast
  <2> DEFINE n == Head(actorBox).notif
  <2>1. n \in Notif /\ Head(actorBox) = Sending(n) /\ Tail(actorBox) \in Seq(Message)
        /\ ToSet(actorBox) = {Head(actorBox)} \cup ToSet(Tail(actorBox))
    BY <1>3, HeadIs, TailIs DEF Broadcast
  <2>2. addressee[n] # Nobody
    BY <2>1
  <2>3. /\ inbox' = [l \in Listener |-> inbox[l] \o Copied(l)]
        /\ \A list \in DOMAIN observersMap' : list \in Seq(Listener) /\ observersMap'[list] = list
    BY <1>3, RoutedIs
  <2>4. \A l \in Listener : inbox'[l] \in Seq(Notif) /\ ToSet(inbox'[l]) \subseteq ToSet(inbox[l]) \cup {n}
    BY <2>1, <2>3, CopiedIs, ConcatIs
  <2>5. inbox' \in [Listener -> Seq(Notif)]
    BY <2>3, <2>4
  <2>6. /\ actorBox' = Tail(actorBox)
        /\ UNCHANGED <<addressee, actors, starting, pushing, mailing, mailed, redisList, rd, failed>>
    BY <1>3 DEF Broadcast, mailVars, requestVars
  <2>7. NotificationsTypeOK'
    BY <2>1, <2>3, <2>5, <2>6
  <2>8. \A l \in Listener : \A m \in ToSet(inbox'[l]) : addressee'[m] # Nobody
    BY <2>2, <2>4, <2>6
  <2>9. \A m \in Notif : Sending(m) \in ToSet(actorBox') => addressee'[m] # Nobody
    BY <2>1, <2>6
  <2> QED BY <2>7, <2>8, <2>9
<1>t. ASSUME NEW l \in Listener, Take(l)
      PROVE  /\ Head(inbox[l]) \in Notif /\ addressee[Head(inbox[l])] # Nobody
             /\ inbox' \in [Listener -> Seq(Notif)]
             /\ \A k \in Listener : ToSet(inbox'[k]) \subseteq ToSet(inbox[k])
  BY <1>t, TailIs DEF Take
<1>4. CASE StartPush
  BY <1>4, <1>t DEF StartPush, Listener, registry, mailVars, requestVars
<1>5. ASSUME NEW n \in Notif, Push(n) PROVE TypeInv'
  <2>1. addressee[n] \in User
    BY <1>5 DEF Push
  <2>2. redisList' \in [User -> Seq(Notif)]
        /\ \A u \in User : \A m \in ToSet(redisList'[u]) : addressee[m] = u
    BY <1>5, <2>1, AppendIs DEF Push
  <2> QED BY <1>5, <2>2 DEF Push, actorVars, registry, mailVars, requestVars
<1>6. ASSUME NEW n \in Notif, PushFails(n) PROVE TypeInv'
  BY <1>6 DEF PushFails, actorVars, registry, mailVars
<1>7. CASE StartMail
  BY <1>7, <1>t DEF StartMail, Listener, registry, requestVars
<1>8. ASSUME NEW n \in Notif, Mail(n) PROVE TypeInv'
  <2>1. mailed' \in Seq(Notif)
    <3>1. mailed' = mailed \/ mailed' = Append(mailed, n)
      BY <1>8 DEF Mail
    <3>2. Append(mailed, n) \in Seq(Notif)
      BY AppendIs
    <3> QED BY <3>1, <3>2
  <2> QED BY <1>8, <2>1 DEF Mail, actorVars, registry, requestVars
<1>9. CASE ForwardToSocket
  BY <1>9, <1>t DEF ForwardToSocket, Listener, registry, mailVars, requestVars
<1>r. ASSUME NEW r \in ReadRequest, NEW h \in Reader, rd' = [rd EXCEPT ![r] = h],
             h.pc # "idle" => h.user \in User /\ \A m \in ToSet(h.copy) : addressee[m] = h.user
      PROVE  /\ rd' \in [ReadRequest -> Reader]
             /\ \A q \in ReadRequest : rd'[q].pc # "idle" =>
                   rd'[q].user \in User /\ \A m \in ToSet(rd'[q].copy) : addressee[m] = rd'[q].user
  BY <1>r
<1>i. ReaderIdle \in Reader /\ ReaderIdle.pc = "idle"
  BY DEF ReaderIdle, Reader
<1>10. ASSUME NEW r \in ReadRequest, NEW u \in User, NEW n \in Notif, ReadAll(r, u, n)
       PROVE  TypeInv'
  <2> DEFINE h == [pc |-> "delete", user |-> u, notif |-> n, copy |-> redisList[u]]
  <2>1. h \in Reader /\ rd' = [rd EXCEPT ![r] = h] /\ h.user = u /\ h.copy = redisList[u]
    BY <1>10 DEF ReadAll, Reader
  <2> HIDE DEF h
  <2>2. h.user \in User /\ \A m \in ToSet(h.copy) : addressee[m] = h.user
    BY <2>1
  <2>3. failed' \subseteq Notif \cup ReadRequest
    BY <1>10 DEF ReadAll
  <2>4. /\ rd' \in [ReadRequest -> Reader]
        /\ \A q \in ReadRequest : rd'[q].pc # "idle" =>
              rd'[q].user \in User /\ \A m \in ToSet(rd'[q].copy) : addressee[m] = rd'[q].user
    BY <1>r, <2>1, <2>2
  <2>5. UNCHANGED <<addressee, actorBox, actors, observersMap, starting, inbox, pushing, mailing, mailed,
                  redisList>>
    BY <1>10 DEF ReadAll, actorVars, registry, mailVars
  <2>6. NotificationsTypeOK'
    BY <2>3, <2>4, <2>5
  <2>7. \A m \in Notif : Sending(m) \in ToSet(actorBox') => addressee'[m] # Nobody
    BY <2>5
  <2>8. \A l \in Listener : \A m \in ToSet(inbox'[l]) : addressee'[m] # Nobody
    BY <2>5
  <2> QED BY <2>6, <2>7, <2>8
<1>11. ASSUME NEW r \in ReadRequest, DeleteAll(r) PROVE TypeInv'
  <2> DEFINE h == [rd[r] EXCEPT !.pc = "restore"]
  <2>1. h \in Reader /\ rd' = [rd EXCEPT ![r] = h] /\ h.user = rd[r].user /\ h.copy = rd[r].copy
    BY <1>11 DEF DeleteAll, Reader
  <2>2. rd[r].user \in User /\ \A m \in ToSet(rd[r].copy) : addressee[m] = rd[r].user
    BY <1>11 DEF DeleteAll
  <2>3. redisList' \in [User -> Seq(Notif)]
        /\ \A u \in User : \A m \in ToSet(redisList'[u]) : addressee[m] = u
    BY <1>11, <2>2, EmptyIs DEF DeleteAll
  <2> HIDE DEF h
  <2>4. /\ rd' \in [ReadRequest -> Reader]
        /\ \A q \in ReadRequest : rd'[q].pc # "idle" =>
              rd'[q].user \in User /\ \A m \in ToSet(rd'[q].copy) : addressee[m] = rd'[q].user
    BY <1>r, <2>1, <2>2
  <2> QED BY <1>11, <2>3, <2>4 DEF DeleteAll, actorVars, registry, mailVars
<1>12. ASSUME NEW r \in ReadRequest, RestoreOthers(r) PROVE TypeInv'
  <2>1. rd[r].user \in User /\ (\A m \in ToSet(rd[r].copy) : addressee[m] = rd[r].user)
        /\ rd[r].copy \in Seq(Notif)
    BY <1>12 DEF RestoreOthers, Reader
  <2>2. redisList' \in [User -> Seq(Notif)]
        /\ \A u \in User : \A m \in ToSet(redisList'[u]) : addressee[m] = u
    BY <1>12, <2>1, WithoutIs, ConcatIs DEF RestoreOthers
  <2> QED BY <1>12, <1>r, <1>i, <2>2 DEF RestoreOthers, actorVars, registry, mailVars
<1>13. ASSUME NEW r \in ReadRequest, ReadAborts(r) PROVE TypeInv'
  <2>1. failed' \subseteq Notif \cup ReadRequest
    BY <1>13 DEF ReadAborts
  <2>2. /\ rd' \in [ReadRequest -> Reader]
        /\ \A q \in ReadRequest : rd'[q].pc # "idle" =>
              rd'[q].user \in User /\ \A m \in ToSet(rd'[q].copy) : addressee[m] = rd'[q].user
    BY <1>13, <1>r, <1>i DEF ReadAborts
  <2>5. UNCHANGED <<addressee, actorBox, actors, observersMap, starting, inbox, pushing, mailing, mailed,
                  redisList>>
    BY <1>13 DEF ReadAborts, actorVars, registry, mailVars
  <2> QED BY <2>1, <2>2, <2>5
<1>14. CASE RegisterNext
  <2>1. \A n \in Notif : Sending(n) # Registration(Head(starting))
    BY DEF Sending, Registration
  <2> QED BY <1>14, <2>1, NextIs DEF RegisterNext, mailVars, requestVars
<1>15. CASE UNCHANGED notifVars
  BY <1>15 DEF notifVars, registry
<1> QED
  BY <1>1, <1>2, <1>3, <1>4, <1>5, <1>6, <1>7, <1>8, <1>9, <1>10, <1>11, <1>12, <1>13, <1>14,
     <1>15
  DEF NotificationsNext, Arrival, ActorStep, StorageStep, MailerStep, ReadStep

(* Mailboxes, lists and requests keep their types, and whatever is stored is   *)
(* in the list of the user it is addressed to, however sends, pushes and       *)
(* setReads interleave (RedisStorageNotificationActor, setRead).               *)
THEOREM TypeCorrect == NotificationsSpec => []NotificationsTypeOK
<1>1. TypeInv => NotificationsTypeOK
  BY DEF TypeInv
<1> QED BY <1>1, TypeInit, TypeStep, PTL DEF NotificationsSpec

-----------------------------------------------------------------------------
(* A notification is in one place on its way to the store, and in one on its   *)
(* way to the mail; a listener registers once. Listed: stored, or read by a    *)
(* request that will write it back.                                            *)
Listed(n) == \/ \E u \in User : n \in ToSet(redisList[u])
             \/ \E r \in ReadRequest : n \in ToSet(rd[r].copy)

Fresh(n) == addressee[n] = Nobody \/ Sending(n) \in ToSet(actorBox)

RouterOnce ==
    /\ IsInjective(starting) /\ IsInjective(actorBox) /\ IsInjective(actors)
    /\ \A l \in Listener :
         /\ l \in ToSet(starting) => l \notin ToSet(actors) /\ Registration(l) \notin ToSet(actorBox)
         /\ Registration(l) \in ToSet(actorBox) => l \notin ToSet(actors)

StoreOnce(n) ==
    /\ Fresh(n) => n \notin ToSet(inbox["redis"]) /\ n \notin pushing /\ ~Listed(n)
    /\ n \in ToSet(inbox["redis"]) => n \notin pushing /\ ~Listed(n)
    /\ n \in pushing => ~Listed(n)

MailOnce(n) ==
    /\ Fresh(n) => n \notin ToSet(inbox["mailer"]) /\ n \notin mailing /\ n \notin ToSet(mailed)
    /\ n \in ToSet(inbox["mailer"]) => n \notin mailing /\ n \notin ToSet(mailed)
    /\ n \in mailing => n \notin ToSet(mailed)

OnceInv ==
    /\ RouterOnce
    /\ \A l \in {"redis", "mailer"} : IsInjective(inbox[l])
    /\ IsInjective(mailed)
    /\ \A n \in Notif : StoreOnce(n) /\ MailOnce(n)

(* With one request of a user at a time: what it has read is still stored      *)
(* until it deletes the list, and nothing of it is stored when it writes it    *)
(* back.                                                                       *)
ReadOnce(r) ==
    /\ IsInjective(rd[r].copy)
    /\ rd[r].pc = "delete"  => ToSet(rd[r].copy) \subseteq ToSet(redisList[rd[r].user])
    /\ rd[r].pc = "restore" => ToSet(rd[r].copy) \cap ToSet(redisList[rd[r].user]) = {}

ListInv ==
    /\ \A q, r \in ReadRequest :
         rd[q].pc # "idle" /\ rd[r].pc # "idle" /\ rd[q].user = rd[r].user => q = r
    /\ \A u \in User : IsInjective(redisList[u])
    /\ \A r \in ReadRequest : rd[r].pc # "idle" => ReadOnce(r)

(* Wherever a step takes a notification, it comes from the place before, and   *)
(* is no longer there.                                                         *)
Moves(n) ==
    /\ Fresh(n)' => Fresh(n)
    /\ \A l \in {"redis", "mailer"} :
         n \in ToSet(inbox'[l]) => n \in ToSet(inbox[l]) \/ (Fresh(n) /\ ~Fresh(n)')
    /\ n \in pushing' =>
         n \in pushing \/ (n \in ToSet(inbox["redis"]) /\ n \notin ToSet(inbox'["redis"]))
    /\ Listed(n)' => Listed(n) \/ (n \in pushing /\ n \notin pushing')
    /\ n \in mailing' =>
         n \in mailing \/ (n \in ToSet(inbox["mailer"]) /\ n \notin ToSet(inbox'["mailer"]))
    /\ n \in ToSet(mailed') => n \in ToSet(mailed) \/ (n \in mailing /\ n \notin mailing')

LEMMA TakeIs ==
  ASSUME TypeInv, NEW l \in Listener, Take(l)
  PROVE  /\ Head(inbox[l]) \in Notif
         /\ inbox' \in [Listener -> Seq(Notif)]
         /\ \A k \in Listener : k # l => inbox'[k] = inbox[k]
         /\ \A k \in Listener : ToSet(inbox'[k]) \subseteq ToSet(inbox[k])
         /\ Head(inbox[l]) \in ToSet(inbox[l])
         /\ IsInjective(inbox[l]) => IsInjective(inbox'[l]) /\ Head(inbox[l]) \notin ToSet(inbox'[l])
<1>1. inbox \in [Listener -> Seq(Notif)]
  BY DEF TypeInv, NotificationsTypeOK
<1>2. inbox[l] \in Seq(Notif) /\ inbox[l] # <<>> /\ inbox' = [inbox EXCEPT ![l] = Tail(@)]
  BY <1>1 DEF Take
<1>3. /\ Head(inbox[l]) \in Notif /\ Tail(inbox[l]) \in Seq(Notif)
      /\ ToSet(inbox[l]) = {Head(inbox[l])} \cup ToSet(Tail(inbox[l]))
      /\ IsInjective(inbox[l]) =>
            IsInjective(Tail(inbox[l])) /\ Head(inbox[l]) \notin ToSet(Tail(inbox[l]))
  BY <1>2, TailIs
<1> QED BY <1>1, <1>2, <1>3

LEMMA BroadcastIs ==
  ASSUME TypeInv, RouterOnce, Broadcast
  PROVE  LET n == Head(actorBox).notif IN
         /\ n \in Notif /\ addressee[n] # Nobody
         /\ actorBox' \in Seq(Message)
         /\ ToSet(actorBox) = {Sending(n)} \cup ToSet(actorBox')
         /\ IsInjective(actorBox') /\ Sending(n) \notin ToSet(actorBox')
         /\ \A l \in Listener :
              /\ inbox'[l] \in Seq(Notif)
              /\ ToSet(inbox'[l]) \subseteq ToSet(inbox[l]) \cup {n}
              /\ IsInjective(inbox[l]) /\ n \notin ToSet(inbox[l]) => IsInjective(inbox'[l])
<1> DEFINE n == Head(actorBox).notif
<1>1. actorBox \in Seq(Message) /\ actorBox # <<>> /\ inbox \in [Listener -> Seq(Notif)]
      /\ actors \in Seq(Listener) /\ actorBox' = Tail(actorBox) /\ IsInjective(actorBox)
      /\ IsInjective(actors)
  BY DEF TypeInv, NotificationsTypeOK, Broadcast, RouterOnce
<1>2. n \in Notif /\ Head(actorBox) = Sending(n)
  BY <1>1, HeadIs DEF Broadcast
<1>3. /\ Tail(actorBox) \in Seq(Message)
      /\ ToSet(actorBox) = {Head(actorBox)} \cup ToSet(Tail(actorBox))
      /\ IsInjective(Tail(actorBox)) /\ Head(actorBox) \notin ToSet(Tail(actorBox))
  BY <1>1, TailIs
<1>4. addressee[n] # Nobody
  BY <1>2, <1>3 DEF TypeInv
<1>5. inbox' = [l \in Listener |-> inbox[l] \o Copied(l)]
  BY RoutedIs DEF TypeInv
<1>6. ASSUME NEW l \in Listener
      PROVE  /\ inbox'[l] \in Seq(Notif)
             /\ ToSet(inbox'[l]) \subseteq ToSet(inbox[l]) \cup {n}
             /\ IsInjective(inbox[l]) /\ n \notin ToSet(inbox[l]) => IsInjective(inbox'[l])
  <2>1. Copied(l) \in Seq(Notif) /\ ToSet(Copied(l)) \subseteq {n} /\ IsInjective(Copied(l))
    BY <1>1, <1>2, CopiedIs
  <2>2. inbox[l] \in Seq(Notif) /\ inbox'[l] = inbox[l] \o Copied(l)
    BY <1>1, <1>5
  <2> HIDE DEF n
  <2> QED BY <2>1, <2>2, ConcatIs
<1> QED BY <1>1, <1>2, <1>3, <1>4, <1>6

LEMMA MovesStep ==
  ASSUME TypeInv, OnceInv, [NotificationsNext]_notifVars, NEW n \in Notif
  PROVE  Moves(n)
<1>0. /\ addressee \in [Notif -> User \cup {Nobody}]
      /\ actorBox \in Seq(Message) /\ starting \in Seq(Listener)
      /\ redisList \in [User -> Seq(Notif)] /\ mailed \in Seq(Notif)
      /\ rd \in [ReadRequest -> Reader]
      /\ \A r \in ReadRequest : rd[r].pc # "idle" => rd[r].user \in User
  BY DEF TypeInv, NotificationsTypeOK
<1> USE DEF Moves, Fresh, Listed
<1>1. ASSUME NEW m \in Notif, NEW u \in User, Send(m, u) PROVE Moves(n)
  <2>1. ToSet(actorBox') = ToSet(actorBox) \cup {Sending(m)}
    <3>1. Sending(m) \in Message
      BY DEF Sending, Message
    <3> QED BY <1>0, <1>1, <3>1, AppendIs DEF Send
  <2>2. Sending(n) = Sending(m) => n = m
    BY DEF Sending
  <2> QED BY <1>0, <1>1, <2>1, <2>2 DEF Send, registry, mailVars, requestVars
<1>2. CASE RegisterListener
  BY <1>0, <1>2, TailIs DEF RegisterListener, mailVars, requestVars
<1>3. CASE Broadcast
  BY <1>3, BroadcastIs DEF Broadcast, OnceInv, Listener, Sending, mailVars, requestVars
<1>4. CASE StartPush
  BY <1>4, TakeIs DEF StartPush, OnceInv, Listener, registry, mailVars, requestVars
<1>5. ASSUME NEW m \in Notif, Push(m) PROVE Moves(n)
  <2>1. \A u \in User : ToSet(redisList'[u]) \subseteq ToSet(redisList[u]) \cup {m}
    BY <1>0, <1>5, AppendIs DEF Push
  <2> QED BY <1>5, <2>1 DEF Push, actorVars, registry, mailVars, requestVars
<1>6. ASSUME NEW m \in Notif, PushFails(m) PROVE Moves(n)
  BY <1>6 DEF PushFails, actorVars, registry, mailVars
<1>7. CASE StartMail
  BY <1>7, TakeIs DEF StartMail, OnceInv, Listener, registry, requestVars
<1>8. ASSUME NEW m \in Notif, Mail(m) PROVE Moves(n)
  <2>1. ToSet(mailed') \subseteq ToSet(mailed) \cup {m}
    BY ZenonT(60), <1>0, <1>8, AppendIs DEF Mail
  <2> QED BY <1>8, <2>1 DEF Mail, actorVars, registry, requestVars
<1>9. CASE ForwardToSocket
  BY <1>9, TakeIs DEF ForwardToSocket, Listener, registry, mailVars, requestVars
<1>10. ASSUME NEW r \in ReadRequest, NEW u \in User, NEW m \in Notif, ReadAll(r, u, m)
       PROVE  Moves(n)
  <2>1. \A q \in ReadRequest : rd'[q].copy = rd[q].copy \/ rd'[q].copy = redisList[u]
    BY <1>0, <1>10 DEF ReadAll
  <2> QED BY <1>10, <2>1 DEF ReadAll, actorVars, registry, mailVars
<1>11. ASSUME NEW r \in ReadRequest, DeleteAll(r) PROVE Moves(n)
  <2>1. \A q \in ReadRequest : rd'[q].copy = rd[q].copy
    BY <1>0, <1>11 DEF DeleteAll, Reader
  <2>2. \A u \in User : ToSet(redisList'[u]) \subseteq ToSet(redisList[u])
    BY <1>0, <1>11, EmptyIs DEF DeleteAll
  <2> QED BY <1>11, <2>1, <2>2 DEF DeleteAll, actorVars, registry, mailVars
<1>i. \A r, q \in ReadRequest : rd' = [rd EXCEPT ![r] = ReaderIdle] =>
        rd'[q].copy = rd[q].copy \/ ToSet(rd'[q].copy) = {}
  BY <1>0, EmptyIs DEF ReaderIdle
<1>12. ASSUME NEW r \in ReadRequest, RestoreOthers(r) PROVE Moves(n)
  <2>1. rd[r].copy \in Seq(Notif) /\ rd[r].user \in User
    BY <1>0, <1>12 DEF RestoreOthers, Reader
  <2>2. \A u \in User : ToSet(redisList'[u]) \subseteq ToSet(redisList[u]) \cup ToSet(rd[r].copy)
    BY <1>0, <1>12, <2>1, WithoutIs, ConcatIs DEF RestoreOthers
  <2> QED BY <1>12, <1>i, <2>2 DEF RestoreOthers, actorVars, registry, mailVars
<1>13. ASSUME NEW r \in ReadRequest, ReadAborts(r) PROVE Moves(n)
  BY <1>13, <1>i DEF ReadAborts, actorVars, registry, mailVars
<1>14. CASE RegisterNext
  <2>1. ToSet(actorBox') = ToSet(actorBox) \cup {Registration(Head(starting))}
    BY <1>0, <1>14, NextIs DEF RegisterNext
  <2>2. Sending(n) # Registration(Head(starting))
    BY DEF Sending, Registration
  <2> QED BY <1>14, <2>1, <2>2 DEF RegisterNext, mailVars, requestVars
<1>15. CASE UNCHANGED notifVars
  BY <1>15 DEF notifVars, registry
<1> QED
  BY <1>1, <1>2, <1>3, <1>4, <1>5, <1>6, <1>7, <1>8, <1>9, <1>10, <1>11, <1>12, <1>13, <1>14,
     <1>15
  DEF NotificationsNext, Arrival, ActorStep, StorageStep, MailerStep, ReadStep

LEMMA OnceInit == NotificationsInit => OnceInv
<1> SUFFICES ASSUME NotificationsInit PROVE OnceInv
  OBVIOUS
<1>1. RouterOnce
  <2>1. IsInjective(AtStart)
    BY DEF AtStart, IsInjective
  <2> QED BY <2>1, EmptyIs DEF NotificationsInit, RouterOnce
<1>2. \A n \in Notif : ~Listed(n)
  BY EmptyIs DEF NotificationsInit, ReaderIdle, Listed
<1> QED BY <1>1, <1>2, EmptyIs DEF NotificationsInit, OnceInv, StoreOnce, MailOnce, Listener

LEMMA OnceStep == TypeInv /\ OnceInv /\ [NotificationsNext]_notifVars => OnceInv'
<1> SUFFICES ASSUME TypeInv, OnceInv, [NotificationsNext]_notifVars PROVE OnceInv'
  OBVIOUS
<1>0. /\ actorBox \in Seq(Message) /\ actors \in Seq(Listener) /\ mailed \in Seq(Notif)
      /\ starting \in Seq(Listener)
  BY DEF TypeInv, NotificationsTypeOK
<1>1. ASSUME NEW n \in Notif PROVE StoreOnce(n)' /\ MailOnce(n)'
  <2>1. Moves(n) /\ StoreOnce(n) /\ MailOnce(n)
    BY MovesStep DEF OnceInv
  <2> QED BY <2>1 DEF Moves, StoreOnce, MailOnce
<1>2. RouterOnce'
  <2>1. ASSUME NEW n \in Notif, NEW u \in User, Send(n, u) PROVE RouterOnce'
    <3>1. Sending(n) \in Message /\ Sending(n) \notin ToSet(actorBox)
      BY <2>1 DEF Send, TypeInv, Sending, Message
    <3>2. \A l \in Listener : Registration(l) # Sending(n)
      BY DEF Registration, Sending
    <3> QED BY <1>0, <2>1, <3>1, <3>2, AppendIs DEF OnceInv, RouterOnce, Send, registry
  <2>2. CASE RegisterListener
    <3> DEFINE k == Head(actorBox).listener
    <3>1. k \in Listener /\ Head(actorBox) = Registration(k)
      BY <1>0, <2>2, HeadIs DEF RegisterListener
    <3>2. /\ Tail(actorBox) \in Seq(Message)
          /\ ToSet(actorBox) = {Registration(k)} \cup ToSet(Tail(actorBox))
          /\ IsInjective(Tail(actorBox)) /\ Registration(k) \notin ToSet(Tail(actorBox))
      BY <1>0, <2>2, <3>1, TailIs DEF OnceInv, RouterOnce, RegisterListener
    <3>3. k \notin ToSet(actors)
      BY <3>1, <3>2 DEF OnceInv, RouterOnce
    <3>4. IsInjective(actors') /\ ToSet(actors') = ToSet(actors) \cup {k}
      BY <1>0, <2>2, <3>1, <3>3, AppendIs DEF OnceInv, RouterOnce, RegisterListener
    <3> QED BY <2>2, <3>2, <3>4 DEF OnceInv, RouterOnce, RegisterListener
  <2>3. CASE Broadcast
    BY <2>3, BroadcastIs DEF OnceInv, RouterOnce, Broadcast
  <2>4. CASE RegisterNext
    <3> DEFINE k == Head(starting)
    <3>1. /\ k \in Listener /\ ToSet(starting) = {k} \cup ToSet(Tail(starting))
          /\ IsInjective(Tail(starting)) /\ k \notin ToSet(Tail(starting))
      BY <1>0, <2>4, TailIs DEF OnceInv, RouterOnce, RegisterNext
    <3>2. k \notin ToSet(actors) /\ Registration(k) \notin ToSet(actorBox)
      BY <3>1 DEF OnceInv, RouterOnce
    <3>3. Registration(k) \in Message
      BY <3>1 DEF Registration, Message
    <3>4. IsInjective(actorBox') /\ ToSet(actorBox') = ToSet(actorBox) \cup {Registration(k)}
      BY <1>0, <2>4, <3>2, <3>3, AppendIs DEF OnceInv, RouterOnce, RegisterNext
    <3>5. \A l \in Listener : Registration(l) = Registration(k) => l = k
      BY DEF Registration
    <3> QED BY <2>4, <3>1, <3>2, <3>4, <3>5 DEF OnceInv, RouterOnce, RegisterNext
  <2>5. CASE UNCHANGED <<actorBox, actors, starting>>
    BY <2>5 DEF OnceInv, RouterOnce
  <2> QED
    BY <2>1, <2>2, <2>3, <2>4, <2>5
    DEF NotificationsNext, Arrival, ActorStep, StorageStep, MailerStep, ReadStep, StartPush, Push,
        PushFails, StartMail, Mail, ForwardToSocket, ReadAll, DeleteAll, RestoreOthers, ReadAborts,
        actorVars, registry, notifVars
<1>3. ASSUME NEW l \in {"redis", "mailer"} PROVE IsInjective(inbox'[l])
  <2>1. CASE Broadcast
    <3>1. Sending(Head(actorBox).notif) \in ToSet(actorBox) /\ Head(actorBox).notif \in Notif
      BY <2>1, BroadcastIs DEF OnceInv
    <3>2. Head(actorBox).notif \notin ToSet(inbox[l])
      BY <3>1 DEF OnceInv, StoreOnce, MailOnce, Fresh
    <3> QED BY <2>1, <3>2, BroadcastIs DEF OnceInv, Listener
  <2>2. ASSUME NEW k \in Listener, Take(k) PROVE IsInjective(inbox'[l])
    BY <2>2, TakeIs DEF OnceInv, Listener
  <2>3. CASE UNCHANGED inbox
    BY <2>3 DEF OnceInv
  <2> QED
    BY <2>1, <2>2, <2>3
    DEF NotificationsNext, Arrival, ActorStep, StorageStep, MailerStep, ReadStep, Send, Listener,
        RegisterListener, RegisterNext, StartPush, Push, PushFails, StartMail, Mail,
        ForwardToSocket, ReadAll,
        DeleteAll, RestoreOthers, ReadAborts, actorVars, registry, notifVars
<1>4. IsInjective(mailed')
  <2>1. ASSUME NEW n \in Notif, Mail(n) PROVE IsInjective(mailed')
    <3>1. n \notin ToSet(mailed)
      BY <2>1 DEF Mail, OnceInv, MailOnce
    <3>2. IsInjective(Append(mailed, n))
      BY <1>0, <3>1, AppendIs DEF OnceInv
    <3> QED BY <2>1, <3>2 DEF Mail, OnceInv
  <2>2. CASE UNCHANGED mailed
    BY <2>2 DEF OnceInv
  <2> QED
    BY <2>1, <2>2
    DEF NotificationsNext, Arrival, ActorStep, StorageStep, MailerStep, ReadStep, Send, Broadcast,
        RegisterListener, RegisterNext, StartPush, Push, PushFails, StartMail, ForwardToSocket,
        ReadAll,
        DeleteAll, RestoreOthers, ReadAborts, mailVars, notifVars
<1> QED BY <1>1, <1>2, <1>3, <1>4 DEF OnceInv

LEMMA ListInit == NotificationsInit => ListInv
  BY EmptyIs DEF NotificationsInit, ListInv, ReaderIdle

LEMMA ListStep ==
  ASSUME MaxReaders = 1, TypeInv, OnceInv, ListInv, [NotificationsNext]_notifVars
  PROVE  ListInv'
<1>0. /\ redisList \in [User -> Seq(Notif)] /\ rd \in [ReadRequest -> Reader]
      /\ \A n \in Notif : addressee[n] \in User \cup {Nobody}
      /\ \A r \in ReadRequest : rd[r].pc # "idle" => rd[r].user \in User
      /\ \A r \in ReadRequest : rd[r].copy \in Seq(Notif)
  BY DEF TypeInv, NotificationsTypeOK, Reader
<1> USE DEF ListInv, ReadOnce
<1>1. ASSUME NEW n \in Notif, Push(n) PROVE ListInv'
  <2>1. addressee[n] \in User /\ ~Listed(n)
    BY <1>1 DEF Push, TypeInv, NotificationsTypeOK, OnceInv, StoreOnce
  <2>2. \A u \in User : /\ ToSet(redisList[u]) \subseteq ToSet(redisList'[u])
                        /\ ToSet(redisList'[u]) \subseteq ToSet(redisList[u]) \cup {n}
                        /\ IsInjective(redisList'[u])
    BY <1>0, <1>1, <2>1, AppendIs DEF Push, Listed
  <2>3. \A r \in ReadRequest : n \notin ToSet(rd[r].copy)
    BY <2>1 DEF Listed
  <2> QED BY ZenonT(60), <1>0, <1>1, <2>2, <2>3 DEF Push, requestVars
<1>2. ASSUME NEW r \in ReadRequest, NEW u \in User, NEW n \in Notif, ReadAll(r, u, n)
      PROVE  ListInv'
  <2>1. ReadersOf(u) = {}
    <3>1. IsFiniteSet(ReadersOf(u)) /\ Cardinality(ReadersOf(u)) \in Nat
      BY ReadersAssumption, FS_Subset, FS_CardinalityType DEF ReadersOf
    <3>2. Cardinality(ReadersOf(u)) = 0
      BY <1>2, <3>1 DEF ReadAll
    <3> QED BY <3>1, <3>2, FS_EmptySet
  <2>2. \A q \in ReadRequest : rd[q].user # u
    BY <2>1 DEF ReadersOf
  <2>3. rd'[r].user = u /\ rd'[r].pc = "delete" /\ rd'[r].copy = redisList[u]
        /\ \A q \in ReadRequest : q # r => rd'[q] = rd[q]
    BY <1>0, <1>2 DEF ReadAll
  <2> QED BY <1>0, <1>2, <2>2, <2>3 DEF ReadAll
<1>3. ASSUME NEW r \in ReadRequest, DeleteAll(r) PROVE ListInv'
  <2>1. /\ rd'[r].user = rd[r].user /\ rd'[r].pc = "restore" /\ rd'[r].copy = rd[r].copy
        /\ \A q \in ReadRequest : q # r => rd'[q] = rd[q]
    BY <1>0, <1>3 DEF DeleteAll, Reader
  <2>2. \A q \in ReadRequest : q # r /\ rd[q].pc # "idle" => rd[q].user # rd[r].user
    BY <1>3 DEF DeleteAll
  <2>3. /\ \A u \in User : u # rd[r].user => redisList'[u] = redisList[u]
        /\ redisList'[rd[r].user] = <<>>
    BY <1>0, <1>3 DEF DeleteAll
  <2>4. ASSUME NEW q \in ReadRequest, rd'[q].pc # "idle" PROVE ReadOnce(q)'
    <3>1. CASE q = r
      BY <1>3, <2>1, <2>3, <3>1, EmptyIs DEF DeleteAll
    <3>2. CASE q # r
      <4>1. rd'[q] = rd[q] /\ rd[q].pc # "idle" /\ ReadOnce(q)
        BY <2>1, <2>4, <3>2
      <4>2. redisList'[rd[q].user] = redisList[rd[q].user]
        BY <1>0, <2>2, <2>3, <3>2, <4>1
      <4> QED BY <4>1, <4>2
    <3> QED BY <3>1, <3>2
  <2>5. \A u \in User : IsInjective(redisList'[u])
    BY <2>3, EmptyIs
  <2>6. \A q \in ReadRequest : rd'[q].pc # "idle" => rd[q].pc # "idle" /\ rd'[q].user = rd[q].user
    BY <1>3, <2>1 DEF DeleteAll
  <2> QED BY <2>4, <2>5, <2>6
<1>i. ASSUME NEW r \in ReadRequest, rd' = [rd EXCEPT ![r] = ReaderIdle]
      PROVE  rd'[r].pc = "idle" /\ \A q \in ReadRequest : q # r => rd'[q] = rd[q]
  BY <1>0, <1>i DEF ReaderIdle
<1>4. ASSUME NEW r \in ReadRequest, RestoreOthers(r) PROVE ListInv'
  <2>1. \A q \in ReadRequest : q # r /\ rd[q].pc # "idle" => rd[q].user # rd[r].user
    BY <1>4 DEF RestoreOthers
  <2>2. rd[r].user \in User /\ rd[r].copy \in Seq(Notif) /\ IsInjective(rd[r].copy)
        /\ ToSet(rd[r].copy) \cap ToSet(redisList[rd[r].user]) = {}
    BY <1>0, <1>4 DEF RestoreOthers
  <2>3. IsInjective(redisList[rd[r].user] \o Without(rd[r].copy, rd[r].notif))
    BY <1>0, <2>2, WithoutIs, ConcatIs
  <2>4. /\ \A u \in User : u # rd[r].user => redisList'[u] = redisList[u]
        /\ IsInjective(redisList'[rd[r].user])
    BY <1>0, <1>4, <2>3 DEF RestoreOthers
  <2>5. rd'[r].pc = "idle" /\ \A q \in ReadRequest : q # r => rd'[q] = rd[q]
    BY <1>4, <1>i DEF RestoreOthers
  <2>6. ASSUME NEW q \in ReadRequest, rd'[q].pc # "idle" PROVE ReadOnce(q)'
    <3>1. q # r /\ rd'[q] = rd[q] /\ rd[q].pc # "idle" /\ ReadOnce(q)
      BY <2>5, <2>6
    <3>2. redisList'[rd[q].user] = redisList[rd[q].user]
      BY <1>0, <2>1, <2>4, <3>1
    <3> QED BY <3>1, <3>2
  <2>7. \A u \in User : IsInjective(redisList'[u])
    BY <2>4
  <2> QED BY <2>5, <2>6, <2>7
<1>5. ASSUME NEW r \in ReadRequest, ReadAborts(r) PROVE ListInv'
  BY <1>0, <1>5, <1>i DEF ReadAborts
<1>6. CASE UNCHANGED <<redisList, rd>>
  BY <1>6
<1> QED
  BY <1>1, <1>2, <1>3, <1>4, <1>5, <1>6
  DEF NotificationsNext, Arrival, ActorStep, StorageStep, MailerStep, ReadStep, Send,
      RegisterListener, RegisterNext, Broadcast, StartPush, PushFails, StartMail, Mail,
      ForwardToSocket,
      requestVars, notifVars

(* With one setRead of a user at a time nobody is shown or mailed a            *)
(* notification twice, whichever broadcasts, pushes, mails and failures come   *)
(* between the commands (NotificationActor, NotificationService.setRead).      *)
THEOREM OneCopy == ASSUME MaxReaders = 1 PROVE NotificationsSpec => []StoredAndMailedOnce
<1> DEFINE Inv == TypeInv /\ OnceInv /\ ListInv
<1>1. NotificationsInit => Inv
  BY TypeInit, OnceInit, ListInit
<1>2. Inv /\ [NotificationsNext]_notifVars => Inv'
  BY TypeStep, OnceStep, ListStep
<1>3. Inv => StoredAndMailedOnce
  BY DEF OnceInv, ListInv, StoredAndMailedOnce
<1> QED BY <1>1, <1>2, <1>3, PTL DEF NotificationsSpec

-----------------------------------------------------------------------------
(* What a step that is no push keeps was kept before.                         *)
LEMMA KeptOnlyByPush ==
  ASSUME MaxReaders = 1, TypeInv, OnceInv, ListInv, [NotificationsNext]_notifVars,
         NEW n \in Notif, ~Kept(n), Kept(n)'
  PROVE  Push(n)
<1>0. /\ redisList \in [User -> Seq(Notif)] /\ rd \in [ReadRequest -> Reader]
      /\ \A r \in ReadRequest : rd[r].pc # "idle" => rd[r].user \in User
      /\ \A r \in ReadRequest : rd[r].copy \in Seq(Notif)
  BY DEF TypeInv, NotificationsTypeOK, Reader
<1> USE DEF Kept
<1>1. ASSUME NEW m \in Notif, Push(m), m # n PROVE FALSE
  <2>1. \A u \in User : ToSet(redisList'[u]) \subseteq ToSet(redisList[u]) \cup {m}
    BY <1>0, <1>1, AppendIs DEF Push
  <2> QED BY <1>1, <2>1 DEF Push, requestVars
<1>2. ASSUME NEW r \in ReadRequest, NEW u \in User, NEW m \in Notif, ReadAll(r, u, m) PROVE FALSE
  <2>1. \A q \in ReadRequest : rd'[q].pc = "restore" => rd'[q] = rd[q]
    BY <1>0, <1>2 DEF ReadAll
  <2> QED BY <1>2, <2>1 DEF ReadAll
<1>3. ASSUME NEW r \in ReadRequest, DeleteAll(r) PROVE FALSE
  <2>1. \A u \in User : ToSet(redisList'[u]) \subseteq ToSet(redisList[u])
    BY <1>0, <1>3, EmptyIs DEF DeleteAll
  <2>2. /\ rd'[r].copy = rd[r].copy
        /\ \A q \in ReadRequest : q # r => rd'[q] = rd[q]
    BY <1>0, <1>3 DEF DeleteAll, Reader
  <2>3. ToSet(rd[r].copy) \subseteq ToSet(redisList[rd[r].user]) /\ rd[r].user \in User
    BY <1>0, <1>3 DEF DeleteAll, ListInv, ReadOnce
  <2> QED BY <2>1, <2>2, <2>3
<1>i. ASSUME NEW r \in ReadRequest, rd' = [rd EXCEPT ![r] = ReaderIdle]
      PROVE  rd'[r].pc = "idle" /\ \A q \in ReadRequest : q # r => rd'[q] = rd[q]
  BY <1>0, <1>i DEF ReaderIdle
<1>4. ASSUME NEW r \in ReadRequest, RestoreOthers(r) PROVE FALSE
  <2>1. \A u \in User : u # rd[r].user => redisList'[u] = redisList[u]
    BY <1>0, <1>4 DEF RestoreOthers
  <2>2. /\ rd[r].user \in User
        /\ ToSet(redisList'[rd[r].user]) =
             ToSet(redisList[rd[r].user]) \cup {m \in ToSet(rd[r].copy) : rd[r].notif \notin Mentions[m]}
    BY <1>0, <1>4, WithoutIs, ConcatIs DEF RestoreOthers
  <2> QED BY <1>4, <1>i, <2>1, <2>2 DEF RestoreOthers
<1>5. ASSUME NEW r \in ReadRequest, ReadAborts(r) PROVE FALSE
  BY <1>5, <1>i DEF ReadAborts
<1>6. CASE UNCHANGED <<redisList, rd>>
  BY <1>6
<1> QED
  BY <1>1, <1>2, <1>3, <1>4, <1>5, <1>6
  DEF NotificationsNext, Arrival, ActorStep, StorageStep, MailerStep, ReadStep, Send,
      RegisterListener, RegisterNext, Broadcast, StartPush, PushFails, StartMail, Mail,
      ForwardToSocket,
      requestVars, notifVars

LEMMA KeptIsListed ==
  ASSUME OnceInv, NEW n \in Notif, Kept(n)
  PROVE  Listed(n) /\ ~Travelling(n)
  BY DEF OnceInv, StoreOnce, Listed, Fresh, Kept, Travelling

(* A push stores its notification and leaves the stage of the others.         *)
LEMMA PushKeeps ==
  ASSUME TypeInv, OnceInv, NEW n \in Notif, Push(n)
  PROVE  Inbox!Keep(n)
<1>1. addressee[n] \in User /\ ~Kept(n) /\ Travelling(n)
  <2>1. ~Listed(n)
    BY DEF OnceInv, StoreOnce, Push
  <2> QED BY <2>1, KeptIsListed DEF Push, TypeInv, NotificationsTypeOK, Travelling
<1>2. \A u \in User : ToSet(redisList'[u]) =
        IF u = addressee[n] THEN ToSet(redisList[u]) \cup {n} ELSE ToSet(redisList[u])
  <2>1. redisList \in [User -> Seq(Notif)]
    BY DEF TypeInv, NotificationsTypeOK
  <2>2. /\ redisList'[addressee[n]] = Append(redisList[addressee[n]], n)
        /\ \A u \in User : u # addressee[n] => redisList'[u] = redisList[u]
    BY <1>1, <2>1 DEF Push
  <2>3. ToSet(Append(redisList[addressee[n]], n)) = ToSet(redisList[addressee[n]]) \cup {n}
    BY <1>1, <2>1, AppendIs
  <2> QED BY <2>2, <2>3
<1>3. Kept(n)'
  BY <1>1, <1>2 DEF Kept
<1>4. \A m \in Notif : m # n => (Kept(m)' <=> Kept(m)) /\ (Travelling(m)' <=> Travelling(m))
  <2>1. UNCHANGED <<addressee, actorBox, inbox, rd>> /\ pushing' = pushing \ {n}
    BY DEF Push, actorVars, registry, requestVars
  <2>2. \A m \in Notif, u \in User : m # n => (m \in ToSet(redisList'[u]) <=> m \in ToSet(redisList[u]))
    BY <1>2
  <2>3. \A m \in Notif : m # n => (Kept(m)' <=> Kept(m))
    BY <2>1, <2>2 DEF Kept
  <2>4. \A m \in Notif : m # n => (Travelling(m)' <=> Travelling(m))
    BY <2>1 DEF Travelling
  <2> QED BY <2>3, <2>4
<1> QED BY <1>1, <1>3, <1>4, Zenon DEF Inbox!Keep, Stage

(* What is on its way comes from there, and what is kept is not on its way.   *)
LEMMA OthersDrop ==
  ASSUME MaxReaders = 1, TypeInv, OnceInv, ListInv, [NotificationsNext]_notifVars,
         \A n \in Notif : ~Push(n)
  PROVE  Inbox!Drop({n \in Notif : Stage'[n] = "gone"})
<1>1. ASSUME NEW n \in Notif PROVE Travelling(n)' => Travelling(n)
  BY MovesStep DEF Moves, Travelling, Fresh
<1>2. ASSUME NEW n \in Notif PROVE Kept(n)' => Kept(n)
  BY KeptOnlyByPush
<1>3. ASSUME NEW n \in Notif PROVE Kept(n) => ~Travelling(n)
  BY KeptIsListed
<1>4. Stage = [n \in Notif |-> IF Kept(n) THEN "kept" ELSE IF Travelling(n) THEN "new" ELSE "gone"]
      /\ Stage' = [n \in Notif |-> IF Kept(n)' THEN "kept"
                                  ELSE IF Travelling(n)' THEN "new" ELSE "gone"]
  BY DEF Stage
<1>5. ASSUME NEW n \in Notif PROVE Stage'[n] = Stage[n] \/ Stage'[n] = "gone"
  BY <1>1, <1>2, <1>3, <1>4
<1> QED BY <1>4, <1>5 DEF Inbox!Drop

(* With one setRead of a user at a time the store keeps what the inbox         *)
(* promises: a notification comes once, and what was marked or lost does not   *)
(* come back (RedisStorageNotificationActor, NotificationService.setRead).     *)
THEOREM InboxImplemented == ASSUME MaxReaders = 1 PROVE NotificationsSpec => ImplementsInbox
<1> DEFINE Inv == TypeInv /\ OnceInv /\ ListInv
<1>1. NotificationsInit => Inv
  BY TypeInit, OnceInit, ListInit
<1>2. Inv /\ [NotificationsNext]_notifVars => Inv'
  BY TypeStep, OnceStep, ListStep
<1>3. NotificationsInit => Inbox!InboxInit
  <2>1. NotificationsInit => \A n \in Notif : ~Kept(n) /\ Travelling(n)
    BY EmptyIs DEF NotificationsInit, Kept, Travelling, ReaderIdle
  <2> QED BY <2>1 DEF Inbox!InboxInit, Stage
<1>4. Inv /\ [NotificationsNext]_notifVars => [Inbox!InboxNext]_Stage
  <2> SUFFICES ASSUME Inv, [NotificationsNext]_notifVars PROVE Inbox!InboxNext
    OBVIOUS
  <2>1. CASE \E n \in Notif : Push(n)
    BY <2>1, PushKeeps DEF Inbox!InboxNext
  <2>2. CASE \A n \in Notif : ~Push(n)
    <3>1. {n \in Notif : Stage'[n] = "gone"} \in SUBSET Notif
      OBVIOUS
    <3> QED BY <2>2, <3>1, OthersDrop DEF Inbox!InboxNext
  <2> QED BY <2>1, <2>2
<1> QED BY <1>1, <1>2, <1>3, <1>4, PTL DEF NotificationsSpec, ImplementsInbox, Inbox!InboxSpec

-----------------------------------------------------------------------------
(* Who loses a notification, with any number of requests at once.             *)
LEMMA LossStep ==
  ASSUME TypeInv, [NotificationsNext]_notifVars, NEW n \in Notif, Kept(n), ~Kept(n)'
  PROVE  \E r \in ReadRequest :
            /\ rd[r].user = addressee[n]
            /\ \/ rd[r].notif \in Mentions[n]
               \/ n \notin ToSet(rd[r].copy)
               \/ r \in failed'
<1>0. /\ redisList \in [User -> Seq(Notif)] /\ rd \in [ReadRequest -> Reader]
      /\ \A r \in ReadRequest : rd[r].pc # "idle" =>
            rd[r].user \in User /\ \A m \in ToSet(rd[r].copy) : addressee[m] = rd[r].user
      /\ \A r \in ReadRequest : rd[r].copy \in Seq(Notif)
      /\ \A u \in User : \A m \in ToSet(redisList[u]) : addressee[m] = u
  BY DEF TypeInv, NotificationsTypeOK, Reader
<1> USE DEF Kept
<1>1. ASSUME NEW m \in Notif, Push(m) PROVE FALSE
  <2>1. \A u \in User : ToSet(redisList[u]) \subseteq ToSet(redisList'[u])
    BY <1>0, <1>1, AppendIs DEF Push
  <2> QED BY <1>1, <2>1 DEF Push, requestVars
<1>2. ASSUME NEW r \in ReadRequest, NEW u \in User, NEW m \in Notif, ReadAll(r, u, m) PROVE FALSE
  <2>1. \A q \in ReadRequest : rd[q].pc = "restore" => rd'[q] = rd[q]
    BY <1>0, <1>2 DEF ReadAll
  <2> QED BY <1>2, <2>1 DEF ReadAll
<1>3. ASSUME NEW r \in ReadRequest, DeleteAll(r)
      PROVE  rd[r].user = addressee[n] /\ (rd[r].notif \in Mentions[n] \/ n \notin ToSet(rd[r].copy))
  <2>1. /\ rd'[r].copy = rd[r].copy /\ rd'[r].notif = rd[r].notif /\ rd'[r].pc = "restore"
        /\ \A q \in ReadRequest : rd[q].pc = "restore" => rd'[q] = rd[q]
    BY <1>0, <1>3 DEF DeleteAll, Reader
  <2>2. \A u \in User : u # rd[r].user => redisList'[u] = redisList[u]
    BY <1>0, <1>3 DEF DeleteAll
  <2> QED BY <1>0, <2>1, <2>2
<1>i. ASSUME NEW r \in ReadRequest, rd' = [rd EXCEPT ![r] = ReaderIdle]
      PROVE  \A q \in ReadRequest : q # r => rd'[q] = rd[q]
  BY <1>0, <1>i
<1>4. ASSUME NEW r \in ReadRequest, RestoreOthers(r) PROVE FALSE
  <2>1. \A u \in User : u # rd[r].user => redisList'[u] = redisList[u]
    BY <1>0, <1>4 DEF RestoreOthers
  <2>2. /\ rd[r].user \in User
        /\ ToSet(redisList'[rd[r].user]) =
             ToSet(redisList[rd[r].user]) \cup {m \in ToSet(rd[r].copy) : rd[r].notif \notin Mentions[m]}
    BY <1>0, <1>4, WithoutIs, ConcatIs DEF RestoreOthers
  <2>3. \A q \in ReadRequest : q # r => rd'[q] = rd[q]
    BY <1>4, <1>i DEF RestoreOthers
  <2> QED BY <2>1, <2>2, <2>3
<1>5. ASSUME NEW r \in ReadRequest, ReadAborts(r)
      PROVE  rd[r].user = addressee[n] /\ r \in failed'
  <2>1. \A q \in ReadRequest : q # r => rd'[q] = rd[q]
    BY <1>5, <1>i DEF ReadAborts
  <2>2. n \in ToSet(rd[r].copy) /\ rd[r].pc # "idle"
    BY <1>5, <2>1 DEF ReadAborts
  <2> QED BY <1>0, <1>5, <2>2 DEF ReadAborts
<1>6. CASE UNCHANGED <<redisList, rd>>
  BY <1>6
<1> QED
  BY <1>1, <1>2, <1>3, <1>4, <1>5, <1>6
  DEF NotificationsNext, Arrival, ActorStep, StorageStep, MailerStep, ReadStep, Send,
      RegisterListener, RegisterNext, Broadcast, StartPush, PushFails, StartMail, Mail,
      ForwardToSocket,
      requestVars, notifVars

(* A stored notification is lost only to a request of its own addressee that   *)
(* marks a UUID found in its text, had read the list before it came, or is cut *)
(* short, however many requests run at once (NotificationService.setRead).     *)
THEOREM LossExplained == NotificationsSpec => LostOnlyIfNamedOrOvertaken
<1>1. TypeInv /\ [NotificationsNext]_notifVars =>
        [\A n \in Notif : Kept(n) /\ ~Kept(n)' =>
           \E r \in ReadRequest :
              /\ rd[r].user = addressee[n]
              /\ \/ rd[r].notif \in Mentions[n]
                 \/ n \notin ToSet(rd[r].copy)
                 \/ r \in failed']_notifVars
  BY LossStep
<1> QED
  BY <1>1, TypeInit, TypeStep, PTL DEF NotificationsSpec, LostOnlyIfNamedOrOvertaken
=============================================================================
