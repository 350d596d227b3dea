\* A connection that shows two tokens, or two that show one each, also while notifications are sent.
CONSTANTS
    t1 = t1
    t2 = t2
    u1 = u1
    u2 = u2
    User = {u1, u2}
    n1 = n1
    n2 = n2
    Notif = {n1, n2}
    Mentions <- MCMentions
    MaxReaders = 2
    MaxStored = 2
    Nobody = Nobody
    WsToken = {t1, t2}
    TokenUser <- MCTokenUser
    Payload = {n1, n2}
    MaxMessages = 2
    NoConn = NoConn
    Conn = {c1, c2}
    ReadRequest = {r1, r2}
    Parts <- MCLate
SPECIFICATION DeliverySpec
SYMMETRY MCSymmetry
INVARIANT WebSocketsTypeOK
INVARIANT RefusedClientIsDoomed
INVARIANT SharedClientIsDoomed
INVARIANT OnlyToItsUser
INVARIANT DeliveredInOrder
PROPERTY LostOnlyIfNamedOrOvertaken
\* With everything delivered and every connection closed nothing is left to do.
CHECK_DEADLOCK FALSE
