\* One connection, two notifications, one setRead at a time; whatever the server owes is done.
CONSTANTS
    t1 = t1
    t2 = t2
    u1 = u1
    u2 = u2
    User = {u1, u2}
    n1 = n1
    n2 = n2
    Notif = {n1, n2}
    Mentions <- MCMentions
    MaxReaders = 1
    MaxStored = 2
    Nobody = Nobody
    WsToken = {t1, t2}
    TokenUser <- MCTokenUser
    Payload = {n1, n2}
    MaxMessages = 2
    NoConn = NoConn
    Conn = {c1}
    ReadRequest = {r1}
    Parts <- MCEarly
SPECIFICATION DeliveryFairSpec
INVARIANT NotificationsTypeOK
INVARIANT StoredAndMailedOnce
PROPERTY ImplementsInbox
PROPERTY EverySendIsStored
PROPERTY RefusedIsClosed
PROPERTY JoinsOrCloses
PROPERTY ConnectedUserGetsIt
CHECK_DEADLOCK FALSE
