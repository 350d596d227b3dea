\* Social sign-in beside the other flows, in histories of three kinds (MCBound).
CONSTANTS
    g1 = g1
    g2 = g2
    UserId = {u1, u2, u3}
    Email = {e1, e2}
    Password = {p1}
    Token = {t1, t2}
    Profile = {g1, g2}
    SignUpRequest = {r1}
    EmailRequest = {m1}
    DeleteRequest = {d1}
    SocialRequest = {s1, s2}
    Admin = {}
    Bound <- MCBound
    Nil = Nil
    CallsFail = TRUE
    ErrorsSwallowed = TRUE
SPECIFICATION AllSpec
SYMMETRY MCSymmetry
INVARIANT AllTypeOK
INVARIANT SignedInAsProfile
INVARIANT OneUserPerEmailSerially
INVARIANT DoorStaysOpen
\* Every id and every token may have been used.
CHECK_DEADLOCK FALSE
