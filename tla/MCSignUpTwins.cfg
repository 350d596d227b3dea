\* Two sign-ups at once, and no failing call.
CONSTANTS
    UserId = {u1, u2, u3}
    Email = {e1, e2}
    Password = {p1, p2}
    Token = {t1, t2}
    SignUpRequest = {r1, r2}
    Nil = Nil
    CallsFail = FALSE
    ErrorsSwallowed = FALSE
SPECIFICATION SignUpSpec
SYMMETRY MCSymmetry
INVARIANT OneUserPerEmail
CHECK_DEADLOCK FALSE
