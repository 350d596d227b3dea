\* Two handlers at once, one of which may fail or stop between two calls.
CONSTANTS
    UserId = {u1, u2}
    Email = {e1, e2}
    Password = {p1, p2}
    Token = {t1, t2}
    SignUpRequest = {r1, r2}
    Nil = Nil
    CallsFail = TRUE
    ErrorsSwallowed = TRUE
SPECIFICATION SignUpSpec
SYMMETRY MCSymmetry
INVARIANT SignUpTypeOK
INVARIANT AtMostOneSuperadmin
INVARIANT ActiveOnlyByMail
INVARIANT SessionHasLogin
PROPERTY ImplementsLoginRegistry
\* With every address confirmed there is no request left to serve.
CHECK_DEADLOCK FALSE
