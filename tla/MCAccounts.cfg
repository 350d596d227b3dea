\* Two requests at once, of any flow but log-in, by users who may be administrators.
CONSTANTS
    UserId = {u1, u2}
    Email = {e1, e2}
    Password = {p1}
    Token = {t1, t2}
    SignUpRequest = {r1}
    LogInRequest = {}
    EmailRequest = {m1}
    ForgotRequest = {f1}
    DeleteRequest = {d1}
    Admin = {u1, u2}
    MaxBusy = 2
    MaxFailures = 0
    Nil = Nil
    CallsFail = FALSE
    ErrorsSwallowed = FALSE
SPECIFICATION AccountsSpec
SYMMETRY MCSymmetry
INVARIANT AccountsTypeOK
INVARIANT ActiveOnlyByMail
INVARIANT OneLoginPerUser
CHECK_DEADLOCK FALSE
