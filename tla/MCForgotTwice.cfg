\* Two requests at once, which may both follow one forgotten-password link.
CONSTANTS
    UserId = {u1}
    Email = {e1}
    Password = {p1, p2}
    Token = {t1, t2}
    SignUpRequest = {r1}
    LogInRequest = {}
    EmailRequest = {}
    ForgotRequest = {f1, f2}
    DeleteRequest = {}
    Admin = {}
    MaxBusy = 2
    MaxFailures = 0
    Nil = Nil
    CallsFail = FALSE
    ErrorsSwallowed = FALSE
SPECIFICATION AccountsSpec
INVARIANT ForgotLinkUsedOnce
CHECK_DEADLOCK FALSE
