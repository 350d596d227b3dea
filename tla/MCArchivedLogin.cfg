\* One request at a time and no failing call: a sign-up, then a deletion.
CONSTANTS
    UserId = {u1, u2}
    Email = {e1, e2}
    Password = {p1, p2}
    Token = {t1, t2}
    SignUpRequest = {r1}
    LogInRequest = {l1}
    EmailRequest = {m1}
    ForgotRequest = {f1}
    DeleteRequest = {d1}
    Admin = {}
    MaxBusy = 1
    MaxFailures = 0
    Nil = Nil
    CallsFail = FALSE
    ErrorsSwallowed = FALSE
SPECIFICATION AccountsSpec
INVARIANT NoLoginWithoutUser
CHECK_DEADLOCK FALSE
