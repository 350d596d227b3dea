\* One request at a time, no failing call, no deletion and no administrator.
CONSTANTS
    UserId = {u1, u2}
    Email = {e1, e2}
    Password = {p1}
    Token = {t1, t2, t3}
    SignUpRequest = {r1}
    LogInRequest = {l1}
    EmailRequest = {m1}
    ForgotRequest = {f1}
    DeleteRequest = {}
    Admin = {}
    MaxBusy = 1
    MaxFailures = 0
    Nil = Nil
    CallsFail = FALSE
    ErrorsSwallowed = FALSE
SPECIFICATION AccountsFairSpec
INVARIANT EveryAccountOpens
INVARIANT NoPasswordLeftBehind
PROPERTY FirstActiveIsGranted
CHECK_DEADLOCK FALSE
