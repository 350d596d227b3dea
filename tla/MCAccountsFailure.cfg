\* One request at a time; one flow is cut short by a failing call or a stop, or any
\* number of errors is taken for success.
CONSTANTS
    UserId = {u1, u2}
    Email = {e1, e2}
    Password = {p1}
    Token = {t1, t2}
    SignUpRequest = {r1}
    LogInRequest = {l1}
    EmailRequest = {m1}
    ForgotRequest = {f1}
    DeleteRequest = {d1}
    Admin = {}
    MaxBusy = 1
    MaxFailures = 1
    Nil = Nil
    CallsFail = TRUE
    ErrorsSwallowed = TRUE
SPECIFICATION AccountsSpec
SYMMETRY MCSymmetry
INVARIANT EveryLoginUsable
INVARIANT OneUserPerEmail
INVARIANT MailedTokenExpires
CHECK_DEADLOCK FALSE
