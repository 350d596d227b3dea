\* Two requests, at once or one by one; fixed expiration, or idle times below and up to it.
CONSTANTS
    Id = {i1, i2}
    Request = {r1, r2}
    Expiry = 1
    IdleTimes = {None, 0, 1}
    MaxTime = 2
    None = None
SPECIFICATION AuthenticatorSpec
SYMMETRY MCSymmetry
INVARIANT AuthenticatorTypeOK
INVARIANT NoCopyOutlivesExpiry
INVARIANT RevokedOpensNothing
INVARIANT RevokedTokenStaysOut
PROPERTY ImplementsSession
\* Once the clock stands still and every id was used, all copies are out of date.
CHECK_DEADLOCK FALSE
