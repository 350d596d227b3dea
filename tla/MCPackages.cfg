\* One, two and three requests at once, of one user with two rows.
CONSTANTS
    pack = pack
    nopack = nopack
    big = big
    None = None
    Row = {i1, i2}
    Request = {r1, r2, r3}
    Pack = {pack, nopack, big}
    Offer <- MCOffer
    Allowed <- MCAllowed
    MaxServed = 10
    CallsFail = TRUE
SPECIFICATION PackagesSpec
SYMMETRY MCSymmetry
INVARIANT PackagesTypeOK
INVARIANT CreditRunsOut
INVARIANT OfferCovers
PROPERTY ImplementsCredit
\* Once all credit is used up and all rows are gone, nothing can happen.
CHECK_DEADLOCK FALSE
