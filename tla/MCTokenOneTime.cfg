CONSTANTS
    Token = {1}
    Issued = {1}
    Scope = {s1}
    Request = {r1, r2}
    Offer <- MCOffer
    Flow = {"consume"}
    MaxTime = 1
    Null = Null
SPECIFICATION Spec
INVARIANTS OneTimeUsedOnce
