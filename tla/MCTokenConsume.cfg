CONSTANTS
    Token = {1, 2, 3, 4}
    Issued = {1}
    Scope = {s1}
    Request = {r1, r2, r3}
    Offer <- MCOffer
    Flow = {"obtain", "login", "consume"}
    MaxTime = 1
    Null = Null
SPECIFICATION Spec
SYMMETRY Symmetry
INVARIANTS TypeOK CountsConserved NoReuseAfterGrant NoUseAfterExpiry
