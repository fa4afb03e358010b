CONSTANTS
    Token = {1, 2, 3, 4}
    Issued = {1}
    Scope = {s1, s2}
    Request = {r1, r2, r3}
    Offer <- MCOffer
    Flow = {"login", "refresh"}
    MaxTime = 1
    Null = Null
SPECIFICATION Spec
SYMMETRY Symmetry
INVARIANTS LoginsLeaveAToken
PROPERTIES DeprecationIsFinal LoneLoginRevokesOthers
