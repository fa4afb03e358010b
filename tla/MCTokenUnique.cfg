CONSTANTS
    Token = {1, 2}
    Issued = {}
    Scope = {s1}
    Request = {r1, r2}
    Offer <- MCOffer
    Flow = {"obtain"}
    MaxTime = 1
    Null = Null
SPECIFICATION Spec
INVARIANTS OneUsablePerKey
