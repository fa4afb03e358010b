CONSTANTS
    Call = {c1, c2, c3}
    Amount = {1, 2}
    Price = 2
    Cost = 1
    Video = {v1, v2}
    Op = {"topUp", "exchange", "savePoints", "vip", "migrate"}
    InitWallet <- MCInitWallet
    MaxFail = 1
SPECIFICATION Spec
SYMMETRY Symmetry
INVARIANTS TypeOK ColumnsAccounted NeverOverdrawn LedgersAddUp
