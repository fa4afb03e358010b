CONSTANTS
    i1 = i1
    i2 = i2
    c1 = c1
    c2 = c2
    c3 = c3
    r1 = r1
    Call = {c1, c2}
    Reader = {r1}
    Instance = {i1, i2}
    Home <- MCHome
    Form = {"f1"}
    Data = {"d1"}
    Input <- MCInput
    Config <- MCCaches
    MaxFail = 0
    MaxOutage = 1
SPECIFICATION Spec
INVARIANTS ClearedInTime
PROPERTY ReadersCatchUp
