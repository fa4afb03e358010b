CONSTANTS
    i1 = i1
    i2 = i2
    c1 = c1
    c2 = c2
    c3 = c3
    r1 = r1
    Call = {c1, c2, c3}
    Reader = {}
    Instance = {i2}
    Home <- MCHomeData
    Form = {"f1", "f2"}
    Data = {"d1"}
    Input <- MCInputs
    Config <- MCInits
    MaxFail = 1
    MaxOutage = 0
SPECIFICATION Spec
SYMMETRY Symmetry
INVARIANTS TypeOK DataSurvive
