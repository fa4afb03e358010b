CONSTANTS
    User = {"u"}
    Request = {"q"}
    Config <- MCConfig
    MaxTenants = 1
    MaxStray = 1
    MaxFail = 0
SPECIFICATION Spec
PROPERTY StraysFindTheirTenant
CHECK_DEADLOCK FALSE
