SPECIFICATION Spec
CONSTANTS
    Instance <- Two   Round <- Three   Jobs <- TwoLocks   MaxRounds = 3
    Caller <- Three   Fetches <- SlowAndFast   MaxIssued = 3
    OpenId = {"open id"}   Request = {q1, q2}   MaxChanges = 3   MaxSweeps = 1
    User <- Two   Tenancies <- BoundOrNot   MaxTenants = 2   MaxStray = 1
    Server <- Three   Address <- Addresses   Default = "default"   Configured <- OwnOrDefault
    Email = {"e"}   Visitor <- Three   MaxMails = 3
    Relations <- Two
    Load <- Two   Writer = {"1"}   MaxVersion = 2
    MaxFail = 1
SYMMETRY Symmetry
INVARIANTS
    TypeOK OverlapOnlyWhenLate CountsAddUp StoredIsNewest AdminFollowsUser
    TenantsHaveUsers LimitNearlyKept AdminInTheEnd ProfilesHaveUsers FirstCodeCounts
    FriendsBothWays OwnWritesSeen
CHECK_DEADLOCK FALSE
