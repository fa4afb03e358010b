SPECIFICATION Spec
CONSTANTS
    Instance = {"i1", "i2"}   Starts <- AllStarts   MaxStops = 2
    Session = {"s1", "s2"}   Request = {1, 2}   Key = {"k1", "k2"}   Name = {"n1", "n2"}
    Plans <- Shared   MaxTotal = 2   MaxHaste = 1
    Order = {"order"}   Methods = {"wxpay"}   Handler = {"1", "2", "3"}   Cron = {"cron"}
    MaxFail = 1
INVARIANTS TypeOK SyncOneByOne UpIsMigrated NothingForgotten
PROPERTIES EveryoneComesUp IsAssembly EventuallyMerged PaidEndsDone
CHECK_DEADLOCK FALSE
