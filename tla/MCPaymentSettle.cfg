CONSTANTS
    Order = {o1}
    Methods = {"wxpay", "alipay", "post", "get"}
    Request = {r1, r2, r3, r4}
    Cron = {c1}
    MaxFail = 1
SPECIFICATION Spec
SYMMETRY Symmetry
INVARIANTS FulfilledIsRecorded NoLateFulfilment SettledOnWord DoneMeansPaid
PROPERTIES PaidIsFinal
