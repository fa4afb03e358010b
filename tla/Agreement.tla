----------------------------- MODULE Agreement -----------------------------
(***************************************************************************)
(* The parts in which several requests or instances have to agree on what  *)
(* they leave behind: rounds of crons, the access token of WeChat, the     *)
(* administrators of its users, tenants, the system administrator, the     *)
(* accounts of users and their friends, and the loaders of rows.  They     *)
(* share no state, so a behaviour is one of a single part, chosen at the   *)
(* start; the others rest where they begin.                                *)
(***************************************************************************)
EXTENDS Naturals

CONSTANTS
    Instance, Round, Jobs, MaxRounds,           \* Scheduler: instances, rounds, crons
    Caller, Fetches, MaxIssued,                 \* WxToken
    OpenId, Request, MaxChanges, MaxSweeps,     \* WeChat
    User, Tenancies, MaxTenants, MaxStray,      \* Tenancy, of the same requests
    Server, Address, Default, Configured,       \* SysAdmin
    Email, Visitor, MaxMails,                   \* SignUp: its requests are visitors
    Relations,                                  \* Friends, of the same users and requests
    Load, Writer, MaxVersion,                   \* Loader, on the instances of Scheduler
    MaxFail                                     \* what breaks off or crashes in a part

VARIABLES part,
    jConfig, jLock, round, success, reported, raced, started, jCrashes,
    wConfig, wLock, stored, issued, wLast, call, wCrossed, lost, wFails,
    saveToAdmin, follows, inbox, wx, admin, aReq, synced, aBroken, changes, rounds, aFails,
    tConfig, tenantOf, staff, owner, rows, given, stray, tRound, tReq, tCrossed, tBroken, tFails,
    email, role, row, node, mode, yCrashes,
    profile, user, codes, mails, since, eReq, eCrossed, eBroken, eFails,
    rel, fReq, unblocked, touched, fFails,
    redis, lRow, shared, local, load, write, last, lRaced

jobs    == <<jConfig, jLock, round, success, reported, raced, started, jCrashes>>
token   == <<wConfig, wLock, stored, issued, wLast, call, wCrossed, lost, wFails>>
admins  == <<saveToAdmin, follows, inbox, wx, admin, aReq, synced, aBroken, changes,
             rounds, aFails>>
tenants == <<tConfig, tenantOf, staff, owner, rows, given, stray, tRound, tReq, tCrossed,
             tBroken, tFails>>
system  == <<email, role, row, node, mode, yCrashes>>
account == <<profile, user, codes, mails, since, eReq, eCrossed, eBroken, eFails>>
friends == <<rel, fReq, unblocked, touched, fFails>>
loaders == <<redis, lRow, shared, local, load, write, last, lRaced>>
vars    == <<part, jobs, token, admins, tenants, system, account, friends, loaders>>

J == INSTANCE Scheduler WITH Config <- Jobs, MaxCrash <- MaxFail,
        config <- jConfig, lock <- jLock, crashes <- jCrashes
W == INSTANCE WxToken WITH Config <- Fetches, config <- wConfig, lock <- wLock,
        last <- wLast, crossed <- wCrossed, fails <- wFails
A == INSTANCE WeChat WITH User <- OpenId, MaxRounds <- MaxSweeps,
        req <- aReq, broken <- aBroken, fails <- aFails
T == INSTANCE Tenancy WITH Config <- Tenancies, config <- tConfig, round <- tRound,
        req <- tReq, crossed <- tCrossed, broken <- tBroken, fails <- tFails
Y == INSTANCE SysAdmin WITH Instance <- Server, crashes <- yCrashes
E == INSTANCE SignUp WITH Request <- Visitor,
        req <- eReq, crossed <- eCrossed, broken <- eBroken, fails <- eFails
F == INSTANCE Friends WITH Row <- Relations, req <- fReq, fails <- fFails
L == INSTANCE Loader WITH Write <- Writer, row <- lRow, raced <- lRaced

ASSUME AgreementAssumption ==
    /\ J!SchedulerAssumption /\ W!WxTokenAssumption /\ A!WeChatAssumption
    /\ T!TenancyAssumption /\ Y!SysAdminAssumption /\ E!SignUpAssumption
    /\ F!FriendsAssumption /\ L!LoaderAssumption

\* Where a part rests: in one of its own initial states.
Init ==
    /\ part \in {"jobs", "token", "admins", "tenants", "system", "account", "friends", "loaders"}
    /\ J!Init /\ (part # "jobs" => jConfig = CHOOSE c \in Jobs : TRUE)
    /\ W!Init /\ (part # "token" => wConfig = CHOOSE c \in Fetches : TRUE)
    /\ A!Init /\ (part # "admins" => ~saveToAdmin /\ follows = {})
    /\ T!Init /\ (part # "tenants" => tConfig = CHOOSE c \in Tenancies : TRUE)
    /\ Y!Init /\ (part # "system" => ~role /\ row = Y!NoRow
                                     /\ email = CHOOSE e \in Configured : TRUE)
    /\ E!Init
    /\ F!Init
    /\ L!Init /\ (part # "loaders" => ~redis)

Next ==
    \/ /\ part = "jobs" /\ J!Next
       /\ UNCHANGED <<part, token, admins, tenants, system, account, friends, loaders>>
    \/ /\ part = "token" /\ W!Next
       /\ UNCHANGED <<part, jobs, admins, tenants, system, account, friends, loaders>>
    \/ /\ part = "admins" /\ A!Next
       /\ UNCHANGED <<part, jobs, token, tenants, system, account, friends, loaders>>
    \/ /\ part = "tenants" /\ T!Next
       /\ UNCHANGED <<part, jobs, token, admins, system, account, friends, loaders>>
    \/ /\ part = "system" /\ Y!Next
       /\ UNCHANGED <<part, jobs, token, admins, tenants, account, friends, loaders>>
    \/ /\ part = "account" /\ E!Next
       /\ UNCHANGED <<part, jobs, token, admins, tenants, system, friends, loaders>>
    \/ /\ part = "friends" /\ F!Next
       /\ UNCHANGED <<part, jobs, token, admins, tenants, system, account, loaders>>
    \/ /\ part = "loaders" /\ L!Next
       /\ UNCHANGED <<part, jobs, token, admins, tenants, system, account, friends>>

Spec == Init /\ [][Next]_vars

-----------------------------------------------------------------------------
(* The properties of the parts, under this specification. *)

\* Locks, rounds, counters, rows and requests are well formed.
TypeOK ==
    /\ part = "jobs" => J!TypeOK
    /\ part = "token" => W!TypeOK
    /\ part = "admins" => A!TypeOK
    /\ part = "tenants" => T!TypeOK
    /\ part = "system" => Y!TypeOK
    /\ part = "account" => E!TypeOK
    /\ part = "friends" => F!TypeOK
    /\ part = "loaders" => L!TypeOK

\* Rounds overlap only when one outlives its lock (Scheduler).
OverlapOnlyWhenLate == J!OverlapOnlyWhenLate

\* A counter says how many rounds reported since it ran out last, unless two
\* counted at a time (Scheduler).
CountsAddUp == J!CountsAddUp

\* The place the newest token was issued for answers it, the others answer one
\* that has ended (WxToken).
StoredIsNewest == W!StoredIsNewest

\* An administrator is linked to his user, and active while he follows (WeChat).
AdminFollowsUser == A!AdminFollowsUser

\* A tenant is its owner's and his staff's (Tenancy).
TenantsHaveUsers == T!TenantsHaveUsers

\* A tenant exceeds the limit of a model by overlapping requests only (Tenancy).
LimitNearlyKept == T!LimitNearlyKept

\* Instances that start together leave a system administrator (SysAdmin).
AdminInTheEnd == Y!AdminInTheEnd

\* Every profile gets its user (SignUp).
ProfilesHaveUsers == E!ProfilesHaveUsers

\* The first code that was mailed is the one that is good (SignUp).
FirstCodeCounts == E!FirstCodeCounts

\* Friendship goes both ways (Friends).
FriendsBothWays == F!FriendsBothWays

\* The instance that changed a row last loads its own change (Loader).
OwnWritesSeen == L!OwnWritesSeen
=============================================================================
