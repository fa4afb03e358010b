------------------------------ MODULE Tenancy ------------------------------
(***************************************************************************)
(* Tenants, their users and the records they save (TenantService,          *)
(* TenantAuthService, RestService).                                        *)
(*                                                                         *)
(* An application registers a tenant for a user: the service looks, twice, *)
(* whether he has one, inserts one and links it to him.  He then makes     *)
(* further users of it, his staff.  What they save is checked against the  *)
(* tenant's permission and the limit of the model, and with a bound first  *)
(* model it is linked to the tenant's record of it.  What administrators   *)
(* save has the tenant they fill in, or none; crons are meant to give it   *)
(* the tenant of the first model's record.                                 *)
(***************************************************************************)
EXTENDS Integers, FiniteSets, Functions

CONSTANTS
    User, Request,
    Config,         \* users: who has signed up; roles: the roles that may save;
                    \* bind: the first model is bound; limit: how many records of
                    \* the other model there may be
    MaxTenants,     \* bound of the tenants
    MaxStray,       \* bound of the records that are saved without a check
    MaxFail         \* bound of the requests that break off

TenancyAssumption ==
    /\ Config \subseteq [users : SUBSET User, roles : SUBSET {"admin", "staff"},
                        bind : BOOLEAN, limit : Nat]
    /\ MaxTenants \in Nat /\ MaxStray \in Nat /\ MaxFail \in Nat
    /\ IsFiniteSet(Request) /\ Request # {} /\ "none" \notin User

Tenant == 1 .. MaxTenants
Nobody == "none"
None == 0
Absent == -1
Model == {"first", "other"}

VARIABLES
    config,
    tenantOf,       \* the tenant of each user, and which users there are yet
    staff,          \* the users whom another one made
    owner,          \* the tenants: who registered them, none if they do not exist
    rows,           \* how many records of a model the users of a tenant saved
    given,          \* how many were saved without a check, with a tenant or none
    stray,          \* how many of these have no tenant, but are linked to the
                    \* first model's record of one
    round,          \* the crons that populate tenants: idle or due
    req,            \* the requests
    crossed,        \* remembers the users who registered twice at a time
    broken,         \* remembers the tenants whose registration broke off
    fails

records == <<rows, given, stray>>
vars == <<config, tenantOf, staff, owner, records, round, req, crossed, broken, fails>>

Idle == [pc |-> "idle", user |-> Nobody, tenant |-> None, model |-> "first"]
Registration == {"info", "find", "create", "link"}
Registering(u) == {q \in Request : req[q].user = u /\ req[q].pc \in Registration}
Role(u) == IF u \in staff THEN "staff" ELSE "admin"

Init ==
    /\ config \in Config
    /\ tenantOf = [u \in User |-> IF u \in config.users THEN None ELSE Absent]
    /\ staff = {}
    /\ owner = [t \in Tenant |-> Nobody]
    /\ rows = [m \in Model |-> [t \in Tenant |-> 0]]
    /\ given = [m \in Model |-> [t \in Tenant \cup {None} |-> 0]]
    /\ stray = [t \in Tenant |-> 0]
    /\ round = "idle"
    /\ req = [q \in Request |-> Idle]
    /\ crossed = {} /\ broken = {} /\ fails = 0

Goto(q, pc) == req' = [req EXCEPT ![q].pc = pc]
Answer(q) == req' = [req EXCEPT ![q] = Idle]

-----------------------------------------------------------------------------
(* registerTenant, as an application calls it for one of its users.  The      *)
(* endpoint of this repository calls it for an administrator, whom it does    *)
(* not find among them, so that it always fails.                              *)

Register(q, u) ==
    /\ req[q] = Idle /\ tenantOf[u] # Absent
    /\ req' = [req EXCEPT ![q] = [Idle EXCEPT !.pc = "info", !.user = u]]
    /\ crossed' = IF Registering(u) = {} THEN crossed ELSE crossed \cup {u}
    /\ UNCHANGED <<config, tenantOf, staff, owner, records, round, broken, fails>>

\* A user who has a tenant gets it as the answer.
Info(q) ==
    /\ req[q].pc = "info"
    /\ IF tenantOf[req[q].user] = None THEN Goto(q, "find") ELSE Answer(q)
    /\ UNCHANGED <<config, tenantOf, staff, owner, records, round, crossed, broken, fails>>

\* Looked up once more: one that appeared meanwhile is an error.
Find(q) ==
    /\ req[q].pc = "find"
    /\ IF tenantOf[req[q].user] = None THEN Goto(q, "create") ELSE Answer(q)
    /\ UNCHANGED <<config, tenantOf, staff, owner, records, round, crossed, broken, fails>>

Create(q) ==
    LET t == 1 + Cardinality({s \in Tenant : owner[s] # Nobody})
    IN  /\ req[q].pc = "create" /\ t \in Tenant
        /\ owner' = [owner EXCEPT ![t] = req[q].user]
        /\ req' = [req EXCEPT ![q].pc = "link", ![q].tenant = t]
        /\ UNCHANGED <<config, tenantOf, staff, records, round, crossed, broken, fails>>

FaultyLink(q) ==
    /\ req[q].pc = "link"
    /\ tenantOf' = IF config.bind THEN tenantOf
                   ELSE [tenantOf EXCEPT ![req[q].user] = req[q].tenant]
    /\ Answer(q)
    /\ UNCHANGED <<config, staff, owner, records, round, crossed, broken, fails>>

\* The user is saved with his tenant, whatever he has by now.  A record of a bound
\* first model that came along is not saved: the handler that should do it was
\* taken from its object, so that it throws.
Link(q) ==
    /\ req[q].pc = "link"
    /\ tenantOf' = [tenantOf EXCEPT ![req[q].user] = req[q].tenant]
    /\ Answer(q)
    /\ UNCHANGED <<config, staff, owner, records, round, crossed, broken, fails>>

-----------------------------------------------------------------------------
(* createStaff. *)

\* Only the administrators of a tenant make further users of it.
CreateStaff(q, u) ==
    /\ req[q] = Idle /\ tenantOf[u] \in Tenant /\ Role(u) = "admin"
    /\ req' = [req EXCEPT ![q] = [Idle EXCEPT !.pc = "staff", !.user = u,
                                              !.tenant = tenantOf[u]]]
    /\ UNCHANGED <<config, tenantOf, staff, owner, records, round, crossed, broken, fails>>

\* A user who is there already is the answer, or an error if he was not yet there
\* when the service looked.
Employ(q) ==
    /\ req[q].pc = "staff"
    /\ \E v \in User :
          IF tenantOf[v] = Absent
          THEN tenantOf' = [tenantOf EXCEPT ![v] = req[q].tenant] /\ staff' = staff \cup {v}
          ELSE UNCHANGED <<tenantOf, staff>>
    /\ Answer(q)
    /\ UNCHANGED <<config, owner, records, round, crossed, broken, fails>>

-----------------------------------------------------------------------------
(* RestService.save, for users with a tenant (ContentAdminController).        *)

SaveRecord(q, u, m) ==
    /\ req[q] = Idle /\ tenantOf[u] \in Tenant /\ Role(u) \in config.roles
    /\ req' = [req EXCEPT ![q] = [Idle EXCEPT !.pc = "permit", !.user = u,
                                  !.tenant = tenantOf[u], !.model = m]]
    /\ UNCHANGED <<config, tenantOf, staff, owner, records, round, crossed, broken, fails>>

\* The tenant must be published, which is up to an administrator, and the user
\* have a role.
CheckPermission(q) ==
    /\ req[q].pc = "permit"
    /\ \/ Role(req[q].user) \in config.roles /\ Goto(q, "count")
       \/ Answer(q)
    /\ UNCHANGED <<config, tenantOf, staff, owner, records, round, crossed, broken, fails>>

\* TypeORM's count takes find options; a bare column is none, so every record
\* of the model counts, whosever it is.
Total(m) == SumFunction(rows[m]) + SumFunction(given[m])
            + IF m = "other" THEN SumFunction(stray) ELSE 0
Limit(m) == IF m = "first" THEN 1 ELSE config.limit

FaultyCheckResourceLimit(q) ==
    /\ req[q].pc = "count"
    /\ IF Total(req[q].model) <= Limit(req[q].model) THEN Goto(q, "insert") ELSE Answer(q)
    /\ UNCHANGED <<config, tenantOf, staff, owner, records, round, crossed, broken, fails>>

CheckResourceLimit(q) ==
    /\ req[q].pc = "count"
    /\ IF Total(req[q].model) < Limit(req[q].model) THEN Goto(q, "insert") ELSE Answer(q)
    /\ UNCHANGED <<config, tenantOf, staff, owner, records, round, crossed, broken, fails>>

\* Whether there is a tenant's record of the first model.
HasFirst(t) == rows["first"][t] + given["first"][t] > 0

\* With a bound first model another record needs the tenant's record of it.
Insert(q) ==
    LET m == req[q].model
        t == req[q].tenant
    IN  /\ req[q].pc = "insert"
        /\ rows' = IF config.bind /\ m = "other" /\ ~HasFirst(t) THEN rows
                   ELSE [rows EXCEPT ![m][t] = @ + 1]
        /\ Answer(q)
        /\ UNCHANGED <<config, tenantOf, staff, owner, given, stray, round, crossed, broken,
                       fails>>

\* A request breaks off between two steps.
Break(q) ==
    /\ req[q] # Idle /\ fails < MaxFail
    /\ fails' = fails + 1
    /\ broken' = IF req[q].pc = "link" THEN broken \cup {req[q].tenant} ELSE broken
    /\ Answer(q)
    /\ UNCHANGED <<config, tenantOf, staff, owner, records, round, crossed>>

-----------------------------------------------------------------------------
(* Records without a check, and the population of tenants. *)

Unchecked == SumFunction(given["first"]) + SumFunction(given["other"]) + SumFunction(stray)

\* An administrator has no tenant, so nothing is checked: he fills in one of those
\* there are, or none, as does a user without a tenant; or he links the record to
\* the first model's record of a tenant, and fills in none.
AdminSave ==
    /\ Unchecked < MaxStray
    /\ \/ /\ \E m \in Model, t \in {s \in Tenant : owner[s] # Nobody} \cup {None} :
                given' = [given EXCEPT ![m][t] = @ + 1]
          /\ UNCHANGED stray
       \/ /\ \E t \in Tenant : HasFirst(t) /\ stray' = [stray EXCEPT ![t] = @ + 1]
          /\ UNCHANGED given
    /\ UNCHANGED <<config, tenantOf, staff, owner, rows, round, req, crossed, broken, fails>>

\* Rounds that have nothing to populate are left out.
CronDue ==
    /\ round = "idle" /\ SumFunction(stray) > 0
    /\ round' = "due"
    /\ UNCHANGED <<config, tenantOf, staff, owner, records, req, crossed, broken, fails>>

\* The method is registered without its object, so its first statement, which
\* reads the configuration of "this", throws; the cron logs the error.
Populate ==
    /\ round = "due" /\ round' = "idle"
    /\ UNCHANGED <<config, tenantOf, staff, owner, records, req, crossed, broken, fails>>

Handle(q) ==
    \/ Info(q) \/ Find(q) \/ Create(q) \/ Link(q) \/ Employ(q)
    \/ CheckPermission(q) \/ CheckResourceLimit(q) \/ Insert(q)

Next ==
    \/ \E q \in Request :
          \/ Handle(q) \/ Break(q)
          \/ \E u \in User : \/ Register(q, u) \/ CreateStaff(q, u)
                             \/ \E m \in Model : SaveRecord(q, u, m)
    \/ AdminSave \/ CronDue \/ Populate

\* Requests get on, and the crons have their rounds.
Fairness == WF_vars(CronDue) /\ WF_vars(Populate) /\ \A q \in Request : WF_vars(Handle(q))

Spec == Init /\ [][Next]_vars /\ Fairness

-----------------------------------------------------------------------------
\* Users, tenants, records and requests have the shape the service relies on.
TypeOK ==
    /\ config \in Config
    /\ tenantOf \in [User -> Tenant \cup {None, Absent}] /\ staff \subseteq User
    /\ owner \in [Tenant -> User \cup {Nobody}]
    /\ rows \in [Model -> [Tenant -> Nat]]
    /\ given \in [Model -> [Tenant \cup {None} -> 0 .. MaxStray]]
    /\ stray \in [Tenant -> 0 .. MaxStray]
    /\ round \in {"idle", "due"}
    /\ req \in [Request -> [pc : Registration \cup {"idle", "staff", "permit", "count", "insert"},
                            user : User \cup {Nobody}, tenant : Tenant \cup {None},
                            model : Model]]
    /\ crossed \subseteq User /\ broken \subseteq Tenant /\ fails \in 0 .. MaxFail

\* Who registered a tenant has it, or is about to get it, unless the registration
\* broke off; or he has another one he registered at the same time, which leaves
\* this one to no one but the staff he made meanwhile.  Nobody else has a tenant he
\* did not register but staff, who have that of the user who made them, except for
\* such a one.
TenantsHaveUsers ==
    /\ \A t \in Tenant \ broken : owner[t] # Nobody =>
          \/ tenantOf[owner[t]] = t
          \/ \E q \in Registering(owner[t]) : req[q].pc = "link" /\ req[q].tenant = t
          \/ /\ owner[t] \in crossed
             /\ \E s \in Tenant \ {t} : owner[s] = owner[t] /\ tenantOf[owner[t]] = s
    /\ \A u \in User : tenantOf[u] \in Tenant =>
          LET a == owner[tenantOf[u]]
          IN  IF u \in staff THEN /\ a \in User \ staff
                                  /\ tenantOf[a] = tenantOf[u] \/ a \in crossed
              ELSE a = u

\* However requests overlap, the users of a tenant save fewer records of a model
\* than its limit and the requests that may run at a time allow.  (They may be
\* refused before: the records of other tenants count as well.)
LimitNearlyKept ==
    \A m \in Model, t \in Tenant : rows[m][t] < Limit(m) + Cardinality(Request)

\* A record that is linked to the first model's record of a tenant, and has no
\* tenant, gets it from a cron in the end.  (It never does.)
StraysFindTheirTenant == \A t \in Tenant : stray[t] > 0 ~> stray[t] = 0
=============================================================================
