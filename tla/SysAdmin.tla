----------------------------- MODULE SysAdmin -----------------------------
(***************************************************************************)
(* The system administrator that every instance makes sure of when it      *)
(* starts (AdminAuthService.initSysAccount).                               *)
(*                                                                         *)
(* Without a user in the system role an instance deletes what is there     *)
(* under the configured and the default address and creates the account    *)
(* afresh.  Instances that start together do so next to each other, each   *)
(* deleting what another one may just have created.  Names and addresses   *)
(* are unique; the only name here is Administrator, so there is one row.   *)
(***************************************************************************)
EXTENDS Integers

CONSTANTS
    Instance,
    Address,        \* the addresses there are
    Default,        \* the one of accounts created without a configuration
    Configured,     \* the ones an operator may have configured
    MaxFail         \* bound of the instances that stop while they start

SysAdminAssumption ==
    /\ Default \in Address /\ Configured \subseteq Address
    /\ MaxFail \in Nat
    /\ Instance # {} /\ {"none", "before"} \cap Instance = {}

VARIABLES
    email,          \* the configured address
    role,           \* the system role, is it there
    row,            \* the account: who inserted it, its address, has it the role
    node,           \* the instances: where they are, the row they found
    mode,           \* what a save in progress is going to do
    crashes

vars == <<email, role, row, node, mode, crashes>>

NoRow == [by |-> "none", email |-> Default, sys |-> FALSE]
Down == [pc |-> "down", found |-> "none"]

\* A new database, or one in which the account has lost the role, or was made
\* under an address that is not the configured one any more.
Init ==
    /\ email \in Configured
    /\ role \in BOOLEAN
    /\ row \in {NoRow} \cup {r \in [by : {"before"}, email : Address, sys : BOOLEAN] :
                                  r.sys => role}
    /\ node = [i \in Instance |-> Down]
    /\ mode = [i \in Instance |-> "none"]
    /\ crashes = 0

Goto(i, pc) == node' = [node EXCEPT ![i].pc = pc]

FaultyFindRole(i) ==
    /\ node[i].pc = "down"
    /\ Goto(i, "users")
    /\ UNCHANGED <<email, role, row, mode, crashes>>

FindRole(i) ==
    /\ node[i].pc = "down"
    /\ Goto(i, IF role THEN "users" ELSE "create role")
    /\ UNCHANGED <<email, role, row, mode, crashes>>

\* Its name is unique: the second one is refused, and the instance goes on
\* without a look at the accounts.
SaveRole(i) ==
    /\ node[i].pc = "create role"
    /\ role' = TRUE
    /\ Goto(i, IF role THEN "done" ELSE "users")
    /\ UNCHANGED <<email, row, mode, crashes>>

CountUsers(i) ==
    /\ node[i].pc = "users"
    /\ Goto(i, IF row.sys THEN "done" ELSE "delete")
    /\ UNCHANGED <<email, role, row, mode, crashes>>

DeleteConfigured(i) ==
    /\ node[i].pc = "delete"
    /\ row' = IF row.email = email THEN NoRow ELSE row
    /\ Goto(i, "delete default")
    /\ UNCHANGED <<email, role, mode, crashes>>

FaultyDeleteDefault(i) ==
    /\ node[i].pc = "delete default"
    /\ Goto(i, "get")
    /\ UNCHANGED <<email, role, row, mode, crashes>>

DeleteDefault(i) ==
    /\ node[i].pc = "delete default"
    /\ row' = IF row.email = Default THEN NoRow ELSE row
    /\ Goto(i, "get")
    /\ UNCHANGED <<email, role, mode, crashes>>

\* createUser, which nobody waits for: the account of that name and address.
GetUser(i) ==
    /\ node[i].pc = "get"
    /\ node' = [node EXCEPT ![i].pc = "save",
                            ![i].found = IF row.email = email THEN row.by ELSE "none"]
    /\ UNCHANGED <<email, role, row, mode, crashes>>

\* save looks for the row of the entity it is given, and then writes: it updates
\* that row, or inserts one.
Diff(i) ==
    /\ node[i].pc = "save"
    /\ mode' = [mode EXCEPT ![i] = IF node[i].found # "none" /\ row.by = node[i].found
                                   THEN "update" ELSE "insert"]
    /\ Goto(i, "write")
    /\ UNCHANGED <<email, role, row, crashes>>

\* An update of a row that is gone fails on its role, an insert on the name of
\* one that is there; the error is logged.
Write(i) ==
    /\ node[i].pc = "write"
    /\ row' = IF mode[i] = "insert" /\ row = NoRow
              THEN [by |-> i, email |-> email, sys |-> TRUE]
              ELSE IF mode[i] = "update" /\ row.by = node[i].found
              THEN [row EXCEPT !.sys = TRUE]
              ELSE row
    /\ Goto(i, "done")
    /\ UNCHANGED <<email, role, mode, crashes>>

\* The instance stops while it starts, and starts again.
Crash(i) ==
    /\ node[i].pc \notin {"down", "done"} /\ crashes < MaxFail
    /\ crashes' = crashes + 1
    /\ node' = [node EXCEPT ![i] = Down]
    /\ mode' = [mode EXCEPT ![i] = "none"]
    /\ UNCHANGED <<email, role, row>>

Next ==
    \E i \in Instance :
        \/ FindRole(i) \/ SaveRole(i) \/ CountUsers(i) \/ DeleteConfigured(i)
        \/ DeleteDefault(i) \/ GetUser(i) \/ Diff(i) \/ Write(i) \/ Crash(i)

Spec == Init /\ [][Next]_vars

-----------------------------------------------------------------------------
\* The account, the role and the instances have the shape the service relies on.
TypeOK ==
    /\ email \in Configured /\ role \in BOOLEAN
    /\ row \in [by : Instance \cup {"none", "before"}, email : Address, sys : BOOLEAN]
    /\ row.sys => role /\ row.by # "none"
    /\ node \in [Instance -> [pc : {"down", "create role", "users", "delete",
                                    "delete default", "get", "save", "write", "done"},
                              found : Instance \cup {"none", "before"}]]
    /\ mode \in [Instance -> {"none", "insert", "update"}]
    /\ crashes \in 0 .. MaxFail

\* Once all instances are through there is a system administrator, whatever they have
\* deleted of each other and however often they had to start: unless the name
\* was taken before by an account with an address that is neither the configured
\* nor the default one.
AdminInTheEnd ==
    (\A i \in Instance : node[i].pc = "done") =>
        row.sys \/ (row.by = "before" /\ row.email \notin {email, Default})
=============================================================================
