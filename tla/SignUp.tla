------------------------------ MODULE SignUp ------------------------------
(***************************************************************************)
(* Accounts of users, and the codes that verify their addresses            *)
(* (AbstractAuthController.verify, signUp, quickPass; AuthService).        *)
(*                                                                         *)
(* An account is a profile, whose address is unique, and the application's *)
(* user of it, inserted in a second statement whose failure is only        *)
(* logged.  A request for a code makes the account if there is none, mails *)
(* a new code and then stores it as the payload of an operation token; the *)
(* token that is already there, if one is, keeps its code.                 *)
(***************************************************************************)
EXTENDS Integers, FiniteSets

CONSTANTS
    Email, Request,
    MaxMails,       \* bound of the codes mailed to an address
    MaxFail         \* bound of the requests and inserts that fail

SignUpAssumption ==
    /\ MaxMails \in Nat /\ MaxFail \in Nat /\ "none" \notin Email
    /\ IsFiniteSet(Request)

VARIABLES
    profile, user,  \* the addresses that have a profile, and that have a user
    codes,          \* the codes of the usable tokens of each address
    mails,          \* how many codes were mailed to each
    since,          \* the first of them since there was no usable token
    req,            \* the requests
    crossed,        \* remembers the addresses two requests were at at a time
    broken,         \* remembers those a request failed for
    fails

vars == <<profile, user, codes, mails, since, req, crossed, broken, fails>>

Idle == [pc |-> "idle", op |-> "verify", email |-> "none", code |-> 0]
At(e) == {q \in Request : req[q].email = e}

Init ==
    /\ profile = {} /\ user = {}
    /\ codes = [e \in Email |-> {}]
    /\ mails = [e \in Email |-> 0] /\ since = [e \in Email |-> 1]
    /\ req = [q \in Request |-> Idle]
    /\ crossed = {} /\ broken = {} /\ fails = 0

Goto(q, pc) == req' = [req EXCEPT ![q].pc = pc]
Answer(q) == req' = [req EXCEPT ![q] = Idle]

\* verify, or signUp with a password.
Begin(q, e, op) ==
    /\ req[q] = Idle
    /\ op = "verify" => mails[e] + Cardinality(At(e)) < MaxMails
    /\ req' = [req EXCEPT ![q] = [Idle EXCEPT !.pc = "find", !.op = op, !.email = e]]
    /\ crossed' = IF At(e) = {} THEN crossed ELSE crossed \cup {e}
    /\ UNCHANGED <<profile, user, codes, mails, since, broken, fails>>

\* For a code any profile of the address will do, even one that has no user; a
\* sign-up is refused, after the second look that createUser takes.
Find(q) ==
    LET e == req[q].email
    IN  /\ req[q].pc \in {"find", "look"}
        /\ IF e \notin profile
           THEN Goto(q, IF req[q].op = "signUp" /\ req[q].pc = "find" THEN "look"
                        ELSE "profile")
           ELSE IF req[q].op = "signUp" THEN Answer(q) ELSE Goto(q, "mail")
        /\ UNCHANGED <<profile, user, codes, mails, since, crossed, broken, fails>>

\* createProfile: the insert of a profile that has appeared meanwhile is refused.
InsertProfile(q) ==
    LET e == req[q].email
    IN  /\ req[q].pc = "profile"
        /\ profile' = profile \cup {e}
        /\ IF e \in profile THEN Answer(q) ELSE Goto(q, "user")
        /\ UNCHANGED <<user, codes, mails, since, crossed, broken, fails>>

FaultyInsertUser(q) ==
    LET e == req[q].email
    IN  /\ req[q].pc = "user"
        /\ IF req[q].op = "verify"
           THEN Goto(q, "mail") /\ UNCHANGED user
           ELSE Answer(q) /\ user' = user \cup {e}
        /\ UNCHANGED <<profile, codes, mails, since, crossed, broken, fails>>

InsertUser(q) ==
    LET e == req[q].email
    IN  /\ req[q].pc = "user"
        /\ user' = user \cup {e}
        /\ IF req[q].op = "verify" THEN Goto(q, "mail") ELSE Answer(q)
        /\ UNCHANGED <<profile, codes, mails, since, crossed, broken, fails>>

\* The failure is caught: createUser answers without a user, and the request
\* fails when it reads the user's id, which verify does after the mail.
InsertUserFails(q) ==
    /\ req[q].pc = "user" /\ fails < MaxFail
    /\ fails' = fails + 1
    /\ broken' = broken \cup {req[q].email}
    /\ IF req[q].op = "verify" THEN Goto(q, "mail in vain") ELSE Answer(q)
    /\ UNCHANGED <<profile, user, codes, mails, since, crossed>>

Mail(q) ==
    LET e == req[q].email
    IN  /\ req[q].pc \in {"mail", "mail in vain"}
        /\ mails' = [mails EXCEPT ![e] = @ + 1]
        /\ IF req[q].pc = "mail"
           THEN req' = [req EXCEPT ![q].pc = "obtain", ![q].code = mails[e] + 1]
           ELSE Answer(q)
        /\ UNCHANGED <<profile, user, codes, since, crossed, broken, fails>>

\* setVerifyCode (see OperationToken): a usable token is left as it is.
FaultySetVerifyCode(q) ==
    LET e == req[q].email
    IN  /\ req[q].pc = "obtain"
        /\ codes' = [codes EXCEPT ![e] = {req[q].code}]
        /\ Answer(q)
        /\ UNCHANGED <<profile, user, mails, since, crossed, broken, fails>>

SetVerifyCode(q) ==
    LET e == req[q].email
    IN  /\ req[q].pc = "obtain"
        /\ IF codes[e] # {} THEN Answer(q) ELSE Goto(q, "insert")
        /\ UNCHANGED <<profile, user, codes, mails, since, crossed, broken, fails>>

InsertCode(q) ==
    LET e == req[q].email
    IN  /\ req[q].pc = "insert"
        /\ codes' = [codes EXCEPT ![e] = @ \cup {req[q].code}]
        /\ Answer(q)
        /\ UNCHANGED <<profile, user, mails, since, crossed, broken, fails>>

\* After fifteen minutes a token is no longer usable; the requests of before are
\* through by then.
Expire(e) ==
    /\ codes[e] # {} /\ At(e) = {}
    /\ codes' = [codes EXCEPT ![e] = {}]
    /\ since' = [since EXCEPT ![e] = mails[e] + 1]
    /\ UNCHANGED <<profile, user, mails, req, crossed, broken, fails>>

\* A request breaks off: the database, the mail service or the instance fails.
Break(q) ==
    /\ req[q] # Idle /\ fails < MaxFail
    /\ fails' = fails + 1
    /\ broken' = broken \cup {req[q].email}
    /\ Answer(q)
    /\ UNCHANGED <<profile, user, codes, mails, since, crossed>>

Next ==
    \/ \E q \in Request :
          \/ \E e \in Email, op \in {"verify", "signUp"} : Begin(q, e, op)
          \/ Find(q) \/ InsertProfile(q) \/ InsertUser(q) \/ InsertUserFails(q)
          \/ Mail(q) \/ SetVerifyCode(q) \/ InsertCode(q) \/ Break(q)
    \/ \E e \in Email : Expire(e)

Spec == Init /\ [][Next]_vars

-----------------------------------------------------------------------------
\* Accounts, codes and requests have the shape the service relies on.
TypeOK ==
    /\ profile \subseteq Email /\ user \subseteq profile
    /\ codes \in [Email -> SUBSET (1 .. MaxMails)]
    /\ mails \in [Email -> 0 .. MaxMails] /\ since \in [Email -> 1 .. MaxMails + 1]
    /\ req \in [Request -> [pc : {"idle", "find", "look", "profile", "user", "mail",
                                  "mail in vain",
                                  "obtain", "insert"}, op : {"verify", "signUp"},
                            email : Email \cup {"none"}, code : 0 .. MaxMails]]
    /\ crossed \subseteq Email /\ broken \subseteq Email /\ fails \in 0 .. MaxFail

\* However requests for one address overlap, every profile has its user once the
\* request that made it is through; only a failure in between leaves one that
\* never gets a user, since no later request makes one for it.
ProfilesHaveUsers ==
    \A e \in profile \ (user \cup broken) :
        \E q \in At(e) : req[q].pc = "user"

\* Among the codes that were mailed to an address only the first one since its
\* last token expired is good, whatever was mailed after it: unless requests
\* overlapped or failed.
FirstCodeCounts ==
    \A e \in Email : e \notin crossed \cup broken => codes[e] \subseteq {since[e]}
=============================================================================
