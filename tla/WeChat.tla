------------------------------- MODULE WeChat -------------------------------
(***************************************************************************)
(* The followers of a WeChat account as administrators (WeChatHelper).     *)
(*                                                                         *)
(* WeChat knows who follows.  It tells the server by messages, which come  *)
(* in any order; a cron asks for the list of followers.  Either way the    *)
(* server asks for what WeChat knows of that user now, writes it to the    *)
(* user's row, and makes the user's administrator active or not: it        *)
(* inserts one and links it to the row, or updates the one that is linked. *)
(* Each step is a round trip of its own, of several requests at a time.    *)
(***************************************************************************)
EXTENDS Integers, FiniteSets

CONSTANTS
    User,           \* the open ids
    Request,        \* the requests and cron rounds in flight at a time
    MaxChanges,     \* bound of the follows and unfollows
    MaxRounds,      \* bound of the cron's rounds
    MaxFail         \* bound of the requests that break off

WeChatAssumption ==
    /\ MaxChanges \in Nat /\ MaxRounds \in Nat /\ MaxFail \in Nat
    /\ "none" \notin User

VARIABLES
    saveToAdmin,    \* the setting
    follows,        \* who follows, as WeChat knows
    inbox,          \* the messages that are under way, and how many of each
    wx,             \* the users' rows: what they say, and whether an
                    \* administrator is linked
    admin,          \* the administrators' rows, by e-mail address: is it active
    req,            \* the requests
    synced,         \* remembers who was synchronised last by a request during
                    \* which no other one ran for him and he changed nothing
    broken,         \* remembers for whom a request broke off
    changes, rounds, fails

vars == <<saveToAdmin, follows, inbox, wx, admin, req, synced, broken,
          changes, rounds, fails>>

Event == {"subscribe", "unsubscribe"}
Idle == [pc |-> "idle", user |-> "none", info |-> FALSE, linked |-> FALSE,
         found |-> FALSE, alone |-> FALSE, batch |-> FALSE]
NoRow == [there |-> FALSE, subscribe |-> FALSE, linked |-> FALSE]
NoAdmin == [there |-> FALSE, active |-> FALSE]

Busy(u) == {q \in Request : req[q].user = u}

Init ==
    /\ saveToAdmin \in BOOLEAN
    /\ follows \in SUBSET User
    /\ inbox = [u \in User |-> [e \in Event |-> 0]]
    /\ wx = [u \in User |-> NoRow] /\ admin = [u \in User |-> NoAdmin]
    /\ req = [q \in Request |-> Idle]
    /\ synced = {} /\ broken = {}
    /\ changes = 0 /\ rounds = 0 /\ fails = 0

-----------------------------------------------------------------------------
\* A user follows the account or leaves it, and WeChat sends a message.
Change(u) ==
    /\ changes < MaxChanges
    /\ changes' = changes + 1
    /\ follows' = IF u \in follows THEN follows \ {u} ELSE follows \cup {u}
    /\ inbox' = [inbox EXCEPT ![u][IF u \in follows THEN "unsubscribe" ELSE "subscribe"]
                     = @ + 1]
    /\ synced' = synced \ {u}
    /\ req' = [q \in Request |-> IF q \in Busy(u) THEN [req[q] EXCEPT !.alone = FALSE]
                                ELSE req[q]]
    /\ UNCHANGED <<saveToAdmin, wx, admin, broken, rounds, fails>>

\* A request begins to synchronise a user; whoever was at it is no longer alone.
Begin(q, u, batch) ==
    req' = [p \in Request |->
               IF p = q THEN [Idle EXCEPT !.pc = "ask", !.user = u,
                                          !.batch = batch, !.alone = (Busy(u) = {})]
               ELSE IF p \in Busy(u) THEN [req[p] EXCEPT !.alone = FALSE]
               ELSE req[p]]

\* handleEvent: an unfollow is always handled, a follow if the setting is on.
HandleEvent(q, u, e) ==
    /\ req[q] = Idle /\ inbox[u][e] > 0
    /\ inbox' = [inbox EXCEPT ![u][e] = @ - 1]
    /\ IF e = "unsubscribe" \/ saveToAdmin THEN Begin(q, u, FALSE) ELSE UNCHANGED req
    /\ UNCHANGED <<saveToAdmin, follows, wx, admin, synced, broken, changes, rounds, fails>>

\* The cron goes through those who follow: in a batch it asks for and writes the
\* rows, then it asks for each user again and synchronises him.
SyncAdminUsers(q, u) ==
    /\ req[q] = Idle /\ rounds < MaxRounds
    /\ saveToAdmin /\ u \in follows
    /\ rounds' = rounds + 1
    /\ Begin(q, u, TRUE)
    /\ UNCHANGED <<saveToAdmin, follows, inbox, wx, admin, synced, broken, changes, fails>>

-----------------------------------------------------------------------------
(* syncAdminUser: the row of the user. *)

Goto(q, pc) == req' = [req EXCEPT ![q].pc = pc]

GetUserInfo(q) ==
    /\ req[q].pc = "ask"
    /\ req' = [req EXCEPT ![q].pc = "find", ![q].info = (req[q].user \in follows),
                          ![q].linked = FALSE]
    /\ UNCHANGED <<saveToAdmin, follows, inbox, wx, admin, synced, broken,
                   changes, rounds, fails>>

\* A row that is there is updated; one that is not goes through save, which
\* looks again.
FindUser(q) ==
    /\ req[q].pc \in {"find", "look"}
    /\ req' = [req EXCEPT
                  ![q].pc = IF wx[req[q].user].there THEN "update"
                            ELSE IF @ = "find" THEN "look" ELSE "insert",
                  ![q].found = (req[q].pc = "find" /\ wx[req[q].user].there)]
    /\ UNCHANGED <<saveToAdmin, follows, inbox, wx, admin, synced, broken,
                   changes, rounds, fails>>

\* The batch writes the row only.
AfterRow(q) == IF req[q].batch THEN "ask" ELSE "admin"

\* What WeChat knows is written; the link to the administrator is not touched.
Row(q) == [there |-> TRUE, subscribe |-> req[q].info, linked |-> wx[req[q].user].linked]

\* After an update the row is read again, with its administrator; save returns
\* the entity it was given, which has none.
UpdateUser(q) ==
    /\ req[q].pc = "update"
    /\ wx' = [wx EXCEPT ![req[q].user] = Row(q)]
    /\ req' = [req EXCEPT ![q].pc = IF req[q].found THEN "reload" ELSE AfterRow(q),
                          ![q].batch = @ /\ req[q].found]
    /\ UNCHANGED <<saveToAdmin, follows, inbox, admin, synced, broken,
                   changes, rounds, fails>>

InsertUser(q) ==
    /\ req[q].pc = "insert" /\ ~wx[req[q].user].there
    /\ wx' = [wx EXCEPT ![req[q].user] = Row(q)]
    /\ req' = [req EXCEPT ![q].pc = AfterRow(q), ![q].batch = FALSE]
    /\ UNCHANGED <<saveToAdmin, follows, inbox, admin, synced, broken,
                   changes, rounds, fails>>

ReloadUser(q) ==
    /\ req[q].pc = "reload"
    /\ req' = [req EXCEPT ![q].pc = AfterRow(q), ![q].batch = FALSE,
                          ![q].info = wx[req[q].user].subscribe,
                          ![q].linked = wx[req[q].user].linked]
    /\ UNCHANGED <<saveToAdmin, follows, inbox, wx, admin, synced, broken,
                   changes, rounds, fails>>

-----------------------------------------------------------------------------
(* updateAdmin: the administrator. *)

Finish(q) ==
    /\ req' = [req EXCEPT ![q] = Idle]
    /\ synced' = IF req[q].alone THEN synced \cup {req[q].user} ELSE synced \ {req[q].user}

\* Inactive only if WeChat says that the user does not follow.
FaultyIsActive(q) == TRUE
IsActive(q) == req[q].info

\* The e-mail address is unique; one without an open id in its name is deleted
\* before, none has such a name here.
InsertAdmin(q) ==
    /\ req[q].pc = "admin" /\ ~req[q].linked /\ ~admin[req[q].user].there
    /\ admin' = [admin EXCEPT ![req[q].user] = [there |-> TRUE, active |-> IsActive(q)]]
    /\ Goto(q, "link")
    /\ UNCHANGED <<saveToAdmin, follows, inbox, wx, synced, broken, changes, rounds, fails>>

LinkAdmin(q) ==
    /\ req[q].pc = "link"
    /\ wx' = [wx EXCEPT ![req[q].user].linked = TRUE]
    /\ Finish(q)
    /\ UNCHANGED <<saveToAdmin, follows, inbox, admin, broken, changes, rounds, fails>>

UpdateAdmin(q) ==
    /\ req[q].pc = "admin" /\ req[q].linked
    /\ admin' = [admin EXCEPT ![req[q].user].active = IsActive(q)]
    /\ Finish(q)
    /\ UNCHANGED <<saveToAdmin, follows, inbox, wx, broken, changes, rounds, fails>>

\* Somebody else has inserted the row or the administrator: the insert fails.
\* The cron logs it and goes on, a message is answered with an error.
Collide(q) ==
    /\ \/ req[q].pc = "insert" /\ wx[req[q].user].there
       \/ req[q].pc = "admin" /\ ~req[q].linked /\ admin[req[q].user].there
    /\ req' = [req EXCEPT ![q] = Idle]
    /\ synced' = synced \ {req[q].user}
    /\ UNCHANGED <<saveToAdmin, follows, inbox, wx, admin, broken, changes, rounds, fails>>

\* WeChat or the database does not answer, or the process stops.
Break(q) ==
    /\ req[q] # Idle /\ fails < MaxFail
    /\ fails' = fails + 1
    /\ broken' = broken \cup {req[q].user}
    /\ req' = [req EXCEPT ![q] = Idle]
    /\ UNCHANGED <<saveToAdmin, follows, inbox, wx, admin, synced, changes, rounds>>

Sync(q) ==
    \/ GetUserInfo(q) \/ FindUser(q) \/ UpdateUser(q) \/ InsertUser(q) \/ ReloadUser(q)
    \/ InsertAdmin(q) \/ LinkAdmin(q) \/ UpdateAdmin(q) \/ Collide(q)

Next ==
    \/ \E u \in User : Change(u)
    \/ \E q \in Request :
          \/ Sync(q) \/ Break(q)
          \/ \E u \in User : \/ SyncAdminUsers(q, u)
                             \/ \E e \in Event : HandleEvent(q, u, e)

Spec == Init /\ [][Next]_vars

-----------------------------------------------------------------------------
\* Rows, messages and requests have the shape the synchronisation relies on.
TypeOK ==
    /\ saveToAdmin \in BOOLEAN /\ follows \subseteq User
    /\ inbox \in [User -> [Event -> 0 .. MaxChanges]]
    /\ wx \in [User -> [there : BOOLEAN, subscribe : BOOLEAN, linked : BOOLEAN]]
    /\ admin \in [User -> [there : BOOLEAN, active : BOOLEAN]]
    /\ req \in [Request -> [pc : {"idle", "ask", "find", "look", "update", "insert",
                                  "reload", "admin", "link"},
                            user : User \cup {"none"}, info : BOOLEAN, linked : BOOLEAN,
                            found : BOOLEAN, alone : BOOLEAN, batch : BOOLEAN]]
    /\ synced \subseteq User /\ broken \subseteq User
    /\ changes \in 0 .. MaxChanges /\ rounds \in 0 .. MaxRounds /\ fails \in 0 .. MaxFail

\* Whatever the order of the messages, a user who was last synchronised without
\* another request or change between has an administrator who is active if and
\* only if the user follows the account, and is linked to him.  And nobody else
\* has one he is not linked to, unless a request is about to link it, or broke
\* off before it did: then the administrator stays alone for ever, and every
\* later synchronisation of the user fails to insert another.
AdminFollowsUser ==
    /\ \A u \in synced :
          Busy(u) = {} =>
             /\ wx[u] = [there |-> TRUE, subscribe |-> u \in follows, linked |-> TRUE]
             /\ admin[u] = [there |-> TRUE, active |-> u \in follows]
    /\ \A u \in User :
          admin[u].there /\ ~wx[u].linked =>
             u \in broken \/ \E q \in Busy(u) : req[q].pc = "link"
=============================================================================
