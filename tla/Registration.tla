---------------------------- MODULE Registration ----------------------------
(***************************************************************************)
(* Service.Register: two existence checks, the INSERT into users against   *)
(* its two unique keys, the binding of role USER, the commit, and the read *)
(* of the new account after the commit and outside the transaction.        *)
(*                                                                         *)
(* A username or an email is one value for all spellings that TrimSpace,   *)
(* ToLower and the column's collation identify.  InnoDB checks the unique  *)
(* keys one after the other and makes an INSERT wait while the duplicate   *)
(* belongs to an open transaction.  No code deletes a user.                *)
(***************************************************************************)
EXTENDS Naturals

CONSTANTS
    Requests,         \* goroutines that may be in flight at once
    Usernames, Emails,
    Ids,              \* values of users.id
    Seed,             \* the administrator the migration inserts
    RepeatableRead    \* the server's isolation level: REPEATABLE READ or not

Account == [id: Ids, username: Usernames, email: Emails]

ASSUME RegistrationAssumption ==
    /\ Seed \in Account
    /\ RepeatableRead \in BOOLEAN

VARIABLES
    users,       \* committed rows of users
    userRoles,   \* ids bound to role USER in committed rows of user_roles
    req          \* what each request is doing

vars == <<users, userRoles, req>>

-----------------------------------------------------------------------------
\* The answers: none yet, success, AUTH-409, COMMON-404, COMMON-500.
Code == {0, 200, 404, 409, 500}

\* row is what the request asks for and, once inserted, what it has written;
\* seen is the transaction's snapshot of users.
Request == [pc: {"idle", "begun", "nameFree", "checked", "nameKey", "inserted",
                 "bound", "committed", "done"},
            row: Account, seen: SUBSET Account, code: Code]

IdleRequest == [pc |-> "idle", row |-> Seed, seen |-> {}, code |-> 0]

Answer(r, code) ==
    req' = [req EXCEPT ![r] = [@ EXCEPT !.pc = "done", !.seen = {}, !.code = code]]

Init ==
    /\ users = {Seed}
    /\ userRoles = {Seed.id}
    /\ req = [r \in Requests |-> IdleRequest]

-----------------------------------------------------------------------------
(***************************************************************************)
(* Locks on the entries of the unique keys.                                *)
(***************************************************************************)
\* Mutant: the duplicate check locks the key before the INSERT.
EntryFromCheck(r) == req[r].pc \in {"checked", "nameKey", "inserted", "bound"}

HasNameEntry(r) == req[r].pc \in {"nameKey", "inserted", "bound"}
HasEmailEntry(r) == req[r].pc \in {"inserted", "bound"}

NameLocked(r) ==
    \E q \in Requests \ {r} : HasNameEntry(q) /\ req[q].row.username = req[r].row.username

EmailLocked(r) ==
    \E q \in Requests \ {r} : HasEmailEntry(q) /\ req[q].row.email = req[r].row.email

\* Mutant: uk_users_email is missing from the schema.
NoEmailKey(r) == FALSE

\* Mutant: an entry of an open transaction counts as a duplicate at once.
UncommittedNameTaken(r) ==
    \/ \E u \in users : u.username = req[r].row.username
    \/ NameLocked(r)

NameTaken(r) == \E u \in users : u.username = req[r].row.username
EmailTaken(r) == \E u \in users : u.email = req[r].row.email

FreshId(id) ==
    /\ \A u \in users : u.id # id
    /\ \A q \in Requests : req[q].pc \in {"nameKey", "inserted", "bound"} => req[q].row.id # id

-----------------------------------------------------------------------------
\* The handler accepts the command; no transaction is open yet.
Register(r, username, email) ==
    /\ req[r].pc \in {"idle", "done"}
    /\ req' = [req EXCEPT ![r] = [IdleRequest EXCEPT
                 !.pc = "begun", !.row = [@ EXCEPT !.username = username, !.email = email]]]
    /\ UNCHANGED <<users, userRoles>>

\* COUNT(*) by username: the first read fixes the snapshot.
ExistsByUsername(r) ==
    /\ req[r].pc = "begun"
    /\ IF NameTaken(r)
       THEN Answer(r, 409)
       ELSE req' = [req EXCEPT ![r].pc = "nameFree", ![r].seen = users]
    /\ UNCHANGED <<users, userRoles>>

\* COUNT(*) by email, on the same snapshot under REPEATABLE READ.
Visible(r) == IF RepeatableRead THEN req[r].seen ELSE users

ExistsByEmail(r) ==
    /\ req[r].pc = "nameFree"
    /\ IF \E u \in Visible(r) : u.email = req[r].row.email
       THEN Answer(r, 409)
       ELSE req' = [req EXCEPT ![r].pc = "checked", ![r].seen = {}]
    /\ UNCHANGED <<users, userRoles>>

\* INSERT INTO users: the entry in uk_users_username, ...
CreateNameEntry(r, id) ==
    /\ req[r].pc = "checked"
    /\ ~NameLocked(r) /\ ~NameTaken(r)
    /\ FreshId(id)
    /\ req' = [req EXCEPT ![r].pc = "nameKey", ![r].row.id = id]
    /\ UNCHANGED <<users, userRoles>>

\* ... then the entry in uk_users_email, which completes the row.
CreateEmailEntry(r) ==
    /\ req[r].pc = "nameKey"
    /\ ~EmailLocked(r) /\ ~EmailTaken(r)
    /\ req' = [req EXCEPT ![r].pc = "inserted"]
    /\ UNCHANGED <<users, userRoles>>

\* Error 1062: rollback and AUTH-409.
CreateDuplicate(r) ==
    /\ \/ req[r].pc = "checked" /\ NameTaken(r)
       \/ req[r].pc = "nameKey" /\ EmailTaken(r)
    /\ Answer(r, 409)
    /\ UNCHANGED <<users, userRoles>>

\* FindByCode("USER") and the INSERT into user_roles.
AddRoleToUser(r) ==
    /\ req[r].pc = "inserted"
    /\ req' = [req EXCEPT ![r].pc = "bound"]
    /\ UNCHANGED <<users, userRoles>>

\* Mutant: the transaction is committed before the role is bound.
CommitEarly(r, delivered) ==
    /\ req[r].pc \in {"inserted", "bound"}
    /\ users' = users \cup {req[r].row}
    /\ userRoles' = userRoles \cup (IF req[r].pc = "bound" THEN {req[r].row.id} ELSE {})
    /\ IF delivered THEN req' = [req EXCEPT ![r].pc = "committed"] ELSE Answer(r, 500)

\* COMMIT; when its acknowledgement is lost Register returns the error.
Commit(r, delivered) ==
    /\ req[r].pc = "bound"
    /\ users' = users \cup {req[r].row}
    /\ userRoles' = userRoles \cup {req[r].row.id}
    /\ IF delivered THEN req' = [req EXCEPT ![r].pc = "committed"] ELSE Answer(r, 500)

\* Mutant: the answer is given without looking at the table.
GetAnyByID(r) ==
    /\ req[r].pc \in {"bound", "committed"}
    /\ Answer(r, 200)
    /\ UNCHANGED <<users, userRoles>>

\* userService.GetByID on the pool, after the commit: FindByID, then the
\* roles of the account.
GetByID(r) ==
    /\ req[r].pc = "committed"
    /\ Answer(r, IF \E u \in users : u.id = req[r].row.id THEN 200 ELSE 404)
    /\ UNCHANGED <<users, userRoles>>

\* A failing statement, hash or commit, a missing role, an InnoDB deadlock
\* victim, a cancelled context, a panic: rollback, COMMON-500.  After the
\* commit the same answer undoes nothing.
Abort(r) ==
    /\ req[r].pc \notin {"idle", "done"}
    /\ Answer(r, 500)
    /\ UNCHANGED <<users, userRoles>>

Advance(r) ==
    \/ ExistsByUsername(r)
    \/ ExistsByEmail(r)
    \/ \E id \in Ids : CreateNameEntry(r, id)
    \/ CreateEmailEntry(r)
    \/ CreateDuplicate(r)
    \/ AddRoleToUser(r)
    \/ \E delivered \in BOOLEAN : Commit(r, delivered)
    \/ GetByID(r)

Next ==
    \E r \in Requests :
        \/ \E username \in Usernames, email \in Emails : Register(r, username, email)
        \/ Advance(r)
        \/ Abort(r)

Spec == Init /\ [][Next]_vars

\* Begun requests keep running; InnoDB grants locks in FIFO order.
FairSpec == Spec /\ \A r \in Requests : SF_vars(Advance(r))

-----------------------------------------------------------------------------
(***************************************************************************)
(* Properties                                                              *)
(***************************************************************************)
\* The type invariant of the two tables and the requests.
TypeOK ==
    /\ users \subseteq Account
    /\ userRoles \subseteq Ids
    /\ req \in [Requests -> Request]

\* However the check-then-insert of concurrent registrations interleaves, no
\* two accounts share an id, a username or an email.
AccountsAreDistinct ==
    \A u, v \in users :
        u.id = v.id \/ u.username = v.username \/ u.email = v.email => u = v

\* An account is never visible without its default role, whichever step
\* of the registration fails.
EveryAccountHasRole == \A u \in users : u.id \in userRoles

\* AUTH-409 is the truth: somebody has the username or the email.  A
\* registration that was rolled back never causes one.
ConflictOnlyForCause ==
    \A r \in Requests : req[r].code = 409 =>
        \E u \in users : u.username = req[r].row.username \/ u.email = req[r].row.email

\* Success means that the account the client asked for exists; and the read
\* after the commit never misses it.
SuccessMeansRegistered ==
    \A r \in Requests :
        /\ req[r].code = 200 => req[r].row \in users
        /\ req[r].code # 404

\* Waiting for somebody else's duplicate never lasts for ever.
EveryRegistrationAnswered ==
    \A r \in Requests : req[r].pc # "idle" ~> req[r].pc = "done"
=============================================================================
