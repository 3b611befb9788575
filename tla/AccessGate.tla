----------------------------- MODULE AccessGate -----------------------------
(***************************************************************************)
(* Protected requests: the bearer-token check, the principal loaded from   *)
(* the database on every request, the role gate of the OpenAPI contract,   *)
(* and the handlers behind it: those that only read (GET /me and logout    *)
(* for everybody, the user list for administrators) and                    *)
(* PATCH /admin/users/{userId}/status.                                     *)
(*                                                                         *)
(* Requests interleave at their SQL statements.  Roles are constant: the   *)
(* only code that binds a role is registration.  Tokens with a bad         *)
(* signature, header or claim never get past ParseAccessToken and are left *)
(* out.                                                                    *)
(***************************************************************************)
EXTENDS Integers, FiniteSets

CONSTANTS
    UserIds,          \* rows of users
    Admins,           \* the users bound to role ADMIN
    None,             \* a user id without a row
    Requests,         \* goroutines that may be in flight at once
    AccessTTL,        \* lifetime of an access token, in clock ticks
    TicksPerSecond,   \* resolution of the Go clock within a second
    MaxTime,          \* bound on the clock
    MaxTokens         \* bound on the access tokens in circulation

ASSUME GateAssumption ==
    /\ Admins \subseteq UserIds
    /\ None \notin UserIds
    /\ AccessTTL \in Nat \ {0}
    /\ TicksPerSecond \in Nat \ {0}
    /\ MaxTime \in Nat
    /\ MaxTokens \in Nat

VARIABLES
    users,    \* committed users rows: status and updated_at
    minted,   \* access tokens clients hold
    req,      \* what each request is doing
    now       \* the clock, in ticks

vars == <<users, minted, req, now>>

-----------------------------------------------------------------------------
UserStatus == {"ENABLED", "DISABLED"}

\* now.Unix(), CURRENT_TIMESTAMP: whole seconds, rounded down.
Seconds(t) == t \div TicksPerSecond

\* sub and exp are claims; iss, the exact instant of issue, is history.
AccessToken == [sub: UserIds, exp: Nat, iss: Nat]

\* The code of an answer: success, AUTH-401, AUTH-403, COMMON-404, COMMON-500.
Code == {0, 200, 401, 403, 404, 500}

\* wasEnabled, wasDisabled: history, whether the caller was so at some
\* instant since the request arrived.  stamp is the updated_at its UPDATE
\* writes.
Request == [pc: {"idle", "parsed", "authorized", "updating", "updated", "done"},
            op: {"read", "list", "patch"}, caller: UserIds \cup {None},
            iss: Nat, at: Nat,
            target: UserIds \cup {None}, status: UserStatus, stamp: Nat,
            wasEnabled: BOOLEAN, wasDisabled: BOOLEAN, code: Code]

IdleRequest == [pc |-> "idle", op |-> "read", caller |-> None, iss |-> 0, at |-> 0,
                target |-> None, status |-> "ENABLED", stamp |-> 0,
                wasEnabled |-> FALSE, wasDisabled |-> FALSE, code |-> 0]

\* An answered request, without what no property looks at any more.
Answered(q, code) ==
    [(IF code = 500 THEN IdleRequest ELSE q) EXCEPT
       !.pc = "done", !.code = code, !.status = "ENABLED", !.stamp = 0]

Answer(r, code) == req' = [req EXCEPT ![r] = Answered(req[r], code)]

Init ==
    /\ users \in [UserIds -> [status: UserStatus, updated: {0}]]
    /\ minted = {}
    /\ req = [r \in Requests |-> IdleRequest]
    /\ now = TicksPerSecond   \* the rows are older than this second

-----------------------------------------------------------------------------
\* Login and Refresh (module AuthSessions) hand out an access token.  They
\* may commit for a user who was disabled meanwhile, so any user may get one.
IssueAccessToken(u) ==
    /\ Cardinality(minted) < MaxTokens
    /\ minted' = minted \cup {[sub |-> u, exp |-> Seconds(now + AccessTTL), iss |-> now]}
    /\ UNCHANGED <<users, req, now>>

\* Mutants: a second of leeway; a second too early.
ExpiredLate(token) == ~((token.exp + 1) * TicksPerSecond > now)
ExpiredEarly(token) == ~((token.exp - 1) * TicksPerSecond > now)

\* !expiresAt.After(now) is expired; exp counts whole seconds.
Expired(token) == ~(token.exp * TicksPerSecond > now)

\* A request arrives at the gate and its token is parsed.
Arrived(token, op, target, status) ==
    [IdleRequest EXCEPT
       !.pc = "parsed", !.op = op, !.caller = token.sub, !.iss = token.iss,
       !.at = now, !.target = target, !.status = status,
       !.wasEnabled = users[token.sub].status = "ENABLED",
       !.wasDisabled = users[token.sub].status = "DISABLED"]

Authenticate(r, token, op, target, status) ==
    /\ req[r].pc \in {"idle", "done"}
    /\ LET q == Arrived(token, op, target, status)
       IN  req' = [req EXCEPT ![r] = IF Expired(token) THEN Answered(q, 401) ELSE q]
    /\ UNCHANGED <<users, minted, now>>

\* Mutant: the role gate lets everybody through.
NeverForbidden(r) == FALSE

\* The operation carries x-required-roles and the principal lacks the role.
Forbidden(r) == req[r].op \in {"list", "patch"} /\ req[r].caller \notin Admins

\* Mutant: the token is trusted, the user's row is not read again.
TrustToken(r) ==
    /\ req[r].pc = "parsed"
    /\ ~Forbidden(r)
    /\ req' = [req EXCEPT ![r].pc = "authorized"]
    /\ UNCHANGED <<users, minted, now>>

\* FindByID, an autocommitted read of the latest committed row, then the
\* (constant) roles and the role gate.
LoadPrincipal(r) ==
    /\ req[r].pc = "parsed"
    /\ users[req[r].caller].status = "ENABLED"
    /\ ~Forbidden(r)
    /\ req' = [req EXCEPT ![r].pc = "authorized"]
    /\ UNCHANGED <<users, minted, now>>

LoadPrincipalUnauthorized(r) ==
    /\ req[r].pc = "parsed"
    /\ users[req[r].caller].status # "ENABLED"
    /\ Answer(r, 401)
    /\ UNCHANGED <<users, minted, now>>

RoleGateForbids(r) ==
    /\ req[r].pc = "parsed"
    /\ users[req[r].caller].status = "ENABLED"
    /\ Forbidden(r)
    /\ Answer(r, 403)
    /\ UNCHANGED <<users, minted, now>>

-----------------------------------------------------------------------------
\* CurrentUser, Logout, ListUsers: nothing is written.
ReadHandler(r) ==
    /\ req[r].pc = "authorized" /\ req[r].op \in {"read", "list"}
    /\ Answer(r, 200)
    /\ UNCHANGED <<users, minted, now>>

RowLocked(u) == \E q \in Requests : req[q].pc = "updated" /\ req[q].target = u

\* UPDATE users SET status = ?, updated_at = CURRENT_TIMESTAMP WHERE id = ?.
\* CURRENT_TIMESTAMP is the second in which the statement began, before it
\* waits for the row lock.
UpdateStatusBegin(r) ==
    /\ req[r].pc = "authorized" /\ req[r].op = "patch"
    /\ req' = [req EXCEPT ![r].pc = "updating", ![r].stamp = Seconds(now)]
    /\ UNCHANGED <<users, minted, now>>

\* The driver reports the rows CHANGED, not the rows matched: the DSN does
\* not set clientFoundRows.
RowsAffected(r) ==
    LET u == req[r].target
    IN  IF u \in UserIds /\ users[u] # [status |-> req[r].status, updated |-> req[r].stamp]
        THEN 1 ELSE 0

UpdateStatus(r) ==
    /\ req[r].pc = "updating"
    /\ ~RowLocked(req[r].target)
    /\ RowsAffected(r) # 0
    /\ req' = [req EXCEPT ![r].pc = "updated"]
    /\ UNCHANGED <<users, minted, now>>

UpdateStatusNotFound(r) ==
    /\ req[r].pc = "updating"
    /\ ~RowLocked(req[r].target)
    /\ RowsAffected(r) = 0
    /\ Answer(r, 404)
    /\ UNCHANGED <<users, minted, now>>

\* Who is enabled changes under every request that is in flight.
Observe(q, u, status) ==
    IF q.caller = u /\ q.pc \notin {"idle", "done"}
    THEN [q EXCEPT !.wasEnabled = @ \/ status = "ENABLED",
                   !.wasDisabled = @ \/ status = "DISABLED"]
    ELSE q

\* COMMIT; code is 500 when the commit's acknowledgement is lost.
UpdateStatusCommit(r, code) ==
    /\ req[r].pc = "updated"
    /\ users' = [users EXCEPT ![req[r].target] =
                   [status |-> req[r].status, updated |-> req[r].stamp]]
    /\ req' = [q \in Requests |->
                 IF q = r THEN Answered(req[r], code)
                 ELSE Observe(req[q], req[r].target, req[r].status)]
    /\ UNCHANGED <<minted, now>>

\* Any failure or cancellation: rollback and COMMON-500.
Abort(r) ==
    /\ req[r].pc \in {"parsed", "authorized", "updating", "updated"}
    /\ Answer(r, 500)
    /\ UNCHANGED <<users, minted, now>>

Tick ==
    /\ now < MaxTime
    /\ now' = now + 1
    /\ UNCHANGED <<users, minted, req>>

Advance(r) ==
    \/ LoadPrincipal(r)
    \/ LoadPrincipalUnauthorized(r)
    \/ RoleGateForbids(r)
    \/ ReadHandler(r)
    \/ UpdateStatusBegin(r)
    \/ UpdateStatus(r)
    \/ UpdateStatusNotFound(r)
    \/ \E code \in {200, 500} : UpdateStatusCommit(r, code)

Arrive(r) ==
    \E token \in minted :
        \/ \E op \in {"read", "list"} : Authenticate(r, token, op, None, "ENABLED")
        \/ \E u \in UserIds \cup {None}, status \in UserStatus :
             Authenticate(r, token, "patch", u, status)

Next ==
    \/ \E r \in Requests : Arrive(r) \/ Advance(r) \/ Abort(r)
    \/ \E u \in UserIds : IssueAccessToken(u)
    \/ Tick

Spec == Init /\ [][Next]_vars

-----------------------------------------------------------------------------
(***************************************************************************)
(* Properties                                                              *)
(***************************************************************************)
\* The type invariant of the rows, the tokens and the requests.
TypeOK ==
    /\ users \in [UserIds -> [status: UserStatus, updated: Nat]]
    /\ minted \subseteq AccessToken
    /\ req \in [Requests -> Request]
    /\ now \in Nat

\* The handler of r has run, is running, or will run.
Admitted(r) == req[r].pc \in {"authorized", "updating", "updated"} \/ req[r].code = 200

\* A protected handler runs only for a caller who was enabled at some instant
\* since the request arrived: once a disable has committed, the next request
\* with an old, unexpired access token is refused.
AdmittedOnlyIfEnabled == \A r \in Requests : Admitted(r) => req[r].wasEnabled

\* ... and only while the token is less than AccessTTL old, although its exp
\* claim has second precision.
AdmittedWithinLifetime ==
    \A r \in Requests : Admitted(r) => req[r].at < req[r].iss + AccessTTL

\* Nobody is refused without cause: 401 means that the caller was disabled at
\* some instant of the request or the token was within a second of its end or
\* past it; 403 means that the caller is not an administrator.
RefusedOnlyForCause ==
    \A r \in Requests :
        /\ req[r].code = 401 =>
             req[r].wasDisabled \/ req[r].at + TicksPerSecond > req[r].iss + AccessTTL
        /\ req[r].code = 403 => req[r].op # "read" /\ req[r].caller \notin Admins

\* A row of users changes only by the commit of a request whose caller is an
\* administrator that was enabled since it arrived, and only its target row.
StatusChangedByAdminsOnly ==
    [][\A u \in UserIds : users'[u] # users[u] =>
        \E r \in Requests :
            /\ req[r].pc = "updated" /\ req'[r].pc = "done"
            /\ req[r].target = u
            /\ req[r].caller \in Admins /\ req[r].wasEnabled]_users

\* What docs/ai/design/014 says of COMMON-404: the target user does not
\* exist.  Repeating a status within one second violates it.
NotFoundMeansAbsent ==
    \A r \in Requests : req[r].code = 404 => req[r].target \notin UserIds
=============================================================================
