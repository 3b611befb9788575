---------------------------- MODULE AuthSessions ----------------------------
(***************************************************************************)
(* Login sessions and refresh-token rotation: the auth service, the user   *)
(* service's status update and the MySQL tables users and auth_sessions.   *)
(*                                                                         *)
(* Every in-flight HTTP request is one goroutine that runs its SQL         *)
(* statements one at a time; the statements of different requests          *)
(* interleave freely.  Only committed rows are visible (variables users    *)
(* and sessions); what an open transaction has written is still in its     *)
(* request record, and the row locks InnoDB gives it are exactly the rows  *)
(* it has written, so they vanish when the transaction ends.               *)
(*                                                                         *)
(* Left out because nothing a property tells apart depends on it: the      *)
(* user summary GetByID returns, last_seen_at, the password (a login that  *)
(* fails its checks changes nothing and is a stuttering step), malformed   *)
(* refresh tokens (Parse answers AUTH-401 before anything is read), logout *)
(* (it touches no row) and the access token (module AccessGate).           *)
(***************************************************************************)
EXTENDS Integers, FiniteSets

CONSTANTS
    UserIds,          \* rows of users; no code deletes one
    SessionIds,       \* the uuids logins draw from
    Tokens,           \* the refresh tokens Generate can return
    None,             \* "no user", "no session", "no token"
    ForgedToken,      \* well formed, but never returned by Generate
    Requests,         \* goroutines that may be in flight at once
    RefreshTTL,       \* lifetime of a refresh token, in clock ticks
    TicksPerSecond,   \* resolution of the Go clock within a second
    MaxTime,          \* bound on the clock
    RepeatableRead    \* isolation: TRUE REPEATABLE READ, FALSE READ COMMITTED

ASSUME NoneAssumption ==
    /\ None \notin UserIds \cup SessionIds \cup Tokens
    /\ ForgedToken \notin Tokens \cup {None}

ASSUME TimeAssumption ==
    /\ RefreshTTL \in Nat \ {0}
    /\ TicksPerSecond \in Nat \ {0}
    /\ MaxTime \in Nat

ASSUME IsolationAssumption == RepeatableRead \in BOOLEAN

VARIABLES
    users,      \* committed users.status
    sessions,   \* committed rows of auth_sessions, by session id
    req,        \* what each request is doing
    now,        \* the clock, in ticks
    known,      \* history: refresh tokens some client has received
    exchanges,  \* history: committed rotations, who got what for which token
    born,       \* history: the exact instant each token's lifetime counts from
    enabledIn   \* history: users enabled at some instant of each request

vars == <<users, sessions, req, now, known, exchanges, born, enabledIn>>

-----------------------------------------------------------------------------
(***************************************************************************)
(* Data                                                                    *)
(***************************************************************************)
UserStatus == {"ENABLED", "DISABLED"}

\* auth_sessions.status; "NONE" stands for "no such row".
SessionStatus == {"NONE", "ACTIVE", "REVOKED"}

AnyToken == Tokens \cup {None, ForgedToken}

\* Only the hash of a token is stored or looked up.  SHA-256 is taken to be
\* injective; a hash is not a token, so a row that leaks cannot be presented.
Hash(t) == [sha256 |-> t]

Hashes == {Hash(t) : t \in AnyToken}

SessionRow == [user: UserIds \cup {None}, hash: Hashes,
               status: SessionStatus, expires: Nat, version: Nat]

NoRow == [user |-> None, hash |-> Hash(None), status |-> "NONE",
          expires |-> 0, version |-> 0]

\* How far a request is: the last statement that succeeded.
Step == {"idle", "loginChecked", "loginInserted",
         "refreshStarted", "refreshFound", "refreshChecked", "refreshRotated",
         "statusStarted", "statusUpdated"}

Request == [pc: Step, user: UserIds \cup {None}, sid: SessionIds \cup {None},
            old: AnyToken, new: AnyToken, at: Nat, version: Nat,
            status: UserStatus]

IdleRequest == [pc |-> "idle", user |-> None, sid |-> None, old |-> None,
                new |-> None, at |-> 0, version |-> 0, status |-> "ENABLED"]

\* Mutant: the stored expiry is always rounded up to the next second.
RoundUp(t) == (t \div TicksPerSecond + 1) * TicksPerSecond

\* TIMESTAMP columns have no fractional part: MySQL rounds half up on write.
RoundToSecond(t) ==
    ((2 * t + TicksPerSecond) \div (2 * TicksPerSecond)) * TicksPerSecond

Exists(s) == sessions[s].status # "NONE"

\* SELECT ... WHERE refresh_token_hash = ?: the committed rows with that hash.
FindByRefreshTokenHash(h) == {s \in SessionIds : Exists(s) /\ sessions[s].hash = h}

-----------------------------------------------------------------------------
(***************************************************************************)
(* Row locks: the rows the open transactions have written, and the shared  *)
(* lock on the parent users row that the foreign key of an inserted        *)
(* session takes.                                                          *)
(***************************************************************************)
\* Mutant: the lookup already locks the row (SELECT ... FOR SHARE), so an
\* UPDATE waits for all others that have found it.
SharedLookupLock(s, others) ==
    \E r \in others :
        req[r].pc \in {"refreshFound", "refreshChecked", "refreshRotated"} /\ req[r].sid = s

\* One of the others holds session s: a transaction does not wait for itself.
SessionLocked(s, others) ==
    \E r \in others : req[r].pc = "refreshRotated" /\ req[r].sid = s

UserWriteLocked(u) ==
    \E r \in Requests : req[r].pc = "statusUpdated" /\ req[r].user = u

UserShareLocked(u) ==
    \E r \in Requests : req[r].pc = "loginInserted" /\ req[r].user = u

-----------------------------------------------------------------------------

Goto(r, q) == req' = [req EXCEPT ![r] = q]

\* The transaction of r is over and its request answered.
Finish(r) ==
    /\ Goto(r, IdleRequest)
    /\ enabledIn' = [enabledIn EXCEPT ![r] = {}]

\* A value Generate can return: 32 random bytes nobody has seen.  Values of
\* rolled-back transactions were disclosed to nobody and may come again.
Fresh(t) ==
    /\ \A s \in SessionIds : sessions[s].hash # Hash(t)
    /\ \A e \in exchanges : e.old # t /\ e.new # t
    /\ \A r \in Requests : req[r].new # t
    /\ t \notin known

\* A value uuid.NewString can return.
FreshSession(s) ==
    /\ ~Exists(s)
    /\ \A r \in Requests : req[r].pc = "loginInserted" => req[r].sid # s

\* Bounds: a request starts only if the finite pools will not run dry on it.
TokensLeft ==
    Cardinality({t \in Tokens : Fresh(t)}) >
    Cardinality({r \in Requests : req[r].pc \in
                   {"loginChecked", "refreshStarted", "refreshFound", "refreshChecked"}})

SessionsLeft ==
    Cardinality({s \in SessionIds : FreshSession(s)}) >
    Cardinality({r \in Requests : req[r].pc = "loginChecked"})

\* A login or a refresh is in progress.
Serving(r) == req[r].pc \notin {"idle", "statusStarted", "statusUpdated"}

EnabledNow == {u \in UserIds : users[u] = "ENABLED"}

Init ==
    /\ users \in [UserIds -> UserStatus]
    /\ sessions = [s \in SessionIds |-> NoRow]
    /\ req = [r \in Requests |-> IdleRequest]
    /\ now = 0
    /\ known = {}
    /\ exchanges = {}
    /\ born = [t \in Tokens |-> 0]
    /\ enabledIn = [r \in Requests |-> {}]

-----------------------------------------------------------------------------
(***************************************************************************)
(* Login                                                                   *)
(***************************************************************************)
\* The first query fixes the snapshot; GetByID reads the same one and adds
\* no decision.  A wrong password, an unknown or a disabled user ends here.
\* at is the earliest issuedAt can be.
LoginFind(r, u) ==
    /\ req[r].pc = "idle"
    /\ TokensLeft /\ SessionsLeft
    /\ users[u] = "ENABLED"
    /\ Goto(r, [req[r] EXCEPT !.pc = "loginChecked", !.user = u, !.at = now])
    /\ enabledIn' = [enabledIn EXCEPT ![r] = EnabledNow]
    /\ UNCHANGED <<users, sessions, now, known, exchanges, born>>

\* INSERT INTO auth_sessions: waits for a transaction that has written the
\* parent row.  issuedAt was read after the checks and before that wait.
LoginInsert(r, s, t) ==
    /\ req[r].pc = "loginChecked"
    /\ ~UserWriteLocked(req[r].user)
    /\ FreshSession(s) /\ Fresh(t)
    /\ \E issuedAt \in req[r].at..now :
         Goto(r, [req[r] EXCEPT !.pc = "loginInserted", !.sid = s,
                                !.new = t, !.at = issuedAt])
    /\ UNCHANGED <<users, sessions, now, known, exchanges, born, enabledIn>>

\* The row r's transaction has inserted.
InsertedRow(r) ==
    [user |-> req[r].user, hash |-> Hash(req[r].new), status |-> "ACTIVE",
     expires |-> RoundToSecond(req[r].at + RefreshTTL), version |-> 0]

\* COMMIT makes the row visible.  delivered is FALSE when the answer is
\* lost: the connection to MySQL or to the client broke after the commit.
LoginCommit(r, delivered) ==
    /\ req[r].pc = "loginInserted"
    /\ sessions' = [sessions EXCEPT ![req[r].sid] = InsertedRow(r)]
    /\ born' = [born EXCEPT ![req[r].new] = req[r].at]
    /\ known' = IF delivered THEN known \cup {req[r].new} ELSE known
    /\ Finish(r)
    /\ UNCHANGED <<users, now, exchanges>>

-----------------------------------------------------------------------------
(***************************************************************************)
(* Refresh                                                                 *)
(***************************************************************************)
\* The token has been parsed and hashed; refreshedAt is read here, before
\* the transaction begins.  A client presents a token it once received,
\* used or not, or a forged one.
RefreshStart(r, t) ==
    /\ req[r].pc = "idle"
    /\ TokensLeft
    /\ t \in known \cup {ForgedToken}
    /\ Goto(r, [req[r] EXCEPT !.pc = "refreshStarted", !.old = t, !.at = now])
    /\ enabledIn' = [enabledIn EXCEPT ![r] = EnabledNow]
    /\ UNCHANGED <<users, sessions, now, known, exchanges, born>>

\* The session is there, ACTIVE and RefreshExpiresAt.After(refreshedAt).
Usable(s, at) == sessions[s].status = "ACTIVE" /\ sessions[s].expires > at

\* First query of the transaction: it fixes the snapshot, of which only the
\* owner's status (field status) is read again later.
RefreshFind(r) ==
    /\ req[r].pc = "refreshStarted"
    /\ \E s \in FindByRefreshTokenHash(Hash(req[r].old)) :
         /\ Usable(s, req[r].at)
         /\ Goto(r, [req[r] EXCEPT !.pc = "refreshFound", !.sid = s,
                                   !.user = sessions[s].user,
                                   !.version = sessions[s].version,
                                   !.status = users[sessions[s].user]])
    /\ UNCHANGED <<users, sessions, now, known, exchanges, born, enabledIn>>

RefreshFindRejects(r) ==
    /\ req[r].pc = "refreshStarted"
    /\ \A s \in FindByRefreshTokenHash(Hash(req[r].old)) : ~Usable(s, req[r].at)
    /\ Finish(r)
    /\ UNCHANGED <<users, sessions, now, known, exchanges, born>>

\* Mutant: the owner's status is not looked at.
StatusUnchecked(r) == "ENABLED"

\* users.status as the FindByID of r's transaction reads it.
StatusRead(r) == IF RepeatableRead THEN req[r].status ELSE users[req[r].user]

RefreshCheckUser(r) ==
    /\ req[r].pc = "refreshFound"
    /\ StatusRead(r) = "ENABLED"
    /\ Goto(r, [req[r] EXCEPT !.pc = "refreshChecked", !.status = "ENABLED"])
    /\ UNCHANGED <<users, sessions, now, known, exchanges, born, enabledIn>>

RefreshCheckUserRejects(r) ==
    /\ req[r].pc = "refreshFound"
    /\ StatusRead(r) # "ENABLED"
    /\ Finish(r)
    /\ UNCHANGED <<users, sessions, now, known, exchanges, born>>

\* Mutant: neither the old hash nor the old version is in the WHERE clause.
RotateStale(r) ==
    /\ sessions[req[r].sid].status = "ACTIVE"
    /\ sessions[req[r].sid].expires > req[r].at

\* Mutant: neither the version nor the status is in the WHERE clause.
RotateRevoked(r) ==
    /\ sessions[req[r].sid].hash = Hash(req[r].old)
    /\ sessions[req[r].sid].expires > req[r].at

\* The WHERE clause of ConditionalRotate.
RotateMatches(r) ==
    LET row == sessions[req[r].sid]
    IN  /\ row.hash = Hash(req[r].old)
        /\ row.version = req[r].version
        /\ row.status = "ACTIVE"
        /\ row.expires > req[r].at

\* UPDATE auth_sessions: waits for the row lock, then evaluates the WHERE
\* clause on the latest committed row, whatever the snapshot says.
RefreshRotate(r, t) ==
    /\ req[r].pc = "refreshChecked"
    /\ ~SessionLocked(req[r].sid, Requests \ {r})
    /\ RotateMatches(r)
    /\ Fresh(t)
    /\ Goto(r, [req[r] EXCEPT !.pc = "refreshRotated", !.new = t])
    /\ UNCHANGED <<users, sessions, now, known, exchanges, born, enabledIn>>

\* Zero rows affected: AUTH-401 and rollback.
RefreshRotateRejects(r) ==
    /\ req[r].pc = "refreshChecked"
    /\ ~SessionLocked(req[r].sid, Requests \ {r})
    /\ ~RotateMatches(r)
    /\ Finish(r)
    /\ UNCHANGED <<users, sessions, now, known, exchanges, born>>

\* The row as r's UPDATE has written it.
RotatedRow(r) ==
    [sessions[req[r].sid] EXCEPT !.hash = Hash(req[r].new),
                                 !.expires = RoundToSecond(req[r].at + RefreshTTL),
                                 !.version = @ + 1]

RefreshCommit(r, delivered) ==
    /\ req[r].pc = "refreshRotated"
    /\ sessions' = [sessions EXCEPT ![req[r].sid] = RotatedRow(r)]
    /\ exchanges' = exchanges \cup
                      {[sid |-> req[r].sid, old |-> req[r].old, new |-> req[r].new]}
    /\ born' = [born EXCEPT ![req[r].new] = req[r].at]
    /\ known' = IF delivered THEN known \cup {req[r].new} ELSE known
    /\ Finish(r)
    /\ UNCHANGED <<users, now>>

-----------------------------------------------------------------------------
(***************************************************************************)
(* Status changes, revocation, failures, time                              *)
(***************************************************************************)
\* An authorised administrator's request to set a user's status.
UpdateStatusStart(r, u, status) ==
    /\ req[r].pc = "idle"
    /\ Goto(r, [req[r] EXCEPT !.pc = "statusStarted", !.user = u, !.status = status])
    /\ UNCHANGED <<users, sessions, now, known, exchanges, born, enabledIn>>

\* UPDATE users SET status: waits for the row's writers and for the shared
\* locks of sessions being inserted.
UpdateStatus(r) ==
    /\ req[r].pc = "statusStarted"
    /\ ~UserWriteLocked(req[r].user) /\ ~UserShareLocked(req[r].user)
    /\ Goto(r, [req[r] EXCEPT !.pc = "statusUpdated"])
    /\ UNCHANGED <<users, sessions, now, known, exchanges, born, enabledIn>>

\* The UPDATE changed nothing (same status within the same second, module
\* AccessGate): the request is answered 404 and rolled back.
UpdateStatusNoRows(r) ==
    /\ req[r].pc = "statusStarted"
    /\ ~UserWriteLocked(req[r].user) /\ ~UserShareLocked(req[r].user)
    /\ users[req[r].user] = req[r].status
    /\ Finish(r)
    /\ UNCHANGED <<users, sessions, now, known, exchanges, born>>

UpdateStatusCommit(r) ==
    /\ req[r].pc = "statusUpdated"
    /\ users' = [users EXCEPT ![req[r].user] = req[r].status]
    /\ Goto(r, IdleRequest)
    /\ enabledIn' = [q \in Requests |->
                       IF req[r].status = "ENABLED" /\ Serving(q)
                       THEN enabledIn[q] \cup {req[r].user} ELSE enabledIn[q]]
    /\ UNCHANGED <<sessions, now, known, exchanges, born>>

\* The repository's RevokeBySessionID, one autocommitted UPDATE.  No service
\* calls it at this commit; Refresh handles the rows it leaves.
RevokeBySessionID(s) ==
    /\ sessions[s].status = "ACTIVE"
    /\ ~SessionLocked(s, Requests)
    /\ sessions' = [sessions EXCEPT ![s].status = "REVOKED", ![s].version = @ + 1]
    /\ UNCHANGED <<users, req, now, known, exchanges, born, enabledIn>>

\* An error after the request began: a failed query or COMMIT, a token that
\* cannot be signed, a lock wait timeout, a cancelled context, a panic or the
\* death of the process.  The deferred Rollback (or MySQL) undoes its writes.
Abort(r) ==
    /\ req[r].pc # "idle"
    /\ Finish(r)
    /\ UNCHANGED <<users, sessions, now, known, exchanges, born>>

Tick ==
    /\ now < MaxTime
    /\ now' = now + 1
    /\ UNCHANGED <<users, sessions, req, known, exchanges, born, enabledIn>>

\* The step a request takes by itself once it has begun.
Advance(r) ==
    \/ \E s \in SessionIds, t \in Tokens : LoginInsert(r, s, t)
    \/ \E delivered \in BOOLEAN : LoginCommit(r, delivered)
    \/ RefreshFind(r)
    \/ RefreshFindRejects(r)
    \/ RefreshCheckUser(r)
    \/ RefreshCheckUserRejects(r)
    \/ \E t \in Tokens : RefreshRotate(r, t)
    \/ RefreshRotateRejects(r)
    \/ \E delivered \in BOOLEAN : RefreshCommit(r, delivered)
    \/ UpdateStatus(r)
    \/ UpdateStatusNoRows(r)
    \/ UpdateStatusCommit(r)

Arrive(r) ==
    \/ \E u \in UserIds : LoginFind(r, u)
    \/ \E t \in Tokens \cup {ForgedToken} : RefreshStart(r, t)
    \/ \E u \in UserIds, status \in UserStatus : UpdateStatusStart(r, u, status)

Next ==
    \/ \E r \in Requests : Arrive(r) \/ Advance(r) \/ Abort(r)
    \/ \E s \in SessionIds : RevokeBySessionID(s)
    \/ Tick

Spec == Init /\ [][Next]_vars

\* A begun request keeps running; InnoDB grants row locks in FIFO order, so
\* a step that waits for one is not passed over forever.
FairSpec == Spec /\ \A r \in Requests : SF_vars(Advance(r))

-----------------------------------------------------------------------------
(***************************************************************************)
(* Properties                                                              *)
(***************************************************************************)
Exchange == [sid: SessionIds, old: Tokens, new: Tokens]

\* The type invariant of the tables, the requests and the history variables.
TypeOK ==
    /\ users \in [UserIds -> UserStatus]
    /\ sessions \in [SessionIds -> SessionRow]
    /\ req \in [Requests -> Request]
    /\ now \in Nat
    /\ known \subseteq Tokens
    /\ exchanges \subseteq Exchange
    /\ born \in [Tokens -> Nat]
    /\ enabledIn \in [Requests -> SUBSET UserIds]

\* A refresh token is exchanged at most once, however many requests present
\* it at the same time or later, whatever commits or answers get lost: the
\* tokens a session has had form a chain, never a tree.
ExchangedAtMostOnce ==
    \A e, f \in exchanges : e.old = f.old => e = f

\* The version column counts what happened to the row: its committed
\* rotations and its revocation.  (An optimistic lock whose version drifts
\* from the history can be passed by a stale reader.)
VersionCountsChanges ==
    \A s \in SessionIds :
        sessions[s].version = Cardinality({e \in exchanges : e.sid = s})
                              + (IF sessions[s].status = "REVOKED" THEN 1 ELSE 0)

\* A token that was exchanged opens nothing any more: no session row is
\* found by its hash, so a replay ends in AUTH-401.
SpentTokensAreDead ==
    \A e \in exchanges : FindByRefreshTokenHash(Hash(e.old)) = {}

\* Whoever is about to be handed a token pair belongs to a user that was
\* enabled at some instant since the request arrived: a request that arrives
\* after a disabling commit gets nothing, neither by login nor by refresh.
ServedOnlyIfEnabled ==
    \A r \in Requests :
        req[r].pc \in {"loginInserted", "refreshRotated"} => req[r].user \in enabledIn[r]

\* A token is honoured only if it was presented within its lifetime, give or
\* take the half second MySQL may add when it rounds refresh_expires_at.
HonouredWithinLifetime ==
    \A r \in Requests :
        req[r].pc = "refreshRotated" =>
            2 * req[r].at < 2 * (born[req[r].old] + RefreshTTL) + TicksPerSecond

\* A session row never goes back: version and expiry only grow, although
\* refreshedAt is read before the transaction; its owner is fixed and a
\* revoked row is never touched again.
SessionsOnlyAdvance ==
    [][\A s \in SessionIds : Exists(s) =>
        /\ sessions'[s].user = sessions[s].user
        /\ sessions'[s].version >= sessions[s].version
        /\ sessions'[s].expires >= sessions[s].expires
        /\ sessions[s].status = "REVOKED" => sessions'[s] = sessions[s]]_sessions

\* Every request that began is answered: the waits for row locks end.
EveryRequestEnds ==
    \A r \in Requests : req[r].pc # "idle" ~> req[r].pc = "idle"

-----------------------------------------------------------------------------
(***************************************************************************)
(* Refinement: the committed rows and the committed rotations behave like  *)
(* RefreshChain; everything else is a stuttering step.                     *)
(***************************************************************************)
Chain == INSTANCE RefreshChain WITH
    current <- [s \in SessionIds |-> sessions[s].hash.sha256],
    spent   <- {e.old : e \in exchanges},
    closed  <- {s \in SessionIds : sessions[s].status = "REVOKED"}

\* Rotation under concurrency, retries and failures is indistinguishable
\* from redeeming tokens one at a time.
ImplementsRefreshChain == Chain!Spec
=============================================================================
