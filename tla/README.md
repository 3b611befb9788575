# EventHub Go: TLA+ models, model checking and proofs

EventHub Go is an HTTP backend: a chi router with an OpenAPI contract gate in
front, handlers, services, and MySQL repositories generated by sqlc. At this
commit it implements accounts: registration, login, refresh-token rotation,
logout, the current user, and administration of users. Requests run
concurrently, one goroutine each; the only state they share is the database.
What can go wrong is therefore what interleaved SQL statements, stale reads,
clocks of different precision, aborted transactions and lost answers can do to
the tables, and who is let in meanwhile.

## Inventory

| part | state | operations | interaction | hard behaviour | correct means |
|---|---|---|---|---|---|
| auth sessions (`service/auth/login.go`, `refresh_token.go`, `security/refresh`, `repository/mysql/auth_session_repository.go`) | table `auth_sessions`: owner, hash of the current refresh token, status, expiry, version | Login, Refresh, (repository only) RevokeBySessionID | inside `WithinTx`; reads `users` | two refreshes with one token; time read before the transaction; ambiguous commit | a token is exchanged at most once; rows never go back; nobody disabled is served |
| protected-request gate (`http/middleware/auth.go`, `security/jwt`, `service/user/principal.go`, `http/contract/validator.go`) | none: the token carries claims, the row decides | Authenticate, LoadPrincipal, role gate | runs before every protected handler | a user is disabled while tokens and requests are in flight; second-precision `exp` | admission only while enabled, within the token's lifetime, with the role |
| user status (`service/user/admin_users.go`) | `users.status`, `users.updated_at` | UpdateStatus | own transaction; seen by both parts above | rows *changed* versus rows *matched* | only administrators write; 404 means absent |
| transactions (`platform/db/tx.go`) | a `*sql.Tx` in the context | WithinTx | every service | rollback on error, panic, cancellation | all or nothing |
| registration (`service/auth/register.go`) | `users`, `user_roles` | Register | own transaction, then a read outside it | check-then-insert race; failing half way | unique names; no user without a role |
| user list (`admin_users.go`, `page/`) | none | ListUsers | three reads without a transaction | rows move between COUNT and page | no overflow; pages as counted; a walk misses nobody |
| connection pool (`platform/db/mysql.go`, `repository/mysql/query_factory.go`) | MaxOpenConns connections | BeginTx, query | every repository call | exhaustion | a request inside a transaction needs no second connection |
| lifecycle (`app/`, `http/server.go`) | server, pool, Redis client | Bootstrap, Run, Shutdown, Close | signals | shutdown timeout; half-built application | every resource closed once, after the server |
| pipeline (`http/middleware`, `router.go`, `openapi_routes.go`, `response/`) | per request | request id, recover, dispatch, error mapping | wraps every handler | panic after the answer began | one answer per request |
| contract validation (`http/contract/validation_*.go`) | immutable catalog | compile at start-up, run the rules, map errors | gate; the handlers rely on it | circular and composed schemas; Go's map order; two parsers of one value | the catalog says what the contract says; violations are exact and in one order |
| configuration (`config/`) | immutable | Load | bootstrap | | bad values fall back to defaults |
| system endpoints (`service/system`, `http/handler/openapi`) | none | ping, echo, health, info, documentation | routes of the pipeline | HEAD answers without a body | part of the pipeline |
| logging, ids, Redis client, generated code | none of interest | | | | not modelled |

`PROJECT.json` lists every part with its files and its status, and under
"hazards" what is hard to test in this code, each at its line with the
properties that cover it.

## Modules

### AuthSessions: sessions and refresh-token rotation

One record per in-flight request (`req`) says which statement it has executed
last; every action is one SQL statement with the Go code around it, or the
commit. Committed rows are `users` and `sessions`. What an open transaction has
written stays in its request record, which is also what makes the row locks:
`SessionLocked`, `UserWriteLocked` and `UserShareLocked` are the rows written by
open transactions and the shared lock the foreign key takes on the owner's row.

| code | actions |
|---|---|
| `Service.Login` | `LoginFind`, `LoginInsert`, `LoginCommit` |
| `Service.Refresh` | `RefreshStart`, `RefreshFind`, `RefreshFindRejects`, `RefreshCheckUser`, `RefreshCheckUserRejects`, `RefreshRotate`, `RefreshRotateRejects`, `RefreshCommit` |
| user `Service.UpdateStatus` | `UpdateStatusStart`, `UpdateStatus`, `UpdateStatusNoRows`, `UpdateStatusCommit` |
| `RevokeBySessionID` | `RevokeBySessionID` |
| deferred `tx.Rollback`, failed query, cancelled context, panic, dead process | `Abort` |
| `clock.Now` | `Tick` |

Decisions worth knowing:

* A plain `SELECT` reads the transaction's snapshot; an `UPDATE` evaluates its
  `WHERE` clause on the latest committed row. The services leave the isolation
  level to the server (`TxOptions` nil), so `RepeatableRead` is a constant and
  the safety properties are checked under one and proved under both.
* `TIMESTAMP` columns hold whole seconds and MySQL rounds half up on write,
  while `refreshedAt` and the comparisons keep their fraction.
* `issuedAt` and `refreshedAt` are read before the statement that may wait for a
  lock: a login's is any instant from its lookup to the moment its `INSERT` gets
  the lock, a refresh's is the instant it began.
* A transaction never waits for its own locks, so `SessionLocked` is asked of the
  other requests. The mutant of `EveryRequestEnds` locks the row in shared mode
  when it is looked up: two refreshes of one token then wait for each other.
* `RevokeBySessionID` is an operation of the repository that no service calls at
  this commit. `Refresh` handles the rows it leaves, so it is kept: the safety
  properties hold with it and, having fewer behaviours, without it.
* Commit carries `delivered`: when it is FALSE the transaction has committed and
  the client learns nothing.
* The tables store hashes. SHA-256 is taken to be injective and a fresh random
  token or uuid to be one that is nowhere in the state.
* All instances share one clock. With clocks that disagree, `SessionsOnlyAdvance`
  would be about their skew, not about this code.
* `known`, `exchanges`, `born` and `enabledIn` are history variables: no action
  reads them to decide anything except which tokens a client can present.

Not in the model: password checking (a failed login changes nothing), malformed
tokens (refused before the first query), logout (it touches no row),
`last_seen_at`, and the repository's `UpdateLastSeenAt` and `UpdateStatus`, which
no service calls.

### RefreshChain: what rotation promises

The abstract specification: a session has one current token; redeeming it
replaces it, atomically and for good; a closed session redeems nothing.
AuthSessions implements it under the mapping `current` = hash column, `spent` =
old tokens of committed rotations, `closed` = revoked rows
(`ImplementsRefreshChain`).

### AccessGate: protected requests

A request is parsed (`Authenticate`: expiry is the last check of
`ParseAccessToken`), its principal loaded from the database (`LoadPrincipal`,
`LoadPrincipalUnauthorized`), held against `x-required-roles` (`Forbidden`,
`RoleGateForbids`), and handled: `ReadHandler`, or the status update in
`UpdateStatusBegin` (the statement begins and fixes `CURRENT_TIMESTAMP`),
`UpdateStatus`/`UpdateStatusNotFound` (the row lock is granted and rows are
counted) and `UpdateStatusCommit`. `IssueAccessToken` stands for a login or
refresh that hands out a token. Access tokens exist independently of sessions
(nothing looks up `sid`), so the two modules share only `users`, and each has
the status update with the detail its own properties need.

### Registration: check, insert, bind, commit, read

`Register` begins; `ExistsByUsername` and `ExistsByEmail` read (the second on the
first one's snapshot under REPEATABLE READ); the INSERT is two steps,
`CreateNameEntry` and `CreateEmailEntry`, because InnoDB enters the unique keys
one after the other and waits in each for an open transaction that holds the
same value; `CreateDuplicate` is error 1062 and AUTH-409; `AddRoleToUser`
(FindByCode included), `Commit` with a possibly lost acknowledgement, and
`GetByID` outside the transaction follow. `Abort` is every other failure,
InnoDB's choice of a deadlock victim included; after the commit it answers 500
and undoes nothing. A username or email is one value for all spellings that
TrimSpace, ToLower and the collation identify. No code deletes users.

### ServerLifecycle: start, serve, shut down

`main` is the step the main goroutine takes next: `Run` (`NotifyContext`,
`DeferredStop`), `Bootstrap` (open, ping and skip of each resource, `Wire` for the
providers that follow, and the failing variant of each with its clean-up),
`Server.Run` (`Serve`, the select as `SelectDone`/`SelectErr`, `Shutdown` as
`ShutdownDrained`/`ShutdownFails`, `AwaitErr`), `Application.Close` (`CloseRedis`,
`CloseMySQL`) and `Exit`. The goroutines are `WatcherStops` and
`Listen`/`ListenFails`/`ListenClosed`. Connections (`Accept`, `NextRequest`,
`HandlerReturns`, `CloseIdle`) and `Signal` are external: net/http is modelled as
the code uses it, with requests on kept-alive connections that start while
Shutdown is closing the idle ones.

### RequestPipeline: one request from the router to the access log

`Receive` is `RequestID` and `Recover` wrapping net/http's writer; `RouteApi`,
`RouteDocs`, `RouteNotFound` the chi router; `GateNotFound`, `SecurityPasses`,
`SecurityFails`, `SchemaFails`, `SchemaPasses`, `RulesFail`, `RulesError`,
`RulesPass` the contract gate; `BindFails`, `Bind`, `DecodeFails`, `Decode` the
generated wrapper and strict handler; `Adapter` and `Handler` the modules behind
it. The answer is sent in two steps, `SendHeader` and `SendBody`, through
`WriteHeader` and `Write` of both response writers (`committed`, `wroteHeader`,
`status`) down to what the client gets (`sentStatus`, `sentBodies`). `OneAnswer`
counts bodies that reach the client; an answer written after the connection broke
reaches nobody, and only what is recorded of it matters (`LoggedAsSent`). `Panic` may
happen at any step, `Disconnect` at any time; `SendBodyFails` is the strict
handler's second error path, `Recover` the deferred function, `LogAccess` the
access log.

A part of a request (parameters, body) is one of five kinds (`Content`): right,
against a rule only, against the schema, followed by something, undecodable. What
the bearer token finds (`Credential`) and what a service answers (`Handler(code)`)
are outcomes: AccessGate, AuthSessions and Registration decide them. Whether a
database is configured, whether requests are validated and whether documentation
is served are chosen by `Init`. Requests share nothing here, so one at a time is
enough.

### AdminUserList: three reads and a walk

`ListUsers` (defaults, limits, `OffsetFits`), `CountByCriteria`, `FindPage` and
`FindRoles` are the three statements without a transaction; `Insert`,
`CommitRegistration` (ids may commit out of order), `UpdateStatus` and `Tick`
change the table between them. `Newer` and `PageRows` are ORDER BY, LIMIT and
OFFSET; `Int32` is Go's conversion, with `MaxInt32` a constant so that overflow
is within reach of TLC. `NextPage` is the client that follows `hasNext`; `skewed`
and `shrunk` record what happened to the matches meanwhile. The filter is the
status filter, since a change of status is what moves an account in and out; the
other columns that can be filtered on do not change, except `updated_at`, which
changes with the status.

### ConnPool: requests and connections

A request is the number of statements it runs before, within and after its
transaction (`Statements`). `Connect` and `PutConn` are database/sql handing out
connections, in no particular order; `BeginTx`, `StatementInTx`, `Commit`,
`CommitFails` are `WithinTx`; `Fail`, `Panic` and `Cancel` with `AwaitDone` are the
three ways out of it. `UsesTx` is `queryFactory.queries`, on which everything
depends: inside a transaction no statement asks the pool.

### ValidationCatalog: compiling x-validation

The recursion of `compileBodySchema` is a stack of `frames`: `Called` is the check
of `stack[schema]`, `CompileAllOf` and `CompileProperty` the two recursive calls,
`Return` the deferred delete. `CompileField` and `FieldFails` are `compileField`
with `addMessage`; `CompileOperation` and `CompileParameter` what precedes the
body. The order in which names are sorted does not matter and is left open. The
reference definition, `Fields`, is written without stack and maps: the fields of
a body are the properties at the end of the walks (`Steps`, `Walks`) that start
at its schema and enter no schema twice. Extensions are parsed values: `ok` stands
for everything the parser refuses; the message of an operation has the location
"none" and the empty path. A path is the sequence of its names where the code
joins them with dots (`validation_catalog.go:225`) and trims the keys: contracts
whose names contain a dot, so that two paths become one key, are not covered. A
parameter is one field, since OpenAPI gives it a schema or a content of one media
type (`validation_catalog.go:152`). When two schemas under `allOf` declare rules for the
same property, the later assignment replaces the earlier
(`validation_catalog.go:291`); the shipped contract does not do this, and
`LoneRulesEnforced` is about fields that are declared once, or always alike.

### FieldValidation: running the rules

`NextField` takes the fields in any order the comparison `FieldLess` leaves open,
so a comparison that is not total shows as two possible lists, and passes over
those without a value; `CheckRule` is one turn of the inner loop, one rule of the
field at hand; `CheckRange` is `notAfter`, `Reject` the envelope, `Handle` the
handler of the user list, which parses the times again. A string is what the
rules tell of it, a path the sequence of its names; the code compares the joined
strings (`validation_custom_rules.go:104`), which gives the same order for names
without a dot or a character that sorts before one. The catalog is a constant;
what is assumed of it is what `compileField` and `parseNamedValidationRules`
establish (`CatalogAssumption`), and that the contract gives both ends of every
range the rule `localDateTime` (`RangesAssumption`), as the shipped one does:
without it `GateCoversHandler` would be false.

How they fit together: RequestPipeline is the frame in which AccessGate (its
"security" step), ValidationCatalog and FieldValidation (its "rules" step), the
services (its "handler" step) and ConnPool (what their statements wait for)
stand; ServerLifecycle is the process around it. They share no variables, since
requests share nothing but the tables and the pool; each treats the outcome of
the others as a choice, which makes its properties hold whatever they decide.

## Runs

| run | instance | shows |
|---|---|---|
| `sessions` | 1 user, 1 session, 4 tokens, 3 requests, REPEATABLE READ, 3 ticks of half a second, TTL one second | `ExchangedAtMostOnce`, `ServedOnlyIfEnabled`, `HonouredWithinLifetime`, `SessionsOnlyAdvance`, `ImplementsRefreshChain` |
| `sessions_rc` | 1 user, 2 sessions, 3 tokens, 2 requests, READ COMMITTED, fair | `EveryRequestEnds` |
| `gate` | an administrator and a user, 2 tokens, 2 requests, token lifetime one second, two seconds of time | `AdmittedOnlyIfEnabled`, `AdmittedWithinLifetime`, `RefusedOnlyForCause`, `StatusChangedByAdminsOnly` |
| `gate_404` | 1 request at a time | violates `NotFoundMeansAbsent` (see Findings) |
| `registration` | 2 requests, 2 free usernames and 2 free emails besides the administrator's, REPEATABLE READ, fair | `AccountsAreDistinct`, `EveryAccountHasRole`, `ConflictOnlyForCause`, `SuccessMeansRegistered`, `EveryRegistrationAnswered` |
| `lifecycle` | 2 connections, 3 signals, every configuration of resources, fair | `ReleasedOnce`, `ResourcesOutliveHandlers`, `ZeroMeansDrained`, `FirstSignalDrains`, `EventuallyExits` |
| `pipeline` | all operations, credentials, kinds of parameters and bodies, 8 configurations | `OneAnswer`, `LoggedAsSent`, `SecuredNeedsPrincipal`, `ContractAfterSecurity`, `NoFalseReject` |
| `pipeline_trailing` | the same, fair | violates `MalformedIsClientError` (see Findings) |
| `admin_list` | 3 accounts, 2 seconds, pages of 1 and 2, an OFFSET of at most 3 | `OffsetExact`, `PageAsCounted`, `WalkCovers` |
| `pool` | 2 requests of every kind, 1 connection, fair | `NoLeak`, `NoCircularWait`, `TransactionWhole`, `EveryRequestEnds` |
| `catalog` | 58,080 contracts of 4 schemas and 1 or 2 operations | `RecursionBounded`, `CatalogComplete`, `RefusedForCause`, `LoneRulesEnforced` |
| `field_rules` | 5 fields with 6 values each, one range | `RulesTypeOK`, `ViolationsExact`, `ViolationsOrdered`, `GateCoversHandler` |

The type invariants of the other modules, and `SpentTokensAreDead`,
`VersionCountsChanges`, `HandlerInputs` and `ListedHaveRoles`, are proved for every
instance (see Proofs) and take no run.

Why the bounds are enough. Three requests are the two that race for a token
and a third that logs in, disables or presents a replay; four tokens are a
chain of three exchanges plus one drawn and rolled back. Two ticks per second make
both roundings of a `TIMESTAMP` happen, a TTL of one second lets tokens expire
within three ticks. `TokensLeft` and `SessionsLeft` keep requests from starting
that would find the finite pools empty, so that the bound never looks like a
deadlock. Tokens, sessions and goroutines are interchangeable: `sessions` and
`gate`, which check no liveness, use symmetry. For waiting two requests are what a
circle needs, and time plays no part in it: `sessions_rc` has no ticks. Two
registrations race for both keys and may wait for each other in each; more of
them only lengthen the queue, and the safety properties are proved for any
number. Three ids are enough because rows and open inserts have distinct
usernames. Three signals are the graceful one, one that is swallowed before the
watcher runs, and one that kills. RequestPipeline has no bounds: its sets are the
cases the code tells apart. Three accounts are a page of two and one that moves to
the next; a greatest OFFSET of three makes page 6 overflow. One connection is a
pool that is at its limit with the first transaction, so that a statement that
asked for a second one could never get it; the six kinds of requests have
statements before, within and after a transaction. In the contracts two schemas
contain each other and themselves in every way through `allOf` and two
properties, which is sharing, direct and indirect recursion, and composition.
Deadlock is checked everywhere but in `lifecycle` and `pool`, where the process
and the requests end.

Fairness. In AuthSessions and Registration: strong fairness of `Advance(r)` for
each request. A goroutine that has begun keeps running, and InnoDB grants row
locks in the order in which they were requested, so a step that is enabled again
and again is eventually taken. Nothing is assumed about arrivals, ticks,
revocations or aborts. In ServerLifecycle the main goroutine and a closed listener
are weakly fair; the ten-second context makes `ShutdownFails` happen in the end;
`PingContext` is only assumed to return once its context is cancelled, the Redis
client has timeouts of its own, and handlers are not assumed to return. In
ConnPool each request and the hand-over of a returned connection to some waiting
request are weakly fair; that is enough because every request needs finitely many
connections. In RequestPipeline the goroutine of a request is weakly fair; only
the counterexample of `pipeline_trailing` is stated under it. Cancellations,
panics and disconnections are never assumed.

## Findings

`PATCH /admin/users/{id}/status` answers `COMMON-404` for a user who exists:
`rows == 0` (`admin_users.go:72`) is read as "no such user", but the driver
reports *changed* rows (the DSN does not set `clientFoundRows`), and a second
update to the same status within the same second changes nothing. The design
document calls the operation idempotent (`docs/ai/design/014`, line 275). Run
`gate_404` shows the shortest such behaviour.

A body with something behind its JSON value is answered `COMMON-500`:
kin-openapi's decoder stops after the first value, `loadBody` uses
`json.Unmarshal`, which does not, and `validator.go:123` takes every error of the
rules for an internal one. The design document promises `COMMON-400`
(`docs/ai/design/036`, line 188). Run `pipeline_trailing`; the behaviour of
kin-openapi is modelled from its use. `HandlerInputs` (theorem `InputsChecked`)
says what still holds: what reaches a handler decodes and, with validation on,
keeps the contract, bar what follows a body that no rule reads.

## Proofs

The safety properties, action properties and the refinement that the runs
check on small instances are proved for all instances, from the named
assumptions of each module (`NoneAssumption`, `TimeAssumption`,
`IsolationAssumption`; `GateAssumption`; `RegistrationAssumption`;
`LifecycleAssumption`; `BoundsAssumption`, `PagesAssumption`, `SizeAssumption`,
`Int32Assumption`; `PoolAssumption`, `OpsAssumption`; `ContractAssumption`;
`CatalogAssumption`, `StringsAssumption`, `RangesAssumption`). Only liveness is left
out, as said at the end of this section.

`AuthSessions_proofs`, for every set of users, sessions, tokens and requests and
both isolation levels:

* `TypeCorrect` (`TypeOK`). `TypeOK` alone is not inductive, since `LoginCommit`
  writes the request's fields into the table. `TypeInv` adds which fields are
  filled in at which step (`StepInv`), what a row that exists contains (`RowInv`)
  and that a row once found stays (`FoundInv`).
* `ExchangedOnce` (`ExchangedAtMostOnce`) and `SpentAreDead`
  (`SpentTokensAreDead`). The inductive invariant `ChainInv` says why: a spent
  token is in no row (`SpentInv`), sessions do not share hashes
  (`DistinctHashes`), a drawn token is nowhere else (`DrawnInv`), a rotated row is
  still as its `WHERE` clause matched it and held by one transaction only
  (`RotatingInv`), and an inserted row is invisible (`InsertingInv`).
* `Refinement` (`ImplementsRefreshChain`): a login's commit is `Open`, a refresh's
  commit `Redeem`, a revocation `Close`, and every other step a stutter; from
  `ChainInv`.
* `ServedEnabled` (`ServedOnlyIfEnabled`), from `EnabledInv`: whoever passed the
  status check was enabled at some instant of the request.
* `Honoured` (`HonouredWithinLifetime`), from `TimeInv`: what expiry a row and a
  request may carry, with lemmas on MySQL's rounding (`RoundAbove`,
  `RoundMonotone`) for every TTL and clock resolution.
* `RowsAdvance` (`SessionsOnlyAdvance`) and `VersionExact`
  (`VersionCountsChanges`, from `VersionInv`).

`AccessGate_proofs`, for every set of users and administrators, any number of
requests, every lifetime and clock resolution: `GateTypes`, `AdmissionEnabled`,
`AdmissionInTime`, `RefusalCause`, `AdminsOnly`. The inductive invariant `GateInv`
gives each request record its meaning (`GateFits`): a request in flight has
observed the current status of its caller, which every commit of a status
change preserves (`StatusCommit`), and `exp` is the end of the lifetime rounded
down (`TokenInv`, `SecondsFacts`).

`Registration_proofs`, for every set of requests, names and ids and both isolation
levels: `RegistrationTypes`, `DistinctAccounts`, `RoleBound`, `ConflictCause`,
`SuccessRegistered`. `RegInv` adds that the entry of an open INSERT reserves its
id, username (`NameHeld`) and email (`EmailHeld`), and that a snapshot holds
nothing the table does not (`ProgressInv`).

`ServerLifecycle_proofs`, for any number of connections and signals:
`LifecycleTypes`, `ResourcesReleased`, `HandlersKeepResources`, `ZeroDrained`,
`FirstSignal`. `LifecycleInv` says what is open at each step (`ResourceInv`), that
a server whose Run will return nil is drained for good (`ServingInv`), and which
signals have arrived (`SignalInv`); one lemma per part, one step per action.

`RequestPipeline_proofs`: `TypeCorrect`, `AnsweredOnce`, `LogTellsTheTruth`,
`SecuredAlways`, `SecurityFirst`, `InputsChecked`, `FaultlessPasses`. `PipelineInv` is
`WriterInv` (both recorders agree with what was sent; only a broken connection
starts a second answer), `SecurityInv` (what is known of the principal behind the
security step) and `InputInv` (what each step has established for the next).

`AdminUserList_proofs`, for any number of accounts, every page, size and width of
the OFFSET: `TypeCorrect`, `OffsetNeverWraps`, `RolesComplete`, `PagesFull`,
`WalksMissNobody`. The order of the rows makes ranks a bijection onto the first
natural numbers (`NewerIsOrder`, `RankInjective`, `EveryRankTaken`), so pages are
counted exactly (`PageCount`), and a change that removes nobody only moves rows
back (`RankGrows`). `WalkInv` says who of the start has been shown and how far
behind the others are.

`ConnPool_proofs`, for any number of requests and connections: `PoolTypes`,
`NothingLeaks`, `PoolNeverStuck`, `WholeOrNothing`. `PoolInv` says for each request
which connections it may hold at its step, `CountInv` how many statements of its
transaction have run.

`ContractValidation_proofs` has both halves of contract validation.

The compilation, for every contract whose names have no dot or surrounding blanks: `CatalogTypes`, `RecursionEnds`,
`CatalogIsComplete` (`CatalogComplete`), `OnlyFaultyRefused` (`RefusedForCause`) and
`LoneRulesAreEnforced` (`LoneRulesEnforced`). That the schemas on the stack are
distinct (`StackOK`, in `CompileInv`) bounds the recursion. The other three
compare the catalog with a definition of its own, and none of them is inductive;
`CatalogInv` adds

* `StackInv`: the stack is a walk from a body of the operation, and what a call
  has left is some of what its schema has, so that whatever is compiled is a
  field of the contract;
* `SoundInv`: every message and every rule in the catalog is declared by some
  field or operation, and no two messages conflict; `CauseInv`, that a refusal has a
  cause, follows at each error, since the conflict is then between two
  declarations;
* `DoneInv`: the heart of it. Every step a call on the stack may take leads to a
  node it still has to visit, or to the call above it, or to a schema that is
  on the stack already, or else everything on the walks through that node is
  done (`FrameInv`, `AllBelow`). "Done" is relative to the walk that the stack is:
  a schema skipped because it is on the stack is on no walk that continues this
  stack, and that is why nothing is missing although the code skips it. When a
  call returns, what was done below it becomes done for its caller
  (`TopDone`, `ReturnDone`).

`Fields` is computed by TLC through the recursive function `Walks`. `WalksAre` shows
that this function exists and is the set of walks of bounded length, by the
least number at which the two would differ (`LeastNat`), and `WalkShort` that a
walk which enters no schema twice is no longer than there are schemas; so `Fields`
is the predicate `Known` in which the invariant is written (`FieldsAre`).

The rules, for every catalog, every set of strings and every request:
`RulesTypes`, `ViolationsAreExact`, `ViolationsInOrder`, `GateCovers`, and
`NoInternalError`: the internal error that `parseTimeParam` reports cannot be
reached through the gate. `RulesInv` says that the fields come up in their order
(`FieldOrderInv`, from the totality of the comparison, `PathLessTotal` and
`FieldLessTotal`), where the loops stand (`ProgressInv`), and that the violations so
far are the broken ones among the rules that have been run (`HasRun`), each once,
followed by the ranges turned around (`ExactInv`).

Only model-checked: the liveness properties (`EveryRequestEnds` of sessions and
pool, `EveryRegistrationAnswered`, `EventuallyExits`), since fairness is outside the
prover's reach. The two violated properties (see Findings) are, of course, not
theorems.

## Not modelled

* Configuration: a stateless table of environment variables and defaults, read
  once before anything runs. What it yields are the initial choices of the other
  modules (which resources and routes there are, TTLs, the size of the pool).
* How a schema error of kin-openapi becomes a violation
  (`validation_violation.go`, `validation_error_mapper.go`): the choice among texts
  and envelopes of one `COMMON-400`; the lookup of the catalog's text is `Message`.
* What the system endpoints and the documentation routes answer: constants and
  files. Their routes are in RequestPipeline.
* Logging and id generation: pure I/O and randomness. The Redis client is opened
  and closed (ServerLifecycle) and used by nothing.
* Generated code (oapi-codegen, sqlc), beyond the order of binding, decoding and
  writing that RequestPipeline has; the SQL is modelled where it is used. The
  Swagger UI under `api/openapi/swagger` is a vendored bundle.
* `AuthSessionRepository.UpdateStatus` (`auth_session_repository.go:120`) and
  `UpdateLastSeenAt`: no service calls them. The first could reactivate a revoked
  session; it becomes an action of AuthSessions when something calls it.
* Idle limits and lifetimes of pooled connections, and clocks that differ between
  instances.

## Plan

Done: AuthSessions with RefreshChain, AccessGate, Registration, ServerLifecycle,
RequestPipeline, AdminUserList, ConnPool, ValidationCatalog and FieldValidation,
and the proofs named above. What would come next:

1. An abstract specification of registration (an account appears at once, with its
   role, or not at all) that Registration implements, as AuthSessions implements
   RefreshChain.
2. AuthSessions with ConnPool's cancellation, to see rollbacks by
   `Tx.awaitDone` while a row lock is waited for; `Abort` covers them now.
3. Logout and `UpdateStatus` of sessions, once a service revokes sessions.
