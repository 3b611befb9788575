-------------------------- MODULE RequestPipeline --------------------------
(***************************************************************************)
(* One request on its way through the router: RequestID, Recover, the chi  *)
(* route, the OpenAPI contract gate, the generated wrapper and strict      *)
(* handler, the adapter, the handler of the module, and the answer on its  *)
(* way back through the two response writers that wrap net/http's.         *)
(*                                                                         *)
(* Requests share nothing here (the catalog is read-only), so one at a     *)
(* time is enough; the next one arrives when the last is done.  What the   *)
(* bearer token, the database and the services decide is an outcome here:  *)
(* modules AccessGate, AuthSessions and Registration decide it.            *)
(***************************************************************************)
EXTENDS Integers, Sequences

VARIABLES
    database,         \* configuration: a DSN is configured, ...
    validateRequest,  \* ... OPENAPI_REQUEST_VALIDATION_ENABLED, ...
    docs,             \* ... OPENAPI_ENABLED
    op, credential, params, body,   \* what the client sent
    pc,               \* where the request is
    bodyRead,         \* r.Body is consumed
    principal,        \* the principal in the request's context
    out,              \* the answer being written
    committed,        \* recoverResponseWriter.committed
    wroteHeader,      \* statusRecorder.wroteHeader
    status,           \* statusRecorder.status
    sentStatus,       \* net/http: the status line the client gets, 0 before, ...
    sentBodies,       \* ... and the bodies
    broken,           \* the connection is gone
    recovered,        \* Recover is answering
    logged            \* the status in the access log

config == <<database, validateRequest, docs>>
input == <<op, credential, params, body>>
writer == <<committed, wroteHeader, status, sentStatus, sentBodies>>
vars == <<config, input, pc, bodyRead, principal, out, writer, broken, recovered, logged>>

-----------------------------------------------------------------------------
(* eventhub.yaml, as far as the pipeline tells operations apart.           *)
SystemOps == {"ping", "head", "echo"}
AuthOps == {"login", "logout"}
UserOps == {"me", "list", "patch"}
ApiOps == SystemOps \cup AuthOps \cup UserOps

Secured == {"logout", "me", "list", "patch"}
RequiresAdmin == {"list", "patch"}
HasBody == {"echo", "login", "patch"}
HasParams == {"list", "patch"}
HasBodyRules == {"echo", "login"}   \* x-validation rules on a field of the body

\* How a part of a request departs from its contract: not at all, in an
\* x-validation rule only, in the schema, in that something follows the JSON
\* value of the body, or so that it cannot be decoded.
Content == {"ok", "offRule", "offSchema", "trailing", "undecodable"}

\* What the Authenticate middleware finds: no usable token, a database
\* error, a user, an administrator.
Credential == {"none", "outage", "user", "admin"}

Success == "CommonSuccess"

\* The codes of package apperror and the status each is sent with.
HTTPStatus == [CommonSuccess |-> 200, CommonValidation |-> 400, CommonBusiness |-> 400,
               CommonNotFound |-> 404, CommonInternal |-> 500, AuthUnauthorized |-> 401,
               AuthForbidden |-> 403, AuthConflict |-> 409]
Codes == DOMAIN HTTPStatus

-----------------------------------------------------------------------------
(* ProviderUser, ProviderAuth, ProviderHTTP.                               *)
Authenticating == database
GateInstalled == validateRequest \/ Authenticating
Available == SystemOps \cup IF database THEN AuthOps \cup UserOps ELSE {}

Init ==
    /\ database \in BOOLEAN /\ validateRequest \in BOOLEAN /\ docs \in BOOLEAN
    /\ op = "ping" /\ credential = "none" /\ params = "ok" /\ body = "ok"
    /\ pc = "idle"
    /\ bodyRead = FALSE /\ principal = "none" /\ out = Success
    /\ committed = FALSE /\ wroteHeader = FALSE /\ status = 200
    /\ sentStatus = 0 /\ sentBodies = <<>>
    /\ broken = FALSE /\ recovered = FALSE /\ logged = 0

-----------------------------------------------------------------------------
(* The request's way in.                                                   *)

\* RequestID and Recover put their writers around net/http's.
Receive(o, c, p, b) ==
    /\ pc \in {"idle", "done"}
    /\ o \notin HasParams => p = "ok"
    /\ p # "trailing"
    /\ o \notin HasBody => b = "ok"
    /\ op' = o /\ credential' = c /\ params' = p /\ body' = b
    /\ pc' = "route"
    /\ bodyRead' = FALSE /\ principal' = "none" /\ out' = Success
    /\ committed' = FALSE /\ wroteHeader' = FALSE /\ status' = 200
    /\ sentStatus' = 0 /\ sentBodies' = <<>>
    /\ broken' = FALSE /\ recovered' = FALSE /\ logged' = 0
    /\ UNCHANGED config

Goto(next) ==
    /\ pc' = next
    /\ UNCHANGED <<config, input, bodyRead, principal, out, writer, broken, recovered, logged>>

\* WriteError, and the typed response of a strict handler, start to send.
Reply(code) ==
    /\ pc' = "header" /\ out' = code
    /\ UNCHANGED <<config, input, bodyRead, principal, writer, broken, recovered, logged>>

\* chi: an API route, behind the gate if there is one.
RouteApi ==
    /\ pc = "route" /\ op \in ApiOps
    /\ Goto(IF GateInstalled THEN "gate" ELSE "bind")

\* The documentation routes: serveStaticAsset finds the asset, or not.  The
\* redirect of /swagger counts as found.
RouteDocs(code) ==
    /\ pc = "route" /\ op = "docs" /\ docs
    /\ code \in {Success, "CommonNotFound", "CommonInternal"}
    /\ Reply(code)

\* NotFound and MethodNotAllowed.
RouteNotFound ==
    /\ pc = "route" /\ (op = "unknown" \/ (op = "docs" /\ ~docs))
    /\ Reply("CommonNotFound")

-----------------------------------------------------------------------------
(* RequestValidator.Middleware.                                            *)

\* FindRoute: the contract's router does not know a path that chi matched.
GateNotFound ==
    /\ pc = "gate"
    /\ Reply("CommonNotFound")

\* Mutant: the security requirements are part of the request validation.
SecurityOnlyIfValidating(p) ==
    /\ pc = "gate"
    /\ p = IF op \in Secured /\ Authenticating /\ validateRequest THEN credential ELSE "none"
    /\ principal' = p /\ pc' = "schema"
    /\ UNCHANGED <<config, input, bodyRead, out, writer, broken, recovered, logged>>

\* The security requirements hold: the authenticated request, with its
\* principal, replaces the original one.
SecurityPasses(p) ==
    /\ pc = "gate"
    /\ p = IF op \in Secured /\ Authenticating THEN credential ELSE "none"
    /\ op \in Secured /\ Authenticating => p \in {"user", "admin"}
    /\ op \in RequiresAdmin /\ Authenticating => p = "admin"
    /\ principal' = p /\ pc' = "schema"
    /\ UNCHANGED <<config, input, bodyRead, out, writer, broken, recovered, logged>>

SecurityFails ==
    /\ pc = "gate" /\ op \in Secured /\ Authenticating
    /\ \/ credential = "none" /\ Reply("AuthUnauthorized")
       \/ credential = "outage" /\ Reply("CommonInternal")
       \/ credential = "user" /\ op \in RequiresAdmin /\ Reply("AuthForbidden")

\* The client went away before its body was read.
BodyLost == broken /\ op \in HasBody

\* Mutant: the schema is checked before the security requirements.
SchemaFirst ==
    /\ pc \in {"gate", "schema"} /\ validateRequest
    /\ {params, body} \cap {"offSchema", "undecodable"} # {} \/ BodyLost
    /\ Reply("CommonValidation")

\* ValidateRequest beyond security: parameters, content type, body.
SchemaFails ==
    /\ pc = "schema" /\ validateRequest
    /\ {params, body} \cap {"offSchema", "undecodable"} # {} \/ BodyLost
    /\ Reply("CommonValidation")

\* ... and its success; it reads the body and puts it back.  The decoder of
\* kin-openapi stops after the first JSON value.
SchemaPasses ==
    /\ pc = "schema"
    /\ validateRequest => {params, body} \subseteq {"ok", "offRule", "trailing"}
    /\ Goto(IF validateRequest THEN "rules" ELSE "bind")

RulesFail ==
    /\ pc = "rules" /\ "offRule" \in {params, body}
    /\ Reply("CommonValidation")

\* loadBody decodes the copy with json.Unmarshal, which wants nothing behind
\* the value.  Only a rule on a field of the body calls it.
BodyUnloadable == op \in HasBodyRules /\ body = "trailing"

RulesError ==
    /\ pc = "rules" /\ BodyUnloadable
    /\ Reply("CommonInternal")

\* Mutant: the body is read where it lies.
RulesConsumeBody ==
    /\ pc = "rules" /\ "offRule" \notin {params, body} /\ ~BodyUnloadable
    /\ pc' = "bind" /\ bodyRead' = (op \in HasBody)
    /\ UNCHANGED <<config, input, principal, out, writer, broken, recovered, logged>>

\* validateCustomRules works on a copy of the body (requestBodyCopy).
RulesPass ==
    /\ pc = "rules" /\ "offRule" \notin {params, body} /\ ~BodyUnloadable
    /\ Goto("bind")

-----------------------------------------------------------------------------
(* Generated wrapper, strict handler, adapter, handler.                    *)

BindFails ==
    /\ pc = "bind" /\ params = "undecodable"
    /\ Reply("CommonValidation")

Bind ==
    /\ pc = "bind" /\ params # "undecodable"
    /\ Goto("decode")

\* A body that is used up decodes as io.EOF.
Decodable == op \notin HasBody \/ (body # "undecodable" /\ ~bodyRead)

DecodeFails ==
    /\ pc = "decode" /\ (~Decodable \/ (BodyLost /\ ~validateRequest))
    /\ Reply("CommonValidation")

Decode ==
    /\ pc = "decode" /\ Decodable
    /\ pc' = "adapter" /\ bodyRead' = (op \in HasBody)
    /\ UNCHANGED <<config, input, principal, out, writer, broken, recovered, logged>>

\* A module that was not wired: routeNotAvailable.
Adapter ==
    /\ pc = "adapter"
    /\ IF op \in Available THEN Goto("handler") ELSE Reply("CommonNotFound")

\* The strict methods.  GET /me and logout insist on a principal; the
\* services end with a result or an error, a plain error as COMMON-500.
Handler(code) ==
    /\ pc = "handler"
    /\ IF op \in {"me", "logout"} /\ principal = "none"
       THEN Reply("AuthUnauthorized")
       ELSE /\ code \in Codes \ {"AuthForbidden"}
            /\ Reply(code)

-----------------------------------------------------------------------------
(* The answer's way out.                                                   *)

\* Mutant: Recover hands its callee net/http's writer, not the recorder.
UnrecordedWriteHeader(s) ==
    /\ committed' = TRUE
    /\ sentStatus' = IF committed \/ sentStatus # 0 THEN sentStatus ELSE s
    /\ UNCHANGED <<wroteHeader, status, sentBodies>>

\* recoverResponseWriter.WriteHeader, statusRecorder.WriteHeader, net/http.
WriteHeader(s) ==
    /\ committed' = TRUE
    /\ IF committed \/ wroteHeader
       THEN UNCHANGED <<wroteHeader, status, sentStatus>>
       ELSE /\ wroteHeader' = TRUE /\ status' = s
            /\ sentStatus' = IF sentStatus = 0 THEN s ELSE sentStatus
    /\ UNCHANGED sentBodies

\* Write, through both; net/http adds the status line if there is none, and
\* drops the body of an answer to HEAD.
Write(code) ==
    /\ committed' = TRUE
    /\ UNCHANGED <<wroteHeader, status>>
    /\ sentStatus' = IF sentStatus = 0 THEN 200 ELSE sentStatus
    /\ sentBodies' = IF broken \/ op = "head" THEN sentBodies ELSE Append(sentBodies, code)

SendHeader ==
    /\ pc = "header"
    /\ WriteHeader(HTTPStatus[out])
    /\ pc' = IF op = "head" /\ out = Success THEN "returned" ELSE "body"
    /\ UNCHANGED <<config, input, bodyRead, principal, out, broken, recovered, logged>>

SendBody ==
    /\ pc = "body"
    /\ Write(out)
    /\ pc' = "returned"
    /\ UNCHANGED <<config, input, bodyRead, principal, out, broken, recovered, logged>>

\* The connection is gone and the write fails.  A strict handler hands that
\* error to writeOpenAPIResponseError; everybody else only logs it.
SendBodyFails ==
    /\ pc = "body" /\ broken
    /\ Write(out)
    /\ IF op \in ApiOps /\ out = Success
       THEN out' = "CommonInternal" /\ pc' = "header"
       ELSE pc' = "returned" /\ UNCHANGED out
    /\ UNCHANGED <<config, input, bodyRead, principal, broken, recovered, logged>>

\* Anything under Recover may panic, before or while it answers.
Panic ==
    /\ pc \in {"route", "gate", "schema", "rules", "bind", "decode", "adapter", "handler",
               "header", "body"}
    /\ ~recovered
    /\ Goto("panicking")

\* Mutant: the error is written whatever has been written before.
RecoverAlwaysAnswers ==
    /\ pc = "panicking"
    /\ pc' = "header" /\ out' = "CommonInternal" /\ recovered' = TRUE
    /\ UNCHANGED <<config, input, bodyRead, principal, writer, broken, logged>>

\* The deferred function of Recover.
Recover ==
    /\ pc = "panicking"
    /\ IF committed
       THEN Goto("returned")
       ELSE /\ pc' = "header" /\ out' = "CommonInternal" /\ recovered' = TRUE
            /\ UNCHANGED <<config, input, bodyRead, principal, writer, broken, logged>>

\* "http request completed".
LogAccess ==
    /\ pc = "returned"
    /\ logged' = status
    /\ pc' = "done"
    /\ UNCHANGED <<config, input, bodyRead, principal, out, writer, broken, recovered>>

\* The client goes away.
Disconnect ==
    /\ pc \notin {"idle", "done"} /\ ~broken
    /\ broken' = TRUE
    /\ UNCHANGED <<config, input, pc, bodyRead, principal, out, writer, recovered, logged>>

-----------------------------------------------------------------------------
\* The steps of the request's goroutine that the code, not a fault, takes.
Step ==
    \/ RouteApi \/ RouteNotFound \/ GateNotFound
    \/ \E code \in Codes : RouteDocs(code) \/ Handler(code)
    \/ \E p \in Credential : SecurityPasses(p)
    \/ SecurityFails \/ SchemaFails \/ SchemaPasses \/ RulesFail \/ RulesError \/ RulesPass
    \/ BindFails \/ Bind \/ DecodeFails \/ Decode \/ Adapter
    \/ SendHeader \/ SendBody \/ SendBodyFails \/ Recover \/ LogAccess

Next ==
    \/ \E o \in ApiOps \cup {"docs", "unknown"}, c \in Credential, p, b \in Content :
         Receive(o, c, p, b)
    \/ Step \/ Panic \/ Disconnect

Spec == Init /\ [][Next]_vars

\* The goroutine of a request runs on; handlers and services return.
FairSpec == Spec /\ WF_vars(Step)

-----------------------------------------------------------------------------
TypeOK ==
    /\ database \in BOOLEAN /\ validateRequest \in BOOLEAN /\ docs \in BOOLEAN
    /\ op \in ApiOps \cup {"docs", "unknown"} /\ credential \in Credential
    /\ params \in Content /\ body \in Content
    /\ pc \in {"idle", "route", "gate", "schema", "rules", "bind", "decode", "adapter",
               "handler", "header", "body", "panicking", "returned", "done"}
    /\ bodyRead \in BOOLEAN /\ principal \in Credential /\ out \in Codes
    /\ committed \in BOOLEAN /\ wroteHeader \in BOOLEAN /\ status \in Nat
    /\ sentStatus \in Nat /\ sentBodies \in Seq(Codes)
    /\ broken \in BOOLEAN /\ recovered \in BOOLEAN /\ logged \in Nat

\* A client gets at most one body, and its code is the one the status line
\* stands for: no error is appended to an answer under way, neither by
\* Recover nor after a failed write (recover.go:51, openapi_routes.go:60).
OneAnswer ==
    /\ Len(sentBodies) <= 1
    /\ \A i \in DOMAIN sentBodies : sentStatus = HTTPStatus[sentBodies[i]]

\* Every request that ends was answered, and the access log has the status
\* the client was sent, after a panic too (request_id.go:64).
LoggedAsSent == pc = "done" => sentStatus # 0 /\ logged = sentStatus

\* Whatever is configured, the handler of a secured operation runs with a
\* principal, and an administrator's where the contract asks for one
\* (validator.go:111; the admin handlers themselves never look).
SecuredNeedsPrincipal ==
    pc = "handler" =>
        /\ op \in Secured => principal # "none"
        /\ op \in RequiresAdmin => principal = "admin"

\* What is wrong with a request is told only to those who may make it.
ContractAfterSecurity ==
    (out = "CommonValidation" /\ op \in Secured /\ Authenticating) =>
        principal \in (IF op \in RequiresAdmin THEN {"admin"} ELSE {"user", "admin"})

\* With validation on no handler sees a request that breaks the contract,
\* bar what follows a body no rule reads; with validation off it sees one
\* that decodes.
HandlerInputs ==
    pc = "handler" =>
        /\ {params, body} \subseteq Content \ {"undecodable"}
        /\ validateRequest => params = "ok" /\ body \in {"ok", "trailing"} /\ ~BodyUnloadable

\* A request without a fault is not turned away for one on its way to the
\* handler: the gate leaves the body for the strict handler to read
\* (validation_custom_rules.go:202).
NoFalseReject ==
    [][(pc \in {"gate", "schema", "rules", "bind", "decode"} /\ {params, body} = {"ok"}
          /\ ~broken) => out' # "CommonValidation"]_vars

\* A body that is not one JSON value is the client's mistake and is never
\* answered COMMON-500 on its way to the handler.  It is: json.Unmarshal in
\* loadBody refuses what the contract's decoder let pass, and Middleware
\* takes every error of the rules for an internal one (validator.go:123).
MalformedIsClientError ==
    [][(pc \in {"schema", "rules", "bind", "decode"} /\ body \in {"trailing", "undecodable"})
          => out' # "CommonInternal"]_vars
=============================================================================
