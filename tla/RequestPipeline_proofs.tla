----------------------- MODULE RequestPipeline_proofs -----------------------
(***************************************************************************)
(* The invariants of RequestPipeline.  The inductive invariant has four    *)
(* parts: the types, what the two response writers and net/http agree on,  *)
(* what the gate has established about the principal, and what it has      *)
(* established about the request.                                          *)
(***************************************************************************)
EXTENDS RequestPipeline, TLAPS

\* Before anything is answered.
Inbound == {"idle", "route", "gate", "schema", "rules", "bind", "decode", "adapter", "handler"}

\* Behind the security requirements.
BehindSecurity == {"schema", "rules", "bind", "decode", "adapter", "handler"}

\* Both recorders know exactly what the client was sent, nothing is sent on
\* the way in, and only a broken connection starts a second answer.
WriterInv ==
    /\ committed = wroteHeader
    /\ committed => sentStatus # 0 /\ status = sentStatus
    /\ ~committed => sentStatus = 0
    /\ pc \in Inbound => ~committed
    /\ pc = "header" => broken \/ ~committed
    /\ pc \in {"body", "returned", "done"} => committed
    /\ pc = "body" => broken \/ sentStatus = HTTPStatus[out]
    /\ pc \notin {"returned", "done"} => sentBodies = <<>>
    /\ sentBodies # <<>> => \E c \in Codes : sentBodies = <<c>> /\ sentStatus = HTTPStatus[c]
    /\ pc = "done" => logged = status

\* Who may use an operation.
Allowed == IF op \in RequiresAdmin THEN {"admin"} ELSE {"user", "admin"}

\* No step behind the security requirements is reached without the principal
\* they ask for, and nothing but success is decided before them.
SecurityInv ==
    /\ (pc \in BehindSecurity /\ op \in Secured /\ Authenticating) => principal \in Allowed
    /\ pc \in Inbound => out = Success
    /\ ContractAfterSecurity
    /\ pc = "handler" => op \in Available

\* What each step has established about the request for the next one.
InputInv ==
    /\ pc = "rules" => validateRequest /\ {params, body} \subseteq {"ok", "offRule", "trailing"}
    /\ (pc \in {"bind", "decode", "adapter", "handler"} /\ validateRequest)
         => params = "ok" /\ body \in {"ok", "trailing"} /\ ~BodyUnloadable
    /\ pc \in {"decode", "adapter", "handler"} => params # "undecodable"
    /\ pc \in {"adapter", "handler"} => body # "undecodable"
    /\ op \notin HasBody => body = "ok"
    /\ params # "trailing"
    /\ pc \in {"route", "gate", "schema", "rules", "bind", "decode"} => ~bodyRead

PipelineInv == TypeOK /\ WriterInv /\ SecurityInv /\ InputInv

\* Every code has a status, and no status is 0.
LEMMA CodeFacts ==
    /\ Success \in Codes /\ "CommonValidation" \in Codes /\ "CommonNotFound" \in Codes
    /\ "CommonInternal" \in Codes /\ "AuthUnauthorized" \in Codes /\ "AuthForbidden" \in Codes
    /\ \A c \in Codes : HTTPStatus[c] \in Nat /\ HTTPStatus[c] # 0
BY DEF Codes, HTTPStatus, Success

\* The types are inductive by themselves.
LEMMA TypeStep == TypeOK /\ [Next]_vars => TypeOK'
<1> SUFFICES ASSUME TypeOK, [Next]_vars
             PROVE  TypeOK'
  OBVIOUS
<1> USE CodeFacts DEF TypeOK, Content, Credential, config, input, writer
<1>1. ASSUME NEW o \in ApiOps \cup {"docs", "unknown"}, NEW c \in Credential,
            NEW p \in Content, NEW b \in Content, Receive(o, c, p, b)
     PROVE  TypeOK'
  <2>1. sentBodies' \in Seq(Codes)
    BY <1>1 DEF Receive
  <2>2. status' \in Nat /\ sentStatus' \in Nat /\ logged' \in Nat
    BY <1>1 DEF Receive
  <2> QED  BY ZenonT(60), <1>1, <2>1, <2>2 DEF Receive
<1>2. ASSUME NEW code \in Codes, RouteDocs(code) PROVE TypeOK'
  BY <1>2 DEF RouteDocs, Reply
<1>3. ASSUME NEW code \in Codes, Handler(code) PROVE TypeOK'
  BY <1>3 DEF Handler, Reply
<1>4. ASSUME NEW p \in Credential, SecurityPasses(p) PROVE TypeOK'
  BY <1>4 DEF SecurityPasses
<1>5. CASE RouteApi
  BY <1>5 DEF RouteApi, Goto, GateInstalled
<1>6. CASE RouteNotFound
  BY <1>6 DEF RouteNotFound, Reply
<1>7. CASE GateNotFound
  BY <1>7 DEF GateNotFound, Reply
<1>8. CASE SecurityFails
  BY <1>8 DEF SecurityFails, Reply
<1>9. CASE SchemaFails
  BY <1>9 DEF SchemaFails, Reply, BodyLost
<1>10. CASE SchemaPasses
  BY <1>10 DEF SchemaPasses, Goto
<1>11. CASE RulesFail
  BY <1>11 DEF RulesFail, Reply
<1>12. CASE RulesError
  BY <1>12 DEF RulesError, Reply, BodyUnloadable
<1>13. CASE RulesPass
  BY <1>13 DEF RulesPass, Goto, BodyUnloadable
<1>14. CASE BindFails
  BY <1>14 DEF BindFails, Reply
<1>15. CASE Bind
  BY <1>15 DEF Bind, Goto
<1>16. CASE DecodeFails
  BY <1>16 DEF DecodeFails, Reply, Decodable, BodyLost
<1>17. CASE Decode
  BY <1>17 DEF Decode, Decodable
<1>18. CASE Adapter
  BY <1>18 DEF Adapter, Goto, Reply
<1>19. CASE SendHeader
  <2>1. HTTPStatus[out] \in Nat
    OBVIOUS
  <2>2. status' \in Nat /\ sentStatus' \in Nat /\ committed' \in BOOLEAN /\ wroteHeader' \in BOOLEAN
    BY <1>19, <2>1 DEF SendHeader, WriteHeader
  <2>3. sentBodies' = sentBodies /\ pc' \in {"returned", "body"}
    BY <1>19 DEF SendHeader, WriteHeader
  <2> QED  BY <1>19, <2>2, <2>3 DEF SendHeader
<1>20. CASE SendBody
  BY <1>20 DEF SendBody, Write
<1>21. CASE SendBodyFails
  BY <1>21 DEF SendBodyFails, Write
<1>22. CASE Recover
  <2>1. CASE committed
    BY <1>22, <2>1 DEF Recover, Goto
  <2>2. CASE ~committed
    BY <1>22, <2>2 DEF Recover
  <2> QED  BY <2>1, <2>2
<1>23. CASE LogAccess
  BY <1>23 DEF LogAccess
<1>24. CASE Panic
  BY <1>24 DEF Panic, Goto
<1>25. CASE Disconnect
  BY <1>25 DEF Disconnect
<1>26. CASE UNCHANGED vars
  BY <1>26 DEF vars
<1> HIDE DEF TypeOK, Content, Credential, config, input, writer
<1> QED  BY <1>1, <1>2, <1>3, <1>4, <1>5, <1>6, <1>7, <1>8, <1>9, <1>10,
         <1>11, <1>12, <1>13, <1>14, <1>15, <1>16, <1>17, <1>18, <1>19, <1>20,
         <1>21, <1>22, <1>23, <1>24, <1>25, <1>26
         DEF Next, Step

\* What was sent is what the recorders say.
LEMMA WriterStep == TypeOK /\ WriterInv /\ [Next]_vars => WriterInv'
<1> SUFFICES ASSUME TypeOK /\ WriterInv, [Next]_vars
             PROVE  WriterInv'
  OBVIOUS
<1> USE CodeFacts DEF TypeOK, WriterInv, Inbound, config, input, writer
<1>1. ASSUME NEW o \in ApiOps \cup {"docs", "unknown"}, NEW c \in Credential,
            NEW p \in Content, NEW b \in Content, Receive(o, c, p, b)
     PROVE  WriterInv'
  BY <1>1 DEF Receive
<1>2. ASSUME NEW code \in Codes, RouteDocs(code) PROVE WriterInv'
  BY <1>2 DEF RouteDocs, Reply
<1>3. ASSUME NEW code \in Codes, Handler(code) PROVE WriterInv'
  BY <1>3 DEF Handler, Reply
<1>4. ASSUME NEW p \in Credential, SecurityPasses(p) PROVE WriterInv'
  BY <1>4 DEF SecurityPasses
<1>5. CASE RouteApi
  BY <1>5 DEF RouteApi, Goto, GateInstalled
<1>6. CASE RouteNotFound
  BY <1>6 DEF RouteNotFound, Reply
<1>7. CASE GateNotFound
  BY <1>7 DEF GateNotFound, Reply
<1>8. CASE SecurityFails
  BY <1>8 DEF SecurityFails, Reply
<1>9. CASE SchemaFails
  BY <1>9 DEF SchemaFails, Reply, BodyLost
<1>10. CASE SchemaPasses
  BY <1>10 DEF SchemaPasses, Goto
<1>11. CASE RulesFail
  BY <1>11 DEF RulesFail, Reply
<1>12. CASE RulesError
  BY <1>12 DEF RulesError, Reply, BodyUnloadable
<1>13. CASE RulesPass
  BY <1>13 DEF RulesPass, Goto, BodyUnloadable
<1>14. CASE BindFails
  BY <1>14 DEF BindFails, Reply
<1>15. CASE Bind
  BY <1>15 DEF Bind, Goto
<1>16. CASE DecodeFails
  BY <1>16 DEF DecodeFails, Reply, Decodable, BodyLost
<1>17. CASE Decode
  BY <1>17 DEF Decode, Decodable
<1>18. CASE Adapter
  BY <1>18 DEF Adapter, Goto, Reply
<1>19. CASE SendHeader
  BY <1>19 DEF SendHeader, WriteHeader
<1>20. CASE SendBody
  BY <1>20 DEF SendBody, Write
<1>21. CASE SendBodyFails
  BY <1>21 DEF SendBodyFails, Write
<1>22. CASE Recover
  BY <1>22 DEF Recover, Goto
<1>23. CASE LogAccess
  BY <1>23 DEF LogAccess
<1>24. CASE Panic
  BY <1>24 DEF Panic, Goto
<1>25. CASE Disconnect
  BY <1>25 DEF Disconnect
<1>26. CASE UNCHANGED vars
  BY <1>26 DEF vars
<1> HIDE DEF TypeOK, WriterInv, Inbound, config, input, writer
<1> QED  BY <1>1, <1>2, <1>3, <1>4, <1>5, <1>6, <1>7, <1>8, <1>9, <1>10,
         <1>11, <1>12, <1>13, <1>14, <1>15, <1>16, <1>17, <1>18, <1>19, <1>20,
         <1>21, <1>22, <1>23, <1>24, <1>25, <1>26
         DEF Next, Step

\* Nothing passes the gate without the principal it asks for.
LEMMA SecurityStep == TypeOK /\ SecurityInv /\ [Next]_vars => SecurityInv'
<1> SUFFICES ASSUME TypeOK /\ SecurityInv, [Next]_vars
             PROVE  SecurityInv'
  OBVIOUS
<1> USE  DEF TypeOK, SecurityInv, ContractAfterSecurity, Allowed,
         BehindSecurity, Inbound, Authenticating, Available, Secured,
         RequiresAdmin, Credential, Success, config, input, writer
<1>1. ASSUME NEW o \in ApiOps \cup {"docs", "unknown"}, NEW c \in Credential,
            NEW p \in Content, NEW b \in Content, Receive(o, c, p, b)
     PROVE  SecurityInv'
  BY <1>1 DEF Receive
<1>2. ASSUME NEW code \in Codes, RouteDocs(code) PROVE SecurityInv'
  BY <1>2 DEF RouteDocs, Reply
<1>3. ASSUME NEW code \in Codes, Handler(code) PROVE SecurityInv'
  BY <1>3 DEF Handler, Reply
<1>4. ASSUME NEW p \in Credential, SecurityPasses(p) PROVE SecurityInv'
  BY <1>4 DEF SecurityPasses
<1>5. CASE RouteApi
  BY <1>5 DEF RouteApi, Goto, GateInstalled
<1>6. CASE RouteNotFound
  BY <1>6 DEF RouteNotFound, Reply
<1>7. CASE GateNotFound
  BY <1>7 DEF GateNotFound, Reply
<1>8. CASE SecurityFails
  BY <1>8 DEF SecurityFails, Reply
<1>9. CASE SchemaFails
  BY <1>9 DEF SchemaFails, Reply, BodyLost
<1>10. CASE SchemaPasses
  BY <1>10 DEF SchemaPasses, Goto
<1>11. CASE RulesFail
  BY <1>11 DEF RulesFail, Reply
<1>12. CASE RulesError
  BY <1>12 DEF RulesError, Reply, BodyUnloadable
<1>13. CASE RulesPass
  BY <1>13 DEF RulesPass, Goto, BodyUnloadable
<1>14. CASE BindFails
  BY <1>14 DEF BindFails, Reply
<1>15. CASE Bind
  BY <1>15 DEF Bind, Goto
<1>16. CASE DecodeFails
  BY <1>16 DEF DecodeFails, Reply, Decodable, BodyLost
<1>17. CASE Decode
  BY <1>17 DEF Decode, Decodable
<1>18. CASE Adapter
  BY <1>18 DEF Adapter, Goto, Reply
<1>19. CASE SendHeader
  BY <1>19 DEF SendHeader, WriteHeader
<1>20. CASE SendBody
  BY <1>20 DEF SendBody, Write
<1>21. CASE SendBodyFails
  BY <1>21 DEF SendBodyFails, Write
<1>22. CASE Recover
  BY <1>22 DEF Recover, Goto
<1>23. CASE LogAccess
  BY <1>23 DEF LogAccess
<1>24. CASE Panic
  BY <1>24 DEF Panic, Goto
<1>25. CASE Disconnect
  BY <1>25 DEF Disconnect
<1>26. CASE UNCHANGED vars
  BY <1>26 DEF vars
<1> HIDE DEF TypeOK, SecurityInv, ContractAfterSecurity, Allowed,
         BehindSecurity, Inbound, Authenticating, Available, Secured,
         RequiresAdmin, Credential, Success, config, input, writer
<1> QED  BY <1>1, <1>2, <1>3, <1>4, <1>5, <1>6, <1>7, <1>8, <1>9, <1>10,
         <1>11, <1>12, <1>13, <1>14, <1>15, <1>16, <1>17, <1>18, <1>19, <1>20,
         <1>21, <1>22, <1>23, <1>24, <1>25, <1>26
         DEF Next, Step

\* What the gate and the decoders accept.
LEMMA InputStep == TypeOK /\ InputInv /\ [Next]_vars => InputInv'
<1> SUFFICES ASSUME TypeOK /\ InputInv, [Next]_vars
             PROVE  InputInv'
  OBVIOUS
<1> USE  DEF TypeOK, InputInv, Content, HasBody, HasBodyRules, BodyUnloadable,
         config, input, writer
<1>1. ASSUME NEW o \in ApiOps \cup {"docs", "unknown"}, NEW c \in Credential,
            NEW p \in Content, NEW b \in Content, Receive(o, c, p, b)
     PROVE  InputInv'
  BY <1>1 DEF Receive
<1>2. ASSUME NEW code \in Codes, RouteDocs(code) PROVE InputInv'
  BY <1>2 DEF RouteDocs, Reply
<1>3. ASSUME NEW code \in Codes, Handler(code) PROVE InputInv'
  BY <1>3 DEF Handler, Reply
<1>4. ASSUME NEW p \in Credential, SecurityPasses(p) PROVE InputInv'
  BY <1>4 DEF SecurityPasses
<1>5. CASE RouteApi
  BY <1>5 DEF RouteApi, Goto, GateInstalled
<1>6. CASE RouteNotFound
  BY <1>6 DEF RouteNotFound, Reply
<1>7. CASE GateNotFound
  BY <1>7 DEF GateNotFound, Reply
<1>8. CASE SecurityFails
  BY <1>8 DEF SecurityFails, Reply
<1>9. CASE SchemaFails
  BY <1>9 DEF SchemaFails, Reply, BodyLost
<1>10. CASE SchemaPasses
  BY <1>10 DEF SchemaPasses, Goto
<1>11. CASE RulesFail
  BY <1>11 DEF RulesFail, Reply
<1>12. CASE RulesError
  BY <1>12 DEF RulesError, Reply, BodyUnloadable
<1>13. CASE RulesPass
  BY <1>13 DEF RulesPass, Goto, BodyUnloadable
<1>14. CASE BindFails
  BY <1>14 DEF BindFails, Reply
<1>15. CASE Bind
  BY <1>15 DEF Bind, Goto
<1>16. CASE DecodeFails
  BY <1>16 DEF DecodeFails, Reply, Decodable, BodyLost
<1>17. CASE Decode
  BY <1>17 DEF Decode, Decodable
<1>18. CASE Adapter
  BY <1>18 DEF Adapter, Goto, Reply
<1>19. CASE SendHeader
  BY <1>19 DEF SendHeader, WriteHeader
<1>20. CASE SendBody
  BY <1>20 DEF SendBody, Write
<1>21. CASE SendBodyFails
  BY <1>21 DEF SendBodyFails, Write
<1>22. CASE Recover
  BY <1>22 DEF Recover, Goto
<1>23. CASE LogAccess
  BY <1>23 DEF LogAccess
<1>24. CASE Panic
  BY <1>24 DEF Panic, Goto
<1>25. CASE Disconnect
  BY <1>25 DEF Disconnect
<1>26. CASE UNCHANGED vars
  BY <1>26 DEF vars
<1> HIDE DEF TypeOK, InputInv, Content, HasBody, HasBodyRules, BodyUnloadable,
         config, input, writer
<1> QED  BY <1>1, <1>2, <1>3, <1>4, <1>5, <1>6, <1>7, <1>8, <1>9, <1>10,
         <1>11, <1>12, <1>13, <1>14, <1>15, <1>16, <1>17, <1>18, <1>19, <1>20,
         <1>21, <1>22, <1>23, <1>24, <1>25, <1>26
         DEF Next, Step

\* Nothing has been sent before the first request.
LEMMA PipelineInit == Init => PipelineInv
<1> SUFFICES ASSUME Init PROVE PipelineInv
  OBVIOUS
<1> USE CodeFacts DEF Init
<1>1. TypeOK
  <2>1. status \in Nat /\ sentStatus \in Nat /\ logged \in Nat /\ sentBodies \in Seq(Codes)
    OBVIOUS
  <2> QED  BY <2>1 DEF TypeOK, ApiOps, SystemOps, Credential, Content
<1>2. WriterInv
  BY DEF WriterInv, Inbound
<1>3. SecurityInv
  BY DEF SecurityInv, ContractAfterSecurity, BehindSecurity, Inbound, Success
<1>4. InputInv
  BY DEF InputInv
<1> QED  BY <1>1, <1>2, <1>3, <1>4 DEF PipelineInv

LEMMA PipelineAlways == Spec => []PipelineInv
<1>1. PipelineInv /\ [Next]_vars => PipelineInv'
  BY TypeStep, WriterStep, SecurityStep, InputStep DEF PipelineInv
<1> QED  BY PipelineInit, <1>1, PTL DEF Spec

\* TypeOK is an invariant: every answer has a code with an HTTP status.
THEOREM TypeCorrect == Spec => []TypeOK
BY PipelineAlways, PTL DEF PipelineInv

\* OneAnswer is an invariant: no client is sent two bodies, or a body that
\* contradicts its status line, wherever a panic or a broken connection
\* strikes.
THEOREM AnsweredOnce == Spec => []OneAnswer
<1>1. PipelineInv => OneAnswer
  BY DEF PipelineInv, TypeOK, WriterInv, OneAnswer
<1> QED  BY PipelineAlways, <1>1, PTL

\* LoggedAsSent is an invariant: the access log has the status that was sent.
THEOREM LogTellsTheTruth == Spec => []LoggedAsSent
<1>1. PipelineInv => LoggedAsSent
  BY DEF PipelineInv, WriterInv, LoggedAsSent
<1> QED  BY PipelineAlways, <1>1, PTL

\* SecuredNeedsPrincipal is an invariant: in every configuration the handler
\* of a secured operation runs for the principal the contract asks for.
THEOREM SecuredAlways == Spec => []SecuredNeedsPrincipal
<1>1. PipelineInv => SecuredNeedsPrincipal
  BY DEF PipelineInv, SecurityInv, SecuredNeedsPrincipal, Allowed, BehindSecurity,
         Authenticating, Available, SystemOps, Secured, RequiresAdmin
<1> QED  BY PipelineAlways, <1>1, PTL

\* ContractAfterSecurity is an invariant: COMMON-400 is for those who may use
\* the operation.
THEOREM SecurityFirst == Spec => []ContractAfterSecurity
BY PipelineAlways, PTL DEF PipelineInv, SecurityInv

\* HandlerInputs is an invariant: no handler sees what the gate, or with the
\* gate's validation off the decoders, should have refused.
THEOREM InputsChecked == Spec => []HandlerInputs
<1>1. PipelineInv => HandlerInputs
  BY DEF PipelineInv, TypeOK, InputInv, HandlerInputs, Content
<1> QED  BY PipelineAlways, <1>1, PTL

\* NoFalseReject is a property of every step: a faultless request gets past
\* the gate and the decoders, because nothing reads its body too early.
THEOREM FaultlessPasses == Spec => NoFalseReject
<1> DEFINE P == (pc \in {"gate", "schema", "rules", "bind", "decode"} /\ {params, body} = {"ok"}
                   /\ ~broken) => out' # "CommonValidation"
<1>1. PipelineInv /\ [Next]_vars => [P]_vars
  <2> SUFFICES ASSUME PipelineInv, Next,
                      pc \in {"gate", "schema", "rules", "bind", "decode"},
                      params = "ok", body = "ok", ~broken
               PROVE  out' # "CommonValidation"
    BY DEF vars
  <2>1. out = Success /\ Success # "CommonValidation" /\ ~bodyRead
    BY DEF PipelineInv, SecurityInv, InputInv, Inbound, Success
  <2>2. CASE out' = out
    BY <2>1, <2>2
  <2>3. CASE GateNotFound \/ SecurityFails \/ RulesError
    BY <2>3 DEF GateNotFound, SecurityFails, RulesError, Reply
  <2>4. ~SchemaFails /\ ~RulesFail /\ ~BindFails /\ ~DecodeFails
    BY <2>1 DEF SchemaFails, RulesFail, BindFails, DecodeFails, BodyLost, Decodable
  <2>5. ~Adapter /\ ~SendBodyFails /\ ~Recover /\ ~RouteNotFound
    BY DEF Adapter, SendBodyFails, Recover, RouteNotFound
  <2>6. \A code \in Codes : ~RouteDocs(code) /\ ~Handler(code)
    BY DEF RouteDocs, Handler
  <2>7. ASSUME NEW o \in ApiOps \cup {"docs", "unknown"}, NEW c \in Credential,
               NEW p \in Content, NEW b \in Content
        PROVE  ~Receive(o, c, p, b)
    BY DEF Receive
  <2>8. ASSUME RouteApi \/ SchemaPasses \/ RulesPass \/ Bind \/ Decode \/ SendHeader
                 \/ SendBody \/ LogAccess \/ Panic \/ Disconnect
        PROVE  out' = out
    BY <2>8 DEF RouteApi, SchemaPasses, RulesPass, Bind, Decode, SendHeader, SendBody,
                LogAccess, Panic, Disconnect, Goto
  <2>9. ASSUME NEW p \in Credential, SecurityPasses(p)
        PROVE  out' = out
    BY <2>9 DEF SecurityPasses
  <2> QED  BY <2>2, <2>3, <2>4, <2>5, <2>6, <2>7, <2>8, <2>9 DEF Next, Step
<1> QED  BY PipelineAlways, <1>1, PTL DEF Spec, NoFalseReject
=============================================================================
