-------------------------- MODULE AccessGate_proofs --------------------------
(***************************************************************************)
(* The invariants of AccessGate for every set of users and administrators, *)
(* any number of requests, and every lifetime and clock resolution.        *)
(***************************************************************************)
EXTENDS AccessGate, TLAPS

\* A request that passed the token check and has no answer yet.
Running == {"parsed", "authorized", "updating", "updated"}

\* What holds of the record q of a request, given the users table: who is in
\* flight is known and was observed; who is past the gate was enabled and has
\* the role; an answer has its cause.
GateFits(q) ==
    /\ q \in Request
    /\ q.pc # "done" => q.code = 0
    /\ q.pc \in Running =>
         /\ q.caller \in UserIds
         /\ q.at < q.iss + AccessTTL
         /\ users[q.caller].status = "ENABLED" => q.wasEnabled
         /\ users[q.caller].status # "ENABLED" => q.wasDisabled
    /\ q.pc \in {"authorized", "updating", "updated"} =>
         q.wasEnabled /\ (q.op # "read" => q.caller \in Admins)
    /\ q.pc \in {"updating", "updated"} => q.op = "patch"
    /\ q.pc = "updated" => q.target \in UserIds
    /\ q.code = 200 => q.wasEnabled /\ q.at < q.iss + AccessTTL
    /\ q.code = 401 => q.wasDisabled \/ q.at + TicksPerSecond > q.iss + AccessTTL
    /\ q.code = 403 => q.op # "read" /\ q.caller \notin Admins

\* exp is the second in which the lifetime ends, rounded down.
TokenInv == \A token \in minted : token.exp = Seconds(token.iss + AccessTTL)

\* The inductive invariant.
GateInv == TypeOK /\ TokenInv /\ \A r \in Requests : GateFits(req[r])

-----------------------------------------------------------------------------
\* Rounding down to seconds loses less than a second.
LEMMA SecondsFacts ==
    ASSUME NEW t \in Nat
    PROVE  /\ Seconds(t) \in Nat
           /\ Seconds(t) * TicksPerSecond <= t
           /\ t < Seconds(t) * TicksPerSecond + TicksPerSecond
<1>1. TicksPerSecond \in Nat \ {0}  BY GateAssumption
<1>2. PICK k \in Nat \ {0} : k = TicksPerSecond  BY <1>1
<1>3. t \div k \in Nat /\ (t \div k) * k <= t /\ t < (t \div k) * k + k
  BY <1>2
<1> QED  BY <1>2, <1>3 DEF Seconds

\* The record of an answered request keeps what its answer is about.
LEMMA AnsweredFits ==
    ASSUME GateInv, NEW r \in Requests, NEW code \in {200, 401, 403, 404, 500},
           code = 200 => req[r].pc \in {"authorized", "updating", "updated"},
           code = 401 => req[r].pc \in Running /\ users[req[r].caller].status # "ENABLED",
           code = 403 => req[r].op # "read" /\ req[r].caller \notin Admins
    PROVE  GateFits(Answered(req[r], code))
<1>1. req[r] \in Request /\ GateFits(req[r])  BY DEF GateInv, GateFits
<1>2. code \in Code  BY DEF Code
<1>3. CASE code = 500
  <2> DEFINE m == [IdleRequest EXCEPT !.pc = "done", !.code = code,
                                      !.status = "ENABLED", !.stamp = 0]
  <2>1. Answered(req[r], code) = m  BY <1>3 DEF Answered
  <2>2. m \in Request /\ m.pc = "done" /\ m.code = code
    BY ZenonT(60), <1>2 DEF IdleRequest, Request, UserStatus
  <2> HIDE DEF m
  <2> QED  BY <1>3, <2>1, <2>2 DEF GateFits, Running
<1>4. CASE code # 500
  <2> DEFINE m == [req[r] EXCEPT !.pc = "done", !.code = code,
                                 !.status = "ENABLED", !.stamp = 0]
  <2>1. Answered(req[r], code) = m  BY <1>4 DEF Answered
  <2>2. /\ m \in Request /\ m.pc = "done" /\ m.code = code
        /\ m.op = req[r].op /\ m.caller = req[r].caller
        /\ m.at = req[r].at /\ m.iss = req[r].iss
        /\ m.wasEnabled = req[r].wasEnabled /\ m.wasDisabled = req[r].wasDisabled
    BY ZenonT(60), <1>1, <1>2 DEF Request, UserStatus
  <2> HIDE DEF m
  <2> QED  BY <1>1, <1>4, <2>1, <2>2 DEF GateFits, Running
<1> QED  BY <1>3, <1>4

\* A step of one request that leaves the tables alone.
LEMMA GateLocal ==
    ASSUME GateInv, NEW r \in Requests, NEW n, GateFits(n),
           req' = [req EXCEPT ![r] = n], UNCHANGED <<users, minted, now>>
    PROVE  GateInv'
<1>1. n \in Request  BY DEF GateFits
<1>2. req' \in [Requests -> Request] /\ req'[r] = n /\ \A q \in Requests \ {r} : req'[q] = req[q]
  BY <1>1 DEF GateInv, TypeOK
<1>3. TypeOK'  BY <1>2 DEF GateInv, TypeOK
<1>4. TokenInv'  BY DEF GateInv, TokenInv
<1>5. ASSUME NEW q \in Requests PROVE GateFits(req[q])'
  <2>1. CASE q = r  BY <1>2, <2>1 DEF GateFits
  <2>2. CASE q # r  BY <1>2, <2>2 DEF GateInv, GateFits
  <2> QED  BY <2>1, <2>2
<1> QED  BY <1>3, <1>4, <1>5 DEF GateInv

\* ... and one that answers.
LEMMA GateAnswer ==
    ASSUME GateInv, NEW r \in Requests, NEW code \in {200, 401, 403, 404, 500},
           Answer(r, code), UNCHANGED <<users, minted, now>>,
           code = 200 => req[r].pc \in {"authorized", "updating", "updated"},
           code = 401 => req[r].pc \in Running /\ users[req[r].caller].status # "ENABLED",
           code = 403 => req[r].op # "read" /\ req[r].caller \notin Admins
    PROVE  GateInv'
<1>1. PICK m : m = Answered(req[r], code)  OBVIOUS
<1>2. GateFits(m)  BY <1>1, AnsweredFits
<1>3. req' = [req EXCEPT ![r] = m]  BY <1>1 DEF Answer
<1>4. GateInv /\ r \in Requests /\ UNCHANGED <<users, minted, now>>  OBVIOUS
<1> QED  BY ONLY ZenonT(60), <1>2, <1>3, <1>4, GateLocal

-----------------------------------------------------------------------------
\* Nobody is in flight and no token is out.
LEMMA GateInit == Init => GateInv
<1> SUFFICES ASSUME Init PROVE GateInv  OBVIOUS
<1>1. IdleRequest \in Request /\ IdleRequest.pc = "idle" /\ IdleRequest.code = 0
  BY DEF IdleRequest, Request, UserStatus, Code
<1>2. TypeOK
  BY <1>1, GateAssumption DEF Init, TypeOK
<1>3. TokenInv  BY DEF Init, TokenInv
<1>4. \A r \in Requests : GateFits(req[r])
  BY <1>1 DEF Init, GateFits, Running
<1> QED  BY <1>2, <1>3, <1>4 DEF GateInv

\* A request arrives: it is admitted to the gate within the token's lifetime,
\* or refused less than a second before its end at the earliest.
LEMMA AuthenticateStep ==
    ASSUME GateInv, NEW r \in Requests, NEW token \in minted,
           NEW op \in {"read", "list", "patch"}, NEW target \in UserIds \cup {None},
           NEW status \in UserStatus, Authenticate(r, token, op, target, status)
    PROVE  GateInv'
<1> DEFINE q == Arrived(token, op, target, status)
           m == IF Expired(token) THEN Answered(q, 401) ELSE q
<1>1. token \in AccessToken /\ now \in Nat /\ token.sub \in UserIds
      /\ users[token.sub].status \in UserStatus
  BY DEF GateInv, TypeOK, AccessToken
<1>2. token.iss \in Nat /\ token.exp = Seconds(token.iss + AccessTTL)
  BY <1>1 DEF GateInv, TokenInv, AccessToken
<1>3. AccessTTL \in Nat /\ TicksPerSecond \in Nat  BY GateAssumption
<1>4. /\ token.exp \in Nat
      /\ token.exp * TicksPerSecond <= token.iss + AccessTTL
      /\ token.iss + AccessTTL < token.exp * TicksPerSecond + TicksPerSecond
  BY <1>2, <1>3, SecondsFacts
<1>5. IdleRequest \in Request  BY DEF IdleRequest, Request, UserStatus, Code
<1>6. /\ q \in Request /\ q.pc = "parsed" /\ q.code = 0
      /\ q.caller = token.sub /\ q.iss = token.iss /\ q.at = now
      /\ users[token.sub].status = "ENABLED" => q.wasEnabled
      /\ users[token.sub].status # "ENABLED" => q.wasDisabled
  <2> DEFINE e == users[token.sub].status = "ENABLED"
             d == users[token.sub].status = "DISABLED"
  <2>1. q = [IdleRequest EXCEPT
               !.pc = "parsed", !.op = op, !.caller = token.sub, !.iss = token.iss,
               !.at = now, !.target = target, !.status = status,
               !.wasEnabled = e, !.wasDisabled = d]
    BY Zenon DEF Arrived
  <2>2. e \in BOOLEAN /\ d \in BOOLEAN /\ (~e => d)
    BY <1>1 DEF UserStatus
  <2>3. IdleRequest.code = 0  BY DEF IdleRequest
  <2> HIDE DEF e, d, q
  <2>4. q \in Request
    BY ZenonT(60), <1>1, <1>2, <1>5, <2>1, <2>2 DEF Request
  <2>5. /\ q.pc = "parsed" /\ q.code = 0
        /\ q.caller = token.sub /\ q.iss = token.iss /\ q.at = now
    BY <1>5, <2>1, <2>3 DEF Request
  <2>6. q.wasEnabled = e /\ q.wasDisabled = d
    BY <1>5, <2>1 DEF Request
  <2> QED  BY <2>2, <2>4, <2>5, <2>6 DEF e
<1> HIDE DEF q
<1>7. ASSUME ~Expired(token) PROVE GateFits(m)
  <2>1. m = q  BY <1>7
  <2>2. token.exp * TicksPerSecond > now  BY <1>7 DEF Expired
  <2>3. now < token.iss + AccessTTL
    <3>1. PICK x \in Nat : x = token.exp * TicksPerSecond  BY <1>3, <1>4
    <3> QED  BY <1>1, <1>2, <1>3, <1>4, <2>2, <3>1
  <2> HIDE DEF m
  <2> QED  BY <1>1, <1>6, <2>1, <2>3 DEF GateFits, Running, UserStatus
<1>8. ASSUME Expired(token) PROVE GateFits(m)
  <2>1. m = [q EXCEPT !.pc = "done", !.code = 401, !.status = "ENABLED", !.stamp = 0]
    BY <1>8 DEF Answered
  <2>2. now + TicksPerSecond > token.iss + AccessTTL
    <3>1. PICK x \in Nat : x = token.exp * TicksPerSecond  BY <1>3, <1>4
    <3>2. x <= now  BY <1>1, <1>8, <3>1 DEF Expired
    <3> QED  BY <1>1, <1>2, <1>3, <1>4, <3>1, <3>2
  <2>3. 401 \in Code  BY DEF Code
  <2> HIDE DEF m
  <2>4. m \in Request /\ m.pc = "done" /\ m.code = 401 /\ m.at = q.at /\ m.iss = q.iss
    <3>1. q \in Request /\ "ENABLED" \in UserStatus  BY <1>6 DEF UserStatus
    <3>2. PICK c \in Code : c = 401  BY <2>3
    <3>3. m = [q EXCEPT !.pc = "done", !.code = c, !.status = "ENABLED", !.stamp = 0]
      BY <2>1, <3>2, Zenon
    <3>4. m \in Request  BY <3>1, <3>3 DEF Request
    <3>5. m.pc = "done" /\ m.code = c /\ m.at = q.at /\ m.iss = q.iss
      BY <3>1, <3>3 DEF Request
    <3> QED  BY <3>2, <3>4, <3>5
  <2> QED  BY <1>6, <2>2, <2>4 DEF GateFits, Running
<1>9. GateFits(m)  BY <1>7, <1>8
<1>10. req' = [req EXCEPT ![r] = m] /\ UNCHANGED <<users, minted, now>>
  BY DEF Authenticate, q
<1> HIDE DEF m
<1>11. PICK n : n = m  OBVIOUS
<1>12. GateFits(n) /\ req' = [req EXCEPT ![r] = n]  BY <1>9, <1>10, <1>11
<1>13. GateInv /\ r \in Requests /\ UNCHANGED <<users, minted, now>>  BY <1>10
<1> QED  BY ONLY <1>12, <1>13, GateLocal

\* A request that takes the next step of its handler.
LEMMA PcStep ==
    ASSUME GateInv, NEW r \in Requests, NEW p \in {"authorized", "updating", "updated"},
           NEW stamp \in Nat,
           req' = [req EXCEPT ![r] = [req[r] EXCEPT !.pc = p, !.stamp = stamp]],
           UNCHANGED <<users, minted, now>>,
           req[r].pc \in Running, req[r].wasEnabled,
           req[r].op # "read" => req[r].caller \in Admins,
           p # "authorized" => req[r].op = "patch",
           p = "updated" => req[r].target \in UserIds
    PROVE  GateInv'
<1>1. PICK n : n = [req[r] EXCEPT !.pc = p, !.stamp = stamp]  OBVIOUS
<1>2. req[r] \in Request /\ GateFits(req[r])  BY DEF GateInv, GateFits
<1>3. n \in Request  BY <1>1, <1>2 DEF Request
<1>4. /\ n.pc = p /\ n.code = req[r].code /\ n.op = req[r].op
      /\ n.caller = req[r].caller /\ n.target = req[r].target
      /\ n.at = req[r].at /\ n.iss = req[r].iss
      /\ n.wasEnabled = req[r].wasEnabled /\ n.wasDisabled = req[r].wasDisabled
  BY <1>1, <1>2 DEF Request
<1>5. GateFits(n)
  BY <1>2, <1>3, <1>4 DEF GateFits, Running
<1>6. GateInv /\ r \in Requests /\ UNCHANGED <<users, minted, now>>  OBVIOUS
<1>7. req' = [req EXCEPT ![r] = n]  BY <1>1
<1> QED  BY ONLY <1>5, <1>6, <1>7, GateLocal

\* The commit of a status change is observed by every request of its target.
LEMMA StatusCommit ==
    ASSUME GateInv, NEW r \in Requests, NEW code \in {200, 500}, UpdateStatusCommit(r, code)
    PROVE  GateInv'
<1> DEFINE u == req[r].target
           row == [status |-> req[r].status, updated |-> req[r].stamp]
<1>1. req[r] \in Request /\ GateFits(req[r]) /\ req[r].pc = "updated"
  BY DEF GateInv, GateFits, UpdateStatusCommit
<1>2. u \in UserIds /\ req[r].status \in UserStatus /\ req[r].stamp \in Nat
  BY <1>1 DEF GateFits, Request
<1>3. users \in [UserIds -> [status: UserStatus, updated: Nat]]
  BY DEF GateInv, TypeOK
<1>4. row \in [status: UserStatus, updated: Nat] /\ row.status = req[r].status
  BY <1>2
<1>5. users' = [users EXCEPT ![u] = row] /\ UNCHANGED <<minted, now>>
  BY DEF UpdateStatusCommit
<1> HIDE DEF row
<1>6. /\ users' \in [UserIds -> [status: UserStatus, updated: Nat]]
      /\ users'[u].status = req[r].status
      /\ \A v \in UserIds \ {u} : users'[v] = users[v]
  BY <1>2, <1>3, <1>4, <1>5
<1>7. req' = [q \in Requests |->
                IF q = r THEN Answered(req[r], code)
                ELSE Observe(req[q], req[r].target, req[r].status)]
  BY DEF UpdateStatusCommit
<1>8. ASSUME NEW q \in Requests PROVE req'[q] \in Request /\ GateFits(req[q])'
  <2>1. CASE q = r
    <3>1. PICK m : m = Answered(req[r], code)  OBVIOUS
    <3>2. GateFits(m)
      BY <1>1, <3>1, AnsweredFits
    <3>3. m.pc = "done"
      <4>1. IdleRequest \in Request  BY DEF IdleRequest, Request, UserStatus, Code
      <4> DEFINE w == IF code = 500 THEN IdleRequest ELSE req[r]
      <4>2. w \in Request  BY <1>1, <4>1
      <4>3. m = [w EXCEPT !.pc = "done", !.code = code, !.status = "ENABLED", !.stamp = 0]
        BY <3>1 DEF Answered
      <4> HIDE DEF w
      <4> QED  BY <4>2, <4>3 DEF Request
    <3>4. req'[q] = m  BY <1>7, <2>1, <3>1
    <3> QED  BY <3>2, <3>3, <3>4 DEF GateFits, Running
  <2>2. CASE q # r
    <3>1. req'[q] = Observe(req[q], u, req[r].status)  BY <1>7, <2>2
    <3>2. req[q] \in Request /\ GateFits(req[q])  BY DEF GateInv, GateFits
    <3>3. CASE req[q].caller = u /\ req[q].pc \notin {"idle", "done"}
      <4> DEFINE e == req[q].wasEnabled \/ req[r].status = "ENABLED"
                 d == req[q].wasDisabled \/ req[r].status = "DISABLED"
      <4>1. e \in BOOLEAN /\ d \in BOOLEAN  OBVIOUS
      <4>2. req'[q] = [req[q] EXCEPT !.wasEnabled = e, !.wasDisabled = d]
        BY <3>1, <3>2, <3>3 DEF Observe, Request
      <4>3. /\ req[q].wasEnabled => e
            /\ req[q].wasDisabled => d
            /\ users'[u].status = "ENABLED" => e
            /\ users'[u].status # "ENABLED" => d
        BY <1>2, <1>6 DEF UserStatus
      <4> HIDE DEF e, d
      <4>4. req'[q] \in Request
        <5> DEFINE w == [req[q] EXCEPT !.wasEnabled = e]
        <5>1. w \in Request  BY <3>2, <4>1 DEF Request
        <5>2. req'[q] = [w EXCEPT !.wasDisabled = d]  BY <4>2
        <5> HIDE DEF w
        <5> QED  BY <4>1, <5>1, <5>2 DEF Request
      <4>5. /\ req'[q].pc = req[q].pc /\ req'[q].code = req[q].code
            /\ req'[q].op = req[q].op /\ req'[q].caller = req[q].caller
            /\ req'[q].target = req[q].target
            /\ req'[q].at = req[q].at /\ req'[q].iss = req[q].iss
            /\ req'[q].wasEnabled = e /\ req'[q].wasDisabled = d
        BY <3>2, <4>2 DEF Request
      <4> QED  BY <3>2, <3>3, <4>3, <4>4, <4>5 DEF GateFits, Running
    <3>4. CASE ~(req[q].caller = u /\ req[q].pc \notin {"idle", "done"})
      <4>1. req'[q] = req[q]  BY <3>1, <3>4 DEF Observe
      <4> QED  BY <1>6, <3>2, <3>4, <4>1 DEF GateFits, Running
    <3> QED  BY <3>3, <3>4
  <2> QED  BY <2>1, <2>2
<1>9. TypeOK'
  BY <1>5, <1>6, <1>7, <1>8 DEF GateInv, TypeOK
<1>10. TokenInv'  BY <1>5 DEF GateInv, TokenInv
<1> QED  BY <1>8, <1>9, <1>10 DEF GateInv

\* Every step of the system preserves the invariant.
LEMMA GateStep == GateInv /\ [Next]_vars => GateInv'
<1> SUFFICES ASSUME GateInv, [Next]_vars PROVE GateInv'  OBVIOUS
<1>1. ASSUME NEW r \in Requests, LoadPrincipal(r) PROVE GateInv'
  <2>1. req[r] \in Request /\ GateFits(req[r])  BY DEF GateInv, GateFits
  <2>2. req' = [req EXCEPT ![r] = [req[r] EXCEPT !.pc = "authorized", !.stamp = req[r].stamp]]
    BY <1>1, <2>1 DEF LoadPrincipal, GateInv, TypeOK, Request
  <2>3. /\ req[r].pc \in Running /\ req[r].wasEnabled /\ req[r].stamp \in Nat
        /\ req[r].op # "read" => req[r].caller \in Admins
        /\ UNCHANGED <<users, minted, now>>
    BY <1>1, <2>1 DEF LoadPrincipal, Forbidden, GateFits, Running, Request
  <2>4. PICK stamp \in Nat : stamp = req[r].stamp  BY <2>3
  <2> QED  BY <2>2, <2>3, <2>4, PcStep
<1>2. ASSUME NEW r \in Requests, LoadPrincipalUnauthorized(r) PROVE GateInv'
  BY <1>2, GateAnswer DEF LoadPrincipalUnauthorized, Running
<1>3. ASSUME NEW r \in Requests, RoleGateForbids(r) PROVE GateInv'
  BY <1>3, GateAnswer DEF RoleGateForbids, Forbidden
<1>4. ASSUME NEW r \in Requests, ReadHandler(r) PROVE GateInv'
  BY <1>4, GateAnswer DEF ReadHandler
<1>5. ASSUME NEW r \in Requests, UpdateStatusBegin(r) PROVE GateInv'
  <2>1. req[r] \in Request /\ GateFits(req[r]) /\ now \in Nat
    BY DEF GateInv, GateFits, TypeOK
  <2>2. PICK stamp \in Nat : stamp = Seconds(now)  BY <2>1, SecondsFacts
  <2>3. req' = [req EXCEPT ![r] = [req[r] EXCEPT !.pc = "updating", !.stamp = stamp]]
    BY <1>5, <2>1, <2>2 DEF UpdateStatusBegin, GateInv, TypeOK, Request
  <2>4. /\ req[r].pc \in Running /\ req[r].wasEnabled /\ req[r].op = "patch"
        /\ req[r].op # "read" => req[r].caller \in Admins
        /\ UNCHANGED <<users, minted, now>>
    BY <1>5, <2>1 DEF UpdateStatusBegin, GateFits, Running
  <2> QED  BY <2>3, <2>4, PcStep
<1>6. ASSUME NEW r \in Requests, UpdateStatus(r) PROVE GateInv'
  <2>1. req[r] \in Request /\ GateFits(req[r])  BY DEF GateInv, GateFits
  <2>2. PICK stamp \in Nat : stamp = req[r].stamp  BY <2>1 DEF Request
  <2>3. req' = [req EXCEPT ![r] = [req[r] EXCEPT !.pc = "updated", !.stamp = stamp]]
    BY <1>6, <2>1, <2>2 DEF UpdateStatus, GateInv, TypeOK, Request
  <2>4. /\ req[r].pc \in Running /\ req[r].wasEnabled /\ req[r].op = "patch"
        /\ req[r].op # "read" => req[r].caller \in Admins
        /\ UNCHANGED <<users, minted, now>>
    BY <1>6, <2>1 DEF UpdateStatus, GateFits, Running
  <2>5. req[r].target \in UserIds
    BY <1>6 DEF UpdateStatus, RowsAffected
  <2> QED  BY <2>3, <2>4, <2>5, PcStep
<1>7. ASSUME NEW r \in Requests, UpdateStatusNotFound(r) PROVE GateInv'
  BY <1>7, GateAnswer DEF UpdateStatusNotFound
<1>8. ASSUME NEW r \in Requests, Abort(r) PROVE GateInv'
  BY <1>8, GateAnswer DEF Abort
<1>9. ASSUME NEW u \in UserIds, IssueAccessToken(u) PROVE GateInv'
  <2> DEFINE token == [sub |-> u, exp |-> Seconds(now + AccessTTL), iss |-> now]
  <2>1. now \in Nat /\ now + AccessTTL \in Nat  BY GateAssumption DEF GateInv, TypeOK
  <2>2. token \in AccessToken /\ token.exp = Seconds(token.iss + AccessTTL)
    BY <2>1, SecondsFacts DEF AccessToken
  <2>3. minted' = minted \cup {token} /\ UNCHANGED <<users, req, now>>
    BY <1>9 DEF IssueAccessToken
  <2> HIDE DEF token
  <2>4. TypeOK'  BY <2>2, <2>3 DEF GateInv, TypeOK
  <2>5. TokenInv'  BY <2>2, <2>3 DEF GateInv, TokenInv, Seconds
  <2>6. \A r \in Requests : GateFits(req[r])'  BY <2>3 DEF GateInv, GateFits
  <2> QED  BY <2>4, <2>5, <2>6 DEF GateInv
<1>10. CASE Tick
  <2>1. TypeOK'  BY <1>10 DEF Tick, GateInv, TypeOK
  <2>2. TokenInv'  BY <1>10 DEF Tick, GateInv, TokenInv
  <2>3. \A r \in Requests : GateFits(req[r])'  BY <1>10 DEF Tick, GateInv, GateFits
  <2> QED  BY <2>1, <2>2, <2>3 DEF GateInv
<1>11. CASE UNCHANGED vars
  <2>1. TypeOK'  BY <1>11 DEF vars, GateInv, TypeOK
  <2>2. TokenInv'  BY <1>11 DEF vars, GateInv, TokenInv
  <2>3. \A r \in Requests : GateFits(req[r])'  BY <1>11 DEF vars, GateInv, GateFits
  <2> QED  BY <2>1, <2>2, <2>3 DEF GateInv
<1>12. ASSUME NEW r \in Requests, Arrive(r) PROVE GateInv'
  BY <1>12, AuthenticateStep, GateAssumption DEF Arrive, UserStatus
<1>13. ASSUME NEW r \in Requests, Advance(r) PROVE GateInv'
  BY <1>1, <1>2, <1>3, <1>4, <1>5, <1>6, <1>7, <1>13, StatusCommit DEF Advance
<1> QED  BY <1>8, <1>9, <1>10, <1>11, <1>12, <1>13 DEF Next

-----------------------------------------------------------------------------
\* The rows, the tokens and the requests keep their types.
THEOREM GateTypes == Spec => []TypeOK
<1>1. GateInv => TypeOK  BY DEF GateInv
<1> QED  BY <1>1, GateInit, GateStep, PTL DEF Spec

\* A protected handler runs only for somebody who was enabled during the
\* request, however many administrators change statuses meanwhile.
THEOREM AdmissionEnabled == Spec => []AdmittedOnlyIfEnabled
<1>1. GateInv => AdmittedOnlyIfEnabled
  BY DEF GateInv, GateFits, AdmittedOnlyIfEnabled, Admitted
<1> QED  BY <1>1, GateInit, GateStep, PTL DEF Spec

\* No token is accepted after its lifetime, for every lifetime and every
\* resolution of the clock.
THEOREM AdmissionInTime == Spec => []AdmittedWithinLifetime
<1>1. GateInv => AdmittedWithinLifetime
  BY DEF GateInv, GateFits, AdmittedWithinLifetime, Admitted, Running
<1> QED  BY <1>1, GateInit, GateStep, PTL DEF Spec

\* AUTH-401 and AUTH-403 always have a cause.
THEOREM RefusalCause == Spec => []RefusedOnlyForCause
<1>1. GateInv => RefusedOnlyForCause
  BY DEF GateInv, GateFits, RefusedOnlyForCause
<1> QED  BY <1>1, GateInit, GateStep, PTL DEF Spec

\* What a step does to the users table.
LEMMA StatusStep ==
    ASSUME GateInv, Next, NEW u \in UserIds, users'[u] # users[u]
    PROVE  \E r \in Requests :
             /\ req[r].pc = "updated" /\ req'[r].pc = "done"
             /\ req[r].target = u
             /\ req[r].caller \in Admins /\ req[r].wasEnabled
<1>1. PICK r \in Requests, code \in {200, 500} : UpdateStatusCommit(r, code)
  <2>1. users' # users  OBVIOUS
  <2>2. ~Tick /\ \A v \in UserIds : ~IssueAccessToken(v)
    BY <2>1 DEF Tick, IssueAccessToken
  <2>3. \A r \in Requests : ~Arrive(r) /\ ~Abort(r)
    BY <2>1 DEF Arrive, Authenticate, Abort
  <2>4. PICK r \in Requests : Advance(r)  BY <2>2, <2>3 DEF Next
  <2>5. \E code \in {200, 500} : UpdateStatusCommit(r, code)
    BY <2>1, <2>4 DEF Advance, LoadPrincipal, LoadPrincipalUnauthorized,
         RoleGateForbids, ReadHandler, UpdateStatusBegin, UpdateStatus, UpdateStatusNotFound
  <2> QED  BY <2>5
<1>2. req[r] \in Request /\ GateFits(req[r]) /\ req[r].pc = "updated"
  BY <1>1 DEF GateInv, GateFits, UpdateStatusCommit
<1>3. req[r].caller \in Admins /\ req[r].wasEnabled  BY <1>2 DEF GateFits
<1>4. req[r].target = u
  BY <1>1 DEF UpdateStatusCommit, GateInv, TypeOK
<1>5. req'[r].pc = "done"
  <2> DEFINE w == IF code = 500 THEN IdleRequest ELSE req[r]
  <2>1. IdleRequest \in Request  BY DEF IdleRequest, Request, UserStatus, Code
  <2>2. w \in Request  BY <1>2, <2>1
  <2>3. req'[r] = [w EXCEPT !.pc = "done", !.code = code, !.status = "ENABLED", !.stamp = 0]
    BY <1>1 DEF UpdateStatusCommit, Answered
  <2> HIDE DEF w
  <2> QED  BY <2>2, <2>3 DEF Request
<1> QED  BY <1>2, <1>3, <1>4, <1>5

\* Only a request of an administrator, enabled since it arrived, changes a row
\* of users, and only the row it names.
THEOREM AdminsOnly == Spec => StatusChangedByAdminsOnly
<1>1. GateInv /\ [Next]_vars =>
        [\A u \in UserIds : users'[u] # users[u] =>
           \E r \in Requests :
             /\ req[r].pc = "updated" /\ req'[r].pc = "done"
             /\ req[r].target = u
             /\ req[r].caller \in Admins /\ req[r].wasEnabled]_users
  <2> SUFFICES ASSUME GateInv, [Next]_vars, users' # users,
                      NEW u \in UserIds, users'[u] # users[u]
               PROVE  \E r \in Requests :
                        /\ req[r].pc = "updated" /\ req'[r].pc = "done"
                        /\ req[r].target = u
                        /\ req[r].caller \in Admins /\ req[r].wasEnabled
    OBVIOUS
  <2>1. Next  BY DEF vars
  <2> QED  BY <2>1, StatusStep
<1> QED  BY <1>1, GateInit, GateStep, PTL DEF Spec, StatusChangedByAdminsOnly
=============================================================================
