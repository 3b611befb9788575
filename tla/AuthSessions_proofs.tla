------------------------ MODULE AuthSessions_proofs ------------------------
(***************************************************************************)
(* Theorems about AuthSessions, for every set of users, sessions, tokens   *)
(* and concurrent requests and for both isolation levels.                  *)
(***************************************************************************)
EXTENDS AuthSessions, FiniteSetTheorems, TLAPS

USE NoneAssumption, TimeAssumption, IsolationAssumption

-----------------------------------------------------------------------------
(***************************************************************************)
(* Types                                                                   *)
(***************************************************************************)
\* Rounding an instant to whole seconds gives an instant (the expiry MySQL
\* stores in refresh_expires_at).
LEMMA RoundType == ASSUME NEW t \in Nat PROVE RoundToSecond(t) \in Nat
<1> DEFINE a == 2 * t + TicksPerSecond
           b == 2 * TicksPerSecond
<1>1. a \in Nat /\ b \in Nat /\ b > 0
  OBVIOUS
<1> HIDE DEF a, b
<1>2. a \div b \in Nat
  BY <1>1
<1> DEFINE q == a \div b
<1>3. q \in Nat
  BY <1>2
<1> HIDE DEF q
<1>4. q * TicksPerSecond \in Nat
  BY <1>3
<1>5. QED
  BY <1>4 DEF RoundToSecond, a, b, q

\* A hash determines its token: looking up a hash is looking up the token.
LEMMA HashInjective == \A t, u : Hash(t) = Hash(u) => t = u
<1> SUFFICES ASSUME NEW t, NEW u, Hash(t) = Hash(u) PROVE t = u
  OBVIOUS
<1>1. Hash(t).sha256 = t /\ Hash(u).sha256 = u
  BY DEF Hash
<1>2. QED
  BY <1>1

HasUser == {"loginChecked", "loginInserted", "refreshFound", "refreshChecked",
            "refreshRotated", "statusStarted", "statusUpdated"}
HasSession == {"loginInserted", "refreshFound", "refreshChecked", "refreshRotated"}
HasFound == {"refreshFound", "refreshChecked", "refreshRotated"}
HasWritten == {"loginInserted", "refreshRotated"}

\* Which fields of a request are filled in at which step.
StepOK(q) ==
    /\ q.pc \in HasUser => q.user \in UserIds
    /\ q.pc \in HasSession => q.sid \in SessionIds
    /\ q.pc \in HasFound => q.old \in Tokens
    /\ q.pc \in HasWritten => q.new \in Tokens
    /\ q.pc \notin HasWritten => q.new = None

StepInv == \A r \in Requests : StepOK(req[r])

\* A row that exists has an owner and the hash of a token, no other has one.
RowInv ==
    \A s \in SessionIds :
        /\ Exists(s) => sessions[s].user \in UserIds /\ \E t \in Tokens : sessions[s].hash = Hash(t)
        /\ ~Exists(s) => sessions[s].hash = Hash(None)

\* The row a refresh has found stays where it is.
FoundInv == \A r \in Requests : req[r].pc \in HasFound => Exists(req[r].sid)

TypeInv == TypeOK /\ StepInv /\ RowInv /\ FoundInv

\* issuedAt is an instant that is over when the INSERT is executed.
LEMMA IssuedAt ==
    ASSUME now \in Nat, req \in [Requests -> Request],
           NEW r \in Requests, NEW s \in SessionIds, NEW t \in Tokens, LoginInsert(r, s, t)
    PROVE  \E at \in Nat :
             /\ at <= now
             /\ Goto(r, [req[r] EXCEPT !.pc = "loginInserted", !.sid = s, !.new = t, !.at = at])
<1>1. req[r].at \in Nat
  BY DEF Request
<1>2. PICK at \in req[r].at..now :
        Goto(r, [req[r] EXCEPT !.pc = "loginInserted", !.sid = s, !.new = t, !.at = at])
  BY DEF LoginInsert
<1>3. at \in Nat /\ at <= now
  BY <1>1, <1>2
<1>4. QED
  BY <1>2, <1>3

\* What a step of one request does to the requests.
LEMMA GotoReq ==
    ASSUME TypeOK, NEW r \in Requests, NEW q \in Request, Goto(r, q)
    PROVE  /\ req' \in [Requests -> Request]
           /\ req'[r] = q
           /\ \A p \in Requests : p # r => req'[p] = req[p]
BY DEF TypeOK, Goto

LEMMA GotoStepInv ==
    ASSUME TypeOK, StepInv, NEW r \in Requests, NEW q \in Request, StepOK(q), Goto(r, q)
    PROVE  StepInv'
<1>1. \A p \in Requests : req'[p] = q \/ req'[p] = req[p]
  BY GotoReq
<1>2. QED
  BY <1>1 DEF StepInv, StepOK

LEMMA IdleType == IdleRequest \in Request /\ StepOK(IdleRequest)
BY DEF IdleRequest, Request, Step, AnyToken, UserStatus, StepOK,
       HasUser, HasSession, HasFound, HasWritten

LEMMA FinishType ==
    ASSUME TypeOK, StepInv, NEW r \in Requests, Finish(r)
    PROVE  /\ req' \in [Requests -> Request]
           /\ enabledIn' \in [Requests -> SUBSET UserIds]
           /\ StepInv'
<1>1. Goto(r, IdleRequest)
  BY DEF Finish
<1>2. req' \in [Requests -> Request] /\ StepInv'
  BY <1>1, IdleType, GotoReq, GotoStepInv
<1>3. QED
  BY <1>2 DEF Finish, TypeOK

\* What ConditionalRotate leaves of the row and what it replaces.
LEMMA RotatedRowFacts ==
    ASSUME TypeOK, NEW r \in Requests, req[r].sid \in SessionIds, req[r].new \in Tokens
    PROVE  /\ RotatedRow(r) \in SessionRow
           /\ RotatedRow(r).user = sessions[req[r].sid].user
           /\ RotatedRow(r).status = sessions[req[r].sid].status
           /\ RotatedRow(r).hash = Hash(req[r].new)
           /\ RotatedRow(r).expires = RoundToSecond(req[r].at + RefreshTTL)
           /\ RotatedRow(r).version = sessions[req[r].sid].version + 1
<1> DEFINE row == sessions[req[r].sid]
           exp == RoundToSecond(req[r].at + RefreshTTL)
           h == Hash(req[r].new)
<1>1. row \in SessionRow /\ h \in Hashes
  BY DEF TypeOK, Hashes, AnyToken
<1>2. exp \in Nat
  <2>1. req[r].at + RefreshTTL \in Nat
    BY DEF TypeOK, Request
  <2>2. QED
    BY <2>1, RoundType
<1>3. RotatedRow(r) = [row EXCEPT !.hash = h, !.expires = exp, !.version = @ + 1]
  BY DEF RotatedRow
<1> HIDE DEF row, exp, h
<1>4. RotatedRow(r) \in SessionRow
  <2>1. /\ row.user \in UserIds \cup {None} /\ row.status \in SessionStatus
        /\ row.version \in Nat /\ row.version + 1 \in Nat
    BY <1>1 DEF SessionRow
  <2>2. RotatedRow(r) = [user |-> row.user, hash |-> h, status |-> row.status,
                         expires |-> exp, version |-> row.version + 1]
    BY <1>1, <1>3 DEF SessionRow
  <2>3. QED
    BY <1>1, <1>2, <2>1, <2>2 DEF SessionRow
<1>5. /\ RotatedRow(r).user = row.user /\ RotatedRow(r).status = row.status
      /\ RotatedRow(r).hash = h /\ RotatedRow(r).expires = exp
      /\ RotatedRow(r).version = row.version + 1
  BY <1>1, <1>3 DEF SessionRow
<1>6. QED
  BY <1>4, <1>5 DEF row, exp, h

LEMMA TypeInit == Init => TypeInv
<1> SUFFICES ASSUME Init PROVE TypeInv
  OBVIOUS
<1>1. NoRow \in SessionRow
  BY DEF NoRow, SessionRow, Hashes, AnyToken, SessionStatus
<1>2. TypeOK
  BY <1>1, IdleType DEF Init, TypeOK
<1>3. StepInv
  BY IdleType DEF Init, StepInv
<1>4. RowInv
  BY DEF Init, RowInv, Exists, NoRow
<1>5. FoundInv
  BY DEF Init, FoundInv, IdleRequest, HasFound
<1>6. QED
  BY <1>2, <1>3, <1>4, <1>5 DEF TypeInv

\* A step that moves one request on and writes no row keeps the types.
LEMMA MoveType ==
    ASSUME TypeInv, NEW r \in Requests, NEW q \in Request, StepOK(q), Goto(r, q),
           q.pc \in HasFound => Exists(q.sid),
           UNCHANGED <<users, sessions, now, known, exchanges, born>>,
           enabledIn' \in [Requests -> SUBSET UserIds]
    PROVE  TypeInv'
<1>1. req' \in [Requests -> Request] /\ StepInv'
  BY GotoReq, GotoStepInv DEF TypeInv
<1>2. FoundInv'
  <2>1. \A p \in Requests : req'[p] = q \/ req'[p] = req[p]
    BY GotoReq DEF TypeInv
  <2>2. QED
    BY <2>1 DEF TypeInv, FoundInv, Exists
<1>3. QED
  BY <1>1, <1>2 DEF TypeInv, TypeOK, RowInv, Exists

\* A step that ends a request and keeps every row keeps FoundInv.
LEMMA FinishFound ==
    ASSUME TypeInv, NEW r \in Requests, Goto(r, IdleRequest),
           \A s \in SessionIds : Exists(s) => Exists(s)'
    PROVE  FoundInv'
<1>1. \A p \in Requests : req'[p] = IdleRequest \/ req'[p] = req[p]
  BY GotoReq, IdleType DEF TypeInv
<1>2. \A p \in Requests : req[p].pc \in HasFound => req[p].sid \in SessionIds
  BY DEF TypeInv, StepInv, StepOK, HasFound, HasSession
<1>3. QED
  BY <1>1, <1>2 DEF TypeInv, FoundInv, Exists, IdleRequest, HasFound

LEMMA TypeStep == TypeInv /\ [Next]_vars => TypeInv'
<1> SUFFICES ASSUME TypeInv, [Next]_vars PROVE TypeInv'
  OBVIOUS
<1> USE DEF TypeInv
<1>0. \A r \in Requests :
        /\ req[r] \in Request /\ StepOK(req[r])
        /\ req[r].pc \in HasFound => Exists(req[r].sid)
  BY DEF TypeOK, StepInv, FoundInv
<1>1. ASSUME NEW r \in Requests, NEW u \in UserIds, LoginFind(r, u) PROVE TypeInv'
  <2> DEFINE q == [req[r] EXCEPT !.pc = "loginChecked", !.user = u, !.at = now]
  <2>0. now \in Nat
    BY DEF TypeOK
  <2>1. q \in Request /\ StepOK(q) /\ (q.pc \in HasFound => Exists(q.sid))
    BY ZenonT(60), <1>0, <1>1, <2>0 DEF LoginFind, Request, Step, StepOK, HasUser, HasSession, HasFound, HasWritten
  <2>2. enabledIn' \in [Requests -> SUBSET UserIds]
    BY <1>1 DEF LoginFind, TypeOK, EnabledNow
  <2>3. QED
    BY <1>1, <2>1, <2>2, MoveType DEF LoginFind
<1>2. ASSUME NEW r \in Requests, NEW s \in SessionIds, NEW t \in Tokens, LoginInsert(r, s, t)
      PROVE  TypeInv'
  <2>0. PICK at \in Nat : Goto(r, [req[r] EXCEPT !.pc = "loginInserted", !.sid = s, !.new = t, !.at = at])
    BY <1>2, IssuedAt DEF TypeOK
  <2> DEFINE q == [req[r] EXCEPT !.pc = "loginInserted", !.sid = s, !.new = t, !.at = at]
  <2>1. at \in Nat
    OBVIOUS
  <2>2. q \in Request /\ StepOK(q) /\ (q.pc \in HasFound => Exists(q.sid))
    BY ZenonT(60), <1>0, <1>2, <2>1 DEF LoginInsert, Request, Step, AnyToken, StepOK,
                            HasUser, HasSession, HasFound, HasWritten
  <2>3. QED
    BY <1>2, <2>0, <2>2, MoveType DEF LoginInsert, TypeOK
<1>3. ASSUME NEW r \in Requests, NEW delivered \in BOOLEAN, LoginCommit(r, delivered)
      PROVE  TypeInv'
  <2>1. InsertedRow(r) \in SessionRow
    <3>1. req[r].at + RefreshTTL \in Nat
      BY DEF TypeOK, Request
    <3>2. RoundToSecond(req[r].at + RefreshTTL) \in Nat
      BY <3>1, RoundType
    <3>3. req[r].user \in UserIds /\ req[r].new \in Tokens
      BY <1>0, <1>3 DEF LoginCommit, StepOK, HasUser, HasWritten
    <3>4. QED
      BY <3>2, <3>3 DEF InsertedRow, SessionRow, SessionStatus, Hashes, AnyToken
  <2>2. req[r].sid \in SessionIds /\ req[r].new \in Tokens /\ req[r].user \in UserIds
    BY <1>0, <1>3 DEF LoginCommit, StepOK, HasUser, HasSession, HasWritten
  <2>3. StepInv' /\ req' \in [Requests -> Request] /\ enabledIn' \in [Requests -> SUBSET UserIds]
    BY <1>3, FinishType DEF LoginCommit
  <2>4. sessions' \in [SessionIds -> SessionRow] /\ known' \subseteq Tokens /\ born' \in [Tokens -> Nat]
    BY <1>3, <2>1, <2>2 DEF LoginCommit, TypeOK, Request
  <2>5. TypeOK'
    BY <1>3, <2>3, <2>4 DEF LoginCommit, TypeOK
  <2>6. RowInv' /\ \A s \in SessionIds : Exists(s) => Exists(s)'
    BY <1>3, <2>2 DEF LoginCommit, RowInv, Exists, InsertedRow, TypeOK
  <2>7. FoundInv'
    BY <1>3, <2>6, FinishFound DEF LoginCommit, Finish
  <2>8. QED
    BY <2>3, <2>5, <2>6, <2>7
<1>4. ASSUME NEW r \in Requests, NEW t \in Tokens \cup {ForgedToken}, RefreshStart(r, t)
      PROVE  TypeInv'
  <2> DEFINE q == [req[r] EXCEPT !.pc = "refreshStarted", !.old = t, !.at = now]
  <2>1. now \in Nat
    BY DEF TypeOK
  <2>2. q \in Request /\ StepOK(q) /\ (q.pc \in HasFound => Exists(q.sid))
    BY ZenonT(60), <1>0, <1>4, <2>1 DEF RefreshStart, Request, Step, AnyToken, StepOK,
                            HasUser, HasSession, HasFound, HasWritten
  <2>3. enabledIn' \in [Requests -> SUBSET UserIds]
    BY <1>4 DEF RefreshStart, TypeOK, EnabledNow
  <2>4. QED
    BY <1>4, <2>2, <2>3, MoveType DEF RefreshStart
<1>5. ASSUME NEW r \in Requests, RefreshFind(r) PROVE TypeInv'
  <2>1. PICK s \in SessionIds :
          /\ Exists(s) /\ sessions[s].hash = Hash(req[r].old)
          /\ Goto(r, [req[r] EXCEPT !.pc = "refreshFound", !.sid = s,
                                    !.user = sessions[s].user,
                                    !.version = sessions[s].version,
                                    !.status = users[sessions[s].user]])
    BY <1>5 DEF RefreshFind, FindByRefreshTokenHash
  <2>2. req[r].old \in Tokens /\ sessions[s].user \in UserIds
    BY <2>1, HashInjective DEF RowInv
  <2>3. sessions[s].version \in Nat /\ users[sessions[s].user] \in UserStatus
    BY <2>2 DEF TypeOK, SessionRow
  <2> DEFINE q == [req[r] EXCEPT !.pc = "refreshFound", !.sid = s,
                                 !.user = sessions[s].user,
                                 !.version = sessions[s].version,
                                 !.status = users[sessions[s].user]]
  <2>4. q \in Request /\ StepOK(q) /\ (q.pc \in HasFound => Exists(q.sid))
    BY ZenonT(60), <1>0, <1>5, <2>1, <2>2, <2>3 DEF RefreshFind, Request, Step, StepOK,
                                  HasUser, HasSession, HasFound, HasWritten
  <2>5. QED
    BY <1>5, <2>1, <2>4, MoveType DEF RefreshFind, TypeOK
<1>6. ASSUME NEW r \in Requests, Finish(r),
             UNCHANGED <<users, sessions, now, known, exchanges, born>>
      PROVE  TypeInv'
  <2>1. StepInv' /\ req' \in [Requests -> Request] /\ enabledIn' \in [Requests -> SUBSET UserIds]
    BY <1>6, FinishType
  <2>2. FoundInv'
    BY <1>6, FinishFound DEF Finish, Exists
  <2>3. QED
    BY <1>6, <2>1, <2>2 DEF TypeOK, RowInv, Exists
<1>7. ASSUME NEW r \in Requests, RefreshCheckUser(r) PROVE TypeInv'
  <2> DEFINE q == [req[r] EXCEPT !.pc = "refreshChecked", !.status = "ENABLED"]
  <2>1. q \in Request /\ StepOK(q) /\ (q.pc \in HasFound => Exists(q.sid))
    BY ZenonT(60), <1>0, <1>7 DEF RefreshCheckUser, Request, Step, UserStatus, StepOK,
                      HasUser, HasSession, HasFound, HasWritten
  <2>2. QED
    BY <1>7, <2>1, MoveType DEF RefreshCheckUser, TypeOK
<1>8. ASSUME NEW r \in Requests, NEW t \in Tokens, RefreshRotate(r, t) PROVE TypeInv'
  <2> DEFINE q == [req[r] EXCEPT !.pc = "refreshRotated", !.new = t]
  <2>1. q \in Request /\ StepOK(q) /\ (q.pc \in HasFound => Exists(q.sid))
    BY ZenonT(60), <1>0, <1>8 DEF RefreshRotate, Request, Step, AnyToken, StepOK,
                      HasUser, HasSession, HasFound, HasWritten
  <2>2. QED
    BY <1>8, <2>1, MoveType DEF RefreshRotate, TypeOK
<1>9. ASSUME NEW r \in Requests, NEW delivered \in BOOLEAN, RefreshCommit(r, delivered)
      PROVE  TypeInv'
  <2>1. req[r].sid \in SessionIds /\ req[r].old \in Tokens /\ req[r].new \in Tokens
    BY <1>0, <1>9 DEF RefreshCommit, StepOK, HasSession, HasFound, HasWritten
  <2>2. RotatedRow(r) \in SessionRow
    BY <2>1, RotatedRowFacts
  <2>3. /\ RotatedRow(r).user = sessions[req[r].sid].user
        /\ RotatedRow(r).status = sessions[req[r].sid].status
        /\ RotatedRow(r).hash = Hash(req[r].new)
    BY <2>1, RotatedRowFacts
  <2>4. StepInv' /\ req' \in [Requests -> Request] /\ enabledIn' \in [Requests -> SUBSET UserIds]
    BY <1>9, FinishType DEF RefreshCommit
  <2>5. /\ sessions' \in [SessionIds -> SessionRow] /\ known' \subseteq Tokens
        /\ born' \in [Tokens -> Nat] /\ exchanges' \subseteq Exchange
    BY <1>9, <2>1, <2>2 DEF RefreshCommit, TypeOK, Request, Exchange
  <2>6. TypeOK'
    BY <1>9, <2>4, <2>5 DEF RefreshCommit, TypeOK
  <2>7. RowInv' /\ \A s \in SessionIds : Exists(s) => Exists(s)'
    <3>1. /\ sessions'[req[r].sid] = RotatedRow(r)
          /\ \A s \in SessionIds : s # req[r].sid => sessions'[s] = sessions[s]
      BY <1>9, <2>1 DEF RefreshCommit, TypeOK
    <3>2. Exists(req[r].sid)
      BY <1>9 DEF RefreshCommit, FoundInv, HasFound
    <3>3. QED
      BY <2>1, <2>3, <3>1, <3>2 DEF RowInv, Exists
  <2>8. FoundInv'
    BY <1>9, <2>7, FinishFound DEF RefreshCommit, Finish
  <2>9. QED
    BY <2>4, <2>6, <2>7, <2>8
<1>10. ASSUME NEW r \in Requests, NEW u \in UserIds, NEW status \in UserStatus,
              UpdateStatusStart(r, u, status)
       PROVE  TypeInv'
  <2> DEFINE q == [req[r] EXCEPT !.pc = "statusStarted", !.user = u, !.status = status]
  <2>1. q \in Request /\ StepOK(q) /\ (q.pc \in HasFound => Exists(q.sid))
    BY ZenonT(60), <1>0, <1>10 DEF UpdateStatusStart, Request, Step, StepOK,
                       HasUser, HasSession, HasFound, HasWritten
  <2>2. QED
    BY <1>10, <2>1, MoveType DEF UpdateStatusStart, TypeOK
<1>11. ASSUME NEW r \in Requests, UpdateStatus(r) PROVE TypeInv'
  <2> DEFINE q == [req[r] EXCEPT !.pc = "statusUpdated"]
  <2>1. q \in Request /\ StepOK(q) /\ (q.pc \in HasFound => Exists(q.sid))
    BY <1>0, <1>11 DEF UpdateStatus, Request, Step, StepOK,
                       HasUser, HasSession, HasFound, HasWritten
  <2>2. QED
    BY <1>11, <2>1, MoveType DEF UpdateStatus, TypeOK
<1>12. ASSUME NEW r \in Requests, UpdateStatusCommit(r) PROVE TypeInv'
  <2>1. req[r].user \in UserIds /\ req[r].status \in UserStatus
    BY <1>0, <1>12 DEF UpdateStatusCommit, StepOK, HasUser, Request
  <2>2. req' \in [Requests -> Request] /\ StepInv'
    BY <1>12, IdleType, GotoReq, GotoStepInv DEF UpdateStatusCommit
  <2>3. TypeOK'
    BY <1>12, <2>1, <2>2 DEF UpdateStatusCommit, TypeOK
  <2>4. RowInv'
    BY <1>12 DEF UpdateStatusCommit, RowInv, Exists
  <2>5. FoundInv'
    BY <1>12, FinishFound DEF UpdateStatusCommit, Exists
  <2>6. QED
    BY <2>2, <2>3, <2>4, <2>5
<1>13. ASSUME NEW s \in SessionIds, RevokeBySessionID(s) PROVE TypeInv'
  <2>1. TypeOK'
    BY <1>13 DEF RevokeBySessionID, TypeOK, SessionRow, SessionStatus
  <2>2. StepInv'
    BY <1>13 DEF RevokeBySessionID, StepInv
  <2>3. RowInv'
    BY <1>13 DEF RevokeBySessionID, RowInv, Exists, TypeOK, SessionRow
  <2>4. FoundInv'
    BY <1>13, <1>0 DEF RevokeBySessionID, FoundInv, Exists, TypeOK, SessionRow
  <2>5. QED
    BY <2>1, <2>2, <2>3, <2>4
<1>14. CASE Tick
  BY <1>14 DEF Tick, TypeOK, StepInv, RowInv, FoundInv, Exists
<1>15. CASE UNCHANGED vars
  BY <1>15 DEF vars, TypeOK, StepInv, RowInv, FoundInv, Exists
<1>16. QED
  BY <1>1, <1>2, <1>3, <1>4, <1>5, <1>6, <1>7, <1>8, <1>9, <1>10, <1>11, <1>12, <1>13,
     <1>14, <1>15
  DEF Next, Arrive, Advance, Abort, RefreshFindRejects, RefreshCheckUserRejects,
      RefreshRotateRejects, UpdateStatusNoRows

\* Types: whatever requests run, fail or lose their answers, the tables hold
\* rows of their types and the history variables what they should.
THEOREM TypeCorrect == Spec => []TypeOK
<1>1. TypeInv => TypeOK
  BY DEF TypeInv
<1>2. QED
  BY TypeInit, TypeStep, <1>1, PTL DEF Spec

-----------------------------------------------------------------------------
(***************************************************************************)
(* A refresh token is exchanged at most once                               *)
(*                                                                         *)
(* ExchangedAtMostOnce is not inductive: two transactions might hold a     *)
(* rotation of the same token, or a session might hold a token that was    *)
(* exchanged before.  ChainInv excludes both: spent tokens are in no row,  *)
(* sessions do not share tokens, drawn tokens are new, and whoever has     *)
(* rotated a row holds it alone and unchanged until the commit.            *)
(***************************************************************************)
DistinctHashes ==
    \A s, z \in SessionIds :
        Exists(s) /\ Exists(z) /\ sessions[s].hash = sessions[z].hash => s = z

SpentInv == \A e \in exchanges, s \in SessionIds : sessions[s].hash # Hash(e.old)

\* The token a transaction has drawn is in no row, no exchange and no other
\* transaction.
DrawnInv ==
    \A r \in Requests : req[r].pc \in HasWritten =>
        /\ \A s \in SessionIds : sessions[s].hash # Hash(req[r].new)
        /\ \A e \in exchanges : e.old # req[r].new /\ e.new # req[r].new
        /\ \A q \in Requests : q # r => req[q].new # req[r].new

\* A rotated row still is what the WHERE clause matched; nobody else has it.
RotatingInv ==
    \A r \in Requests : req[r].pc = "refreshRotated" =>
        /\ RotateMatches(r)
        /\ \A q \in Requests :
             q # r /\ req[q].pc = "refreshRotated" => req[q].sid # req[r].sid

\* An inserted row is visible to nobody and its id is its own.
InsertingInv ==
    \A r \in Requests : req[r].pc = "loginInserted" =>
        /\ ~Exists(req[r].sid)
        /\ \A q \in Requests :
             q # r /\ req[q].pc = "loginInserted" => req[q].sid # req[r].sid

ChainInv ==
    /\ ExchangedAtMostOnce
    /\ DistinctHashes
    /\ SpentInv
    /\ DrawnInv
    /\ RotatingInv
    /\ InsertingInv

LEMMA ChainInit == Init => ChainInv
BY DEF Init, ChainInv, ExchangedAtMostOnce, DistinctHashes, SpentInv, DrawnInv, RotatingInv,
       InsertingInv, HasWritten, Exists, NoRow, IdleRequest

\* A step that writes no row keeps ChainInv: the request it moves holds
\* neither a drawn token nor a row afterwards.
LEMMA QuietChain ==
    ASSUME TypeInv, ChainInv, NEW r \in Requests, NEW q \in Request, StepOK(q), Goto(r, q),
           q.pc \notin HasWritten, UNCHANGED <<sessions, exchanges>>
    PROVE  ChainInv'
<1>1. req'[r] = q /\ \A p \in Requests : p # r => req'[p] = req[p]
  BY GotoReq DEF TypeInv
<1>2. q.new = None
  BY DEF StepOK
<1>3. \A p \in Requests : req[p].pc \in HasWritten => req[p].new \in Tokens
  BY DEF TypeInv, StepInv, StepOK
<1>4. ExchangedAtMostOnce' /\ DistinctHashes' /\ SpentInv'
  BY DEF ChainInv, ExchangedAtMostOnce, DistinctHashes, SpentInv, Exists
<1>5. DrawnInv'
  BY <1>1, <1>2, <1>3 DEF ChainInv, DrawnInv
<1>6. RotatingInv'
  BY <1>1 DEF ChainInv, RotatingInv, RotateMatches, HasWritten
<1>7. InsertingInv'
  BY <1>1 DEF ChainInv, InsertingInv, HasWritten, Exists
<1>8. QED
  BY <1>4, <1>5, <1>6, <1>7 DEF ChainInv

\* LoginInsert draws a new token and a new session id.
LEMMA InsertChain ==
    ASSUME TypeInv, ChainInv, NEW r \in Requests, NEW s \in SessionIds, NEW t \in Tokens,
           LoginInsert(r, s, t)
    PROVE  ChainInv'
<1>0. PICK at \in Nat : Goto(r, [req[r] EXCEPT !.pc = "loginInserted", !.sid = s, !.new = t, !.at = at])
  BY IssuedAt DEF TypeInv, TypeOK
<1> DEFINE q == [req[r] EXCEPT !.pc = "loginInserted", !.sid = s, !.new = t, !.at = at]
<1>1. q \in Request /\ q.pc = "loginInserted" /\ q.sid = s /\ q.new = t
  <2>1. req[r] \in Request /\ at \in Nat
    BY DEF TypeInv, TypeOK
  <2>2. QED
    BY <2>1 DEF Request, Step, AnyToken
<1>2. req'[r] = q /\ \A p \in Requests : p # r => req'[p] = req[p]
  BY <1>0, <1>1, GotoReq DEF TypeInv
<1> HIDE DEF q
<1>3. ExchangedAtMostOnce' /\ DistinctHashes' /\ SpentInv'
  BY DEF LoginInsert, ChainInv, ExchangedAtMostOnce, DistinctHashes, SpentInv, Exists
<1>4. DrawnInv'
  BY <1>1, <1>2 DEF LoginInsert, Fresh, ChainInv, DrawnInv
<1>5. RotatingInv'
  BY <1>1, <1>2 DEF LoginInsert, ChainInv, RotatingInv, RotateMatches
<1>6. InsertingInv'
  BY <1>1, <1>2 DEF LoginInsert, FreshSession, ChainInv, InsertingInv, Exists
<1>7. QED
  BY <1>3, <1>4, <1>5, <1>6 DEF ChainInv

\* ConditionalRotate draws a new token and gets the row to itself.
LEMMA RotateChain ==
    ASSUME TypeInv, ChainInv, NEW r \in Requests, NEW t \in Tokens, RefreshRotate(r, t)
    PROVE  ChainInv'
<1> DEFINE q == [req[r] EXCEPT !.pc = "refreshRotated", !.new = t]
<1>1. /\ q \in Request /\ q.pc = "refreshRotated" /\ q.new = t
      /\ q.sid = req[r].sid /\ q.old = req[r].old /\ q.version = req[r].version
      /\ q.at = req[r].at
  <2>1. req[r] \in Request
    BY DEF TypeInv, TypeOK
  <2>2. QED
    BY <2>1 DEF Request, Step, AnyToken
<1>2. req'[r] = q /\ \A p \in Requests : p # r => req'[p] = req[p]
  BY <1>1, GotoReq DEF TypeInv, RefreshRotate
<1> HIDE DEF q
<1>3. ExchangedAtMostOnce' /\ DistinctHashes' /\ SpentInv'
  BY DEF RefreshRotate, ChainInv, ExchangedAtMostOnce, DistinctHashes, SpentInv, Exists
<1>4. DrawnInv'
  BY <1>1, <1>2 DEF RefreshRotate, Fresh, ChainInv, DrawnInv
<1>5. RotatingInv'
  BY <1>1, <1>2 DEF RefreshRotate, SessionLocked, ChainInv, RotatingInv, RotateMatches
<1>6. InsertingInv'
  BY <1>1, <1>2 DEF RefreshRotate, ChainInv, InsertingInv, Exists
<1>7. QED
  BY <1>3, <1>4, <1>5, <1>6 DEF ChainInv

\* A committed login adds a session with a token nobody else has.
LEMMA LoginCommitChain ==
    ASSUME TypeInv, ChainInv, NEW r \in Requests, NEW delivered \in BOOLEAN,
           LoginCommit(r, delivered)
    PROVE  ChainInv'
<1>1. /\ req[r].pc = "loginInserted" /\ req[r].pc \in HasWritten
      /\ req[r].sid \in SessionIds /\ req[r].new \in Tokens /\ ~Exists(req[r].sid)
  BY DEF LoginCommit, TypeInv, StepInv, StepOK, HasSession, HasWritten, ChainInv, InsertingInv
<1>2. /\ sessions'[req[r].sid] = InsertedRow(r)
      /\ \A s \in SessionIds : s # req[r].sid => sessions'[s] = sessions[s]
      /\ InsertedRow(r).hash = Hash(req[r].new) /\ InsertedRow(r).status = "ACTIVE"
  BY <1>1 DEF LoginCommit, InsertedRow, TypeInv, TypeOK
<1>3. req'[r] = IdleRequest /\ \A p \in Requests : p # r => req'[p] = req[p]
  BY GotoReq, IdleType DEF TypeInv, LoginCommit, Finish
<1>4. exchanges' = exchanges
  BY DEF LoginCommit
<1>5. /\ \A s \in SessionIds : sessions[s].hash # Hash(req[r].new)
      /\ \A e \in exchanges : e.old # req[r].new
      /\ \A q \in Requests : q # r => req[q].new # req[r].new
  BY <1>1 DEF ChainInv, DrawnInv
<1>6. ExchangedAtMostOnce'
  BY <1>4 DEF ChainInv, ExchangedAtMostOnce
<1>7. DistinctHashes'
  BY <1>2, <1>5 DEF ChainInv, DistinctHashes, Exists
<1>8. SpentInv'
  BY <1>2, <1>4, <1>5, HashInjective DEF ChainInv, SpentInv
<1>9. DrawnInv'
  <2> SUFFICES ASSUME NEW q \in Requests, req'[q].pc \in HasWritten
               PROVE  /\ \A s \in SessionIds : sessions'[s].hash # Hash(req'[q].new)
                      /\ \A e \in exchanges' : e.old # req'[q].new /\ e.new # req'[q].new
                      /\ \A p \in Requests : p # q => req'[p].new # req'[q].new
    BY DEF DrawnInv
  <2>1. q # r /\ req'[q] = req[q]
    BY <1>3 DEF IdleRequest, HasWritten
  <2>2. /\ \A s \in SessionIds : sessions[s].hash # Hash(req[q].new)
        /\ \A e \in exchanges : e.old # req[q].new /\ e.new # req[q].new
        /\ \A p \in Requests : p # q => req[p].new # req[q].new
        /\ req[q].new \in Tokens
    BY <2>1 DEF ChainInv, DrawnInv, TypeInv, StepInv, StepOK
  <2>3. \A s \in SessionIds : sessions'[s].hash # Hash(req[q].new)
    BY <1>2, <2>1, <2>2, HashInjective
  <2>4. \A p \in Requests : p # q => req'[p].new # req[q].new
    BY <1>3, <2>2, NoneAssumption DEF IdleRequest
  <2>5. QED
    BY <1>4, <2>1, <2>2, <2>3, <2>4
<1>10. RotatingInv'
  <2>1. \A q \in Requests : req[q].pc = "refreshRotated" => req[q].sid # req[r].sid /\ req[q].sid \in SessionIds
    BY <1>1 DEF TypeInv, FoundInv, HasFound, StepInv, StepOK, HasSession
  <2>2. QED
    BY <1>2, <1>3, <2>1 DEF ChainInv, RotatingInv, RotateMatches, IdleRequest
<1>11. InsertingInv'
  <2>1. \A q \in Requests : q # r /\ req[q].pc = "loginInserted" =>
          req[q].sid # req[r].sid /\ req[q].sid \in SessionIds
    BY <1>1 DEF ChainInv, InsertingInv, TypeInv, StepInv, StepOK, HasSession
  <2>2. QED
    BY <1>2, <1>3, <2>1 DEF ChainInv, InsertingInv, IdleRequest, Exists
<1>12. QED
  BY <1>6, <1>7, <1>8, <1>9, <1>10, <1>11 DEF ChainInv

\* A committed rotation spends a token that was in a row, hence was never
\* spent before, and puts one in its place that nobody else has.
LEMMA RefreshCommitChain ==
    ASSUME TypeInv, ChainInv, NEW r \in Requests, NEW delivered \in BOOLEAN,
           RefreshCommit(r, delivered)
    PROVE  ChainInv'
<1> DEFINE sid == req[r].sid
           old == req[r].old
           new == req[r].new
           ex  == [sid |-> req[r].sid, old |-> req[r].old, new |-> req[r].new]
<1>1. /\ req[r].pc = "refreshRotated" /\ req[r].pc \in HasWritten
      /\ sid \in SessionIds /\ old \in Tokens /\ new \in Tokens /\ Exists(sid)
      /\ sessions[sid].hash = Hash(old)
  BY DEF RefreshCommit, TypeInv, StepInv, StepOK, FoundInv, HasSession, HasFound, HasWritten,
         ChainInv, RotatingInv, RotateMatches
<1>2. /\ sessions'[sid] = RotatedRow(r)
      /\ \A s \in SessionIds : s # sid => sessions'[s] = sessions[s]
  BY <1>1 DEF RefreshCommit, TypeInv, TypeOK
<1>3. RotatedRow(r).hash = Hash(new) /\ RotatedRow(r).status = sessions[sid].status
  BY <1>1, RotatedRowFacts DEF TypeInv
<1>4. req'[r] = IdleRequest /\ \A p \in Requests : p # r => req'[p] = req[p]
  BY GotoReq, IdleType DEF TypeInv, RefreshCommit, Finish
<1>5. exchanges' = exchanges \cup {ex} /\ ex.old = old /\ ex.new = new
  BY DEF RefreshCommit
<1>6. /\ \A s \in SessionIds : sessions[s].hash # Hash(new)
      /\ \A e \in exchanges : e.old # new
      /\ \A q \in Requests : q # r => req[q].new # new
  BY <1>1 DEF ChainInv, DrawnInv
<1>7. \A e \in exchanges : e.old # old
  BY <1>1 DEF ChainInv, SpentInv
<1> HIDE DEF ex
<1>8. ExchangedAtMostOnce'
  BY <1>5, <1>7 DEF ChainInv, ExchangedAtMostOnce
<1>9. DistinctHashes'
  BY <1>1, <1>2, <1>3, <1>6 DEF ChainInv, DistinctHashes, Exists
<1>10. SpentInv'
  <2>1. \A e \in exchanges, s \in SessionIds : sessions'[s].hash # Hash(e.old)
    BY <1>2, <1>3, <1>6, HashInjective DEF ChainInv, SpentInv
  <2>2. \A s \in SessionIds : sessions'[s].hash # Hash(old)
    <3>1. CASE new = old
      BY <1>1, <1>6, <3>1
    <3>2. ASSUME NEW s \in SessionIds, s # sid, sessions[s].hash = Hash(old) PROVE FALSE
      <4>1. CASE Exists(s)
        BY <1>1, <3>2, <4>1 DEF ChainInv, DistinctHashes
      <4>2. CASE ~Exists(s)
        BY <1>1, <3>2, <4>2, HashInjective, NoneAssumption DEF TypeInv, RowInv
      <4>3. QED
        BY <4>1, <4>2
    <3>3. QED
      BY <1>2, <1>3, <3>1, <3>2, HashInjective
  <2>3. QED
    BY <1>5, <2>1, <2>2 DEF SpentInv
<1>11. DrawnInv'
  <2> SUFFICES ASSUME NEW q \in Requests, req'[q].pc \in HasWritten
               PROVE  /\ \A s \in SessionIds : sessions'[s].hash # Hash(req'[q].new)
                      /\ \A e \in exchanges' : e.old # req'[q].new /\ e.new # req'[q].new
                      /\ \A p \in Requests : p # q => req'[p].new # req'[q].new
    BY DEF DrawnInv
  <2>1. q # r /\ req'[q] = req[q]
    BY <1>4 DEF IdleRequest, HasWritten
  <2>2. /\ \A s \in SessionIds : sessions[s].hash # Hash(req[q].new)
        /\ \A e \in exchanges : e.old # req[q].new /\ e.new # req[q].new
        /\ \A p \in Requests : p # q => req[p].new # req[q].new
        /\ req[q].new \in Tokens
    BY <2>1 DEF ChainInv, DrawnInv, TypeInv, StepInv, StepOK
  <2>3. \A s \in SessionIds : sessions'[s].hash # Hash(req[q].new)
    BY <1>2, <1>3, <2>1, <2>2, HashInjective
  <2>4. \A e \in exchanges' : e.old # req[q].new /\ e.new # req[q].new
    BY <1>1, <1>5, <1>6, <2>1, <2>2, HashInjective
  <2>5. \A p \in Requests : p # q => req'[p].new # req[q].new
    BY <1>4, <2>2, NoneAssumption DEF IdleRequest
  <2>6. QED
    BY <2>1, <2>3, <2>4, <2>5
<1>12. RotatingInv'
  <2>1. \A q \in Requests : q # r /\ req[q].pc = "refreshRotated" =>
          req[q].sid # sid /\ req[q].sid \in SessionIds
    BY <1>1 DEF ChainInv, RotatingInv, TypeInv, StepInv, StepOK, HasSession
  <2>2. QED
    BY <1>2, <1>4, <2>1 DEF ChainInv, RotatingInv, RotateMatches, IdleRequest
<1>13. InsertingInv'
  <2>1. \A q \in Requests : req[q].pc = "loginInserted" =>
          req[q].sid # sid /\ req[q].sid \in SessionIds
    BY <1>1 DEF ChainInv, InsertingInv, TypeInv, StepInv, StepOK, HasSession
  <2>2. QED
    BY <1>2, <1>4, <2>1 DEF ChainInv, InsertingInv, IdleRequest, Exists
<1>14. QED
  BY <1>8, <1>9, <1>10, <1>11, <1>12, <1>13 DEF ChainInv

\* Revoking waits for the row lock, so it touches no rotated row.
LEMMA RevokeChain ==
    ASSUME TypeInv, ChainInv, NEW s \in SessionIds, RevokeBySessionID(s)
    PROVE  ChainInv'
<1>1. /\ req' = req /\ exchanges' = exchanges /\ Exists(s)
      /\ \A r \in Requests : req[r].pc = "refreshRotated" => req[r].sid # s
  BY DEF RevokeBySessionID, SessionLocked, Exists
<1>2. /\ \A z \in SessionIds : Exists(z)' <=> Exists(z)
      /\ \A z \in SessionIds : sessions'[z].hash = sessions[z].hash
      /\ \A z \in SessionIds : z # s => sessions'[z] = sessions[z]
  BY DEF RevokeBySessionID, Exists, TypeInv, TypeOK, SessionRow
<1>3. \A r \in Requests : req[r].pc \in HasSession => req[r].sid \in SessionIds
  BY DEF TypeInv, StepInv, StepOK
<1>4. ExchangedAtMostOnce' /\ DistinctHashes' /\ SpentInv' /\ DrawnInv'
  BY <1>1, <1>2 DEF ChainInv, ExchangedAtMostOnce, DistinctHashes, SpentInv, DrawnInv
<1>5. RotatingInv'
  BY <1>1, <1>2, <1>3 DEF ChainInv, RotatingInv, RotateMatches, HasSession
<1>6. InsertingInv'
  BY <1>1, <1>2, <1>3 DEF ChainInv, InsertingInv, HasSession
<1>7. QED
  BY <1>4, <1>5, <1>6 DEF ChainInv

LEMMA ChainStep == TypeInv /\ ChainInv /\ [Next]_vars => ChainInv'
<1> SUFFICES ASSUME TypeInv, ChainInv, [Next]_vars PROVE ChainInv'
  OBVIOUS
<1>0. \A r \in Requests : req[r] \in Request /\ StepOK(req[r])
  BY DEF TypeInv, TypeOK, StepInv
<1>1. ASSUME NEW r \in Requests, NEW u \in UserIds, LoginFind(r, u) PROVE ChainInv'
  <2> DEFINE q == [req[r] EXCEPT !.pc = "loginChecked", !.user = u, !.at = now]
  <2>0. now \in Nat
    BY DEF TypeInv, TypeOK
  <2>1. q \in Request /\ StepOK(q) /\ q.pc \notin HasWritten
    BY ZenonT(60), <1>0, <1>1, <2>0 DEF LoginFind, Request, Step, StepOK, HasUser, HasSession, HasFound, HasWritten
  <2>2. QED
    BY <1>1, <2>1, QuietChain DEF LoginFind
<1>2. ASSUME NEW r \in Requests, NEW t \in Tokens \cup {ForgedToken}, RefreshStart(r, t)
      PROVE  ChainInv'
  <2> DEFINE q == [req[r] EXCEPT !.pc = "refreshStarted", !.old = t, !.at = now]
  <2>1. now \in Nat
    BY DEF TypeInv, TypeOK
  <2>2. q \in Request /\ StepOK(q) /\ q.pc \notin HasWritten
    BY ZenonT(60), <1>0, <1>2, <2>1 DEF RefreshStart, Request, Step, AnyToken, StepOK,
                            HasUser, HasSession, HasFound, HasWritten
  <2>3. QED
    BY <1>2, <2>2, QuietChain DEF RefreshStart
<1>3. ASSUME NEW r \in Requests, RefreshFind(r) PROVE ChainInv'
  <2>1. PICK s \in SessionIds :
          /\ Exists(s) /\ sessions[s].hash = Hash(req[r].old)
          /\ Goto(r, [req[r] EXCEPT !.pc = "refreshFound", !.sid = s,
                                    !.user = sessions[s].user,
                                    !.version = sessions[s].version,
                                    !.status = users[sessions[s].user]])
    BY <1>3 DEF RefreshFind, FindByRefreshTokenHash
  <2>2. req[r].old \in Tokens /\ sessions[s].user \in UserIds
    BY <2>1, HashInjective DEF TypeInv, RowInv
  <2>3. sessions[s].version \in Nat /\ users[sessions[s].user] \in UserStatus
    BY <2>2 DEF TypeInv, TypeOK, SessionRow
  <2> DEFINE q == [req[r] EXCEPT !.pc = "refreshFound", !.sid = s,
                                 !.user = sessions[s].user,
                                 !.version = sessions[s].version,
                                 !.status = users[sessions[s].user]]
  <2>4. q \in Request /\ StepOK(q) /\ q.pc \notin HasWritten
    BY ZenonT(60), <1>0, <1>3, <2>1, <2>2, <2>3 DEF RefreshFind, Request, Step, StepOK,
                                        HasUser, HasSession, HasFound, HasWritten
  <2>5. QED
    BY <1>3, <2>1, <2>4, QuietChain DEF RefreshFind
<1>4. ASSUME NEW r \in Requests, RefreshCheckUser(r) PROVE ChainInv'
  <2> DEFINE q == [req[r] EXCEPT !.pc = "refreshChecked", !.status = "ENABLED"]
  <2>1. q \in Request /\ StepOK(q) /\ q.pc \notin HasWritten
    BY ZenonT(60), <1>0, <1>4 DEF RefreshCheckUser, Request, Step, UserStatus, StepOK,
                      HasUser, HasSession, HasFound, HasWritten
  <2>2. QED
    BY <1>4, <2>1, QuietChain DEF RefreshCheckUser
<1>5. ASSUME NEW r \in Requests, NEW u \in UserIds, NEW status \in UserStatus,
             UpdateStatusStart(r, u, status)
      PROVE  ChainInv'
  <2> DEFINE q == [req[r] EXCEPT !.pc = "statusStarted", !.user = u, !.status = status]
  <2>1. q \in Request /\ StepOK(q) /\ q.pc \notin HasWritten
    BY ZenonT(60), <1>0, <1>5 DEF UpdateStatusStart, Request, Step, StepOK,
                      HasUser, HasSession, HasFound, HasWritten
  <2>2. QED
    BY <1>5, <2>1, QuietChain DEF UpdateStatusStart
<1>6. ASSUME NEW r \in Requests, UpdateStatus(r) PROVE ChainInv'
  <2> DEFINE q == [req[r] EXCEPT !.pc = "statusUpdated"]
  <2>1. q \in Request /\ StepOK(q) /\ q.pc \notin HasWritten
    BY <1>0, <1>6 DEF UpdateStatus, Request, Step, StepOK,
                      HasUser, HasSession, HasFound, HasWritten
  <2>2. QED
    BY <1>6, <2>1, QuietChain DEF UpdateStatus
<1>7. ASSUME NEW r \in Requests, Goto(r, IdleRequest), UNCHANGED <<sessions, exchanges>>
      PROVE  ChainInv'
  <2>1. IdleRequest.pc \notin HasWritten
    BY DEF IdleRequest, HasWritten
  <2>2. QED
    BY <1>7, <2>1, IdleType, QuietChain
<1>8. CASE UNCHANGED <<sessions, req, exchanges>>
  BY <1>8 DEF ChainInv, ExchangedAtMostOnce, DistinctHashes, SpentInv, DrawnInv, RotatingInv,
              RotateMatches, InsertingInv, Exists
<1>9. CASE Tick \/ UNCHANGED vars
  BY <1>8, <1>9 DEF Tick, vars
<1>10. ASSUME NEW r \in Requests, Advance(r) PROVE ChainInv'
  BY <1>3, <1>4, <1>6, <1>7, <1>10, InsertChain, RotateChain, LoginCommitChain, RefreshCommitChain
  DEF Advance, Finish, RefreshFindRejects, RefreshCheckUserRejects, RefreshRotateRejects,
      UpdateStatusNoRows, UpdateStatusCommit
<1>11. ASSUME NEW r \in Requests, Arrive(r) \/ Abort(r) PROVE ChainInv'
  BY <1>1, <1>2, <1>5, <1>7, <1>11 DEF Arrive, Abort, Finish
<1>12. QED
  BY <1>9, <1>10, <1>11, RevokeChain DEF Next

\* However requests interleave, retry and fail, ConditionalRotate exchanges a
\* refresh token at most once.
THEOREM ExchangedOnce == Spec => []ExchangedAtMostOnce
<1>1. ChainInv => ExchangedAtMostOnce
  BY DEF ChainInv
<1>2. QED
  BY TypeInit, TypeStep, ChainInit, ChainStep, <1>1, PTL DEF Spec

\* A replayed token finds no row: FindByRefreshTokenHash comes back empty.
THEOREM SpentAreDead == Spec => []SpentTokensAreDead
<1>1. ChainInv => SpentTokensAreDead
  BY DEF ChainInv, SpentInv, SpentTokensAreDead, FindByRefreshTokenHash
<1>2. QED
  BY TypeInit, TypeStep, ChainInit, ChainStep, <1>1, PTL DEF Spec

-----------------------------------------------------------------------------
(***************************************************************************)
(* Refinement: AuthSessions implements RefreshChain                        *)
(***************************************************************************)
LEMMA TokenOfHash == \A t : Hash(t).sha256 = t
BY DEF Hash

LEMMA RefineInit == Init => Chain!Init
BY TokenOfHash DEF Init, Chain!Init, NoRow

\* A step that leaves the hashes, the statuses and the exchanges alone is a
\* stuttering step of the chain.
LEMMA RefineStutter ==
    ASSUME UNCHANGED <<sessions, exchanges>>
    PROVE  UNCHANGED Chain!chainVars
BY DEF Chain!chainVars

\* A committed login opens a session with an unused token.
LEMMA RefineOpen ==
    ASSUME TypeInv, ChainInv, NEW r \in Requests, NEW delivered \in BOOLEAN,
           LoginCommit(r, delivered)
    PROVE  Chain!Next
<1> DEFINE sid == req[r].sid
           new == req[r].new
           cur == [s \in SessionIds |-> sessions[s].hash.sha256]
           old == {e.old : e \in exchanges}
           rev == {s \in SessionIds : sessions[s].status = "REVOKED"}
<1>1. sid \in SessionIds /\ new \in Tokens /\ ~Exists(sid) /\ req[r].pc \in HasWritten
  BY DEF LoginCommit, TypeInv, StepInv, StepOK, HasSession, HasWritten, ChainInv, InsertingInv
<1>2. /\ sessions'[sid] = InsertedRow(r)
      /\ \A s \in SessionIds : s # sid => sessions'[s] = sessions[s]
      /\ InsertedRow(r).hash = Hash(new) /\ InsertedRow(r).status = "ACTIVE"
  BY <1>1 DEF LoginCommit, InsertedRow, TypeInv, TypeOK
<1>3. cur[sid] = None
  BY <1>1, TokenOfHash DEF TypeInv, RowInv
<1>4. new \notin old /\ \A s \in SessionIds : cur[s] # new
  <2>1. \A e \in exchanges : e.old # new
    BY <1>1 DEF ChainInv, DrawnInv
  <2>2. ASSUME NEW s \in SessionIds PROVE sessions[s].hash.sha256 # new
    <3>1. PICK t : sessions[s].hash = Hash(t)
      BY DEF TypeInv, RowInv
    <3>2. t # new
      BY <1>1, <3>1 DEF ChainInv, DrawnInv
    <3>3. QED
      BY <3>1, <3>2, TokenOfHash
  <2>3. QED
    BY <2>1, <2>2
<1>5. cur' = [cur EXCEPT ![sid] = new]
  <2>1. \A s \in SessionIds : sessions'[s].hash.sha256 = IF s = sid THEN new ELSE cur[s]
    BY <1>2, TokenOfHash
  <2>2. QED
    BY <1>1, <2>1
<1>6. old' = old /\ rev' = rev
  BY <1>1, <1>2 DEF LoginCommit, Exists
<1>7. PICK s \in SessionIds, t \in Tokens : s = sid /\ t = new
  BY <1>1
<1>8. Chain!Open(s, t)
  BY <1>3, <1>4, <1>5, <1>6, <1>7 DEF Chain!Open, Chain!Unused
<1>9. QED
  BY <1>8 DEF Chain!Next

\* A committed rotation redeems the session's token for an unused one.
LEMMA RefineRedeem ==
    ASSUME TypeInv, ChainInv, NEW r \in Requests, NEW delivered \in BOOLEAN,
           RefreshCommit(r, delivered)
    PROVE  Chain!Next
<1> DEFINE sid == req[r].sid
           new == req[r].new
           ex  == [sid |-> req[r].sid, old |-> req[r].old, new |-> req[r].new]
           cur == [s \in SessionIds |-> sessions[s].hash.sha256]
           old == {e.old : e \in exchanges}
           rev == {s \in SessionIds : sessions[s].status = "REVOKED"}
<1>1. /\ sid \in SessionIds /\ new \in Tokens /\ req[r].old \in Tokens
      /\ req[r].pc \in HasWritten
      /\ sessions[sid].hash = Hash(req[r].old) /\ sessions[sid].status = "ACTIVE"
  BY DEF RefreshCommit, TypeInv, StepInv, StepOK, HasSession, HasFound, HasWritten,
         ChainInv, RotatingInv, RotateMatches
<1>2. /\ sessions'[sid] = RotatedRow(r)
      /\ \A s \in SessionIds : s # sid => sessions'[s] = sessions[s]
      /\ exchanges' = exchanges \cup {ex} /\ ex.old = req[r].old
  BY <1>1 DEF RefreshCommit, TypeInv, TypeOK
<1>3. RotatedRow(r).hash = Hash(new) /\ RotatedRow(r).status = sessions[sid].status
  BY <1>1, RotatedRowFacts DEF TypeInv
<1> HIDE DEF ex
<1>4. cur[sid] = req[r].old /\ cur[sid] # None /\ sid \notin rev
  BY <1>1, TokenOfHash
<1>5. new \notin old /\ \A s \in SessionIds : cur[s] # new
  <2>1. \A e \in exchanges : e.old # new
    BY <1>1 DEF ChainInv, DrawnInv
  <2>2. ASSUME NEW s \in SessionIds PROVE sessions[s].hash.sha256 # new
    <3>1. PICK t : sessions[s].hash = Hash(t)
      BY DEF TypeInv, RowInv
    <3>2. t # new
      BY <1>1, <3>1 DEF ChainInv, DrawnInv
    <3>3. QED
      BY <3>1, <3>2, TokenOfHash
  <2>3. QED
    BY <2>1, <2>2
<1>6. cur' = [cur EXCEPT ![sid] = new]
  <2>1. \A s \in SessionIds : sessions'[s].hash.sha256 = IF s = sid THEN new ELSE cur[s]
    BY <1>2, <1>3, TokenOfHash
  <2>2. QED
    BY <1>1, <2>1
<1>7. old' = old \cup {cur[sid]} /\ rev' = rev
  BY <1>1, <1>2, <1>3, <1>4
<1>8. PICK s \in SessionIds, t \in Tokens : s = sid /\ t = new
  BY <1>1
<1>9. Chain!Redeem(s, t)
  BY ZenonT(60), <1>4, <1>5, <1>6, <1>7, <1>8 DEF Chain!Redeem, Chain!Unused
<1>10. QED
  BY <1>9 DEF Chain!Next

\* Revoking a row closes the session.
LEMMA RefineClose ==
    ASSUME TypeInv, NEW s \in SessionIds, RevokeBySessionID(s)
    PROVE  Chain!Next
<1> DEFINE cur == [z \in SessionIds |-> sessions[z].hash.sha256]
           rev == {z \in SessionIds : sessions[z].status = "REVOKED"}
<1>1. /\ sessions[s].status = "ACTIVE" /\ sessions'[s].status = "REVOKED"
      /\ \A z \in SessionIds : sessions'[z].hash = sessions[z].hash
      /\ \A z \in SessionIds : z # s => sessions'[z] = sessions[z]
      /\ exchanges' = exchanges
  BY DEF RevokeBySessionID, TypeInv, TypeOK, SessionRow
<1>2. cur[s] # None
  BY <1>1, TokenOfHash DEF TypeInv, RowInv, Exists
<1>3. cur' = cur /\ s \notin rev /\ rev' = rev \cup {s}
  BY <1>1
<1>4. Chain!Close(s)
  BY <1>1, <1>2, <1>3 DEF Chain!Close
<1>5. QED
  BY <1>4 DEF Chain!Next

LEMMA RefineStep ==
    TypeInv /\ ChainInv /\ [Next]_vars => [Chain!Next]_(Chain!chainVars)
<1> SUFFICES ASSUME TypeInv, ChainInv, [Next]_vars
             PROVE  Chain!Next \/ UNCHANGED Chain!chainVars
  OBVIOUS
<1>1. ASSUME NEW r \in Requests, NEW delivered \in BOOLEAN,
             LoginCommit(r, delivered) \/ RefreshCommit(r, delivered)
      PROVE  Chain!Next
  BY <1>1, RefineOpen, RefineRedeem
<1>2. ASSUME NEW s \in SessionIds, RevokeBySessionID(s) PROVE Chain!Next
  BY <1>2, RefineClose
<1>3. CASE UNCHANGED <<sessions, exchanges>>
  BY <1>3, RefineStutter
<1>4. QED
  BY ZenonT(60), <1>1, <1>2, <1>3
  DEF Next, Arrive, Advance, Abort, Tick, vars, LoginFind, LoginInsert, RefreshStart, RefreshFind,
      RefreshFindRejects, RefreshCheckUser, RefreshCheckUserRejects, RefreshRotate,
      RefreshRotateRejects, UpdateStatusStart, UpdateStatus, UpdateStatusNoRows, UpdateStatusCommit

\* Rotation as the code does it, in several statements of concurrent and
\* failing transactions, implements redeeming tokens one at a time.
THEOREM Refinement == Spec => ImplementsRefreshChain
<1>1. QED
  BY TypeInit, TypeStep, ChainInit, ChainStep, RefineInit, RefineStep, PTL
  DEF Spec, ImplementsRefreshChain, Chain!Spec

-----------------------------------------------------------------------------
(***************************************************************************)
(* Only users that were enabled during the request are served              *)
(*                                                                         *)
(* The status may be read from a snapshot and the user may be disabled     *)
(* afterwards, so what is inductive is: enabledIn includes whoever is      *)
(* enabled now, and the owner once the check has been or will be passed.   *)
(***************************************************************************)
Cleared == {"loginChecked", "loginInserted", "refreshChecked", "refreshRotated"}
Unserved == {"idle", "statusStarted", "statusUpdated"}

OwnerOK(q, enabled) ==
    q.pc \in Cleared \/ (q.pc = "refreshFound" /\ q.status = "ENABLED") => q.user \in enabled

EnabledInv ==
    \A r \in Requests :
        /\ req[r].pc \notin Unserved => EnabledNow \subseteq enabledIn[r]
        /\ OwnerOK(req[r], enabledIn[r])

LEMMA EnabledInit == Init => EnabledInv
BY DEF Init, EnabledInv, OwnerOK, Cleared, Unserved, IdleRequest

\* A request begins: it sees who is enabled now.
LEMMA BeginEnabled ==
    ASSUME TypeInv, EnabledInv, NEW r \in Requests, NEW q \in Request, Goto(r, q),
           enabledIn' = [enabledIn EXCEPT ![r] = EnabledNow], users' = users,
           OwnerOK(q, EnabledNow)
    PROVE  EnabledInv'
<1>1. /\ req'[r] = q /\ enabledIn'[r] = EnabledNow
      /\ \A p \in Requests : p # r => req'[p] = req[p] /\ enabledIn'[p] = enabledIn[p]
  BY GotoReq DEF TypeInv, TypeOK
<1>2. EnabledNow' = EnabledNow
  BY DEF EnabledNow
<1>3. QED
  BY <1>1, <1>2 DEF EnabledInv, OwnerOK

\* A request goes on: what it has seen still counts.
LEMMA MoveEnabled ==
    ASSUME TypeInv, EnabledInv, NEW r \in Requests, NEW q \in Request, Goto(r, q),
           UNCHANGED <<enabledIn, users>>, req[r].pc \notin Unserved \/ q.pc \in Unserved,
           OwnerOK(q, enabledIn[r])
    PROVE  EnabledInv'
<1>1. req'[r] = q /\ \A p \in Requests : p # r => req'[p] = req[p]
  BY GotoReq DEF TypeInv
<1>2. EnabledNow' = EnabledNow
  BY DEF EnabledNow
<1>3. QED
  BY <1>1, <1>2 DEF EnabledInv, OwnerOK

\* A request is over.
LEMMA FinishEnabled ==
    ASSUME TypeInv, EnabledInv, NEW r \in Requests, Finish(r), users' = users
    PROVE  EnabledInv'
<1>1. /\ req'[r] = IdleRequest
      /\ \A p \in Requests : p # r => req'[p] = req[p] /\ enabledIn'[p] = enabledIn[p]
  BY GotoReq, IdleType DEF TypeInv, TypeOK, Finish
<1>2. EnabledNow' = EnabledNow
  BY DEF EnabledNow
<1>3. QED
  BY <1>1, <1>2 DEF EnabledInv, OwnerOK, IdleRequest, Cleared, Unserved

\* A status change commits: everybody who is being served observes it.
LEMMA StatusEnabled ==
    ASSUME TypeInv, EnabledInv, NEW r \in Requests, UpdateStatusCommit(r)
    PROVE  EnabledInv'
<1>1. /\ req'[r] = IdleRequest
      /\ \A p \in Requests : p # r => req'[p] = req[p]
  BY GotoReq, IdleType DEF TypeInv, UpdateStatusCommit
<1>2. \A p \in Requests : enabledIn[p] \subseteq enabledIn'[p]
  BY DEF UpdateStatusCommit
<1>3. req[r].user \in UserIds
  BY DEF UpdateStatusCommit, TypeInv, StepInv, StepOK, HasUser
<1>4. ASSUME NEW p \in Requests, req[p].pc \notin Unserved
      PROVE  EnabledNow' \subseteq enabledIn'[p]
  <2> SUFFICES ASSUME NEW u \in UserIds, users'[u] = "ENABLED" PROVE u \in enabledIn'[p]
    BY DEF EnabledNow
  <2>1. CASE u = req[r].user
    <3>1. req[r].status = "ENABLED"
      BY <1>3, <2>1 DEF UpdateStatusCommit, TypeInv, TypeOK
    <3>2. QED
      BY <1>4, <2>1, <3>1 DEF UpdateStatusCommit, Serving, Unserved
  <2>2. CASE u # req[r].user
    <3>1. users[u] = "ENABLED"
      BY <1>3, <2>2 DEF UpdateStatusCommit, TypeInv, TypeOK
    <3>2. u \in enabledIn[p]
      BY <1>4, <3>1 DEF EnabledInv, EnabledNow
    <3>3. QED
      BY <1>2, <3>2
  <2>3. QED
    BY <2>1, <2>2
<1>5. \A p \in Requests : req'[p].pc \notin Unserved => EnabledNow' \subseteq enabledIn'[p]
  BY <1>1, <1>4 DEF IdleRequest, Unserved
<1>6. \A p \in Requests : OwnerOK(req'[p], enabledIn'[p])
  BY <1>1, <1>2 DEF EnabledInv, OwnerOK, IdleRequest, Cleared
<1>7. QED
  BY <1>5, <1>6 DEF EnabledInv

LEMMA EnabledStep == TypeInv /\ EnabledInv /\ [Next]_vars => EnabledInv'
<1> SUFFICES ASSUME TypeInv, EnabledInv, [Next]_vars PROVE EnabledInv'
  OBVIOUS
<1>0. /\ now \in Nat
      /\ \A r \in Requests : req[r] \in Request /\ StepOK(req[r]) /\ OwnerOK(req[r], enabledIn[r])
      /\ \A r \in Requests : req[r].pc \notin Unserved => EnabledNow \subseteq enabledIn[r]
  BY DEF TypeInv, TypeOK, StepInv, EnabledInv
<1>1. ASSUME NEW r \in Requests, NEW u \in UserIds, LoginFind(r, u) PROVE EnabledInv'
  <2> DEFINE q == [req[r] EXCEPT !.pc = "loginChecked", !.user = u, !.at = now]
  <2>1. q \in Request /\ OwnerOK(q, EnabledNow)
    BY ZenonT(60), <1>0, <1>1 DEF LoginFind, Request, Step, OwnerOK, EnabledNow
  <2>2. QED
    BY <1>1, <2>1, BeginEnabled DEF LoginFind
<1>2. ASSUME NEW r \in Requests, NEW t \in Tokens \cup {ForgedToken}, RefreshStart(r, t)
      PROVE  EnabledInv'
  <2> DEFINE q == [req[r] EXCEPT !.pc = "refreshStarted", !.old = t, !.at = now]
  <2>1. q \in Request /\ OwnerOK(q, EnabledNow)
    BY ZenonT(60), <1>0, <1>2 DEF RefreshStart, Request, Step, AnyToken, OwnerOK, Cleared
  <2>2. QED
    BY <1>2, <2>1, BeginEnabled DEF RefreshStart
<1>3. ASSUME NEW r \in Requests, NEW s \in SessionIds, NEW t \in Tokens, LoginInsert(r, s, t)
      PROVE  EnabledInv'
  <2>0. PICK at \in Nat : Goto(r, [req[r] EXCEPT !.pc = "loginInserted", !.sid = s, !.new = t, !.at = at])
    BY <1>3, IssuedAt DEF TypeInv, TypeOK
  <2> DEFINE q == [req[r] EXCEPT !.pc = "loginInserted", !.sid = s, !.new = t, !.at = at]
  <2>1. q \in Request /\ OwnerOK(q, enabledIn[r]) /\ req[r].pc \notin Unserved
    BY ZenonT(60), <1>0, <1>3 DEF LoginInsert, Request, Step, AnyToken, OwnerOK, Cleared, Unserved
  <2>2. QED
    BY <1>3, <2>0, <2>1, MoveEnabled DEF LoginInsert
<1>4. ASSUME NEW r \in Requests, RefreshFind(r) PROVE EnabledInv'
  <2>1. PICK s \in SessionIds :
          /\ Exists(s)
          /\ Goto(r, [req[r] EXCEPT !.pc = "refreshFound", !.sid = s,
                                    !.user = sessions[s].user,
                                    !.version = sessions[s].version,
                                    !.status = users[sessions[s].user]])
    BY <1>4 DEF RefreshFind, FindByRefreshTokenHash
  <2> DEFINE q == [req[r] EXCEPT !.pc = "refreshFound", !.sid = s,
                                 !.user = sessions[s].user,
                                 !.version = sessions[s].version,
                                 !.status = users[sessions[s].user]]
  <2>2. sessions[s].user \in UserIds /\ sessions[s].version \in Nat
    BY <2>1 DEF TypeInv, RowInv, TypeOK, SessionRow
  <2>3. users[sessions[s].user] \in UserStatus
    BY <2>2 DEF TypeInv, TypeOK
  <2>4. q \in Request /\ req[r].pc \notin Unserved
    BY ZenonT(60), <1>0, <1>4, <2>2, <2>3 DEF RefreshFind, Request, Step, Unserved
  <2>5. q.pc = "refreshFound" /\ q.user = sessions[s].user /\ q.status = users[sessions[s].user]
    BY <1>0 DEF Request
  <2>6. OwnerOK(q, enabledIn[r])
    BY <1>0, <2>2, <2>4, <2>5 DEF OwnerOK, EnabledNow, Cleared
  <2>7. QED
    BY <1>4, <2>1, <2>4, <2>6, MoveEnabled DEF RefreshFind
<1>5. ASSUME NEW r \in Requests, RefreshCheckUser(r) PROVE EnabledInv'
  <2> DEFINE q == [req[r] EXCEPT !.pc = "refreshChecked", !.status = "ENABLED"]
  <2>1. q \in Request /\ q.user = req[r].user /\ req[r].pc = "refreshFound"
    BY ZenonT(60), <1>0, <1>5 DEF RefreshCheckUser, Request, Step, UserStatus
  <2>2. req[r].user \in UserIds /\ req[r].pc \notin Unserved
    BY <1>0, <2>1 DEF StepOK, HasUser, Unserved
  <2>3. req[r].user \in enabledIn[r]
    <3>1. CASE RepeatableRead
      BY <1>0, <1>5, <2>1, <3>1 DEF RefreshCheckUser, StatusRead, OwnerOK
    <3>2. CASE ~RepeatableRead
      BY <1>0, <1>5, <2>2, <3>2 DEF RefreshCheckUser, StatusRead, EnabledNow
    <3>3. QED
      BY <3>1, <3>2
  <2>4. QED
    BY <1>5, <2>1, <2>2, <2>3, MoveEnabled DEF RefreshCheckUser, OwnerOK
<1>6. ASSUME NEW r \in Requests, NEW t \in Tokens, RefreshRotate(r, t) PROVE EnabledInv'
  <2> DEFINE q == [req[r] EXCEPT !.pc = "refreshRotated", !.new = t]
  <2>1. q \in Request /\ OwnerOK(q, enabledIn[r]) /\ req[r].pc \notin Unserved
    BY ZenonT(60), <1>0, <1>6 DEF RefreshRotate, Request, Step, AnyToken, OwnerOK, Cleared, Unserved
  <2>2. QED
    BY <1>6, <2>1, MoveEnabled DEF RefreshRotate
<1>7. ASSUME NEW r \in Requests, NEW u \in UserIds, NEW status \in UserStatus,
             UpdateStatusStart(r, u, status)
      PROVE  EnabledInv'
  <2> DEFINE q == [req[r] EXCEPT !.pc = "statusStarted", !.user = u, !.status = status]
  <2>1. q \in Request /\ OwnerOK(q, enabledIn[r]) /\ q.pc \in Unserved
    BY <1>0, <1>7 DEF Request, Step, OwnerOK, Cleared, Unserved
  <2>2. QED
    BY <1>7, <2>1, MoveEnabled DEF UpdateStatusStart
<1>8. ASSUME NEW r \in Requests, UpdateStatus(r) PROVE EnabledInv'
  <2> DEFINE q == [req[r] EXCEPT !.pc = "statusUpdated"]
  <2>1. q \in Request /\ OwnerOK(q, enabledIn[r]) /\ q.pc \in Unserved
    BY <1>0, <1>8 DEF Request, Step, OwnerOK, Cleared, Unserved
  <2>2. QED
    BY <1>8, <2>1, MoveEnabled DEF UpdateStatus
<1>9. CASE UNCHANGED <<users, req, enabledIn>>
  BY <1>9 DEF EnabledInv, EnabledNow
<1>10. ASSUME NEW r \in Requests, Advance(r) PROVE EnabledInv'
  BY <1>3, <1>4, <1>5, <1>6, <1>8, <1>10, FinishEnabled, StatusEnabled
  DEF Advance, LoginCommit, RefreshCommit, RefreshFindRejects, RefreshCheckUserRejects,
      RefreshRotateRejects, UpdateStatusNoRows
<1>11. ASSUME NEW r \in Requests, Arrive(r) \/ Abort(r) PROVE EnabledInv'
  BY <1>1, <1>2, <1>7, <1>11, FinishEnabled DEF Arrive, Abort
<1>12. QED
  BY <1>9, <1>10, <1>11 DEF Next, RevokeBySessionID, Tick, vars

\* Neither login nor refresh serves a user who was disabled throughout the
\* request, although both read the status before they write.
THEOREM ServedEnabled == Spec => []ServedOnlyIfEnabled
<1>1. EnabledInv => ServedOnlyIfEnabled
  BY DEF EnabledInv, OwnerOK, Cleared, ServedOnlyIfEnabled
<1>2. QED
  BY TypeInit, TypeStep, EnabledInit, EnabledStep, <1>1, PTL DEF Spec

-----------------------------------------------------------------------------
(***************************************************************************)
(* Time                                                                    *)
(***************************************************************************)
\* The quotient of a division, as the provers need it.
LEMMA DivFacts ==
    ASSUME NEW a \in Nat, NEW b \in Nat \ {0}
    PROVE  a \div b \in Nat /\ b * (a \div b) <= a /\ a < b * (a \div b) + b
<1>1. a \div b \in Nat
  OBVIOUS
<1>2. b * (a \div b) <= a
  OBVIOUS
<1>3. a < b * (a \div b) + b
  OBVIOUS
<1>4. QED
  BY <1>1, <1>2, <1>3

\* MySQL's rounding adds at most half a second.
LEMMA RoundAbove ==
    ASSUME NEW t \in Nat
    PROVE  2 * RoundToSecond(t) <= 2 * t + TicksPerSecond
<1> DEFINE a == 2 * t + TicksPerSecond
           b == 2 * TicksPerSecond
           q == a \div b
<1>1. a \in Nat /\ b \in Nat \ {0}
  OBVIOUS
<1>2. q \in Nat /\ b * q <= a
  BY <1>1, DivFacts
<1>3. RoundToSecond(t) = q * TicksPerSecond
  BY DEF RoundToSecond
<1> HIDE DEF q
<1>4. b * q = 2 * (q * TicksPerSecond)
  BY <1>2
<1>5. QED
  BY <1>2, <1>3, <1>4

\* ... and keeps the order of instants.
LEMMA RoundMonotone ==
    ASSUME NEW t \in Nat, NEW u \in Nat, t <= u
    PROVE  RoundToSecond(t) <= RoundToSecond(u)
<1> DEFINE P == TicksPerSecond
           b == 2 * TicksPerSecond
           x == (2 * t + P) \div b
           y == (2 * u + P) \div b
<1>1. b \in Nat \ {0} /\ P \in Nat \ {0} /\ 2 * t + P \in Nat /\ 2 * u + P \in Nat
  OBVIOUS
<1>2. x \in Nat /\ b * x <= 2 * t + P
  BY <1>1, DivFacts
<1>3. y \in Nat /\ 2 * u + P < b * y + b
  BY <1>1, DivFacts
<1>4. RoundToSecond(t) = x * P /\ RoundToSecond(u) = y * P
  BY DEF RoundToSecond
<1> HIDE DEF x, y, b, P
<1>5. b * x < b * (y + 1)
  BY <1>1, <1>2, <1>3
<1>6. x <= y
  <2> SUFFICES ASSUME y + 1 <= x PROVE FALSE
    BY <1>2, <1>3
  <2>1. b * (y + 1) <= b * x
    BY <1>1, <1>2, <1>3
  <2>2. QED
    BY <1>1, <1>2, <1>3, <1>5, <2>1
<1>7. x * P <= y * P
  BY <1>1, <1>2, <1>3, <1>6
<1>8. QED
  BY <1>4, <1>7

Refreshing == {"refreshStarted", "refreshFound", "refreshChecked", "refreshRotated"}

\* The expiry of a row is that of the token it holds.
ExpiryInv ==
    \A s \in SessionIds, t \in Tokens :
        Exists(s) /\ sessions[s].hash = Hash(t) =>
            sessions[s].expires = RoundToSecond(born[t] + RefreshTTL)

\* A token is received after it was born.
ReceivedInv == \A t \in known : born[t] <= now

\* A token is presented after it was received, and one that is still being
\* written was received by nobody.
TimeOK(q) ==
    /\ q.pc \in Refreshing =>
         /\ q.at <= now
         /\ q.old \in Tokens => q.old \in known /\ born[q.old] <= q.at
    /\ q.pc \in HasWritten => q.new \notin known /\ q.at <= now

TimeInv == ExpiryInv /\ ReceivedInv /\ \A r \in Requests : TimeOK(req[r])

LEMMA TimeInit == Init => TimeInv
BY DEF Init, TimeInv, ExpiryInv, ReceivedInv, TimeOK, Exists, NoRow, IdleRequest,
       Refreshing, HasWritten

LEMMA IdleTime == TimeOK(IdleRequest)
BY DEF TimeOK, IdleRequest, Refreshing, HasWritten

\* A step that moves one request on.
LEMMA MoveTime ==
    ASSUME TypeInv, TimeInv, NEW r \in Requests, NEW q \in Request, Goto(r, q), TimeOK(q),
           UNCHANGED <<sessions, born, known, now>>
    PROVE  TimeInv'
<1>1. \A p \in Requests : req'[p] = q \/ req'[p] = req[p]
  BY GotoReq DEF TypeInv
<1>2. ExpiryInv' /\ ReceivedInv'
  BY DEF TimeInv, ExpiryInv, ReceivedInv, Exists
<1>3. \A p \in Requests : TimeOK(req[p])' 
  BY <1>1 DEF TimeInv, TimeOK
<1>4. QED
  BY <1>2, <1>3 DEF TimeInv

\* The commit of a login or of a rotation gives a token to a session.
LEMMA CommitTime ==
    ASSUME TypeInv, ChainInv, TimeInv, NEW r \in Requests, NEW delivered \in BOOLEAN,
           req[r].pc \in HasWritten,
           sessions'[req[r].sid].hash = Hash(req[r].new),
           sessions'[req[r].sid].expires = RoundToSecond(req[r].at + RefreshTTL),
           \A s \in SessionIds : s # req[r].sid => sessions'[s] = sessions[s],
           born' = [born EXCEPT ![req[r].new] = req[r].at],
           known' = (IF delivered THEN known \cup {req[r].new} ELSE known),
           now' = now, Goto(r, IdleRequest)
    PROVE  TimeInv'
<1> DEFINE new == req[r].new
           at == req[r].at
<1>1. new \in Tokens /\ new \notin known /\ at <= now
  BY DEF TypeInv, StepInv, StepOK, TimeInv, TimeOK
<1>2. /\ \A s \in SessionIds : sessions[s].hash # Hash(new)
      /\ \A q \in Requests : q # r => req[q].new # new
  BY DEF ChainInv, DrawnInv
<1>3. born'[new] = at /\ \A t \in Tokens : t # new => born'[t] = born[t]
  BY <1>1 DEF TypeInv, TypeOK
<1>4. \A p \in Requests : req'[p] = IdleRequest \/ (p # r /\ req'[p] = req[p])
  BY GotoReq, IdleType DEF TypeInv
<1>5. ExpiryInv'
  <2> SUFFICES ASSUME NEW s \in SessionIds, NEW t \in Tokens, Exists(s)', sessions'[s].hash = Hash(t)
               PROVE  sessions'[s].expires = RoundToSecond(born'[t] + RefreshTTL)
    BY DEF ExpiryInv
  <2>1. CASE s = req[r].sid
    BY <1>3, <2>1, HashInjective
  <2>2. CASE s # req[r].sid
    <3>1. sessions'[s] = sessions[s] /\ Exists(s) /\ t # new
      BY <1>2, <2>2 DEF Exists
    <3>2. QED
      BY <1>3, <3>1 DEF TimeInv, ExpiryInv
  <2>3. QED
    BY <2>1, <2>2
<1>6. ReceivedInv'
  <2>1. known \subseteq Tokens
    BY DEF TypeInv, TypeOK
  <2>2. QED
    BY <1>1, <1>3, <2>1 DEF TimeInv, ReceivedInv
<1>7. ASSUME NEW p \in Requests PROVE TimeOK(req[p])'
  <2>1. CASE req'[p] = IdleRequest
    BY <2>1 DEF TimeOK, IdleRequest, Refreshing, HasWritten
  <2>2. CASE p # r /\ req'[p] = req[p]
    <3>1. TimeOK(req[p]) /\ req[p].new # new
      BY <1>2, <2>2 DEF TimeInv
    <3>2. req[p].old \in Tokens /\ req[p].old \in known => born'[req[p].old] = born[req[p].old]
      BY <1>1, <1>3
    <3>3. QED
      BY <2>2, <3>1, <3>2 DEF TimeOK
  <2>3. QED
    BY <1>4, <2>1, <2>2
<1>8. QED
  BY <1>5, <1>6, <1>7 DEF TimeInv

LEMMA TimeStep == TypeInv /\ ChainInv /\ TimeInv /\ [Next]_vars => TimeInv'
<1> SUFFICES ASSUME TypeInv, ChainInv, TimeInv, [Next]_vars PROVE TimeInv'
  OBVIOUS
<1>0. /\ now \in Nat /\ known \subseteq Tokens
      /\ \A r \in Requests : req[r] \in Request /\ StepOK(req[r]) /\ TimeOK(req[r])
  BY DEF TypeInv, TypeOK, StepInv, TimeInv
<1>1. ASSUME NEW r \in Requests, NEW u \in UserIds, LoginFind(r, u) PROVE TimeInv'
  <2> DEFINE q == [req[r] EXCEPT !.pc = "loginChecked", !.user = u, !.at = now]
  <2>1. q \in Request /\ TimeOK(q)
    BY ZenonT(60), <1>0 DEF Request, Step, TimeOK, Refreshing, HasWritten
  <2>2. QED
    BY <1>1, <2>1, MoveTime DEF LoginFind
<1>2. ASSUME NEW r \in Requests, NEW t \in Tokens \cup {ForgedToken}, RefreshStart(r, t)
      PROVE  TimeInv'
  <2> DEFINE q == [req[r] EXCEPT !.pc = "refreshStarted", !.old = t, !.at = now]
  <2>1. q \in Request /\ q.pc = "refreshStarted" /\ q.old = t /\ q.at = now
    BY ZenonT(60), <1>0 DEF Request, Step, AnyToken
  <2>2. t \in Tokens => t \in known /\ born[t] <= now
    BY <1>2 DEF RefreshStart, TimeInv, ReceivedInv
  <2>3. TimeOK(q)
    BY <1>0, <2>1, <2>2 DEF TimeOK, HasWritten
  <2>4. QED
    BY <1>2, <2>1, <2>3, MoveTime DEF RefreshStart
<1>3. ASSUME NEW r \in Requests, NEW s \in SessionIds, NEW t \in Tokens, LoginInsert(r, s, t)
      PROVE  TimeInv'
  <2>0. PICK at \in Nat :
          /\ at <= now
          /\ Goto(r, [req[r] EXCEPT !.pc = "loginInserted", !.sid = s, !.new = t, !.at = at])
    BY <1>3, IssuedAt DEF TypeInv, TypeOK
  <2> DEFINE q == [req[r] EXCEPT !.pc = "loginInserted", !.sid = s, !.new = t, !.at = at]
  <2>1. q \in Request /\ q.pc = "loginInserted" /\ q.new = t /\ q.at = at
    BY ZenonT(60), <1>0 DEF Request, Step, AnyToken
  <2>2. TimeOK(q)
    BY <1>0, <1>3, <2>0, <2>1 DEF LoginInsert, Fresh, TimeOK, Refreshing
  <2>3. QED
    BY <1>3, <2>0, <2>1, <2>2, MoveTime DEF LoginInsert
<1>4. ASSUME NEW r \in Requests, NEW delivered \in BOOLEAN, LoginCommit(r, delivered)
      PROVE  TimeInv'
  <2>1. req[r].pc \in HasWritten /\ req[r].sid \in SessionIds
    BY <1>0, <1>4 DEF LoginCommit, HasWritten, StepOK, HasSession
  <2>2. /\ sessions'[req[r].sid].hash = Hash(req[r].new)
        /\ sessions'[req[r].sid].expires = RoundToSecond(req[r].at + RefreshTTL)
        /\ \A s \in SessionIds : s # req[r].sid => sessions'[s] = sessions[s]
    BY <1>4, <2>1 DEF LoginCommit, InsertedRow, TypeInv, TypeOK
  <2>3. QED
    BY <1>4, <2>1, <2>2, CommitTime DEF LoginCommit, Finish
<1>5. ASSUME NEW r \in Requests, RefreshFind(r) PROVE TimeInv'
  <2>1. PICK s \in SessionIds :
          /\ Exists(s)
          /\ Goto(r, [req[r] EXCEPT !.pc = "refreshFound", !.sid = s,
                                    !.user = sessions[s].user,
                                    !.version = sessions[s].version,
                                    !.status = users[sessions[s].user]])
    BY <1>5 DEF RefreshFind, FindByRefreshTokenHash
  <2> DEFINE q == [req[r] EXCEPT !.pc = "refreshFound", !.sid = s,
                                 !.user = sessions[s].user,
                                 !.version = sessions[s].version,
                                 !.status = users[sessions[s].user]]
  <2>2. sessions[s].user \in UserIds /\ sessions[s].version \in Nat
    BY <2>1 DEF TypeInv, RowInv, TypeOK, SessionRow
  <2>3. users[sessions[s].user] \in UserStatus
    BY <2>2 DEF TypeInv, TypeOK
  <2>4. q \in Request /\ q.pc = "refreshFound" /\ q.old = req[r].old /\ q.at = req[r].at
    BY ZenonT(60), <1>0, <2>2, <2>3 DEF Request, Step
  <2>5. TimeOK(q)
    BY <1>0, <1>5, <2>4 DEF RefreshFind, TimeOK, Refreshing, HasWritten
  <2>6. QED
    BY <1>5, <2>1, <2>4, <2>5, MoveTime DEF RefreshFind
<1>6. ASSUME NEW r \in Requests, RefreshCheckUser(r) PROVE TimeInv'
  <2> DEFINE q == [req[r] EXCEPT !.pc = "refreshChecked", !.status = "ENABLED"]
  <2>1. q \in Request /\ TimeOK(q)
    BY ZenonT(60), <1>0, <1>6 DEF RefreshCheckUser, Request, Step, UserStatus, TimeOK, Refreshing, HasWritten
  <2>2. QED
    BY <1>6, <2>1, MoveTime DEF RefreshCheckUser
<1>7. ASSUME NEW r \in Requests, NEW t \in Tokens, RefreshRotate(r, t) PROVE TimeInv'
  <2> DEFINE q == [req[r] EXCEPT !.pc = "refreshRotated", !.new = t]
  <2>1. /\ q \in Request /\ q.pc = "refreshRotated" /\ q.new = t
        /\ q.old = req[r].old /\ q.at = req[r].at
    BY ZenonT(60), <1>0 DEF Request, Step, AnyToken
  <2>2. TimeOK(q)
    BY <1>0, <1>7, <2>1 DEF RefreshRotate, Fresh, TimeOK, Refreshing
  <2>3. QED
    BY <1>7, <2>1, <2>2, MoveTime DEF RefreshRotate
<1>8. ASSUME NEW r \in Requests, NEW delivered \in BOOLEAN, RefreshCommit(r, delivered)
      PROVE  TimeInv'
  <2>1. req[r].pc \in HasWritten /\ req[r].sid \in SessionIds /\ req[r].new \in Tokens
    BY <1>0, <1>8 DEF RefreshCommit, HasWritten, StepOK, HasSession
  <2>2. /\ sessions'[req[r].sid] = RotatedRow(r)
        /\ \A s \in SessionIds : s # req[r].sid => sessions'[s] = sessions[s]
    BY <1>8, <2>1 DEF RefreshCommit, TypeInv, TypeOK
  <2>3. /\ RotatedRow(r).hash = Hash(req[r].new)
        /\ RotatedRow(r).expires = RoundToSecond(req[r].at + RefreshTTL)
    BY <2>1, RotatedRowFacts DEF TypeInv
  <2>4. QED
    BY <1>8, <2>1, <2>2, <2>3, CommitTime DEF RefreshCommit, Finish
<1>9. ASSUME NEW r \in Requests, NEW u \in UserIds, NEW status \in UserStatus,
             UpdateStatusStart(r, u, status)
      PROVE  TimeInv'
  <2> DEFINE q == [req[r] EXCEPT !.pc = "statusStarted", !.user = u, !.status = status]
  <2>1. q \in Request /\ TimeOK(q)
    BY ZenonT(60), <1>0 DEF Request, Step, TimeOK, Refreshing, HasWritten
  <2>2. QED
    BY <1>9, <2>1, MoveTime DEF UpdateStatusStart
<1>10. ASSUME NEW r \in Requests, UpdateStatus(r) PROVE TimeInv'
  <2> DEFINE q == [req[r] EXCEPT !.pc = "statusUpdated"]
  <2>1. q \in Request /\ TimeOK(q)
    BY <1>0 DEF Request, Step, TimeOK, Refreshing, HasWritten
  <2>2. QED
    BY <1>10, <2>1, MoveTime DEF UpdateStatus
<1>11. ASSUME NEW r \in Requests, Goto(r, IdleRequest), UNCHANGED <<sessions, born, known, now>>
       PROVE  TimeInv'
  BY <1>11, IdleType, IdleTime, MoveTime
<1>12. ASSUME NEW s \in SessionIds, RevokeBySessionID(s) PROVE TimeInv'
  <2>1. \A z \in SessionIds : /\ Exists(z)' <=> Exists(z)
                              /\ sessions'[z].hash = sessions[z].hash
                              /\ sessions'[z].expires = sessions[z].expires
    BY <1>12 DEF RevokeBySessionID, Exists, TypeInv, TypeOK, SessionRow
  <2>2. UNCHANGED <<req, born, known, now>>
    BY <1>12 DEF RevokeBySessionID
  <2>3. QED
    BY <2>1, <2>2 DEF TimeInv, ExpiryInv, ReceivedInv, TimeOK
<1>13. CASE Tick
  <2>1. now' = now + 1 /\ UNCHANGED <<sessions, req, born, known>>
    BY <1>13 DEF Tick
  <2>2. ExpiryInv'
    BY <2>1 DEF TimeInv, ExpiryInv, Exists
  <2>3. ReceivedInv'
    <3>1. born \in [Tokens -> Nat]
      BY DEF TypeInv, TypeOK
    <3>2. QED
      BY <1>0, <2>1, <3>1 DEF TimeInv, ReceivedInv
  <2>4. \A r \in Requests : TimeOK(req[r])'
    <3>1. \A r \in Requests : req[r].at \in Nat
      BY <1>0 DEF Request
    <3>2. QED
      BY <1>0, <2>1, <3>1 DEF TimeOK
  <2>5. QED
    BY <2>2, <2>3, <2>4 DEF TimeInv
<1>14. CASE UNCHANGED vars
  BY <1>14 DEF vars, TimeInv, ExpiryInv, ReceivedInv, TimeOK, Exists
<1>15. ASSUME NEW r \in Requests, Advance(r) PROVE TimeInv'
  BY <1>3, <1>4, <1>5, <1>6, <1>7, <1>8, <1>10, <1>11, <1>15
  DEF Advance, Finish, RefreshFindRejects, RefreshCheckUserRejects, RefreshRotateRejects,
      UpdateStatusNoRows, UpdateStatusCommit
<1>16. ASSUME NEW r \in Requests, Arrive(r) \/ Abort(r) PROVE TimeInv'
  BY <1>1, <1>2, <1>9, <1>11, <1>16 DEF Arrive, Abort, Finish
<1>17. QED
  BY <1>12, <1>13, <1>14, <1>15, <1>16 DEF Next

\* A rotation is granted only within the token's lifetime plus the half
\* second MySQL's rounding of refresh_expires_at may add.
THEOREM Honoured == Spec => []HonouredWithinLifetime
<1>1. TypeInv /\ ChainInv /\ TimeInv => HonouredWithinLifetime
  <2> SUFFICES ASSUME TypeInv, ChainInv, TimeInv, NEW r \in Requests, req[r].pc = "refreshRotated"
               PROVE  2 * req[r].at < 2 * (born[req[r].old] + RefreshTTL) + TicksPerSecond
    BY DEF HonouredWithinLifetime
  <2> DEFINE sid == req[r].sid
             x == born[req[r].old] + RefreshTTL
  <2>1. /\ req[r] \in Request /\ sid \in SessionIds /\ req[r].old \in Tokens /\ Exists(sid)
        /\ sessions[sid].hash = Hash(req[r].old) /\ sessions[sid].expires > req[r].at
    BY DEF TypeInv, TypeOK, StepInv, StepOK, FoundInv, HasFound, HasSession,
           ChainInv, RotatingInv, RotateMatches
  <2>2. sessions[sid].expires = RoundToSecond(x)
    BY <2>1 DEF TimeInv, ExpiryInv
  <2>3. x \in Nat /\ req[r].at \in Nat
    BY <2>1 DEF TypeInv, TypeOK, Request
  <2>4. 2 * RoundToSecond(x) <= 2 * x + TicksPerSecond /\ RoundToSecond(x) \in Nat
    <3> HIDE DEF x
    <3> QED  BY ONLY <2>3, RoundAbove, RoundType
  <2> HIDE DEF x, sid
  <2>5. 2 * req[r].at < 2 * x + TicksPerSecond
    <3> DEFINE round == RoundToSecond(x)
               at == req[r].at
    <3>1. round > at /\ 2 * round <= 2 * x + TicksPerSecond
      BY <2>1, <2>2, <2>4
    <3>2. round \in Nat /\ at \in Nat /\ x \in Nat /\ TicksPerSecond \in Nat
      BY <2>3, <2>4, TimeAssumption
    <3> HIDE DEF round, at
    <3>3. 2 * at < 2 * x + TicksPerSecond
      BY ONLY <3>1, <3>2
    <3> QED  BY <3>3 DEF at
  <2>6. QED
    BY <2>5 DEF x
<1>2. QED
  BY TypeInit, TypeStep, ChainInit, ChainStep, TimeInit, TimeStep, <1>1, PTL DEF Spec

\* What a step may do to one existing row.
Advances(s) ==
    /\ sessions'[s].user = sessions[s].user
    /\ sessions'[s].version >= sessions[s].version
    /\ sessions'[s].expires >= sessions[s].expires
    /\ sessions[s].status = "REVOKED" => sessions'[s] = sessions[s]

LEMMA AdvanceStep ==
    ASSUME TypeInv, ChainInv, TimeInv, [Next]_vars, NEW s \in SessionIds, Exists(s)
    PROVE  Advances(s)
<1>0. sessions[s] \in SessionRow /\ sessions[s].version \in Nat /\ sessions[s].expires \in Nat
  BY DEF TypeInv, TypeOK, SessionRow
<1>1. CASE sessions'[s] = sessions[s]
  BY <1>0, <1>1 DEF Advances
<1>2. ASSUME NEW r \in Requests, NEW delivered \in BOOLEAN, LoginCommit(r, delivered)
      PROVE  Advances(s)
  <2>1. req[r].sid # s
    BY <1>2 DEF LoginCommit, ChainInv, InsertingInv
  <2>2. QED
    BY <1>1, <1>2, <2>1 DEF LoginCommit, TypeInv, TypeOK
<1>3. ASSUME NEW r \in Requests, NEW delivered \in BOOLEAN, RefreshCommit(r, delivered)
      PROVE  Advances(s)
  <2>1. CASE s # req[r].sid
    BY <1>1, <1>3, <2>1 DEF RefreshCommit, TypeInv, TypeOK
  <2>2. CASE s = req[r].sid
    <3> DEFINE x == born[req[r].old] + RefreshTTL
               y == req[r].at + RefreshTTL
    <3>1. /\ req[r] \in Request /\ req[r].pc \in Refreshing
          /\ req[r].old \in Tokens /\ req[r].new \in Tokens
          /\ sessions[s].hash = Hash(req[r].old) /\ sessions[s].status = "ACTIVE"
      BY <1>3, <2>2 DEF RefreshCommit, TypeInv, TypeOK, StepInv, StepOK, HasFound, HasWritten,
                        Refreshing, ChainInv, RotatingInv, RotateMatches
    <3>2. sessions'[s] = RotatedRow(r)
      BY <1>3, <2>2 DEF RefreshCommit, TypeInv, TypeOK
    <3>3. /\ RotatedRow(r).user = sessions[s].user
          /\ RotatedRow(r).version = sessions[s].version + 1
          /\ RotatedRow(r).expires = RoundToSecond(y)
      BY <2>2, <3>1, RotatedRowFacts DEF TypeInv
    <3>4. sessions[s].expires = RoundToSecond(x)
      BY <3>1 DEF TimeInv, ExpiryInv
    <3>5. born[req[r].old] \in Nat /\ req[r].at \in Nat /\ born[req[r].old] <= req[r].at
      BY <3>1 DEF TimeInv, TimeOK, TypeInv, TypeOK, Request
    <3>6. x \in Nat /\ y \in Nat /\ x <= y
      BY <3>5
    <3>7. RoundToSecond(x) <= RoundToSecond(y) /\ RoundToSecond(y) \in Nat
      BY <3>6, RoundMonotone, RoundType
    <3> HIDE DEF x, y
    <3>8. QED
      BY <1>0, <3>1, <3>2, <3>3, <3>4, <3>7 DEF Advances
  <2>3. QED
    BY <2>1, <2>2
<1>4. ASSUME NEW z \in SessionIds, RevokeBySessionID(z) PROVE Advances(s)
  <2>1. CASE z = s
    <3>1. /\ sessions'[s].user = sessions[s].user /\ sessions[s].status = "ACTIVE"
          /\ sessions'[s].version = sessions[s].version + 1
          /\ sessions'[s].expires = sessions[s].expires
      BY <1>0, <1>4, <2>1 DEF RevokeBySessionID, TypeInv, TypeOK, SessionRow
    <3>2. QED
      BY <1>0, <3>1 DEF Advances
  <2>2. CASE z # s
    BY <1>1, <1>4, <2>2 DEF RevokeBySessionID, TypeInv, TypeOK
  <2>3. QED
    BY <2>1, <2>2
<1>5. CASE UNCHANGED sessions
  BY <1>1, <1>5
<1>6. QED
  BY ZenonT(60), <1>2, <1>3, <1>4, <1>5
  DEF Next, Arrive, Advance, Abort, Tick, vars, LoginFind, LoginInsert, RefreshStart, RefreshFind,
      RefreshFindRejects, RefreshCheckUser, RefreshCheckUserRejects, RefreshRotate,
      RefreshRotateRejects, UpdateStatusStart, UpdateStatus, UpdateStatusNoRows, UpdateStatusCommit

\* Rows never go back, although refreshedAt is read before the transaction
\* and the row may be rotated by others meanwhile.
THEOREM RowsAdvance == Spec => SessionsOnlyAdvance
<1>1. TypeInv /\ ChainInv /\ TimeInv /\ [Next]_vars =>
        [\A s \in SessionIds : Exists(s) =>
            /\ sessions'[s].user = sessions[s].user
            /\ sessions'[s].version >= sessions[s].version
            /\ sessions'[s].expires >= sessions[s].expires
            /\ sessions[s].status = "REVOKED" => sessions'[s] = sessions[s]]_sessions
  BY AdvanceStep DEF Advances
<1>2. QED
  BY TypeInit, TypeStep, ChainInit, ChainStep, TimeInit, TimeStep, <1>1, PTL
  DEF Spec, SessionsOnlyAdvance

-----------------------------------------------------------------------------
(***************************************************************************)
(* The version column counts the committed changes of its row              *)
(***************************************************************************)
Exchanged(s) == {e \in exchanges : e.sid = s}

VersionInv ==
    /\ IsFiniteSet(exchanges)
    /\ \A e \in exchanges : Exists(e.sid)
    /\ VersionCountsChanges

LEMMA VersionInit == Init => VersionInv
<1> SUFFICES ASSUME Init PROVE VersionInv
  OBVIOUS
<1>1. exchanges = {} /\ \A s \in SessionIds : sessions[s].version = 0 /\ sessions[s].status = "NONE"
  BY DEF Init, NoRow
<1>2. IsFiniteSet(exchanges) /\ \A s \in SessionIds : Cardinality({e \in exchanges : e.sid = s}) = 0
  <2>1. \A s \in SessionIds : {e \in exchanges : e.sid = s} = {}
    BY <1>1
  <2>2. IsFiniteSet({}) /\ Cardinality({}) = 0
    BY ONLY FS_EmptySet, Zenon
  <2>3. QED
    BY <1>1, <2>1, <2>2
<1>3. QED
  BY <1>1, <1>2 DEF VersionInv, VersionCountsChanges

LEMMA VersionStep == TypeInv /\ ChainInv /\ VersionInv /\ [Next]_vars => VersionInv'
<1> SUFFICES ASSUME TypeInv, ChainInv, VersionInv, [Next]_vars PROVE VersionInv'
  OBVIOUS
<1>0. /\ IsFiniteSet(exchanges) /\ \A e \in exchanges : Exists(e.sid) /\ e.sid \in SessionIds
      /\ \A s \in SessionIds : IsFiniteSet(Exchanged(s)) /\ Cardinality(Exchanged(s)) \in Nat
      /\ \A s \in SessionIds : sessions[s].version =
           Cardinality(Exchanged(s)) + (IF sessions[s].status = "REVOKED" THEN 1 ELSE 0)
  <2>1. IsFiniteSet(exchanges) /\ \A s \in SessionIds : Exchanged(s) \subseteq exchanges
    BY DEF VersionInv, Exchanged
  <2>2. \A s \in SessionIds : IsFiniteSet(Exchanged(s)) /\ Cardinality(Exchanged(s)) \in Nat
    BY <2>1, FS_Subset, FS_CardinalityType
  <2>3. QED
    BY <2>1, <2>2 DEF VersionInv, VersionCountsChanges, Exchanged, TypeInv, TypeOK, Exchange
<1>1. ASSUME NEW r \in Requests, NEW delivered \in BOOLEAN, LoginCommit(r, delivered)
      PROVE  VersionInv'
  <2> DEFINE sid == req[r].sid
  <2>1. sid \in SessionIds /\ ~Exists(sid)
    BY <1>1 DEF LoginCommit, TypeInv, StepInv, StepOK, HasSession, ChainInv, InsertingInv
  <2>2. /\ sessions'[sid].version = 0 /\ sessions'[sid].status = "ACTIVE" /\ exchanges' = exchanges
        /\ \A s \in SessionIds : s # sid => sessions'[s] = sessions[s]
    BY <1>1, <2>1 DEF LoginCommit, InsertedRow, TypeInv, TypeOK
  <2>3. Cardinality(Exchanged(sid)) = 0
    <3>1. Exchanged(sid) = {}
      BY <1>0, <2>1 DEF Exchanged
    <3>2. QED
      BY <3>1, FS_EmptySet
  <2>4. \A e \in exchanges : Exists(e.sid)'
    BY <1>0, <2>1, <2>2 DEF Exists
  <2>5. \A s \in SessionIds : sessions'[s].version =
           Cardinality(Exchanged(s)) + (IF sessions'[s].status = "REVOKED" THEN 1 ELSE 0)
    BY <1>0, <2>1, <2>2, <2>3
  <2>6. QED
    BY <1>0, <2>2, <2>4, <2>5 DEF VersionInv, VersionCountsChanges, Exchanged
<1>2. ASSUME NEW r \in Requests, NEW delivered \in BOOLEAN, RefreshCommit(r, delivered)
      PROVE  VersionInv'
  <2> DEFINE sid == req[r].sid
             ex  == [sid |-> req[r].sid, old |-> req[r].old, new |-> req[r].new]
  <2>1. /\ sid \in SessionIds /\ req[r].new \in Tokens /\ Exists(sid)
        /\ sessions[sid].hash = Hash(req[r].old) /\ sessions[sid].status = "ACTIVE"
    BY <1>2 DEF RefreshCommit, TypeInv, StepInv, StepOK, FoundInv, HasSession, HasFound, HasWritten,
                ChainInv, RotatingInv, RotateMatches
  <2>2. /\ sessions'[sid] = RotatedRow(r)
        /\ \A s \in SessionIds : s # sid => sessions'[s] = sessions[s]
        /\ exchanges' = exchanges \cup {ex} /\ ex.old = req[r].old /\ ex.sid = sid
    BY <1>2, <2>1 DEF RefreshCommit, TypeInv, TypeOK
  <2>3. /\ RotatedRow(r).status = "ACTIVE"
        /\ RotatedRow(r).version = sessions[sid].version + 1
    BY <2>1, RotatedRowFacts DEF TypeInv
  <2>4. ex \notin exchanges
    BY <2>1, <2>2 DEF ChainInv, SpentInv
  <2> HIDE DEF ex
  <2>5. IsFiniteSet(exchanges')
    BY <1>0, <2>2, FS_AddElement
  <2>6. \A e \in exchanges' : Exists(e.sid)'
    BY <1>0, <2>1, <2>2, <2>3 DEF Exists
  <2>7. /\ {e \in exchanges' : e.sid = sid} = Exchanged(sid) \cup {ex}
        /\ \A s \in SessionIds : s # sid => {e \in exchanges' : e.sid = s} = Exchanged(s)
    BY <2>2 DEF Exchanged
  <2>8. Cardinality(Exchanged(sid) \cup {ex}) = Cardinality(Exchanged(sid)) + 1
    <3>1. ex \notin Exchanged(sid) /\ IsFiniteSet(Exchanged(sid))
      BY <1>0, <2>1, <2>4 DEF Exchanged
    <3>2. QED
      BY <3>1, FS_AddElement
  <2>9. ASSUME NEW s \in SessionIds
        PROVE  sessions'[s].version = Cardinality({e \in exchanges' : e.sid = s})
                                      + (IF sessions'[s].status = "REVOKED" THEN 1 ELSE 0)
    <3>1. CASE s = sid
      <4>1. sessions[sid].version = Cardinality(Exchanged(sid))
        BY <1>0, <2>1
      <4>2. sessions'[sid].version = Cardinality(Exchanged(sid)) + 1 /\ sessions'[sid].status = "ACTIVE"
        BY <2>2, <2>3, <4>1
      <4>3. Cardinality({e \in exchanges' : e.sid = s}) = Cardinality(Exchanged(sid)) + 1
        BY <2>7, <2>8, <3>1
      <4>4. Cardinality(Exchanged(sid)) \in Nat
        BY <1>0, <2>1
      <4>5. QED
        BY <3>1, <4>2, <4>3, <4>4
    <3>2. CASE s # sid
      <4>1. {e \in exchanges' : e.sid = s} = Exchanged(s) /\ sessions'[s] = sessions[s]
        BY <2>2, <2>7, <3>2
      <4>2. QED
        BY <1>0, <4>1
    <3>3. QED
      BY <3>1, <3>2
  <2>10. QED
    BY <2>5, <2>6, <2>9 DEF VersionInv, VersionCountsChanges
<1>3. ASSUME NEW z \in SessionIds, RevokeBySessionID(z) PROVE VersionInv'
  <2>1. /\ exchanges' = exchanges
        /\ sessions[z].status = "ACTIVE" /\ sessions'[z].status = "REVOKED"
        /\ sessions'[z].version = sessions[z].version + 1
        /\ \A s \in SessionIds : s # z => sessions'[s] = sessions[s]
    BY <1>3 DEF RevokeBySessionID, TypeInv, TypeOK, SessionRow
  <2>2. \A e \in exchanges : Exists(e.sid)'
    BY <1>0, <2>1 DEF Exists
  <2>3. \A s \in SessionIds : sessions'[s].version =
           Cardinality(Exchanged(s)) + (IF sessions'[s].status = "REVOKED" THEN 1 ELSE 0)
    BY <1>0, <2>1
  <2>4. QED
    BY <1>0, <2>1, <2>2, <2>3 DEF VersionInv, VersionCountsChanges, Exchanged
<1>4. CASE UNCHANGED <<sessions, exchanges>>
  BY <1>4 DEF VersionInv, VersionCountsChanges, Exists
<1>5. QED
  BY ZenonT(60), <1>1, <1>2, <1>3, <1>4
  DEF Next, Arrive, Advance, Abort, Tick, vars, LoginFind, LoginInsert, RefreshStart, RefreshFind,
      RefreshFindRejects, RefreshCheckUser, RefreshCheckUserRejects, RefreshRotate,
      RefreshRotateRejects, UpdateStatusStart, UpdateStatus, UpdateStatusNoRows, UpdateStatusCommit

\* The optimistic lock of ConditionalRotate never drifts from the history of
\* the row it guards.
THEOREM VersionExact == Spec => []VersionCountsChanges
<1>1. VersionInv => VersionCountsChanges
  BY DEF VersionInv
<1>2. QED
  BY TypeInit, TypeStep, ChainInit, ChainStep, VersionInit, VersionStep, <1>1, PTL DEF Spec
=============================================================================
