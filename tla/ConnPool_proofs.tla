--------------------------- MODULE ConnPool_proofs ---------------------------
(***************************************************************************)
(* The invariants of ConnPool, for every number of requests and of         *)
(* connections.  The inductive invariant says what a connection is out for *)
(* (PoolInv) and how far a transaction has come (CountInv).                *)
(***************************************************************************)
EXTENDS ConnPool, TLAPS

\* A connection is out for one statement or BeginTx of its owner, or it is the
\* one of its owner's open transaction; nobody in a transaction waits for or
\* uses another.
Fits(r) ==
    /\ \A c \in Conns : owner[c] = r => pc[r] = "using" \/ (pc[r] = "next" /\ tx[r] = c)
    /\ \A c, d \in Conns : (owner[c] = r /\ owner[d] = r) => c = d
    /\ tx[r] # NoConn => owner[tx[r]] = r /\ stage[r] = "within" /\ pc[r] = "next"
    /\ pc[r] \in {"waiting", "using"} => stage[r] # "within" /\ (left[r] = 0 => BeginsTx(r))

PoolInv == \A r \in Requests : Fits(r)

\* The statements of the closure are counted; the commit comes after the last.
CountFits(r) ==
    /\ stage[r] = "before" => ran[r] = 0 /\ ~committed[r]
    /\ stage[r] = "within" => ran[r] + left[r] = Statements[op[r]].within
    /\ (stage[r] = "within" /\ committed[r]) => left[r] = 0
    /\ stage[r] = "after" => ran[r] = Statements[op[r]].within /\ committed[r]
    /\ (outcome[r] = "ok" /\ Statements[op[r]].within > 0) => committed[r]

CountInv == \A r \in Requests : CountFits(r)

ConnInv == TypeOK /\ PoolInv /\ CountInv

\* What the proofs need to know of the operations.
LEMMA StatementFacts ==
    /\ \A o \in Ops : /\ Statements[o].before \in Nat
                      /\ Statements[o].within \in Nat
                      /\ Statements[o].after \in Nat
    /\ Statements["list"].within = 0
BY OpsAssumption DEF Statements

\* The counts are opaque from here on.
LEMMA ConnInit == Init => ConnInv
<1> SUFFICES ASSUME Init PROVE ConnInv
  OBVIOUS
<1> USE StatementFacts, PoolAssumption
<1>1. \A r \in Requests : op[r] \in Ops /\ pc[r] = "idle" /\ stage[r] = "before" /\ tx[r] = NoConn
  BY DEF Init
<1>2. \A r \in Requests : ran[r] = 0 /\ left[r] \in Nat
  BY <1>1 DEF Init
<1>3. \A r \in Requests : committed[r] = FALSE /\ outcome[r] = "none"
  BY DEF Init
<1>4. \A c \in Conns : owner[c] = NoOne
  BY DEF Init
<1>5. TypeOK
  <2>1. left \in [Requests -> Nat] /\ ran \in [Requests -> Nat]
    BY <1>2 DEF Init
  <2>2. cancelled \in [Requests -> BOOLEAN] /\ committed \in [Requests -> BOOLEAN]
    BY Zenon DEF Init
  <2>3. owner \in [Conns -> Requests \cup {NoOne}] /\ tx \in [Requests -> Conns \cup {NoConn}]
    BY Zenon DEF Init
  <2>4. op \in [Requests -> Ops] /\ pc \in [Requests -> {"idle", "next", "waiting", "using", "done"}]
    BY DEF Init
  <2>5. /\ stage \in [Requests -> {"before", "within", "after"}]
        /\ outcome \in [Requests -> {"none", "ok", "error"}]
    BY DEF Init
  <2> QED  BY ONLY <2>1, <2>2, <2>3, <2>4, <2>5, Zenon DEF TypeOK
<1>6. PoolInv
  BY <1>1, <1>4 DEF PoolInv, Fits
<1>7. CountInv
  BY <1>1, <1>2, <1>3 DEF CountInv, CountFits
<1> QED  BY <1>5, <1>6, <1>7 DEF ConnInv

\* The types are inductive, because no statement is counted below zero.
LEMMA TypeStep == TypeOK /\ [Next]_vars => TypeOK'
<1> SUFFICES ASSUME TypeOK, [Next]_vars
             PROVE  TypeOK'
  OBVIOUS
<1> USE StatementFacts, PoolAssumption DEF TypeOK
<1>1. ASSUME NEW r \in Requests, Arrive(r) PROVE TypeOK'
  BY <1>1 DEF Arrive
<1>2. ASSUME NEW r \in Requests, Connect(r) PROVE TypeOK'
  BY <1>2 DEF Connect, UsesTx, BeginsTx
<1>3. ASSUME NEW r \in Requests, NEW c \in Conns, PutConn(r, c) PROVE TypeOK'
  BY <1>3 DEF PutConn
<1>4. ASSUME NEW r \in Requests, Statement(r) PROVE TypeOK'
  BY <1>4 DEF Statement, Release, Held
<1>5. ASSUME NEW r \in Requests, NEW c \in Conns, BeginTx(r, c) PROVE TypeOK'
  BY <1>5 DEF BeginTx
<1>6. ASSUME NEW r \in Requests, StatementInTx(r) PROVE TypeOK'
  BY <1>6 DEF StatementInTx, UsesTx
<1>7. ASSUME NEW r \in Requests, Commit(r) PROVE TypeOK'
  BY <1>7 DEF Commit, Release
<1>8. ASSUME NEW r \in Requests, CommitFails(r) PROVE TypeOK'
  BY <1>8 DEF CommitFails, End, Release, Held
<1>9. ASSUME NEW r \in Requests, Fail(r) PROVE TypeOK'
  BY <1>9 DEF Fail, End, Release, Held
<1>10. ASSUME NEW r \in Requests, Panic(r) PROVE TypeOK'
  BY <1>10 DEF Panic, End, Release, Held
<1>11. ASSUME NEW r \in Requests, Return(r) PROVE TypeOK'
  BY <1>11 DEF Return, End, Release, Held, BeginsTx
<1>12. ASSUME NEW r \in Requests, Cancel(r) PROVE TypeOK'
  BY <1>12 DEF Cancel
<1>13. ASSUME NEW r \in Requests, AwaitDone(r) PROVE TypeOK'
  BY <1>13 DEF AwaitDone, Release
<1>14. CASE UNCHANGED vars
  BY <1>14 DEF vars, request
<1> HIDE DEF TypeOK
<1> QED  BY <1>1, <1>2, <1>3, <1>4, <1>5, <1>6, <1>7, <1>8, <1>9, <1>10,
         <1>11, <1>12, <1>13, <1>14
         DEF Next, Step

\* A step of another request: nothing that Fits speaks of changes.
Same(r) ==
    /\ op'[r] = op[r] /\ pc'[r] = pc[r] /\ stage'[r] = stage[r]
    /\ left'[r] = left[r] /\ tx'[r] = tx[r]
    /\ \A c \in Conns : owner'[c] = r <=> owner[c] = r

LEMMA SameFits ==
    ASSUME TypeOK, NEW r \in Requests, Fits(r), Same(r)
    PROVE  Fits(r)'
<1>1. tx[r] \in Conns \cup {NoConn}
  BY DEF TypeOK
<1>2. BeginsTx(r)' = BeginsTx(r)
  BY DEF BeginsTx, Same
<1>3. tx[r] # NoConn => tx'[r] \in Conns /\ owner'[tx'[r]] = r
  BY <1>1 DEF Fits, Same
<1> QED  BY <1>1, <1>2, <1>3 DEF Fits, Same

\* Every action is one of a single request.
LEMMA OneFits ==
    ASSUME TypeOK, PoolInv, NEW r \in Requests,
           \A s \in Requests \ {r} : Same(s), Fits(r)'
    PROVE  PoolInv'
BY SameFits DEF PoolInv

\* What connections are out for: the heart of the argument.
LEMMA PoolStep == TypeOK /\ PoolInv /\ [Next]_vars => PoolInv'
<1> SUFFICES ASSUME TypeOK, PoolInv, [Next]_vars
             PROVE  PoolInv'
  OBVIOUS
<1> USE StatementFacts, PoolAssumption
<1>1. ASSUME NEW r \in Requests, Arrive(r) PROVE PoolInv'
  <2>1. ASSUME NEW s \in Requests \ {r} PROVE Same(s)
    BY <1>1 DEF TypeOK, Same, Arrive
  <2>2. Fits(r)'
    BY <1>1 DEF TypeOK, PoolInv, Fits, BeginsTx, Arrive
  <2> QED  BY <2>1, <2>2, OneFits
<1>2. ASSUME NEW r \in Requests, Connect(r) PROVE PoolInv'
  <2>1. ASSUME NEW s \in Requests \ {r} PROVE Same(s)
    BY <1>2 DEF TypeOK, Same, Connect, UsesTx, BeginsTx
  <2>2. Fits(r)'
    BY <1>2 DEF TypeOK, PoolInv, Fits, BeginsTx, Connect, UsesTx
  <2> QED  BY <2>1, <2>2, OneFits
<1>3. ASSUME NEW r \in Requests, NEW c \in Conns, PutConn(r, c) PROVE PoolInv'
  <2>1. ASSUME NEW s \in Requests \ {r} PROVE Same(s)
    BY <1>3 DEF TypeOK, Same, PutConn
  <2>2. Fits(r)'
    BY <1>3 DEF TypeOK, PoolInv, Fits, BeginsTx, PutConn
  <2> QED  BY <2>1, <2>2, OneFits
<1>4. ASSUME NEW r \in Requests, Statement(r) PROVE PoolInv'
  <2>1. ASSUME NEW s \in Requests \ {r} PROVE Same(s)
    BY <1>4 DEF TypeOK, Same, Statement, Release, Held
  <2>2. Fits(r)'
    BY <1>4 DEF TypeOK, PoolInv, Fits, BeginsTx, Statement, Release, Held
  <2> QED  BY <2>1, <2>2, OneFits
<1>5. ASSUME NEW r \in Requests, NEW c \in Conns, BeginTx(r, c) PROVE PoolInv'
  <2>1. ASSUME NEW s \in Requests \ {r} PROVE Same(s)
    BY <1>5 DEF TypeOK, Same, BeginTx
  <2>2. Fits(r)'
    BY <1>5 DEF TypeOK, PoolInv, Fits, BeginsTx, BeginTx
  <2> QED  BY <2>1, <2>2, OneFits
<1>6. ASSUME NEW r \in Requests, StatementInTx(r) PROVE PoolInv'
  <2>1. ASSUME NEW s \in Requests \ {r} PROVE Same(s)
    BY <1>6 DEF TypeOK, Same, StatementInTx, UsesTx
  <2>2. Fits(r)'
    BY <1>6 DEF TypeOK, PoolInv, Fits, BeginsTx, StatementInTx, UsesTx
  <2> QED  BY <2>1, <2>2, OneFits
<1>7. ASSUME NEW r \in Requests, Commit(r) PROVE PoolInv'
  <2>1. ASSUME NEW s \in Requests \ {r} PROVE Same(s)
    BY <1>7 DEF TypeOK, PoolInv, Fits, Same, Commit, Release
  <2>2. Fits(r)'
    BY <1>7 DEF TypeOK, PoolInv, Fits, BeginsTx, Commit, Release
  <2> QED  BY <2>1, <2>2, OneFits
<1>8. ASSUME NEW r \in Requests, CommitFails(r) PROVE PoolInv'
  <2>1. ASSUME NEW s \in Requests \ {r} PROVE Same(s)
    BY <1>8 DEF TypeOK, Same, CommitFails, End, Release, Held
  <2>2. Fits(r)'
    BY <1>8 DEF TypeOK, PoolInv, Fits, BeginsTx, CommitFails, End, Release, Held
  <2> QED  BY <2>1, <2>2, OneFits
<1>9. ASSUME NEW r \in Requests, Fail(r) PROVE PoolInv'
  <2>1. ASSUME NEW s \in Requests \ {r} PROVE Same(s)
    BY <1>9 DEF TypeOK, Same, Fail, End, Release, Held
  <2>2. Fits(r)'
    BY <1>9 DEF TypeOK, PoolInv, Fits, BeginsTx, Fail, End, Release, Held
  <2> QED  BY <2>1, <2>2, OneFits
<1>10. ASSUME NEW r \in Requests, Panic(r) PROVE PoolInv'
  <2>1. ASSUME NEW s \in Requests \ {r} PROVE Same(s)
    BY <1>10 DEF TypeOK, Same, Panic, End, Release, Held
  <2>2. Fits(r)'
    BY <1>10 DEF TypeOK, PoolInv, Fits, BeginsTx, Panic, End, Release, Held
  <2> QED  BY <2>1, <2>2, OneFits
<1>11. ASSUME NEW r \in Requests, Return(r) PROVE PoolInv'
  <2>1. ASSUME NEW s \in Requests \ {r} PROVE Same(s)
    BY <1>11 DEF TypeOK, Same, Return, End, Release, Held, BeginsTx
  <2>2. Fits(r)'
    BY <1>11 DEF TypeOK, PoolInv, Fits, BeginsTx, Return, End, Release, Held
  <2> QED  BY <2>1, <2>2, OneFits
<1>12. ASSUME NEW r \in Requests, Cancel(r) PROVE PoolInv'
  <2>1. ASSUME NEW s \in Requests \ {r} PROVE Same(s)
    BY <1>12 DEF TypeOK, Same, Cancel
  <2>2. Fits(r)'
    BY <1>12 DEF TypeOK, PoolInv, Fits, BeginsTx, Cancel
  <2> QED  BY <2>1, <2>2, OneFits
<1>13. ASSUME NEW r \in Requests, AwaitDone(r) PROVE PoolInv'
  <2>1. ASSUME NEW s \in Requests \ {r} PROVE Same(s)
    BY <1>13 DEF TypeOK, PoolInv, Fits, Same, AwaitDone, Release
  <2>2. Fits(r)'
    BY <1>13 DEF TypeOK, PoolInv, Fits, BeginsTx, AwaitDone, Release
  <2> QED  BY <2>1, <2>2, OneFits
<1>14. CASE UNCHANGED vars
  BY <1>14 DEF vars, request, BeginsTx, TypeOK, PoolInv, Fits
<1> QED  BY <1>1, <1>2, <1>3, <1>4, <1>5, <1>6, <1>7, <1>8, <1>9, <1>10,
         <1>11, <1>12, <1>13, <1>14
         DEF Next, Step

\* How far transactions are.
LEMMA CountStep == TypeOK /\ PoolInv /\ CountInv /\ [Next]_vars => CountInv'
<1> SUFFICES ASSUME TypeOK, PoolInv, CountInv, [Next]_vars
             PROVE  CountInv'
  OBVIOUS
<1> USE StatementFacts, PoolAssumption DEF TypeOK, CountFits, CountInv
<1>1. ASSUME NEW r \in Requests, Arrive(r) PROVE CountInv'
  BY <1>1 DEF Arrive
<1>2. ASSUME NEW r \in Requests, Connect(r) PROVE CountInv'
  BY <1>2 DEF Connect, UsesTx, BeginsTx
<1>3. ASSUME NEW r \in Requests, NEW c \in Conns, PutConn(r, c) PROVE CountInv'
  BY <1>3 DEF PutConn
<1>4. ASSUME NEW r \in Requests, Statement(r) PROVE CountInv'
  <2>1. op[r] \in Ops /\ left[r] \in Nat /\ ran[r] \in Nat
    OBVIOUS
  <2>2. stage[r] # "within"
    BY <1>4 DEF PoolInv, Fits, Statement
  <2> SUFFICES ASSUME NEW s \in Requests PROVE CountFits(s)'
    OBVIOUS
  <2>3. CASE s # r
    BY <1>4, <2>3 DEF Statement, Release, Held
  <2>4. CASE s = r
    BY <1>4, <2>1, <2>2, <2>4 DEF Statement, Release, Held
  <2> QED  BY <2>3, <2>4
<1>5. ASSUME NEW r \in Requests, NEW c \in Conns, BeginTx(r, c) PROVE CountInv'
  <2>1. op[r] \in Ops /\ left[r] \in Nat /\ ran[r] \in Nat
    OBVIOUS
  <2>2. stage[r] = "before"
    BY <1>5 DEF PoolInv, Fits, BeginsTx, BeginTx
  <2> SUFFICES ASSUME NEW s \in Requests PROVE CountFits(s)'
    OBVIOUS
  <2>3. CASE s # r
    BY <1>5, <2>3 DEF BeginTx
  <2>4. CASE s = r
    BY <1>5, <2>1, <2>2, <2>4 DEF BeginTx
  <2> QED  BY <2>3, <2>4
<1>6. ASSUME NEW r \in Requests, StatementInTx(r) PROVE CountInv'
  <2>1. op[r] \in Ops /\ left[r] \in Nat /\ ran[r] \in Nat
    OBVIOUS
  <2>2. stage[r] = "within" /\ left[r] > 0 /\ ~committed[r]
    BY <1>6 DEF UsesTx, StatementInTx
  <2> SUFFICES ASSUME NEW s \in Requests PROVE CountFits(s)'
    OBVIOUS
  <2>3. CASE s # r
    BY <1>6, <2>3 DEF StatementInTx, UsesTx
  <2>4. CASE s = r
    BY SMTT(40), <1>6, <2>1, <2>2, <2>4 DEF StatementInTx, UsesTx
  <2> QED  BY <2>3, <2>4
<1>7. ASSUME NEW r \in Requests, Commit(r) PROVE CountInv'
  BY <1>7 DEF Commit, Release
<1>8. ASSUME NEW r \in Requests, CommitFails(r) PROVE CountInv'
  BY <1>8 DEF CommitFails, End, Release, Held
<1>9. ASSUME NEW r \in Requests, Fail(r) PROVE CountInv'
  BY <1>9 DEF Fail, End, Release, Held
<1>10. ASSUME NEW r \in Requests, Panic(r) PROVE CountInv'
  BY <1>10 DEF Panic, End, Release, Held
<1>11. ASSUME NEW r \in Requests, Return(r) PROVE CountInv'
  BY <1>11 DEF Return, End, Release, Held, BeginsTx
<1>12. ASSUME NEW r \in Requests, Cancel(r) PROVE CountInv'
  BY <1>12 DEF Cancel
<1>13. ASSUME NEW r \in Requests, AwaitDone(r) PROVE CountInv'
  BY <1>13 DEF AwaitDone, Release
<1>14. CASE UNCHANGED vars
  BY <1>14 DEF vars, request
<1> HIDE DEF TypeOK, CountFits, CountInv
<1> QED  BY <1>1, <1>2, <1>3, <1>4, <1>5, <1>6, <1>7, <1>8, <1>9, <1>10,
         <1>11, <1>12, <1>13, <1>14
         DEF Next, Step

LEMMA ConnAlways == Spec => []ConnInv
<1>1. ConnInv /\ [Next]_vars => ConnInv'
  BY TypeStep, PoolStep, CountStep DEF ConnInv
<1> QED  BY ConnInit, <1>1, PTL DEF Spec

\* TypeOK is an invariant of the pool and its requests.
THEOREM PoolTypes == Spec => []TypeOK
BY ConnAlways, PTL DEF ConnInv

\* NoLeak is an invariant: WithinTx gives its connection back on every path,
\* a panic included.
THEOREM NothingLeaks == Spec => []NoLeak
<1>1. ConnInv => NoLeak
  BY DEF ConnInv, TypeOK, PoolInv, Fits, NoLeak
<1> QED  BY ConnAlways, <1>1, PTL

\* NoCircularWait is an invariant: the pool, however small, never waits for
\* itself.
THEOREM PoolNeverStuck == Spec => []NoCircularWait
<1>1. ConnInv => NoCircularWait
  BY PoolAssumption DEF ConnInv, TypeOK, PoolInv, Fits, NoCircularWait
<1> QED  BY ConnAlways, <1>1, PTL

\* TransactionWhole is an invariant: a commit has all of its closure.
THEOREM WholeOrNothing == Spec => []TransactionWhole
<1>1. ConnInv => TransactionWhole
  <2> SUFFICES ASSUME ConnInv, NEW r \in Requests
               PROVE  /\ committed[r] => ran[r] = Statements[op[r]].within
                      /\ (outcome[r] = "ok" /\ Statements[op[r]].within > 0) => committed[r]
    BY DEF TransactionWhole
  <2>1. op[r] \in Ops /\ left[r] \in Nat /\ ran[r] \in Nat /\ stage[r] \in {"before", "within", "after"}
    BY DEF ConnInv, TypeOK
  <2> QED  BY <2>1, StatementFacts DEF ConnInv, CountInv, CountFits
<1> QED  BY ConnAlways, <1>1, PTL
=============================================================================
