------------------------------ MODULE ConnPool ------------------------------
(***************************************************************************)
(* The requests share a pool of MaxOpenConns connections.  A statement     *)
(* outside a transaction borrows one for as long as it runs; WithinTx      *)
(* borrows one until it commits or rolls back, and queries(txCtx) runs the *)
(* statements of the closure on it.  The client may go away, statements    *)
(* may fail and code may panic at every point.                             *)
(*                                                                         *)
(* A request is modelled by how many statements it runs before, within and *)
(* after its transaction; what they read and write is the business of the  *)
(* other modules.                                                          *)
(***************************************************************************)
EXTENDS Naturals

CONSTANTS
    Requests,     \* bound: the requests that ever arrive
    Conns,        \* the connections of the pool, MaxOpenConns of them
    Ops,          \* the operations they may ask for
    NoOne, NoConn

\* Statements of each operation: LoadPrincipal and reads before, the closure
\* of WithinTx, the read after it.
Statements ==
    [me       |-> [before |-> 4, within |-> 0, after |-> 0],
     list     |-> [before |-> 5, within |-> 0, after |-> 0],
     patch    |-> [before |-> 2, within |-> 3, after |-> 0],
     login    |-> [before |-> 0, within |-> 5, after |-> 0],
     refresh  |-> [before |-> 0, within |-> 5, after |-> 0],
     register |-> [before |-> 0, within |-> 6, after |-> 2]]

\* Config falls back to 10 for a MaxOpenConns that is not positive.
ASSUME PoolAssumption == Conns # {} /\ NoConn \notin Conns /\ NoOne \notin Requests
ASSUME OpsAssumption == Ops \subseteq DOMAIN Statements

VARIABLES
    owner,       \* of each connection, or NoOne
    op, pc,      \* of each request
    stage, left, \* "before", "within" or "after" its transaction; statements left
    tx,          \* the connection of its open transaction, or NoConn
    cancelled,   \* its context, by the client
    ran,         \* statements that ran in its transaction
    committed,   \* its transaction, in the database
    outcome      \* its answer

request == <<op, pc, stage, left, tx, cancelled, ran, committed, outcome>>
vars == <<owner, request>>

Init ==
    /\ owner = [c \in Conns |-> NoOne]
    /\ op \in [Requests -> Ops]
    /\ pc = [r \in Requests |-> "idle"]
    /\ stage = [r \in Requests |-> "before"]
    /\ left = [r \in Requests |-> Statements[op[r]].before]
    /\ tx = [r \in Requests |-> NoConn]
    /\ cancelled = [r \in Requests |-> FALSE]
    /\ ran = [r \in Requests |-> 0]
    /\ committed = [r \in Requests |-> FALSE]
    /\ outcome = [r \in Requests |-> "none"]

-----------------------------------------------------------------------------
Held(r) == {c \in Conns : owner[c] = r}

Release(cs) == owner' = [c \in Conns |-> IF c \in cs THEN NoOne ELSE owner[c]]

Arrive(r) ==
    /\ pc[r] = "idle"
    /\ pc' = [pc EXCEPT ![r] = "next"]
    /\ UNCHANGED <<owner, op, stage, left, tx, cancelled, ran, committed, outcome>>

\* Mutants: the repositories never look for a transaction; UpdateStatus hands
\* GetByID the context without it.
QueriesOnPool(r) == FALSE
GetByIDOnPool(r) == stage[r] = "within" /\ ~(op[r] = "patch" /\ left[r] <= 2)

\* queryFactory.queries: the context carries a transaction.
UsesTx(r) == stage[r] = "within"

\* WithinTx calls BeginTx; no context carries a transaction yet.
BeginsTx(r) == stage[r] = "before" /\ left[r] = 0 /\ Statements[op[r]].within > 0

\* DB.conn: a connection that is idle or not yet opened, or the queue.
Connect(r) ==
    /\ pc[r] = "next" /\ ~cancelled[r]
    /\ BeginsTx(r) \/ (left[r] > 0 /\ ~UsesTx(r))
    /\ IF \E c \in Conns : owner[c] = NoOne /\ \A s \in Requests : pc[s] # "waiting"
       THEN /\ \E c \in Conns : owner[c] = NoOne /\ owner' = [owner EXCEPT ![c] = r]
            /\ pc' = [pc EXCEPT ![r] = "using"]
       ELSE /\ pc' = [pc EXCEPT ![r] = "waiting"]
            /\ UNCHANGED owner
    /\ UNCHANGED <<op, stage, left, tx, cancelled, ran, committed, outcome>>

\* putConn hands a returned connection to any request in the queue.
PutConn(r, c) ==
    /\ pc[r] = "waiting" /\ owner[c] = NoOne
    /\ owner' = [owner EXCEPT ![c] = r]
    /\ pc' = [pc EXCEPT ![r] = "using"]
    /\ UNCHANGED <<op, stage, left, tx, cancelled, ran, committed, outcome>>

\* A statement without a transaction, and its connection goes back.
Statement(r) ==
    /\ pc[r] = "using" /\ left[r] > 0
    /\ Release(Held(r) \ {tx[r]})
    /\ left' = [left EXCEPT ![r] = @ - 1]
    /\ pc' = [pc EXCEPT ![r] = "next"]
    /\ UNCHANGED <<op, stage, tx, cancelled, ran, committed, outcome>>

-----------------------------------------------------------------------------
(* Transactor.WithinTx.                                                    *)

BeginTx(r, c) ==
    /\ pc[r] = "using" /\ left[r] = 0 /\ owner[c] = r
    /\ tx' = [tx EXCEPT ![r] = c]
    /\ stage' = [stage EXCEPT ![r] = "within"]
    /\ left' = [left EXCEPT ![r] = Statements[op[r]].within]
    /\ pc' = [pc EXCEPT ![r] = "next"]
    /\ UNCHANGED <<owner, op, cancelled, ran, committed, outcome>>

\* A statement of the closure, on the transaction's connection.
StatementInTx(r) ==
    /\ pc[r] = "next" /\ left[r] > 0 /\ UsesTx(r) /\ tx[r] # NoConn
    /\ left' = [left EXCEPT ![r] = @ - 1]
    /\ ran' = [ran EXCEPT ![r] = @ + 1]
    /\ UNCHANGED <<owner, op, pc, stage, tx, cancelled, committed, outcome>>

\* tx.Commit; it looks at the context first.
Commit(r) ==
    /\ pc[r] = "next" /\ stage[r] = "within" /\ left[r] = 0
    /\ tx[r] # NoConn /\ ~cancelled[r]
    /\ committed' = [committed EXCEPT ![r] = TRUE]
    /\ Release({tx[r]})
    /\ tx' = [tx EXCEPT ![r] = NoConn]
    /\ stage' = [stage EXCEPT ![r] = "after"]
    /\ left' = [left EXCEPT ![r] = Statements[op[r]].after]
    /\ UNCHANGED <<op, pc, cancelled, ran, outcome>>

\* The goroutine returns to the middleware: rows.Close and the deferred
\* Rollback have given back what it had.
End(r, result) ==
    /\ Release(Held(r))
    /\ tx' = [tx EXCEPT ![r] = NoConn]
    /\ pc' = [pc EXCEPT ![r] = "done"]
    /\ outcome' = [outcome EXCEPT ![r] = result]
    /\ UNCHANGED <<op, stage, left, cancelled, ran>>

\* COMMIT ends with an error; it may have taken place.
CommitFails(r) ==
    /\ pc[r] = "next" /\ stage[r] = "within" /\ left[r] = 0 /\ tx[r] # NoConn
    /\ committed' \in {committed, [committed EXCEPT ![r] = TRUE]}
    /\ End(r, "error")

\* Mutant: the closure's error is kept for the answer, and Commit is called.
FailCommits(r) ==
    /\ pc[r] \in {"next", "using"} \/ (pc[r] = "waiting" /\ cancelled[r])
    /\ committed' = [committed EXCEPT ![r] = @ \/ tx[r] # NoConn]
    /\ End(r, "error")

\* A statement, or the code between two statements, ends with an error; a
\* request in the queue only because its context is cancelled.
Fail(r) ==
    /\ pc[r] \in {"next", "using"} \/ (pc[r] = "waiting" /\ cancelled[r])
    /\ UNCHANGED committed
    /\ End(r, "error")

\* Mutant: Rollback is called where the closure returns an error, not deferred.
PanicPastRollback(r) ==
    /\ pc[r] \in {"next", "using"}
    /\ Release(Held(r) \ {tx[r]})
    /\ pc' = [pc EXCEPT ![r] = "done"]
    /\ outcome' = [outcome EXCEPT ![r] = "error"]
    /\ UNCHANGED <<op, stage, left, tx, cancelled, ran, committed>>

\* A panic unwinds through WithinTx to the Recover middleware.
Panic(r) ==
    /\ pc[r] \in {"next", "using"}
    /\ UNCHANGED committed
    /\ End(r, "error")

\* All is done.  ListUsers stops early at an empty count or page.
Return(r) ==
    /\ pc[r] = "next" /\ stage[r] # "within" /\ ~BeginsTx(r)
    /\ left[r] = 0 \/ (op[r] = "list" /\ left[r] <= 2)
    /\ UNCHANGED committed
    /\ End(r, "ok")

-----------------------------------------------------------------------------
\* net/http cancels the context when the client goes away, ...
Cancel(r) ==
    /\ pc[r] \notin {"idle", "done"} /\ ~cancelled[r]
    /\ cancelled' = [cancelled EXCEPT ![r] = TRUE]
    /\ UNCHANGED <<owner, op, pc, stage, left, tx, ran, committed, outcome>>

\* ... and Tx.awaitDone rolls its transaction back under the closure.
AwaitDone(r) ==
    /\ cancelled[r] /\ tx[r] # NoConn
    /\ Release({tx[r]})
    /\ tx' = [tx EXCEPT ![r] = NoConn]
    /\ UNCHANGED <<op, pc, stage, left, cancelled, ran, committed, outcome>>

Step(r) ==
    \/ Connect(r) \/ Statement(r) \/ StatementInTx(r) \/ Commit(r) \/ CommitFails(r)
    \/ Fail(r) \/ Return(r)
    \/ \E c \in Conns : BeginTx(r, c)

Next ==
    \/ \E r \in Requests : Arrive(r) \/ Step(r) \/ Panic(r) \/ Cancel(r) \/ AwaitDone(r)
    \/ \E r \in Requests, c \in Conns : PutConn(r, c)

Spec == Init /\ [][Next]_vars

\* Goroutines run on and statements return; a returned connection is handed
\* over, to whichever request.  Nobody has to cancel or to panic.
FairSpec ==
    /\ Spec
    /\ \A r \in Requests : WF_vars(Step(r))
    /\ WF_vars(\E r \in Requests, c \in Conns : PutConn(r, c))

-----------------------------------------------------------------------------
TypeOK ==
    /\ owner \in [Conns -> Requests \cup {NoOne}]
    /\ op \in [Requests -> Ops]
    /\ pc \in [Requests -> {"idle", "next", "waiting", "using", "done"}]
    /\ stage \in [Requests -> {"before", "within", "after"}]
    /\ left \in [Requests -> Nat]
    /\ tx \in [Requests -> Conns \cup {NoConn}]
    /\ cancelled \in [Requests -> BOOLEAN]
    /\ ran \in [Requests -> Nat]
    /\ committed \in [Requests -> BOOLEAN]
    /\ outcome \in [Requests -> {"none", "ok", "error"}]

\* A connection is out only for the statement that is running on it or for
\* an open transaction, never for a request that has ended, not even by a
\* panic: what Recover survives must not cost the pool a connection
\* (tx.go:43, recover.go:37).
NoLeak ==
    \A c \in Conns :
        owner[c] # NoOne => /\ pc[owner[c]] # "done"
                            /\ pc[owner[c]] = "using" \/ tx[owner[c]] = c

\* Whoever waits for a connection waits for someone who does not wait: no
\* transaction asks the pool for a second connection, so the pool cannot
\* lock itself up, however small it is (query_factory.go:20).
NoCircularWait ==
    (\E r \in Requests : pc[r] = "waiting") =>
        \E c \in Conns : owner[c] = NoOne \/ pc[owner[c]] # "waiting"

\* What is committed are all statements of a closure, in one transaction,
\* also if the client left in its middle; and success is not answered
\* without it (tx.go:48).
TransactionWhole ==
    \A r \in Requests :
        /\ committed[r] => ran[r] = Statements[op[r]].within
        /\ (outcome[r] = "ok" /\ Statements[op[r]].within > 0) => committed[r]

\* Every request gets its connections and ends.
EveryRequestEnds == \A r \in Requests : pc[r] = "next" ~> pc[r] = "done"
=============================================================================
