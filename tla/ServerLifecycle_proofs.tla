------------------------ MODULE ServerLifecycle_proofs ------------------------
(***************************************************************************)
(* The invariants of ServerLifecycle for any number of connections and     *)
(* signals.  Each part of the inductive invariant has a lemma with one     *)
(* step per action.                                                        *)
(***************************************************************************)
EXTENDS ServerLifecycle, TLAPS

\* How often a resource has been opened when the start is through with it.
Want(x) == IF x \in configured THEN 1 ELSE 0

\* What is open at each step of the main goroutine.
ResourceInv ==
    /\ main \in {"run", "openMySQL"} =>
         /\ opened["mysql"] = 0 /\ closed["mysql"] = 0
         /\ opened["redis"] = 0 /\ closed["redis"] = 0
    /\ main \in {"pingMySQL", "openRedis"} =>
         /\ opened["mysql"] = Want("mysql") /\ closed["mysql"] = 0
         /\ opened["redis"] = 0 /\ closed["redis"] = 0
    /\ main \in {"pingRedis", "wire", "undoRedis", "serve", "select", "shutdown",
                  "await", "closeRedis"} =>
         /\ opened["mysql"] = Want("mysql") /\ closed["mysql"] = 0
         /\ opened["redis"] = Want("redis") /\ closed["redis"] = 0
    /\ main \in {"undoMySQL", "closeMySQL"} =>
         /\ opened["mysql"] = Want("mysql") /\ closed["mysql"] = 0
         /\ opened["redis"] = Want("redis") /\ closed["redis"] = Want("redis")
    /\ main \in {"stop", "exit"} =>
         /\ opened["mysql"] \in {0, 1} /\ closed["mysql"] = opened["mysql"]
         /\ opened["redis"] \in {0, 1} /\ closed["redis"] = opened["redis"]
    /\ main = "pingMySQL" => "mysql" \in configured
    /\ main = "pingRedis" => "redis" \in configured
    /\ proc = "exited" => main = "exit"

\* Nobody is served and nobody can be any more.
Drained ==
    /\ inShutdown /\ listener # "serving"
    /\ \A c \in Conns : conn[c] = "none"

\* Nothing is served before Server.Run; once Run has decided to return nil
\* the server is drained, and stays so.
ServingInv ==
    /\ main \notin {"select", "shutdown", "await", "closeRedis", "closeMySQL", "stop", "exit"}
         => listener = "none"
    /\ listener = "none" => ~inShutdown /\ \A c \in Conns : conn[c] = "none"
    /\ main \in {"select", "shutdown"} => listener # "none"
    /\ main \in {"undoRedis", "undoMySQL"} => code = 1
    /\ main = "select" => ~inShutdown
    /\ main = "shutdown" => inShutdown
    /\ errCh = "ErrServerClosed" => inShutdown
    /\ main = "await" => Drained
    /\ main \in {"closeRedis", "closeMySQL", "stop", "exit"} /\ code = 0 => Drained

\* Who may be killed by a signal, and why the server is shutting down.
SignalInv ==
    /\ proc = "running" /\ ~notify /\ main \notin {"run", "exit"} => signals > 0
    /\ ctxDone /\ main # "exit" => signals > 0
    /\ inShutdown => signals > 0
    /\ FirstSignalDrains

\* The inductive invariant.
LifecycleInv == TypeOK /\ ResourceInv /\ ServingInv /\ SignalInv

-----------------------------------------------------------------------------
\* The process as it starts.
LEMMA LifecycleInit == Init => LifecycleInv
<1> SUFFICES ASSUME Init PROVE LifecycleInv  OBVIOUS
<1>1. TypeOK  BY DEF Init, TypeOK, Resource, MainStep
<1>2. ResourceInv  BY DEF Init, ResourceInv, Resource
<1>3. ServingInv  BY DEF Init, ServingInv
<1>4. SignalInv  BY DEF Init, SignalInv, FirstSignalDrains
<1> QED  BY <1>1, <1>2, <1>3, <1>4 DEF LifecycleInv

\* Closing a resource keeps the types.
LEMMA CloseTypes ==
    ASSUME TypeOK, NEW x \in Resource, NEW from \in MainStep, NEW to \in MainStep,
           CloseIfAny(x, from, to)
    PROVE  TypeOK'
<1>1. CASE x \in configured
  <2>1. closed' = [closed EXCEPT ![x] = @ + 1] /\ UNCHANGED <<configured, opened>>
    BY <1>1 DEF CloseIfAny, Close
  <2>2. closed' \in [Resource -> Nat]
    BY <2>1 DEF TypeOK
  <2>3. main' = to /\ UNCHANGED <<code, os, http>>
    BY DEF CloseIfAny, Goto
  <2> QED  BY <2>1, <2>2, <2>3 DEF TypeOK, os, http
<1>2. CASE x \notin configured
  BY <1>2 DEF CloseIfAny, Goto, TypeOK, resources, os, http
<1> QED  BY <1>1, <1>2

\* Every step keeps the types.
LEMMA TypeStep == TypeOK /\ [Next]_vars => TypeOK'
<1> SUFFICES ASSUME TypeOK, [Next]_vars
             PROVE  TypeOK'
  OBVIOUS
<1> USE DEF TypeOK, Resource, MainStep, resources, os, http
<1>1. CASE NotifyContext
  BY <1>1 DEF NotifyContext, Goto
<1>2. CASE OpenMySQL
  BY <1>2 DEF OpenMySQL, Goto, Open
<1>3. CASE SkipMySQL
  BY <1>3 DEF SkipMySQL, Goto
<1>4. CASE OpenMySQLFails
  BY <1>4 DEF OpenMySQLFails, Goto
<1>5. CASE PingMySQL
  BY <1>5 DEF PingMySQL, Goto
<1>6. CASE PingMySQLFails
  BY <1>6 DEF PingMySQLFails, Goto, Close
<1>7. CASE OpenRedis
  BY <1>7 DEF OpenRedis, Goto, Open
<1>8. CASE SkipRedis
  BY <1>8 DEF SkipRedis, Goto
<1>9. CASE PingRedis
  BY <1>9 DEF PingRedis, Goto
<1>10. CASE PingRedisFails
  BY <1>10 DEF PingRedisFails, Goto
<1>11. CASE Wire
  BY <1>11 DEF Wire, Goto
<1>12. CASE WireFails
  BY SMTT(40), <1>12 DEF WireFails, Goto
<1>13. CASE UndoRedis
  BY <1>13, CloseTypes DEF UndoRedis
<1>14. CASE UndoMySQL
  BY <1>14, CloseTypes DEF UndoMySQL
<1>15. CASE Serve
  BY <1>15 DEF Serve, Goto
<1>16. CASE SelectDone
  BY <1>16 DEF SelectDone, Goto
<1>17. CASE SelectErr
  BY <1>17 DEF SelectErr, Goto, ResultCode
<1>18. CASE ShutdownDrained
  BY <1>18 DEF ShutdownDrained, Goto
<1>19. CASE ShutdownFails
  BY <1>19 DEF ShutdownFails, Goto
<1>20. CASE AwaitErr
  BY <1>20 DEF AwaitErr, Goto, ResultCode
<1>21. CASE CloseRedis
  BY <1>21, CloseTypes DEF CloseRedis
<1>22. CASE CloseMySQL
  BY <1>22, CloseTypes DEF CloseMySQL
<1>23. CASE DeferredStop
  BY <1>23 DEF DeferredStop, Goto
<1>24. CASE Exit
  BY <1>24 DEF Exit
<1>25. CASE WatcherStops
  BY ZenonT(60), <1>25 DEF WatcherStops
<1>26. CASE Listen
  BY <1>26 DEF Listen
<1>27. CASE ListenFails
  BY <1>27 DEF ListenFails
<1>28. CASE ListenClosed
  BY <1>28 DEF ListenClosed
<1>29. CASE Signal
  <2>1. CASE notify
    BY <1>29, <2>1 DEF Signal
  <2>2. CASE ~notify
    BY <1>29, <2>2 DEF Signal
  <2> QED  BY <2>1, <2>2
<1>30. ASSUME NEW c \in Conns, Accept(c) PROVE TypeOK'
  BY <1>30 DEF Accept, Move
<1>31. ASSUME NEW c \in Conns, NextRequest(c) PROVE TypeOK'
  BY <1>31 DEF NextRequest, Move
<1>32. ASSUME NEW c \in Conns, HandlerReturns(c) PROVE TypeOK'
  BY <1>32 DEF HandlerReturns, Move
<1>33. ASSUME NEW c \in Conns, CloseIdle(c) PROVE TypeOK'
  BY <1>33 DEF CloseIdle, Move
<1>34. CASE UNCHANGED vars
  BY SMTT(40), <1>34 DEF vars
<1> QED  BY <1>1, <1>2, <1>3, <1>4, <1>5, <1>6, <1>7, <1>8, <1>9, <1>10,
         <1>11, <1>12, <1>13, <1>14, <1>15, <1>16, <1>17, <1>18, <1>19, <1>20,
         <1>21, <1>22, <1>23, <1>24, <1>25, <1>26, <1>27, <1>28, <1>29, <1>30,
         <1>31, <1>32, <1>33, <1>34
         DEF Next, Bootstrap, ServerRun, Leave, Listener, Connection

\* Every step opens and closes in order.
LEMMA ResourceStep == TypeOK /\ ResourceInv /\ [Next]_vars => ResourceInv'
<1> SUFFICES ASSUME TypeOK /\ ResourceInv, [Next]_vars
             PROVE  ResourceInv'
  OBVIOUS
<1> USE DEF TypeOK, ResourceInv, Resource, Want, resources, os, http
<1>1. CASE NotifyContext
  BY <1>1 DEF NotifyContext, Goto
<1>2. CASE OpenMySQL
  BY <1>2 DEF OpenMySQL, Goto, Open
<1>3. CASE SkipMySQL
  BY <1>3 DEF SkipMySQL, Goto
<1>4. CASE OpenMySQLFails
  BY <1>4 DEF OpenMySQLFails, Goto
<1>5. CASE PingMySQL
  BY <1>5 DEF PingMySQL, Goto
<1>6. CASE PingMySQLFails
  BY <1>6 DEF PingMySQLFails, Goto, Close
<1>7. CASE OpenRedis
  BY <1>7 DEF OpenRedis, Goto, Open
<1>8. CASE SkipRedis
  BY <1>8 DEF SkipRedis, Goto
<1>9. CASE PingRedis
  BY <1>9 DEF PingRedis, Goto
<1>10. CASE PingRedisFails
  BY <1>10 DEF PingRedisFails, Goto
<1>11. CASE Wire
  BY <1>11 DEF Wire, Goto
<1>12. CASE WireFails
  BY <1>12 DEF WireFails, Goto
<1>13. CASE UndoRedis
  BY <1>13 DEF UndoRedis, CloseIfAny, Goto, Close
<1>14. CASE UndoMySQL
  BY <1>14 DEF UndoMySQL, CloseIfAny, Goto, Close
<1>15. CASE Serve
  BY <1>15 DEF Serve, Goto
<1>16. CASE SelectDone
  BY <1>16 DEF SelectDone, Goto
<1>17. CASE SelectErr
  BY <1>17 DEF SelectErr, Goto, ResultCode
<1>18. CASE ShutdownDrained
  BY <1>18 DEF ShutdownDrained, Goto
<1>19. CASE ShutdownFails
  BY <1>19 DEF ShutdownFails, Goto
<1>20. CASE AwaitErr
  BY <1>20 DEF AwaitErr, Goto, ResultCode
<1>21. CASE CloseRedis
  BY <1>21 DEF CloseRedis, CloseIfAny, Goto, Close
<1>22. CASE CloseMySQL
  BY <1>22 DEF CloseMySQL, CloseIfAny, Goto, Close
<1>23. CASE DeferredStop
  BY <1>23 DEF DeferredStop, Goto
<1>24. CASE Exit
  BY <1>24 DEF Exit
<1>25. CASE WatcherStops
  BY <1>25 DEF WatcherStops
<1>26. CASE Listen
  BY <1>26 DEF Listen
<1>27. CASE ListenFails
  BY <1>27 DEF ListenFails
<1>28. CASE ListenClosed
  BY <1>28 DEF ListenClosed
<1>29. CASE Signal
  BY <1>29 DEF Signal
<1>30. ASSUME NEW c \in Conns, Accept(c) PROVE ResourceInv'
  BY <1>30 DEF Accept, Move
<1>31. ASSUME NEW c \in Conns, NextRequest(c) PROVE ResourceInv'
  BY <1>31 DEF NextRequest, Move
<1>32. ASSUME NEW c \in Conns, HandlerReturns(c) PROVE ResourceInv'
  BY <1>32 DEF HandlerReturns, Move
<1>33. ASSUME NEW c \in Conns, CloseIdle(c) PROVE ResourceInv'
  BY <1>33 DEF CloseIdle, Move
<1>34. CASE UNCHANGED vars
  BY <1>34 DEF vars
<1> QED  BY <1>1, <1>2, <1>3, <1>4, <1>5, <1>6, <1>7, <1>8, <1>9, <1>10,
         <1>11, <1>12, <1>13, <1>14, <1>15, <1>16, <1>17, <1>18, <1>19, <1>20,
         <1>21, <1>22, <1>23, <1>24, <1>25, <1>26, <1>27, <1>28, <1>29, <1>30,
         <1>31, <1>32, <1>33, <1>34
         DEF Next, Bootstrap, ServerRun, Leave, Listener, Connection

\* Every step keeps a drained server drained.
LEMMA ServingStep == TypeOK /\ ServingInv /\ [Next]_vars => ServingInv'
<1> SUFFICES ASSUME TypeOK /\ ServingInv, [Next]_vars
             PROVE  ServingInv'
  OBVIOUS
<1> USE DEF TypeOK, ServingInv, Drained, resources, os, http
<1>1. CASE NotifyContext
  BY <1>1 DEF NotifyContext, Goto
<1>2. CASE OpenMySQL
  BY <1>2 DEF OpenMySQL, Goto, Open
<1>3. CASE SkipMySQL
  BY <1>3 DEF SkipMySQL, Goto
<1>4. CASE OpenMySQLFails
  BY <1>4 DEF OpenMySQLFails, Goto
<1>5. CASE PingMySQL
  BY <1>5 DEF PingMySQL, Goto
<1>6. CASE PingMySQLFails
  BY <1>6 DEF PingMySQLFails, Goto, Close
<1>7. CASE OpenRedis
  BY <1>7 DEF OpenRedis, Goto, Open
<1>8. CASE SkipRedis
  BY <1>8 DEF SkipRedis, Goto
<1>9. CASE PingRedis
  BY <1>9 DEF PingRedis, Goto
<1>10. CASE PingRedisFails
  BY <1>10 DEF PingRedisFails, Goto
<1>11. CASE Wire
  BY <1>11 DEF Wire, Goto
<1>12. CASE WireFails
  BY <1>12 DEF WireFails, Goto
<1>13. CASE UndoRedis
  BY <1>13 DEF UndoRedis, CloseIfAny, Goto, Close
<1>14. CASE UndoMySQL
  BY <1>14 DEF UndoMySQL, CloseIfAny, Goto, Close
<1>15. CASE Serve
  BY <1>15 DEF Serve, Goto
<1>16. CASE SelectDone
  BY <1>16 DEF SelectDone, Goto
<1>17. CASE SelectErr
  BY <1>17 DEF SelectErr, Goto, ResultCode
<1>18. CASE ShutdownDrained
  BY <1>18 DEF ShutdownDrained, Goto
<1>19. CASE ShutdownFails
  BY <1>19 DEF ShutdownFails, Goto
<1>20. CASE AwaitErr
  BY <1>20 DEF AwaitErr, Goto, ResultCode
<1>21. CASE CloseRedis
  BY <1>21 DEF CloseRedis, CloseIfAny, Goto, Close
<1>22. CASE CloseMySQL
  BY <1>22 DEF CloseMySQL, CloseIfAny, Goto, Close
<1>23. CASE DeferredStop
  BY <1>23 DEF DeferredStop, Goto
<1>24. CASE Exit
  BY <1>24 DEF Exit
<1>25. CASE WatcherStops
  BY <1>25 DEF WatcherStops
<1>26. CASE Listen
  BY <1>26 DEF Listen
<1>27. CASE ListenFails
  BY <1>27 DEF ListenFails
<1>28. CASE ListenClosed
  BY <1>28 DEF ListenClosed
<1>29. CASE Signal
  BY <1>29 DEF Signal
<1>30. ASSUME NEW c \in Conns, Accept(c) PROVE ServingInv'
  BY <1>30 DEF Accept, Move
<1>31. ASSUME NEW c \in Conns, NextRequest(c) PROVE ServingInv'
  BY <1>31 DEF NextRequest, Move
<1>32. ASSUME NEW c \in Conns, HandlerReturns(c) PROVE ServingInv'
  BY <1>32 DEF HandlerReturns, Move
<1>33. ASSUME NEW c \in Conns, CloseIdle(c) PROVE ServingInv'
  BY <1>33 DEF CloseIdle, Move
<1>34. CASE UNCHANGED vars
  BY <1>34 DEF vars
<1> QED  BY <1>1, <1>2, <1>3, <1>4, <1>5, <1>6, <1>7, <1>8, <1>9, <1>10,
         <1>11, <1>12, <1>13, <1>14, <1>15, <1>16, <1>17, <1>18, <1>19, <1>20,
         <1>21, <1>22, <1>23, <1>24, <1>25, <1>26, <1>27, <1>28, <1>29, <1>30,
         <1>31, <1>32, <1>33, <1>34
         DEF Next, Bootstrap, ServerRun, Leave, Listener, Connection

\* Every step accounts for the signals.
LEMMA SignalStep == TypeOK /\ SignalInv /\ [Next]_vars => SignalInv'
<1> SUFFICES ASSUME TypeOK /\ SignalInv, [Next]_vars
             PROVE  SignalInv'
  OBVIOUS
<1> USE DEF TypeOK, SignalInv, FirstSignalDrains, resources, os, http
<1>1. CASE NotifyContext
  BY <1>1 DEF NotifyContext, Goto
<1>2. CASE OpenMySQL
  BY <1>2 DEF OpenMySQL, Goto, Open
<1>3. CASE SkipMySQL
  BY <1>3 DEF SkipMySQL, Goto
<1>4. CASE OpenMySQLFails
  BY <1>4 DEF OpenMySQLFails, Goto
<1>5. CASE PingMySQL
  BY <1>5 DEF PingMySQL, Goto
<1>6. CASE PingMySQLFails
  BY <1>6 DEF PingMySQLFails, Goto, Close
<1>7. CASE OpenRedis
  BY <1>7 DEF OpenRedis, Goto, Open
<1>8. CASE SkipRedis
  BY <1>8 DEF SkipRedis, Goto
<1>9. CASE PingRedis
  BY <1>9 DEF PingRedis, Goto
<1>10. CASE PingRedisFails
  BY <1>10 DEF PingRedisFails, Goto
<1>11. CASE Wire
  BY <1>11 DEF Wire, Goto
<1>12. CASE WireFails
  BY <1>12 DEF WireFails, Goto
<1>13. CASE UndoRedis
  BY <1>13 DEF UndoRedis, CloseIfAny, Goto, Close
<1>14. CASE UndoMySQL
  BY <1>14 DEF UndoMySQL, CloseIfAny, Goto, Close
<1>15. CASE Serve
  BY <1>15 DEF Serve, Goto
<1>16. CASE SelectDone
  BY <1>16 DEF SelectDone, Goto
<1>17. CASE SelectErr
  BY <1>17 DEF SelectErr, Goto, ResultCode
<1>18. CASE ShutdownDrained
  BY <1>18 DEF ShutdownDrained, Goto
<1>19. CASE ShutdownFails
  BY <1>19 DEF ShutdownFails, Goto
<1>20. CASE AwaitErr
  BY <1>20 DEF AwaitErr, Goto, ResultCode
<1>21. CASE CloseRedis
  BY <1>21 DEF CloseRedis, CloseIfAny, Goto, Close
<1>22. CASE CloseMySQL
  BY <1>22 DEF CloseMySQL, CloseIfAny, Goto, Close
<1>23. CASE DeferredStop
  BY <1>23 DEF DeferredStop, Goto
<1>24. CASE Exit
  BY <1>24 DEF Exit
<1>25. CASE WatcherStops
  BY <1>25 DEF WatcherStops
<1>26. CASE Listen
  BY <1>26 DEF Listen
<1>27. CASE ListenFails
  BY <1>27 DEF ListenFails
<1>28. CASE ListenClosed
  BY <1>28 DEF ListenClosed
<1>29. CASE Signal
  BY <1>29 DEF Signal
<1>30. ASSUME NEW c \in Conns, Accept(c) PROVE SignalInv'
  BY <1>30 DEF Accept, Move
<1>31. ASSUME NEW c \in Conns, NextRequest(c) PROVE SignalInv'
  BY <1>31 DEF NextRequest, Move
<1>32. ASSUME NEW c \in Conns, HandlerReturns(c) PROVE SignalInv'
  BY <1>32 DEF HandlerReturns, Move
<1>33. ASSUME NEW c \in Conns, CloseIdle(c) PROVE SignalInv'
  BY <1>33 DEF CloseIdle, Move
<1>34. CASE UNCHANGED vars
  BY <1>34 DEF vars
<1> QED  BY <1>1, <1>2, <1>3, <1>4, <1>5, <1>6, <1>7, <1>8, <1>9, <1>10,
         <1>11, <1>12, <1>13, <1>14, <1>15, <1>16, <1>17, <1>18, <1>19, <1>20,
         <1>21, <1>22, <1>23, <1>24, <1>25, <1>26, <1>27, <1>28, <1>29, <1>30,
         <1>31, <1>32, <1>33, <1>34
         DEF Next, Bootstrap, ServerRun, Leave, Listener, Connection

\* Together they are inductive.
LEMMA LifecycleStep == LifecycleInv /\ [Next]_vars => LifecycleInv'
BY TypeStep, ResourceStep, ServingStep, SignalStep DEF LifecycleInv

-----------------------------------------------------------------------------
\* The variables keep their types.
THEOREM LifecycleTypes == Spec => []TypeOK
<1>1. LifecycleInv => TypeOK  BY DEF LifecycleInv
<1> QED  BY <1>1, LifecycleInit, LifecycleStep, PTL DEF Spec

\* What the process opened it has closed exactly once when it exits, on every
\* path through Bootstrap, Server.Run and Application.Close.
THEOREM ResourcesReleased == Spec => []ReleasedOnce
<1>1. LifecycleInv => ReleasedOnce
  BY DEF LifecycleInv, TypeOK, ResourceInv, ReleasedOnce, Resource, MainStep, Want
<1> QED  BY <1>1, LifecycleInit, LifecycleStep, PTL DEF Spec

\* No handler loses the pool or Redis unless the process reports failure, for
\* any number of connections.
THEOREM HandlersKeepResources == Spec => []ResourcesOutliveHandlers
<1>1. LifecycleInv => ResourcesOutliveHandlers
  BY DEF LifecycleInv, TypeOK, ResourceInv, ServingInv, ResourcesOutliveHandlers,
         Resource, MainStep, Want, Drained
<1> QED  BY <1>1, LifecycleInit, LifecycleStep, PTL DEF Spec

\* Exit code 0 is given only after a signal and with nobody left to serve.
THEOREM ZeroDrained == Spec => []ZeroMeansDrained
<1>1. LifecycleInv => ZeroMeansDrained
  BY DEF LifecycleInv, ResourceInv, ServingInv, SignalInv, ZeroMeansDrained, Drained
<1> QED  BY <1>1, LifecycleInit, LifecycleStep, PTL DEF Spec

\* The first signal shuts down gracefully instead of killing.
THEOREM FirstSignal == Spec => []FirstSignalDrains
<1>1. LifecycleInv => FirstSignalDrains  BY DEF LifecycleInv, SignalInv
<1> QED  BY <1>1, LifecycleInit, LifecycleStep, PTL DEF Spec
=============================================================================
