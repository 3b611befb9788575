----------------------------- MODULE MCConnPool -----------------------------
(* MCConnPool.cfg makes the pool as small as it can be, so that it is at   *)
(* its limit with the first transaction.                                   *)
EXTENDS ConnPool
=============================================================================
