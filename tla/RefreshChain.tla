---------------------------- MODULE RefreshChain ----------------------------
(***************************************************************************)
(* What refresh-token rotation promises, without requests, transactions,   *)
(* clocks or a database: a session has one current token; redeeming it     *)
(* replaces it, atomically and for good; a closed session keeps its token  *)
(* but never redeems it.  AuthSessions is shown to implement this.         *)
(***************************************************************************)
CONSTANTS SessionIds, Tokens, None

VARIABLES
    current,   \* each session's redeemable token, None before it is opened
    spent,     \* tokens that were redeemed
    closed     \* revoked sessions

chainVars == <<current, spent, closed>>

\* A token nobody has had: tokens are drawn at random and never come twice.
Unused(t) == t \notin spent /\ \A s \in SessionIds : current[s] # t

Init ==
    /\ current = [s \in SessionIds |-> None]
    /\ spent = {}
    /\ closed = {}

Open(s, t) ==
    /\ current[s] = None
    /\ Unused(t)
    /\ current' = [current EXCEPT ![s] = t]
    /\ UNCHANGED <<spent, closed>>

Redeem(s, t) ==
    /\ current[s] # None
    /\ s \notin closed
    /\ Unused(t)
    /\ current' = [current EXCEPT ![s] = t]
    /\ spent' = spent \cup {current[s]}
    /\ UNCHANGED closed

Close(s) ==
    /\ current[s] # None
    /\ s \notin closed
    /\ closed' = closed \cup {s}
    /\ UNCHANGED <<current, spent>>

Next ==
    \E s \in SessionIds :
        \/ \E t \in Tokens : Open(s, t) \/ Redeem(s, t)
        \/ Close(s)

Spec == Init /\ [][Next]_chainVars
=============================================================================
