--------------------------- MODULE MCAuthSessions ---------------------------
(***************************************************************************)
(* Small instances of AuthSessions for TLC.                                *)
(***************************************************************************)
EXTENDS AuthSessions, TLC

\* Sessions, tokens and goroutines are interchangeable (safety runs only).
Symmetry == Permutations(SessionIds) \cup Permutations(Tokens) \cup Permutations(Requests)
=============================================================================
