--------------------------- MODULE MCRegistration ---------------------------
(* A small instance of Registration for TLC.                               *)
EXTENDS Registration

CONSTANTS i0, n0, e0

\* The row the migration inserts.
MCSeed == [id |-> i0, username |-> n0, email |-> e0]
=============================================================================
