---------------------------- MODULE MCAccessGate ----------------------------
(* Small instances of AccessGate for TLC.                                  *)
EXTENDS AccessGate, TLC

\* Goroutines are interchangeable.
Symmetry == Permutations(Requests)
=============================================================================
