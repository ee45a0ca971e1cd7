---------------------------- MODULE MCClientRow -----------------------------
(* ClientRow for TLC: requests and invitations are interchangeable.        *)
EXTENDS ClientRow, TLC

Symmetry == Permutations(Requests) \cup Permutations(Invitations)
=============================================================================
