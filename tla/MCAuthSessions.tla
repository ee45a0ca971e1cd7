--------------------------- MODULE MCAuthSessions ---------------------------
(* AuthSessions for TLC: requests, tokens and links are interchangeable.   *)
EXTENDS AuthSessions, TLC

Symmetry == Permutations(Requests) \cup Permutations(Tokens) \cup Permutations(Links)
=============================================================================
