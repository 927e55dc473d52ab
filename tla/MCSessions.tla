----------------------------- MODULE MCSessions -----------------------------
(***************************************************************************)
(* Sessions for TLC: symmetric requests, tokens and sessions.              *)
(***************************************************************************)
EXTENDS Sessions, TLC

Symmetry == Permutations(Requests) \cup Permutations(Tokens) \cup Permutations(SessionIds)
=============================================================================
