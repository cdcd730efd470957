----------------------------- MODULE MCAccount -----------------------------
(***************************************************************************)
(* Instances of Account for TLC.                                           *)
(***************************************************************************)
EXTENDS AccountProperties, TLC

AccountSymmetry ==
  Permutations(Requests) \cup Permutations(Passwords)
    \cup Permutations(Tokens) \cup Permutations(Secrets)
=============================================================================
