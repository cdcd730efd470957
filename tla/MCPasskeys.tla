----------------------------- MODULE MCPasskeys -----------------------------
(***************************************************************************)
(* Instances of Passkeys for TLC.                                          *)
(***************************************************************************)
EXTENDS Passkeys, TLC

CeremonySymmetry ==
  Permutations(Requests) \cup Permutations(Challenges)
    \cup Permutations(Credentials \ Before)
=============================================================================
