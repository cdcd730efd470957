---------------------------- MODULE MCIdentities ----------------------------
(***************************************************************************)
(* Instances of Identities for TLC.                                        *)
(***************************************************************************)
EXTENDS Identities, TLC

IdentitySymmetry ==
  Permutations(Requests) \cup Permutations(Emails) \cup Permutations(Subjects)
=============================================================================
