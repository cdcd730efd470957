---------------------------- MODULE MCAccountPage ----------------------------
(***************************************************************************)
(* Instances of AccountPage for TLC.                                       *)
(***************************************************************************)
EXTENDS AccountPage

\* A city in the format of a ciphertext, and a street as the seed stores it.
MCStored == {"city" :> [text |-> "a:b:c", cipher |-> FALSE] @@
             "line1" :> [text |-> "Kathmandu", cipher |-> TRUE]}

BrowserSymmetry == Permutations(Tabs) \cup Permutations(Accounts)
=============================================================================
