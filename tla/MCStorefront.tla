---------------------------- MODULE MCStorefront ----------------------------
(***************************************************************************)
(* Instances of Storefront for TLC.                                        *)
(***************************************************************************)
EXTENDS Storefront, TLC

CONSTANTS k1, k2, k3, k4, ann, bob

KeySymmetry == Permutations({k1, k2, k3, k4} \cap Keys)
StorefrontSymmetry ==
  Permutations(Requests) \cup KeySymmetry \cup Permutations(Shoppers)

MCProducts == {"phone"}
MCShelf == [p \in MCProducts |-> [state |-> "listed", price |-> 2, stock |-> 2]]

\* Two carts that tell an order of one apart from an order of the other.
MCCarts == {<<[product |-> "phone", quantity |-> 1]>>,
            <<[product |-> "phone", quantity |-> 2]>>}
OneCart == {<<[product |-> "phone", quantity |-> 1]>>}

MCJobs == [key : Keys, cart : MCCarts, card : {"approved", "declined"}]
=============================================================================
