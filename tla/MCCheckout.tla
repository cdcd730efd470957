----------------------------- MODULE MCCheckout -----------------------------
(***************************************************************************)
(* Instances of Checkout for TLC.                                          *)
(***************************************************************************)
EXTENDS CheckoutProperties, TLC

CONSTANTS r1, r2, r3

RequestSymmetry == Permutations(Requests)

MCProducts == {"phone", "case", "ghost"}

Shelved(npr, n) == [state |-> "listed", price |-> npr, stock |-> n]
NeverListed == [state |-> "unused", price |-> 0, stock |-> 0]

\* Two units of the phone are enough for contention and for one winner; the
\* case is free, and "ghost" is an id no document has.
MCShelf == [p \in MCProducts |->
             CASE p = "phone" -> Shelved(2, 2)
               [] p = "case" -> Shelved(0, 2)
               [] OTHER -> NeverListed]

L(p, n) == [product |-> p, quantity |-> n]
J(k, cart, card) == [key |-> k, cart |-> cart, card |-> card]

\* The last phone is contended by carts in both orders; the other carts end in
\* each of the refusals: too little stock, a missing product, a charge of zero.
PhoneCase == <<L("phone", 1), L("case", 1)>>
CasePhone == <<L("case", 1), L("phone", 1)>>
TwoPhones == <<L("phone", 2)>>
CaseGhost == <<L("case", 1), L("ghost", 1)>>
FreeCase == <<L("case", 1)>>

\* Every way a checkout can end, and carts that meet every edit: a price or stock
\* overwritten between two lines, a product removed while it is held, one created
\* while the cart is read.
AllJobs ==
  {J("k1", PhoneCase, "approved"), J("k1", PhoneCase, "declined"),
   J("k2", CasePhone, "approved"), J("k2", TwoPhones, "approved"),
   J("k2", CaseGhost, "approved"), J("k2", FreeCase, "approved")}

\* A retried key with both outcomes of the card, and a rival for the stock.
RivalJobs ==
  {J("k1", PhoneCase, "approved"), J("k1", PhoneCase, "declined"),
   J("k2", TwoPhones, "approved")}
=============================================================================
