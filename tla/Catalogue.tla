----------------------------- MODULE Catalogue -----------------------------
(***************************************************************************)
(* The products collection: the documents (models/product.model.ts), the   *)
(* admin operations on them (services/product.service.ts) and the one      *)
(* conditional update a checkout makes (repositories/product.repository).  *)
(* Names, descriptions, categories and images are left out: no property    *)
(* tells them apart.                                                       *)
(***************************************************************************)
EXTENDS Integers

CONSTANTS Products,    \* document ids; Mongo never hands one out twice
          Shelf,       \* the catalogue when the system starts
          Prices,      \* prices an admin may set
          StockLevels, \* stock levels an admin may set
          MaxEdits     \* bound on admin operations

VARIABLES product,  \* the collection: one row for each id
          supplied, \* ghost: units the admins have put on sale, net of removals
          edits     \* admin operations so far, for the bound MaxEdits

catalogueVars == <<product, supplied, edits>>

Row == [state : {"unused", "listed", "deleted"}, price : Nat, stock : Int]

ASSUME CatalogueAssumption ==
  /\ Shelf \in [Products -> Row] /\ \A p \in Products : Shelf[p].stock >= 0
  /\ Prices \subseteq Nat
  /\ StockLevels \subseteq Nat
  /\ MaxEdits \in Nat

CatalogueTypeOK ==
  /\ product \in [Products -> Row]
  /\ supplied \in [Products -> Int]
  /\ edits \in Nat

CatalogueInit ==
  /\ product = Shelf
  /\ supplied = [p \in Products |-> Shelf[p].stock]
  /\ edits = 0

----------------------------------------------------------------------------
(* The repository's queries and its conditional update.                    *)

\* findById(p) returns a document.
Listed(p) == product[p].state = "listed"

\* Variant: the filter without its availability guard.
MatchesAnyStock(p, qty) == Listed(p)

\* The filter of decrementStock matches: the document exists and holds qty.
Matches(p, qty) == Listed(p) /\ product[p].stock >= qty

\* findOneAndUpdate is atomic; it returns null, and changes nothing, when the
\* filter does not match.
DecrementStock(p, qty) ==
  product' = IF Matches(p, qty)
             THEN [product EXCEPT ![p].stock = @ - qty]
             ELSE product

----------------------------------------------------------------------------
(* The admin operations: each is one document write followed by an audit.  *)

Edit(p, row) ==
  /\ edits < MaxEdits
  /\ edits' = edits + 1
  /\ product' = [product EXCEPT ![p] = row]
  /\ supplied' = [supplied EXCEPT ![p] = @ + row.stock - product[p].stock]

CreateProduct(p) ==
  /\ product[p].state = "unused"
  /\ \E price \in Prices, stock \in StockLevels :
       Edit(p, [state |-> "listed", price |-> price, stock |-> stock])

\* The patch is partial: a field it does not name keeps its value, and one it
\* does name is overwritten with an absolute value, the stock included.
UpdateProduct(p) ==
  /\ Listed(p)
  /\ \E price \in Prices \cup {product[p].price},
        stock \in StockLevels \cup {product[p].stock} :
       Edit(p, [state |-> "listed", price |-> price, stock |-> stock])

RemoveProduct(p) ==
  /\ Listed(p)
  /\ Edit(p, [state |-> "deleted", price |-> 0, stock |-> 0])

AdminNext ==
  \E p \in Products : CreateProduct(p) \/ UpdateProduct(p) \/ RemoveProduct(p)
=============================================================================
