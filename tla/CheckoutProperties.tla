------------------------- MODULE CheckoutProperties -------------------------
(***************************************************************************)
(* What makes Checkout correct: the properties, and the inductive          *)
(* invariant that the proofs of the safety ones rest on.                   *)
(***************************************************************************)
EXTENDS Checkout, Functions

\* A handler that is at a line of its cart, or of its rollback, has that line,
\* and it pays only for reserved lines with a token the gateway can decode.
AtLine(r) ==
  /\ pc[r] # "idle" => job[r] \in Jobs
  /\ pc[r] \notin {"rollback", "done", "dead"} => undone[r] = 0
  /\ pc[r] \in {"idle", "find"} => items[r] = <<>>
  /\ pc[r] \in {"read", "reserve"} => Len(items[r]) < Len(job[r].cart)
  /\ pc[r] = "rollback" => undone[r] < Len(items[r])
  /\ pc[r] \in {"pay", "order", "attach"} =>
       total[r] > 0 /\ job[r].card # "malformed" /\ items[r] # <<>>

VarsOK ==
  /\ CatalogueTypeOK
  /\ pc \in [Requests -> Labels]
  /\ job \in [Requests -> Jobs \cup {NoJob}]
  /\ price \in [Requests -> Nat]
  /\ items \in [Requests -> Seq(Item)]
  /\ total \in [Requests -> Nat]
  /\ undone \in [Requests -> Nat]
  /\ order \in [Requests -> Requests \cup {NoOrder}]
  /\ reply \in [Requests -> Replies]
  /\ payments \subseteq Payment
  /\ orders \subseteq Order
  /\ captured \subseteq Requests
  /\ faults \in 0..MaxFaults /\ crashes \in 0..MaxCrashes

\* Every variable has its type, and every handler is at a line that exists.
TypeOK == VarsOK /\ \A r \in Requests : AtLine(r)

----------------------------------------------------------------------------
(* Stock.                                                                  *)

\* The lines whose stock the handler of r has taken and has neither turned into
\* an order nor put back.
Held(r) ==
  CASE pc[r] \in {"read", "reserve", "pay", "order"} -> DOMAIN items[r]
    [] pc[r] = "rollback" -> undone[r] + 1..Len(items[r])
    [] OTHER -> {}

\* Units of p on the given lines of a list.
Units(lines, given, p) ==
  SumFunctionOnSet([i \in given |-> lines[i].quantity],
                   {i \in given : lines[i].product = p})

Started == {r \in Requests : pc[r] # "idle"}
HeldUnits(p) == SumFunctionOnSet([r \in Started |-> Units(items[r], Held(r), p)], Started)
SoldUnits(p) == SumFunctionOnSet([o \in orders |-> Units(o.items, DOMAIN o.items, p)], orders)

\* No stock level is ever negative, whatever fails (src/README.md:156).
StockNeverNegative == \A p \in Products : product[p].stock >= 0

Undisturbed == faults = 0 /\ crashes = 0

\* While nothing fails, every unit supplied is on the shelf, held by one
\* handler or sold in one order: concurrent checkouts lose and invent no stock.
StockConserved ==
  Undisturbed /\ edits = 0 =>
    \A p \in Products : product[p].stock + HeldUnits(p) + SoldUnits(p) = supplied[p]

\* Crashes and admin edits may strand units, but while no database call fails they
\* never create any: what is on the shelf, held and sold was supplied.
NeverOversold ==
  faults = 0 =>
    \A p \in Products : product[p].stock + HeldUnits(p) + SoldUnits(p) <= supplied[p]

----------------------------------------------------------------------------
(* Payments and orders.                                                    *)

\* At most one order is made for an idempotency key, however many requests
\* carry it and whatever fails.
OneOrderPerKey ==
  \A o1, o2 \in orders : job[o1.id].key = job[o2.id].key => o1 = o2

\* An order exists only with an approved payment of its total, made by the same
\* request, whose charge the gateway has captured.
OrdersArePaid ==
  \A o \in orders :
    /\ o.id \in captured
    /\ \E q \in payments : q.id = o.id /\ q.status = "approved" /\ q.amount = o.total

PriceOf(lines) ==
  SumFunctionOnSet([i \in DOMAIN lines |-> lines[i].price * lines[i].quantity], DOMAIN lines)

\* An order lists the lines of the cart, and its total is their sum at the
\* prices it lists.
OrderMatchesCart ==
  \A o \in orders :
    /\ [i \in DOMAIN o.items |-> [product  |-> o.items[i].product,
                                  quantity |-> o.items[i].quantity]] = job[o.id].cart
    /\ o.total = PriceOf(o.items)

\* A 201 answers with an order that exists and that the payment of the
\* request's own key refers to, also when it replays an earlier attempt.
SuccessMeansOrder ==
  \A r \in Requests :
    reply[r] = 201 =>
      /\ \E o \in orders : o.id = order[r]
      /\ \E q \in payments : q.orderId = order[r] /\ q.key = job[r].key

\* While no database call fails, a request that is refused leaves no order and
\* no approved payment (src/README.md:166-171), and all its lines are restored.
RefusalLeavesNoTrace ==
  faults = 0 =>
    \A r \in Requests :
      pc[r] = "done" /\ reply[r] # 201 =>
        /\ \A o \in orders : o.id # r
        /\ \A q \in payments : q.id = r => q.status = "declined"
        /\ undone[r] = Len(items[r])

\* Replaying a key never charges the card twice (order.service.ts:28-29).
NeverChargedTwice ==
  \A r1, r2 \in captured : job[r1].key = job[r2].key => r1 = r2

\* A card that was charged for a request leaves a payment under the request's
\* key once the request is answered, also when the payment is a rival's or the
\* answer a refusal: while no database call fails, only a charge whose handler
\* died with the process is without a record (order.service.ts:80-98).
ChargesAreRecorded ==
  faults = 0 =>
    \A r \in captured : pc[r] = "done" => \E q \in payments : q.key = job[r].key

----------------------------------------------------------------------------
(* Progress.                                                               *)

\* Every request that arrives is answered, unless the process dies first: no
\* handler waits for another one and the rollback loop ends.
Responds ==
  \A r \in Requests : pc[r] = "find" ~> pc[r] \in {"done", "dead"}

\* An approved payment gets its order, and refers to it, unless a database call
\* fails or the process dies.
PaidBecomesOrder ==
  \A k \in Keys :
    (\E q \in payments : q.key = k /\ q.status = "approved")
      ~> \/ \E q \in payments, o \in orders : q.key = k /\ q.orderId = o.id
         \/ ~Undisturbed

----------------------------------------------------------------------------
(* The abstract specification.                                             *)

Decided == {[key |-> q.key, status |-> q.status, amount |-> q.amount] : q \in payments}
Fulfilled == {[key |-> job[o.id].key, total |-> o.total] : o \in orders}

P == INSTANCE Purchase WITH decided <- Decided, fulfilled <- Fulfilled

\* Checkout implements Purchase: one final decision for a key, at most one
\* fulfilment of it, for the amount decided.
ImplementsPurchase == P!Spec

----------------------------------------------------------------------------
(* The inductive invariant.                                                *)

\* A payment belongs to the request that made it, which is past that write.
PaymentOwner ==
  \A q \in payments :
    /\ q.key = job[q.id].key
    /\ q.amount = total[q.id]
    /\ pc[q.id] \in {"order", "attach", "rollback", "done", "dead"}
    /\ q.status = "approved" => q.id \in captured

\* The unique index.
KeysAreUnique == \A q1, q2 \in payments : q1.key = q2.key => q1 = q2

\* An order is the handler's items and total, under an approved payment.
OrderOwner ==
  \A o \in orders :
    /\ o.items = items[o.id] /\ o.total = total[o.id]
    /\ pc[o.id] \in {"attach", "rollback", "done", "dead"}
    /\ \E q \in payments : q.id = o.id /\ q.status = "approved"

\* A payment refers only to the order of its own request.
LinksAreReal ==
  \A q \in payments :
    q.orderId # NoOrder => q.orderId = q.id /\ \E o \in orders : o.id = q.id

\* What the handler of r knows at each await.
Knows(r) ==
  /\ pc[r] \in {"idle", "find", "read", "reserve", "pay", "order"} => order[r] = NoOrder
  /\ pc[r] \in {"pay", "order"} /\ job[r].card = "approved" => r \in captured
  /\ pc[r] \in {"order", "attach"} =>
       \E q \in payments : q.id = r /\ q.status = "approved"
  /\ pc[r] = "attach" => order[r] = r /\ \E o \in orders : o.id = r
  /\ pc[r] = "replay" \/ reply[r] = 201 =>
       \E q \in payments : q.orderId = order[r] /\ order[r] # NoOrder /\ q.key = job[r].key
  /\ reply[r] # 0 => pc[r] \in {"rollback", "done", "dead"}
  /\ pc[r] = "rollback" => reply[r] # 201

HandlerKnows == \A r \in Requests : Knows(r)

\* A charged handler is past its reservations, and its payment is stored next.
ChargeOwner ==
  \A r \in captured :
    /\ pc[r] \notin {"idle", "find", "replay", "read", "reserve"}
    /\ faults = 0 /\ pc[r] \notin {"pay", "dead"} =>
         \E q \in payments : q.key = job[r].key

IInv ==
  /\ TypeOK
  /\ StockNeverNegative
  /\ PaymentOwner
  /\ KeysAreUnique
  /\ OrderOwner
  /\ LinksAreReal
  /\ HandlerKnows

\* Only requests that have arrived hold or buy anything.
FinitelyMany == IsFiniteSet(Started) /\ IsFiniteSet(orders)

\* Until an admin edits the catalogue, what is restored finds its document.
BoughtAreListed ==
  edits = 0 =>
    \A r \in Requests : \A i \in DOMAIN items[r] : Listed(items[r][i].product)

\* The items of a handler are the first lines of its cart, all of them once it
\* has charged the card, and its total is their price.
ItemsMatch(r) ==
  /\ total[r] = PriceOf(items[r])
  /\ pc[r] # "idle" =>
       /\ Len(items[r]) <= Len(job[r].cart)
       /\ \A i \in DOMAIN items[r] :
            /\ items[r][i].product = job[r].cart[i].product
            /\ items[r][i].quantity = job[r].cart[i].quantity
  /\ pc[r] \in {"pay", "order", "attach"} => Len(items[r]) = Len(job[r].cart)

ItemsAreCart == \A r \in Requests : ItemsMatch(r)

StockInv == FinitelyMany /\ BoughtAreListed /\ StockConserved /\ NeverOversold
=============================================================================
