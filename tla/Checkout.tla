------------------------------ MODULE Checkout ------------------------------
(***************************************************************************)
(* POST /api/orders/checkout: order.service.ts with the payment gateway    *)
(* mock and the payments and orders collections. Express runs one handler  *)
(* for each request on one event loop, so a handler is interrupted only    *)
(* where it awaits the database: an action is the code from one await to   *)
(* the next, and pc names the await that the handler is blocked on.        *)
(* A request makes at most one payment and one order document; both carry  *)
(* the request's id as their _id. Audit writes never throw and are left    *)
(* out.                                                                    *)
(***************************************************************************)
EXTENDS Catalogue, Sequences, FiniteSets, FiniteSetsExt

CONSTANTS Requests,   \* checkout requests, each handled once
          Keys,       \* idempotency keys
          Jobs,       \* the bodies requests may carry
          NoJob,      \* the body of a request that has not arrived
          NoOrder,    \* an absent order id
          MaxFaults,  \* bound on failing database calls
          MaxCrashes  \* bound on process crashes

VARIABLES pc,        \* the await the handler of a request is blocked on
          job,       \* the request's body
          price,     \* product.price of the document last read
          items,     \* items, and with it decremented, of the handler
          total,     \* total of the handler
          undone,    \* lines the rollback loop has restored
          order,     \* _id of the order the handler holds
          reply,     \* status code the handler answers with; 0 before that
          payments,  \* the payments collection
          orders,    \* the orders collection
          captured,  \* ghost: requests whose card the gateway has charged
          faults, crashes

locals == <<job, price, items, total, undone, order>>
database == <<payments, orders>>
bounds == <<faults, crashes>>
vars == <<catalogueVars, pc, locals, reply, database, captured, bounds>>

Cards == {"approved", "declined", "malformed"}
Line == [product : Products, quantity : 1..99]
Item == [product : Products, price : Nat, quantity : 1..99]

\* The bodies CheckoutDTO lets through.
CheckoutDTO(j) ==
  /\ j.key \in Keys
  /\ j.cart \in Seq(Line)
  /\ Len(j.cart) \in 1..50
  /\ j.card \in Cards

ASSUME CheckoutAssumption ==
  /\ \A j \in Jobs : CheckoutDTO(j)
  /\ NoJob \notin Jobs
  /\ NoOrder \notin Requests
  /\ MaxFaults \in Nat /\ MaxCrashes \in Nat

Payment == [id : Requests, key : Keys, status : {"approved", "declined"},
            amount : Nat \ {0}, orderId : Requests \cup {NoOrder}]
Order == [id : Requests, items : Seq(Item), total : Nat]

Labels == {"idle", "find", "replay", "read", "reserve", "pay", "order",
           "attach", "rollback", "done", "dead"}
Replies == {0, 201, 400, 402, 404, 409, 500}

Init ==
  /\ CatalogueInit
  /\ pc = [r \in Requests |-> "idle"]
  /\ job = [r \in Requests |-> NoJob]
  /\ price = [r \in Requests |-> 0]
  /\ items = [r \in Requests |-> <<>>]
  /\ total = [r \in Requests |-> 0]
  /\ undone = [r \in Requests |-> 0]
  /\ order = [r \in Requests |-> NoOrder]
  /\ reply = [r \in Requests |-> 0]
  /\ payments = {} /\ orders = {} /\ captured = {}
  /\ faults = 0 /\ crashes = 0

----------------------------------------------------------------------------
(* How a step of the handler ends.                                         *)

\* It blocks on the next await.
Goto(r, label) == pc' = [pc EXCEPT ![r] = label] /\ UNCHANGED reply

\* It returns, or throws outside the try block.
Answer(r, code) ==
  /\ pc' = [pc EXCEPT ![r] = "done"]
  /\ reply' = [reply EXCEPT ![r] = code]

\* Variant: there is no catch block.
AbortWithoutRollback(r, code, held) == Answer(r, code)

\* It throws inside the try block: the catch block restores the held lines.
Abort(r, code, held) ==
  /\ pc' = [pc EXCEPT ![r] = IF held = <<>> THEN "done" ELSE "rollback"]
  /\ reply' = [reply EXCEPT ![r] = code]

----------------------------------------------------------------------------
(* The writes a handler makes.                                             *)

\* The line the loop is at, and what it pushes to items once it is reserved.
NextLine(r) == job[r].cart[Len(items[r]) + 1]
Bought(r) == Append(items[r], [product  |-> NextLine(r).product,
                               price    |-> price[r],
                               quantity |-> NextLine(r).quantity])

\* Variant: the total leaves the quantity out.
SumOfPrices(r) == total[r] + price[r]

Sum(r) == total[r] + price[r] * NextLine(r).quantity

TakeLine(r) == DecrementStock(NextLine(r).product, NextLine(r).quantity)

\* Variant: idempotencyKey has no unique index.
NoIndex(k) == TRUE

\* The unique index on idempotencyKey accepts the document.
KeyIsFree(k) == \A q \in payments : q.key # k

StorePayment(r) ==
  payments' = payments \cup
    {[id |-> r, key |-> job[r].key, status |-> job[r].card,
      amount |-> total[r], orderId |-> NoOrder]}

StoreOrder(r) ==
  orders' = orders \cup {[id |-> r, items |-> items[r], total |-> total[r]]}

\* Variant: the update is forgotten.
LinkNothing(r) == UNCHANGED payments

LinkOrder(r) ==
  payments' = {IF q.id = r THEN [q EXCEPT !.orderId = order[r]] ELSE q : q \in payments}

\* Variant: the rollback loop uses the first entry each time.
RestoreFirst(r) ==
  LET d == items[r][1] IN DecrementStock(d.product, -d.quantity)

\* decrementStock(d.id, -d.qty) for the next entry of decremented.
RestoreLine(r) ==
  LET d == items[r][undone[r] + 1] IN DecrementStock(d.product, -d.quantity)

----------------------------------------------------------------------------
(* The handler.                                                            *)

\* The route has authenticated the caller and CheckoutDTO accepts the body.
Arrive(r, j) ==
  /\ pc[r] = "idle"
  /\ Goto(r, "find")
  /\ job' = [job EXCEPT ![r] = j]
  /\ UNCHANGED <<catalogueVars, price, items, total, undone, order, database,
                 captured, bounds>>

\* findByIdempotencyKey: a new key goes on, an attempt whose order is known is
\* replayed, any other prior attempt is refused.
FindPrior(r) ==
  /\ pc[r] = "find"
  /\ \/ /\ \A q \in payments : q.key # job[r].key
        /\ Goto(r, "read")
        /\ UNCHANGED order
     \/ \E q \in payments :
          /\ q.key = job[r].key
          /\ q.status = "approved" /\ q.orderId # NoOrder
          /\ Goto(r, "replay")
          /\ order' = [order EXCEPT ![r] = q.orderId]
     \/ \E q \in payments :
          /\ q.key = job[r].key
          /\ q.status # "approved" \/ q.orderId = NoOrder
          /\ Answer(r, 409)
          /\ UNCHANGED order
  /\ UNCHANGED <<catalogueVars, job, price, items, total, undone, database,
                 captured, bounds>>

Replay(r) ==
  /\ pc[r] = "replay"
  /\ Answer(r, IF \E o \in orders : o.id = order[r] THEN 201 ELSE 409)
  /\ UNCHANGED <<catalogueVars, locals, database, captured, bounds>>

\* findById for the next line.
ReadProduct(r) ==
  LET p == NextLine(r).product IN
  /\ pc[r] = "read"
  /\ \/ /\ Listed(p)
        /\ price' = [price EXCEPT ![r] = product[p].price]
        /\ Goto(r, "reserve")
     \/ /\ ~Listed(p)
        /\ Abort(r, 404, items[r])
        /\ UNCHANGED price
  /\ UNCHANGED <<catalogueVars, job, items, total, undone, order, database,
                 captured, bounds>>

\* Variants: the line is pushed to decremented before the result is checked, the
\* card is charged before it, and the handler waits instead of refusing.
PushedBeforeCheck(r) ==
  /\ pc[r] = "reserve"
  /\ ~Matches(NextLine(r).product, NextLine(r).quantity)
  /\ items' = [items EXCEPT ![r] = Bought(r)]
  /\ Abort(r, 400, Bought(r))
  /\ UNCHANGED <<catalogueVars, job, price, total, undone, order, database,
                 captured, bounds>>
ChargedBeforeCheck(r) ==
  /\ pc[r] = "reserve"
  /\ ~Matches(NextLine(r).product, NextLine(r).quantity)
  /\ captured' = captured \cup {r}
  /\ Abort(r, 400, items[r])
  /\ UNCHANGED <<catalogueVars, locals, database, bounds>>
WaitForStock(r) == FALSE

\* decrementStock returned null: too little stock, or the product was deleted
\* since it was read.
OutOfStock(r) ==
  /\ pc[r] = "reserve"
  /\ ~Matches(NextLine(r).product, NextLine(r).quantity)
  /\ Abort(r, 400, items[r])
  /\ UNCHANGED <<catalogueVars, locals, database, captured, bounds>>

\* decrementStock returned the document: the line joins decremented and items.
PushLine(r) ==
  /\ pc[r] = "reserve"
  /\ Matches(NextLine(r).product, NextLine(r).quantity)
  /\ TakeLine(r)
  /\ items' = [items EXCEPT ![r] = Bought(r)]
  /\ total' = [total EXCEPT ![r] = Sum(r)]
  /\ UNCHANGED <<supplied, edits, job, price, undone, order, database, bounds>>

IsLastLine(r) == Len(items[r]) + 1 = Len(job[r].cart)

\* The gateway takes the charge: it throws 400 for an amount that is not
\* positive or a token it cannot decode.
Chargeable(r) == Sum(r) > 0 /\ job[r].card # "malformed"

ReserveLine(r) ==
  /\ PushLine(r)
  /\ ~IsLastLine(r)
  /\ Goto(r, "read")
  /\ UNCHANGED captured

\* The charge is synchronous: it happens in the same turn as the last line.
ReserveLastAndCharge(r) ==
  /\ PushLine(r)
  /\ IsLastLine(r)
  /\ Chargeable(r)
  /\ captured' = IF job[r].card = "approved" THEN captured \cup {r} ELSE captured
  /\ Goto(r, "pay")

ChargeRejected(r) ==
  /\ PushLine(r)
  /\ IsLastLine(r)
  /\ ~Chargeable(r)
  /\ Abort(r, 400, Bought(r))
  /\ UNCHANGED captured

\* Variant: the result of the charge is not checked.
DeclineIgnored(r) ==
  /\ pc[r] = "pay"
  /\ KeyIsFree(job[r].key)
  /\ StorePayment(r)
  /\ Goto(r, "order")
  /\ UNCHANGED <<catalogueVars, locals, orders, captured, bounds>>

\* paymentRepository.create: a key that another request has stored meanwhile is
\* a duplicate-key error (500); a declined payment is stored and refused (402).
CreatePayment(r) ==
  /\ pc[r] = "pay"
  /\ \/ /\ ~KeyIsFree(job[r].key)
        /\ Abort(r, 500, items[r])
        /\ UNCHANGED payments
     \/ /\ KeyIsFree(job[r].key)
        /\ StorePayment(r)
        /\ job[r].card = "approved"
        /\ Goto(r, "order")
     \/ /\ KeyIsFree(job[r].key)
        /\ StorePayment(r)
        /\ job[r].card = "declined"
        /\ Abort(r, 402, items[r])
  /\ UNCHANGED <<catalogueVars, locals, orders, captured, bounds>>

CreateOrder(r) ==
  /\ pc[r] = "order"
  /\ StoreOrder(r)
  /\ order' = [order EXCEPT ![r] = r]
  /\ Goto(r, "attach")
  /\ UNCHANGED <<catalogueVars, job, price, items, total, undone, payments,
                 captured, bounds>>

AttachOrder(r) ==
  /\ pc[r] = "attach"
  /\ LinkOrder(r)
  /\ Answer(r, 201)
  /\ UNCHANGED <<catalogueVars, locals, orders, captured, bounds>>

\* One turn of the loop in the catch block; restoring a deleted product finds
\* no document and does nothing.
Rollback(r) ==
  /\ pc[r] = "rollback"
  /\ RestoreLine(r)
  /\ undone' = [undone EXCEPT ![r] = @ + 1]
  /\ Goto(r, IF undone[r] + 1 = Len(items[r]) THEN "done" ELSE "rollback")
  /\ UNCHANGED <<supplied, edits, job, price, items, total, order, database,
                 captured, bounds>>

HandlerStep(r) ==
  \/ FindPrior(r) \/ Replay(r) \/ ReadProduct(r) \/ OutOfStock(r)
  \/ ReserveLine(r) \/ ReserveLastAndCharge(r) \/ ChargeRejected(r)
  \/ CreatePayment(r) \/ CreateOrder(r) \/ AttachOrder(r) \/ Rollback(r)

----------------------------------------------------------------------------
(* A database call throws. The write it asked for may be lost, or may have *)
(* been made although its answer was: mongod runs standalone, without      *)
(* retryable writes.                                                       *)

CountFault ==
  /\ faults < MaxFaults
  /\ faults' = faults + 1
  /\ UNCHANGED <<supplied, edits, locals, captured, crashes>>

\* Both lookups come before the try block: nothing is rolled back.
LookupFails(r) ==
  /\ pc[r] \in {"find", "replay"}
  /\ Answer(r, 500)
  /\ CountFault
  /\ UNCHANGED <<product, database>>

\* A line whose decrement took effect but threw is not in decremented.
LineFails(r) ==
  /\ pc[r] \in {"read", "reserve"}
  /\ \/ UNCHANGED product
     \/ pc[r] = "reserve" /\ TakeLine(r)
  /\ Abort(r, 500, items[r])
  /\ CountFault
  /\ UNCHANGED database

PaymentFails(r) ==
  /\ pc[r] = "pay"
  /\ \/ UNCHANGED payments
     \/ KeyIsFree(job[r].key) /\ StorePayment(r)
  /\ Abort(r, 500, items[r])
  /\ CountFault
  /\ UNCHANGED <<product, orders>>

OrderFails(r) ==
  /\ pc[r] = "order"
  /\ \/ UNCHANGED orders
     \/ StoreOrder(r)
  /\ Abort(r, 500, items[r])
  /\ CountFault
  /\ UNCHANGED <<product, payments>>

AttachFails(r) ==
  /\ pc[r] = "attach"
  /\ \/ UNCHANGED payments
     \/ LinkOrder(r)
  /\ Abort(r, 500, items[r])
  /\ CountFault
  /\ UNCHANGED <<product, orders>>

\* A throw inside the catch block ends the loop and replaces the first error.
RollbackFails(r) ==
  /\ pc[r] = "rollback"
  /\ \/ UNCHANGED product
     \/ RestoreLine(r)
  /\ Answer(r, 500)
  /\ CountFault
  /\ UNCHANGED database

Fault(r) ==
  \/ LookupFails(r) \/ LineFails(r) \/ PaymentFails(r)
  \/ OrderFails(r) \/ AttachFails(r) \/ RollbackFails(r)

\* The process dies and the container is restarted: every handler in flight
\* is gone with its locals, the database stays as it is.
InFlight(r) == pc[r] \notin {"idle", "done", "dead"}

Crash ==
  /\ crashes < MaxCrashes
  /\ \E r \in Requests : InFlight(r)
  /\ crashes' = crashes + 1
  /\ pc' = [r \in Requests |-> IF InFlight(r) THEN "dead" ELSE pc[r]]
  /\ UNCHANGED <<catalogueVars, locals, reply, database, captured, faults>>

----------------------------------------------------------------------------
Admin ==
  /\ AdminNext
  /\ UNCHANGED <<pc, locals, reply, database, captured, bounds>>

Environment ==
  \/ \E r \in Requests : Fault(r)
  \/ Crash
  \/ Admin

Next ==
  \/ \E r \in Requests, j \in Jobs : Arrive(r, j)
  \/ \E r \in Requests : HandlerStep(r)
  \/ Environment

\* The event loop resumes every handler whose await has settled, and the driver
\* settles every call, at the latest with its timeout.
Fairness == \A r \in Requests : WF_vars(HandlerStep(r))

Spec == Init /\ [][Next]_vars /\ Fairness
=============================================================================
