-------------------------- MODULE StorefrontProofs --------------------------
(***************************************************************************)
(* Proofs about the checkout page composed with the handlers: one key is   *)
(* charged once, and the page shows, and empties its cart of, what was     *)
(* bought. A step of the composition is a step of Checkout or a stutter of *)
(* it, so what CheckoutProofs proves of the handlers holds here as well;   *)
(* what has to be added is that a page never has two live requests on one  *)
(* key.                                                                    *)
(***************************************************************************)
EXTENDS Storefront, CheckoutProofs

\* What another tab may make of a cart, and that Carts has all of it: the hypothesis
\* of the theorems, which for the instance that TLC checks StorefrontTypeOK tells.
Changed(c, p) ==
  {addToCart(c, p, 1), removeFromCart(c, p)} \cup {setQuantity(c, p, n) : n \in 0..MaxQuantity}

CartsClosed ==
  \A c \in Carts \cup {<<>>}, p \in Products :
    \A d \in Changed(c, p) :
      (\A i \in DOMAIN d : d[i].quantity <= MaxQuantity) => d \in Carts \cup {<<>>}

----------------------------------------------------------------------------
(* The composition implements Checkout.                                    *)

LEMMA ArriveInJobs ==
  ASSUME StorefrontTypeOK, NEW s \in Shoppers, lines[s] # <<>>,
         NEW card \in {"approved", "declined"}
  PROVE  [key |-> key[s], cart |-> lines[s], card |-> card] \in Jobs
<1>1. key[s] \in Keys /\ lines[s] \in Carts BY DEF StorefrontTypeOK
<1> QED BY <1>1, StorefrontAssumption

LEMMA PageSteps ==
  ASSUME NEW s \in Shoppers, Page(s)
  PROVE  Submit(s) \/ UNCHANGED vars
BY DEF Page, ChangeCart, SentAway, Placed, Declined, Refused, Lost, Mount, Leave, Return,
       LeftAnswered

LEMMA ServerIsCheckout ==
  ASSUME StorefrontTypeOK, [StorefrontNext]_<<vars, pageVars>>
  PROVE  [Next]_vars
<1>1. ASSUME NEW s \in Shoppers, Submit(s)
      PROVE  Next
  <2>1. PICK r \in Requests, card \in {"approved", "declined"} :
          Arrive(r, [key |-> key[s], cart |-> lines[s], card |-> card])
    BY <1>1 DEF Submit
  <2>2. [key |-> key[s], cart |-> lines[s], card |-> card] \in Jobs
    BY <1>1, ArriveInJobs DEF Submit
  <2> QED BY <2>1, <2>2 DEF Next
<1>2. Server => Next BY DEF Server, Next
<1> QED BY <1>1, <1>2, PageSteps DEF StorefrontNext

----------------------------------------------------------------------------
(* Types.                                                                  *)

LEMMA StorefrontTypeInit == StorefrontInit => StorefrontTypeOK
BY StorefrontAssumption DEF StorefrontInit, StorefrontTypeOK

LEMMA MintType ==
  ASSUME key \in [Shoppers -> minted], minted \subseteq Keys,
         NEW s \in Shoppers, MintKey(s)
  PROVE  key' \in [Shoppers -> minted'] /\ minted' \subseteq Keys
BY DEF MintKey

LEMMA StorefrontTypeStep ==
  ASSUME StorefrontTypeOK, CartsClosed, [StorefrontNext]_<<vars, pageVars>>
  PROVE  StorefrontTypeOK'
<1> USE DEF StorefrontTypeOK, limits
<1>1. ASSUME NEW s \in Shoppers, ChangeCart(s)
      PROVE  StorefrontTypeOK'
  <2>1. PICK p \in Products : \E d \in Changed(cart[s], p) :
          cart' = [cart EXCEPT ![s] = d]
    BY <1>1 DEF ChangeCart, Changed
  <2>d. PICK d \in Changed(cart[s], p) : cart' = [cart EXCEPT ![s] = d]
    BY <2>1
  <2>2. cart'[s] = d BY <2>d
  <2>3. d \in Carts \cup {<<>>} BY <1>1, <2>2 DEF ChangeCart, CartsClosed
  <2>4. changes' \in 0..MaxChanges BY <1>1, StorefrontAssumption DEF ChangeCart
  <2> QED BY <1>1, <2>d, <2>3, <2>4 DEF ChangeCart
<1>2. ASSUME NEW s \in Shoppers, Submit(s)
      PROVE  StorefrontTypeOK'
  <2>1. PICK r \in Requests : /\ sent' = [sent EXCEPT ![s] = r]
                              /\ tries' = [tries EXCEPT ![s] = @ \cup {r}]
    BY <1>2 DEF Submit
  <2>2. tries' \in [Shoppers -> SUBSET Requests] BY <2>1
  <2> QED BY <1>2, <2>1, <2>2 DEF Submit
<1>3. ASSUME NEW s \in Shoppers, SentAway(s)
      PROVE  StorefrontTypeOK'
  BY <1>3 DEF SentAway
<1>4. ASSUME NEW s \in Shoppers, Placed(s)
      PROVE  StorefrontTypeOK'
  BY <1>4 DEF Placed, Answered, clearCart
<1>5. ASSUME NEW s \in Shoppers, Declined(s)
      PROVE  StorefrontTypeOK'
  BY <1>5, MintType DEF Declined, Answered
<1>6. ASSUME NEW s \in Shoppers, Refused(s)
      PROVE  StorefrontTypeOK'
  BY <1>6 DEF Refused, Answered
<1>7. ASSUME NEW s \in Shoppers, Lost(s)
      PROVE  StorefrontTypeOK'
  BY <1>7, StorefrontAssumption DEF Lost
<1>8. ASSUME NEW s \in Shoppers, Mount(s)
      PROVE  StorefrontTypeOK'
  BY <1>8, MintType, StorefrontAssumption DEF Mount, ReadCart
<1>9. ASSUME NEW s \in Shoppers, Return(s)
      PROVE  StorefrontTypeOK'
  BY <1>9, MintType, StorefrontAssumption DEF Return, ReadCart
<1>10. ASSUME NEW s \in Shoppers, Leave(s)
       PROVE  StorefrontTypeOK'
  <2>1. left' \in [Shoppers -> SUBSET Requests] BY <1>10 DEF Leave
  <2> QED BY <1>10, <2>1 DEF Leave
<1>11. ASSUME NEW s \in Shoppers, LeftAnswered(s)
       PROVE  StorefrontTypeOK'
  <2>1. left' \in [Shoppers -> SUBSET Requests] BY <1>11 DEF LeftAnswered
  <2>2. cart' \in [Shoppers -> Carts \cup {<<>>}] BY <1>11 DEF LeftAnswered
  <2> QED BY <1>11, <2>1, <2>2 DEF LeftAnswered
<1>12. CASE UNCHANGED pageVars BY <1>12 DEF pageVars
<1> QED
  BY <1>1, <1>2, <1>3, <1>4, <1>5, <1>6, <1>7, <1>8, <1>9, <1>10, <1>11, <1>12
     DEF StorefrontNext, Page, Server

----------------------------------------------------------------------------
(* One live request for a key.                                             *)

Sent(r) == pc[r] # "idle"

\* The requests on the page's present key are answered, but the one it waits for or
\* waited for until it was left, and while it can send, all were for its lines.
OnPresentKey(s) ==
  \A r \in Requests :
    Sent(r) /\ job[r].key = key[s] =>
      /\ pc[r] = "done" \/ (r = sent[s] /\ phase[s] # "form")
      /\ phase[s] \notin {"success", "away"} => job[r].cart = lines[s]

\* A page that waits has sent a request on its key; one that succeeded has its answer.
Waits(s) ==
  /\ phase[s] \in {"loading", "stuck", "success"} =>
       Sent(sent[s]) /\ job[sent[s]].key = key[s]
  /\ phase[s] = "success" => pc[sent[s]] = "done" /\ reply[sent[s]] = 201

\* Keys are random: no two pages share one, and no request has one that is to come.
KeysDiffer ==
  /\ \A s, t \in Shoppers : key[s] = key[t] => s = t
  /\ \A r \in Requests : Sent(r) => job[r].key \in minted

\* Two requests with one key are for one cart, and one of them has been answered.
Retries ==
  \A q, r \in Requests :
    q # r /\ Sent(q) /\ Sent(r) /\ job[q].key = job[r].key =>
      /\ job[q].cart = job[r].cart
      /\ pc[q] = "done" \/ pc[r] = "done"

PageInv ==
  /\ KeysDiffer
  /\ \A s \in Shoppers : OnPresentKey(s) /\ Waits(s)
  /\ Retries

\* What a step of the server leaves: requests are only answered or dead.
Onward ==
  /\ job' = job
  /\ \A r \in Requests :
       /\ pc'[r] = "idle" <=> pc[r] = "idle"
       /\ pc[r] = "done" => pc'[r] = "done" /\ reply'[r] = reply[r]

LEMMA AnsweredStays ==
  ASSUME TypeOK, NEW r \in Requests, Step(r)
  PROVE  pc[r] \notin {"idle", "done"} /\ pc'[r] # "idle"
<1> USE DEF TypeOK, VarsOK, Goto, Answer, Abort
<1>1. CASE HandlerStep(r)
  BY <1>1 DEF HandlerStep, FindPrior, Replay, ReadProduct, OutOfStock, ReserveLine,
              ReserveLastAndCharge, ChargeRejected, PushLine, CreatePayment, CreateOrder,
              AttachOrder, Rollback
<1>2. CASE Fault(r)
  BY <1>2 DEF Fault, LookupFails, LineFails, PaymentFails, OrderFails, AttachFails,
              RollbackFails
<1> QED BY <1>1, <1>2 DEF Step

LEMMA ServerGoesOnward ==
  ASSUME TypeOK, Server \/ UNCHANGED vars
  PROVE  Onward
<1>1. ASSUME NEW r \in Requests, Step(r)
      PROVE  Onward
  <2>1. job' = job BY <1>1, StepEffect DEF Step
  <2>2. \A s \in Requests \ {r} : Untouched(s)
    BY <1>1, HandlerFrame, FaultFrame DEF Step, TypeOK
  <2> QED BY <1>1, <2>1, <2>2, AnsweredStays DEF Onward, Untouched
<1>2. CASE Crash
  <2>1. job' = job /\ reply' = reply BY <1>2 DEF Crash, locals
  <2>2. \A r \in Requests : pc'[r] = IF InFlight(r) THEN "dead" ELSE pc[r]
    BY <1>2 DEF Crash
  <2> QED BY <2>1, <2>2 DEF Onward, InFlight
<1>3. CASE Admin \/ UNCHANGED vars
  BY <1>3 DEF Onward, Admin, vars, locals
<1> QED BY <1>1, <1>2, <1>3 DEF Server, Environment, Step

LEMMA PageInit == StorefrontInit => PageInv
BY DEF StorefrontInit, Init, PageInv, KeysDiffer, OnPresentKey, Waits, Retries, Sent

LEMMA ServerKeeps ==
  ASSUME StorefrontTypeOK, PageInv, Onward, UNCHANGED pageVars
  PROVE  PageInv'
<1> USE DEF Onward, pageVars, limits, Sent
<1>1. KeysDiffer' BY DEF PageInv, KeysDiffer
<1>2. ASSUME NEW s \in Shoppers
      PROVE  (OnPresentKey(s) /\ Waits(s))'
  <2>1. OnPresentKey(s) /\ Waits(s) BY DEF PageInv
  <2>2. OnPresentKey(s)' BY <2>1 DEF OnPresentKey
  <2>3. Waits(s)' BY <2>1 DEF Waits, StorefrontTypeOK
  <2> QED BY <2>2, <2>3
<1>3. Retries' BY DEF PageInv, Retries
<1> QED BY <1>1, <1>2, <1>3 DEF PageInv

\* A new request is on the page's key, and no other one on that key is in flight.
LEMMA SubmitKeeps ==
  ASSUME TypeOK, StorefrontTypeOK, PageInv, NEW s \in Shoppers, Submit(s)
  PROVE  PageInv'
<1>0. /\ pc \in [Requests -> Labels] /\ reply \in [Requests -> Replies]
      /\ job \in [Requests -> Jobs \cup {NoJob}]
      /\ sent \in [Shoppers -> Requests \cup {NoOrder}] /\ phase[s] = "form"
      /\ phase \in [Shoppers -> {"form", "loading", "stuck", "success", "away"}]
  BY DEF TypeOK, VarsOK, StorefrontTypeOK, Submit
<1>1. PICK r \in Requests, card \in {"approved", "declined"} :
        /\ Arrive(r, [key |-> key[s], cart |-> lines[s], card |-> card])
        /\ sent' = [sent EXCEPT ![s] = r]
  BY DEF Submit
<1>2. /\ pc[r] = "idle" /\ pc' = [pc EXCEPT ![r] = "find"] /\ reply' = reply
      /\ job' = [job EXCEPT ![r] = [key |-> key[s], cart |-> lines[s], card |-> card]]
      /\ phase' = [phase EXCEPT ![s] = "loading"] /\ lines' = lines
      /\ key' = key /\ minted' = minted
  BY <1>1 DEF Arrive, Goto, Submit
<1>3. /\ job'[r].key = key[s] /\ job'[r].cart = lines[s] /\ pc'[r] = "find"
      /\ \A q \in Requests \ {r} : job'[q] = job[q] /\ pc'[q] = pc[q]
  BY <1>0, <1>2
<1>4. \A q \in Requests : Sent(q) /\ job[q].key = key[s] =>
        pc[q] = "done" /\ job[q].cart = lines[s]
  BY <1>0 DEF PageInv, OnPresentKey
<1>5. KeysDiffer'
  BY <1>2, <1>3 DEF PageInv, KeysDiffer, Sent, StorefrontTypeOK
<1>6. ASSUME NEW t \in Shoppers
      PROVE  (OnPresentKey(t) /\ Waits(t))'
  <2>1. OnPresentKey(t) /\ Waits(t) BY DEF PageInv
  <2>2. CASE t = s
    <3>1. sent'[s] = r /\ phase'[s] = "loading" BY <1>0, <1>1, <1>2
    <3> QED BY <1>2, <1>3, <1>4, <2>2, <3>1 DEF OnPresentKey, Waits, Sent
  <2>3. CASE t # s
    <3>1. sent'[t] = sent[t] /\ phase'[t] = phase[t] /\ key[t] # key[s]
      BY <1>0, <1>1, <1>2, <2>3 DEF PageInv, KeysDiffer
    <3>2. OnPresentKey(t)' BY <1>2, <1>3, <2>1, <3>1 DEF OnPresentKey, Sent
    <3>3. phase[t] \in {"loading", "stuck", "success"} => sent[t] \in Requests \ {r}
      BY <1>2, <2>1 DEF Waits, Sent, StorefrontTypeOK
    <3>4. Waits(t)' BY <1>2, <1>3, <2>1, <3>1, <3>3 DEF Waits, Sent
    <3> QED BY <3>2, <3>4
  <2> QED BY <2>2, <2>3
<1>7. Retries' BY <1>3, <1>4 DEF PageInv, Retries, Sent
<1> QED BY <1>5, <1>6, <1>7 DEF PageInv

\* A page that gets a new key has no request on it.
LEMMA MintKeeps ==
  ASSUME StorefrontTypeOK, PageInv, NEW s \in Shoppers, MintKey(s),
         UNCHANGED <<pc, job, reply, sent>>,
         phase' = [phase EXCEPT ![s] = "form"],
         \A t \in Shoppers \ {s} : lines'[t] = lines[t]
  PROVE  PageInv'
<1>0. /\ key \in [Shoppers -> minted]
      /\ phase \in [Shoppers -> {"form", "loading", "stuck", "success", "away"}]
  BY DEF StorefrontTypeOK
<1>1. PICK k \in Keys \ minted : key' = [key EXCEPT ![s] = k] /\ minted' = minted \cup {k}
  BY DEF MintKey
<1>2. KeysDiffer' BY <1>0, <1>1 DEF PageInv, KeysDiffer, Sent
<1>3. \A r \in Requests : Sent(r) => job[r].key # k
  BY <1>1 DEF PageInv, KeysDiffer
<1>4. ASSUME NEW t \in Shoppers
      PROVE  (OnPresentKey(t) /\ Waits(t))'
  <2>1. OnPresentKey(t) /\ Waits(t) BY DEF PageInv
  <2>2. CASE t = s BY <1>0, <1>1, <1>3, <2>2 DEF OnPresentKey, Waits, Sent
  <2>3. CASE t # s BY <1>0, <1>1, <2>1, <2>3 DEF OnPresentKey, Waits, Sent
  <2> QED BY <2>2, <2>3
<1>5. Retries' BY DEF PageInv, Retries, Sent
<1> QED BY <1>2, <1>4, <1>5 DEF PageInv

\* The other steps of the page keep its key.
LEMMA PhaseKeeps ==
  ASSUME StorefrontTypeOK, PageInv, NEW s \in Shoppers,
         \/ ChangeCart(s) \/ SentAway(s) \/ Placed(s) \/ Refused(s) \/ Lost(s)
         \/ Leave(s) \/ LeftAnswered(s)
  PROVE  PageInv'
<1>0. /\ phase \in [Shoppers -> {"form", "loading", "stuck", "success", "away"}]
      /\ lines \in [Shoppers -> Carts \cup {<<>>}]
      /\ UNCHANGED <<pc, job, reply, sent, key, minted>>
  BY DEF StorefrontTypeOK, ChangeCart, SentAway, Placed, Refused, Lost, Leave, LeftAnswered,
         limits, vars, locals
<1>1. /\ \A t \in Shoppers \ {s} : phase'[t] = phase[t] /\ lines'[t] = lines[t]
      /\ phase'[s] # "success" => lines'[s] = lines[s]
  BY <1>0 DEF ChangeCart, SentAway, Placed, Refused, Lost, Leave, LeftAnswered,
              clearCart
<1>2. \/ phase'[s] = phase[s]
      \/ phase'[s] = "away"
      \/ phase[s] = "loading" /\ phase'[s] = "stuck"
      \/ phase[s] = "loading" /\ pc[sent[s]] = "done" /\ phase'[s] = "form"
      \/ /\ phase[s] = "loading" /\ pc[sent[s]] = "done" /\ reply[sent[s]] = 201
         /\ phase'[s] = "success"
  BY <1>0 DEF ChangeCart, SentAway, Placed, Refused, Lost, Leave, LeftAnswered,
              Answered
<1>3. phase[s] \in {"success", "away"} => phase'[s] \in {phase[s], "away"}
  BY <1>0 DEF ChangeCart, SentAway, Placed, Refused, Lost, Leave, LeftAnswered,
              Answered
<1>4. KeysDiffer' /\ Retries' BY <1>0 DEF PageInv, KeysDiffer, Retries, Sent
<1>5. ASSUME NEW t \in Shoppers
      PROVE  (OnPresentKey(t) /\ Waits(t))'
  <2>1. OnPresentKey(t) /\ Waits(t) BY DEF PageInv
  <2>2. CASE t = s
    <3>1. OnPresentKey(s)' BY <1>0, <1>1, <1>2, <2>1, <2>2 DEF OnPresentKey, Sent
    <3>2. Waits(s)' BY <1>0, <1>2, <2>1, <2>2 DEF Waits, Sent
    <3> QED BY <2>2, <3>1, <3>2
  <2>3. CASE t # s BY <1>0, <1>1, <2>1, <2>3 DEF OnPresentKey, Waits, Sent
  <2> QED BY <2>2, <2>3
<1> QED BY <1>4, <1>5 DEF PageInv

LEMMA PageInvStep ==
  ASSUME TypeOK, StorefrontTypeOK, PageInv, [StorefrontNext]_<<vars, pageVars>>
  PROVE  PageInv'
<1>1. ASSUME NEW s \in Shoppers, Page(s)
      PROVE  PageInv'
  <2>1. CASE Submit(s) BY <2>1, SubmitKeeps
  <2>2. CASE Declined(s)
    <3>1. /\ MintKey(s) /\ UNCHANGED <<pc, job, reply, sent, lines>>
          /\ phase' = [phase EXCEPT ![s] = "form"]
      BY <2>2 DEF Declined, vars, locals
    <3> QED BY <3>1, MintKeeps
  <2>3. CASE Mount(s)
    <3>1. /\ MintKey(s) /\ UNCHANGED <<pc, job, reply, sent>>
          /\ phase' = [phase EXCEPT ![s] = "form"]
          /\ lines' = [lines EXCEPT ![s] = cart[s]]
      BY <2>3 DEF Mount, ReadCart, vars, locals
    <3>2. \A t \in Shoppers \ {s} : lines'[t] = lines[t]
      BY <3>1 DEF StorefrontTypeOK
    <3> QED BY <3>1, <3>2, MintKeeps
  <2>4. CASE Return(s)
    <3>1. /\ MintKey(s) /\ UNCHANGED <<pc, job, reply, sent>>
          /\ phase' = [phase EXCEPT ![s] = "form"]
          /\ lines' = [lines EXCEPT ![s] = cart[s]]
      BY <2>4 DEF Return, ReadCart, vars, locals
    <3>2. \A t \in Shoppers \ {s} : lines'[t] = lines[t]
      BY <3>1 DEF StorefrontTypeOK
    <3> QED BY <3>1, <3>2, MintKeeps
  <2>5. CASE \/ ChangeCart(s) \/ SentAway(s) \/ Placed(s) \/ Refused(s) \/ Lost(s)
             \/ Leave(s) \/ LeftAnswered(s)
    BY <2>5, PhaseKeeps
  <2> QED BY <1>1, <2>1, <2>2, <2>3, <2>4, <2>5 DEF Page
<1>2. CASE Server \/ UNCHANGED <<vars, pageVars>>
  BY <1>2, ServerGoesOnward, ServerKeeps DEF Server
<1> QED BY <1>1, <1>2 DEF StorefrontNext

----------------------------------------------------------------------------
(* One charge for a key.                                                   *)

\* A handler that has not charged yet found no payment on its key, and there is
\* none still: the other requests on the key are answered.
NoPaymentYet ==
  \A r \in Requests : pc[r] \in {"read", "reserve"} => KeyIsFree(job[r].key)

\* Where a handler comes from when it is about to reserve, and where it may go.
LEMMA ReserveEffect ==
  ASSUME TypeOK, NEW r \in Requests, Step(r)
  PROVE  /\ pc'[r] \in {"read", "reserve"} =>
              /\ payments' = payments
              /\ pc[r] \in {"read", "reserve"} \/ KeyIsFree(job[r].key)
         /\ faults' = 0 => faults = 0
<1> USE DEF TypeOK, VarsOK, Goto, Answer, Abort, database, bounds
<1>1. CASE HandlerStep(r)
  BY <1>1 DEF HandlerStep, FindPrior, Replay, ReadProduct, OutOfStock, ReserveLine,
              ReserveLastAndCharge, ChargeRejected, PushLine, CreatePayment, CreateOrder,
              AttachOrder, Rollback, KeyIsFree
<1>2. CASE Fault(r)
  BY <1>2 DEF Fault, LookupFails, LineFails, PaymentFails, OrderFails, AttachFails,
              RollbackFails, CountFault
<1> QED BY <1>1, <1>2 DEF Step

LEMMA FreeStep ==
  ASSUME IInv, Retries, NoPaymentYet, NEW r \in Requests, Step(r)
  PROVE  NoPaymentYet'
<1>0. TypeOK /\ job' = job BY StepEffect DEF IInv, Step
<1>1. \A s \in Requests \ {r} : pc'[s] = pc[s]
  BY <1>0, HandlerFrame, FaultFrame DEF Step, TypeOK, Untouched
<1>2. CASE payments' = payments
  BY <1>0, <1>1, <1>2, ReserveEffect DEF NoPaymentYet, KeyIsFree
<1>3. ASSUME NEW s \in Requests, pc'[s] \in {"read", "reserve"}, payments' # payments
      PROVE  KeyIsFree(job[s].key)'
  <2>1. s # r /\ pc[s] \in {"read", "reserve"} BY <1>0, <1>1, <1>3, ReserveEffect
  <2>2. job[r].key # job[s].key
    BY <1>0, <2>1, AnsweredStays DEF Retries, Sent
  <2>3. \A n \in payments' : n.key = job[r].key \/ \E q \in payments : n.key = q.key
    BY PaymentEffect
  <2> QED BY <1>0, <2>1, <2>2, <2>3 DEF NoPaymentYet, KeyIsFree
<1> QED BY <1>2, <1>3 DEF NoPaymentYet

\* A handler that charges has a key without a charge: one of a live request is
\* ruled out by Retries, and one of an answered request has its payment.
LEMMA ChargedOnceStep ==
  ASSUME IInv, ChargeOwner, Retries, NoPaymentYet, KeyChargedOnce,
         NEW r \in Requests, Step(r)
  PROVE  KeyChargedOnce'
<1>0. TypeOK /\ job' = job /\ captured \subseteq Requests
  BY StepEffect DEF IInv, Step, TypeOK, VarsOK
<1>1. SUFFICES ASSUME faults' = 0
               PROVE  NeverChargedTwice'
  BY DEF KeyChargedOnce
<1>2. faults = 0 /\ NeverChargedTwice BY <1>1, <1>0, ReserveEffect DEF KeyChargedOnce
<1>3. ASSUME r \in captured' \ captured, NEW q \in captured, job[q].key = job[r].key
      PROVE  FALSE
  <2>1. pc[r] = "reserve" /\ q # r BY <1>0, <1>3, ChargeEffect
  <2>2. pc[q] \notin {"idle", "find", "replay", "read", "reserve"} BY DEF ChargeOwner
  <2>3. pc[q] = "done" BY <1>0, <1>3, <2>1, <2>2 DEF Retries, Sent
  <2>4. \E n \in payments : n.key = job[r].key BY <1>2, <1>3, <2>3 DEF ChargeOwner
  <2> QED BY <2>1, <2>4 DEF NoPaymentYet, KeyIsFree
<1> QED BY <1>0, <1>2, <1>3, ChargeEffect DEF NeverChargedTwice

Charges == ChargeOwner /\ NoPaymentYet /\ KeyChargedOnce

LEMMA ChargesStep ==
  ASSUME IInv, Retries, Charges, [Next]_vars
  PROVE  Charges'
<1>0. TypeOK /\ captured \subseteq Requests BY DEF IInv, TypeOK, VarsOK
<1>1. ChargeOwner' BY ChargeStep DEF Charges
<1>2. ASSUME NEW r \in Requests, Step(r)
      PROVE  Charges'
  BY <1>1, <1>2, FreeStep, ChargedOnceStep DEF Charges
<1>3. ASSUME NEW r \in Requests, NEW j \in Jobs, Arrive(r, j)
      PROVE  Charges'
  <2>1. /\ pc' = [pc EXCEPT ![r] = "find"] /\ job' = [job EXCEPT ![r] = j]
        /\ pc[r] = "idle" /\ UNCHANGED <<payments, captured, faults>>
    BY <1>3 DEF Arrive, Goto, database, bounds
  <2>2. /\ pc'[r] = "find"
        /\ \A s \in Requests \ {r} : pc'[s] = pc[s] /\ job'[s] = job[s]
    BY <1>0, <2>1 DEF TypeOK, VarsOK
  <2>3. NoPaymentYet' BY <2>1, <2>2 DEF Charges, NoPaymentYet, KeyIsFree
  <2>4. \A s \in captured : s \in Requests \ {r}
    BY <1>0, <2>1 DEF Charges, ChargeOwner
  <2>5. KeyChargedOnce'
    BY <2>1, <2>2, <2>4 DEF Charges, KeyChargedOnce, NeverChargedTwice
  <2> QED BY <1>1, <2>3, <2>5 DEF Charges
<1>4. CASE Crash
  <2>1. UNCHANGED <<job, payments, captured, faults>>
    BY <1>4 DEF Crash, locals, database
  <2>2. \A s \in Requests : pc'[s] \in {"read", "reserve"} => pc'[s] = pc[s]
    BY <1>0, <1>4 DEF Crash, TypeOK, VarsOK
  <2>3. NoPaymentYet' BY <2>1, <2>2 DEF Charges, NoPaymentYet, KeyIsFree
  <2>4. KeyChargedOnce' BY <2>1 DEF Charges, KeyChargedOnce, NeverChargedTwice
  <2> QED BY <1>1, <2>3, <2>4 DEF Charges
<1>5. CASE Admin \/ UNCHANGED vars
  <2>1. UNCHANGED <<pc, job, payments, captured, faults>>
    BY <1>5 DEF Admin, vars, locals, database, bounds
  <2> QED
    BY <1>1, <2>1 DEF Charges, NoPaymentYet, KeyIsFree, KeyChargedOnce, NeverChargedTwice
<1> QED BY <1>2, <1>3, <1>4, <1>5 DEF Next, Environment, Step

----------------------------------------------------------------------------
(* The theorems.                                                           *)

SInv ==
  /\ StorefrontTypeOK
  /\ IInv
  /\ PageInv
  /\ Charges

LEMMA SInvInit == StorefrontInit => SInv
<1> SUFFICES ASSUME StorefrontInit PROVE SInv
  OBVIOUS
<1>1. Init BY DEF StorefrontInit
<1>2. Charges
  BY <1>1 DEF Init, Charges, ChargeOwner, NoPaymentYet, KeyIsFree, KeyChargedOnce,
              NeverChargedTwice
<1> QED BY <1>1, <1>2, StorefrontTypeInit, InvInit, PageInit DEF SInv

LEMMA SInvStep ==
  ASSUME CartsClosed, SInv, [StorefrontNext]_<<vars, pageVars>>
  PROVE  SInv'
<1>1. [Next]_vars BY ServerIsCheckout DEF SInv
<1>2. StorefrontTypeOK' BY StorefrontTypeStep DEF SInv
<1>3. IInv' BY <1>1, InvStep DEF SInv
<1>4. PageInv' BY PageInvStep DEF SInv, IInv
<1>5. Charges' BY <1>1, ChargesStep DEF SInv, PageInv
<1> QED BY <1>2, <1>3, <1>4, <1>5 DEF SInv

\* The page's invariant and the handlers' hold together in every state, for any
\* number of shoppers and requests (checkout/page.tsx with order.service.ts).
THEOREM StorefrontInductive == CartsClosed /\ StorefrontSpec => []SInv
<1> SUFFICES ASSUME CartsClosed
             PROVE  StorefrontSpec => []SInv
  OBVIOUS
<1>1. SInv /\ [StorefrontNext]_<<vars, pageVars>> => SInv' BY SInvStep
<1> QED BY SInvInit, <1>1, PTL DEF StorefrontSpec

\* The variables of the page keep their types for any number of shoppers, requests,
\* page loads and changes of the cart in other tabs (checkout/page.tsx, lib/cart.ts).
THEOREM StorefrontTypes == CartsClosed /\ StorefrontSpec => []StorefrontTypeOK
BY StorefrontInductive, PTL DEF SInv

\* While no database call fails, no key is charged twice, whatever is lost, reloaded,
\* retried or crashes: the page sends a key again only after its answer
\* (checkout/page.tsx:46-84), and the handler then finds the payment.
THEOREM ChargedOnce == CartsClosed /\ StorefrontSpec => []KeyChargedOnce
BY StorefrontInductive, PTL DEF SInv, Charges

\* The order a request was answered with lists the cart that request sent.
LEMMA AnsweredOrder ==
  ASSUME SInv, NEW r \in Requests, reply[r] = 201, Sent(r)
  PROVE  \E o \in orders : /\ o.id = order[r] /\ o.id \in captured
                           /\ job[o.id].cart = job[r].cart
<1>0. IInv /\ Retries /\ orders \subseteq Order /\ payments \subseteq Payment
  BY DEF SInv, PageInv, IInv, TypeOK, VarsOK
<1>1. PICK q \in payments : q.orderId = order[r] /\ order[r] # NoOrder /\ q.key = job[r].key
  BY <1>0 DEF IInv, HandlerKnows, Knows
<1>2. q.orderId = q.id /\ \E o \in orders : o.id = q.id
  BY <1>0, <1>1 DEF IInv, LinksAreReal
<1>3. PICK o \in orders : o.id = q.id BY <1>2
<1>4. /\ q.id \in Requests /\ Sent(q.id) /\ job[q.id].key = job[r].key
  BY <1>0, <1>1 DEF IInv, PaymentOwner, Payment, Sent
<1>5. job[q.id].cart = job[r].cart BY <1>0, <1>4 DEF Retries
<1>6. OrdersArePaid BY <1>0 DEF IInv, OrderOwner, PaymentOwner, OrdersArePaid
<1> QED BY <1>1, <1>2, <1>3, <1>5, <1>6 DEF OrdersArePaid

\* A success that is shown is an order for what was sent, also when the server
\* replays another attempt without comparing the carts (order.service.ts:39-43).
THEOREM Shown == CartsClosed /\ StorefrontSpec => []ShownOrderMatchesCart
<1>1. SInv => ShownOrderMatchesCart
  <2> SUFFICES ASSUME SInv, NEW s \in Shoppers, phase[s] = "success"
               PROVE  \E o \in orders : /\ o.id = order[sent[s]]
                                        /\ job[o.id].cart = job[sent[s]].cart
    BY DEF ShownOrderMatchesCart
  <2>1. sent[s] \in Requests /\ reply[sent[s]] = 201 /\ Sent(sent[s])
    BY DEF SInv, StorefrontTypeOK, PageInv, Waits
  <2> QED BY <2>1, AnsweredOrder
<1> QED BY <1>1, StorefrontInductive, PTL

\* Whatever empties the cart, the page's submit or one that runs on after its page was
\* left, was answered with a paid order that lists what it sent (checkout/page.tsx:72).
THEOREM Cleared == CartsClosed /\ StorefrontSpec => ClearedWasBought
<1> DEFINE WasBought(r) == /\ r \in Requests /\ reply[r] = 201
                        /\ \E o \in orders : /\ o.id = order[r] /\ o.id \in captured
                                           /\ job[o.id].cart = job[r].cart
<1>1. ASSUME SInv, StorefrontNext, NEW s \in Shoppers,
             cart[s] # <<>>, cart'[s] = <<>>, changes' = changes
      PROVE  \E r \in left[s] \cup {sent[s]} : WasBought(r)
  <2>0. StorefrontTypeOK BY <1>1 DEF SInv
  <2>1. cart' # cart BY <1>1
  <2>2. PICK t \in Shoppers : ChangeCart(t) \/ Placed(t) \/ LeftAnswered(t)
    BY <1>1, <2>1 DEF StorefrontNext, Page, Submit, SentAway, Declined, Refused, Lost, Mount,
                      Leave, Return, Server, pageVars
  <2>3. ~ ChangeCart(t) BY <1>1, <2>0 DEF ChangeCart, StorefrontTypeOK
  <2>4. CASE Placed(t)
    <3>1. t = s BY <1>1, <2>0, <2>4 DEF Placed, clearCart, StorefrontTypeOK
    <3>2. reply[sent[s]] = 201 /\ sent[s] \in Requests /\ Sent(sent[s])
      BY <2>0, <2>4, <3>1 DEF Placed, Answered, StorefrontTypeOK, Sent
    <3> QED BY <1>1, <3>2, AnsweredOrder
  <2>5. CASE LeftAnswered(t)
    <3>1. PICK r \in left[t] : /\ pc[r] = "done"
                              /\ cart' = IF reply[r] = 201 THEN [cart EXCEPT ![t] = <<>>]
                                                           ELSE cart
      BY <2>5 DEF LeftAnswered
    <3>2. reply[r] = 201 /\ t = s BY <1>1, <2>0, <3>1 DEF StorefrontTypeOK
    <3>3. r \in Requests /\ Sent(r) BY <2>0, <3>1 DEF StorefrontTypeOK, Sent
    <3> QED BY <1>1, <3>2, <3>3, AnsweredOrder
  <2> QED BY <2>2, <2>3, <2>4, <2>5
<1>2. SInv /\ [StorefrontNext]_<<vars, pageVars>> =>
        [\A s \in Shoppers :
           cart[s] # <<>> /\ cart'[s] = <<>> /\ changes' = changes =>
             \E r \in left[s] \cup {sent[s]} :
               /\ r \in Requests /\ reply[r] = 201
               /\ \E o \in orders : /\ o.id = order[r] /\ o.id \in captured
                                  /\ job[o.id].cart = job[r].cart]_<<vars, pageVars>>
  BY <1>1
<1> HIDE DEF WasBought
<1> QED BY <1>2, StorefrontInductive, PTL DEF StorefrontSpec, ClearedWasBought

----------------------------------------------------------------------------
(* What Checkout promises holds behind the page too.                       *)

\* However pages submit, reload and give up, what the handlers do is what Checkout
\* allows, where requests come from anyone (order.routes.ts with
\* checkout/page.tsx:46-84).
THEOREM ServerImplements == CartsClosed /\ StorefrontSpec => Init /\ [][Next]_vars
<1> SUFFICES ASSUME CartsClosed
             PROVE  StorefrontSpec => Init /\ [][Next]_vars
  OBVIOUS
<1>1. StorefrontInit => Init BY DEF StorefrontInit
<1>2. SInv /\ [StorefrontNext]_<<vars, pageVars>> => [Next]_vars
  BY ServerIsCheckout DEF SInv
<1>3. StorefrontSpec => []SInv BY StorefrontInductive
<1> QED BY <1>1, <1>2, <1>3, PTL DEF StorefrontSpec

\* So the shop behind the pages makes one order for a key, paid and as its cart lists
\* it, and, as far as calls do not fail, loses and oversells no unit
\* (order.service.ts:35-131).
THEOREM ShopIsSound ==
  CartsClosed /\ StorefrontSpec =>
    [](/\ OneOrderPerKey /\ OrdersArePaid /\ OrderMatchesCart
       /\ StockConserved /\ NeverOversold)
<1> SUFFICES ASSUME CartsClosed
             PROVE  StorefrontSpec =>
                      [](/\ OneOrderPerKey /\ OrdersArePaid /\ OrderMatchesCart
                         /\ StockConserved /\ NeverOversold)
  OBVIOUS
<1>1. SInv => IInv BY DEF SInv
<1>2. IInv => OrdersArePaid BY DEF IInv, OrderOwner, PaymentOwner, OrdersArePaid
<1>3. StorefrontSpec => []SInv BY StorefrontInductive
<1>4. StorefrontSpec => Init /\ [][Next]_vars BY ServerImplements
<1>5. StorefrontSpec => [](StockInv /\ ItemsAreCart /\ OrderMatchesCart)
  BY <1>1, <1>3, <1>4, StockInvInit, OrdersMatchInit, StockInvStep, ItemsAreCartStep,
     OrderMatchesStep, PTL
<1>6. StockInv => StockConserved /\ NeverOversold BY DEF StockInv
<1> QED BY <1>1, <1>2, <1>3, <1>5, <1>6, OneOrderHolds, PTL

\* And with its pages it implements the purchase that a shop promises.
THEOREM ShopIsPurchase == CartsClosed /\ StorefrontSpec => ImplementsPurchase
<1> SUFFICES ASSUME CartsClosed
             PROVE  StorefrontSpec => ImplementsPurchase
  OBVIOUS
<1>1. SInv => IInv BY DEF SInv
<1>2. StorefrontSpec => []SInv BY StorefrontInductive
<1>3. StorefrontSpec => Init /\ [][Next]_vars BY ServerImplements
<1> QED BY <1>1, <1>2, <1>3, RefineInit, RefineStep, PTL DEF ImplementsPurchase, P!Spec
=============================================================================
