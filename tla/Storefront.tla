----------------------------- MODULE Storefront -----------------------------
(***************************************************************************)
(* The checkout page (frontend/app/checkout/page.tsx) of several shoppers, *)
(* composed with the Checkout handlers their requests run in. The cart is  *)
(* in localStorage, where the shopper's other tabs change it (lib/cart.ts);*)
(* the page shows and sends the lines that it read when it was mounted.    *)
(* A page that is left for another one of the same document leaves its     *)
(* submit running, which then empties whatever cart it finds.              *)
(***************************************************************************)
EXTENDS CheckoutProperties

CONSTANTS Shoppers,
          Carts,      \* carts a shopper may fill
          MaxLosses,  \* bound on lost responses
          MaxMounts,  \* bound on mounts of the page after the first
          MaxChanges, \* bound on changes of a cart
          MaxQuantity \* bound on the quantity of a line

VARIABLES key,      \* the page's idempotencyKey
          cart,     \* the lines in localStorage
          lines,    \* the lines the page shows
          phase,    \* form, loading, stuck (loading for ever), success, or away
          sent,     \* the request of the last submit
          left,     \* submits that run on in the document after their page was left
          tries,    \* ghost: the requests sent for the cart as it is
          minted,   \* ghost: keys that newIdempotencyKey has returned
          losses, mounts, changes

limits == <<losses, mounts, changes>>
pageVars == <<key, cart, lines, phase, sent, left, tries, minted, limits>>

ASSUME StorefrontAssumption ==
  /\ Carts \subseteq Seq(Line)
  /\ [key : Keys, cart : Carts, card : {"approved", "declined"}] \subseteq Jobs
  /\ MaxLosses \in Nat /\ MaxMounts \in Nat /\ MaxChanges \in Nat
  /\ MaxQuantity \in 1..99

\* Every variable of the page has its type: a cart that other tabs change has only
\* lines that CheckoutDTO accepts, and a page that waits has sent a request.
StorefrontTypeOK ==
  /\ key \in [Shoppers -> minted] /\ minted \subseteq Keys
  /\ {cart, lines} \subseteq [Shoppers -> Carts \cup {<<>>}]
  /\ phase \in [Shoppers -> {"form", "loading", "stuck", "success", "away"}]
  /\ sent \in [Shoppers -> Requests \cup {NoOrder}]
  /\ \A s \in Shoppers :
       phase[s] \in {"loading", "stuck", "success"} => sent[s] \in Requests
  /\ {left, tries} \subseteq [Shoppers -> SUBSET Requests]
  /\ losses \in 0..MaxLosses /\ mounts \in 0..MaxMounts /\ changes \in 0..MaxChanges

StorefrontInit ==
  /\ Init
  /\ key \in {k \in [Shoppers -> Keys] : \A s, t \in Shoppers : k[s] = k[t] => s = t}
  /\ cart \in [Shoppers -> Carts] /\ lines = cart
  /\ phase = [s \in Shoppers |-> "form"]
  /\ sent = [s \in Shoppers |-> NoOrder]
  /\ left = [s \in Shoppers |-> {}] /\ tries = left
  /\ minted = {key[s] : s \in Shoppers}
  /\ losses = 0 /\ mounts = 0 /\ changes = 0

----------------------------------------------------------------------------
\* newIdempotencyKey: a random UUID, never one that was handed out before.
MintKey(s) ==
  \E k \in Keys \ minted :
    /\ key' = [key EXCEPT ![s] = k]
    /\ minted' = minted \cup {k}

(* The cart in localStorage, which the home page and the cart page change. *)

addToCart(c, p, n) ==
  IF \E i \in DOMAIN c : c[i].product = p
  THEN [i \in DOMAIN c |->
          IF c[i].product = p THEN [c[i] EXCEPT !.quantity = @ + n] ELSE c[i]]
  ELSE Append(c, [product |-> p, quantity |-> n])

removeFromCart(c, p) == SelectSeq(c, LAMBDA l : l.product # p)

\* Variant: lines of quantity zero are kept.
setEveryQuantity(c, p, n) ==
  [i \in DOMAIN c |-> IF c[i].product = p THEN [c[i] EXCEPT !.quantity = n] ELSE c[i]]

\* A line whose quantity is set to zero is filtered out.
setQuantity(c, p, n) ==
  SelectSeq([i \in DOMAIN c |->
               IF c[i].product = p THEN [c[i] EXCEPT !.quantity = n] ELSE c[i]],
            LAMBDA l : l.quantity > 0)

\* In another tab at any time, or in this one while the page is left. MaxQuantity
\* bounds what a line may hold.
ChangeCart(s) ==
  /\ changes < MaxChanges
  /\ changes' = changes + 1
  /\ \E p \in Products :
       \/ cart' = [cart EXCEPT ![s] = addToCart(@, p, 1)]
       \/ \E n \in 0..MaxQuantity : cart' = [cart EXCEPT ![s] = setQuantity(@, p, n)]
       \/ cart' = [cart EXCEPT ![s] = removeFromCart(@, p)]
  /\ cart' # cart
  /\ \A i \in DOMAIN cart'[s] : cart'[s][i].quantity <= MaxQuantity
  /\ UNCHANGED <<key, lines, phase, sent, left, tries, minted, losses, mounts, vars>>

----------------------------------------------------------------------------
(* The page.                                                               *)

\* submit, up to its await: the card is valid, so its token can be decoded.
\* While loading the button is disabled; an empty cart shows no form.
Submit(s) ==
  /\ phase[s] = "form" /\ lines[s] # <<>>
  /\ phase' = [phase EXCEPT ![s] = "loading"]
  /\ \E r \in Requests, card \in {"approved", "declined"} :
       /\ Arrive(r, [key |-> key[s], cart |-> lines[s], card |-> card])
       /\ sent' = [sent EXCEPT ![s] = r]
       /\ tries' = [tries EXCEPT ![s] = @ \cup {r}]
  /\ UNCHANGED <<key, cart, lines, left, minted, limits>>

\* The session has ended: 401 before the handler, and the page is left for login.
SentAway(s) ==
  /\ phase[s] = "form" /\ lines[s] # <<>>
  /\ phase' = [phase EXCEPT ![s] = "away"]
  /\ UNCHANGED <<key, cart, lines, sent, left, tries, minted, limits, vars>>

Answered(s) == phase[s] = "loading" /\ pc[sent[s]] = "done"

\* clearCart and setLines([]).
clearCart(s) ==
  /\ cart' = [cart EXCEPT ![s] = <<>>]
  /\ lines' = [lines EXCEPT ![s] = <<>>]
  /\ tries' = [tries EXCEPT ![s] = {}]

\* Variant: all but 402 counts as success.
PlacedUnlessDeclined(s) ==
  /\ Answered(s) /\ reply[sent[s]] # 402
  /\ phase' = [phase EXCEPT ![s] = "success"]
  /\ clearCart(s)
  /\ UNCHANGED <<key, sent, left, minted, limits, vars>>

\* The rest of submit: success empties the cart, a declined card gets a new key
\* and any other refusal keeps the key for the next submit.
Placed(s) ==
  /\ Answered(s) /\ reply[sent[s]] = 201
  /\ phase' = [phase EXCEPT ![s] = "success"]
  /\ clearCart(s)
  /\ UNCHANGED <<key, sent, left, minted, limits, vars>>

Declined(s) ==
  /\ Answered(s) /\ reply[sent[s]] = 402
  /\ phase' = [phase EXCEPT ![s] = "form"]
  /\ MintKey(s)
  /\ UNCHANGED <<cart, lines, sent, left, tries, limits, vars>>

Refused(s) ==
  /\ Answered(s) /\ reply[sent[s]] \notin {201, 402}
  /\ phase' = [phase EXCEPT ![s] = "form"]
  /\ UNCHANGED <<key, cart, lines, sent, left, tries, minted, limits, vars>>

\* Variant: the rejection is caught and the form can be sent again.
LostAndCaught(s) ==
  /\ phase[s] = "loading"
  /\ losses < MaxLosses
  /\ losses' = losses + 1
  /\ phase' = [phase EXCEPT ![s] = "form"]
  /\ UNCHANGED <<key, cart, lines, sent, left, tries, minted, mounts, changes, vars>>

\* fetch rejects: the connection dropped, or the server died. Nothing catches
\* the rejection, so setLoading(false) is never reached.
Lost(s) ==
  /\ phase[s] = "loading"
  /\ losses < MaxLosses
  /\ losses' = losses + 1
  /\ phase' = [phase EXCEPT ![s] = "stuck"]
  /\ UNCHANGED <<key, cart, lines, sent, left, tries, minted, mounts, changes, vars>>

\* The lines are read from localStorage; other lines are another purchase.
ReadCart(s) ==
  /\ lines' = [lines EXCEPT ![s] = cart[s]]
  /\ tries' = [tries EXCEPT ![s] = IF cart[s] = lines[s] THEN @ ELSE {}]

\* Variant: the key outlives the page.
MountKeepingKey(s) ==
  /\ mounts < MaxMounts
  /\ mounts' = mounts + 1
  /\ phase' = [phase EXCEPT ![s] = "form"]
  /\ left' = [left EXCEPT ![s] = {}]
  /\ ReadCart(s)
  /\ UNCHANGED <<key, minted, cart, sent, losses, changes, vars>>

\* The page is loaded as a document of its own, at any time: the state of the page
\* is gone, so the key is new, and with the old document its submits are gone.
Mount(s) ==
  /\ mounts < MaxMounts
  /\ mounts' = mounts + 1
  /\ phase' = [phase EXCEPT ![s] = "form"]
  /\ left' = [left EXCEPT ![s] = {}]
  /\ MintKey(s)
  /\ ReadCart(s)
  /\ UNCHANGED <<cart, sent, losses, changes, vars>>

\* Another page of the same document, as with Back to the cart. A submit under way
\* is not cancelled; one that was rejected has nothing left to run.
Leave(s) ==
  /\ phase[s] # "away"
  /\ phase' = [phase EXCEPT ![s] = "away"]
  /\ left' = [left EXCEPT ![s] = IF phase[s] = "loading" THEN @ \cup {sent[s]} ELSE @]
  /\ UNCHANGED <<key, cart, lines, sent, tries, minted, limits, vars>>

\* router.push('/checkout') mounts the page anew; what was left runs on.
Return(s) ==
  /\ phase[s] = "away"
  /\ mounts < MaxMounts
  /\ mounts' = mounts + 1
  /\ phase' = [phase EXCEPT ![s] = "form"]
  /\ MintKey(s)
  /\ ReadCart(s)
  /\ UNCHANGED <<cart, sent, left, losses, changes, vars>>

\* The rest of a submit whose page was left: clearCart() still empties localStorage,
\* and the setters have no page to change.
LeftAnswered(s) ==
  /\ \E r \in left[s] :
       /\ pc[r] = "done"
       /\ left' = [left EXCEPT ![s] = @ \ {r}]
       /\ cart' = IF reply[r] = 201 THEN [cart EXCEPT ![s] = <<>>] ELSE cart
  /\ UNCHANGED <<key, lines, phase, sent, tries, minted, limits, vars>>

Page(s) ==
  \/ ChangeCart(s)
  \/ Submit(s) \/ SentAway(s)
  \/ Placed(s) \/ Declined(s) \/ Refused(s) \/ Lost(s)
  \/ Mount(s) \/ Leave(s) \/ Return(s) \/ LeftAnswered(s)

Server ==
  /\ (\E r \in Requests : HandlerStep(r)) \/ Environment
  /\ UNCHANGED pageVars

StorefrontNext == (\E s \in Shoppers : Page(s)) \/ Server

StorefrontSpec == StorefrontInit /\ [][StorefrontNext]_<<vars, pageVars>>

----------------------------------------------------------------------------
\* When the page says the order is placed, the order it shows lists the cart
\* that this submit sent, even when the server replayed an earlier attempt
\* (order.service.ts:39-43 never compares the two carts).
ShownOrderMatchesCart ==
  \A s \in Shoppers :
    phase[s] = "success" =>
      \E o \in orders : o.id = order[sent[s]] /\ job[o.id].cart = job[sent[s]].cart

\* Only a submit that was answered 201 empties the cart, its page's or one that runs
\* on after its page was left, and its order, also as the replay of an earlier
\* attempt, is paid and lists what that submit sent. So a cart that is emptied has
\* been bought, unless it is no longer the one that was sent: then clearCart wipes
\* lines that the order does not have (checkout/page.tsx:72).
ClearedWasBought ==
  [][\A s \in Shoppers :
       cart[s] # <<>> /\ cart'[s] = <<>> /\ changes' = changes =>
         \E r \in left[s] \cup {sent[s]} :
           /\ r \in Requests /\ reply[r] = 201
           /\ \E o \in orders : /\ o.id = order[r] /\ o.id \in captured
                              /\ job[o.id].cart = job[r].cart]_<<vars, pageVars>>

\* While no database call fails, the page never has one key charged twice: a
\* submit that repeats a key finds the payment of the attempt before, also when
\* that attempt was declined, refused or left by loading the page again.
KeyChargedOnce == faults = 0 => NeverChargedTwice

\* Until the shopper changes the cart, its card is charged for it at most once,
\* however often the page sends it (checkout/page.tsx:25-27).
ChargedOncePerCart ==
  \A s \in Shoppers : Cardinality(tries[s] \cap captured) <= 1
=============================================================================
