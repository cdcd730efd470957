# Verification of the Security_web storefront

`src/` is a small web shop ("GadgetHub"): an Express and MongoDB backend
(`backend/src`), a Next.js frontend (`frontend`), tests and deployment files.
This directory holds TLA+ models of it, the TLC runs that check them on small
instances, and TLAPS proofs of the results that matter most for every instance.

## 1. The system

One Node process serves every request. Express starts an async handler for each
request on one event loop, so two handlers interleave only where they `await`:
a database call (Mongoose over one standalone `mongod`, so no transactions and
no retryable writes), a bcrypt hash, or a call to Google. Each MongoDB operation
on one document is atomic; nothing is atomic across two operations. The process
keeps almost no state in memory: what outlives a request is in the database, in
signed tokens the client holds, or in the browser.

| component | state | operations | who it talks to | hard part |
|---|---|---|---|---|
| Checkout handler (`order.service.ts`, payment and order repositories) | payments, orders; locals of each handler | checkout (idempotent by key), reads | catalogue, gateway mock, database | many awaits, compensation by hand, retries |
| Payment gateway mock (`payment.service.ts`) | none | charge | called synchronously by checkout | it charges before anything is stored |
| Product catalogue (`product.*`) | products | create, update, remove, conditional decrement | admins, checkout | absolute overwrites under running checkouts |
| Checkout page (`checkout/page.tsx`, `lib/payment.ts`, `lib/cart.ts`) | key, cart in localStorage, lines read from it, loading/success | submit, mount; add, set and remove in other tabs | checkout handler over HTTP | lost responses, reloads, retries, a cart that changes meanwhile |
| Password accounts (`auth.service.ts`, `auth.controller.ts`) | password, history, failed counter, lock | login, changePassword | user document, audit | read, bcrypt for a long time, write |
| Magic links (`passwordless.service.ts`, `magic/page.tsx`) | one token hash and expiry for each user | request, verify | user document | find, then consume |
| Two-factor (`mfa.*`) | secret, pending secret, flag | setup, enable, disable, verify at login | user document, login | stale snapshot of the user |
| Passkeys (`webauthn.*`) | credential array, one current challenge | register, authenticate, remove | user document | whole-array rewrites, one challenge for two ceremonies |
| Account creation and Google sign-in (`auth.service.ts` register, `oauth.service.ts`) | users, unique by email; subject id of a linked identity | register, loginWithGoogle | Google, users collection | find, then create or link |
| Profile and PII (`user.*`, `utils/pii.ts`, `crypto.ts`, `account/page.tsx`) | profile, encrypted at rest; a form for each tab, an exported copy | get, update, export, import | user document, session | partial updates, a form older than the document or the session |
| Monitoring and audit (`monitoring.service.ts`, `audit.service.ts`) | audit log, in-memory windows, ring buffer of 100 alerts | log, observe, recentAlerts | every handler | sliding windows, reset after an alert |
| Request gateway (`app.ts`, `csrf`, `auth`, `rbac`, `rateLimit`, `captcha` middleware) | the limiters' counters; signed tokens that the client holds (session, CSRF cookie, CAPTCHA) | one decision for each request | every route, audit | order of the chain, edges of the limiters' windows |
| Request filters and logging (`waf`, `ipAccess`, `requestLogger`, `errorHandler`) | none | one stateless decision for each request | every route | |
| Session in the browser (`lib/api.ts`, `lib/auth.tsx`, `NavBar.tsx`, guards and forms of the pages) | two cookies; in each tab the cached user and the calls under way | refresh, sign-in, sign-out, state-changing calls, navigation | backend | answers out of order, several tabs, a guard that decides from a cached answer |
| Pages, seed, fuzzing, tests, Docker, CI | none | | | no protocol of their own |

What makes each correct, in one line each: checkout neither loses nor invents
stock, money or orders; the page shows only what the server did; an account
keeps its history, its lock, its second factor, its passkeys and its links
consistent under overlapping requests; an identity finds the account that is
its own; the monitor alerts exactly when the trail of events calls for it; a
tab shows the session that the browser has and its calls carry what the server
asks for; a save changes its own account and only what it names; a limiter
refuses nobody without cause and bounds the rate behind it.

## 2. Modules

| module | models | uses |
|---|---|---|
| `Catalogue` | the products collection, admin edits, the conditional decrement | |
| `Checkout` | one handler for each request, from await to await, with failing calls and crashes | `Catalogue` |
| `CheckoutProperties` | the properties of `Checkout` and its inductive invariant | `Checkout`, `Purchase` |
| `Purchase` | the abstract promise: one final decision for a key, at most one fulfilment | |
| `CheckoutProofs` | the theorems about `Checkout` | `CheckoutProperties` |
| `Storefront` | the checkout page and the cart of several shoppers composed with the handlers | `CheckoutProperties` |
| `StorefrontProofs` | the theorems about `Storefront` | `Storefront`, `CheckoutProofs` |
| `Account` | one user document and the handlers of passwords, magic links and two-factor codes | |
| `AccountProperties` | the properties of `Account` | `Account` |
| `AccountProofs` | the theorems about `Account` | `AccountProperties` |
| `Passkeys` | one user's array of passkeys, its handlers, the user's authenticators | |
| `PasskeysProofs` | the theorems about `Passkeys` | `Passkeys` |
| `Identities` | registration and Google sign-in over the users collection | |
| `IdentitiesProofs` | the theorems about `Identities` | `Identities` |
| `Session` | the cookies of a browser, its tabs, their questions and calls | |
| `SessionProofs` | the theorems about `Session` | `Session` |
| `AccountPage` | the account page in those tabs, the stored profiles, their encryption | `Session` |
| `AccountPageProofs` | the theorems about `AccountPage` | `AccountPage`, `SessionProofs` |
| `Monitoring` | the sliding windows and the buffer of alerts | |
| `Gateway` | the chain of checks in front of a route, the limiters, the records on their way to the monitor | `Monitoring` |
| `GatewayProofs` | the theorems about `Gateway` | `Gateway` |
| `MCCheckout`, `MCStorefront`, `MCAccount`, `MCPasskeys`, `MCIdentities`, `MCAccountPage`, `MCGateway` | instances for TLC | |

Some definitions are preceded by a comment that calls them a variant. No
specification uses them: each is the next definition with a plausible mistake in
it, kept to show that the properties notice (`mutants` in `PROJECT.json`).

### How `Checkout` corresponds to the code

`pc[r]` names the await the handler of request `r` is blocked on; the variables
`job`, `price`, `items`, `total`, `undone`, `order` are the locals of
`OrderService.checkout` (`items` also stands for `decremented`, which receives
the same lines in the same statement group). An action is everything the code
does from one await to the next:

| action | code |
|---|---|
| `Arrive` | the controller parses the body and calls the service |
| `FindPrior`, `Replay` | the lookup of the key, the replay of an approved attempt, 409 otherwise (36-45) |
| `ReadProduct` | `findById` of the next line, 404 (53-56) |
| `OutOfStock` | `decrementStock` returned null, 400 (58-67) |
| `ReserveLine` | it returned the document: push, add to the total, next line (68-77) |
| `ReserveLastAndCharge`, `ChargeRejected` | the last line and, in the same turn, the synchronous `charge` (80-86) |
| `CreatePayment` | the insert under the unique index on the key; 402 for a declined card (88-108) |
| `CreateOrder`, `AttachOrder` | the order and the link to it, 201 (110-131) |
| `Rollback` | one turn of the loop of the catch block (132-136) |
| `LookupFails` ... `RollbackFails` | the awaited call throws, its write lost or made all the same |
| `Crash` | the process dies; `restart: unless-stopped` starts another |
| `Admin` | the catalogue's operations |

Left out: names, images, shipping addresses, card numbers (a token is approved,
declined or malformed), audit writes (they never throw, `audit.service.ts`),
and the read-only listings. Currency amounts are natural numbers; the code's
prices are unbounded non-negative numbers.

`captured` is a ghost: the requests whose card the gateway mock has charged.
`supplied` is a ghost: units the admins have put on sale. Neither guards a step
of the program.

### How `Storefront` corresponds to the code

The page's state is its idempotency key, `phase` (form, loading, success, away
for a page that was left, and `stuck` for a `loading` that nothing resets), and
`lines`, the snapshot of the cart in localStorage that it took when it was
mounted. `cart` is what localStorage holds; `ChangeCart` is what is done to it by
`lib/cart.ts`, in another tab or in this one while the page is left.

| action | code |
|---|---|
| `Submit` | `submit` up to its await (52-68); starts a `Checkout` handler |
| `Placed`, `Declined`, `Refused`, `SentAway` | the rest of `submit`, with the answer: success, 402, another status, 401 (69-86) |
| `Lost` | the fetch rejects, which nothing catches |
| `Mount` | the page is loaded as a document of its own; what the old document awaited is gone |
| `Leave` | another page of the same document, as with Back to the cart; a submit under way runs on and its request joins `left` |
| `Return` | `router.push('/checkout')` (`cart/page.tsx:100`): the page is mounted anew, with a new key and the cart as it is, in the same document |
| `LeftAnswered` | the rest of a submit whose page was left: `clearCart()` empties the cart there is by then, though the page that is shown has read it |

A submit in `left` whose fetch rejects is one for which `LeftAnswered` is never
taken. `tries` (the requests sent for these lines) and `minted` are ghosts.

### How `Account` corresponds to the code

Each service finds the user document, checks it, spends time in bcrypt or a
TOTP check, and updates only the fields it names. A handler is therefore two
actions: a *Read* (the find and every early return that depends on it), which
keeps the document in `seen[r]`, and a *Write* (the `findByIdAndUpdate` and what
the controller answers), which updates the named fields of the present document
with values computed from `seen[r]`. `verifyMfaLogin` writes nothing and is one
action. `Return` answers without a write; `FirstFactor` is the controller's
decision between a session and an MFA challenge, made from the snapshot. Hashes
are the passwords they were made from, a TOTP code the secret it was made from,
a deadline the boolean "not yet passed", with `LockExpires`, `LinkExpires` and
`ChallengeExpires` for the passage of time. What the user holds is `links`,
`shown` and `challenges`; requests carry only such things. `past`, `raced`,
`guarded` and `late` are ghosts.

### How `Passkeys` corresponds to the code

The document holds the array `passkeys` and one `challenge` with its expiry
`fresh`, shared by both ceremonies. Handlers are *Read* and *Write* as above;
the write puts back the **whole array** computed from the snapshot
(`webauthn.service.ts:103`, `:164`), which is what makes overlaps matter.
`Attest` and `Sign` are the external authenticators, answering an offer that
the browser has received: an authenticator on the list of excluded ones does not
attest, one that counts its signatures counts every one it makes, another
reports 0. The library's checks of attestations and signatures hold, since all
responses are genuine; its comparison of the counters is `CounterGrows`.

### How `Identities` corresponds to the code

`FindByOAuth`, `FindByEmail`, `Link` and `CreateGoogle` are the awaits of
`loginWithGoogle`; `FindEmail` and `CreateLocal` those of `register` (its bcrypt
hash lies between them). `Create` is the insert, which the unique index on the
email accepts or refuses. A document has the id of the request that created it.
Google is external: `mailOf` is the verified email of each identity, `Rename`
changes one, and `OneOwner` says that an email has one owner at a time. Whether
an account links is decided by the email, whether it is found again by the
provider and subject id, as in the code. `prior` is a ghost.

### How `Session` corresponds to the code

`token` and `csrf` are the cookies that all tabs share. Each tab has a path
(`page`, with `next` for `?next=` and `back` for the entry before it), the state
of `AuthProvider` (`user`, `loading`) and three kinds of requests under way:
`checks`, the refreshes of the provider, each with the session that it was sent
with; `queries`, a page's own fetches, which go to login at a 401; and `call`, the
one that changes state.

A call has four stages, because three things happen at three times: `csrf`, the
wait of `ensureCsrf`; `ready`, back from it; `sending`, the header has been read
from the cookie and the request handed to `fetch` (`api.ts:49-50`); `sent`, the
cookies have been attached to it. The API is another origin and the requests are
JSON, so a preflight lies between the last two, in which other tabs act. CSRF
tokens are values: `issueCsrfToken` sets the cookie to one that no cookie or header
has, at every sign-in and every `GET /api/auth/csrf` (`csrf.middleware.ts:23-32`),
and a call is `Accepted` when the token in its header is the one in its cookie
(`:46-51`), which `matches` keeps once both are on their way. `overtaken` is a
ghost: the tabs for whose call a new token was issued between the two.

| action | code |
|---|---|
| `Load`, `Document`, `GoogleReturn` | a new document: by a link, the address bar, a reload or the redirect after a Google sign-in; effects run as in a first mount |
| `Visit`, `Push`, `Back`, `Proceed` | the path changes within the document: the page's effects, then the provider's refresh (`auth.tsx:59-62`) |
| `Guarded`, `Replaced` | the guard of cart and checkout decides, and its `router.replace` takes effect |
| `CheckAnswered`, `CheckRefused`, `CheckLost` | `refresh` after its await, in any order; a rejected fetch is caught by nothing |
| `QueryAnswered`, `QueryRefused` | a page's own fetch; a 401 navigates even when the page was left |
| `Start`, `CsrfAnswered`, `CsrfRefused`, `Send` | `stateChanging` and `ensureCsrf` (`lib/api.ts`), up to the fetch |
| `Attach` | the preflight is answered, and the request leaves with the cookies of now |
| `SignedIn`, `SignInRefused`, `SignedOut`, `Done`, `CallLost` | the ends of a call |
| `Expire`, `Restart` | the JWT expires with its cookie; the browser starts again, without its session cookie |

Restrictions: a tab has one state-changing call under way; the back button is not
used while a save, an import or a removal is under way, and the history keeps one
entry of the present document; what a document awaited is dropped when another
is loaded, but for saves and imports (see `AccountPage`); the orders page is counted with "account", whose fetch it copies. A
sign-in is its last call (password, second factor, link, passkey); the steps
before it are in `Account` and `Passkeys`. `arrived` and `settled` are ghosts.

### How `AccountPage` corresponds to the code

It adds the account page to the tabs of `Session`, and the profiles to the
server. A profile has a field that the form shows and one that it does not, both
encrypted at rest; fields that are not encrypted follow the same update. A value
is a text and whether it is a ciphertext; `Lookalikes` are texts in the format of
one, which `isCiphertext` cannot tell apart.

A form comes from two steps: `me`, in which the server reads the profile
(`user.controller.ts:19`) and which leaves it in `answer`, and `Show`, in which
the first answer to arrive fills the form, once (`account/page.tsx:38`, `78-83`);
between the two another tab's save may be handled. `Edit`, `Submit`, `Finish` are a
change of the field and the save or import, whose body is made before `ensureCsrf`
is awaited; `Handled` is the handler of `PATCH /api/users/me` in the session that
the call carries, and `Written` its update of the document. `Lose` is a call lost
before or after the handler. A save or import that was sent when its document was
loaded anew, or its answer lost, stays in `orphans`: `HandledLate` is the server
handling it at any later time, or never. `exportData` is the copy that an import
brings back. Every other action is one of `Session`, with the form closed when the
page is left. `fresh` is a ghost: nobody else has written the profile since the
server read it for this form.

### How `Monitoring` and `Gateway` correspond to the code

`AuditService.log` awaits the write of its record and, in the turn in which the
await settles (fulfilled or caught), calls `observe`, which runs to its end
without an await. `Log` is that turn; the stored log is only read by listings
and is not represented. `hits`, `alerts` are the service's maps and buffer;
`Restart` empties them. A rule is a threshold and a window; an actor is what the
rule keys by. `trail` and `raised` are ghosts: the whole history, from which
`AlertsExactlyWhenDue` says what should have happened.

`Gateway` puts the chain of `app.ts` in front of it. Up to the handler a request
waits for nothing but its body, so a request is one action: `Deny` (address
lists), `Filter` (answered by parsers or firewall before the limiters),
`SlowDown` (429 of the global limiter), `Browse` (no limiter of its own),
`TooMany`, `SignIn`, `CheckOut` (behind `authLimiter` or `paymentLimiter`). Its
record is `pending` until `Settle`, in any order, so an event is counted when its
write settles and not when its request came. `Hit` and `Passes` are the memory
store of express-rate-limit (external): a count and the end of a window that
begins with the first request. CAPTCHA, session, role and CSRF checks keep no
state and come after the limiters: requests they refuse are among `SignIn` and
`CheckOut` (or `Browse`, when the session is missing). `GatewayRestart` empties
the stores and drops what is pending. `seen` is a ghost: the requests counted.

## 3. Runs

| run | question | bounds |
|---|---|---|
| `checkout` | payments, orders and stock agree, `Purchase` is implemented, a refusal leaves no trace, charges are on record, every request is answered and a payment gets its order | 2 requests, 6 bodies on 2 keys, 1 edit, 1 failing call, 1 crash |
| `storefront` | one key is charged once, the page shows what it sent, and only what a bought cart was sent with clears one | 1 shopper, 3 requests, 4 keys, 1 failing call, 1 lost response, 1 mount after the first (a load or a return), 1 change of the cart |
| `account` | history, lock, second factor and links under overlapping requests | 4 requests of any operation, 3 passwords, 2 tokens, 2 secrets, limit 2, history 2 |
| `passkeys` | what was reported is stored, the counter check refuses no genuine authenticator | 5 requests, 3 credentials, 2 authenticators, 3 challenges |
| `identities` | one account for an email, one account for an identity | 4 requests, 2 emails, 2 identities, 1 changed email |
| `browser` | a tab shows the session there is, no call lacks the header of its cookie, guards and forms act for their cause, siblings and encryption are kept | 2 tabs, both on the account page at the start, 2 accounts, 4 CSRF tokens, 3 acts, at most one of them a failing request and one a restart of the browser |
| `gateway` | a 429 has its cause, the rate is bounded, alerts exactly when due, the newest shown | 2 addresses (one denied), 6 requests and events, 4 instants, 1 failed write, 1 restart |
| `double_charge` | divergence: overlapping requests with one key | 2 requests |
| `recharge` | divergence: a page that waits is loaded again | 1 shopper, 1 loss, 1 mount after the first |
| `link_accepted_twice` | divergence: overlapping verifications of one link | 3 requests |
| `identity_split` | divergence: an account is registered, linked, and not found again after its email changed | 3 requests, 1 identity |
| `bounced` | divergence: a visitor who has just signed in is sent to login again | 1 tab, 1 account |

The bounds. A race in this code is between two handlers, so `checkout` has two,
with a third actor (an admin), a fault and a crash between them; a third request
that meets what two left behind is in `storefront`, whose three requests of one
page carry one key or, after a page load, several. `account` has four because a
link or a secret takes one request to obtain, and `passkeys` five because a
ceremony is two. Carts have two lines (so that lines are reserved in both orders
and a later line can fail after an earlier one was taken), one product is scarce
(two units), one is free (a charge of zero) and one does not exist.
`storefront` has no crash: to the page a crash is a lost response, and what a
crash leaves in the database is in `checkout`. The limits of the account are two,
the least at which one failure does not lock and a history has an order. In
`browser` both tabs begin on the account page, with the server's answers under way,
since what is at stake there is between two forms. Acts are what visitors do and
what fails, expires or restarts, each counted once; answers, preflights, pushes and
replaces count nothing and come in any order. Three are enough for an edit and a
save of one tab between the read and the form of the other, which then saves; for
a sign-in in one tab while a call of the other is under way; and for a sign-out or
a restart before either. Two tabs are the least that share cookies, and four tokens
more than they and the cookie can hold. In
`gateway` the limiters have budgets of 3, 2 and 1 in a window of three instants
of the four, so that one window ends and the next begins; the two rules have
thresholds 2 and 1, and the buffer is smaller than the alerts that can be raised.
Requests, keys, actors, passwords and other values that nothing names are
symmetric; no run with a liveness property uses symmetry.

Fairness. In `checkout` (`Responds`, `PaidBecomesOrder`) the specification has
weak fairness on the steps of each handler: the event loop resumes every handler
whose await has settled, and the driver settles every call, with a timeout at the
latest. The specification of `Session`, which `bounced` uses, has weak fairness
on answers to refreshes and on a navigation that was started: the server answers
or the fetch rejects, and the router finishes. Nothing is assumed of shoppers,
visitors, admins, faults or crashes. `CHECK_DEADLOCK FALSE` everywhere: requests,
events and acts are finite, so a run ends.

## 4. Where the code and its comments disagree

1. `double_charge`: the key is looked up, every line is reserved and the card is
   charged before the payment is stored. Two overlapping requests with one key
   are both charged; the second insert then fails on the unique index. The
   comment at `order.service.ts:28-29` says a replay never charges twice.
   `OneOrderPerKey`, which does hold, is what the index protects.
2. `recharge`: the key lives in the page and the cart in localStorage, so a page
   that is loaded again before its submit was answered sends the same cart under a
   new key; and a rejected fetch leaves it loading until that is done
   (`checkout/page.tsx:25-26` says that a retry never double-charges). `KeyChargedOnce` is what holds: a key, not a cart, is charged
   once.
3. `link_accepted_twice`: the token is cleared by an update that does not ask
   for it, so two overlapping verifications both succeed
   (`passwordless.service.ts:60-61`, "single-use"). `LinkSingleUse` holds for
   requests that come after the first was answered.
4. `identity_split`: a link leaves `authProvider` at `local` and the lookup asks
   for `google`, so a linked account is never found by its subject id; once the
   identity's email has changed, it gets a second account (`oauth.service.ts:84`,
   `user.repository.ts:20`). The sign-ins of the trace come one after the other:
   `IdentityKeepsAccount` asks nothing of ones that overlap (`OneByOne`), since two
   first sign-ins may both create an account for another reason, a change of the
   email between their lookups. `SameAccountWhileEmailKept` is what holds.
5. `bounced`: a sign-in ends in a push, and the guard of the page it comes to runs
   before the provider has asked again, so it sees the answer of before the
   sign-in and sends the visitor to login once more. The comment at
   `cart/page.tsx:15` says that anonymous visitors are sent there;
   `BouncedForCause` is what holds, of pages loaded as documents.

What holds only under a condition the code does not ensure, which the property
names:

- `NeverOversold` excepts runs in which a database call fails: when
  `attachOrder` throws, the order exists and the catch block returns its stock.
- `ChargesAreRecorded` excepts failing calls and crashes between the charge and
  the insert, and the payment on record may be that of a rival with the same key:
  of the two charges of `double_charge` only one has a payment of its own.
- `NoRecentReuse` excepts overlapping changes: both compare with one history and
  the second write drops what the first added.
- `ReportedIsStored` excepts runs in which two writes of the passkey array
  overlap: the later one undoes the earlier.
- `ClearedWasBought` is about the cart that the answered submit sent: `clearCart`
  empties what is there by then, also when another tab has changed it, or when the
  page was left, the cart changed and the page entered again while the submit ran
  on. Those lines are lost without having been bought.
- `SaveGoesHome` is about the session with which the page was opened: a save goes
  to whoever is signed in when it is sent.
- `UntouchedKept` excepts a profile that was written after the server had read it
  for the form: by another tab, before or after the form was filled, or by an import
  on the same page. An untouched form then brings the old city back.
- `NeverRefusedForCsrf` excepts a call that another tab has overtaken: its header
  was read, and before the cookies were attached a sign-in or `GET /api/auth/csrf`
  of the other tab issued a new token, so it is refused with nothing failing. It
  also excepts the Delete of the admin page after a restart of the browser, which
  does not call `ensureCsrf`.
- `NavShowsSession` is about the newest refresh: an older one that is answered
  after it is shown until the next navigation.
- `SealedAtRest` counts a text in the format of a ciphertext as one.

## 5. Proofs

`CheckoutProofs` proves, for any number of requests, keys, products, faults,
crashes and edits, and from `CatalogueAssumption` and `CheckoutAssumption` alone
(the shelf is well-typed and not negative, bodies satisfy the DTO):

- `TypeCorrect`: `TypeOK`, which also says that a handler at a line of its cart
  or of its rollback has that line (no index runs past an array);
- `StockTheorem`: stock is never negative. Restoring adds a positive quantity
  because every item has one, which is what `TypeOK` contributes;
- `Invariant`: the inductive invariant `IInv`. None of the properties below is
  inductive alone. What makes them so: a payment belongs to the handler that
  stored it, with that handler's key and total, and the handler is past that
  write (`PaymentOwner`); keys are unique (`KeysAreUnique`); an order belongs to
  its handler and has an approved payment (`OrderOwner`); a link refers to an
  order that exists (`LinksAreReal`); and what each handler knows at each await
  (`HandlerKnows`);
- `OneOrder`, `PaidOrders`, `Success`: the properties, as consequences;
- `Recorded`: `ChargesAreRecorded`, from `ChargeOwner` (a charged handler is past
  its reservations, and while no call fails it has left a payment once it is past
  the insert, unless the insert found a rival's);
- `NoTrace`: `RefusalLeavesNoTrace`, from `Clean`: while no call fails, only a
  handler that has stored no approved payment aborts, and its rollback ends at the
  last of its lines;
- `Refinement`: `Checkout` implements `Purchase`. Storing a payment is `Decide`,
  creating an order is `Fulfil`, all else stutters; that a key is fulfilled once
  needs `PaymentOwner` and `KeysAreUnique`, since a second order under one key
  would need a second payment;
- `Conservation`, `Oversold`: `StockConserved` and `NeverOversold`, from the
  inductive invariant `StockInv` on top of `IInv`. It adds that only finitely many
  handlers have started and orders exist, whatever the size of `Requests`
  (`FinitelyMany`), and that until an admin edits the catalogue a restored line
  finds its document (`BoughtAreListed`). Each action moves units between three
  places: a reservation from the shelf to the handler (`ReserveBooks`), a rollback
  back (`RollbackBooks`), a stored order from the handler to what is sold
  (`OrderBooks`); everything else leaves the books alone (`QuietSteps`);
- `OrdersMatch`: `OrderMatchesCart`, from `ItemsAreCart`: at every await the items
  of a handler are the first lines of its cart, and all of them once it has
  charged, and its total is their price.

The last three are about sums, over lines, handlers and orders. The sum over a
finite set is a fold of the community modules, a function chosen by its recursive
equation, and nothing installed can use an induction rule about it. The proofs
use the principle of the smallest counterexample instead, which needs no rule with
an operator for a parameter: a non-empty set of subsets of a finite set has a
member with no other inside it (`MinimalSubset`, from the well-foundedness of
strict inclusion in the library). With it the function exists (`SumsExist`), any
two agree where both are defined (`SumsAgree`), and the laws follow that the
proofs cite: what a sum is (`SumStep`), that any member may be taken first
(`SumRemove`), one more summand (`SumAdd`), equal or smaller summands
(`SumCongruence`, `SumMonotone`) and the change of one (`SumChange`).

`IdentitiesProofs` proves, for any number of requests, emails and identities and
from `IdentitiesAssumption` alone:

- `Invariant`: the inductive invariant `IdentitiesInv`. `OneDocumentPerId` (ids
  are fresh) is why a link changes one document; `Stages` says which handlers
  have an identity and an email;
- `OneAccount`: an email has one account, which only the index ensures;
- `SameAccount`: while no email changes, all sign-ins of one identity reach one
  account. It rests on `MailKept`: what a handler links, is linked to or signs in
  to has the email of the identity, so two sign-ins of one identity reach
  accounts with one email, and `OneAccountPerEmail` makes them one.

`StorefrontProofs` proves, for any number of shoppers, keys, requests, losses, page
loads, pages left and entered again, and changes of the cart, and on top of `IInv` (a step of the composition is
a step of `Checkout` or leaves it alone):

- `StorefrontInductive`: the inductive invariant. `PageInv` says what the code of
  the page contributes: pages hold different keys, a request on a page's present
  key is answered or is the one the page waits for, and two requests on one key
  are for one cart, one of them answered (`Retries`). `Charges` is what that gives
  the server: a handler that has not charged yet has a key without a payment
  (`NoPaymentYet`), and an answered one that charged has left a payment
  (`ChargeOwner`, from `CheckoutProofs`);
- `StorefrontTypes`, `ChargedOnce`, `Shown`, `Cleared`: `StorefrontTypeOK`,
  `KeyChargedOnce`, `ShownOrderMatchesCart`, `ClearedWasBought`;
- `ServerImplements`: what the handlers do behind the pages is `Init /\ [][Next]_vars`
  of `Checkout` (its fairness is not asked of `Storefront`). `ShopIsSound` and
  `ShopIsPurchase` are what this is for: `OneOrderPerKey`, `OrdersArePaid`,
  `OrderMatchesCart`, `StockConserved`, `NeverOversold` and the refinement of
  `Purchase` hold in the composition.

They have one hypothesis, `CartsClosed`: the constant `Carts` contains what the
three operations of `lib/cart.ts` make of its members while no line exceeds
`MaxQuantity`. Carts that this does not describe (over 50 lines, over 99 pieces)
are refused by `CheckoutDTO` before a handler starts, and change nothing. TLC sees
that the instance has it: otherwise `StorefrontTypeOK` would fail there.

`AccountProofs` proves, for any number of requests, passwords, tokens and secrets
and any limits, from `AccountAssumption` alone:

- `AccountInductive`: the inductive invariant `AccountInv`, each part of which is
  about the document as it is and about the snapshots that handlers hold, because
  a write is computed from a snapshot. `LockInv` bounds the counter by the wrong
  passwords there were; `FactorInv` relates a snapshot without MFA to the requests
  that arrived before it was on; `ProvenInv`, `LinkInv` and `HistoryInv` say which
  secrets, tokens and passwords a document can still hold;
- `Types`, `Locked`, `Asked`, `Proven`, `SingleUse`, `NoReuse`, `LockStays`:
  `AccountTypeOK`, `LockedForCause`, `SecondFactorAsked`, `EnabledIsProven`,
  `LinkSingleUse`, `NoRecentReuse`, `LockStands`. `NoReuse` is over histories of
  any length: while no two changes overlap, the history stored is the end of the
  passwords there have been.

`PasskeysProofs` proves, for any number of requests, credentials and
authenticators and from `PasskeysAssumption` alone:

- `PasskeysInductive`: the inductive invariant `PasskeysInv`. `Arrays` is the
  stored array with every one that a handler holds; `ArraysInv` and `CloneInv` are
  about all of them, since any may be written back. The latter says that an
  assertion for the present challenge is ahead of them all: a write that could
  overtake it ends the challenge as well;
- `Types`, `Stored`, `NoClone`: `PasskeysTypeOK`, `ReportedIsStored`,
  `NeverTakenForClone`.

`SessionProofs` proves, for any number of tabs, accounts, acts, failing requests
and restarts, and from `SessionAssumption` alone:

- `Inductive`: the inductive invariant `SInv`: the type invariant with what each
  tab knows (`Knows`: the newest refresh under way carries the session with which
  the tab came to its path, and a settled tab shows that one) and `Cookies`: the CSRF
  cookie is there whenever the session's is, until a restart, and while no request
  fails the header that a signed-in visitor's call has read is the cookie's token,
  unless another has been issued since, which the call's tab in `overtaken` records;
- `ShowsSession`, `NeverStuck`, `HeaderThere`: `NavShowsSession`,
  `LoadingIsAsked`, `NeverRefusedForCsrf`, as consequences;
- `SentAwayForCause`: the action property `BouncedForCause`. Its two hard cases
  are an answer that is not the newest, which after a load as a document there
  cannot be, and a sign-out, which clears the cached user itself.

`AccountPageProofs` proves, on top of `SInv`:

- `PageInductive`: the inductive invariant `PInv`. A form belongs to the account
  whose session the tab had when it came to the page (`FormHome`), because the
  query that filled it was sent then, and so does an answer on its way; a save of an
  untouched form carries the city it shows, and while nobody wrote that since the
  server read it, it reads as the stored one (`BodyHome`); saves whose page is gone
  carry a profile of their own account (`OrphansOK`);
- `SavedHome`, `Kept`, `Untouched`: `SaveGoesHome`, `SiblingsKept`,
  `UntouchedKept`. The last needs that `fresh` means that what the server read, in
  the answer or in the form, reads as the stored city does, encrypted or not; every
  write but the tab's own save ends it (`Writing`), also a late one;
- `Sealed`: `SealedAtRest`, from the further assumption that the profiles in
  `Stored` are encrypted (profiles written before encryption was introduced are
  not; they are the accounts' to save);
- `PageTabs`: everything proved of `Session` holds with the page in its tabs.

`GatewayProofs` proves, for any budgets, windows, addresses and traffic:

- `GatewayInductive`: the inductive invariant `GInv`. For each limiter and
  address, `Keeps` relates the two numbers of the store to the history: the count
  is what was counted since the present window began, a request that passed began
  it, at most a budget has passed in it, and at most a budget less one in the
  time of a window before it. `RateIsBounded` is not inductive without the last;
- `GatewayTypes`, `Refused`, `Bounded`: `GatewayTypeOK`, `RefusedForCause`,
  `RateIsBounded`. The bound is a budget from each of the two windows that a
  stretch as long as a window can meet, less one, since a stretch that meets two
  cannot contain the whole of the first.

It also proves, for any rules, thresholds, windows, sizes of the buffer and events,
and from `MonitoringAssumption` alone:

- `MonitorInductive`: the inductive invariant `MInv`. The timestamps stored for a
  key are those of the events in `Kept`: no later alert of the key has counted them
  and no later event of it found them out of the window, each once (`HitsAreKept`,
  by a bijection, since several events may have one timestamp). A new event then
  counts, of the whole trail, the ones whose timestamps the filter leaves
  (`CountedNow`), and what earlier ones counted stays (`CountedBefore`). The buffer
  is the alerts by the rank of the event that raised them (`AlertsAreNewest`);
- `AlertsDue`, `AlertsShown`: `AlertsExactlyWhenDue`, `ShownAreNewest`, as
  consequences.

`times.filter` is `Recent`, a fold as well; that it keeps the timestamps in the
window and no others (`RecentCopies`) is proved with `MinimalSubset`, for the
smallest set of positions at which it would not.

Some of what is proved is in no run, because a run would only repeat it: `TypeOK`
and `IInv` of `Checkout`, `SuccessMeansOrder`, `IdentitiesInv`, `SessionTypeOK`
and `AccountPageTypeOK`.

Only model-checked: liveness, `Responds` and `PaidBecomesOrder`. Both are used
under weak fairness, and a proof would need `ENABLED` of the handlers' steps, which
the installed provers do not support. All other properties of the passing runs are
theorems as well.

## 6. What is left

Not modelled:

- request filters and logging beyond their place in the chain: the patterns of
  the firewall, the scrubbing of keys and the access log are stateless text
  processing, and the error handler is the end of every failing path and so part
  of those actions;
- password strength and outbound fetch: pure functions of strings and addresses,
  and network I/O;
- CAPTCHA and session tokens as texts: they are signed and kept by the client;
  what a refusal of one does is in `Gateway` and `Session`;
- configuration, connecting and start: I/O before the first request (the seed is
  where the catalogue and the profiles start);
- pages that only render or send one request; tests, fuzzing, containers and CI,
  which exercise or deploy the program.

Worth adding:

- one process with all of `Checkout`, `Account` and `Gateway` in it, so that a
  restart ends their handlers together (now each has its own);
- a composition of `Session` with `Storefront`, so that the 401 of a checkout is
  the end of the session in some tab and not a fault.
