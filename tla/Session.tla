------------------------------ MODULE Session ------------------------------
(***************************************************************************)
(* One browser and its tabs: the cookies that the tabs share, and in each  *)
(* tab the cached answer to "who is signed in" (lib/auth.tsx), the pages   *)
(* that guard themselves with it or ask for themselves, and the calls that *)
(* change state, with their CSRF header (lib/api.ts). The pages are        *)
(*   "shop"     the public ones,                                           *)
(*   "cart"     cart and checkout, guarded by the cached answer,           *)
(*   "account", "admin"  which ask when they mount (orders is of the first *)
(*              kind),                                                     *)
(*   "login"    login, register and the page of a magic link.              *)
(* A tab has one call that changes state under way; tabs overlap freely.   *)
(***************************************************************************)
EXTENDS Naturals, Sequences, SequencesExt

CONSTANTS Tabs, Accounts, None,
          Csrfs,                  \* CSRF tokens: more than the cookie and all tabs hold
          Opened,                 \* pages that the tabs may show at the start
          MaxActs,                \* bound on what visitors do, fails, expires or restarts
          MaxFaults, MaxRestarts  \* bounds on those of them that are failing requests, restarts

ASSUME SessionAssumption ==
  /\ None \notin Accounts \cup Csrfs /\ Csrfs # {}
  /\ Opened \subseteq {"shop", "cart", "account", "admin", "login"}
  /\ MaxActs \in Nat /\ MaxFaults \in Nat /\ MaxRestarts \in Nat

VARIABLES token,    \* cookie: the account of a JWT that has not expired, or None
          csrf,     \* cookie: the csrfToken, or None
          page, next, \* the path of each tab and the ?next= it has
          back,     \* the entry of this document before the present one
          leaving,  \* the guard has called router.replace
          user, loading, \* the provider's state
          checks,   \* its refreshes under way, oldest first
          queries,  \* the pages' own fetches under way
          call,     \* the call under way that changes state
          acts, faults, restarts,
          overtaken, \* ghost: tabs whose last call read a csrfToken that was then replaced
          arrived,  \* ghost: the session when the tab came to its path, and how
          settled   \* ghost: user is the answer to the newest refresh

jar == <<token, csrf, overtaken>>
screen == <<page, next, back, leaving, queries, arrived>>
auth == <<user, loading, checks, settled>>
bounds == <<acts, faults, restarts>>
vars == <<jar, screen, auth, call, bounds>>

Pages == {"shop", "cart", "account", "admin", "login"}
Ops == {"signIn", "signOut", "save", "import", "remove"}
Session == Accounts \cup {None}
Query == [of : {"account", "admin"}, session : Session]
Idle == [op |-> "none", account |-> None, stage |-> "idle",
         header |-> None, session |-> None, matches |-> FALSE]

\* Cookies and checks have their types; a page that the guard protects is
\* shown to somebody, still loading, or being left; only login has a next.
SessionTypeOK ==
  /\ token \in Session /\ csrf \in Csrfs \cup {None} /\ overtaken \subseteq Tabs
  /\ page \in [Tabs -> Pages] /\ next \in [Tabs -> Pages \ {"login"}]
  /\ back \in [Tabs -> Pages \cup {None}] /\ leaving \in [Tabs -> BOOLEAN]
  /\ user \in [Tabs -> Session] /\ loading \in [Tabs -> BOOLEAN]
  /\ checks \in [Tabs -> Seq([session : Session, newest : BOOLEAN])]
  /\ queries \in [Tabs -> SUBSET Query]
  /\ call \in [Tabs -> [op : Ops \cup {"none"}, account : Session,
                        stage : {"idle", "csrf", "ready", "sending", "sent"},
                        header : Csrfs \cup {None}, session : Session, matches : BOOLEAN]]
  /\ acts \in 0..MaxActs /\ faults \in 0..MaxFaults /\ restarts \in 0..MaxRestarts
  /\ arrived \in [Tabs -> [session : Session, whole : BOOLEAN]]
  /\ settled \in [Tabs -> BOOLEAN]
  /\ \A t \in Tabs :
       /\ page[t] = "cart" => loading[t] \/ user[t] # None \/ leaving[t]
       /\ leaving[t] => page[t] = "cart"
       /\ page[t] # "login" => next[t] = "shop"

\* What page p fetches when it is mounted, with the cookies of session s.
Mounted(p, s) == {q \in Query : q.of = p /\ q.session = s}

\* Some tabs that were just opened, in the middle of a session or without one.
Init ==
  /\ token \in Session /\ csrf = IF token = None THEN None ELSE CHOOSE c \in Csrfs : TRUE
  /\ overtaken = {}
  /\ page \in [Tabs -> Opened] /\ next = [t \in Tabs |-> "shop"]
  /\ back = [t \in Tabs |-> None] /\ leaving = [t \in Tabs |-> FALSE]
  /\ user = [t \in Tabs |-> None] /\ loading = [t \in Tabs |-> TRUE]
  /\ checks = [t \in Tabs |-> <<[session |-> token, newest |-> TRUE]>>]
  /\ queries = [t \in Tabs |-> Mounted(page[t], token)]
  /\ call = [t \in Tabs |-> Idle]
  /\ acts = 0 /\ faults = 0 /\ restarts = 0
  /\ arrived = [t \in Tabs |-> [session |-> token, whole |-> TRUE]]
  /\ settled = [t \in Tabs |-> FALSE]

----------------------------------------------------------------------------
(* Coming to a page.                                                       *)

Act == acts < MaxActs /\ acts' = acts + 1 /\ UNCHANGED <<faults, restarts>>
Fault ==
  /\ faults < MaxFaults /\ faults' = faults + 1
  /\ acts < MaxActs /\ acts' = acts + 1 /\ UNCHANGED restarts

\* Variant: the guard does not wait for the first answer.
GuardedEarly(p, l, u) == p = "cart" /\ u = None

\* The effect of cart and checkout: nobody is signed in, as far as they know.
Guarded(p, l, u) == p = "cart" /\ ~l /\ u = None

Older(s) == [i \in DOMAIN s |-> [s[i] EXCEPT !.newest = FALSE]]

\* Variant: a check for which there already is one under way is not sent.
AskOnce(t) ==
  /\ checks' = [checks EXCEPT ![t] =
       IF @ # <<>> THEN @ ELSE <<[session |-> token', newest |-> TRUE]>>]
  /\ settled' = [settled EXCEPT ![t] = FALSE]

\* refresh: GET /api/users/me, with the cookies as they are.
Ask(t) ==
  /\ checks' = [checks EXCEPT ![t] =
       Append(Older(@), [session |-> token', newest |-> TRUE])]
  /\ settled' = [settled EXCEPT ![t] = FALSE]

\* The path changes within the document. The new page's effects run before the
\* provider's: its guard sees the answer cached for the last path. Of the fetches
\* of the pages before, only a late 401 still does something.
Visit(t, p, n, late) ==
  /\ page' = [page EXCEPT ![t] = p]
  /\ next' = [next EXCEPT ![t] = n]
  /\ leaving' = [leaving EXCEPT ![t] = Guarded(p, loading[t], user'[t])]
  /\ Ask(t)
  /\ queries' = [queries EXCEPT ![t] = late \cup Mounted(p, token')]
  /\ arrived' = [arrived EXCEPT ![t] = [session |-> token', whole |-> FALSE]]

Late(t) == {q \in queries[t] : q.session = None}

Push(t, p, n, late) ==
  /\ back' = [back EXCEPT ![t] = page[t]]
  /\ Visit(t, p, n, late)

\* To login: when that is the path already, only the query of the URL changes.
PushLogin(t, n, late) ==
  \/ page[t] # "login" /\ Push(t, "login", n, late)
  \/ /\ page[t] = "login"
     /\ next' = [next EXCEPT ![t] = n]
     /\ queries' = [queries EXCEPT ![t] = late]
     /\ UNCHANGED <<page, back, leaving, arrived, checks>>
     /\ settled' = [settled EXCEPT ![t] = @ /\ user'[t] = user[t]]

\* A new document: by a link (all of them are <a>), the address bar or a reload.
\* What the old document awaited is gone.
Document(t, p, n) ==
  /\ page' = [page EXCEPT ![t] = p] /\ next' = [next EXCEPT ![t] = n]
  /\ back' = [back EXCEPT ![t] = None]
  /\ leaving' = [leaving EXCEPT ![t] = Guarded(p, TRUE, None)]
  /\ user' = [user EXCEPT ![t] = None] /\ loading' = [loading EXCEPT ![t] = TRUE]
  /\ checks' = [checks EXCEPT ![t] = <<[session |-> token', newest |-> TRUE]>>]
  /\ settled' = [settled EXCEPT ![t] = FALSE]
  /\ queries' = [queries EXCEPT ![t] = Mounted(p, token')]
  /\ arrived' = [arrived EXCEPT ![t] = [session |-> token', whole |-> TRUE]]
  /\ call' = [call EXCEPT ![t] = Idle]

Load(t, p, n) ==
  /\ Act
  /\ UNCHANGED jar
  /\ Document(t, p, n)

\* A new random token: no cookie or header has had it. Calls that have read the one
\* before it, and whose cookies are not attached yet, are overtaken.
issueCsrfToken ==
  LET unheld == {c \in Csrfs : c # csrf /\ \A t \in Tabs : call[t].header # c}
  IN /\ unheld # {}
     /\ csrf' = CHOOSE c \in unheld : TRUE
     /\ overtaken' = overtaken \cup {t \in Tabs : call[t].stage = "sending"}

\* The callback of Google sets the cookies and redirects to the account page.
GoogleReturn(t, a) ==
  /\ page[t] = "login"
  /\ Act
  /\ token' = a /\ issueCsrfToken
  /\ Document(t, "account", "shop")

\* The browser's back button, within the document; a page is not left by it
\* while it waits for a save, an import or a removal.
Back(t) ==
  /\ back[t] # None /\ ~leaving[t]
  /\ call[t].op \notin {"save", "import", "remove"}
  /\ Act
  /\ back' = [back EXCEPT ![t] = None]
  /\ UNCHANGED <<jar, user, loading, call>>
  /\ Visit(t, back[t], "shop", Late(t))

\* "Proceed to Checkout" of the cart.
Proceed(t) ==
  /\ page[t] = "cart" /\ ~loading[t] /\ user[t] # None /\ ~leaving[t]
  /\ Act
  /\ UNCHANGED <<jar, user, loading, call>>
  /\ Push(t, "cart", "shop", Late(t))

\* The guard's router.replace takes effect.
Replaced(t) ==
  /\ leaving[t]
  /\ UNCHANGED <<jar, back, user, loading, call, bounds>>
  /\ Visit(t, "login", "cart", Late(t))

----------------------------------------------------------------------------
(* Answers to the questions.                                               *)

\* refresh, after its await, with u as the answer.
Applied(t, i, u) ==
  /\ checks' = [checks EXCEPT ![t] = RemoveAt(@, i)]
  /\ user' = [user EXCEPT ![t] = u]
  /\ loading' = [loading EXCEPT ![t] = FALSE]
  /\ leaving' = [leaving EXCEPT ![t] = @ \/ Guarded(page[t], FALSE, u)]
  /\ UNCHANGED <<jar, page, next, back, queries, arrived, call>>

\* Variant: refresh throws at a 401, as it does when the fetch rejects.
CheckAnsweredOk(t, i) ==
  /\ IF checks[t][i].session # None THEN Applied(t, i, checks[t][i].session)
     ELSE /\ checks' = [checks EXCEPT ![t] = RemoveAt(@, i)]
          /\ UNCHANGED <<jar, screen, user, loading, call>>
  /\ settled' = [settled EXCEPT ![t] = checks[t][i].newest]
  /\ UNCHANGED bounds

\* In any order: 200 with the account of the token, 401 without one.
CheckAnswered(t, i) ==
  /\ Applied(t, i, checks[t][i].session)
  /\ settled' = [settled EXCEPT ![t] = checks[t][i].newest]
  /\ UNCHANGED bounds

\* 429 or 500: taken for nobody.
CheckRefused(t, i) ==
  /\ Fault
  /\ Applied(t, i, None)
  /\ settled' = [settled EXCEPT ![t] = FALSE]

\* The fetch rejects; nothing catches it and nothing ends the loading.
CheckLost(t, i) ==
  /\ Fault
  /\ checks' = [checks EXCEPT ![t] = RemoveAt(@, i)]
  /\ UNCHANGED <<jar, screen, user, loading, settled, call>>

\* A page's own fetch is answered; 401 goes to login, also when the page was left.
QueryAnswered(t, q) ==
  /\ q \in queries[t] \ Late(t)
  /\ queries' = [queries EXCEPT ![t] = @ \ {q}]
  /\ UNCHANGED <<jar, page, next, back, leaving, arrived, auth, call, bounds>>

QueryRefused(t, q) ==
  /\ q \in Late(t)
  /\ UNCHANGED <<jar, user, loading, call, bounds>>
  /\ PushLogin(t, q.of, Late(t) \ {q})

----------------------------------------------------------------------------
(* Calls that change state.                                                *)

\* The header is read, and the request handed to fetch.
Sending(op, a) == [Idle EXCEPT !.op = op, !.account = a, !.stage = "sending", !.header = csrf]

\* stateChanging up to its fetch: without a CSRF cookie ask for one first.
\* The Delete of the admin page is a fetch of its own, which does not ask.
Start(t, op, a) ==
  /\ call[t] = Idle /\ ~leaving[t]
  /\ \/ op = "signIn" /\ page[t] = "login" /\ a \in Accounts
     \/ op = "signOut" /\ ~loading[t] /\ user[t] # None /\ a = None
     \/ op \in {"save", "import"} /\ page[t] = "account" /\ a = None
     \/ op = "remove" /\ page[t] = "admin" /\ a = None
  /\ Act
  /\ call' = [call EXCEPT ![t] =
       IF csrf # None \/ op = "remove" THEN Sending(op, a)
       ELSE [Idle EXCEPT !.op = op, !.account = a, !.stage = "csrf"]]
  /\ overtaken' = overtaken \ {t}
  /\ UNCHANGED <<token, csrf, screen, auth>>

\* GET /api/auth/csrf sets the cookie, or is refused, which nothing looks at.
CsrfAnswered(t) ==
  /\ call[t].stage = "csrf"
  /\ issueCsrfToken
  /\ call' = [call EXCEPT ![t].stage = "ready"]
  /\ UNCHANGED <<token, screen, auth, bounds>>

CsrfRefused(t) ==
  /\ call[t].stage = "csrf"
  /\ Fault
  /\ call' = [call EXCEPT ![t].stage = "ready"]
  /\ UNCHANGED <<jar, screen, auth>>

\* Variant: the headers are made before ensureCsrf is awaited.
SendBare(t) ==
  /\ call[t].stage = "ready"
  /\ call' = [call EXCEPT ![t].stage = "sending"]
  /\ overtaken' = overtaken \ {t}
  /\ UNCHANGED <<token, csrf, screen, auth, bounds>>

\* Back from the await: the cookie is read again and the request handed to fetch.
Send(t) ==
  /\ call[t].stage = "ready"
  /\ call' = [call EXCEPT ![t] = Sending(call[t].op, call[t].account)]
  /\ overtaken' = overtaken \ {t}
  /\ UNCHANGED <<token, csrf, screen, auth, bounds>>

\* The API is another origin: a preflight goes first, and when it is answered the
\* request leaves, with the header as it was read and the cookies of now.
Attach(t) ==
  /\ call[t].stage = "sending"
  /\ call' = [call EXCEPT ![t].stage = "sent", ![t].header = None, ![t].session = token,
                          ![t].matches = call[t].header # None /\ call[t].header = csrf]
  /\ UNCHANGED <<jar, screen, auth, bounds>>

Answered(t, op) == call[t].stage = "sent" /\ call[t].op = op

\* The last call of a sign-in succeeds: setAuthCookie and issueCsrfToken, then
\* the page pushes the ?next= that the URL has by now.
SignedIn(t) ==
  /\ Answered(t, "signIn")
  /\ token' = call[t].account /\ issueCsrfToken
  /\ call' = [call EXCEPT ![t] = Idle]
  /\ UNCHANGED <<user, loading, bounds>>
  /\ Push(t, next[t], "shop", Late(t))

SignInRefused(t) ==
  /\ Answered(t, "signIn")
  /\ call' = [call EXCEPT ![t] = Idle]
  /\ UNCHANGED <<jar, screen, auth, bounds>>

\* logout clears both cookies; then setUser(null), and onSignOut pushes login.
\* On a guarded page the guard's replace may come after that push.
SignedOut(t) ==
  /\ Answered(t, "signOut")
  /\ token' = None /\ csrf' = None /\ UNCHANGED overtaken
  /\ call' = [call EXCEPT ![t] = Idle]
  /\ user' = [user EXCEPT ![t] = None]
  /\ UNCHANGED <<loading, bounds>>
  /\ \E n \in {"shop"} \cup ({"cart"} \cap {page[t]}) : PushLogin(t, n, Late(t))

\* authMiddleware, then csrfProtection: header and cookie are one token.
Accepted(c) == c.session # None /\ c.matches

\* A profile is saved or imported, or a product removed; after success, and in
\* the last case always, the page fetches again what it shows.
Done(t, op) ==
  /\ op \in {"save", "import", "remove"} /\ Answered(t, op)
  /\ call' = [call EXCEPT ![t] = Idle]
  /\ queries' = [queries EXCEPT ![t] =
       @ \cup {q \in Mounted(IF op = "remove" THEN "admin" ELSE "account", token) :
                 /\ op = "remove" \/ Accepted(call[t])
                 /\ q.of = page[t] \/ token = None}]
  /\ UNCHANGED <<jar, page, next, back, leaving, arrived, auth, bounds>>

\* The fetch rejects; nothing catches it.
CallLost(t) ==
  /\ call[t].stage \in {"csrf", "sending", "sent"}
  /\ Fault
  /\ call' = [call EXCEPT ![t] = Idle]
  /\ UNCHANGED <<jar, screen, auth>>

----------------------------------------------------------------------------
\* The JWT expires, and its cookie with it: both last 15 days.
Expire ==
  /\ token # None
  /\ token' = None
  /\ Act
  /\ UNCHANGED <<csrf, overtaken, screen, auth, call>>

\* The browser starts again with its tabs. csrfToken is a session cookie; token,
\* which has a maxAge, is not.
Restart ==
  /\ restarts < MaxRestarts
  /\ acts < MaxActs /\ acts' = acts + 1
  /\ restarts' = restarts + 1 /\ UNCHANGED faults
  /\ csrf' = None /\ overtaken' = {} /\ UNCHANGED token
  /\ UNCHANGED <<page, next>>
  /\ back' = [t \in Tabs |-> None] /\ leaving' = [t \in Tabs |-> FALSE]
  /\ user' = [t \in Tabs |-> None] /\ loading' = [t \in Tabs |-> TRUE]
  /\ checks' = [t \in Tabs |-> <<[session |-> token, newest |-> TRUE]>>]
  /\ settled' = [t \in Tabs |-> FALSE]
  /\ queries' = [t \in Tabs |-> Mounted(page[t], token)]
  /\ arrived' = [t \in Tabs |-> [session |-> token, whole |-> TRUE]]
  /\ call' = [t \in Tabs |-> Idle]

AnyCheckAnswered(t) == \E i \in DOMAIN checks[t] : CheckAnswered(t, i)

\* A tab comes to another page, or to the same one anew.
Leaves(t) ==
  \/ \E p \in Pages, n \in {"shop", "account"} : (p # "login" => n = "shop") /\ Load(t, p, n)
  \/ \E a \in Accounts : GoogleReturn(t, a)
  \/ Back(t) \/ Proceed(t) \/ Replaced(t) \/ (\E q \in queries[t] : QueryRefused(t, q))
  \/ SignedIn(t) \/ SignedOut(t)

\* It stays, and no profile is shown, sent or written.
Stays(t) ==
  \/ AnyCheckAnswered(t)
  \/ \E i \in DOMAIN checks[t] : CheckRefused(t, i) \/ CheckLost(t, i)
  \/ \E op \in Ops \ {"save", "import"}, a \in Session : Start(t, op, a)
  \/ CsrfAnswered(t) \/ CsrfRefused(t) \/ Send(t) \/ Attach(t)
  \/ SignInRefused(t) \/ Done(t, "remove")

Tab(t) ==
  \/ Leaves(t) \/ Stays(t)
  \/ \E q \in queries[t] : QueryAnswered(t, q)
  \/ \E op \in {"save", "import"} : Start(t, op, None) \/ Done(t, op)
  \/ CallLost(t)

Next == (\E t \in Tabs : Tab(t)) \/ Expire \/ Restart

\* Every question is answered in the end, if not refused or lost, and a
\* navigation that was started takes effect.
Fairness == \A t \in Tabs : WF_vars(AnyCheckAnswered(t)) /\ WF_vars(Replaced(t))

Spec == Init /\ [][Next]_vars /\ Fairness

----------------------------------------------------------------------------
\* Once the newest refresh is answered and no older one after it, the nav shows
\* the session that the browser has, unless that changed since the tab came to
\* its path: a sign-in and a sign-out end in a navigation, which asks again
\* (lib/auth.tsx:59-62, NavBar.tsx:27-30).
NavShowsSession ==
  \A t \in Tabs : settled[t] /\ token = arrived[t].session => user[t] = token

\* While no request fails, a call of a signed-in visitor is refused for its CSRF
\* header only when another tab was issued a new token after the header was read and
\* before the cookies were attached (api.ts:49-50): the two cookies come and go
\* together, or ensureCsrf has fetched the one that is missing. And but for the
\* Delete of the admin page, which does not call it, after the browser was started
\* again (admin/page.tsx:69-77).
NeverRefusedForCsrf ==
  \A t \in Tabs :
    /\ call[t].stage = "sent" /\ call[t].session # None /\ faults = 0
    /\ call[t].op = "remove" => restarts = 0
    => call[t].matches \/ t \in overtaken

\* A guarded page that was loaded as a document sends away only a visitor who
\* had no session when it was loaded, or whose question was refused
\* (cart/page.tsx:16-20, checkout/page.tsx:32-36).
BouncedForCause ==
  [][\A t \in Tabs :
       leaving'[t] /\ ~leaving[t] /\ arrived'[t].whole =>
         arrived'[t].session = None \/ faults' > 0]_vars

\* The guard sends away anonymous visitors only: cart/page.tsx:15.
OnlyAnonymousBounced ==
  [][\A t \in Tabs : leaving'[t] /\ ~leaving[t] => token' = None]_vars

\* No tab loads for ever, unless a request failed: while the provider is loading
\* there is a refresh under way that will end it.
LoadingIsAsked == \A t \in Tabs : loading[t] /\ faults = 0 => checks[t] # <<>>
=============================================================================
