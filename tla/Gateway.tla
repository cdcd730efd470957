------------------------------ MODULE Gateway ------------------------------
(***************************************************************************)
(* What every request passes before its handler (app.ts, the middleware    *)
(* and the routes), composed with the audit trail and the monitor. The     *)
(* chain up to the handler runs without waiting for anything but the body, *)
(* so a request is one action; the records it leaves to be written are     *)
(* written later, in any order. The three limiters are memory stores of    *)
(* express-rate-limit: for each address a count and the end of its window. *)
(* Security headers, CORS headers and access logging keep no state.        *)
(***************************************************************************)
EXTENDS Monitoring

CONSTANTS Addresses, Emails,
          Blocklist, Allowlist, \* of config/index.ts
          MaxPassed,                 \* requests a limiter lets through in a window
          LimitWindow,
          MaxWork               \* bound of the instance

Limiters == {"global", "auth", "payment"}

ASSUME GatewayAssumption ==
  /\ Actors = Addresses \cup Emails /\ Addresses \cap Emails = {}
  /\ Rules \subseteq {"BRUTE_FORCE_IP", "MFA_BRUTE_FORCE", "ACCOUNT_LOCKED", "IP_DENIED"}
  /\ Blocklist \subseteq Addresses /\ Allowlist \subseteq Addresses
  /\ MaxPassed \in [Limiters -> Nat \ {0}] /\ LimitWindow \in Nat \ {0}
  /\ MaxWork \in Nat

VARIABLES budget,  \* of each limiter and address: requests counted, end of window
          pending, \* audit records whose write has not settled, by event
          seen     \* ghost: the requests counted since the process started

gatewayVars == <<budget, pending, seen>>
monitorVars == <<now, hits, alerts, faults, restarts, trail, raised>>

Fresh == [l \in Limiters |-> [a \in Addresses |-> [count |-> 0, until |-> 0]]]

GatewayInit ==
  /\ Init
  /\ budget = Fresh
  /\ pending = [e \in Event |-> 0]
  /\ seen = <<>>

----------------------------------------------------------------------------
(* The limiters.                                                           *)

\* Variant: a request that comes too early extends the window.
ExtendWindow(l, a) ==
  IF budget[l][a].until <= now
  THEN [count |-> 1, until |-> now + LimitWindow]
  ELSE [count |-> budget[l][a].count + 1, until |-> now + LimitWindow]

\* An address's window begins with its first request and is not extended.
Hit(l, a) ==
  IF budget[l][a].until <= now
  THEN [count |-> 1, until |-> now + LimitWindow]
  ELSE [budget[l][a] EXCEPT !.count = @ + 1]

\* Variant: one request too many.
PassesAtLimit(l, a) == budget[l][a].until <= now \/ budget[l][a].count <= MaxPassed[l]

Passes(l, a) == Hit(l, a).count <= MaxPassed[l]

\* Variant: requests that are refused are not counted.
CountPassed(ls, a) ==
  budget' = [l \in Limiters |-> [b \in Addresses |->
               IF l \in ls /\ b = a /\ Passes(l, b) THEN Hit(l, b) ELSE budget[l][b]]]

\* The limiters that the request reaches count it.
Count(ls, a) ==
  budget' = [l \in Limiters |-> [b \in Addresses |->
               IF l \in ls /\ b = a THEN Hit(l, b) ELSE budget[l][b]]]

Note(a, counted, refusedBy) ==
  seen' = Append(seen, [ip |-> a, at |-> now, counted |-> counted, refusedBy |-> refusedBy])

Pend(events) ==
  pending' = [e \in Event |-> IF e \in events THEN pending[e] + 1 ELSE pending[e]]

----------------------------------------------------------------------------
(* A request.                                                              *)

IsDenied(a) == a \in Blocklist \/ (Allowlist # {} /\ a \notin Allowlist)

\* ipAccessControl: 403 before anything else; the record is not awaited.
Deny(a) ==
  /\ IsDenied(a)
  /\ Pend([rule : Rules \cap {"IP_DENIED"}, actor : {a}])
  /\ UNCHANGED <<budget, seen>>

\* Answered before the limiters: a preflight, a body that is too large or
\* malformed, or one that the firewall blocks.
Filter(a) ==
  /\ ~IsDenied(a)
  /\ UNCHANGED gatewayVars

\* 429 of the global limiter, whatever the route.
SlowDown(a) ==
  /\ ~IsDenied(a) /\ ~Passes("global", a)
  /\ Count({"global"}, a)
  /\ Note(a, {"global"}, "global")
  /\ UNCHANGED pending

\* Routes without a limiter of their own, and order routes without a session
\* (401 before paymentLimiter).
Browse(a) ==
  /\ ~IsDenied(a) /\ Passes("global", a)
  /\ Count({"global"}, a)
  /\ Note(a, {"global"}, "none")
  /\ UNCHANGED pending

\* 429 of authLimiter or paymentLimiter: the global limiter has counted it too.
TooMany(a, l) ==
  /\ ~IsDenied(a) /\ Passes("global", a) /\ ~Passes(l, a)
  /\ Count({"global", l}, a)
  /\ Note(a, {"global", l}, l)
  /\ UNCHANGED pending

\* What a handler behind authLimiter may leave to be audited: a failed login, a
\* wrong code, or instead of either a lock of the account; nothing that a rule
\* matches after a success, without a CAPTCHA, or for a locked account.
Audited(a) ==
  {{}} \cup {{e} : e \in [rule : Rules \cap {"BRUTE_FORCE_IP", "MFA_BRUTE_FORCE"}, actor : {a}]}
       \cup {{e} : e \in [rule : Rules \cap {"ACCOUNT_LOCKED"}, actor : Emails]}

\* A credential route: login, register, second factor, link, passkey, and the
\* start of a Google sign-in.
SignIn(a) ==
  /\ ~IsDenied(a) /\ Passes("global", a) /\ Passes("auth", a)
  /\ \E events \in Audited(a) : Pend(events)
  /\ Count({"global", "auth"}, a)
  /\ Note(a, {"global", "auth"}, "none")

\* Checkout of a session: counted before its CSRF token is looked at.
CheckOut(a) ==
  /\ ~IsDenied(a) /\ Passes("global", a) /\ Passes("payment", a)
  /\ Count({"global", "payment"}, a)
  /\ Note(a, {"global", "payment"}, "none")
  /\ UNCHANGED pending

\* The requests counted and the events audited, since the process started.
Work == Len(seen) + Len(trail) + MapThenSumSet(LAMBDA e : pending[e], Event)

Request(a) ==
  /\ \/ Deny(a) \/ Filter(a) \/ SlowDown(a) \/ Browse(a)
     \/ \E l \in {"auth", "payment"} : TooMany(a, l)
     \/ SignIn(a) \/ CheckOut(a)
  /\ UNCHANGED monitorVars
  /\ (Work <= MaxWork)'

\* The write of a record settles.
Settle(e) ==
  /\ pending[e] > 0
  /\ Log(e)
  /\ pending' = [pending EXCEPT ![e] = @ - 1]
  /\ UNCHANGED <<budget, seen>>

GatewayTick == Tick /\ UNCHANGED gatewayVars

\* The stores of the limiters are in memory, and so are the requests in flight.
GatewayRestart ==
  /\ Restart
  /\ budget' = Fresh
  /\ pending' = [e \in Event |-> 0]
  /\ seen' = <<>>

GatewayNext ==
  \/ \E a \in Addresses : Request(a)
  \/ \E e \in Event : Settle(e)
  \/ GatewayTick \/ GatewayRestart

GatewaySpec == GatewayInit /\ [][GatewayNext]_<<monitorVars, gatewayVars>>

----------------------------------------------------------------------------
\* The requests of an address up to i that limiter l counted within a window of i.
Near(i, l) ==
  {j \in 1..i : /\ seen[j].ip = seen[i].ip /\ l \in seen[j].counted
                /\ seen[i].at - seen[j].at < LimitWindow}

\* Nobody is refused without cause: a 429 has as many requests of the same address
\* before it, within one window, as the limiter lets through. Requests of others,
\* of routes behind another limiter, or answered before the limiters do not use
\* its budget up, and requests that were refused do not prolong the refusal.
RefusedForCause ==
  \A i \in DOMAIN seen :
    seen[i].refusedBy # "none" =>
      Cardinality(Near(i, seen[i].refusedBy) \ {i}) >= MaxPassed[seen[i].refusedBy]

\* What reaches the handlers: windows that begin with an address's first request
\* let it send no more than 2 * Max - 1 requests within any time as long as a
\* window, wherever that time lies (rateLimit.middleware.ts:10-59).
RateIsBounded ==
  \A i \in DOMAIN seen, l \in Limiters :
    Cardinality({j \in Near(i, l) : seen[j].refusedBy # l}) <= 2 * MaxPassed[l] - 1

\* A limiter's few numbers are the history of the address: no request it counted
\* is later than its window, and while the window lasts the count is the number
\* of requests since it began.
GatewayTypeOK ==
  /\ pending \in [Event -> Nat]
  /\ \A l \in Limiters, a \in Addresses :
       LET b == budget[l][a]
           counted == {j \in DOMAIN seen : seen[j].ip = a /\ l \in seen[j].counted}
       IN  /\ b.count \in Nat /\ b.until \in 0..(now + LimitWindow)
           /\ \A j \in counted : seen[j].at < b.until
           /\ b.until > now =>
                b.count = Cardinality({j \in counted : seen[j].at >= b.until - LimitWindow})
=============================================================================
