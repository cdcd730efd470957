------------------------------ MODULE Passkeys ------------------------------
(***************************************************************************)
(* The passkeys of one user: webauthn.service.ts and its controller, with  *)
(* the user's authenticators (external) on the other side of the HTTP      *)
(* calls. A handler finds the document, decides from that snapshot, and    *)
(* writes the whole array of passkeys back. The document has one           *)
(* challenge, whichever ceremony it was issued for.                        *)
(***************************************************************************)
EXTENDS Integers, FiniteSets

CONSTANTS Requests,    \* requests, each handled once
          Operations,  \* what requests may ask for
          Challenges,  \* random challenges
          Credentials, \* credential ids
          Devices,     \* the user's authenticators
          Counting,    \* those that count their signatures; others report 0
          Before,      \* credentials registered when the system starts
          None

ASSUME PasskeysAssumption ==
  /\ Before \subseteq Credentials /\ Counting \subseteq Devices
  /\ None \notin Challenges \cup Devices

VARIABLES passkeys,  \* the array: credential ids and signature counters
          challenge, \* currentChallenge
          fresh,     \* currentChallengeExpires has not passed
          pc, job, seen, reply, \* of each handler
          offers,    \* options the browser has received
          device,    \* the authenticator that made a credential, None if not made
          signed,    \* signatures an authenticator has made with a credential
          raced      \* ghost: an array was written that was computed from a stale one

document == <<passkeys, challenge, fresh>>
handler == <<pc, job, seen, reply>>
browser == <<offers, device, signed>>
vars == <<document, handler, browser, raced>>

Passkey == [id : Credentials, counter : Nat]
Offer == [ceremony : {"register", "login"}, challenge : Challenges,
          listed : SUBSET Credentials]
Ids(array) == {k.id : k \in array}

Init ==
  /\ passkeys = [id : Before, counter : {0}]
  /\ challenge = None /\ fresh = FALSE
  /\ pc = [r \in Requests |-> "idle"]
  /\ job = [r \in Requests |-> None]
  /\ seen = [r \in Requests |-> {}]
  /\ reply = [r \in Requests |-> "none"]
  /\ offers = {}
  /\ device \in {d \in [Credentials -> Devices \cup {None}] :
                   /\ \A c \in Credentials : d[c] = None <=> c \notin Before
                   /\ \A c, e \in Before : d[c] = d[e] => c = e}
  /\ signed = [c \in Credentials |-> 0]
  /\ raced = FALSE

----------------------------------------------------------------------------
(* Requests arrive; those that end a ceremony carry what an authenticator  *)
(* made of an offer.                                                       *)

Send(r, body) ==
  /\ pc[r] = "idle" /\ body.op \in Operations
  /\ pc' = [pc EXCEPT ![r] = "find"]
  /\ job' = [job EXCEPT ![r] = body]
  /\ UNCHANGED <<document, seen, reply, offers, raced>>

Ask(r) ==
  /\ \E op \in {"registerOptions", "loginOptions"} : Send(r, [op |-> op])
  /\ UNCHANGED <<device, signed>>

AskRemoval(r) ==
  /\ \E c \in {e \in Credentials : device[e] # None} :
       Send(r, [op |-> "remove", id |-> c])
  /\ UNCHANGED <<device, signed>>

\* The authenticator makes a credential, unless it holds a listed one.
Attest(r) ==
  \E o \in offers, c \in Credentials, d \in Devices :
    /\ o.ceremony = "register"
    /\ device[c] = None
    /\ \A e \in o.listed : device[e] # d
    /\ device' = [device EXCEPT ![c] = d]
    /\ Send(r, [op |-> "registerVerify", challenge |-> o.challenge, id |-> c])
    /\ UNCHANGED signed

\* The authenticator signs with a listed credential and counts the signature.
Sign(r) ==
  \E o \in offers : \E c \in o.listed :
    /\ o.ceremony = "login"
    /\ signed' = [signed EXCEPT ![c] = IF device[c] \in Counting THEN @ + 1 ELSE 0]
    /\ Send(r, [op |-> "loginVerify", challenge |-> o.challenge, id |-> c,
                counter |-> signed'[c]])
    /\ UNCHANGED device

----------------------------------------------------------------------------
(* The handlers.                                                           *)

At(r, label, op) == pc[r] = label /\ job[r].op = op

Continue(r) ==
  /\ pc' = [pc EXCEPT ![r] = "write"]
  /\ seen' = [seen EXCEPT ![r] = passkeys]
  /\ UNCHANGED <<document, job, reply, browser, raced>>

Answer(r, answer) ==
  /\ pc' = [pc EXCEPT ![r] = "done"]
  /\ seen' = [seen EXCEPT ![r] = {}]
  /\ reply' = [reply EXCEPT ![r] = answer]
  /\ UNCHANGED job

Refuse(r) == Answer(r, "refused") /\ UNCHANGED <<document, browser, raced>>

\* Also the variant of the next one in which the challenge stays.
WriteArray(r, array) ==
  /\ passkeys' = array
  /\ raced' = (raced \/ seen[r] # passkeys)
  /\ UNCHANGED <<challenge, fresh, browser>>

\* One update writes the array computed from the snapshot and ends the ceremony.
WriteAndConsume(r, array) ==
  /\ passkeys' = array
  /\ raced' = (raced \/ seen[r] # passkeys)
  /\ challenge' = None /\ fresh' = FALSE
  /\ UNCHANGED browser

Offered(r, ceremony) ==
  \E c \in Challenges \ {o.challenge : o \in offers} :
    /\ challenge' = c /\ fresh' = TRUE
    /\ offers' = offers \cup
         {[ceremony |-> ceremony, challenge |-> c, listed |-> Ids(seen[r])]}
    /\ Answer(r, "ok")
    /\ UNCHANGED <<passkeys, device, signed, raced>>

RegisterOptionsRead(r) == At(r, "find", "registerOptions") /\ Continue(r)
RegisterOptionsWrite(r) == At(r, "write", "registerOptions") /\ Offered(r, "register")

\* Without a passkey the answer is that none is available.
LoginOptionsRead(r) ==
  /\ At(r, "find", "loginOptions")
  /\ IF passkeys = {} THEN Refuse(r) ELSE Continue(r)
LoginOptionsWrite(r) == At(r, "write", "loginOptions") /\ Offered(r, "login")

\* consumeChallenge, and the library's comparison with the challenge signed.
ChallengeMatches(r) == fresh /\ challenge = job[r].challenge

RegisterVerifyRead(r) ==
  /\ At(r, "find", "registerVerify")
  /\ IF ChallengeMatches(r) THEN Continue(r) ELSE Refuse(r)

\* Variants: the new passkey replaces the others, or its count starts at one.
OnlyNew(r) == {[id |-> job[r].id, counter |-> 0]}
WithNewAtOne(r) == seen[r] \cup {[id |-> job[r].id, counter |-> 1]}
WithNew(r) == seen[r] \cup {[id |-> job[r].id, counter |-> 0]}

RegisterVerifyWrite(r) ==
  /\ At(r, "write", "registerVerify")
  /\ WriteAndConsume(r, WithNew(r))
  /\ Answer(r, "ok")

\* The library refuses a counter that has not grown, unless both are zero.
CounterGrows(r) ==
  \A k \in passkeys :
    k.id = job[r].id => job[r].counter > k.counter \/ (job[r].counter = 0 /\ k.counter = 0)

LoginVerifyRead(r) ==
  /\ At(r, "find", "loginVerify")
  /\ IF ChallengeMatches(r) /\ job[r].id \in Ids(passkeys) /\ CounterGrows(r)
     THEN Continue(r)
     ELSE Refuse(r)

WithCounter(r) ==
  {IF k.id = job[r].id THEN [k EXCEPT !.counter = job[r].counter] ELSE k : k \in seen[r]}

LoginVerifyWrite(r) ==
  /\ At(r, "write", "loginVerify")
  /\ WriteAndConsume(r, WithCounter(r))
  /\ Answer(r, "session")

RemoveRead(r) ==
  /\ At(r, "find", "remove")
  /\ IF job[r].id \in Ids(passkeys) THEN Continue(r) ELSE Refuse(r)

Without(r) == {k \in seen[r] : k.id # job[r].id}

RemoveWrite(r) ==
  /\ At(r, "write", "remove")
  /\ WriteArray(r, Without(r))
  /\ Answer(r, "ok")

ChallengeExpires ==
  /\ fresh
  /\ fresh' = FALSE
  /\ UNCHANGED <<passkeys, challenge, handler, browser, raced>>

Handler(r) ==
  \/ RegisterOptionsRead(r) \/ RegisterOptionsWrite(r)
  \/ LoginOptionsRead(r) \/ LoginOptionsWrite(r)
  \/ RegisterVerifyRead(r) \/ RegisterVerifyWrite(r)
  \/ LoginVerifyRead(r) \/ LoginVerifyWrite(r)
  \/ RemoveRead(r) \/ RemoveWrite(r)

Next ==
  \/ \E r \in Requests : Ask(r) \/ AskRemoval(r) \/ Attest(r) \/ Sign(r) \/ Handler(r)
  \/ ChallengeExpires

Spec == Init /\ [][Next]_vars
----------------------------------------------------------------------------
\* Variables have their types; a handler past its find acts for a credential that
\* was made, and no stored counter is ahead of its authenticator's.
PasskeysTypeOK ==
  /\ passkeys \subseteq Passkey
  /\ \A k, l \in passkeys : k.id = l.id => k = l
  /\ \A k \in passkeys : device[k.id] # None /\ k.counter <= signed[k.id]
  /\ challenge \in Challenges \cup {None} /\ fresh \in BOOLEAN
  /\ fresh => \E o \in offers : o.challenge = challenge
  /\ pc \in [Requests -> {"idle", "find", "write", "done"}]
  /\ seen \in [Requests -> SUBSET Passkey]
  /\ reply \in [Requests -> {"none", "ok", "session", "refused"}]
  /\ offers \subseteq Offer
  /\ device \in [Credentials -> Devices \cup {None}]
  /\ signed \in [Credentials -> Nat] /\ raced \in BOOLEAN

Named(op) == {job[r].id : r \in {q \in Requests : pc[q] = "done" /\ reply[q] = "ok" /\ job[q].op = op}}

\* Unless two writes of the array overlap, the passkeys stored are those that
\* were reported added and were not reported removed.
ReportedIsStored ==
  ~raced => Ids(passkeys) = (Before \cup Named("registerVerify")) \ Named("remove")

\* However ceremonies, removals and late answers overlap, the user's own
\* authenticator is never taken for a clone: an assertion that reaches the
\* counter check passes it (user.model.ts:8, webauthn.service.ts:161-162).
NeverTakenForClone ==
  \A r \in Requests :
    At(r, "find", "loginVerify") /\ ChallengeMatches(r) => CounterGrows(r)
=============================================================================
