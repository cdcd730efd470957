--------------------------- MODULE PasskeysProofs ---------------------------
(***************************************************************************)
(* Proofs about Passkeys for any number of requests, credentials and       *)
(* authenticators. Every handler writes an array that it computed from a   *)
(* snapshot, so what is true of the array stored is shown of every array   *)
(* that a handler still holds as well.                                     *)
(***************************************************************************)
EXTENDS Passkeys, TLAPS

Labels == {"idle", "find", "write", "done"}
Replies == {"none", "ok", "session", "refused"}

Body ==
  [op : {"registerOptions", "loginOptions"}]
    \cup [op : {"remove"}, id : Credentials]
    \cup [op : {"registerVerify"}, challenge : Challenges, id : Credentials]
    \cup [op : {"loginVerify"}, challenge : Challenges, id : Credentials, counter : Nat]

\* The array stored and those that handlers hold.
Arrays == {passkeys} \cup {seen[r] : r \in Requests}

Typed ==
  /\ passkeys \in SUBSET Passkey
  /\ challenge \in Challenges \cup {None} /\ fresh \in BOOLEAN
  /\ pc \in [Requests -> Labels]
  /\ job \in [Requests -> Body \cup {None}]
  /\ seen \in [Requests -> SUBSET Passkey]
  /\ reply \in [Requests -> Replies]
  /\ \A r \in Requests : pc[r] # "idle" => job[r] \in Body
  /\ offers \in SUBSET Offer
  /\ device \in [Credentials -> Devices \cup {None}]
  /\ signed \in [Credentials -> Nat] /\ raced \in BOOLEAN

\* The handler of r carries a body of this kind.
Carries(r, op) == pc[r] # "idle" /\ job[r].op = op

Registering(r) == pc[r] \in {"find", "write"} /\ job[r].op = "registerVerify"

\* What is true of an array: one passkey for an id, made by an authenticator that
\* has signed at least as often, and none of a registration under way.
Sound(array) ==
  /\ \A k, l \in array : k.id = l.id => k = l
  /\ \A k \in array : device[k.id] # None /\ k.counter <= signed[k.id]
  /\ \A k \in array, r \in Requests : Registering(r) => k.id # job[r].id

\* What the user's authenticators and browser have done.
MadeInv ==
  /\ \A o \in offers : \A c \in o.listed : device[c] # None
  /\ \A c \in Credentials : device[c] \notin Counting => signed[c] = 0
  /\ fresh => challenge # None
  /\ challenge # None => \E o \in offers : o.challenge = challenge
  /\ \A r \in Requests :
       /\ Carries(r, "registerVerify") \/ Carries(r, "remove") => device[job[r].id] # None
       /\ Carries(r, "loginVerify") =>
            /\ job[r].counter <= signed[job[r].id]
            /\ \E o \in offers : o.challenge = job[r].challenge
  /\ \A q, r \in Requests :
       Carries(q, "registerVerify") /\ Carries(r, "registerVerify") /\ job[q].id = job[r].id
         => q = r
  /\ \A b \in Before : device[b] # None
  /\ \A b \in Before, r \in Requests : Carries(r, "registerVerify") => job[r].id # b

ArraysInv == \A array \in Arrays : Sound(array)

\* The counter of q's assertion has grown beyond this passkey's.
Grown(q, k) == job[q].counter > k.counter \/ (job[q].counter = 0 /\ k.counter = 0)

\* An assertion that can still be accepted is ahead of every array around.
CloneInv ==
  \A array \in Arrays : \A k \in array, q \in Requests :
    At(q, "find", "loginVerify") /\ challenge = job[q].challenge /\ k.id = job[q].id
      => Grown(q, k)

\* What was reported.
StoredInv ==
  /\ \A r \in Requests : At(r, "write", "remove") => job[r].id \in Ids(seen[r])
  /\ \A r \in Requests : Registering(r) => job[r].id \notin Named("remove")
  /\ ReportedIsStored

PasskeysInv == Typed /\ MadeInv /\ ArraysInv /\ CloneInv /\ StoredInv

Sends(r) == Ask(r) \/ AskRemoval(r) \/ Attest(r) \/ Sign(r)

Goes(r) ==
  /\ pc[r] = "find" /\ Continue(r)
  /\ job[r].op = "remove" => job[r].id \in Ids(passkeys)

Turned(r) == pc[r] = "find" /\ Refuse(r)

Offers(r) == RegisterOptionsWrite(r) \/ LoginOptionsWrite(r)

Writes(r) == RegisterVerifyWrite(r) \/ LoginVerifyWrite(r) \/ RemoveWrite(r)

----------------------------------------------------------------------------
(* The shapes of the steps.                                                *)

LEMMA Shapes ==
  ASSUME NEW r \in Requests, Handler(r)
  PROVE  Goes(r) \/ Turned(r) \/ Offers(r) \/ Writes(r)
BY DEF Handler, Goes, Turned, Offers, Writes, At, RegisterOptionsRead, LoginOptionsRead,
       RegisterVerifyRead, LoginVerifyRead, RemoveRead

LEMMA BodyFields ==
  ASSUME NEW b \in Body
  PROVE  /\ b.op \in {"remove", "registerVerify", "loginVerify"} => b.id \in Credentials
         /\ b.op \in {"registerVerify", "loginVerify"} => b.challenge \in Challenges
         /\ b.op = "loginVerify" => b.counter \in Nat
BY DEF Body

\* What is neither r's nor done by the step is as it was.
Still(q) == pc'[q] = pc[q] /\ job'[q] = job[q] /\ seen'[q] = seen[q] /\ reply'[q] = reply[q]

\* A request arrives with a body.
LEMMA SendFrame ==
  ASSUME Typed, NEW r \in Requests, NEW body \in Body, Send(r, body)
  PROVE  /\ pc[r] = "idle" /\ pc'[r] = "find" /\ job'[r] = body
         /\ \A q \in Requests \ {r} : Still(q)
         /\ UNCHANGED <<document, seen, reply, offers, raced>>
         /\ pc' \in [Requests -> Labels] /\ job' \in [Requests -> Body \cup {None}]
         /\ \A op : Named(op)' = Named(op)
<1>1. /\ pc[r] = "idle" /\ pc'[r] = "find" /\ job'[r] = body
      /\ \A q \in Requests \ {r} : Still(q)
      /\ UNCHANGED <<document, seen, reply, offers, raced>>
      /\ pc' \in [Requests -> Labels] /\ job' \in [Requests -> Body \cup {None}]
  BY DEF Send, Typed, Labels, Still
<1>2. \A op : Named(op)' = Named(op) BY <1>1 DEF Named, Still
<1> QED BY <1>1, <1>2

----------------------------------------------------------------------------
(* Initially.                                                              *)

LEMMA InitInv == Init => PasskeysInv
<1> SUFFICES ASSUME Init PROVE PasskeysInv OBVIOUS
<1> USE PasskeysAssumption
<1>1. Typed
  <2>1. passkeys \in SUBSET Passkey BY DEF Init, Passkey
  <2>2. device \in [Credentials -> Devices \cup {None}] BY DEF Init
  <2> QED BY <2>1, <2>2 DEF Init, Typed, Labels, Replies
<1>2. \A r \in Requests : pc[r] = "idle" BY DEF Init
<1>3. MadeInv BY <1>2 DEF Init, MadeInv, Carries
<1>4. ArraysInv
  <2>1. Sound(passkeys) BY <1>2 DEF Init, Sound, Registering
  <2>2. \A r \in Requests : Sound(seen[r]) BY DEF Init, Sound
  <2> QED BY <2>1, <2>2 DEF ArraysInv, Arrays
<1>5. CloneInv BY <1>2 DEF CloneInv, At
<1>6. StoredInv
  <2>1. Ids(passkeys) = Before
    <3>1. \A k \in passkeys : k.id \in Before BY DEF Init
    <3>2. \A b \in Before : [id |-> b, counter |-> 0] \in passkeys BY DEF Init
    <3>3. \A b \in Before : \E k \in passkeys : k.id = b BY <3>2
    <3> QED BY <3>1, <3>3 DEF Ids
  <2>2. \A op : Named(op) = {} BY <1>2 DEF Named
  <2> QED BY <1>2, <2>1, <2>2 DEF StoredInv, At, Registering, ReportedIsStored
<1> QED BY <1>1, <1>3, <1>4, <1>5, <1>6 DEF PasskeysInv

----------------------------------------------------------------------------
(* Requests arrive.                                                        *)

\* What a request that names no new credential and no signature leaves true.
LEMMA PlainSend ==
  ASSUME PasskeysInv, NEW r \in Requests, Ask(r) \/ AskRemoval(r)
  PROVE  PasskeysInv'
<1> USE DEF PasskeysInv
<1>1. PICK body \in Body :
        /\ Send(r, body)
        /\ body.op \in {"registerOptions", "loginOptions", "remove"}
        /\ body.op = "remove" => device[body.id] # None
  <2>1. CASE Ask(r)
    <3>1. PICK op \in {"registerOptions", "loginOptions"} : Send(r, [op |-> op])
      BY <2>1 DEF Ask
    <3>2. [op |-> op] \in Body BY DEF Body
    <3> QED BY <3>1, <3>2
  <2>2. CASE AskRemoval(r)
    <3>1. PICK c \in Credentials : device[c] # None /\ Send(r, [op |-> "remove", id |-> c])
      BY <2>2 DEF AskRemoval
    <3>2. [op |-> "remove", id |-> c] \in Body BY DEF Body
    <3> QED BY <3>1, <3>2
  <2> QED BY <2>1, <2>2
<1>2. /\ pc[r] = "idle" /\ pc'[r] = "find" /\ job'[r] = body
      /\ \A q \in Requests \ {r} : Still(q)
      /\ UNCHANGED <<document, seen, reply, offers, raced, device, signed>>
      /\ pc' \in [Requests -> Labels] /\ job' \in [Requests -> Body \cup {None}]
      /\ \A op : Named(op)' = Named(op)
  BY <1>1, SendFrame DEF Ask, AskRemoval
<1>3. Typed' BY <1>2 DEF Typed, document, Still
<1>4. MadeInv' BY <1>1, <1>2 DEF MadeInv, document, Still, Carries
<1>5. Arrays' = Arrays BY <1>2 DEF Arrays, document
<1>6. ArraysInv' BY <1>1, <1>2, <1>5 DEF ArraysInv, Sound, Registering, Still
<1>7. CloneInv' BY <1>1, <1>2, <1>5 DEF CloneInv, At, Grown, Still, document
<1>8. StoredInv'
  BY <1>1, <1>2 DEF StoredInv, ReportedIsStored, At, Registering, Still, document, Ids
<1> QED BY <1>3, <1>4, <1>6, <1>7, <1>8

\* A new credential: no array has it.
LEMMA AttestStep ==
  ASSUME PasskeysInv, NEW r \in Requests, Attest(r)
  PROVE  PasskeysInv'
<1> USE PasskeysAssumption DEF PasskeysInv
<1>1. PICK o \in offers, c \in Credentials, d \in Devices :
        /\ device[c] = None /\ device' = [device EXCEPT ![c] = d]
        /\ Send(r, [op |-> "registerVerify", challenge |-> o.challenge, id |-> c])
        /\ UNCHANGED signed
  BY DEF Attest
<1> DEFINE body == [op |-> "registerVerify", challenge |-> o.challenge, id |-> c]
<1>2. o.challenge \in Challenges /\ body \in Body BY DEF Typed, Offer, Body
<1>3. /\ pc[r] = "idle" /\ pc'[r] = "find" /\ job'[r] = body
      /\ \A q \in Requests \ {r} : Still(q)
      /\ UNCHANGED <<document, seen, reply, offers, raced>>
      /\ pc' \in [Requests -> Labels] /\ job' \in [Requests -> Body \cup {None}]
      /\ \A op : Named(op)' = Named(op)
  BY <1>1, <1>2, SendFrame
<1>4. /\ device'[c] = d /\ d # None
      /\ \A e \in Credentials : e # c => device'[e] = device[e]
      /\ device' \in [Credentials -> Devices \cup {None}]
  BY <1>1 DEF Typed
<1>5. Typed' BY <1>1, <1>2, <1>3, <1>4 DEF Typed, document, Still
<1>6. \A q \in Requests : Carries(q, "registerVerify") => job[q].id # c
  BY <1>1 DEF MadeInv
<1>7. MadeInv'
  <2>1. \A p \in offers : \A e \in p.listed : e \in Credentials /\ device'[e] # None
    BY <1>4 DEF MadeInv, Typed, Offer
  <2>2. \A e \in Credentials : device'[e] \notin Counting => signed'[e] = 0
    BY <1>1, <1>4 DEF MadeInv
  <2>3. \A q \in Requests :
          (Carries(q, "registerVerify") \/ Carries(q, "remove"))' => device'[job'[q].id] # None
    BY <1>3, <1>4, BodyFields DEF MadeInv, Carries, Still, Typed
  <2>4. \A q \in Requests : Carries(q, "loginVerify")' =>
          /\ job'[q].counter <= signed'[job'[q].id]
          /\ \E p \in offers' : p.challenge = job'[q].challenge
    BY <1>1, <1>3 DEF MadeInv, Carries, Still
  <2>5. \A q, s \in Requests :
          Carries(q, "registerVerify")' /\ Carries(s, "registerVerify")'
            /\ job'[q].id = job'[s].id => q = s
    BY <1>3, <1>6 DEF MadeInv, Carries, Still
  <2>6. \A b \in Before :
          /\ device'[b] # None
          /\ \A q \in Requests : Carries(q, "registerVerify")' => job'[q].id # b
    BY <1>1, <1>3, <1>4 DEF MadeInv, Carries, Still
  <2>7. challenge' # None => \E p \in offers' : p.challenge = challenge'
    BY <1>3 DEF MadeInv, document
  <2> QED BY <1>3, <2>1, <2>2, <2>3, <2>4, <2>5, <2>6, <2>7 DEF MadeInv, document
<1>8. Arrays' = Arrays /\ \A array \in Arrays : array \in SUBSET Passkey
  BY <1>3 DEF Arrays, document, Typed
<1>9. ArraysInv'
  <2> SUFFICES ASSUME NEW array \in Arrays PROVE Sound(array)'
    BY <1>8 DEF ArraysInv
  <2>1. Sound(array) /\ \A k \in array : k.id \in Credentials /\ k.id # c
    BY <1>1, <1>8 DEF ArraysInv, Sound, Passkey
  <2> QED BY <1>1, <1>3, <1>4, <2>1 DEF Sound, Registering, Still
<1>10. CloneInv' BY <1>3, <1>8 DEF CloneInv, At, Grown, Still, document
<1>11. StoredInv'
  <2>1. c \notin Named("remove")
    BY <1>1 DEF Named, MadeInv, Carries
  <2> QED BY <1>3, <2>1
     DEF StoredInv, ReportedIsStored, At, Registering, Still, document, Ids
<1> QED BY <1>5, <1>7, <1>9, <1>10, <1>11

\* A signature: its counter is ahead of every array, or both are zero.
LEMMA SignStep ==
  ASSUME PasskeysInv, NEW r \in Requests, Sign(r)
  PROVE  PasskeysInv'
<1> USE PasskeysAssumption DEF PasskeysInv
<1>1. PICK o \in offers : \E c \in o.listed :
        /\ signed' = [signed EXCEPT ![c] = IF device[c] \in Counting THEN @ + 1 ELSE 0]
        /\ Send(r, [op |-> "loginVerify", challenge |-> o.challenge, id |-> c,
                    counter |-> signed'[c]])
        /\ UNCHANGED device
  BY DEF Sign
<1>2. PICK c \in o.listed :
        /\ signed' = [signed EXCEPT ![c] = IF device[c] \in Counting THEN @ + 1 ELSE 0]
        /\ Send(r, [op |-> "loginVerify", challenge |-> o.challenge, id |-> c,
                    counter |-> signed'[c]])
        /\ UNCHANGED device
  BY <1>1
<1> DEFINE body == [op |-> "loginVerify", challenge |-> o.challenge, id |-> c,
                    counter |-> signed'[c]]
<1>3. c \in Credentials /\ o.challenge \in Challenges BY DEF Typed, Offer
<1>4. /\ signed' \in [Credentials -> Nat]
      /\ signed'[c] = IF device[c] \in Counting THEN signed[c] + 1 ELSE 0
      /\ \A e \in Credentials : e # c => signed'[e] = signed[e]
  BY <1>2, <1>3 DEF Typed
<1>5. body \in Body BY <1>3, <1>4 DEF Body
<1>6. /\ pc[r] = "idle" /\ pc'[r] = "find" /\ job'[r] = body
      /\ \A q \in Requests \ {r} : Still(q)
      /\ UNCHANGED <<document, seen, reply, offers, raced>>
      /\ pc' \in [Requests -> Labels] /\ job' \in [Requests -> Body \cup {None}]
      /\ \A op : Named(op)' = Named(op)
  BY <1>2, <1>5, SendFrame
<1>7. \A e \in Credentials :
        signed[e] \in Nat /\ signed'[e] \in Nat /\ signed[e] <= signed'[e]
  BY <1>3, <1>4 DEF MadeInv, Typed
<1>8. Typed' BY <1>2, <1>4, <1>5, <1>6 DEF Typed, document, Still
<1>9. MadeInv'
  <2>1. \A e \in Credentials : device'[e] \notin Counting => signed'[e] = 0
    BY <1>2, <1>4 DEF MadeInv
  <2>2. \A q \in Requests : Carries(q, "loginVerify")' =>
          /\ job'[q].counter <= signed'[job'[q].id]
          /\ \E p \in offers' : p.challenge = job'[q].challenge
    <3> SUFFICES ASSUME NEW q \in Requests, Carries(q, "loginVerify")'
                 PROVE  /\ job'[q].counter <= signed'[job'[q].id]
                        /\ \E p \in offers : p.challenge = job'[q].challenge
      BY <1>6
    <3>1. CASE q = r BY <1>3, <1>4, <1>6, <3>1
    <3>2. CASE q # r
      <4>1. /\ Carries(q, "loginVerify") /\ job'[q] = job[q]
            /\ job[q].id \in Credentials /\ job[q].counter \in Nat
        BY <1>6, <3>2, BodyFields DEF Carries, Still, Typed
      <4> QED BY <1>7, <4>1 DEF MadeInv
    <3> QED BY <3>1, <3>2
  <2> QED BY <1>2, <1>6, <2>1, <2>2 DEF MadeInv, Carries, Still, document
<1>10. Arrays' = Arrays /\ \A array \in Arrays : array \in SUBSET Passkey
  BY <1>6 DEF Arrays, document, Typed
<1>11. ArraysInv'
  <2> SUFFICES ASSUME NEW array \in Arrays PROVE Sound(array)'
    BY <1>10 DEF ArraysInv
  <2>1. Sound(array) /\ \A k \in array : k.id \in Credentials /\ k.counter \in Nat
    BY <1>10 DEF ArraysInv, Passkey
  <2>2. \A k \in array : k.counter <= signed'[k.id] BY <1>7, <2>1 DEF Sound
  <2> QED BY <1>2, <1>6, <2>1, <2>2 DEF Sound, Registering, Still
<1>12. CloneInv'
  <2> SUFFICES ASSUME NEW array \in Arrays, NEW k \in array, NEW q \in Requests,
                      At(q, "find", "loginVerify")', challenge = job'[q].challenge,
                      k.id = job'[q].id
               PROVE  Grown(q, k)'
    BY <1>6, <1>10 DEF CloneInv, document
  <2>1. k.counter \in Nat /\ k.counter <= signed[k.id]
    BY <1>10 DEF ArraysInv, Sound, Passkey
  <2>2. CASE q # r BY <1>6, <2>2 DEF CloneInv, At, Grown, Still
  <2>3. CASE q = r
    <3>1. k.id = c /\ job'[q].counter = signed'[c] BY <1>6, <2>3
    <3>2. device[c] \notin Counting => signed[c] = 0 BY <1>3 DEF MadeInv
    <3> QED BY <1>3, <1>4, <2>1, <3>1, <3>2 DEF Grown, Typed
  <2> QED BY <2>2, <2>3
<1>13. StoredInv'
  BY <1>6 DEF StoredInv, ReportedIsStored, At, Registering, Still, document, Ids
<1> QED BY <1>8, <1>9, <1>11, <1>12, <1>13

----------------------------------------------------------------------------
(* The first half of a handler.                                            *)

\* It goes on, with the array as it is.
LEMMA GoesStep ==
  ASSUME PasskeysInv, NEW r \in Requests, Goes(r)
  PROVE  PasskeysInv'
<1> USE DEF PasskeysInv
<1>1. /\ pc[r] = "find" /\ pc'[r] = "write" /\ seen'[r] = passkeys
      /\ \A q \in Requests \ {r} : Still(q)
      /\ UNCHANGED <<document, job, reply, browser, raced>>
      /\ pc' \in [Requests -> Labels] /\ seen' \in [Requests -> SUBSET Passkey]
      /\ job[r].op = "remove" => job[r].id \in Ids(passkeys)
  BY DEF Goes, Continue, Typed, Labels, Still
<1>2. \A op : Named(op)' = Named(op) BY <1>1 DEF Named, Still
<1>3. Arrays' \subseteq Arrays BY <1>1 DEF Arrays, document, Still
<1>4. Typed' BY <1>1 DEF Typed, document, browser, Still
<1>5. MadeInv' BY <1>1 DEF MadeInv, Carries, document, browser, Still
<1>6. ArraysInv' BY <1>1, <1>3 DEF ArraysInv, Sound, Registering, browser, Still
<1>7. CloneInv' BY <1>1, <1>3 DEF CloneInv, At, Grown, document, Still
<1>8. StoredInv'
  BY <1>1, <1>2 DEF StoredInv, ReportedIsStored, At, Registering, document, Still, Ids
<1> QED BY <1>4, <1>5, <1>6, <1>7, <1>8

----------------------------------------------------------------------------
(* A handler answers.                                                      *)

LEMMA AnswerFrame ==
  ASSUME Typed, NEW r \in Requests, NEW a \in Replies, Answer(r, a)
  PROVE  /\ pc'[r] = "done" /\ seen'[r] = {} /\ reply'[r] = a
         /\ \A q \in Requests \ {r} : Still(q)
         /\ job' = job
         /\ pc' \in [Requests -> Labels] /\ seen' \in [Requests -> SUBSET Passkey]
         /\ reply' \in [Requests -> Replies]
         /\ \A op : a = "ok" /\ pc[r] # "done" =>
              Named(op)' = IF job[r].op = op THEN Named(op) \cup {job[r].id} ELSE Named(op)
         /\ \A op : a # "ok" /\ pc[r] # "done" => Named(op)' = Named(op)
         /\ Arrays' \subseteq Arrays \cup {{}, passkeys'}
<1>1. /\ pc'[r] = "done" /\ seen'[r] = {} /\ reply'[r] = a
      /\ \A q \in Requests \ {r} : Still(q)
      /\ job' = job
      /\ pc' \in [Requests -> Labels] /\ seen' \in [Requests -> SUBSET Passkey]
      /\ reply' \in [Requests -> Replies]
  BY DEF Answer, Typed, Labels, Still
<1>2. ASSUME NEW op, a = "ok", pc[r] # "done"
      PROVE  Named(op)' = IF job[r].op = op THEN Named(op) \cup {job[r].id} ELSE Named(op)
  BY <1>1, <1>2 DEF Named, Still
<1>3. ASSUME NEW op, a # "ok", pc[r] # "done" PROVE Named(op)' = Named(op)
  BY <1>1, <1>3 DEF Named, Still
<1>4. Arrays' \subseteq Arrays \cup {{}, passkeys'} BY <1>1 DEF Arrays, Still
<1> QED BY <1>1, <1>2, <1>3, <1>4

\* What ends is no registration under way, and its array is dropped or stored.
LEMMA TurnedStep ==
  ASSUME PasskeysInv, NEW r \in Requests, Turned(r)
  PROVE  PasskeysInv'
<1> USE DEF PasskeysInv
<1>1. /\ pc[r] = "find" /\ pc'[r] = "done" /\ seen'[r] = {}
      /\ \A q \in Requests \ {r} : Still(q)
      /\ job' = job
      /\ pc' \in [Requests -> Labels] /\ seen' \in [Requests -> SUBSET Passkey]
      /\ reply' \in [Requests -> Replies]
      /\ \A op : Named(op)' = Named(op)
      /\ Arrays' \subseteq Arrays \cup {{}, passkeys'}
      /\ UNCHANGED <<document, browser, raced>>
  BY AnswerFrame DEF Turned, Refuse, Replies
<1>2. Arrays' \subseteq Arrays \cup {{}} BY <1>1 DEF Arrays, document
<1>3. Typed' BY <1>1 DEF Typed, document, browser, Still
<1>4. MadeInv' BY <1>1 DEF MadeInv, Carries, document, browser, Still
<1>5. ArraysInv' BY <1>1, <1>2 DEF ArraysInv, Sound, Registering, browser, Still
<1>6. CloneInv' BY <1>1, <1>2 DEF CloneInv, At, Grown, document, Still
<1>7. StoredInv'
  BY <1>1 DEF StoredInv, ReportedIsStored, At, Registering, document, Still, Ids
<1> QED BY <1>3, <1>4, <1>5, <1>6, <1>7

\* Options: no assertion around carries the new challenge.
LEMMA OfferStep ==
  ASSUME PasskeysInv, NEW r \in Requests, Offers(r)
  PROVE  PasskeysInv'
<1> USE DEF PasskeysInv
<1>1. PICK ceremony \in {"register", "login"} : Offered(r, ceremony)
  BY DEF Offers, RegisterOptionsWrite, LoginOptionsWrite
<1>2. PICK c \in Challenges \ {o.challenge : o \in offers} :
        /\ challenge' = c /\ fresh' = TRUE
        /\ offers' = offers \cup
             {[ceremony |-> ceremony, challenge |-> c, listed |-> Ids(seen[r])]}
        /\ Answer(r, "ok")
        /\ UNCHANGED <<passkeys, device, signed, raced>>
  BY <1>1 DEF Offered
<1> DEFINE offer == [ceremony |-> ceremony, challenge |-> c, listed |-> Ids(seen[r])]
<1>3. pc[r] = "write" /\ job[r].op \in {"registerOptions", "loginOptions"}
  BY DEF Offers, RegisterOptionsWrite, LoginOptionsWrite, At
<1>4. /\ pc'[r] = "done" /\ seen'[r] = {}
      /\ \A q \in Requests \ {r} : Still(q)
      /\ job' = job
      /\ pc' \in [Requests -> Labels] /\ seen' \in [Requests -> SUBSET Passkey]
      /\ reply' \in [Requests -> Replies]
      /\ \A op : op \in {"registerVerify", "remove"} => Named(op)' = Named(op)
      /\ Arrays' \subseteq Arrays \cup {{}, passkeys'}
  BY <1>2, <1>3, AnswerFrame DEF Replies
<1>5. Arrays' \subseteq Arrays \cup {{}} BY <1>2, <1>4 DEF Arrays
<1>6. \A k \in seen[r] : k.id \in Credentials /\ device[k.id] # None
  <2>1. Sound(seen[r]) BY DEF ArraysInv, Arrays
  <2>2. \A k \in seen[r] : k \in Passkey BY DEF Typed
  <2> QED BY <2>1, <2>2 DEF Sound, Passkey
<1>7. offer \in Offer /\ \A e \in offer.listed : device[e] # None
  BY <1>6 DEF Offer, Ids
<1>8. offer.challenge = c /\ offers' = offers \cup {offer} BY <1>2
<1> HIDE DEF offer
<1>9. Typed'
  <2>1. offers' \in SUBSET Offer BY <1>7, <1>8 DEF Typed
  <2> QED BY <1>2, <1>3, <1>4, <2>1 DEF Typed, Still
<1>10. MadeInv'
  <2>1. \A o \in offers' : \A e \in o.listed : device[e] # None
    BY <1>7, <1>8 DEF MadeInv
  <2>2. \E o \in offers' : o.challenge = challenge' BY <1>2, <1>8
  <2>3. offers \subseteq offers' BY <1>8
  <2>4. \A q \in Requests : \A op : Carries(q, op)' => Carries(q, op) /\ job'[q] = job[q]
    BY <1>3, <1>4 DEF Carries, Still
  <2> QED BY <1>2, <2>1, <2>2, <2>3, <2>4, PasskeysAssumption DEF MadeInv
<1>11. ArraysInv' BY <1>2, <1>4, <1>5 DEF ArraysInv, Sound, Registering, Still
<1>12. CloneInv'
  <2> SUFFICES ASSUME NEW q \in Requests, At(q, "find", "loginVerify")', c = job'[q].challenge
               PROVE  FALSE
    BY <1>2 DEF CloneInv
  <2>1. Carries(q, "loginVerify") /\ job'[q] = job[q]
    BY <1>4 DEF At, Carries, Still
  <2> QED BY <1>2, <2>1 DEF MadeInv
<1>13. StoredInv'
  BY <1>2, <1>3, <1>4 DEF StoredInv, ReportedIsStored, At, Registering, Still, Ids
<1> QED BY <1>9, <1>10, <1>11, <1>12, <1>13

----------------------------------------------------------------------------
(* A handler writes its array.                                             *)

\* What it comes down to: the array written is sound, none that an acceptable
\* assertion is behind, and has the credentials reported.
LEMMA ArrayWritten ==
  ASSUME PasskeysInv, NEW r \in Requests, Writes(r),
         NEW array \in SUBSET Passkey, passkeys' = array, Sound(array)',
         challenge' # None => array \subseteq seen[r],
         \A q \in Requests \ {r} : Registering(q) => job[q].id \notin Named("remove")',
         (ReportedIsStored)'
  PROVE  PasskeysInv'
<1> USE DEF PasskeysInv
<1>1. /\ pc[r] = "write" /\ UNCHANGED browser
      /\ \E a \in {"ok", "session"} : Answer(r, a)
      /\ \/ challenge' = challenge /\ fresh' = fresh
         \/ challenge' = None /\ fresh' = FALSE
      /\ raced' \in BOOLEAN
  BY DEF Writes, RegisterVerifyWrite, LoginVerifyWrite, RemoveWrite, At, WriteAndConsume,
         WriteArray, Typed
<1>2. /\ pc'[r] = "done" /\ seen'[r] = {}
      /\ \A q \in Requests \ {r} : Still(q)
      /\ job' = job
      /\ pc' \in [Requests -> Labels] /\ seen' \in [Requests -> SUBSET Passkey]
      /\ reply' \in [Requests -> Replies]
      /\ Arrays' \subseteq Arrays \cup {{}, passkeys'}
  BY <1>1, AnswerFrame DEF Replies
<1>3. Typed' BY <1>1, <1>2 DEF Typed, browser, Still
<1>4. MadeInv' BY <1>1, <1>2 DEF MadeInv, Carries, browser, Still
<1>5. ArraysInv'
  <2> SUFFICES ASSUME NEW other \in Arrays' PROVE Sound(other)' BY DEF ArraysInv
  <2>1. CASE other \in Arrays
    <3>1. Sound(other) BY <2>1 DEF ArraysInv
    <3> QED BY <1>1, <1>2, <3>1 DEF Sound, Registering, browser, Still
  <2>2. CASE other = {} BY <2>2 DEF Sound
  <2>3. CASE other = array BY <2>3
  <2> QED BY <1>2, <2>1, <2>2, <2>3
<1>6. CloneInv'
  <2> SUFFICES ASSUME NEW other \in Arrays', NEW k \in other, NEW q \in Requests,
                      At(q, "find", "loginVerify")', challenge' = job'[q].challenge,
                      k.id = job'[q].id
               PROVE  Grown(q, k)'
    BY DEF CloneInv
  <2>1. q # r /\ job'[q] = job[q] /\ At(q, "find", "loginVerify")
    BY <1>2 DEF At, Still
  <2>2. job[q].challenge # None
    BY <2>1, BodyFields, PasskeysAssumption DEF At, Typed
  <2>3. challenge' = challenge /\ array \subseteq seen[r] BY <1>1, <2>1, <2>2
  <2>4. \E held \in Arrays : k \in held BY <1>2, <2>3 DEF Arrays
  <2> QED BY <2>1, <2>3, <2>4 DEF CloneInv, Grown
<1>7. StoredInv' BY <1>2 DEF StoredInv, At, Registering, Still
<1> QED BY <1>3, <1>4, <1>5, <1>6, <1>7

LEMMA RegisterStep ==
  ASSUME PasskeysInv, NEW r \in Requests, RegisterVerifyWrite(r)
  PROVE  PasskeysInv'
<1> USE DEF PasskeysInv
<1> DEFINE id == job[r].id
           new == [id |-> id, counter |-> 0]
<1>1. /\ pc[r] = "write" /\ job[r].op = "registerVerify" /\ Writes(r) /\ Registering(r)
      /\ id \in Credentials /\ device[id] # None
  BY BodyFields DEF RegisterVerifyWrite, At, Writes, Registering, Typed, MadeInv, Carries
<1>2. new \in Passkey /\ seen[r] \in SUBSET Passkey BY <1>1 DEF Typed, Passkey
<1>3. PICK array \in SUBSET Passkey : array = seen[r] \cup {new} BY <1>2
<1>4. /\ passkeys' = array /\ challenge' = None
      /\ raced' = (raced \/ seen[r] # passkeys)
      /\ UNCHANGED browser /\ Answer(r, "ok")
  BY <1>3 DEF RegisterVerifyWrite, WithNew, WriteAndConsume
<1>5. /\ pc'[r] = "done" /\ job' = job
      /\ \A q \in Requests \ {r} : Still(q)
      /\ Named("registerVerify")' = Named("registerVerify") \cup {id}
      /\ Named("remove")' = Named("remove")
  BY <1>1, <1>4, AnswerFrame DEF Replies
<1>6. Sound(seen[r]) BY DEF ArraysInv, Arrays
<1>7. Sound(array)'
  <2>1. \A k \in seen[r] : k.id # id BY <1>1, <1>6 DEF Sound
  <2>2. \A k, l \in array : k.id = l.id => k = l BY <1>3, <1>6, <2>1 DEF Sound
  <2>3. \A k \in array : device'[k.id] # None /\ k.counter <= signed'[k.id]
    BY <1>3, <1>1, <1>4, <1>6 DEF Sound, browser, Typed
  <2>4. \A q \in Requests : Registering(q)' => q # r /\ Registering(q) /\ job'[q] = job[q]
    BY <1>5 DEF Registering, Still
  <2>5. \A q \in Requests \ {r} : Registering(q) => job[q].id # id
    BY <1>1 DEF MadeInv, Registering, Carries
  <2>6. \A k \in array, q \in Requests : Registering(q)' => k.id # job'[q].id
    BY <1>3, <1>6, <2>4, <2>5 DEF Sound
  <2> QED BY <2>2, <2>3, <2>6 DEF Sound
<1>8. (ReportedIsStored)'
  <2> SUFFICES ASSUME ~raced, seen[r] = passkeys
               PROVE  Ids(array) = (Before \cup Named("registerVerify")') \ Named("remove")'
    BY <1>4 DEF ReportedIsStored, Ids
  <2>1. new \in array /\ new.id = id /\ \A k \in array : k \in passkeys \/ k = new BY <1>3
  <2>2. \A k \in passkeys : k \in array BY <1>3
  <2> HIDE DEF new
  <2>3. Ids(array) = Ids(passkeys) \cup {id}
    <3>1. \A k \in array : k.id \in Ids(passkeys) \cup {id} BY <2>1 DEF Ids
    <3>2. \A k \in passkeys : \E l \in array : l.id = k.id BY <2>2
    <3>3. \E l \in array : l.id = id BY <2>1
    <3> QED BY <3>1, <3>2, <3>3 DEF Ids
  <2>4. id \notin Named("remove") BY <1>1 DEF StoredInv
  <2> QED BY <1>5, <2>3, <2>4 DEF StoredInv, ReportedIsStored
<1>9. \A q \in Requests \ {r} : Registering(q) => job[q].id \notin Named("remove")'
  BY <1>5 DEF StoredInv
<1> QED BY <1>1, <1>4, <1>7, <1>8, <1>9, ArrayWritten

LEMMA LoginStep ==
  ASSUME PasskeysInv, NEW r \in Requests, LoginVerifyWrite(r)
  PROVE  PasskeysInv'
<1> USE DEF PasskeysInv
<1> DEFINE counted(k) == IF k.id = job[r].id THEN [k EXCEPT !.counter = job[r].counter] ELSE k
<1>1. /\ pc[r] = "write" /\ job[r].op = "loginVerify" /\ Writes(r)
      /\ job[r].id \in Credentials /\ job[r].counter \in Nat
      /\ job[r].counter <= signed[job[r].id]
  BY BodyFields DEF LoginVerifyWrite, At, Writes, Typed, MadeInv, Carries
<1>2. Sound(seen[r]) /\ \A k \in seen[r] : k \in Passkey BY DEF ArraysInv, Arrays, Typed
<1>3. ASSUME NEW k \in seen[r]
      PROVE  /\ counted(k) \in Passkey /\ counted(k).id = k.id
             /\ counted(k).counter <= signed[k.id]
  BY <1>1, <1>2 DEF Sound, Passkey
<1>4. PICK array \in SUBSET Passkey : array = {counted(k) : k \in seen[r]} BY <1>3
<1>5. /\ passkeys' = array /\ challenge' = None
      /\ raced' = (raced \/ seen[r] # passkeys)
      /\ UNCHANGED browser /\ Answer(r, "session")
  BY <1>4 DEF LoginVerifyWrite, WithCounter, WriteAndConsume
<1>6. /\ pc'[r] = "done" /\ job' = job
      /\ \A q \in Requests \ {r} : Still(q)
      /\ \A op : Named(op)' = Named(op)
  BY <1>1, <1>5, AnswerFrame DEF Replies
<1>7. Ids(array) = Ids(seen[r])
  <2>1. \A k \in array : \E l \in seen[r] : k.id = l.id BY <1>3, <1>4
  <2>2. \A l \in seen[r] : \E k \in array : k.id = l.id BY <1>3, <1>4
  <2> QED BY <2>1, <2>2 DEF Ids
<1>8. \A k \in array : \E l \in seen[r] : k = counted(l) BY <1>4
<1> HIDE DEF counted
<1>9. Sound(array)'
  <2>1. \A k, l \in array : k.id = l.id => k = l BY <1>2, <1>3, <1>8 DEF Sound
  <2>2. \A k \in array : device'[k.id] # None /\ k.counter <= signed'[k.id]
    BY <1>2, <1>3, <1>5, <1>8 DEF Sound, browser
  <2>3. \A q \in Requests : Registering(q)' => Registering(q) /\ job'[q] = job[q]
    BY <1>6 DEF Registering, Still
  <2>4. \A k \in array, q \in Requests : Registering(q)' => k.id # job'[q].id
    BY <1>2, <1>3, <1>8, <2>3 DEF Sound
  <2> QED BY <2>1, <2>2, <2>4 DEF Sound
<1>10. (ReportedIsStored)'
  BY <1>5, <1>6, <1>7 DEF StoredInv, ReportedIsStored, Ids
<1>11. \A q \in Requests \ {r} : Registering(q) => job[q].id \notin Named("remove")'
  BY <1>6 DEF StoredInv
<1> QED BY <1>1, <1>5, <1>9, <1>10, <1>11, ArrayWritten

LEMMA RemoveStep ==
  ASSUME PasskeysInv, NEW r \in Requests, RemoveWrite(r)
  PROVE  PasskeysInv'
<1> USE DEF PasskeysInv
<1> DEFINE id == job[r].id
<1>1. /\ pc[r] = "write" /\ job[r].op = "remove" /\ Writes(r) /\ id \in Ids(seen[r])
  BY DEF RemoveWrite, At, Writes, StoredInv
<1>2. Sound(seen[r]) /\ seen[r] \in SUBSET Passkey BY DEF ArraysInv, Arrays, Typed
<1>3. PICK array \in SUBSET Passkey : array = {k \in seen[r] : k.id # id} BY <1>2
<1>4. /\ passkeys' = array
      /\ raced' = (raced \/ seen[r] # passkeys)
      /\ UNCHANGED browser /\ Answer(r, "ok")
  BY <1>3 DEF RemoveWrite, Without, WriteArray
<1>5. /\ pc'[r] = "done" /\ job' = job
      /\ \A q \in Requests \ {r} : Still(q)
      /\ Named("registerVerify")' = Named("registerVerify")
      /\ Named("remove")' = Named("remove") \cup {id}
  BY <1>1, <1>4, AnswerFrame DEF Replies
<1>6. Sound(array)' BY <1>2, <1>3, <1>4, <1>5 DEF Sound, Registering, Still, browser
<1>7. (ReportedIsStored)'
  <2> SUFFICES ASSUME ~raced, seen[r] = passkeys
               PROVE  Ids(array) = (Before \cup Named("registerVerify")') \ Named("remove")'
    BY <1>4 DEF ReportedIsStored, Ids
  <2>1. Ids(array) = Ids(passkeys) \ {id} BY <1>3 DEF Ids
  <2> QED BY <1>5, <2>1 DEF StoredInv, ReportedIsStored
<1>8. \A q \in Requests \ {r} : Registering(q) => job[q].id \notin Named("remove")'
  BY <1>1, <1>2, <1>5 DEF StoredInv, Sound, Ids
<1> QED BY <1>1, <1>3, <1>4, <1>6, <1>7, <1>8, ArrayWritten

----------------------------------------------------------------------------
(* The theorems.                                                           *)

\* The array stored and every array that a handler is about to write back
\* (webauthn.service.ts:103, 164, 184) have one passkey for an id, never ahead of its
\* authenticator.
THEOREM PasskeysInductive == Spec => []PasskeysInv
<1>1. PasskeysInv /\ [Next]_vars => PasskeysInv'
  <2> SUFFICES ASSUME PasskeysInv, [Next]_vars PROVE PasskeysInv' OBVIOUS
  <2>1. ASSUME NEW r \in Requests, Ask(r) \/ AskRemoval(r) \/ Attest(r) \/ Sign(r)
        PROVE  PasskeysInv'
    BY <2>1, PlainSend, AttestStep, SignStep
  <2>2. ASSUME NEW r \in Requests, Handler(r) PROVE PasskeysInv'
    BY <2>2, Shapes, GoesStep, TurnedStep, OfferStep, RegisterStep, LoginStep, RemoveStep
       DEF Writes
  <2>3. CASE ChallengeExpires \/ UNCHANGED vars
    <3>0. UNCHANGED <<passkeys, challenge, handler, browser, raced>>
      BY <2>3 DEF ChallengeExpires, vars, document
    <3>1. /\ UNCHANGED <<passkeys, challenge, handler, browser, raced>>
          /\ fresh' \in BOOLEAN /\ (fresh' => fresh)
      <4>1. CASE ChallengeExpires BY <3>0, <4>1 DEF ChallengeExpires
      <4>2. CASE UNCHANGED vars
        BY <3>0, <4>2 DEF vars, document, PasskeysInv, Typed
      <4> QED BY <2>3, <4>1, <4>2
    <3>2. (Typed /\ MadeInv)'
      BY <3>1 DEF PasskeysInv, Typed, MadeInv, Carries, handler, browser
    <3>3. Arrays' = Arrays BY <3>1 DEF Arrays, handler
    <3>4. (ArraysInv /\ CloneInv)'
      BY <3>1, <3>3 DEF PasskeysInv, ArraysInv, CloneInv, Sound, Registering, At, Grown,
                        handler, browser
    <3>5. Named("registerVerify")' = Named("registerVerify") /\ Named("remove")' = Named("remove")
      BY <3>1 DEF Named, handler
    <3>6. StoredInv'
      BY <3>1, <3>5 DEF PasskeysInv, StoredInv, At, Registering, ReportedIsStored, Ids, handler
    <3> QED BY <3>2, <3>4, <3>6 DEF PasskeysInv
  <2> QED BY <2>1, <2>2, <2>3 DEF Next
<1> QED BY InitInv, <1>1, PTL DEF Spec

\* The document keeps its schema (user.model.ts:5-12) and no stored counter is ever
\* ahead of its authenticator's (webauthn.service.ts:161-167).
THEOREM Types == Spec => []PasskeysTypeOK
<1>1. PasskeysInv => PasskeysTypeOK
  <2> SUFFICES ASSUME PasskeysInv PROVE PasskeysTypeOK OBVIOUS
  <2>1. Sound(passkeys) BY DEF PasskeysInv, ArraysInv, Arrays
  <2>2. fresh => \E o \in offers : o.challenge = challenge
    BY DEF PasskeysInv, MadeInv
  <2> QED BY <2>1, <2>2 DEF PasskeysInv, Typed, Labels, Replies, Sound, PasskeysTypeOK
<1> QED BY PasskeysInductive, <1>1, PTL

\* Unless two writes overlap, what is stored is what was reported
\* (webauthn.service.ts:103-107, 184-188).
THEOREM Stored == Spec => []ReportedIsStored
<1>1. PasskeysInv => ReportedIsStored BY DEF PasskeysInv, StoredInv
<1> QED BY PasskeysInductive, <1>1, PTL

\* No genuine assertion that reaches the counter check fails it
\* (webauthn.service.ts:161-162), overlapping writes included.
THEOREM NoClone == Spec => []NeverTakenForClone
<1>1. PasskeysInv => NeverTakenForClone
  BY DEF PasskeysInv, CloneInv, Arrays, NeverTakenForClone, At, ChallengeMatches,
         CounterGrows, Grown
<1> QED BY PasskeysInductive, <1>1, PTL
=============================================================================
