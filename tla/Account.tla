------------------------------ MODULE Account ------------------------------
(***************************************************************************)
(* One user's document (models/user.model.ts) and the handlers that sign   *)
(* the user in and manage the credentials: auth.service.ts,                *)
(* passwordless.service.ts, mfa.service.ts and their controllers.          *)
(* Every handler finds the document, decides from that snapshot, then      *)
(* updates the fields it names: bcrypt and TOTP checks lie between the two *)
(* and other handlers run meanwhile. So a handler is a Read and a Write.   *)
(* A hash is the password it was made from, a code the secret it was made  *)
(* from, and a deadline whether it has passed.                             *)
(***************************************************************************)
EXTENDS Integers, Sequences, FiniteSets

CONSTANTS Requests,           \* requests, each handled once
          Operations,         \* what requests may ask for
          Passwords, Tokens,  \* passwords, magic-link tokens
          Secrets,            \* TOTP secrets
          None,               \* null
          MAX_LOGIN_ATTEMPTS, \* wrong passwords that lock the account
          PASSWORD_HISTORY    \* hashes remembered

VARIABLES user,     \* the document
          pc,       \* the await the handler of a request is blocked on
          job,      \* the request's body
          seen,     \* the document as the handler found it
          reply,    \* how the request is answered
          links,    \* tokens mailed to the user
          shown,    \* secrets shown to the user's authenticator
          challenges, \* requests answered with an MFA token that is still valid
          past,     \* ghost: every password the account has had, in order
          raced,    \* ghost: a change was computed from a document that was stale
          guarded,  \* ghost: requests in whose time MFA has always been on
          late      \* ghost: requests that arrived with a link already accepted

handler == <<pc, job, seen, reply>>
client == <<links, shown, challenges>>
passwords == <<past, raced>>
ghosts == <<passwords, guarded, late>>
vars == <<user, handler, client, ghosts>>

User ==
  [password : Passwords \cup {None}, history : Seq(Passwords),
   failed : 0..(MAX_LOGIN_ATTEMPTS - 1), locked : BOOLEAN,
   magic : Tokens \cup {None}, magicFresh : BOOLEAN,
   mfaEnabled : BOOLEAN, mfaSecret : Secrets \cup {None},
   mfaPending : Secrets \cup {None}]

Body ==
  [op : {"login"}, password : Passwords]
    \cup [op : {"changePassword"}, current : Passwords, new : Passwords]
    \cup [op : {"magicRequest", "setup"}]
    \cup [op : {"magicVerify"}, token : Tokens]
    \cup [op : {"enable", "disable"}, code : Secrets]
    \cup [op : {"verifyMfaLogin"}, challenge : Requests, code : Secrets]

ASSUME AccountAssumption ==
  /\ MAX_LOGIN_ATTEMPTS \in Nat \ {0} /\ PASSWORD_HISTORY \in Nat \ {0}
  /\ None \notin Passwords \cup Tokens \cup Secrets
  /\ None \notin Body /\ None \notin User

\* The document as register or a first Google sign-in creates it.
Registered(p) ==
  [password |-> p, history |-> IF p = None THEN <<>> ELSE <<p>>,
   failed |-> 0, locked |-> FALSE, magic |-> None, magicFresh |-> FALSE,
   mfaEnabled |-> FALSE, mfaSecret |-> None, mfaPending |-> None]

\* A request carries only links, codes and challenges that the user has, and a
\* new password that is not the one it is to replace.
Bodies ==
  {b \in Body :
     /\ b.op \in Operations
     /\ b.op = "changePassword" => b.current # b.new
     /\ b.op = "magicVerify" => b.token \in links
     /\ b.op \in {"enable", "disable", "verifyMfaLogin"} => b.code \in shown
     /\ b.op = "verifyMfaLogin" => b.challenge \in challenges}

Init ==
  /\ \E p \in Passwords \cup {None} :
       user = Registered(p) /\ past = IF p = None THEN <<>> ELSE <<p>>
  /\ pc = [r \in Requests |-> "idle"]
  /\ job = [r \in Requests |-> None]
  /\ seen = [r \in Requests |-> None]
  /\ reply = [r \in Requests |-> "none"]
  /\ links = {} /\ shown = {} /\ challenges = {}
  /\ raced = FALSE /\ guarded = {} /\ late = {}

----------------------------------------------------------------------------
(* The frame of a handler.                                                 *)

\* A link was accepted: the request that carried it has its answer.
Accepted(r) == job[r] # None /\ job[r].op = "magicVerify" /\ reply[r] \in {"session", "challenge"}
Spent(token) == \E r \in Requests : Accepted(r) /\ job[r].token = token

Arrive(r) ==
  /\ pc[r] = "idle"
  /\ pc' = [pc EXCEPT ![r] = "find"]
  /\ \E b \in Bodies :
       /\ job' = [job EXCEPT ![r] = b]
       /\ late' = IF b.op = "magicVerify" /\ Spent(b.token) THEN late \cup {r} ELSE late
  /\ guarded' = IF user.mfaEnabled THEN guarded \cup {r} ELSE guarded
  /\ UNCHANGED <<user, seen, reply, client, passwords>>

\* The handler of r is at this await, for this operation.
At(r, label, op) == pc[r] = label /\ job[r].op = op

\* The document the find returned is good: the handler goes on to its update.
Continue(r) ==
  /\ pc' = [pc EXCEPT ![r] = "write"]
  /\ seen' = [seen EXCEPT ![r] = user]
  /\ UNCHANGED <<user, job, reply, client, ghosts>>

Answer(r, answer) ==
  /\ pc' = [pc EXCEPT ![r] = "done"]
  /\ seen' = [seen EXCEPT ![r] = None]
  /\ reply' = [reply EXCEPT ![r] = answer]
  /\ UNCHANGED job

\* It answers without an update.
Return(r, answer) == Answer(r, answer) /\ UNCHANGED <<user, client, ghosts>>

\* Variant: the second factor is forgotten.
FirstFactorIsEnough(r) == Answer(r, "session") /\ UNCHANGED challenges

\* The first factor is proven: a session, or a challenge if the snapshot says so.
FirstFactor(r) ==
  IF seen[r].mfaEnabled
  THEN Answer(r, "challenge") /\ challenges' = challenges \cup {r}
  ELSE Answer(r, "session") /\ UNCHANGED challenges

----------------------------------------------------------------------------
(* auth.service.ts: login.                                                 *)

LoginRead(r) ==
  /\ At(r, "find", "login")
  /\ \/ user.locked /\ Return(r, "429")
     \/ ~user.locked /\ user.password = None /\ Return(r, "401")
     \/ ~user.locked /\ user.password # None /\ Continue(r)

\* Variants: the lock comes one attempt early, the counter is not reset by it,
\* and a failure that does not lock writes the lock all the same.
LockOneEarly(r) ==
  LET attempts == seen[r].failed + 1 IN
  user' = IF attempts >= MAX_LOGIN_ATTEMPTS - 1
          THEN [user EXCEPT !.failed = 0, !.locked = TRUE]
          ELSE [user EXCEPT !.failed = attempts]
CountOn(r) ==
  LET attempts == seen[r].failed + 1 IN
  user' = [user EXCEPT !.failed = attempts, !.locked = @ \/ attempts >= MAX_LOGIN_ATTEMPTS]
FailureWritesLock(r) ==
  LET attempts == seen[r].failed + 1
      locks == attempts >= MAX_LOGIN_ATTEMPTS IN
  user' = [user EXCEPT !.failed = IF locks THEN 0 ELSE attempts, !.locked = locks]

\* The wrong password counts from the snapshot; enough of them lock the account
\* and start the count anew.
CountFailure(r) ==
  LET attempts == seen[r].failed + 1 IN
  user' = IF attempts >= MAX_LOGIN_ATTEMPTS
          THEN [user EXCEPT !.failed = 0, !.locked = TRUE]
          ELSE [user EXCEPT !.failed = attempts]

LoginWrong(r) ==
  /\ At(r, "write", "login") /\ job[r].password # seen[r].password
  /\ CountFailure(r)
  /\ Answer(r, "401")
  /\ UNCHANGED <<client, ghosts>>

LoginRight(r) ==
  /\ At(r, "write", "login") /\ job[r].password = seen[r].password
  /\ user' = [user EXCEPT !.failed = 0, !.locked = FALSE]
  /\ FirstFactor(r)
  /\ UNCHANGED <<links, shown, ghosts>>

LockExpires ==
  /\ user.locked
  /\ user' = [user EXCEPT !.locked = FALSE]
  /\ UNCHANGED <<handler, client, ghosts>>

----------------------------------------------------------------------------
(* auth.service.ts: changePassword.                                        *)

\* The passwords that a new one is compared with.
Remembered(u) == {u.password} \cup {u.history[i] : i \in DOMAIN u.history}

ChangeRead(r) ==
  /\ At(r, "find", "changePassword")
  /\ \/ /\ \/ user.password = None
           \/ job[r].current # user.password
           \/ job[r].new \in Remembered(user)
        /\ Return(r, "400")
     \/ /\ user.password # None
        /\ job[r].current = user.password
        /\ job[r].new \notin Remembered(user)
        /\ Continue(r)

\* Variant: the oldest are kept.
TrimmedToOldest(s) ==
  SubSeq(s, IF Len(s) < PASSWORD_HISTORY THEN 1 ELSE Len(s) - PASSWORD_HISTORY + 1, Len(s))

\* slice(0, PASSWORD_HISTORY).
Trimmed(s) ==
  SubSeq(s, 1, IF Len(s) < PASSWORD_HISTORY THEN Len(s) ELSE PASSWORD_HISTORY)

ChangeWrite(r) ==
  /\ At(r, "write", "changePassword")
  /\ user' = [user EXCEPT !.password = job[r].new,
                          !.history = Trimmed(<<seen[r].password>> \o seen[r].history)]
  /\ past' = Append(past, job[r].new)
  /\ raced' = (raced \/ seen[r].password # user.password \/ seen[r].history # user.history)
  /\ Answer(r, "ok")
  /\ UNCHANGED <<client, guarded, late>>

----------------------------------------------------------------------------
(* passwordless.service.ts.                                                *)

MagicRequestRead(r) == At(r, "find", "magicRequest") /\ Continue(r)

\* The token is random; it replaces the one stored before.
MagicRequestWrite(r) ==
  /\ At(r, "write", "magicRequest")
  /\ \E token \in Tokens \ links :
       /\ user' = [user EXCEPT !.magic = token, !.magicFresh = TRUE]
       /\ links' = links \cup {token}
  /\ Answer(r, "ok")
  /\ UNCHANGED <<shown, challenges, ghosts>>

MagicVerifyRead(r) ==
  /\ At(r, "find", "magicVerify")
  /\ IF user.magic = job[r].token /\ user.magicFresh
     THEN Continue(r)
     ELSE Return(r, "401")

\* Variant: the token is left in place.
KeepToken == UNCHANGED user

\* The update consumes whatever token is stored by then.
ConsumeToken == user' = [user EXCEPT !.magic = None, !.magicFresh = FALSE]

MagicVerifyWrite(r) ==
  /\ At(r, "write", "magicVerify")
  /\ ConsumeToken
  /\ FirstFactor(r)
  /\ UNCHANGED <<links, shown, ghosts>>

LinkExpires ==
  /\ user.magicFresh
  /\ user' = [user EXCEPT !.magicFresh = FALSE]
  /\ UNCHANGED <<handler, client, ghosts>>

----------------------------------------------------------------------------
(* mfa.service.ts, mfa.controller.ts, and verifyMfaLogin.                  *)

SetupRead(r) ==
  /\ At(r, "find", "setup")
  /\ IF user.mfaEnabled THEN Return(r, "400") ELSE Continue(r)

SetupWrite(r) ==
  /\ At(r, "write", "setup")
  /\ \E secret \in Secrets \ shown :
       /\ user' = [user EXCEPT !.mfaPending = secret]
       /\ shown' = shown \cup {secret}
  /\ Answer(r, "ok")
  /\ UNCHANGED <<links, challenges, ghosts>>

EnableRead(r) ==
  /\ At(r, "find", "enable")
  /\ IF user.mfaPending = job[r].code THEN Continue(r) ELSE Return(r, "400")

\* Variant: the secret that is pending by now becomes the active one.
ActivatePending(r) ==
  user' = [user EXCEPT !.mfaEnabled = TRUE, !.mfaSecret = user.mfaPending,
                       !.mfaPending = None]

\* The secret that the code was checked against becomes the active one.
Activate(r) ==
  user' = [user EXCEPT !.mfaEnabled = TRUE, !.mfaSecret = seen[r].mfaPending,
                       !.mfaPending = None]

EnableWrite(r) ==
  /\ At(r, "write", "enable")
  /\ Activate(r)
  /\ Answer(r, "ok")
  /\ UNCHANGED <<client, ghosts>>

CodeVerifies(r) == user.mfaEnabled /\ user.mfaSecret = job[r].code

DisableRead(r) ==
  /\ At(r, "find", "disable")
  /\ IF CodeVerifies(r) THEN Continue(r) ELSE Return(r, "400")

DisableWrite(r) ==
  /\ At(r, "write", "disable")
  /\ user' = [user EXCEPT !.mfaEnabled = FALSE, !.mfaSecret = None, !.mfaPending = None]
  /\ guarded' = {}
  /\ Answer(r, "ok")
  /\ UNCHANGED <<client, passwords, late>>

VerifyMfaLogin(r) ==
  /\ At(r, "find", "verifyMfaLogin")
  /\ Return(r, IF job[r].challenge \in challenges /\ CodeVerifies(r) THEN "session" ELSE "401")

ChallengeExpires ==
  /\ \E r \in challenges : challenges' = challenges \ {r}
  /\ UNCHANGED <<user, handler, links, shown, ghosts>>

----------------------------------------------------------------------------
Handler(r) ==
  \/ LoginRead(r) \/ LoginWrong(r) \/ LoginRight(r)
  \/ ChangeRead(r) \/ ChangeWrite(r)
  \/ MagicRequestRead(r) \/ MagicRequestWrite(r)
  \/ MagicVerifyRead(r) \/ MagicVerifyWrite(r)
  \/ SetupRead(r) \/ SetupWrite(r) \/ EnableRead(r) \/ EnableWrite(r)
  \/ DisableRead(r) \/ DisableWrite(r) \/ VerifyMfaLogin(r)

Next ==
  \/ \E r \in Requests : Arrive(r) \/ Handler(r)
  \/ LockExpires \/ LinkExpires \/ ChallengeExpires

Spec == Init /\ [][Next]_vars
=============================================================================
