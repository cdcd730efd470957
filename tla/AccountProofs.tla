---------------------------- MODULE AccountProofs ----------------------------
(***************************************************************************)
(* Proofs about Account for any number of requests, passwords, tokens and  *)
(* secrets, and any limits. Handlers overlap between their find and their  *)
(* update, so each invariant is about the document as it is and about the  *)
(* snapshots that the handlers hold.                                       *)
(***************************************************************************)
EXTENDS AccountProperties, FiniteSetTheorems, TLAPS

Labels == {"idle", "find", "write", "done"}
Replies == {"none", "ok", "session", "challenge", "400", "401", "429"}

\* The document, the handlers, what the user holds, and the ghosts.
Typed ==
  /\ user \in User
  /\ pc \in [Requests -> Labels]
  /\ job \in [Requests -> Body \cup {None}]
  /\ seen \in [Requests -> User \cup {None}]
  /\ reply \in [Requests -> Replies]
  /\ \A r \in Requests :
       /\ pc[r] = "idle" <=> job[r] = None
       /\ pc[r] = "write" <=> seen[r] # None
       /\ pc[r] # "done" => reply[r] = "none"
       /\ pc[r] = "write" /\ job[r].op = "changePassword" => seen[r].password # None
  /\ links \subseteq Tokens /\ shown \subseteq Secrets /\ challenges \subseteq Requests
  /\ past \in Seq(Passwords) /\ raced \in BOOLEAN
  /\ guarded \subseteq Requests /\ late \subseteq Requests

\* The handler's request is answered.
Answered(r, a) ==
  /\ pc' = [pc EXCEPT ![r] = "done"]
  /\ seen' = [seen EXCEPT ![r] = None]
  /\ reply' = [reply EXCEPT ![r] = a]
  /\ job' = job

\* What a handler that goes on to its update has found, in the document as it is.
Found(r) ==
  /\ job[r].op = "login" => user.password # None /\ ~user.locked
  /\ job[r].op = "changePassword" =>
       user.password # None /\ job[r].new \notin Remembered(user)
  /\ job[r].op = "magicVerify" => user.magic = job[r].token
  /\ job[r].op = "enable" => user.mfaPending = job[r].code

Goes(r) == pc[r] = "find" /\ Found(r) /\ Continue(r)

Turned(r) ==
  /\ pc[r] = "find"
  /\ \E a \in Replies \ {"none", "ok", "challenge"} :
       Return(r, a) /\ (a = "session" => job[r].op = "verifyMfaLogin")

Updates(r) ==
  \/ LoginWrong(r) \/ LoginRight(r) \/ ChangeWrite(r)
  \/ MagicRequestWrite(r) \/ MagicVerifyWrite(r)
  \/ SetupWrite(r) \/ EnableWrite(r) \/ DisableWrite(r)

Expires == LockExpires \/ LinkExpires \/ ChallengeExpires

----------------------------------------------------------------------------
(* The shapes of the steps.                                                *)

\* A handler's first half goes on, or answers without an update.
LEMMA Shapes ==
  ASSUME NEW r \in Requests, Handler(r)
  PROVE  Goes(r) \/ Turned(r) \/ Updates(r)
<1>1. CASE LoginRead(r) BY <1>1 DEF LoginRead, At, Goes, Turned, Found, Replies
<1>2. CASE ChangeRead(r) BY <1>2 DEF ChangeRead, At, Goes, Turned, Found, Replies
<1>3. CASE MagicRequestRead(r)
  BY <1>3 DEF MagicRequestRead, At, Goes, Turned, Found, Replies
<1>4. CASE MagicVerifyRead(r)
  BY <1>4 DEF MagicVerifyRead, At, Goes, Turned, Found, Replies
<1>5. CASE SetupRead(r) BY <1>5 DEF SetupRead, At, Goes, Turned, Found, Replies
<1>6. CASE EnableRead(r) BY <1>6 DEF EnableRead, At, Goes, Turned, Found, Replies
<1>7. CASE DisableRead(r) BY <1>7 DEF DisableRead, At, Goes, Turned, Found, Replies
<1>8. CASE VerifyMfaLogin(r) BY <1>8 DEF VerifyMfaLogin, At, Goes, Turned, Found, Replies
<1> QED
  BY <1>1, <1>2, <1>3, <1>4, <1>5, <1>6, <1>7, <1>8 DEF Handler, Updates

\* The bodies of the operations.
LEMMA BodyFields ==
  ASSUME NEW b \in Body
  PROVE  /\ b.op = "login" => b.password \in Passwords
         /\ b.op = "changePassword" => b.new \in Passwords
         /\ b.op = "magicVerify" => b.token \in Tokens
         /\ b.op = "enable" => b.code \in Secrets
BY DEF Body

LEMMA NoneIsNothing ==
  /\ None \notin User /\ None \notin Body
  /\ None \notin Passwords /\ None \notin Tokens /\ None \notin Secrets
BY AccountAssumption

----------------------------------------------------------------------------
(* Types.                                                                  *)

LEMMA TypedInit == Init => Typed
<1> SUFFICES ASSUME Init PROVE Typed OBVIOUS
<1>1. PICK p \in Passwords \cup {None} :
        user = Registered(p) /\ past = IF p = None THEN <<>> ELSE <<p>>
  BY DEF Init
<1>2. user \in User
  BY <1>1, AccountAssumption DEF Registered, User
<1>3. past \in Seq(Passwords) BY <1>1
<1> QED BY <1>2, <1>3, NoneIsNothing DEF Init, Typed, Labels, Replies

\* The handler of r is answered, with the other variables of their types.
LEMMA AnswerTyped ==
  ASSUME Typed, NEW r \in Requests, pc[r] # "idle", NEW a \in Replies, Answer(r, a),
         (user \in User)', (links \subseteq Tokens)', (shown \subseteq Secrets)',
         (challenges \subseteq Requests)', (past \in Seq(Passwords))', (raced \in BOOLEAN)',
         (guarded \subseteq Requests)', (late \subseteq Requests)'
  PROVE  Typed'
BY DEF Typed, Answer, Labels

\* Updates of a well-typed document.
LEMMA UserUpdates ==
  ASSUME NEW u \in User
  PROVE  /\ \A n \in 0..(MAX_LOGIN_ATTEMPTS - 1) : [u EXCEPT !.failed = n] \in User
         /\ [u EXCEPT !.failed = 0, !.locked = TRUE] \in User
         /\ [u EXCEPT !.failed = 0, !.locked = FALSE] \in User
         /\ [u EXCEPT !.locked = FALSE] \in User
         /\ [u EXCEPT !.magicFresh = FALSE] \in User
         /\ u.failed \in 0..(MAX_LOGIN_ATTEMPTS - 1) /\ u.failed \in Nat
<1> DEFINE Counts == 0..(MAX_LOGIN_ATTEMPTS - 1)
<1>1. 0 \in Counts BY AccountAssumption
<1> HIDE DEF Counts
<1>2. User = [password : Passwords \cup {None}, history : Seq(Passwords),
              failed : Counts, locked : BOOLEAN,
              magic : Tokens \cup {None}, magicFresh : BOOLEAN,
              mfaEnabled : BOOLEAN, mfaSecret : Secrets \cup {None},
              mfaPending : Secrets \cup {None}]
  BY DEF User, Counts
<1>3. \A n \in Counts : [u EXCEPT !.failed = n] \in User BY <1>2
<1>4. /\ [u EXCEPT !.failed = 0, !.locked = TRUE] \in User
      /\ [u EXCEPT !.failed = 0, !.locked = FALSE] \in User
  BY <1>1, <1>2
<1>5. /\ [u EXCEPT !.locked = FALSE] \in User
      /\ [u EXCEPT !.magicFresh = FALSE] \in User
      /\ u.failed \in Counts
  BY <1>2
<1>6. Counts \subseteq Nat BY AccountAssumption DEF Counts
<1> QED BY <1>3, <1>4, <1>5, <1>6 DEF Counts

\* The new history: the old password, then the old history, trimmed at its end.
LEMMA TrimmedSeq ==
  ASSUME NEW q \in Passwords, NEW h \in Seq(Passwords)
  PROVE  LET t == Trimmed(<<q>> \o h)
         IN  /\ t \in Seq(Passwords)
             /\ \A i \in 1..PASSWORD_HISTORY :
                  i <= Len(h) + 1 =>
                    i \in DOMAIN t /\ t[i] = IF i = 1 THEN q ELSE h[i - 1]
<1> DEFINE w == <<q>> \o h
           n == IF Len(w) < PASSWORD_HISTORY THEN Len(w) ELSE PASSWORD_HISTORY
<1>1. w \in Seq(Passwords) /\ Len(w) = Len(h) + 1 OBVIOUS
<1>2. \A i \in 1..(Len(h) + 1) : w[i] = IF i = 1 THEN q ELSE h[i - 1] OBVIOUS
<1>3. Trimmed(w) = SubSeq(w, 1, n) BY DEF Trimmed
<1>4. n \in Nat /\ n <= Len(w)
      /\ \A i \in 1..PASSWORD_HISTORY : i <= Len(h) + 1 => i \in 1..n
  BY <1>1, AccountAssumption
<1> HIDE DEF w, n
<1>5. /\ SubSeq(w, 1, n) \in Seq(Passwords)
      /\ DOMAIN SubSeq(w, 1, n) = 1..n
      /\ \A i \in 1..n : SubSeq(w, 1, n)[i] = w[i]
  BY <1>1, <1>4
<1>6. \A i \in 1..PASSWORD_HISTORY : i <= Len(h) + 1 =>
        i \in DOMAIN Trimmed(w) /\ Trimmed(w)[i] = IF i = 1 THEN q ELSE h[i - 1]
  BY <1>1, <1>2, <1>3, <1>4, <1>5
<1> QED BY <1>3, <1>5, <1>6 DEF w

LEMMA UpdateTyped ==
  ASSUME Typed, NEW r \in Requests, Updates(r)
  PROVE  Typed'
<1> DEFINE s == seen[r]
<1>1. pc[r] = "write" /\ s \in User /\ job[r] \in Body
  BY DEF Typed, Updates, LoginWrong, LoginRight, ChangeWrite, MagicRequestWrite,
         MagicVerifyWrite, SetupWrite, EnableWrite, DisableWrite, At
<1>2. CASE LoginWrong(r)
  <2>1. (user \in User)'
    <3>1. user \in User /\ s.failed \in 0..(MAX_LOGIN_ATTEMPTS - 1)
      BY <1>1, UserUpdates DEF Typed
    <3>2. ~(s.failed + 1 >= MAX_LOGIN_ATTEMPTS) => s.failed + 1 \in 0..(MAX_LOGIN_ATTEMPTS - 1)
      BY <3>1, AccountAssumption
    <3> QED BY <1>2, <3>1, <3>2, UserUpdates DEF LoginWrong, CountFailure
  <2> QED BY <1>1, <1>2, <2>1, AnswerTyped
          DEF LoginWrong, client, ghosts, passwords, Typed, Replies
<1>3. CASE LoginRight(r)
  <2>1. (user \in User)' BY <1>3, UserUpdates DEF LoginRight, Typed
  <2> QED BY <1>1, <1>3, <2>1, AnswerTyped
          DEF LoginRight, FirstFactor, client, ghosts, passwords, Typed, Replies
<1>4. CASE ChangeWrite(r)
  <2>1. job[r].new \in Passwords /\ s.password \in Passwords /\ s.history \in Seq(Passwords)
    BY <1>1, <1>4, BodyFields DEF ChangeWrite, At, User, Typed
  <2>2. (user \in User)'
    BY <1>4, <2>1, TrimmedSeq DEF ChangeWrite, User, Typed
  <2>3. past' \in Seq(Passwords) /\ raced' \in BOOLEAN
    BY <1>4, <2>1 DEF ChangeWrite, Typed
  <2> QED BY <1>1, <1>4, <2>2, <2>3, AnswerTyped DEF ChangeWrite, client, Typed, Replies
<1>5. CASE MagicRequestWrite(r)
  <2>1. (user \in User)' BY <1>5 DEF MagicRequestWrite, User, Typed
  <2> QED BY <1>1, <1>5, <2>1, AnswerTyped
          DEF MagicRequestWrite, ghosts, passwords, Typed, Replies
<1>6. CASE MagicVerifyWrite(r)
  <2>1. (user \in User)' BY <1>6 DEF MagicVerifyWrite, ConsumeToken, User, Typed
  <2> QED BY <1>1, <1>6, <2>1, AnswerTyped
          DEF MagicVerifyWrite, FirstFactor, ghosts, passwords, Typed, Replies
<1>7. CASE SetupWrite(r)
  <2>1. (user \in User)' BY <1>7 DEF SetupWrite, User, Typed
  <2> QED BY <1>1, <1>7, <2>1, AnswerTyped
          DEF SetupWrite, ghosts, passwords, Typed, Replies
<1>8. CASE EnableWrite(r)
  <2>1. (user \in User)' BY <1>1, <1>8 DEF EnableWrite, Activate, User, Typed
  <2> QED BY <1>1, <1>8, <2>1, AnswerTyped
          DEF EnableWrite, client, ghosts, passwords, Typed, Replies
<1>9. CASE DisableWrite(r)
  <2>1. (user \in User)' BY <1>9 DEF DisableWrite, User, Typed
  <2> QED BY <1>1, <1>9, <2>1, AnswerTyped
          DEF DisableWrite, client, passwords, Typed, Replies
<1> QED BY <1>2, <1>3, <1>4, <1>5, <1>6, <1>7, <1>8, <1>9 DEF Updates

LEMMA TypedStep == Typed /\ [Next]_vars => Typed'
<1> SUFFICES ASSUME Typed, [Next]_vars PROVE Typed' OBVIOUS
<1>1. ASSUME NEW r \in Requests, Arrive(r) PROVE Typed'
  BY <1>1, NoneIsNothing
     DEF Arrive, Bodies, Typed, client, passwords, Labels, Replies
<1>2. ASSUME NEW r \in Requests, Handler(r) PROVE Typed'
  <2>1. CASE Goes(r)
    BY <2>1, NoneIsNothing
       DEF Goes, Found, Continue, Typed, client, ghosts, passwords, Labels
  <2>2. CASE Turned(r)
    BY <2>2, AnswerTyped DEF Turned, Return, client, ghosts, passwords, Typed
  <2> QED BY <1>2, <2>1, <2>2, Shapes, UpdateTyped
<1>3. CASE Expires
  <2>1. (user \in User)'
    BY <1>3, UserUpdates DEF Expires, LockExpires, LinkExpires, ChallengeExpires, Typed
  <2> QED BY <1>3, <2>1 DEF Expires, LockExpires, LinkExpires, ChallengeExpires, Typed,
                          handler, client, ghosts, passwords
<1>4. CASE UNCHANGED vars
  BY <1>4 DEF vars, handler, client, ghosts, passwords, Typed
<1> QED BY <1>1, <1>2, <1>3, <1>4 DEF Next, Expires

----------------------------------------------------------------------------
(* One handler moves at a time.                                            *)

Still(q) == pc'[q] = pc[q] /\ job'[q] = job[q] /\ seen'[q] = seen[q] /\ reply'[q] = reply[q]

\* A step of r's handler leaves the others alone, and r was not answered before.
LEMMA OthersStill ==
  ASSUME Typed, NEW r \in Requests, Arrive(r) \/ Goes(r) \/ Turned(r) \/ Updates(r)
  PROVE  /\ \A q \in Requests \ {r} : Still(q)
         /\ pc[r] # "done"
         /\ ~Arrive(r) => job' = job /\ pc[r] # "idle"
<1>1. CASE Arrive(r) BY <1>1 DEF Arrive, Still, Typed
<1>2. CASE Goes(r) BY <1>2 DEF Goes, Continue, Still, Typed
<1>3. CASE Turned(r) BY <1>3 DEF Turned, Return, Answer, Still, Typed
<1>4. CASE Updates(r)
  BY <1>4 DEF Updates, LoginWrong, LoginRight, ChangeWrite, MagicRequestWrite,
              MagicVerifyWrite, SetupWrite, EnableWrite, DisableWrite, At, FirstFactor,
              Answer, Still, Typed
<1> QED BY <1>1, <1>2, <1>3, <1>4

\* An update ends the handler.
LEMMA UpdateEnds ==
  ASSUME Typed, NEW r \in Requests, Updates(r)
  PROVE  /\ pc[r] = "write" /\ seen[r] \in User /\ job[r] \in Body
         /\ pc'[r] = "done" /\ job'[r] = job[r] /\ UNCHANGED late
         /\ reply'[r] \in {"ok", "session", "challenge", "401"}
<1>1. pc[r] = "write" /\ seen[r] \in User /\ job[r] \in Body
  BY DEF Typed, Updates, LoginWrong, LoginRight, ChangeWrite, MagicRequestWrite,
         MagicVerifyWrite, SetupWrite, EnableWrite, DisableWrite, At
<1> QED
  BY <1>1 DEF Updates, LoginWrong, LoginRight, ChangeWrite, MagicRequestWrite,
              MagicVerifyWrite, SetupWrite, EnableWrite, DisableWrite, At, FirstFactor,
              Answer, ghosts, Typed

LEMMA ExpiryStill ==
  ASSUME Expires \/ UNCHANGED vars
  PROVE  handler' = handler /\ ghosts' = ghosts
BY DEF Expires, LockExpires, LinkExpires, ChallengeExpires, vars, handler

----------------------------------------------------------------------------
(* The lock.                                                               *)

LockInv ==
  /\ IsFiniteSet(Wrong)
  /\ LockedForCause
  /\ \A r \in Requests :
       pc[r] = "write" /\ job[r].op = "login" => seen[r].failed <= Cardinality(Wrong)

\* The requests answered that the password is wrong become more, one by one.
LEMMA WrongGrows ==
  ASSUME Typed, IsFiniteSet(Wrong), NEW r \in Requests,
         Arrive(r) \/ Goes(r) \/ Turned(r) \/ Updates(r)
  PROVE  /\ IsFiniteSet(Wrong') /\ Cardinality(Wrong') \in Nat /\ Cardinality(Wrong) \in Nat
         /\ Cardinality(Wrong) <= Cardinality(Wrong')
         /\ LoginWrong(r) => Cardinality(Wrong') = Cardinality(Wrong) + 1
<1>1. /\ \A q \in Requests \ {r} : Still(q)
      /\ pc[r] # "done"
      /\ ~Arrive(r) => job' = job /\ pc[r] # "idle"
  BY OthersStill
<1>2. r \notin Wrong /\ Wrong \subseteq Wrong' /\ Wrong' \subseteq Wrong \cup {r}
  BY <1>1 DEF Wrong, Still
<1>3. Wrong' = Wrong \/ Wrong' = Wrong \cup {r} BY <1>2
<1>4. /\ IsFiniteSet(Wrong \cup {r})
      /\ Cardinality(Wrong \cup {r}) = Cardinality(Wrong) + 1
  BY <1>2, FS_AddElement
<1>5. Cardinality(Wrong) \in Nat BY FS_CardinalityType
<1>6. LoginWrong(r) => r \in Wrong'
  BY DEF LoginWrong, Answer, At, Wrong, Typed
<1>7. IsFiniteSet(Wrong') BY <1>3, <1>4
<1>8. Cardinality(Wrong') = Cardinality(Wrong) \/ Cardinality(Wrong') = Cardinality(Wrong) + 1
  BY <1>3, <1>4
<1>9. LoginWrong(r) => Cardinality(Wrong') = Cardinality(Wrong) + 1
  BY <1>2, <1>3, <1>4, <1>6
<1> QED BY <1>5, <1>7, <1>8, <1>9

LEMMA LockInit == Init => LockInv
<1> SUFFICES ASSUME Init PROVE LockInv OBVIOUS
<1>1. Wrong = {} BY DEF Init, Wrong
<1>2. user.failed = 0 /\ user.locked = FALSE BY DEF Init, Registered
<1> QED BY <1>1, <1>2, FS_EmptySet DEF LockInv, LockedForCause, Init

LEMMA LockStep == Typed /\ LockInv /\ [Next]_vars => LockInv'
<1> SUFFICES ASSUME Typed, LockInv, [Next]_vars PROVE LockInv' OBVIOUS
<1> DEFINE c == Cardinality(Wrong)
           d == Cardinality(Wrong')
<1>0. user.failed \in Nat /\ MAX_LOGIN_ATTEMPTS \in Nat \ {0}
  BY UserUpdates, AccountAssumption DEF Typed
<1>1. ASSUME NEW r \in Requests, Arrive(r) \/ Goes(r) \/ Turned(r) \/ Updates(r)
      PROVE  LockInv'
  <2>1. /\ IsFiniteSet(Wrong') /\ c \in Nat /\ d \in Nat /\ c <= d
        /\ LoginWrong(r) => d = c + 1
    BY <1>1, WrongGrows DEF LockInv
  <2>2. ASSUME NEW q \in Requests, pc'[q] = "write", job'[q].op = "login"
        PROVE  seen'[q].failed <= d
    <3>1. CASE q # r
      <4>1. pc[q] = "write" /\ job[q].op = "login" /\ seen'[q] = seen[q]
        BY <1>1, <2>2, <3>1, OthersStill DEF Still
      <4>2. seen[q].failed \in Nat BY <4>1, UserUpdates DEF Typed
      <4> QED BY <2>1, <4>1, <4>2 DEF LockInv
    <3>2. CASE q = r
      <4>1. Goes(r)
        BY <1>1, <2>2, <3>2, UpdateEnds DEF Arrive, Turned, Return, Answer, Typed
      <4>2. seen'[q] = user BY <3>2, <4>1 DEF Goes, Continue, Typed
      <4> QED BY <1>0, <2>1, <4>2 DEF LockInv, LockedForCause
    <3> QED BY <3>1, <3>2
  <2>3. LockedForCause'
    <3>1. CASE LoginWrong(r)
      <4>1. /\ pc[r] = "write" /\ job[r].op = "login" /\ seen[r] \in User
            /\ seen[r].failed \in Nat /\ user \in User
        BY <1>1, <3>1, UpdateEnds, UserUpdates DEF LoginWrong, At, Updates, Typed
      <4>2. seen[r].failed <= c BY <4>1 DEF LockInv
      <4>3. \/ /\ seen[r].failed + 1 >= MAX_LOGIN_ATTEMPTS
               /\ user'.failed = 0 /\ user'.locked = TRUE
            \/ user'.failed = seen[r].failed + 1 /\ (user'.locked => user.locked)
        BY <3>1, <4>1 DEF LoginWrong, CountFailure, User
      <4>4. user'.failed <= d BY <2>1, <3>1, <4>1, <4>2, <4>3
      <4>5. user'.locked => d >= MAX_LOGIN_ATTEMPTS
        <5>1. CASE seen[r].failed + 1 >= MAX_LOGIN_ATTEMPTS BY <1>0, <2>1, <3>1, <4>1, <4>2, <5>1
        <5>2. CASE ~(seen[r].failed + 1 >= MAX_LOGIN_ATTEMPTS)
          BY <1>0, <2>1, <4>1, <4>3, <5>2 DEF LockInv, LockedForCause
        <5> QED BY <5>1, <5>2
      <4> QED BY <4>4, <4>5 DEF LockedForCause
    <3>2. CASE ~LoginWrong(r)
      <4>1. user'.failed \in {user.failed, 0} /\ (user'.locked => user.locked)
        BY <1>1, <3>2 DEF Arrive, Goes, Continue, Turned, Return, Updates, LoginRight,
             ChangeWrite, MagicRequestWrite, MagicVerifyWrite, ConsumeToken, SetupWrite,
             EnableWrite, Activate, DisableWrite, Typed, User
      <4>2. user'.failed <= d BY <1>0, <2>1, <4>1 DEF LockInv, LockedForCause
      <4>3. user'.locked => d >= MAX_LOGIN_ATTEMPTS
        BY <1>0, <2>1, <4>1 DEF LockInv, LockedForCause
      <4> QED BY <4>2, <4>3 DEF LockedForCause
    <3> QED BY <3>1, <3>2
  <2> QED BY <2>1, <2>2, <2>3 DEF LockInv
<1>2. CASE Expires \/ UNCHANGED vars
  <2>1. Wrong' = Wrong /\ UNCHANGED <<pc, job, seen>>
    BY <1>2, ExpiryStill DEF handler, Wrong
  <2>2. user'.failed = user.failed /\ user'.locked \in {user.locked, FALSE}
    BY <1>2 DEF Expires, LockExpires, LinkExpires, ChallengeExpires, vars, Typed, User
  <2> QED BY <2>1, <2>2 DEF LockInv, LockedForCause
<1> QED BY <1>1, <1>2, Shapes DEF Next, Expires

----------------------------------------------------------------------------
(* The second factor.                                                      *)

\* While MFA has been on since r arrived, the document and r's snapshot say so.
FactorInv ==
  /\ guarded # {} => user.mfaEnabled
  /\ \A r \in guarded :
       /\ pc[r] # "idle"
       /\ pc[r] = "write" => seen[r].mfaEnabled
  /\ SecondFactorAsked

\* Only the code of a disable turns MFA off, and that ends the time of all.
LEMMA FactorKept ==
  ASSUME Typed, NEW r \in Requests, Arrive(r) \/ Goes(r) \/ Turned(r) \/ Updates(r)
  PROVE  \/ guarded' = {}
         \/ /\ user.mfaEnabled => user'.mfaEnabled
            /\ guarded' \subseteq guarded \cup {r}
            /\ r \in guarded' \ guarded => user.mfaEnabled /\ pc'[r] = "find"
<1>1. CASE Arrive(r) BY <1>1 DEF Arrive, Typed
<1>2. CASE Goes(r) BY <1>2 DEF Goes, Continue, ghosts
<1>3. CASE Turned(r) BY <1>3 DEF Turned, Return, ghosts
<1>4. CASE Updates(r)
  BY <1>4 DEF Updates, LoginWrong, CountFailure, LoginRight, ChangeWrite, MagicRequestWrite,
              MagicVerifyWrite, ConsumeToken, SetupWrite, EnableWrite, Activate, DisableWrite,
              ghosts, Typed, User
<1> QED BY <1>1, <1>2, <1>3, <1>4

LEMMA FactorInit == Init => FactorInv
BY DEF Init, FactorInv, SecondFactorAsked

LEMMA FactorStep == Typed /\ FactorInv /\ [Next]_vars => FactorInv'
<1> SUFFICES ASSUME Typed, FactorInv, [Next]_vars PROVE FactorInv' OBVIOUS
<1>1. ASSUME NEW r \in Requests, Arrive(r) \/ Goes(r) \/ Turned(r) \/ Updates(r),
             guarded' # {}
      PROVE  FactorInv'
  <2>1. /\ user.mfaEnabled => user'.mfaEnabled
        /\ guarded' \subseteq guarded \cup {r}
        /\ r \in guarded' \ guarded => user.mfaEnabled /\ pc'[r] = "find"
    BY <1>1, FactorKept
  <2>2. user.mfaEnabled /\ user'.mfaEnabled BY <1>1, <2>1 DEF FactorInv
  <2>3. ASSUME NEW q \in guarded'
        PROVE  /\ pc'[q] # "idle"
               /\ pc'[q] = "write" => seen'[q].mfaEnabled
               /\ job'[q].op \in {"login", "magicVerify"} => reply'[q] # "session"
    <3>1. q \in Requests BY <2>1, <2>3 DEF Typed
    <3>2. CASE q # r BY <1>1, <2>1, <3>1, <3>2, OthersStill DEF Still, FactorInv, SecondFactorAsked
    <3>3. CASE q = r /\ Arrive(r) BY <3>3 DEF Arrive, Typed
    <3>4. CASE q = r /\ Goes(r) BY <2>2, <3>4 DEF Goes, Continue, Typed
    <3>5. CASE q = r /\ Turned(r) BY <3>5 DEF Turned, Return, Answer, Typed
    <3>6. CASE q = r /\ Updates(r)
      <4>1. pc[r] = "write" /\ pc'[r] = "done" /\ job'[r] = job[r]
        BY <3>6, UpdateEnds
      <4>2. r \in guarded BY <2>1, <2>3, <3>6, <4>1
      <4>3. seen[r].mfaEnabled BY <4>1, <4>2 DEF FactorInv
      <4>4. job[r].op \in {"login", "magicVerify"} => reply'[r] # "session"
        BY <3>6, <4>3 DEF Updates, LoginWrong, LoginRight, ChangeWrite, MagicRequestWrite,
             MagicVerifyWrite, SetupWrite, EnableWrite, DisableWrite, At, FirstFactor,
             Answer, Typed
      <4> QED BY <3>6, <4>1, <4>4
    <3> QED BY <1>1, <3>2, <3>3, <3>4, <3>5, <3>6
  <2> QED BY <2>2, <2>3 DEF FactorInv, SecondFactorAsked
<1>2. CASE guarded' = {} BY <1>2 DEF FactorInv, SecondFactorAsked
<1>3. CASE Expires \/ UNCHANGED vars
  <2>1. UNCHANGED <<pc, job, seen, reply, guarded>> BY <1>3, ExpiryStill DEF handler, ghosts
  <2>2. user.mfaEnabled => user'.mfaEnabled
    BY <1>3 DEF Expires, LockExpires, LinkExpires, ChallengeExpires, vars, Typed, User
  <2> QED BY <2>1, <2>2 DEF FactorInv, SecondFactorAsked
<1> QED BY <1>1, <1>2, <1>3, Shapes DEF Next, Expires

\* The secret in force is one that the user has confirmed, and so will be the one
\* that a confirmation under way puts in force.
ProvenInv ==
  /\ EnabledIsProven
  /\ \A r \in Requests :
       pc[r] = "write" /\ job[r].op = "enable" => seen[r].mfaPending = job[r].code

LEMMA ProvenInit == Init => ProvenInv
BY DEF Init, Registered, ProvenInv, EnabledIsProven

LEMMA ProvenStep == Typed /\ ProvenInv /\ [Next]_vars => ProvenInv'
<1> SUFFICES ASSUME Typed, ProvenInv, [Next]_vars PROVE ProvenInv' OBVIOUS
<1>1. ASSUME NEW r \in Requests, Arrive(r) \/ Goes(r) \/ Turned(r) \/ Updates(r)
      PROVE  ProvenInv'
  <2>1. /\ \A q \in Requests \ {r} : Still(q)
        /\ pc[r] # "done"
        /\ ~Arrive(r) => job' = job /\ pc[r] # "idle"
    BY <1>1, OthersStill
  <2>2. ASSUME NEW q \in Requests, pc'[q] = "write", job'[q].op = "enable"
        PROVE  seen'[q].mfaPending = job'[q].code
    <3>1. CASE q # r BY <2>1, <2>2, <3>1 DEF Still, ProvenInv
    <3>2. CASE q = r
      <4>1. Goes(r)
        BY <1>1, <2>2, <3>2, UpdateEnds DEF Arrive, Turned, Return, Answer, Typed
      <4> QED BY <2>1, <2>2, <3>2, <4>1 DEF Goes, Found, Continue, Typed
    <3> QED BY <3>1, <3>2
  <2>3. EnabledIsProven'
    <3>1. CASE EnableWrite(r)
      <4>1. /\ pc[r] = "write" /\ job[r].op = "enable" /\ job[r] \in Body
            /\ seen[r].mfaPending = job[r].code
        BY <3>1, UpdateEnds DEF EnableWrite, At, Updates, ProvenInv
      <4>2. job[r].code \in Secrets BY <4>1, BodyFields
      <4>3. user'.mfaEnabled = TRUE /\ user'.mfaSecret = job[r].code
        BY <3>1, <4>1 DEF EnableWrite, Activate, Typed, User
      <4>4. pc'[r] = "done" /\ reply'[r] = "ok" /\ job' = job
        BY <3>1 DEF EnableWrite, Answer, Typed
      <4> QED BY <4>1, <4>2, <4>3, <4>4, NoneIsNothing DEF EnabledIsProven
    <3>2. CASE DisableWrite(r)
      BY <3>2 DEF DisableWrite, Typed, User, EnabledIsProven
    <3>3. CASE ~EnableWrite(r) /\ ~DisableWrite(r)
      <4>1. user'.mfaEnabled = user.mfaEnabled /\ user'.mfaSecret = user.mfaSecret
        BY <1>1, <3>3 DEF Arrive, Goes, Continue, Turned, Return, Updates, LoginWrong,
             CountFailure, LoginRight, ChangeWrite, MagicRequestWrite, MagicVerifyWrite,
             ConsumeToken, SetupWrite, Typed, User
      <4>2. \A q \in Requests : pc[q] = "done" => Still(q) BY <2>1
      <4> QED BY <4>1, <4>2 DEF Still, ProvenInv, EnabledIsProven
    <3> QED BY <3>1, <3>2, <3>3
  <2> QED BY <2>2, <2>3 DEF ProvenInv
<1>2. CASE Expires \/ UNCHANGED vars
  <2>1. UNCHANGED <<pc, job, seen, reply>> BY <1>2, ExpiryStill DEF handler
  <2>2. user'.mfaEnabled = user.mfaEnabled /\ user'.mfaSecret = user.mfaSecret
    BY <1>2 DEF Expires, LockExpires, LinkExpires, ChallengeExpires, vars, Typed, User
  <2> QED BY <2>1, <2>2 DEF ProvenInv, EnabledIsProven
<1> QED BY <1>1, <1>2, Shapes DEF Next, Expires

----------------------------------------------------------------------------
(* Magic links.                                                            *)

\* Every token around is one that was mailed; one that was accepted is not stored,
\* and who arrives with it is refused.
LinkInv ==
  /\ user.magic # None => user.magic \in links
  /\ \A r \in Requests : job[r] # None /\ job[r].op = "magicVerify" => job[r].token \in links
  /\ \A r \in Requests : Accepted(r) => user.magic # job[r].token
  /\ \A r \in late :
       /\ job[r] # None /\ job[r].op = "magicVerify" /\ Spent(job[r].token)
       /\ pc[r] \in {"find", "done"} /\ ~Accepted(r)

\* Only an update accepts.
LEMMA Unaccepted ==
  ASSUME Typed, NEW r \in Requests, Arrive(r) \/ Goes(r) \/ Turned(r)
  PROVE  ~Accepted(r)'
<1>1. CASE Arrive(r) \/ Goes(r)
  <2>1. pc[r] # "done" BY OthersStill
  <2>2. reply'[r] = "none"
    BY <1>1, <2>1 DEF Arrive, Goes, Continue, Typed
  <2> QED BY <2>2 DEF Accepted
<1>2. CASE Turned(r)
  <2>1. \/ reply'[r] \notin {"session", "challenge"}
        \/ job'[r] = job[r] /\ job[r].op = "verifyMfaLogin"
    BY <1>2 DEF Turned, Return, Answer, Typed
  <2> QED BY <2>1 DEF Accepted
<1> QED BY <1>1, <1>2

\* What was accepted stays so.
LEMMA AcceptedStay ==
  ASSUME Typed, NEW r \in Requests, Arrive(r) \/ Goes(r) \/ Turned(r) \/ Updates(r),
         NEW q \in Requests
  PROVE  /\ Accepted(q) => Accepted(q)' /\ job'[q] = job[q]
         /\ q # r => (Accepted(q)' <=> Accepted(q)) /\ job'[q] = job[q]
<1>1. CASE q # r BY <1>1, OthersStill DEF Still, Accepted
<1>2. CASE q = r
  <2>1. pc[r] # "done" BY OthersStill
  <2>2. reply[r] = "none" BY <2>1 DEF Typed
  <2> QED BY <1>2, <2>2 DEF Accepted
<1> QED BY <1>1, <1>2

LEMMA LinkInit == Init => LinkInv
BY NoneIsNothing DEF Init, Registered, LinkInv, Accepted, Spent

\* The tokens after a step.
LEMMA TokenStep ==
  ASSUME Typed, LinkInv, NEW r \in Requests,
         Arrive(r) \/ Goes(r) \/ Turned(r) \/ Updates(r)
  PROVE  /\ links \subseteq links'
         /\ \/ user'.magic = user.magic
            \/ user'.magic = None
            \/ user'.magic \in links' \ links
         /\ user'.magic # None => user'.magic \in links'
         /\ Accepted(r)' => user'.magic = None
<1>1. CASE Arrive(r) \/ Goes(r) \/ Turned(r)
  <2>1. UNCHANGED <<user, links>> BY <1>1 DEF Arrive, Goes, Continue, Turned, Return, client
  <2> QED BY <1>1, <2>1, Unaccepted DEF LinkInv
<1>2. CASE MagicRequestWrite(r)
  <2>1. user'.magic \in links' \ links /\ links \subseteq links'
    BY <1>2 DEF MagicRequestWrite, Typed, User
  <2>2. job'[r].op = "magicRequest"
    BY <1>2 DEF MagicRequestWrite, At, Answer
  <2> QED BY <2>1, <2>2 DEF Accepted
<1>3. CASE MagicVerifyWrite(r)
  BY <1>3 DEF MagicVerifyWrite, ConsumeToken, Typed, User
<1>4. CASE Updates(r) /\ ~MagicRequestWrite(r) /\ ~MagicVerifyWrite(r)
  <2>1. user'.magic = user.magic /\ links' = links
    BY <1>4 DEF Updates, LoginWrong, CountFailure, LoginRight, ChangeWrite, SetupWrite,
         EnableWrite, Activate, DisableWrite, client, Typed, User
  <2>2. job'[r].op # "magicVerify"
    BY <1>4 DEF Updates, LoginWrong, LoginRight, ChangeWrite, SetupWrite, EnableWrite,
         DisableWrite, At, FirstFactor, Answer
  <2> QED BY <2>1, <2>2 DEF Accepted, LinkInv
<1> QED BY <1>1, <1>2, <1>3, <1>4

LEMMA LinkStep == Typed /\ LinkInv /\ [Next]_vars => LinkInv'
<1> SUFFICES ASSUME Typed, LinkInv, [Next]_vars PROVE LinkInv' OBVIOUS
<1>1. ASSUME NEW r \in Requests, Arrive(r) \/ Goes(r) \/ Turned(r) \/ Updates(r)
      PROVE  LinkInv'
  <2>1. /\ links \subseteq links'
        /\ \/ user'.magic = user.magic
           \/ user'.magic = None
           \/ user'.magic \in links' \ links
        /\ user'.magic # None => user'.magic \in links'
        /\ Accepted(r)' => user'.magic = None
    BY <1>1, TokenStep
  <2>2. /\ \A q \in Requests \ {r} : Still(q)
        /\ ~Arrive(r) => job' = job /\ pc[r] # "idle"
    BY <1>1, OthersStill
  <2>3. ASSUME NEW q \in Requests, job'[q] # None, job'[q].op = "magicVerify"
        PROVE  job'[q].token \in links'
    <3>1. CASE q # r \/ ~Arrive(r) BY <2>1, <2>2, <2>3, <3>1 DEF Still, LinkInv
    <3>2. CASE q = r /\ Arrive(r) BY <2>1, <2>3, <3>2 DEF Arrive, Bodies, Typed
    <3> QED BY <3>1, <3>2
  <2>4. ASSUME NEW q \in Requests, Accepted(q)'
        PROVE  user'.magic # job'[q].token
    <3>1. job'[q] # None /\ job'[q].op = "magicVerify" BY <2>4 DEF Accepted
    <3>2. CASE q # r
      <4>1. Accepted(q) /\ job'[q] = job[q] BY <1>1, <2>4, <3>2, AcceptedStay
      <4>2. user.magic # job[q].token /\ job[q].token \in links
        BY <3>1, <4>1 DEF LinkInv
      <4>3. job[q].token # None BY <4>2, NoneIsNothing DEF Typed
      <4> QED BY <2>1, <4>1, <4>2, <4>3
    <3>3. CASE q = r
      <4>1. job'[q].token \in links' BY <2>3, <3>1
      <4>2. links' \subseteq Tokens BY TypedStep DEF Typed
      <4> QED BY <2>1, <2>4, <3>3, <4>1, <4>2, NoneIsNothing
    <3> QED BY <3>2, <3>3
  <2>5. ASSUME NEW q \in Requests, NEW token, Spent(token)
        PROVE  Spent(token)'
    BY <1>1, <2>5, AcceptedStay DEF Spent
  <2>6. ASSUME NEW q \in late'
        PROVE  /\ job'[q] # None /\ job'[q].op = "magicVerify" /\ Spent(job[q].token)'
               /\ pc'[q] \in {"find", "done"} /\ ~Accepted(q)'
    <3>0. q \in Requests BY <2>6, TypedStep DEF Typed
    <3>1. ~Arrive(r) => late' = late
      BY <1>1, UpdateEnds DEF Goes, Continue, Turned, Return, ghosts
    <3>2. CASE q # r
      <4>1. q \in late BY <1>1, <2>6, <3>1, <3>2 DEF Arrive
      <4>2. /\ job[q] # None /\ job[q].op = "magicVerify" /\ Spent(job[q].token)
            /\ pc[q] \in {"find", "done"} /\ ~Accepted(q)
        BY <4>1 DEF LinkInv
      <4>3. Still(q) /\ (Accepted(q)' <=> Accepted(q))
        BY <1>1, <2>2, <3>0, <3>2, AcceptedStay
      <4>4. Spent(job[q].token)' BY <2>5, <4>2, <4>3 DEF Still, Spent
      <4> QED BY <4>2, <4>3, <4>4 DEF Still
    <3>3. CASE q = r /\ Arrive(r)
      <4>1. pc[r] = "idle" /\ job[r] = None /\ pc'[r] = "find"
        BY <3>3 DEF Arrive, Typed
      <4>2. r \notin late BY <4>1 DEF LinkInv
      <4>3. PICK b \in Bodies :
              /\ job' = [job EXCEPT ![r] = b]
              /\ late' = IF b.op = "magicVerify" /\ Spent(b.token) THEN late \cup {r} ELSE late
        BY <3>3 DEF Arrive
      <4>4. b.op = "magicVerify" /\ Spent(b.token) /\ job'[r] = b /\ b # None
        BY <2>6, <3>3, <4>2, <4>3, NoneIsNothing DEF Bodies, Typed
      <4>5. Spent(job[r].token)' BY <2>5, <4>4 DEF Spent
      <4> QED BY <3>3, <4>1, <4>4, <4>5, Unaccepted
    <3>4. CASE q = r /\ ~Arrive(r)
      <4>1. /\ r \in late /\ job' = job
            /\ job[r] # None /\ job[r].op = "magicVerify" /\ Spent(job[r].token)
            /\ pc[r] \in {"find", "done"}
        BY <2>2, <2>6, <3>1, <3>4 DEF LinkInv
      <4>2. user.magic # job[r].token BY <4>1 DEF Spent, LinkInv
      <4>3. Turned(r) BY <1>1, <3>4, <4>1, <4>2, UpdateEnds DEF Goes, Found
      <4>4. Spent(job[r].token)' BY <2>5, <4>1 DEF Spent
      <4>5. pc'[r] = "done" BY <4>3 DEF Turned, Return, Answer, Typed
      <4> QED BY <3>4, <4>1, <4>3, <4>4, <4>5, Unaccepted
    <3> QED BY <3>2, <3>3, <3>4
  <2> QED BY <2>1, <2>3, <2>4, <2>6 DEF LinkInv
<1>2. CASE Expires \/ UNCHANGED vars
  <2>1. UNCHANGED <<pc, job, reply, late>> BY <1>2, ExpiryStill DEF handler, ghosts
  <2>2. user'.magic = user.magic /\ links' = links
    BY <1>2 DEF Expires, LockExpires, LinkExpires, ChallengeExpires, vars, client, Typed, User
  <2> QED BY <2>1, <2>2 DEF LinkInv, Accepted, Spent
<1> QED BY <1>1, <1>2, Shapes DEF Next, Expires

----------------------------------------------------------------------------
(* The history.                                                            *)

\* While no change was computed from a stale document, the document remembers the
\* last passwords of the account; a change under way has compared with its snapshot.
HistoryInv ==
  /\ \A r \in Requests :
       pc[r] = "write" /\ job[r].op = "changePassword" =>
         job[r].new \notin Remembered(seen[r])
  /\ ~raced =>
       /\ user.password # None => past # <<>> /\ user.password = past[Len(past)]
       /\ \A i \in 1..PASSWORD_HISTORY :
            i < Len(past) => /\ i \in DOMAIN user.history
                             /\ user.history[i] = past[Len(past) - i]
       /\ Distinct(PASSWORD_HISTORY)

LEMMA HistoryInit == Init => HistoryInv
<1> SUFFICES ASSUME Init PROVE HistoryInv OBVIOUS
<1>1. PICK p \in Passwords \cup {None} :
        user = Registered(p) /\ past = IF p = None THEN <<>> ELSE <<p>>
  BY DEF Init
<1>2. user.password = p BY <1>1 DEF Registered
<1>3. CASE p = None
  BY <1>1, <1>2, <1>3 DEF Init, HistoryInv, Distinct
<1>4. CASE p # None
  <2>1. past = <<p>> /\ Len(past) = 1 /\ past[1] = p BY <1>1, <1>4
  <2>2. \A i \in 1..PASSWORD_HISTORY : ~(i < Len(past)) BY <2>1, AccountAssumption
  <2>3. Distinct(PASSWORD_HISTORY) BY <2>1 DEF Distinct
  <2> QED BY <1>2, <2>1, <2>2, <2>3 DEF Init, HistoryInv
<1> QED BY <1>3, <1>4

\* A change made from the document as it is, with a password that it does not remember.
LEMMA ChangeRemembers ==
  ASSUME NEW s \in Seq(Passwords), s # <<>>, NEW new \in Passwords,
         NEW h \in Seq(Passwords), Distinct(PASSWORD_HISTORY), past = s,
         new # s[Len(s)], \A i \in DOMAIN h : new # h[i],
         \A i \in 1..PASSWORD_HISTORY : i < Len(s) => i \in DOMAIN h /\ h[i] = s[Len(s) - i]
  PROVE  LET t == Append(s, new)
             g == Trimmed(<<s[Len(s)]>> \o h)
         IN  /\ \A i \in 1..PASSWORD_HISTORY :
                  i < Len(t) => i \in DOMAIN g /\ g[i] = t[Len(t) - i]
             /\ \A i, j \in DOMAIN t : i < j /\ j - i <= PASSWORD_HISTORY => t[i] # t[j]
<1> DEFINE t == Append(s, new)
           q == s[Len(s)]
           g == Trimmed(<<q>> \o h)
<1>1. /\ Len(s) \in Nat \ {0} /\ q \in Passwords /\ PASSWORD_HISTORY \in Nat \ {0}
      /\ DOMAIN s = 1..Len(s) /\ DOMAIN h = 1..Len(h) /\ Len(h) \in Nat
  BY AccountAssumption
<1>2. /\ Len(t) = Len(s) + 1 /\ DOMAIN t = 1..(Len(s) + 1)
      /\ t[Len(s) + 1] = new /\ \A i \in 1..Len(s) : t[i] = s[i]
  BY <1>1
<1>3. \A i \in 1..PASSWORD_HISTORY :
        i <= Len(h) + 1 => i \in DOMAIN g /\ g[i] = IF i = 1 THEN q ELSE h[i - 1]
  BY <1>1, TrimmedSeq
<1> HIDE DEF t, g
<1>4. ASSUME NEW i \in 1..PASSWORD_HISTORY, i < Len(t)
      PROVE  i \in DOMAIN g /\ g[i] = t[Len(t) - i]
  <2>1. CASE i = 1 BY <1>1, <1>2, <1>3, <1>4, <2>1
  <2>2. CASE i # 1
    <3>1. i - 1 \in 1..PASSWORD_HISTORY /\ i - 1 < Len(s) BY <1>1, <1>2, <1>4, <2>2
    <3>2. i - 1 \in DOMAIN h /\ h[i - 1] = s[Len(s) - (i - 1)] BY <3>1
    <3>3. i <= Len(h) + 1 BY <1>1, <3>2
    <3>4. i \in DOMAIN g /\ g[i] = h[i - 1] BY <1>3, <1>4, <2>2, <3>3
    <3>5. Len(t) - i = Len(s) - (i - 1) /\ Len(t) - i \in 1..Len(s)
      BY <1>1, <1>2, <1>4, <2>2, <3>1
    <3> QED BY <1>2, <3>2, <3>4, <3>5
  <2> QED BY <2>1, <2>2
<1>5. ASSUME NEW i \in DOMAIN t, NEW j \in DOMAIN t, i < j, j - i <= PASSWORD_HISTORY
      PROVE  t[i] # t[j]
  <2>1. CASE j <= Len(s)
    <3>1. i \in DOMAIN past /\ j \in DOMAIN past BY <1>1, <1>2, <1>5, <2>1
    <3>2. past[i] # past[j] BY <1>5, <3>1 DEF Distinct
    <3> QED BY <1>1, <1>2, <1>5, <2>1, <3>1, <3>2
  <2>2. CASE j = Len(s) + 1 /\ i = Len(s) BY <1>1, <1>2, <2>2
  <2>3. CASE j = Len(s) + 1 /\ i < Len(s)
    <3>1. Len(s) - i \in 1..PASSWORD_HISTORY /\ Len(s) - i < Len(s)
      BY <1>1, <1>2, <1>5, <2>3
    <3>2. Len(s) - i \in DOMAIN h /\ h[Len(s) - i] = s[Len(s) - (Len(s) - i)] BY <3>1
    <3>3. Len(s) - (Len(s) - i) = i BY <1>1, <1>2, <1>5
    <3>4. new # s[i] BY <3>2, <3>3
    <3> QED BY <1>1, <1>2, <1>5, <2>3, <3>4
  <2> QED BY <1>1, <1>2, <1>5, <2>1, <2>2, <2>3
<1> QED BY <1>4, <1>5 DEF t, g

LEMMA HistoryStep == Typed /\ HistoryInv /\ [Next]_vars => HistoryInv'
<1> SUFFICES ASSUME Typed, HistoryInv, [Next]_vars PROVE HistoryInv' OBVIOUS
<1>1. ASSUME NEW r \in Requests, Arrive(r) \/ Goes(r) \/ Turned(r) \/ Updates(r)
      PROVE  HistoryInv'
  <2>1. ASSUME NEW q \in Requests, pc'[q] = "write", job'[q].op = "changePassword"
        PROVE  job'[q].new \notin Remembered(seen'[q])
    <3>1. CASE q # r BY <1>1, <2>1, <3>1, OthersStill DEF Still, HistoryInv
    <3>2. CASE q = r
      <4>1. Goes(r)
        BY <1>1, <2>1, <3>2, UpdateEnds DEF Arrive, Turned, Return, Answer, Typed
      <4> QED BY <2>1, <3>2, <4>1 DEF Goes, Found, Continue, Typed
    <3> QED BY <3>1, <3>2
  <2>2. CASE ~ChangeWrite(r)
    <3>1. user'.password = user.password /\ user'.history = user.history
      BY <1>1, <2>2 DEF Arrive, Goes, Continue, Turned, Return, Updates, LoginWrong,
           CountFailure, LoginRight, MagicRequestWrite, MagicVerifyWrite, ConsumeToken,
           SetupWrite, EnableWrite, Activate, DisableWrite, Typed, User
    <3>2. past' = past /\ raced' = raced
      BY <1>1, <2>2 DEF Arrive, Goes, Continue, Turned, Return, Updates, LoginWrong,
           LoginRight, MagicRequestWrite, MagicVerifyWrite, SetupWrite, EnableWrite,
           DisableWrite, ghosts, passwords
    <3> QED BY <2>1, <3>1, <3>2 DEF HistoryInv, Distinct
  <2>3. CASE ChangeWrite(r) /\ ~raced'
    <3>1. /\ pc[r] = "write" /\ job[r] \in Body /\ job[r].op = "changePassword"
          /\ seen[r] \in User /\ seen[r].password # None
          /\ job[r].new \notin Remembered(seen[r])
      BY <2>3, UpdateEnds DEF ChangeWrite, At, Updates, Typed, HistoryInv
    <3>2. ~raced /\ seen[r].password = user.password /\ seen[r].history = user.history
      BY <2>3 DEF ChangeWrite
    <3>3. /\ user'.password = job[r].new
          /\ user'.history = Trimmed(<<user.password>> \o user.history)
          /\ past' = Append(past, job[r].new)
      BY <2>3, <3>2 DEF ChangeWrite, Typed, User
    <3>4. /\ past # <<>> /\ user.password = past[Len(past)] /\ Distinct(PASSWORD_HISTORY)
          /\ \A i \in 1..PASSWORD_HISTORY :
               i < Len(past) => /\ i \in DOMAIN user.history
                                /\ user.history[i] = past[Len(past) - i]
      BY <3>1, <3>2 DEF HistoryInv
    <3>5. /\ job[r].new # past[Len(past)]
          /\ \A i \in DOMAIN user.history : job[r].new # user.history[i]
      BY <3>1, <3>2, <3>4 DEF Remembered
    <3>6. job[r].new \in Passwords /\ past \in Seq(Passwords) /\ user.history \in Seq(Passwords)
      BY <3>1, BodyFields DEF Typed, User
    <3>7. /\ \A i \in 1..PASSWORD_HISTORY :
               i < Len(past') => i \in DOMAIN user'.history
                                 /\ user'.history[i] = past'[Len(past') - i]
          /\ \A i, j \in DOMAIN past' : i < j /\ j - i <= PASSWORD_HISTORY => past'[i] # past'[j]
      <4>1. LET t == Append(past, job[r].new)
                g == Trimmed(<<past[Len(past)]>> \o user.history)
            IN  /\ \A i \in 1..PASSWORD_HISTORY :
                     i < Len(t) => i \in DOMAIN g /\ g[i] = t[Len(t) - i]
                /\ \A i, j \in DOMAIN t : i < j /\ j - i <= PASSWORD_HISTORY => t[i] # t[j]
        BY <3>4, <3>5, <3>6, ChangeRemembers
      <4> QED BY <3>3, <3>4, <4>1
    <3>8. past' # <<>> /\ user'.password = past'[Len(past')] BY <3>3, <3>6
    <3> QED BY <2>1, <3>7, <3>8 DEF HistoryInv, Distinct
  <2>4. CASE raced' BY <2>1, <2>4 DEF HistoryInv
  <2> QED BY <2>2, <2>3, <2>4
<1>2. CASE Expires \/ UNCHANGED vars
  <2>1. UNCHANGED <<pc, job, seen, past, raced>>
    BY <1>2, ExpiryStill DEF handler, ghosts, passwords
  <2>2. user'.password = user.password /\ user'.history = user.history
    BY <1>2 DEF Expires, LockExpires, LinkExpires, ChallengeExpires, vars, Typed, User
  <2> QED BY <2>1, <2>2 DEF HistoryInv, Distinct
<1> QED BY <1>1, <1>2, Shapes DEF Next, Expires

----------------------------------------------------------------------------
(* The theorems.                                                           *)

AccountInv == Typed /\ LockInv /\ FactorInv /\ ProvenInv /\ LinkInv /\ HistoryInv

\* The inductive invariant holds of every behaviour.
THEOREM AccountInductive == Spec => []AccountInv
<1>1. Init => AccountInv
  BY TypedInit, LockInit, FactorInit, ProvenInit, LinkInit, HistoryInit DEF AccountInv
<1>2. AccountInv /\ [Next]_vars => AccountInv'
  BY TypedStep, LockStep, FactorStep, ProvenStep, LinkStep, HistoryStep DEF AccountInv
<1> QED BY <1>1, <1>2, PTL DEF Spec

\* The document keeps its schema (user.model.ts:66-130), the failure counter below
\* the limit included, whatever the handlers write back from their snapshots.
THEOREM Types == Spec => []AccountTypeOK
<1>1. AccountInv => AccountTypeOK
  BY NoneIsNothing DEF AccountInv, Typed, AccountTypeOK, Labels, Replies
<1> QED BY AccountInductive, <1>1, PTL

\* Lost updates of the counter (auth.service.ts:105-115) never lock the account
\* for fewer wrong passwords than the limit.
THEOREM Locked == Spec => []LockedForCause
<1>1. AccountInv => LockedForCause BY DEF AccountInv, LockInv
<1> QED BY AccountInductive, <1>1, PTL

\* While MFA is on, the first factor alone gives no session, though login decides
\* from the document read before its bcrypt check (auth.service.ts:105-139,
\* auth.controller.ts:73-98).
THEOREM Asked == Spec => []SecondFactorAsked
<1>1. AccountInv => SecondFactorAsked BY DEF AccountInv, FactorInv
<1> QED BY AccountInductive, <1>1, PTL

\* A setup that overlaps a confirmation never puts an unconfirmed secret in force
\* (mfa.service.ts:33-57).
THEOREM Proven == Spec => []EnabledIsProven
<1>1. AccountInv => EnabledIsProven BY DEF AccountInv, ProvenInv
<1> QED BY AccountInductive, <1>1, PTL

\* A link that was accepted is refused to every later request
\* (passwordless.service.ts:63-81).
THEOREM SingleUse == Spec => []LinkSingleUse
<1>1. AccountInv => LinkSingleUse BY DEF AccountInv, LinkInv, LinkSingleUse
<1> QED BY AccountInductive, <1>1, PTL

\* Over any number of changes none of which overlaps another, a new password is
\* none of the last PASSWORD_HISTORY ones (auth.service.ts:166-185).
THEOREM NoReuse == Spec => []NoRecentReuse
<1>1. AccountInv => NoRecentReuse BY DEF AccountInv, HistoryInv, NoRecentReuse
<1> QED BY AccountInductive, <1>1, PTL

\* Only the deadline or a proven password ends a lock (auth.service.ts:78-90, 126-131).
THEOREM LockStays == Spec => LockStands
<1> DEFINE Stands ==
      user.locked /\ ~user'.locked =>
        \/ user' = [user EXCEPT !.locked = FALSE] /\ UNCHANGED reply
        \/ \E r \in Requests :
             /\ pc[r] = "write" /\ job[r].op = "login"
             /\ reply'[r] \in {"session", "challenge"}
<1>1. AccountInv /\ [Next]_vars => [Stands]_vars
  <2> SUFFICES ASSUME Typed, Next, user.locked, ~user'.locked PROVE Stands
    BY DEF AccountInv
  <2>1. ASSUME NEW r \in Requests, LoginRight(r) PROVE Stands
    BY <2>1 DEF LoginRight, FirstFactor, Answer, At, Typed
  <2>2. ASSUME NEW r \in Requests, Arrive(r) \/ Goes(r) \/ Turned(r) \/ Updates(r),
               ~LoginRight(r)
        PROVE  FALSE
    BY <2>2 DEF Arrive, Goes, Continue, Turned, Return, Updates, LoginWrong, CountFailure,
         ChangeWrite, MagicRequestWrite, MagicVerifyWrite, ConsumeToken, SetupWrite,
         EnableWrite, Activate, DisableWrite, Typed, User
  <2>3. CASE Expires
    BY <2>3 DEF Expires, LockExpires, LinkExpires, ChallengeExpires, handler, Typed, User
  <2> QED BY <2>1, <2>2, <2>3, Shapes DEF Next, Expires
<1> QED BY AccountInductive, <1>1, PTL DEF Spec, LockStands
=============================================================================
