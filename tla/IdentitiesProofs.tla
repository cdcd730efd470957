-------------------------- MODULE IdentitiesProofs --------------------------
(***************************************************************************)
(* Proofs about Identities for any number of requests, emails, Google      *)
(* identities and changes of their email.                                  *)
(***************************************************************************)
EXTENDS Identities, TLAPS

\* Initially nobody has an account.
LEMMA InitInv == Init => IdentitiesInv
<1> SUFFICES ASSUME Init PROVE IdentitiesInv OBVIOUS
<1>1. IdentitiesTypeOK
  BY IdentitiesAssumption DEF Init, IdentitiesTypeOK, Labels
<1> QED
  BY <1>1 DEF Init, IdentitiesInv, OneAccountPerEmail, OneDocumentPerId, Stages, MailKept

----------------------------------------------------------------------------
(* Steps that leave the documents alone.                                   *)

\* A handler that starts, looks up or fails.
LEMMA LookupStep ==
  ASSUME IdentitiesInv, NEW r \in Requests,
         \/ StartRegister(r) \/ FindEmail(r) \/ StartGoogle(r)
         \/ FindByOAuth(r) \/ FindByEmail(r)
  PROVE  IdentitiesInv'
<1> USE IdentitiesAssumption DEF IdentitiesInv
<1>1. CASE StartRegister(r)
  <2> USE <1>1 DEF StartRegister, Goto
  <2>1. IdentitiesTypeOK' BY DEF IdentitiesTypeOK, Labels
  <2>2. OneAccountPerEmail' BY DEF OneAccountPerEmail
  <2>3. OneDocumentPerId' BY DEF OneDocumentPerId, IdentitiesTypeOK, User
  <2>4. Stages' BY DEF Stages, IdentitiesTypeOK
  <2>5. (renames = 0 => MailKept)' BY DEF MailKept, IdentitiesTypeOK, Stages
  <2> QED BY <2>1, <2>2, <2>3, <2>4, <2>5
<1>2. CASE FindEmail(r)
  <2> USE <1>2 DEF FindEmail, Goto, Fail
  <2>1. IdentitiesTypeOK' BY DEF IdentitiesTypeOK, Labels
  <2>2. OneAccountPerEmail' BY DEF OneAccountPerEmail
  <2>3. OneDocumentPerId' BY DEF OneDocumentPerId, IdentitiesTypeOK, User
  <2>4. Stages' BY DEF Stages, IdentitiesTypeOK
  <2>5. (renames = 0 => MailKept)' BY DEF MailKept, IdentitiesTypeOK, Stages
  <2> QED BY <2>1, <2>2, <2>3, <2>4, <2>5
<1>3. CASE StartGoogle(r)
  <2> USE <1>3 DEF StartGoogle, Goto
  <2>1. IdentitiesTypeOK' BY DEF IdentitiesTypeOK, Labels
  <2>2. OneAccountPerEmail' BY DEF OneAccountPerEmail
  <2>3. OneDocumentPerId' BY DEF OneDocumentPerId, IdentitiesTypeOK, User
  <2>4. Stages' BY DEF Stages, IdentitiesTypeOK
  <2>5. (renames = 0 => MailKept)' BY DEF MailKept, IdentitiesTypeOK, Stages
  <2> QED BY <2>1, <2>2, <2>3, <2>4, <2>5
<1>4. CASE FindByOAuth(r)
  <2> USE <1>4 DEF FindByOAuth, Goto, SignIn, LinkedTo
  <2>1. IdentitiesTypeOK' BY DEF IdentitiesTypeOK, Labels, User
  <2>2. OneAccountPerEmail' BY DEF OneAccountPerEmail
  <2>3. OneDocumentPerId' BY DEF OneDocumentPerId, IdentitiesTypeOK, User
  <2>4. Stages' BY DEF Stages, IdentitiesTypeOK
  <2>5. (renames = 0 => MailKept)' BY DEF MailKept, IdentitiesTypeOK, Stages
  <2> QED BY <2>1, <2>2, <2>3, <2>4, <2>5
<1>5. CASE FindByEmail(r)
  <2> USE <1>5 DEF FindByEmail, Goto
  <2>1. IdentitiesTypeOK' BY DEF IdentitiesTypeOK, Labels, User
  <2>2. OneAccountPerEmail' BY DEF OneAccountPerEmail
  <2>3. OneDocumentPerId' BY DEF OneDocumentPerId, IdentitiesTypeOK, User
  <2>4. Stages' BY DEF Stages, IdentitiesTypeOK
  <2>5. (renames = 0 => MailKept)' BY DEF MailKept, IdentitiesTypeOK, Stages
  <2> QED BY <2>1, <2>2, <2>3, <2>4, <2>5
<1> QED BY <1>1, <1>2, <1>3, <1>4, <1>5

----------------------------------------------------------------------------
(* Steps that write a document.                                            *)

\* create adds a document under the index, or fails (auth.service.ts:44-52,
\* oauth.service.ts:98-105): r has no document yet, since it has not ended.
LEMMA CreateStep ==
  ASSUME IdentitiesInv, NEW r \in Requests, CreateLocal(r) \/ CreateGoogle(r)
  PROVE  IdentitiesInv'
<1> USE IdentitiesAssumption DEF IdentitiesInv
<1>1. PICK provider \in {"local", "google"} :
        /\ pc[r] = "create"
        /\ Create(r, provider)
        /\ UNCHANGED <<mailOf, renames, sub, email, prior>>
  BY DEF CreateLocal, CreateGoogle
<1>2. CASE ~EmailIsFree(email[r])
  <2> USE <1>1, <1>2 DEF Create, Fail, Goto
  <2>1. IdentitiesTypeOK' BY DEF IdentitiesTypeOK, Labels
  <2>2. OneAccountPerEmail' BY DEF OneAccountPerEmail
  <2>3. OneDocumentPerId' BY DEF OneDocumentPerId, IdentitiesTypeOK, User
  <2>4. Stages' BY DEF Stages, IdentitiesTypeOK
  <2>5. (renames = 0 => MailKept)' BY DEF MailKept, IdentitiesTypeOK, Stages
  <2> QED BY <2>1, <2>2, <2>3, <2>4, <2>5
<1>3. CASE EmailIsFree(email[r])
  <2> DEFINE doc == [id |-> r, email |-> email[r], authProvider |-> provider,
                     oauthId |-> sub[r]]
  <2>1. /\ users' = users \cup {doc}
        /\ pc' = [pc EXCEPT ![r] = "done"]
        /\ account' = [account EXCEPT ![r] = r]
        /\ UNCHANGED <<mailOf, renames, sub, email, found, prior>>
    BY <1>1, <1>3 DEF Create, SignIn, Goto
  <2>2. doc \in User
    BY <1>1 DEF User, Stages, IdentitiesTypeOK
  <2>3. doc.id = r /\ doc.email = email[r] /\ doc.oauthId = sub[r]
    OBVIOUS
  <2>4. \A u \in users : u.id # r /\ u.email # email[r]
    BY <1>1, <1>3 DEF OneDocumentPerId, EmailIsFree
  <2> HIDE DEF doc
  <2>5. IdentitiesTypeOK'
    BY <2>1, <2>2, <2>3 DEF IdentitiesTypeOK, Labels
  <2>6. OneAccountPerEmail'
    BY <2>1, <2>3, <2>4 DEF OneAccountPerEmail
  <2>7. OneDocumentPerId'
    BY <2>1, <2>3, <2>4 DEF OneDocumentPerId, IdentitiesTypeOK, User
  <2>8. Stages'
    BY <2>1 DEF Stages, IdentitiesTypeOK
  <2>9. (renames = 0 => MailKept)'
    BY <2>1, <2>3 DEF MailKept, IdentitiesTypeOK
  <2> QED BY <2>5, <2>6, <2>7, <2>8, <2>9
<1> QED BY <1>2, <1>3

\* Link changes the identity of one document and neither its id nor its email
\* (oauth.service.ts:91-96).
LEMMA LinkStep ==
  ASSUME IdentitiesInv, NEW r \in Requests, Link(r)
  PROVE  IdentitiesInv'
<1> USE IdentitiesAssumption DEF IdentitiesInv
<1> DEFINE linked(u) == IF u.id = found[r] THEN [u EXCEPT !.oauthId = sub[r]] ELSE u
<1>1. /\ pc[r] = "link"
      /\ users' = {linked(u) : u \in users}
      /\ pc' = [pc EXCEPT ![r] = "done"]
      /\ account' = [account EXCEPT ![r] = found[r]]
      /\ UNCHANGED <<mailOf, renames, sub, email, found, prior>>
  BY DEF Link, SignIn, Goto
<1>2. ASSUME NEW u \in users
      PROVE  /\ linked(u) \in User
             /\ linked(u).id = u.id /\ linked(u).email = u.email
             /\ linked(u).oauthId = IF u.id = found[r] THEN sub[r] ELSE u.oauthId
  BY DEF IdentitiesTypeOK, User
<1> HIDE DEF linked
<1>3. IdentitiesTypeOK'
  <2>1. users' \subseteq User BY <1>1, <1>2
  <2>2. \E u \in users' : u.id = found[r]
    BY <1>1, <1>2 DEF IdentitiesTypeOK
  <2>3. \A id : (\E u \in users : u.id = id) => \E u \in users' : u.id = id
    BY <1>1, <1>2
  <2> QED BY <1>1, <2>1, <2>2, <2>3 DEF IdentitiesTypeOK, Labels
<1>4. OneAccountPerEmail'
  BY <1>1, <1>2 DEF OneAccountPerEmail
<1>5. OneDocumentPerId'
  <2>1. \A u, v \in users' : u.id = v.id => u = v
    BY <1>1, <1>2 DEF OneDocumentPerId
  <2>2. \A u \in users' : pc'[u.id] = "done"
    BY <1>1, <1>2 DEF OneDocumentPerId, IdentitiesTypeOK, User
  <2> QED BY <2>1, <2>2 DEF OneDocumentPerId
<1>6. Stages'
  BY <1>1 DEF Stages, IdentitiesTypeOK
<1>7. ASSUME renames' = 0 PROVE MailKept'
  <2>1. MailKept BY <1>1, <1>7
  <2>2. PICK d \in users : d.id = found[r] /\ d.email = email[r]
    BY <1>1, <2>1 DEF MailKept
  <2>3. sub[r] # None /\ email[r] = mailOf[sub[r]]
    BY <1>1, <2>1 DEF MailKept, Stages
  <2>4. \A u \in users : u.id = found[r] => u = d
    BY <2>2 DEF OneDocumentPerId
  <2>5. \A u \in users' : u.oauthId # None => u.email = mailOf'[u.oauthId]
    BY <1>1, <1>2, <2>1, <2>2, <2>3, <2>4 DEF MailKept
  <2>6. \A q \in Requests : sub'[q] # None => email'[q] = mailOf'[sub'[q]]
    BY <1>1, <2>1 DEF MailKept
  <2>7. \A q \in Requests :
          pc'[q] = "link" => \E u \in users' : u.id = found'[q] /\ u.email = email'[q]
    BY <1>1, <1>2, <2>1 DEF MailKept, IdentitiesTypeOK
  <2>8. \A q \in Requests :
          pc'[q] = "done" /\ sub'[q] # None =>
            \E u \in users' : u.id = account'[q] /\ u.email = mailOf'[sub'[q]]
    BY <1>1, <1>2, <2>1, <2>2, <2>3 DEF MailKept, IdentitiesTypeOK
  <2> QED BY <2>5, <2>6, <2>7, <2>8 DEF MailKept
<1> QED BY <1>3, <1>4, <1>5, <1>6, <1>7

\* Once an email has changed, MailKept is promised no more.
LEMMA RenameStep == IdentitiesInv /\ Rename => IdentitiesInv'
<1> SUFFICES ASSUME IdentitiesInv, Rename PROVE IdentitiesInv' OBVIOUS
<1> USE IdentitiesAssumption DEF IdentitiesInv
<1>1. renames' # 0 /\ renames' \in 0..MaxRenames
  BY DEF Rename, IdentitiesTypeOK
<1>2. mailOf' \in [Subjects -> Emails \cup {None}]
  BY DEF Rename, IdentitiesTypeOK
<1>3. UNCHANGED <<users, pc, sub, email, found, account>>
  BY DEF Rename, handler
<1> QED
  BY <1>1, <1>2, <1>3
     DEF IdentitiesTypeOK, OneAccountPerEmail, OneDocumentPerId, Stages

----------------------------------------------------------------------------
(* The theorems.                                                           *)

\* The inductive invariant holds of every behaviour.
THEOREM Invariant == Spec => []IdentitiesInv
<1>1. IdentitiesInv /\ [Next]_vars => IdentitiesInv'
  <2>1. IdentitiesInv /\ Next => IdentitiesInv'
    BY LookupStep, CreateStep, LinkStep, RenameStep DEF Next, Handler
  <2>2. IdentitiesInv /\ UNCHANGED vars => IdentitiesInv'
    BY DEF vars, handler, IdentitiesInv, IdentitiesTypeOK, OneAccountPerEmail,
           OneDocumentPerId, Stages, MailKept
  <2> QED BY <2>1, <2>2
<1> QED BY InitInv, <1>1, PTL DEF Spec

\* Overlapping registrations and first sign-ins leave one account for an email
\* (the unique index of user.model.ts:69-76).
THEOREM OneAccount == Spec => []OneAccountPerEmail
<1>1. IdentitiesInv => OneAccountPerEmail BY DEF IdentitiesInv
<1> QED BY Invariant, <1>1, PTL

\* While no email changes, every sign-in of an identity reaches one account
\* (oauth.service.ts:81-106): what it finds, links or creates has the identity's
\* email, and one account has that.
THEOREM SameAccount == Spec => []SameAccountWhileEmailKept
<1>1. IdentitiesInv => SameAccountWhileEmailKept
  <2> SUFFICES ASSUME IdentitiesInv, renames = 0, NEW q \in Requests, NEW r \in Requests,
                      pc[q] = "done", pc[r] = "done", sub[q] # None, sub[q] = sub[r]
               PROVE  account[q] = account[r]
    BY DEF SameAccountWhileEmailKept
  <2>1. PICK u \in users : u.id = account[q] /\ u.email = mailOf[sub[q]]
    BY DEF IdentitiesInv, MailKept
  <2>2. PICK v \in users : v.id = account[r] /\ v.email = mailOf[sub[r]]
    BY DEF IdentitiesInv, MailKept
  <2> QED BY <2>1, <2>2 DEF IdentitiesInv, OneAccountPerEmail
<1> QED BY Invariant, <1>1, PTL
=============================================================================
