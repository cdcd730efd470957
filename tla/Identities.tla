----------------------------- MODULE Identities -----------------------------
(***************************************************************************)
(* How accounts come to be and how Google identities find theirs: register *)
(* (auth.service.ts) and loginWithGoogle (oauth.service.ts) over the users *)
(* collection with its unique index on email. A document has the id of the *)
(* request that created it. Google itself is external: it vouches for a    *)
(* subject id and for the verified email the identity has at that moment.  *)
(***************************************************************************)
EXTENDS Integers, FiniteSets

CONSTANTS Requests, Emails,
          Subjects,   \* Google identities, by their immutable subject id
          None,
          MaxRenames  \* bound on changes of an identity's email

ASSUME IdentitiesAssumption ==
  /\ None \notin Subjects \cup Emails \cup Requests
  /\ MaxRenames \in Nat

VARIABLES users,   \* the collection
          mailOf,  \* external: the email of each identity, None if unverified
          renames,
          pc,      \* the await the handler of a request is blocked on
          sub,     \* the identity that signs in; None for register
          email,   \* the email the handler works with
          found,   \* the document findByEmail returned
          account, \* the document the request ended signed in to
          prior    \* ghost: the requests that had ended when this one began

handler == <<pc, sub, email, found, account, prior>>
vars == <<users, mailOf, renames, handler>>

User == [id : Requests, email : Emails, authProvider : {"local", "google"},
         oauthId : Subjects \cup {None}]

Labels ==
  {"idle", "findEmail", "findByOAuth", "findByEmail", "link", "create", "done", "failed"}

\* At one time an email belongs to one identity.
OneOwner(mails) ==
  \A s, t \in Subjects : mails[s] = mails[t] /\ mails[s] # None => s = t

Init ==
  /\ users = {}
  /\ mailOf \in {m \in [Subjects -> Emails \cup {None}] : OneOwner(m)}
  /\ renames = 0
  /\ pc = [r \in Requests |-> "idle"]
  /\ sub = [r \in Requests |-> None]
  /\ email = [r \in Requests |-> None]
  /\ found = [r \in Requests |-> None]
  /\ account = [r \in Requests |-> None]
  /\ prior = [r \in Requests |-> {}]

----------------------------------------------------------------------------
Goto(r, label) == pc' = [pc EXCEPT ![r] = label]
Begin(r) == prior' = [prior EXCEPT ![r] = {q \in Requests : pc[q] = "done"}]
Fail(r) == Goto(r, "failed") /\ UNCHANGED <<found, account>>

\* The request ends with a session for this document.
SignIn(r, id) ==
  /\ Goto(r, "done")
  /\ account' = [account EXCEPT ![r] = id]
  /\ UNCHANGED found

\* Variant: no unique index.
AnyEmail(e) == TRUE

\* The unique index on email accepts a new document.
EmailIsFree(e) == \A u \in users : u.email # e

\* create: the index decides, not the lookup made before.
Create(r, provider) ==
  \/ /\ EmailIsFree(email[r])
     /\ users' = users \cup
          {[id |-> r, email |-> email[r], authProvider |-> provider, oauthId |-> sub[r]]}
     /\ SignIn(r, r)
  \/ /\ ~EmailIsFree(email[r])
     /\ Fail(r)
     /\ UNCHANGED users

----------------------------------------------------------------------------
(* register: findByEmail, hash, create.                                    *)

StartRegister(r) ==
  /\ pc[r] = "idle"
  /\ \E e \in Emails : email' = [email EXCEPT ![r] = e]
  /\ Goto(r, "findEmail")
  /\ Begin(r)
  /\ UNCHANGED <<users, mailOf, renames, sub, found, account>>

FindEmail(r) ==
  /\ pc[r] = "findEmail"
  /\ IF \E u \in users : u.email = email[r]
     THEN Fail(r)
     ELSE Goto(r, "create") /\ UNCHANGED <<found, account>>
  /\ UNCHANGED <<users, mailOf, renames, sub, email, prior>>

CreateLocal(r) ==
  /\ pc[r] = "create" /\ sub[r] = None
  /\ Create(r, "local")
  /\ UNCHANGED <<mailOf, renames, sub, email, prior>>

----------------------------------------------------------------------------
(* loginWithGoogle.                                                        *)

\* fetchGoogleProfile has answered; a profile without verified email is refused.
StartGoogle(r) ==
  /\ pc[r] = "idle"
  /\ \E s \in Subjects :
       /\ sub' = [sub EXCEPT ![r] = s]
       /\ email' = [email EXCEPT ![r] = mailOf[s]]
       /\ Goto(r, IF mailOf[s] = None THEN "failed" ELSE "findByOAuth")
  /\ Begin(r)
  /\ UNCHANGED <<users, mailOf, renames, found, account>>

\* Variant: the subject id is not part of the query.
AnyGoogle(u, s) == u.authProvider = "google"

\* The filter of findByOAuth('google', s).
LinkedTo(u, s) == u.authProvider = "google" /\ u.oauthId = s

FindByOAuth(r) ==
  /\ pc[r] = "findByOAuth"
  /\ \/ \E u \in users : LinkedTo(u, sub[r]) /\ SignIn(r, u.id)
     \/ /\ \A u \in users : ~LinkedTo(u, sub[r])
        /\ Goto(r, "findByEmail")
        /\ UNCHANGED <<found, account>>
  /\ UNCHANGED <<users, mailOf, renames, sub, email, prior>>

FindByEmail(r) ==
  /\ pc[r] = "findByEmail"
  /\ \/ \E u \in users :
          /\ u.email = email[r]
          /\ found' = [found EXCEPT ![r] = u.id]
          /\ Goto(r, "link")
     \/ /\ \A u \in users : u.email # email[r]
        /\ Goto(r, "create")
        /\ UNCHANGED found
  /\ UNCHANGED <<users, mailOf, renames, sub, email, account, prior>>

\* The link overwrites whatever identity the document was linked to; a local
\* account stays local.
Link(r) ==
  /\ pc[r] = "link"
  /\ users' = {IF u.id = found[r] THEN [u EXCEPT !.oauthId = sub[r]] ELSE u : u \in users}
  /\ SignIn(r, found[r])
  /\ UNCHANGED <<mailOf, renames, sub, email, prior>>

CreateGoogle(r) ==
  /\ pc[r] = "create" /\ sub[r] # None
  /\ Create(r, "google")
  /\ UNCHANGED <<mailOf, renames, sub, email, prior>>

\* An identity changes its email at Google.
Rename ==
  /\ renames < MaxRenames
  /\ renames' = renames + 1
  /\ \E s \in Subjects, e \in Emails :
       /\ OneOwner([mailOf EXCEPT ![s] = e])
       /\ mailOf' = [mailOf EXCEPT ![s] = e]
  /\ UNCHANGED <<users, handler>>

Handler(r) ==
  \/ StartRegister(r) \/ FindEmail(r) \/ CreateLocal(r)
  \/ StartGoogle(r) \/ FindByOAuth(r) \/ FindByEmail(r) \/ Link(r) \/ CreateGoogle(r)

Next == (\E r \in Requests : Handler(r)) \/ Rename

Spec == Init /\ [][Next]_vars

----------------------------------------------------------------------------
\* Variables have their types, and a handler that links a document or answers
\* with one has one that exists.
IdentitiesTypeOK ==
  /\ users \subseteq User
  /\ mailOf \in [Subjects -> Emails \cup {None}]
  /\ renames \in 0..MaxRenames
  /\ pc \in [Requests -> Labels]
  /\ sub \in [Requests -> Subjects \cup {None}]
  /\ email \in [Requests -> Emails \cup {None}]
  /\ found \in [Requests -> Requests \cup {None}]
  /\ account \in [Requests -> Requests \cup {None}]
  /\ \A r \in Requests : pc[r] = "link" => \E u \in users : u.id = found[r]
  /\ \A r \in Requests : pc[r] = "done" => \E u \in users : u.id = account[r]

\* Overlapping first sign-ins and registrations never leave two accounts with one
\* email, although each looked for the other before it created its own.
OneAccountPerEmail == \A u, v \in users : u.email = v.email => u = v

\* While nobody's email changes, all sign-ins of an identity that succeed reach
\* one account, whether it was registered, linked or created, and by whom.
SameAccountWhileEmailKept ==
  renames = 0 =>
    \A q, r \in Requests :
      pc[q] = "done" /\ pc[r] = "done" /\ sub[q] # None /\ sub[q] = sub[r]
        => account[q] = account[r]

\* What SameAccountWhileEmailKept rests on: a handler works with the email of its
\* identity, and what it links, is linked to or signs in to has that email.
MailKept ==
  /\ \A u \in users : u.oauthId # None => u.email = mailOf[u.oauthId]
  /\ \A r \in Requests : sub[r] # None => email[r] = mailOf[sub[r]]
  /\ \A r \in Requests :
       pc[r] = "link" => \E u \in users : u.id = found[r] /\ u.email = email[r]
  /\ \A r \in Requests :
       pc[r] = "done" /\ sub[r] # None =>
         \E u \in users : u.id = account[r] /\ u.email = mailOf[sub[r]]

\* Only a Google sign-in links, and every handler at work has an email.
Stages ==
  \A r \in Requests :
    /\ pc[r] \in {"findByOAuth", "findByEmail", "link"} => sub[r] # None
    /\ pc[r] \in {"idle", "findEmail"} => sub[r] = None
    /\ pc[r] \in {"findEmail", "findByOAuth", "findByEmail", "link", "create"} =>
         email[r] \in Emails

\* A document has the id of one request, which has ended.
OneDocumentPerId ==
  /\ \A u, v \in users : u.id = v.id => u = v
  /\ \A u \in users : pc[u.id] = "done"

\* The inductive invariant.
IdentitiesInv ==
  /\ IdentitiesTypeOK
  /\ OneAccountPerEmail
  /\ OneDocumentPerId
  /\ Stages
  /\ renames = 0 => MailKept

\* The sign-ins of an identity do not overlap.
OneByOne(s) ==
  \A q, r \in Requests :
    q # r /\ sub[q] = s /\ sub[r] = s => q \in prior[r] \/ r \in prior[q]

\* While its sign-ins come one by one, an identity that has signed in reaches the same
\* account again, also after its email has changed: the subject id is what identifies
\* it (user.repository.ts:20, oauth.service.ts:84).
IdentityKeepsAccount ==
  \A r \in Requests : \A q \in prior[r] :
    pc[r] = "done" /\ sub[r] # None /\ sub[q] = sub[r] /\ OneByOne(sub[r])
      => account[q] = account[r]
=============================================================================
