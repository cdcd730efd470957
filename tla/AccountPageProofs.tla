------------------------- MODULE AccountPageProofs -------------------------
(***************************************************************************)
(* Proofs about AccountPage for any number of tabs, accounts and texts:    *)
(* what is stored is encrypted, what is saved goes to the account that the *)
(* form shows, and an update leaves alone what it does not name. What is   *)
(* proved of Session holds under the account page too.                     *)
(***************************************************************************)
EXTENDS AccountPage, SessionProofs

Writes == {"save", "import"}

----------------------------------------------------------------------------
(* A field and a profile.                                                  *)

\* Encryption and decryption keep what a value reads as; what has been through
\* encryption is empty or has the format of a ciphertext (utils/crypto.ts).
LEMMA ValueCipher ==
  ASSUME NEW v \in Value
  PROVE  /\ encryptValue(v) \in Value /\ encryptValue(v).text = v.text
         /\ encryptValue(v).text # Blank => isCiphertext(encryptValue(v))
         /\ decryptValue(v) \in Value /\ decryptValue(v).text = v.text
BY DEF Value, encryptValue, decryptValue, isCiphertext

\* An update encrypts the fields that it names and keeps the others
\* (user.service.ts:16-38).
LEMMA Updated ==
  ASSUME NEW p \in Profile, NEW c \in Patch
  PROVE  /\ updateProfile(p, c) \in Profile
         /\ \A f \in Fields :
              IF f \in DOMAIN c THEN updateProfile(p, c)[f] = encryptValue(c[f]) /\ c[f] \in Value
                                ELSE updateProfile(p, c)[f] = p[f]
<1>1. DOMAIN c \subseteq Fields /\ \A f \in DOMAIN c : c[f] \in Value
  BY DEF Patch, Profile, Fields
<1>2. \A f \in Fields : p[f] \in Value BY DEF Profile
<1>3. \A f \in DOMAIN c : encryptValue(c[f]) \in Value BY <1>1, ValueCipher
<1> QED BY <1>1, <1>2, <1>3 DEF updateProfile, Profile

LEMMA Decrypted ==
  ASSUME NEW p \in Profile
  PROVE  /\ decryptUserPII(p) \in Profile
         /\ \A f \in Fields : decryptUserPII(p)[f].text = p[f].text
<1>1. \A f \in Fields : p[f] \in Value BY DEF Profile
<1> QED BY <1>1, ValueCipher DEF decryptUserPII, Profile

----------------------------------------------------------------------------
(* What a tab's steps do to what the form rests on.                        *)

\* The tabs beside t are as they were.
Others(t) ==
  \A x \in Tabs \ {t} : /\ page'[x] = page[x] /\ arrived'[x] = arrived[x]
                        /\ queries'[x] = queries[x] /\ call'[x] = call[x]

\* A tab that comes to a page asks with the session that it comes with, and if
\* a save or an import is under way it comes to login.
LEMMA LeavesEffect ==
  ASSUME SInv, NEW t \in Tabs, Leaves(t)
  PROVE  /\ Others(t)
         /\ \A q \in queries'[t] : q.session # None => q.session = arrived'[t].session
         /\ \/ call'[t] = Idle
            \/ call' = call /\ (call[t].op \in Writes => page'[t] = "login" \/ page[t] = "cart")
<1>1. /\ page \in [Tabs -> Pages] /\ arrived \in [Tabs -> [session : Session, whole : BOOLEAN]]
      /\ queries \in [Tabs -> SUBSET Query] /\ call \in [Tabs -> Call]
  BY DEF SInv, Screen, ScreenOK, Calls
<1>2. \A q \in Late(t) : q.session = None BY DEF Late
<1>3. ASSUME NEW p, NEW n, NEW late, Visit(t, p, n, late), \A q \in late : q.session = None
      PROVE  /\ page'[t] = p
             /\ \A x \in Tabs \ {t} : /\ page'[x] = page[x] /\ arrived'[x] = arrived[x]
                                      /\ queries'[x] = queries[x]
             /\ \A q \in queries'[t] : q.session # None => q.session = arrived'[t].session
  BY <1>1, <1>3 DEF Visit, Mounted
<1>4. ASSUME NEW n, NEW late, PushLogin(t, n, late), \A q \in late : q.session = None
      PROVE  /\ page'[t] = "login"
             /\ \A x \in Tabs \ {t} : /\ page'[x] = page[x] /\ arrived'[x] = arrived[x]
                                      /\ queries'[x] = queries[x]
             /\ \A q \in queries'[t] : q.session # None => q.session = arrived'[t].session
  BY <1>1, <1>3, <1>4 DEF PushLogin, Push
<1>5. ASSUME NEW p, NEW n, Document(t, p, n)
      PROVE  /\ Others(t) /\ call'[t] = Idle
             /\ \A q \in queries'[t] : q.session # None => q.session = arrived'[t].session
  BY <1>1, <1>5 DEF Document, Mounted, Others
<1>6. CASE \/ \E p \in Pages, n \in {"shop", "account"} : Load(t, p, n)
           \/ \E a \in Accounts : GoogleReturn(t, a)
  BY <1>5, <1>6 DEF Load, GoogleReturn
<1>7. CASE Back(t) BY <1>2, <1>3, <1>7 DEF Back, Others, Writes
<1>8. CASE Proceed(t) BY <1>2, <1>3, <1>8 DEF Proceed, Push, Others
<1>9. CASE Replaced(t) BY <1>2, <1>3, <1>9 DEF Replaced, Others
<1>10. ASSUME NEW q \in queries[t], QueryRefused(t, q)
       PROVE  /\ page'[t] = "login" /\ call' = call /\ Others(t)
              /\ \A r \in queries'[t] : r.session # None => r.session = arrived'[t].session
  <2>1. PushLogin(t, q.of, Late(t) \ {q}) /\ call' = call BY <1>10 DEF QueryRefused
  <2>2. \A r \in Late(t) \ {q} : r.session = None BY <1>2
  <2> QED BY <1>4, <2>1, <2>2 DEF Others
<1>11. CASE SignedIn(t) BY <1>1, <1>2, <1>3, <1>11 DEF SignedIn, Push, Others
<1>12. CASE SignedOut(t) BY <1>1, <1>2, <1>4, <1>12 DEF SignedOut, Others
<1> QED BY <1>6, <1>7, <1>8, <1>9, <1>10, <1>11, <1>12 DEF Leaves

\* No fetch that an account page waits for is new, unless it will be refused,
\* and no save or import starts or ends.
Quiet ==
  \A x \in Tabs :
    /\ \A q \in queries'[x] : q \in queries[x] \/ q.session = None \/ page[x] = "admin"
    /\ call[x].op \in Writes \/ call'[x].op \in Writes =>
         call'[x].op = call[x].op /\ call'[x] # Idle

\* A tab that stays where it is asks nothing new for its account page, and no
\* save or import starts or ends.
LEMMA StaysEffect ==
  ASSUME SInv, NEW t \in Tabs, Stays(t)
  PROVE  /\ UNCHANGED <<page, arrived>>
         /\ Quiet
<1>1. queries \in [Tabs -> SUBSET Query] /\ call \in [Tabs -> Call]
  BY DEF SInv, Screen, ScreenOK, Calls
<1>2. Idle.op = "none" BY DEF Idle
<1>3. ASSUME UNCHANGED <<page, arrived, queries, call>>
      PROVE  Quiet
  BY <1>2, <1>3 DEF Quiet, Writes
<1>4. CASE AnyCheckAnswered(t) \/ \E i \in DOMAIN checks[t] : CheckRefused(t, i) \/ CheckLost(t, i)
  <2>1. UNCHANGED <<page, arrived, queries, call>>
    BY <1>4 DEF AnyCheckAnswered, CheckAnswered, CheckRefused, CheckLost, Applied, screen
  <2> QED BY <1>3, <2>1
<1>5. ASSUME NEW c \in Call, call' = [call EXCEPT ![t] = c],
             UNCHANGED <<page, arrived, queries>>,
             c.op = call[t].op \/ (c.op \notin Writes /\ call[t].op \notin Writes)
      PROVE  Quiet
  BY <1>1, <1>2, <1>5 DEF Quiet, Writes
<1>6. CASE \E op \in Ops \ {"save", "import"}, a \in Session : Start(t, op, a)
  <2>1. PICK op \in Ops \ {"save", "import"}, a \in Session : Start(t, op, a) BY <1>6
  <2>2. op \notin Writes /\ call[t].op \notin Writes BY <1>2, <2>1 DEF Start, Writes
  <2>3. UNCHANGED <<page, arrived, queries>> BY <2>1 DEF Start, screen
  <2>4. CASE csrf # None \/ op = "remove"
    <3>1. call' = [call EXCEPT ![t] = Sending(op, a)] BY <2>1, <2>4 DEF Start
    <3>2. Sending(op, a) \in Call /\ Sending(op, a).op = op
      BY DEF Sending, Idle, Call, SInv, Calls, Session
    <3> QED BY <1>5, <2>2, <2>3, <3>1, <3>2
  <2>5. CASE ~(csrf # None \/ op = "remove")
    <3> DEFINE c == [Idle EXCEPT !.op = op, !.account = a, !.stage = "csrf"]
    <3>1. call' = [call EXCEPT ![t] = c] BY <2>1, <2>5 DEF Start
    <3>2. c \in Call /\ c.op = op BY DEF Idle, Call, Session
    <3> QED BY <1>5, <2>2, <2>3, <3>1, <3>2
  <2> QED BY <2>4, <2>5
<1>7. CASE CsrfAnswered(t) \/ CsrfRefused(t)
  <2> DEFINE c == [call[t] EXCEPT !.stage = "ready"]
  <2>1. call' = [call EXCEPT ![t] = c] BY <1>7 DEF CsrfAnswered, CsrfRefused
  <2>2. c \in Call /\ c.op = call[t].op BY <1>1 DEF Call
  <2>3. UNCHANGED <<page, arrived, queries>> BY <1>7 DEF CsrfAnswered, CsrfRefused, screen
  <2> QED BY <1>5, <2>1, <2>2, <2>3
<1>8. CASE Send(t)
  <2> DEFINE c == Sending(call[t].op, call[t].account)
  <2>1. call' = [call EXCEPT ![t] = c] BY <1>8 DEF Send
  <2>2. c \in Call /\ c.op = call[t].op BY <1>1 DEF Call, Sending, Idle, SInv, Calls, Session
  <2>3. UNCHANGED <<page, arrived, queries>> BY <1>8 DEF Send, screen
  <2> QED BY <1>5, <2>1, <2>2, <2>3
<1>9. CASE SignInRefused(t)
  <2>1. call' = [call EXCEPT ![t] = Idle] /\ call[t].op \notin Writes
    BY <1>9 DEF SignInRefused, Answered, Writes
  <2>2. Idle \in Call /\ Idle.op \notin Writes BY DEF Idle, Call, Session, Writes
  <2>3. UNCHANGED <<page, arrived, queries>> BY <1>9 DEF SignInRefused, screen
  <2> QED BY <1>5, <2>1, <2>2, <2>3
<1>10. CASE Done(t, "remove")
  <2>1. call' = [call EXCEPT ![t] = Idle] /\ call[t].op \notin Writes
    BY <1>10 DEF Done, Answered, Writes
  <2>2. UNCHANGED <<page, arrived>> BY <1>10 DEF Done
  <2>3. Quiet BY <1>1, <1>2, <1>10, <2>1, <2>2 DEF Quiet, Done, Mounted, Writes
  <2> QED BY <2>2, <2>3
<1>11. CASE Attach(t)
  <2> DEFINE c == [call[t] EXCEPT !.stage = "sent", !.header = None, !.session = token,
                                  !.matches = call[t].header # None /\ call[t].header = csrf]
  <2>1. call' = [call EXCEPT ![t] = c] BY <1>11 DEF Attach
  <2>2. c \in Call /\ c.op = call[t].op BY <1>1 DEF Call, SInv, Calls
  <2>3. UNCHANGED <<page, arrived, queries>> BY <1>11 DEF Attach, screen
  <2> QED BY <1>5, <2>1, <2>2, <2>3
<1> QED BY <1>4, <1>6, <1>7, <1>8, <1>9, <1>10, <1>11 DEF Stays

----------------------------------------------------------------------------
(* The inductive invariant.                                                *)

\* A form shows the profile of the session that the tab came with, and so will
\* the answers that are still to come; a save or an import is under way only
\* where the form is, or at login, where no form follows it.
FormHome(t) ==
  /\ form[t] # None => page[t] = "account" /\ form[t].of = arrived[t].session
  /\ form[t] = None /\ page[t] = "account" =>
       \A q \in queries[t] : q.session # None => q.session = arrived[t].session
  /\ answer[t] # None =>
       page[t] = "account" /\ form[t] = None /\ answer[t].of = arrived[t].session
  /\ call[t].op \in Writes => page[t] = "login" \/ (page[t] = "account" /\ form[t] # None)
  /\ body[t] # None => call[t].op \in Writes

\* What is sent, and what an untouched form shows, or the answer that will fill one.
BodyHome(t) ==
  /\ call[t].op = "save" => body[t] \in [{"city"} -> Value]
  /\ call[t].op = "import" => body[t] \in Profile
  /\ form[t] # None /\ ~form[t].touched /\ call[t].op = "save" => body[t]["city"] = form[t].city
  /\ fresh[t] => form[t] # None \/ answer[t] # None
  /\ answer[t] # None /\ fresh[t] => answer[t].city.text = doc[answer[t].of]["city"].text
  /\ form[t] # None /\ ~form[t].touched /\ fresh[t] =>
       form[t].city.text = doc[form[t].of]["city"].text

\* A save that nobody waits for any more names the city only.
OrphansOK ==
  /\ orphans \subseteq Orphan
  /\ \A o \in orphans : o.op = "save" => o.patch \in [{"city"} -> Value]

PageOK ==
  /\ doc \in [Accounts -> Profile]
  /\ answer \in [Tabs -> {None} \cup Read]
  /\ OrphansOK
  /\ form \in [Tabs -> {None} \cup Form]
  /\ body \in [Tabs -> {None} \cup Patch]
  /\ file \in {None} \cup Profile
  /\ fresh \in [Tabs -> BOOLEAN]

PInv ==
  /\ SInv /\ PageOK
  /\ \A t \in Tabs : FormHome(t) /\ BodyHome(t)

\* A form that is as it was, or gone, with what it rests on.
Same(x) ==
  /\ page'[x] = page[x] /\ arrived'[x] = arrived[x] /\ queries'[x] = queries[x]
  /\ call'[x] = call[x] /\ form'[x] = form[x] /\ body'[x] = body[x]
  /\ answer'[x] = answer[x]

LEMMA SameKeeps ==
  ASSUME PInv, NEW x \in Tabs, Same(x), doc' = doc, fresh'[x] => fresh[x]
  PROVE  FormHome(x)' /\ BodyHome(x)'
BY DEF PInv, Same, FormHome, BodyHome

\* What the server may still handle of tabs that no longer wait.
LEMMA SentOK ==
  ASSUME PInv, NEW T \in SUBSET Tabs, orphans' = orphans \cup Sent(T)
  PROVE  OrphansOK'
<1>1. ASSUME NEW o \in Sent(T)
      PROVE  o \in Orphan /\ (o.op = "save" => o.patch \in [{"city"} -> Value])
  <2>1. PICK t \in T : /\ body[t] # None /\ Accepted(call[t])
                       /\ o = [op |-> call[t].op, of |-> call[t].session, patch |-> body[t]]
    BY DEF Sent
  <2>2. call[t].op \in Writes BY <2>1 DEF PInv, FormHome
  <2>3. call[t].session \in Accounts BY <2>1 DEF Accepted, PInv, SInv, Calls, Call, Session
  <2>4. body[t] \in Patch /\ (call[t].op = "save" => body[t] \in [{"city"} -> Value])
    BY <2>1 DEF PInv, PageOK, BodyHome
  <2> QED BY <2>1, <2>2, <2>3, <2>4 DEF Orphan, Writes
<1> QED BY <1>1 DEF PInv, PageOK, OrphansOK

LEMMA PageLeave ==
  ASSUME PInv, NEW t \in Tabs, Leave(t), SInv'
  PROVE  PInv'
<1>1. /\ form' = [form EXCEPT ![t] = None] /\ fresh' = [fresh EXCEPT ![t] = FALSE]
      /\ answer' = [answer EXCEPT ![t] = None]
      /\ body' = [body EXCEPT ![t] = IF call'[t] = Idle THEN None ELSE body[t]]
      /\ doc' = doc /\ file' = file
      /\ orphans' = orphans \cup Sent({t}) \/ orphans' = orphans
  BY DEF Leave, Close, PInv, PageOK
<1>2. SInv /\ Leaves(t) BY DEF PInv, Leave
<1>3. PageOK'
  <2>1. OrphansOK' BY <1>1, SentOK DEF PInv, PageOK, OrphansOK
  <2> QED BY <1>1, <2>1 DEF PInv, PageOK
<1>4. ASSUME NEW x \in Tabs PROVE FormHome(x)' /\ BodyHome(x)'
  <2>1. CASE x # t
    <3>1. /\ form'[x] = form[x] /\ body'[x] = body[x] /\ fresh'[x] = fresh[x]
          /\ answer'[x] = answer[x]
      BY <1>1, <2>1 DEF PInv, PageOK
    <3>2. Others(t) BY <1>2, LeavesEffect
    <3> QED BY <1>1, <2>1, <3>1, <3>2, SameKeeps DEF Same, Others
  <2>2. CASE x = t
    <3>1. /\ form'[t] = None /\ ~fresh'[t] /\ answer'[t] = None
          /\ body'[t] = IF call'[t] = Idle THEN None ELSE body[t]
      BY <1>1 DEF PInv, PageOK
    <3>2. Idle.op \notin Writes /\ Idle.op # "save" /\ Idle.op # "import" BY DEF Idle, Writes
    <3>3. /\ \A q \in queries'[t] : q.session # None => q.session = arrived'[t].session
          /\ \/ call'[t] = Idle
             \/ call' = call /\ (call[t].op \in Writes => page'[t] = "login" \/ page[t] = "cart")
      BY <1>2, LeavesEffect
    <3>4. FormHome(t) /\ BodyHome(t) BY DEF PInv
    <3>5. CASE call'[t] = Idle BY <2>2, <3>1, <3>2, <3>3, <3>5 DEF FormHome, BodyHome
    <3>6. CASE call'[t] # Idle BY <2>2, <3>1, <3>3, <3>4, <3>6 DEF FormHome, BodyHome
    <3> QED BY <3>5, <3>6
  <2> QED BY <2>1, <2>2
<1> QED BY <1>3, <1>4 DEF PInv

LEMMA PageStays ==
  ASSUME PInv, NEW t \in Tabs, Stays(t), UNCHANGED profileVars, SInv'
  PROVE  PInv'
<1>1. UNCHANGED <<doc, answer, form, body, orphans, file, fresh>> BY DEF profileVars
<1>2. SInv BY DEF PInv
<1>3. PageOK' BY <1>1 DEF PInv, PageOK, OrphansOK
<1>4. ASSUME NEW x \in Tabs PROVE FormHome(x)' /\ BodyHome(x)'
  <2>1. UNCHANGED <<page, arrived>> BY <1>2, StaysEffect
  <2>2. /\ \A q \in queries'[x] : q \in queries[x] \/ q.session = None \/ page[x] = "admin"
        /\ call[x].op \in Writes \/ call'[x].op \in Writes => call'[x].op = call[x].op
    BY <1>2, StaysEffect DEF Quiet
  <2>3. FormHome(x) /\ BodyHome(x) BY DEF PInv
  <2>4. FormHome(x)' BY <1>1, <2>1, <2>2, <2>3 DEF FormHome
  <2>5. BodyHome(x)' BY <1>1, <2>1, <2>2, <2>3 DEF BodyHome, Writes
  <2> QED BY <2>4, <2>5
<1> QED BY <1>3, <1>4 DEF PInv

\* The server reads the profile of the session with which the page asked.
LEMMA PageMe ==
  ASSUME PInv, NEW t \in Tabs, NEW q \in queries[t], me(t, q), SInv'
  PROVE  PInv'
<1>1. /\ q \in queries[t] \ Late(t) /\ page[t] = "account" /\ form[t] = None
      /\ UNCHANGED <<page, arrived, queries, call, doc, form, body, orphans, file>>
  BY DEF me, vars, screen
<1>2. /\ queries \in [Tabs -> SUBSET Query] /\ answer \in [Tabs -> {None} \cup Read]
      /\ fresh \in [Tabs -> BOOLEAN] /\ doc \in [Accounts -> Profile]
  BY DEF PInv, PageOK, SInv, Screen, ScreenOK
<1>3. q.session \in Accounts /\ q.session # None BY <1>1, <1>2 DEF Late, Query, Session
<1> DEFINE n == [of |-> q.session, city |-> decryptUserPII(doc[q.session])["city"]]
<1>4. /\ decryptUserPII(doc[q.session])["city"] \in Value
      /\ decryptUserPII(doc[q.session])["city"].text = doc[q.session]["city"].text
  BY <1>2, <1>3, Decrypted DEF Profile, Fields
<1>5. n \in Read /\ n.of = q.session /\ n.city.text = doc[n.of]["city"].text
  BY <1>3, <1>4 DEF Read
<1>6. answer' = [answer EXCEPT ![t] = n] /\ fresh' = [fresh EXCEPT ![t] = TRUE] BY DEF me
<1> HIDE DEF n
<1>7. n # None BY <1>5, AccountPageAssumption
<1>8. PageOK' BY <1>1, <1>2, <1>5, <1>6 DEF PInv, PageOK, OrphansOK
<1>9. n.of = arrived[t].session BY <1>1, <1>3, <1>5 DEF PInv, FormHome
<1>10. ASSUME NEW x \in Tabs PROVE FormHome(x)' /\ BodyHome(x)'
  <2>1. CASE x = t
    <3>1. answer'[t] = n BY <1>2, <1>6
    <3>2. FormHome(t) /\ BodyHome(t) BY DEF PInv
    <3>3. FormHome(t)' BY <1>1, <1>9, <3>1, <3>2 DEF FormHome
    <3>4. BodyHome(t)' BY <1>1, <1>5, <1>7, <3>1, <3>2 DEF BodyHome
    <3> QED BY <2>1, <3>3, <3>4
  <2>2. CASE x # t
    <3>1. answer'[x] = answer[x] /\ fresh'[x] = fresh[x] BY <1>2, <1>6, <2>2
    <3> QED BY <1>1, <3>1, SameKeeps DEF Same
  <2> QED BY <2>1, <2>2
<1> QED BY <1>8, <1>10 DEF PInv

LEMMA PageShow ==
  ASSUME PInv, NEW t \in Tabs, NEW q \in queries[t], Show(t, q), SInv'
  PROVE  PInv'
<1>1. /\ q \in queries[t] \ Late(t) /\ queries' = [queries EXCEPT ![t] = queries[t] \ {q}]
      /\ UNCHANGED <<page, arrived, call, doc, body, orphans, file, fresh>>
  BY DEF Show, QueryAnswered
<1>2. /\ queries \in [Tabs -> SUBSET Query] /\ answer \in [Tabs -> {None} \cup Read]
      /\ form \in [Tabs -> {None} \cup Form]
  BY DEF PInv, PageOK, SInv, Screen, ScreenOK
<1>3. CASE page[t] = "account" /\ form[t] = None
  <2> DEFINE f == [of |-> answer[t].of, city |-> answer[t].city, touched |-> FALSE]
  <2>1. /\ answer[t] # None /\ form' = [form EXCEPT ![t] = f]
        /\ answer' = [answer EXCEPT ![t] = None]
    BY <1>3 DEF Show
  <2>2. answer[t] \in Read BY <1>2, <2>1
  <2>3. f \in Form /\ f.of = answer[t].of /\ f.city = answer[t].city /\ f.touched = FALSE
    BY <2>2 DEF Read, Form
  <2> HIDE DEF f
  <2>4. f # None BY <2>3, AccountPageAssumption
  <2>5. PageOK' BY <1>1, <1>2, <2>1, <2>3 DEF PInv, PageOK, OrphansOK
  <2>6. f.of = arrived[t].session BY <2>1, <2>3 DEF PInv, FormHome
  <2>7. call[t].op \notin Writes BY <1>3 DEF PInv, FormHome
  <2>8. ASSUME NEW x \in Tabs PROVE FormHome(x)' /\ BodyHome(x)'
    <3>1. CASE x = t
      <4>1. form'[t] = f /\ answer'[t] = None /\ queries'[t] \subseteq queries[t]
        BY <1>1, <1>2, <2>1
      <4>2. FormHome(t) /\ BodyHome(t) BY DEF PInv
      <4>3. FormHome(t)' BY <1>1, <1>3, <2>4, <2>6, <2>7, <4>1, <4>2 DEF FormHome
      <4>4. BodyHome(t)' BY <1>1, <2>1, <2>3, <2>4, <2>7, <4>1, <4>2 DEF BodyHome, Writes
      <4> QED BY <3>1, <4>3, <4>4
    <3>2. CASE x # t
      <4>1. form'[x] = form[x] /\ answer'[x] = answer[x] /\ queries'[x] = queries[x]
        BY <1>1, <1>2, <2>1, <3>2
      <4> QED BY <1>1, <4>1, SameKeeps DEF Same
    <3> QED BY <3>1, <3>2
  <2> QED BY <2>5, <2>8 DEF PInv
<1>4. CASE ~(page[t] = "account" /\ form[t] = None)
  <2>1. UNCHANGED <<form, answer>> BY <1>4 DEF Show
  <2>2. PageOK' BY <1>1, <2>1 DEF PInv, PageOK, OrphansOK
  <2>3. ASSUME NEW x \in Tabs PROVE FormHome(x)' /\ BodyHome(x)'
    <3>1. queries'[x] \subseteq queries[x] BY <1>1, <1>2
    <3>2. FormHome(x) /\ BodyHome(x) BY DEF PInv
    <3> QED BY <1>1, <2>1, <3>1, <3>2 DEF FormHome, BodyHome
  <2> QED BY <2>2, <2>3 DEF PInv
<1> QED BY <1>3, <1>4

LEMMA PageEdit ==
  ASSUME PInv, NEW t \in Tabs, NEW text \in Texts, Edit(t, text), SInv'
  PROVE  PInv'
<1>1. /\ form[t] # None /\ UNCHANGED <<doc, answer, body, orphans, file, fresh, call>>
      /\ UNCHANGED <<page, arrived, queries>>
  BY DEF Edit, screen
<1> DEFINE c == [text |-> text, cipher |-> FALSE]
           f == [form[t] EXCEPT !.city = c, !.touched = TRUE]
<1>2. form \in [Tabs -> {None} \cup Form] /\ form[t] \in Form BY <1>1 DEF PInv, PageOK
<1>3. form' = [form EXCEPT ![t] = f] BY <1>2 DEF Edit, Form
<1>4. f \in Form /\ f.of = form[t].of /\ f.touched BY <1>2 DEF Form, Value
<1>5. f # None BY <1>4, AccountPageAssumption
<1> HIDE DEF f
<1>6. PageOK' BY <1>1, <1>2, <1>3, <1>4 DEF PInv, PageOK, OrphansOK
<1>7. ASSUME NEW x \in Tabs PROVE FormHome(x)' /\ BodyHome(x)'
  <2>1. CASE x = t
    <3>1. form'[t] = f BY <1>2, <1>3
    <3>2. FormHome(t) /\ BodyHome(t) BY DEF PInv
    <3>3. FormHome(t)' BY <1>1, <1>4, <1>5, <3>1, <3>2 DEF FormHome
    <3>4. BodyHome(t)' BY <1>1, <1>4, <1>5, <3>1, <3>2 DEF BodyHome
    <3> QED BY <2>1, <3>3, <3>4
  <2>2. CASE x # t
    <3>1. form'[x] = form[x] BY <1>2, <1>3, <2>2
    <3> QED BY <1>1, <3>1, SameKeeps DEF Same
  <2> QED BY <2>1, <2>2
<1> QED BY <1>6, <1>7 DEF PInv

\* The body is what the form shows, or the copy that was exported.
LEMMA PageSubmit ==
  ASSUME PInv, NEW t \in Tabs, Submit(t), SInv'
  PROVE  PInv'
<1>1. form[t] # None /\ UNCHANGED <<doc, answer, form, orphans, file, fresh>> BY DEF Submit
<1>2. PICK op \in {"save", "import"} :
        /\ Start(t, op, None)
        /\ op = "save" => body' = [body EXCEPT ![t] = [f \in {"city"} |-> form[t].city]]
        /\ op = "import" => file # None /\ body' = [body EXCEPT ![t] = file]
  BY DEF Submit
<1>3. /\ form \in [Tabs -> {None} \cup Form] /\ form[t] \in Form
      /\ body \in [Tabs -> {None} \cup Patch] /\ file \in {None} \cup Profile
      /\ call \in [Tabs -> Call]
  BY <1>1 DEF PInv, PageOK, SInv, Calls
<1> DEFINE b == IF op = "save" THEN [f \in {"city"} |-> form[t].city] ELSE file
<1>4. body' = [body EXCEPT ![t] = b] BY <1>2
<1>5. /\ op = "save" => b \in [{"city"} -> Value] /\ b["city"] = form[t].city
      /\ op = "import" => b \in Profile
  BY <1>2, <1>3 DEF Form
<1>6. UNCHANGED <<page, arrived, queries>> BY <1>2 DEF Start, screen
<1>7. call'[t].op = op /\ \A x \in Tabs \ {t} : call'[x] = call[x]
  BY <1>2, <1>3 DEF Start, Sending, Idle
<1>8. page[t] = "account" BY <1>1 DEF PInv, FormHome
<1> HIDE DEF b
<1>9. PageOK' BY <1>1, <1>3, <1>4, <1>5 DEF PInv, PageOK, OrphansOK, Patch
<1>10. ASSUME NEW x \in Tabs PROVE FormHome(x)' /\ BodyHome(x)'
  <2>1. CASE x = t
    <3>1. body'[t] = b BY <1>3, <1>4
    <3>2. FormHome(t) /\ BodyHome(t) BY DEF PInv
    <3>3. FormHome(t)' BY <1>1, <1>6, <1>7, <1>8, <3>1, <3>2 DEF FormHome, Writes
    <3>4. BodyHome(t)' BY <1>1, <1>5, <1>7, <3>1, <3>2 DEF BodyHome
    <3> QED BY <2>1, <3>3, <3>4
  <2>2. CASE x # t
    <3>1. body'[x] = body[x] BY <1>3, <1>4, <2>2
    <3> QED BY <1>1, <1>6, <1>7, <2>2, <3>1, SameKeeps DEF Same
  <2> QED BY <2>1, <2>2
<1> QED BY <1>9, <1>10 DEF PInv

\* What is kept of the forms and answers that a tab has for a profile just written.
Current ==
  \A x \in Tabs :
    /\ fresh'[x] => fresh[x]
    /\ answer[x] # None /\ fresh'[x] => answer[x].city.text = doc'[answer[x].of]["city"].text
    /\ form[x] # None /\ ~form[x].touched /\ fresh'[x] =>
         form[x].city.text = doc'[form[x].of]["city"].text

\* An update of account a, which only a tab of keep may go on taking for what it shows.
LEMMA Writing ==
  ASSUME PInv, NEW a \in Accounts, NEW c \in Patch, NEW keep, Written(a, c, keep),
         \A x \in Tabs : x \in keep =>
           /\ form[x] # None => c \in [{"city"} -> Value] /\ (~form[x].touched => c["city"] = form[x].city)
           /\ answer[x] = None
  PROVE  /\ doc' \in [Accounts -> Profile] /\ fresh' \in [Tabs -> BOOLEAN] /\ Current
         /\ \A b \in Accounts, f \in Fields :
              \/ doc'[b][f] = doc[b][f]
              \/ /\ b = a /\ f \in DOMAIN c
                 /\ doc'[b][f].text # Blank => isCiphertext(doc'[b][f])
<1> DEFINE p == updateProfile(doc[a], c)
<1>1. /\ doc \in [Accounts -> Profile] /\ form \in [Tabs -> {None} \cup Form]
      /\ fresh \in [Tabs -> BOOLEAN] /\ answer \in [Tabs -> {None} \cup Read]
  BY DEF PInv, PageOK
<1>2. /\ doc' = [doc EXCEPT ![a] = p]
      /\ fresh' = [s \in Tabs |-> fresh[s] /\
           ((form[s] # None /\ form[s].of = a) \/ (answer[s] # None /\ answer[s].of = a) => s \in keep)]
  BY DEF Written
<1>3. /\ p \in Profile
      /\ \A f \in Fields :
           IF f \in DOMAIN c THEN p[f] = encryptValue(c[f]) /\ c[f] \in Value ELSE p[f] = doc[a][f]
  BY <1>1, Updated
<1> HIDE DEF p
<1>4. doc' \in [Accounts -> Profile] /\ fresh' \in [Tabs -> BOOLEAN] /\ doc'[a] = p
  BY <1>1, <1>2, <1>3
<1>5. \A b \in Accounts \ {a} : doc'[b] = doc[b] BY <1>1, <1>2
<1>6. \A x \in Tabs : fresh'[x] =>
        /\ fresh[x]
        /\ (form[x] # None /\ form[x].of = a) \/ (answer[x] # None /\ answer[x].of = a) => x \in keep
  BY <1>2
<1>7. ASSUME NEW x \in Tabs, form[x] # None, ~form[x].touched, fresh'[x]
      PROVE  form[x].city.text = doc'[form[x].of]["city"].text
  <2>1. form[x].of \in Accounts /\ form[x].city.text = doc[form[x].of]["city"].text
    BY <1>1, <1>6, <1>7 DEF PInv, BodyHome, Form
  <2>2. CASE form[x].of = a
    <3>1. c \in [{"city"} -> Value] /\ c["city"] = form[x].city BY <1>6, <1>7, <2>2
    <3>2. p["city"] = encryptValue(c["city"]) /\ c["city"] \in Value BY <1>3, <3>1 DEF Fields
    <3> QED BY <1>4, <2>2, <3>1, <3>2, ValueCipher
  <2> QED BY <1>5, <2>1, <2>2
<1>8. ASSUME NEW x \in Tabs, answer[x] # None, fresh'[x]
      PROVE  answer[x].city.text = doc'[answer[x].of]["city"].text
  <2>1. answer[x].of \in Accounts /\ answer[x].city.text = doc[answer[x].of]["city"].text
    BY <1>1, <1>6, <1>8 DEF PInv, BodyHome, Read
  <2>2. answer[x].of # a BY <1>6, <1>8
  <2> QED BY <1>5, <2>1, <2>2
<1>9. ASSUME NEW b \in Accounts, NEW f \in Fields, doc'[b][f] # doc[b][f]
      PROVE  b = a /\ f \in DOMAIN c /\ (doc'[b][f].text # Blank => isCiphertext(doc'[b][f]))
  <2>1. b = a BY <1>5, <1>9
  <2>2. f \in DOMAIN c BY <1>3, <1>4, <1>9, <2>1
  <2>3. doc'[b][f] = encryptValue(c[f]) /\ c[f] \in Value BY <1>3, <1>4, <2>1, <2>2
  <2> QED BY <2>1, <2>2, <2>3, ValueCipher
<1> QED BY <1>4, <1>6, <1>7, <1>8, <1>9 DEF Current

\* What a call that its tab waits for does to the profiles and to what shows them.
LEMMA Handling ==
  ASSUME PInv, NEW t \in Tabs, Handled(t), call[t].op \in Writes
  PROVE  /\ doc' \in [Accounts -> Profile] /\ fresh' \in [Tabs -> BOOLEAN] /\ Current
         /\ \A a \in Accounts, f \in Fields :
              \/ doc'[a][f] = doc[a][f]
              \/ /\ call[t].session = a /\ (f = "line1" => call[t].op = "import")
                 /\ doc'[a][f].text # Blank => isCiphertext(doc'[a][f])
<1>1. CASE ~Accepted(call[t])
  <2>1. UNCHANGED <<doc, fresh>> BY <1>1 DEF Handled
  <2>2. doc \in [Accounts -> Profile] /\ fresh \in [Tabs -> BOOLEAN] BY DEF PInv, PageOK
  <2>3. Current BY <2>1 DEF Current, PInv, BodyHome
  <2> QED BY <2>1, <2>2, <2>3
<1>2. CASE Accepted(call[t])
  <2> DEFINE keep == IF call[t].op = "save" THEN {t} ELSE {}
  <2>1. call[t].session \in Accounts BY <1>2 DEF Accepted, PInv, SInv, Calls, Call, Session
  <2>2. body[t] \in Patch /\ (call[t].op = "save" => body[t] \in [{"city"} -> Value])
    BY DEF PInv, BodyHome, Writes, Patch
  <2>3. Written(call[t].session, body[t], keep) BY <1>2 DEF Handled
  <2>4. ASSUME NEW x \in Tabs, x \in keep
        PROVE  /\ form[x] # None =>
                    body[t] \in [{"city"} -> Value] /\ (~form[x].touched => body[t]["city"] = form[x].city)
               /\ answer[x] = None
    <3>1. x = t /\ call[t].op = "save" BY <2>4
    <3>2. FormHome(t) /\ BodyHome(t) BY DEF PInv
    <3>3. answer[t] = None BY <3>1, <3>2 DEF FormHome, Writes
    <3> QED BY <2>2, <3>1, <3>2, <3>3 DEF BodyHome
  <2> HIDE DEF keep
  <2>5. /\ doc' \in [Accounts -> Profile] /\ fresh' \in [Tabs -> BOOLEAN] /\ Current
        /\ \A b \in Accounts, f \in Fields :
             \/ doc'[b][f] = doc[b][f]
             \/ /\ b = call[t].session /\ f \in DOMAIN body[t]
                /\ doc'[b][f].text # Blank => isCiphertext(doc'[b][f])
    BY <2>1, <2>2, <2>3, <2>4, Writing
  <2>6. "line1" \in DOMAIN body[t] => call[t].op = "import" BY <2>2 DEF Writes
  <2> QED BY <2>5, <2>6
<1> QED BY <1>1, <1>2

\* And what a call does that nobody waits for any more.
LEMMA HandlingLate ==
  ASSUME PInv, NEW o \in orphans, HandledLate(o)
  PROVE  /\ doc' \in [Accounts -> Profile] /\ fresh' \in [Tabs -> BOOLEAN] /\ Current
         /\ \A a \in Accounts, f \in Fields :
              \/ doc'[a][f] = doc[a][f]
              \/ /\ o.of = a /\ (f = "line1" => o.op = "import")
                 /\ doc'[a][f].text # Blank => isCiphertext(doc'[a][f])
<1>1. /\ o.of \in Accounts /\ o.patch \in Patch /\ o.op \in Writes
      /\ o.op = "save" => o.patch \in [{"city"} -> Value]
  BY DEF PInv, PageOK, OrphansOK, Orphan, Writes
<1>2. Written(o.of, o.patch, {}) BY DEF HandledLate
<1>3. /\ doc' \in [Accounts -> Profile] /\ fresh' \in [Tabs -> BOOLEAN] /\ Current
      /\ \A b \in Accounts, f \in Fields :
           \/ doc'[b][f] = doc[b][f]
           \/ /\ b = o.of /\ f \in DOMAIN o.patch
              /\ doc'[b][f].text # Blank => isCiphertext(doc'[b][f])
  BY <1>1, <1>2, Writing
<1>4. "line1" \in DOMAIN o.patch => o.op = "import" BY <1>1 DEF Writes
<1> QED BY <1>3, <1>4

LEMMA PageLate ==
  ASSUME PInv, NEW o \in orphans, HandledLate(o), SInv'
  PROVE  PInv'
<1>1. /\ UNCHANGED <<answer, form, body, file, page, arrived, queries, call>>
      /\ orphans' = orphans \ {o}
  BY DEF HandledLate, vars, screen
<1>2. doc' \in [Accounts -> Profile] /\ fresh' \in [Tabs -> BOOLEAN] /\ Current BY HandlingLate
<1>3. PageOK' BY <1>1, <1>2 DEF PInv, PageOK, OrphansOK
<1>4. ASSUME NEW x \in Tabs PROVE FormHome(x)' /\ BodyHome(x)'
  <2>1. FormHome(x) /\ BodyHome(x) BY DEF PInv
  <2>2. FormHome(x)' BY <1>1, <2>1 DEF FormHome
  <2>3. BodyHome(x)' BY <1>1, <1>2, <2>1 DEF BodyHome, Current
  <2> QED BY <2>2, <2>3
<1> QED BY <1>3, <1>4 DEF PInv

\* The end of a save or an import, with the update or, when it is lost, perhaps
\* without.
LEMMA PageEnd ==
  ASSUME PInv, NEW t \in Tabs, SInv',
         UNCHANGED <<page, arrived, answer, form, file>>, OrphansOK',
         call' = [call EXCEPT ![t] = Idle], body' = [body EXCEPT ![t] = None],
         UNCHANGED <<doc, fresh>> \/ (Handled(t) /\ call[t].op \in Writes),
         \A x \in Tabs \ {t} : queries'[x] = queries[x],
         \A q \in queries'[t] : \/ q \in queries[t] \/ q.session = None
                                \/ page[t] = "account" /\ call[t].op \in Writes
  PROVE  PInv'
<1>1. /\ doc \in [Accounts -> Profile] /\ form \in [Tabs -> {None} \cup Form]
      /\ fresh \in [Tabs -> BOOLEAN] /\ body \in [Tabs -> {None} \cup Patch]
      /\ call \in [Tabs -> Call]
  BY DEF PInv, PageOK, SInv, Calls
<1>2. /\ doc' \in [Accounts -> Profile] /\ fresh' \in [Tabs -> BOOLEAN]
      /\ Current
  <2>1. CASE UNCHANGED <<doc, fresh>> BY <1>1, <2>1 DEF Current, PInv, BodyHome
  <2>2. CASE Handled(t) /\ call[t].op \in Writes BY <2>2, Handling
  <2> QED BY <2>1, <2>2
<1>3. PageOK' BY <1>1, <1>2 DEF PInv, PageOK
<1>4. ASSUME NEW x \in Tabs PROVE FormHome(x)' /\ BodyHome(x)'
  <2>1. FormHome(x) /\ BodyHome(x) BY DEF PInv
  <2>2. CASE x = t
    <3>1. call'[t] = Idle /\ body'[t] = None BY <1>1
    <3>2. Idle.op \notin Writes /\ Idle.op # "save" /\ Idle.op # "import" BY DEF Idle, Writes
    <3>3. form'[t] = None /\ page'[t] = "account" =>
            \A q \in queries'[t] : q.session # None => q.session = arrived'[t].session
      BY <2>1, <2>2 DEF FormHome
    <3>4. FormHome(t)' BY <2>1, <2>2, <3>1, <3>2, <3>3 DEF FormHome
    <3>5. BodyHome(t)' BY <1>2, <2>1, <2>2, <3>1, <3>2 DEF BodyHome, Current
    <3> QED BY <2>2, <3>4, <3>5
  <2>3. CASE x # t
    <3>1. call'[x] = call[x] /\ body'[x] = body[x] /\ queries'[x] = queries[x] BY <1>1, <2>3
    <3>2. FormHome(x)' BY <2>1, <3>1 DEF FormHome
    <3>3. BodyHome(x)' BY <1>2, <2>1, <3>1 DEF BodyHome, Current
    <3> QED BY <3>2, <3>3
  <2> QED BY <2>2, <2>3
<1> QED BY <1>3, <1>4 DEF PInv

LEMMA PageFinish ==
  ASSUME PInv, NEW t \in Tabs, Finish(t), SInv'
  PROVE  PInv'
<1>1. PICK op \in Writes : Done(t, op) BY DEF Finish, Writes
<1>2. /\ call' = [call EXCEPT ![t] = Idle] /\ call[t].op \in Writes
      /\ UNCHANGED <<page, arrived>>
  BY <1>1 DEF Done, Answered
<1>3. /\ Handled(t) /\ body' = [body EXCEPT ![t] = None]
      /\ UNCHANGED <<answer, form, orphans, file>> /\ OrphansOK'
  BY DEF Finish, PInv, PageOK, OrphansOK
<1>4. queries \in [Tabs -> SUBSET Query] BY DEF PInv, SInv, Screen, ScreenOK
<1>5. /\ \A x \in Tabs \ {t} : queries'[x] = queries[x]
      /\ \A q \in queries'[t] : \/ q \in queries[t] \/ q.session = None
                                \/ page[t] = "account" /\ call[t].op \in Writes
  BY <1>1, <1>2, <1>4 DEF Done, Mounted, Writes
<1> QED BY <1>2, <1>3, <1>5, PageEnd

LEMMA PageLose ==
  ASSUME PInv, NEW t \in Tabs, Lose(t), SInv'
  PROVE  PInv'
<1>1. /\ call' = [call EXCEPT ![t] = Idle] /\ UNCHANGED <<page, arrived, queries>>
      /\ body' = [body EXCEPT ![t] = None] /\ UNCHANGED <<answer, form, file>>
  BY DEF Lose, CallLost, screen
<1>4. OrphansOK'
  <2>1. orphans' = orphans \cup Sent({t}) \/ orphans' = orphans BY DEF Lose
  <2> QED BY <2>1, SentOK DEF PInv, PageOK, OrphansOK
<1>2. UNCHANGED <<doc, fresh>> \/ (Handled(t) /\ call[t].op \in Writes)
  BY DEF Lose, PInv, FormHome
<1>3. \A q \in queries'[t] : q \in queries[t] BY <1>1
<1> QED BY <1>1, <1>2, <1>3, <1>4, PageEnd

\* What touches only the counters, of the state that Session has.
LEMMA Beside ==
  ASSUME SInv, Act, UNCHANGED <<jar, screen, auth, call>>
  PROVE  SInv' /\ Bounced
<1>1. BoundsOK' /\ Grows BY Counters
<1>2. Screen' /\ Bounced BY <1>1, StaysStill
<1>3. Calls' BY <1>1, CallsStill DEF SInv
<1> QED BY <1>1, <1>2, <1>3 DEF SInv

LEMMA PageInitially == AccountPageInit => PInv
<1> SUFFICES ASSUME AccountPageInit PROVE PInv OBVIOUS
<1>1. SInv BY Initially DEF AccountPageInit
<1>2. PageOK BY AccountPageAssumption DEF AccountPageInit, PageOK, OrphansOK
<1>3. ASSUME NEW t \in Tabs PROVE FormHome(t) /\ BodyHome(t)
  <2>1. call[t] = Idle /\ answer[t] = None /\ form[t] = None /\ body[t] = None /\ ~fresh[t]
    BY DEF AccountPageInit, Init
  <2>2. \A q \in queries[t] : q.session = token
    BY DEF AccountPageInit, Init, Mounted
  <2>3. arrived[t].session = token BY DEF AccountPageInit, Init
  <2> QED BY <2>1, <2>2, <2>3 DEF FormHome, BodyHome, Idle, Writes
<1> QED BY <1>1, <1>2, <1>3 DEF PInv

\* The counters and the copy apart, nothing changes, or the cookie alone.
LEMMA PageStill ==
  ASSUME PInv, SInv', UNCHANGED <<doc, answer, form, body, orphans, fresh>>,
         UNCHANGED <<page, arrived, queries, call>>, file' \in {None} \cup Profile
  PROVE  PInv'
<1>1. PageOK' BY DEF PInv, PageOK, OrphansOK
<1>2. \A x \in Tabs : FormHome(x)' /\ BodyHome(x)' BY SameKeeps DEF Same
<1> QED BY <1>1, <1>2 DEF PInv

LEMMA PageRestart ==
  ASSUME PInv, Restart, SInv', form' = [t \in Tabs |-> None], fresh' = [t \in Tabs |-> FALSE],
         body' = [t \in Tabs |-> None], answer' = [t \in Tabs |-> None],
         orphans' = orphans \cup Sent(Tabs), UNCHANGED <<doc, file>>
  PROVE  PInv'
<1>1. PageOK'
  <2>1. OrphansOK' BY SentOK
  <2> QED BY <2>1 DEF PInv, PageOK
<1>2. ASSUME NEW x \in Tabs PROVE FormHome(x)' /\ BodyHome(x)'
  <2>1. form'[x] = None /\ answer'[x] = None /\ ~fresh'[x] /\ body'[x] = None /\ call'[x] = Idle
    BY DEF Restart
  <2>2. \A q \in queries'[x] : q.session = token BY DEF Restart, Mounted
  <2>3. arrived'[x].session = token BY DEF Restart
  <2> QED BY <2>1, <2>2, <2>3 DEF FormHome, BodyHome, Idle, Writes
<1> QED BY <1>1, <1>2 DEF PInv

\* What a step does, by its kind: only Finish, Lose, HandledLate handle what writes.
LEMMA PageStep ==
  ASSUME PInv, [AccountPageNext]_<<vars, profileVars>>
  PROVE  /\ PInv' /\ Bounced
         /\ \/ UNCHANGED doc
            \/ \E t \in Tabs : /\ Handled(t) /\ call[t].op \in Writes
                               /\ call' = [call EXCEPT ![t] = Idle]
            \/ \E o \in orphans : HandledLate(o)
<1>1. SInv BY DEF PInv
<1>2. ASSUME NEW t \in Tabs, Leave(t) PROVE PInv' /\ Bounced /\ UNCHANGED doc
  BY <1>1, <1>2, LeavesKeeps, PageLeave DEF Leave
<1>3. ASSUME NEW t \in Tabs, Stays(t), UNCHANGED profileVars PROVE PInv' /\ Bounced /\ UNCHANGED doc
  BY <1>1, <1>3, TabKeeps, PageStays DEF Tab, profileVars
<1>4. ASSUME NEW t \in Tabs, NEW q \in queries[t], Show(t, q) PROVE PInv' /\ Bounced /\ UNCHANGED doc
  BY <1>1, <1>4, QueryKeeps, PageShow DEF Show
<1>5. ASSUME NEW t \in Tabs, NEW text \in Texts, Edit(t, text) PROVE PInv' /\ Bounced /\ UNCHANGED doc
  BY <1>1, <1>5, Beside, PageEdit DEF Edit
<1>6. ASSUME NEW t \in Tabs, Submit(t) PROVE PInv' /\ Bounced /\ UNCHANGED doc
  <2>1. \E op \in {"save", "import"} : Start(t, op, None) BY <1>6 DEF Submit
  <2>2. SInv' /\ Bounced BY <1>1, <2>1, TabKeeps DEF Tab
  <2> QED BY <1>6, <2>2, PageSubmit DEF Submit
<1>7. ASSUME NEW t \in Tabs, Finish(t)
      PROVE  /\ PInv' /\ Bounced
             /\ Handled(t) /\ call[t].op \in Writes /\ call' = [call EXCEPT ![t] = Idle]
  <2>1. PICK op \in {"save", "import"} : Done(t, op) BY <1>7 DEF Finish
  <2>2. SInv' /\ Bounced BY <1>1, <2>1, TabKeeps DEF Tab
  <2>3. PInv' BY <1>7, <2>2, PageFinish
  <2> QED BY <1>7, <2>1, <2>2, <2>3 DEF Finish, Done, Answered, Writes
<1>8. ASSUME NEW t \in Tabs, Lose(t)
      PROVE  /\ PInv' /\ Bounced
             /\ \/ UNCHANGED doc
                \/ Handled(t) /\ call[t].op \in Writes /\ call' = [call EXCEPT ![t] = Idle]
  <2>1. SInv' /\ Bounced BY <1>1, <1>8, TabKeeps DEF Tab, Lose
  <2>2. PInv' BY <1>8, <2>1, PageLose
  <2>3. call' = [call EXCEPT ![t] = Idle] BY <1>8 DEF Lose, CallLost
  <2>4. UNCHANGED <<doc, fresh>> \/ (Handled(t) /\ call[t].op \in Writes)
    BY <1>8 DEF Lose, PInv, FormHome
  <2> QED BY <2>1, <2>2, <2>3, <2>4
<1>9. ASSUME NEW t \in Tabs, exportData(t) PROVE PInv' /\ Bounced /\ UNCHANGED doc
  <2>1. SInv' /\ Bounced BY <1>1, <1>9, Beside DEF exportData
  <2>2. token \in Accounts BY <1>1, <1>9 DEF exportData, SInv, Calls, Session
  <2>3. file' \in Profile BY <1>9, <2>2, Decrypted DEF exportData, PInv, PageOK
  <2> QED BY <1>9, <2>1, <2>3, PageStill DEF exportData, screen
<1>10. ASSUME Expire, UNCHANGED profileVars PROVE PInv' /\ Bounced /\ UNCHANGED doc
  <2>1. SInv' /\ Bounced BY <1>1, <1>10, StepKeeps DEF Next
  <2>2. file' \in {None} \cup Profile BY <1>10 DEF profileVars, PInv, PageOK
  <2> QED BY <1>10, <2>1, <2>2, PageStill DEF Expire, profileVars, screen
<1>11. ASSUME Restart, form' = [t \in Tabs |-> None], fresh' = [t \in Tabs |-> FALSE],
              body' = [t \in Tabs |-> None], answer' = [t \in Tabs |-> None],
              orphans' = orphans \cup Sent(Tabs), UNCHANGED <<doc, file>>
       PROVE  PInv' /\ Bounced /\ UNCHANGED doc
  <2>1. SInv' /\ Bounced BY <1>1, <1>11, RestartKeeps
  <2> QED BY <1>11, <2>1, PageRestart
<1>12. ASSUME UNCHANGED <<vars, profileVars>> PROVE PInv' /\ Bounced /\ UNCHANGED doc
  <2>1. SInv' /\ Bounced BY <1>1, <1>12, StepKeeps
  <2>2. file' \in {None} \cup Profile BY <1>12 DEF profileVars, PInv, PageOK
  <2>3. UNCHANGED <<page, arrived, queries, call>> BY <1>12 DEF vars, screen
  <2> QED BY <1>12, <2>1, <2>2, <2>3, PageStill DEF profileVars
<1>13. ASSUME NEW t \in Tabs, NEW q \in queries[t], me(t, q) PROVE PInv' /\ Bounced /\ UNCHANGED doc
  <2>1. SInv' /\ Bounced BY <1>1, <1>13, StepKeeps DEF me
  <2> QED BY <1>13, <2>1, PageMe DEF me
<1>14. ASSUME NEW o \in orphans, HandledLate(o) PROVE PInv' /\ Bounced
  <2>1. SInv' /\ Bounced BY <1>1, <1>14, StepKeeps DEF HandledLate
  <2> QED BY <1>14, <2>1, PageLate
<1> QED
  BY <1>2, <1>3, <1>4, <1>5, <1>6, <1>7, <1>8, <1>9, <1>10, <1>11, <1>12, <1>13, <1>14
  DEF AccountPageNext

----------------------------------------------------------------------------
(* The theorems.                                                           *)

\* For any browser and any profiles: the inductive invariant.
THEOREM PageInductive == AccountPageSpec => []PInv
<1>1. PInv /\ [AccountPageNext]_<<vars, profileVars>> => PInv' BY PageStep
<1> QED BY PageInitially, <1>1, PTL DEF AccountPageSpec

\* Types; a form is shown on the account page, a body sent by a save or an import.
THEOREM PageTypes == AccountPageSpec => []AccountPageTypeOK
<1>1. ASSUME PInv PROVE AccountPageTypeOK
  <2>1. SessionTypeOK BY <1>1, SInvTypeOK DEF PInv
  <2>2. ASSUME NEW t \in Tabs
        PROVE  /\ \/ form[t] = None
                  \/ page[t] = "account" /\ answer[t] = None /\ form[t] \in Form
               /\ body[t] # None <=> call[t].op \in {"save", "import"}
    BY <1>1, AccountPageAssumption DEF PInv, PageOK, FormHome, BodyHome, Writes, Patch
  <2>3. /\ doc \in [Accounts -> Profile] /\ file \in {None} \cup Profile
        /\ fresh \in [Tabs -> BOOLEAN] /\ answer \in [Tabs -> Read \cup {None}]
        /\ orphans \subseteq Orphan
    BY <1>1 DEF PInv, PageOK, OrphansOK
  <2> QED BY <2>1, <2>2, <2>3 DEF AccountPageTypeOK
<1> QED BY PageInductive, <1>1, PTL

\* A save goes to the account whose profile the form shows, while the session is
\* the one with which the page was opened (account/page.tsx:85-93).
THEOREM SavedHome == AccountPageSpec => []SaveGoesHome
<1>1. PInv => SaveGoesHome BY DEF PInv, FormHome, SaveGoesHome
<1> QED BY PageInductive, <1>1, PTL

\* What holds of the tabs of Session holds with the account page in them.
THEOREM PageTabs ==
  AccountPageSpec => [](NavShowsSession /\ LoadingIsAsked /\ NeverRefusedForCsrf)
<1>1. PInv => NavShowsSession /\ LoadingIsAsked /\ NeverRefusedForCsrf
  BY DEF PInv, SInv, Screen, Knows, Calls, Cookies, NavShowsSession, LoadingIsAsked
<1> QED BY PageInductive, <1>1, PTL

\* A profile changes only by its account's own calls, and the fields that a form
\* does not have only by an import (user.service.ts:16-38).
THEOREM Kept == AccountPageSpec => SiblingsKept
<1> DEFINE A == \A a \in Accounts, f \in Fields :
                  doc'[a][f] # doc[a][f] =>
                    \/ \E t \in Tabs : /\ call[t].session = a /\ call'[t] = Idle
                                       /\ call[t].op \in {"save", "import"}
                                       /\ f = "line1" => call[t].op = "import"
                    \/ \E o \in orphans \ orphans' : o.of = a /\ (f = "line1" => o.op = "import")
<1>1. ASSUME PInv, [AccountPageNext]_<<vars, profileVars>> PROVE A
  <2>1. CASE UNCHANGED doc BY <2>1
  <2>2. ASSUME NEW t \in Tabs, Handled(t), call[t].op \in Writes,
               call' = [call EXCEPT ![t] = Idle]
        PROVE  A
    <3>1. call'[t] = Idle BY <1>1, <2>2 DEF PInv, SInv, Calls
    <3>2. \A a \in Accounts, f \in Fields :
            doc'[a][f] # doc[a][f] => call[t].session = a /\ (f = "line1" => call[t].op = "import")
      BY <1>1, <2>2, Handling
    <3> QED BY <2>2, <3>1, <3>2 DEF Writes
  <2>3. ASSUME NEW o \in orphans, HandledLate(o) PROVE A
    <3>1. o \in orphans \ orphans' BY <2>3 DEF HandledLate
    <3> QED BY <1>1, <2>3, <3>1, HandlingLate
  <2> QED BY <1>1, <2>1, <2>2, <2>3, PageStep
<1>2. PInv /\ [AccountPageNext]_<<vars, profileVars>> => [A]_<<vars, profileVars>>
  BY <1>1
<1> QED BY PageInductive, <1>2, PTL DEF AccountPageSpec, SiblingsKept

\* Saving an untouched form leaves the stored city as it reads (account/page.tsx:77-93).
THEOREM Untouched == AccountPageSpec => UntouchedKept
<1> DEFINE A == \A t \in Tabs :
                  /\ call[t].op = "save" /\ call'[t] = Idle /\ fresh[t]
                  /\ form[t] # None /\ ~form[t].touched /\ form[t].of = call[t].session
                  => doc'[form[t].of]["city"].text = doc[form[t].of]["city"].text
<1>1. ASSUME PInv, [AccountPageNext]_<<vars, profileVars>> PROVE A
  <2>1. CASE UNCHANGED doc BY <2>1
  <2>2. ASSUME NEW s \in Tabs, Handled(s), call[s].op \in Writes,
               call' = [call EXCEPT ![s] = Idle]
        PROVE  A
    <3> SUFFICES ASSUME NEW t \in Tabs, call[t].op = "save", call'[t] = Idle, fresh[t],
                        form[t] # None, ~form[t].touched, form[t].of = call[t].session
                 PROVE  doc'[form[t].of]["city"].text = doc[form[t].of]["city"].text
      OBVIOUS
    <3>1. t = s BY <1>1, <2>2 DEF PInv, SInv, Calls, Idle
    <3>2. form[t].city.text = doc[form[t].of]["city"].text
      BY <1>1 DEF PInv, BodyHome
    <3>3. CASE ~Accepted(call[t]) BY <2>2, <3>1, <3>3 DEF Handled
    <3>4. CASE Accepted(call[t])
      <4>1. fresh'[t] BY <2>2, <3>1, <3>4 DEF Handled, Written
      <4>2. Current BY <1>1, <2>2, Handling
      <4> QED BY <3>2, <4>1, <4>2 DEF Current
    <3> QED BY <3>3, <3>4
  <2>3. ASSUME NEW o \in orphans, HandledLate(o) PROVE A
    <3>1. call' = call BY <2>3 DEF HandledLate, vars
    <3> QED BY <3>1 DEF Idle
  <2> QED BY <1>1, <2>1, <2>2, <2>3, PageStep
<1>2. PInv /\ [AccountPageNext]_<<vars, profileVars>> => [A]_<<vars, profileVars>>
  BY <1>1
<1> QED BY PageInductive, <1>2, PTL DEF AccountPageSpec, UntouchedKept

\* When every profile there is at the start is encrypted, every profile is, at
\* all times (utils/pii.ts:28-38).
THEOREM Sealed ==
  ASSUME \A p \in Stored, f \in Fields : p[f].text # Blank => isCiphertext(p[f])
  PROVE  AccountPageSpec => []SealedAtRest
<1>1. AccountPageInit => SealedAtRest
  BY DEF AccountPageInit, SealedAtRest
<1>2. PInv /\ SealedAtRest /\ [AccountPageNext]_<<vars, profileVars>> => SealedAtRest'
  <2> SUFFICES ASSUME PInv, SealedAtRest, [AccountPageNext]_<<vars, profileVars>>
               PROVE  SealedAtRest'
    OBVIOUS
  <2>1. CASE UNCHANGED doc BY <2>1 DEF SealedAtRest, isCiphertext
  <2>2. ASSUME NEW t \in Tabs, Handled(t), call[t].op \in Writes PROVE SealedAtRest'
    BY <2>2, Handling DEF SealedAtRest, isCiphertext
  <2>3. ASSUME NEW o \in orphans, HandledLate(o) PROVE SealedAtRest'
    BY <2>3, HandlingLate DEF SealedAtRest, isCiphertext
  <2> QED BY <2>1, <2>2, <2>3, PageStep
<1> QED BY PageInductive, <1>1, <1>2, PTL DEF AccountPageSpec
=============================================================================
