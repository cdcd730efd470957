---------------------------- MODULE AccountPage ----------------------------
(***************************************************************************)
(* The account page in the tabs of Session, and the profiles behind it:    *)
(* the form that the first answer fills (account/page.tsx), the partial    *)
(* update of the stored profile (user.service.ts), its encryption at rest  *)
(* (utils/pii.ts, utils/crypto.ts), the export and the import of a copy.   *)
(* A profile has two fields: "city", which the form shows, and "line1",    *)
(* which it does not. Both are encrypted at rest.                          *)
(***************************************************************************)
EXTENDS Session, TLC

CONSTANTS Texts, Blank, \* what a field may hold, and the empty string
          Lookalikes,   \* texts in the format of a ciphertext
          Stored        \* the profiles there are at the start

VARIABLES doc,      \* each account's profile in the database
          answer,   \* what the server has read for a tab that shows no form yet, or None
          form,     \* the city in each tab's form, None while none is shown
          body,     \* what a tab's save or import has sent
          orphans,  \* sent saves and imports whose tab no longer waits for them
          file,     \* an exported copy, None before there is one
          fresh     \* ghost: nobody else wrote the profile since it was read for the form

profileVars == <<doc, answer, form, body, orphans, file, fresh>>

Fields == {"city", "line1"}
Value == [text : Texts, cipher : BOOLEAN]
Profile == [Fields -> Value]
Read == [of : Accounts, city : Value]
Form == [of : Accounts, city : Value, touched : BOOLEAN]
Patch == [{"city"} -> Value] \cup Profile
Orphan == [op : {"save", "import"}, of : Accounts, patch : Patch]

ASSUME AccountPageAssumption ==
  /\ Blank \in Texts /\ Lookalikes \subseteq Texts \ {Blank}
  /\ Stored \subseteq Profile
  /\ None \notin Read \cup Form \cup Patch

\* A form is shown on the account page only, and has a city to send; only a page
\* without a form waits for what the server read.
AccountPageTypeOK ==
  /\ SessionTypeOK
  /\ doc \in [Accounts -> Profile]
  /\ \A t \in Tabs :
       \/ form[t] = None
       \/ /\ page[t] = "account" /\ answer[t] = None
          /\ form[t] \in Form
  /\ answer \in [Tabs -> Read \cup {None}] /\ orphans \subseteq Orphan
  /\ \A t \in Tabs : body[t] # None <=> call[t].op \in {"save", "import"}
  /\ file \in {None} \cup Profile
  /\ fresh \in [Tabs -> BOOLEAN]

AccountPageInit ==
  /\ Init
  /\ doc \in [Accounts -> Stored]
  /\ answer = [t \in Tabs |-> None] /\ form = answer /\ body = answer
  /\ orphans = {} /\ file = None
  /\ fresh = [t \in Tabs |-> FALSE]

----------------------------------------------------------------------------
(* Encryption of a field.                                                  *)

isCiphertext(v) == v.cipher \/ v.text \in Lookalikes

\* Variant: the test for a ciphertext is inverted.
encryptInverted(v) ==
  IF v.text = Blank \/ ~isCiphertext(v) THEN v ELSE [v EXCEPT !.cipher = TRUE]

\* Empty strings and what is in ciphertext format already pass through.
encryptValue(v) ==
  IF v.text = Blank \/ isCiphertext(v) THEN v ELSE [v EXCEPT !.cipher = TRUE]

\* Variant: what cannot be decrypted reads as empty.
decryptOrBlank(v) ==
  [text |-> IF ~v.cipher /\ v.text \in Lookalikes THEN Blank ELSE v.text, cipher |-> FALSE]

\* A lookalike fails its authentication tag and is returned as it is.
decryptValue(v) == [v EXCEPT !.cipher = FALSE]

decryptUserPII(p) == [f \in Fields |-> decryptValue(p[f])]

----------------------------------------------------------------------------
(* The handlers of users/me.                                               *)

\* Variant: the update replaces the address as a whole.
updateWhole(p, patch) ==
  [f \in Fields |-> IF f \in DOMAIN patch THEN encryptValue(patch[f])
                    ELSE [text |-> Blank, cipher |-> FALSE]]

\* updateProfile: $set with a dot path for each field that the patch names.
updateProfile(p, patch) ==
  [f \in Fields |-> IF f \in DOMAIN patch THEN encryptValue(patch[f]) ELSE p[f]]

\* The profile of account a is written: forms that were filled from it, and answers
\* under way that will fill one, are out of date, but for the ones of tabs in keep.
Written(a, patch, keep) ==
  /\ doc' = [doc EXCEPT ![a] = updateProfile(@, patch)]
  /\ fresh' = [s \in Tabs |-> fresh[s] /\
       ((form[s] # None /\ form[s].of = a) \/ (answer[s] # None /\ answer[s].of = a) => s \in keep)]

\* The handler writes the profile of the account whose token the call carries,
\* or the call was refused before it.
Handled(t) ==
  IF Accepted(call[t])
  THEN Written(call[t].session, body[t], IF call[t].op = "save" THEN {t} ELSE {})
  ELSE UNCHANGED <<doc, fresh>>

\* What the server may still handle of tabs that stop waiting.
Sent(T) ==
  {[op |-> call[t].op, of |-> call[t].session, patch |-> body[t]] :
     t \in {s \in T : body[s] # None /\ call[s].stage = "sent" /\ Accepted(call[s])}}

\* It does so later, or, when this is not taken, never.
HandledLate(o) ==
  /\ o \in orphans
  /\ orphans' = orphans \ {o}
  /\ Written(o.of, o.patch, {})
  /\ UNCHANGED <<answer, form, body, file, vars>>

----------------------------------------------------------------------------
(* The page.                                                               *)

\* Variant: the form's state lives above the page.
KeepOpen(t) == UNCHANGED <<answer, form, fresh>>

Close(t) ==
  /\ answer' = [answer EXCEPT ![t] = None]
  /\ form' = [form EXCEPT ![t] = None]
  /\ fresh' = [fresh EXCEPT ![t] = FALSE]

\* The page is left or mounted anew, and with it its form. With the document goes
\* the call under way.
Leave(t) ==
  /\ Leaves(t)
  /\ Close(t)
  /\ IF call'[t] = Idle
     THEN body' = [body EXCEPT ![t] = None] /\ orphans' = orphans \cup Sent({t})
     ELSE UNCHANGED <<body, orphans>>
  /\ UNCHANGED <<doc, file>>

\* me reads the profile for a page that has no form yet.
me(t, q) ==
  /\ q \in queries[t] \ Late(t) /\ page[t] = "account"
  /\ form[t] = None /\ answer[t] = None
  /\ answer' = [answer EXCEPT ![t] =
       [of |-> q.session, city |-> decryptUserPII(doc[q.session])["city"]]]
  /\ fresh' = [fresh EXCEPT ![t] = TRUE]
  /\ UNCHANGED <<doc, form, body, orphans, file, vars>>

\* The first answer fills the form; what a refresh brings is not put in it.
Show(t, q) ==
  /\ QueryAnswered(t, q)
  /\ IF page[t] = "account" /\ form[t] = None
     THEN /\ answer[t] # None
          /\ form' = [form EXCEPT ![t] =
               [of |-> answer[t].of, city |-> answer[t].city, touched |-> FALSE]]
          /\ answer' = [answer EXCEPT ![t] = None]
     ELSE UNCHANGED <<form, answer>>
  /\ UNCHANGED <<doc, body, orphans, file, fresh>>

Edit(t, text) ==
  /\ form[t] # None /\ form[t].city.text # text
  /\ Act
  /\ form' = [form EXCEPT ![t].city = [text |-> text, cipher |-> FALSE], ![t].touched = TRUE]
  /\ UNCHANGED <<doc, answer, body, orphans, file, fresh, jar, screen, auth, call>>

\* The body of a save or an import is made before ensureCsrf is awaited.
Submit(t) ==
  /\ form[t] # None
  /\ \/ Start(t, "save", None) /\ body' = [body EXCEPT ![t] = [f \in {"city"} |-> form[t].city]]
     \/ /\ file # None
        /\ Start(t, "import", None) /\ body' = [body EXCEPT ![t] = file]
  /\ UNCHANGED <<doc, answer, form, orphans, file, fresh>>

\* The handler's answer arrives. The form keeps what it shows.
Finish(t) ==
  /\ Done(t, "save") \/ Done(t, "import")
  /\ Handled(t)
  /\ body' = [body EXCEPT ![t] = None]
  /\ UNCHANGED <<answer, form, orphans, file>>

\* The call is lost, on its way back or before the handler, which may yet get it.
Lose(t) ==
  /\ CallLost(t)
  /\ \/ orphans' = orphans \cup Sent({t}) /\ UNCHANGED <<doc, fresh>>
     \/ call[t].stage = "sent" /\ body[t] # None /\ Handled(t) /\ UNCHANGED orphans
  /\ body' = [body EXCEPT ![t] = None]
  /\ UNCHANGED <<answer, form, file>>

\* exportData: a copy of the profile, decrypted, which the browser downloads.
exportData(t) ==
  /\ form[t] # None /\ token # None
  /\ Act
  /\ file' = decryptUserPII(doc[token])
  /\ UNCHANGED <<doc, answer, form, body, orphans, fresh, jar, screen, auth, call>>

AccountPageNext ==
  \/ \E t \in Tabs :
       \/ Leave(t)
       \/ Stays(t) /\ UNCHANGED profileVars
       \/ \E q \in queries[t] : me(t, q) \/ Show(t, q)
       \/ \E text \in Texts : Edit(t, text)
       \/ Submit(t) \/ Finish(t) \/ Lose(t) \/ exportData(t)
  \/ \E o \in orphans : HandledLate(o)
  \/ Expire /\ UNCHANGED profileVars
  \/ /\ Restart
     /\ answer' = [t \in Tabs |-> None] /\ form' = answer' /\ body' = answer'
     /\ orphans' = orphans \cup Sent(Tabs)
     /\ fresh' = [t \in Tabs |-> FALSE]
     /\ UNCHANGED <<doc, file>>

AccountPageSpec == AccountPageInit /\ [][AccountPageNext]_<<vars, profileVars>>

----------------------------------------------------------------------------
\* A profile is saved to the account whose profile filled the form, as long as
\* the browser has the session with which the page was opened. (Nothing else
\* ties the two: after another tab has signed in to another account, Save writes
\* this account's city into that account's profile, account/page.tsx:85-93.)
SaveGoesHome ==
  \A t \in Tabs :
    /\ form[t] # None /\ call[t].op = "save" /\ call[t].stage = "sent"
    /\ Accepted(call[t]) /\ call[t].session = arrived[t].session
    => form[t].of = call[t].session

\* A stored profile changes only by a call that carries its account's session, late
\* or not, and a field that the form does not have only by an import: nested updates
\* never wipe sibling fields (user.service.ts:16-38, user.controller.ts:11-16).
SiblingsKept ==
  [][\A a \in Accounts, f \in Fields :
       doc'[a][f] # doc[a][f] =>
         \/ \E t \in Tabs : /\ call[t].session = a /\ call'[t] = Idle
                            /\ call[t].op \in {"save", "import"}
                            /\ f = "line1" => call[t].op = "import"
         \/ \E o \in orphans \ orphans' : o.of = a /\ (f = "line1" => o.op = "import")
    ]_<<vars, profileVars>>

\* Saving a form in which the city was not touched leaves the stored city as it
\* reads, unless somebody wrote it after the server had read it for this form,
\* before or after the form was filled. (Then Save brings back what it reads in the
\* form, and so it does after an import on the same page, which leaves the form as
\* it was: account/page.tsx:77-83.)
UntouchedKept ==
  [][\A t \in Tabs :
       /\ call[t].op = "save" /\ call'[t] = Idle /\ fresh[t]
       /\ form[t] # None /\ ~form[t].touched /\ form[t].of = call[t].session
       => doc'[form[t].of]["city"].text = doc[form[t].of]["city"].text
    ]_<<vars, profileVars>>

\* Phone and address are never stored as plain text, whichever way they came in,
\* but for texts that look like a ciphertext themselves (utils/pii.ts:28-38).
SealedAtRest ==
  \A a \in Accounts, f \in Fields : doc[a][f].text # Blank => isCiphertext(doc[a][f])
=============================================================================
