--------------------------- MODULE SessionProofs ---------------------------
(***************************************************************************)
(* Proofs about Session for any number of tabs, accounts, visits, failing  *)
(* requests and browser restarts: type correctness, what a tab knows about *)
(* the session it shows, and the two cookies.                              *)
(***************************************************************************)
EXTENDS Session, TLAPS

Check == [session : Session, newest : BOOLEAN]
Call == [op : Ops \cup {"none"}, account : Session,
         stage : {"idle", "csrf", "ready", "sending", "sent"},
         header : Csrfs \cup {None}, session : Session, matches : BOOLEAN]

----------------------------------------------------------------------------
(* The sequence of refreshes.                                              *)

\* A new refresh makes the ones under way older (lib/auth.tsx:48-52).
LEMMA OlderSeq ==
  ASSUME NEW s \in Seq(Check)
  PROVE  /\ Older(s) \in Seq(Check) /\ Len(Older(s)) = Len(s)
         /\ \A i \in 1..Len(s) :
              /\ Older(s)[i].session = s[i].session
              /\ ~Older(s)[i].newest
<1>1. \A i \in 1..Len(s) : s[i] \in Check OBVIOUS
<1>2. \A i \in 1..Len(s) : [s[i] EXCEPT !.newest = FALSE] \in Check
  BY <1>1 DEF Check
<1>3. DOMAIN s = 1..Len(s) OBVIOUS
<1>4. Older(s) = [i \in 1..Len(s) |-> [s[i] EXCEPT !.newest = FALSE]]
  BY <1>3 DEF Older
<1>5. Older(s) \in Seq(Check) /\ Len(Older(s)) = Len(s) BY <1>2, <1>4
<1> QED BY <1>1, <1>4, <1>5 DEF Check

LEMMA AskSeq ==
  ASSUME NEW s \in Seq(Check), NEW a \in Session
  PROVE  LET n == Append(Older(s), [session |-> a, newest |-> TRUE])
         IN  /\ n \in Seq(Check) /\ n # <<>>
             /\ \A i \in DOMAIN n : n[i].newest => n[i].session = a
<1> DEFINE c == [session |-> a, newest |-> TRUE]
           n == Append(Older(s), c)
<1>1. c \in Check BY DEF Check
<1>2. Older(s) \in Seq(Check) /\ Len(Older(s)) = Len(s) BY OlderSeq
<1>3. n \in Seq(Check) /\ Len(n) = Len(s) + 1 BY <1>1, <1>2
<1>4. \A i \in 1..Len(s) : n[i] = Older(s)[i] BY <1>1, <1>2
<1>5. n[Len(s) + 1] = c BY <1>1, <1>2
<1>6. \A i \in DOMAIN n : i \in 1..Len(s) \/ i = Len(s) + 1 BY <1>3
<1>7. c.session = a OBVIOUS
<1> HIDE DEF c, n
<1>8. \A i \in DOMAIN n : n[i].newest => n[i].session = a
  BY <1>4, <1>5, <1>6, <1>7, OlderSeq
<1>9. n # <<>> BY <1>3
<1> QED BY <1>3, <1>8, <1>9 DEF c, n

LEMMA RemoveSeq ==
  ASSUME NEW s \in Seq(Check), NEW i \in DOMAIN s
  PROVE  /\ RemoveAt(s, i) \in Seq(Check)
         /\ \A j \in DOMAIN RemoveAt(s, i) : \E k \in DOMAIN s : RemoveAt(s, i)[j] = s[k]
<1>1. i \in 1..Len(s) /\ Len(s) \in Nat OBVIOUS
<1> DEFINE a == SubSeq(s, 1, i - 1)
           b == SubSeq(s, i + 1, Len(s))
<1>2. a \in Seq(Check) /\ Len(a) = i - 1 /\ \A j \in 1..(i - 1) : a[j] = s[j]
  BY <1>1
<1>3. b \in Seq(Check) /\ Len(b) = Len(s) - i /\ \A j \in 1..(Len(s) - i) : b[j] = s[i + j]
  BY <1>1
<1>4. RemoveAt(s, i) = a \o b BY DEF RemoveAt
<1> HIDE DEF a, b
<1>5. a \o b \in Seq(Check) /\ Len(a \o b) = Len(s) - 1 BY <1>1, <1>2, <1>3
<1>6. ASSUME NEW j \in DOMAIN (a \o b) PROVE \E k \in DOMAIN s : (a \o b)[j] = s[k]
  <2>1. j \in 1..(Len(s) - 1) BY <1>5
  <2>2. CASE j < i
    <3>1. (a \o b)[j] = a[j] BY <1>1, <1>2, <1>3, <2>1, <2>2
    <3> QED BY <1>1, <1>2, <2>1, <2>2, <3>1
  <2>3. CASE ~(j < i)
    <3>1. (a \o b)[j] = b[j - (i - 1)] BY <1>1, <1>2, <1>3, <2>1, <2>3
    <3>2. j - (i - 1) \in 1..(Len(s) - i) BY <1>1, <2>1, <2>3
    <3>3. b[j - (i - 1)] = s[j + 1] BY <1>1, <1>3, <2>1, <3>2, SMTT(60)
    <3>4. j + 1 \in DOMAIN s BY <1>1, <2>1
    <3> QED BY <3>1, <3>3, <3>4
  <2> QED BY <2>2, <2>3
<1> QED BY <1>4, <1>5, <1>6

----------------------------------------------------------------------------
(* The inductive invariant: the types, what each tab knows, the cookies.   *)

\* What the tabs show and ask.
ScreenOK ==
  /\ page \in [Tabs -> Pages] /\ next \in [Tabs -> Pages \ {"login"}]
  /\ back \in [Tabs -> Pages \cup {None}] /\ leaving \in [Tabs -> BOOLEAN]
  /\ user \in [Tabs -> Session] /\ loading \in [Tabs -> BOOLEAN]
  /\ checks \in [Tabs -> Seq(Check)]
  /\ queries \in [Tabs -> SUBSET Query]
  /\ arrived \in [Tabs -> [session : Session, whole : BOOLEAN]]
  /\ settled \in [Tabs -> BOOLEAN]
  /\ \A t \in Tabs :
       /\ page[t] = "cart" => loading[t] \/ user[t] # None \/ leaving[t]
       /\ leaving[t] => page[t] = "cart"
       /\ page[t] # "login" => next[t] = "shop"

BoundsOK == acts \in 0..MaxActs /\ faults \in 0..MaxFaults /\ restarts \in 0..MaxRestarts

\* The newest refresh carries the session with which the tab came to its path,
\* and in a document with its first path every refresh does.
Asked(t) ==
  \A i \in DOMAIN checks[t] :
    checks[t][i].newest \/ arrived[t].whole => checks[t][i].session = arrived[t].session

Knows(t) ==
  /\ Asked(t)
  /\ settled[t] => user[t] = arrived[t].session
  /\ loading[t] /\ faults = 0 => checks[t] # <<>>

Screen == ScreenOK /\ \A t \in Tabs : Knows(t)

\* A call whose CSRF header has to be the cookie: nothing failed, and the Delete of
\* the admin page is none that follows a restart.
Vouched(c) == faults = 0 /\ (c.op = "remove" => restarts = 0)

\* The two cookies come and go together until the browser is started again; a
\* call that has asked for the missing one finds it there; and what a call has read
\* is the cookie until another token is issued.
Cookies ==
  /\ restarts = 0 /\ token # None => csrf # None
  /\ \A t \in Tabs :
       /\ call[t].stage = "ready" /\ faults = 0 /\ token # None => csrf # None
       /\ call[t].stage \in {"csrf", "ready"} => call[t].op # "remove"
       /\ call[t].stage = "sending" /\ Vouched(call[t]) /\ token # None =>
            t \in overtaken \/ (call[t].header # None /\ call[t].header = csrf)
  /\ NeverRefusedForCsrf

Calls ==
  /\ token \in Session /\ csrf \in Csrfs \cup {None} /\ overtaken \subseteq Tabs
  /\ call \in [Tabs -> Call] /\ Cookies

SInv == Screen /\ BoundsOK /\ Calls

\* What BouncedForCause says of one step.
Bounced ==
  \A t \in Tabs :
    leaving'[t] /\ ~leaving[t] /\ arrived'[t].whole =>
      arrived'[t].session = None \/ faults' > 0

\* The counters only grow.
Grows ==
  /\ faults' \in Nat /\ (faults' = 0 => faults = 0)
  /\ restarts' \in Nat /\ (restarts' = 0 => restarts = 0)

LEMMA SInvTypeOK == SInv <=> SessionTypeOK /\ (\A t \in Tabs : Knows(t)) /\ Cookies
BY DEF SInv, Screen, ScreenOK, BoundsOK, Calls, SessionTypeOK, Check, Call

LEMMA Initially == Init => SInv
<1> SUFFICES ASSUME Init PROVE SInv OBVIOUS
<1> USE SessionAssumption
<1> DEFINE c == [session |-> token, newest |-> TRUE]
<1>1. token \in Session /\ None \in Session BY DEF Init, Session
<1>2. c \in Check BY <1>1 DEF Check
<1>3. <<c>> \in Seq(Check) /\ <<c>> # <<>> /\ \A i \in DOMAIN <<c>> : <<c>>[i].session = token
  BY <1>2
<1>4. Idle \in Call BY <1>1 DEF Idle, Call
<1>5. ScreenOK
  <2>1. checks \in [Tabs -> Seq(Check)] BY <1>3 DEF Init
  <2>2. queries \in [Tabs -> SUBSET Query] BY DEF Init, Mounted
  <2>3. page \in [Tabs -> Pages] BY DEF Init, Pages
  <2>4. arrived \in [Tabs -> [session : Session, whole : BOOLEAN]] BY <1>1 DEF Init
  <2> QED BY <1>1, <2>1, <2>2, <2>3, <2>4 DEF Init, ScreenOK, Pages
<1>6. \A t \in Tabs : Knows(t)
  <2> TAKE t \in Tabs
  <2>1. checks[t] = <<c>> /\ arrived[t] = [session |-> token, whole |-> TRUE] /\ ~settled[t]
    BY DEF Init
  <2> HIDE DEF c
  <2> QED BY <1>3, <2>1 DEF Knows, Asked
<1>7. Calls
  <2>1. (CHOOSE x \in Csrfs : TRUE) \in Csrfs OBVIOUS
  <2>2. csrf \in Csrfs \cup {None} /\ (token # None => csrf # None) BY <2>1 DEF Init
  <2>3. call = [t \in Tabs |-> Idle] /\ overtaken = {} BY DEF Init
  <2>4. Idle.stage = "idle" BY DEF Idle
  <2> HIDE DEF Idle
  <2> QED BY <1>1, <1>4, <2>2, <2>3, <2>4 DEF Calls, Cookies, NeverRefusedForCsrf
<1>8. BoundsOK BY DEF Init, BoundsOK
<1> QED BY <1>5, <1>6, <1>7, <1>8 DEF SInv, Screen

----------------------------------------------------------------------------
(* What comes to a page does to the screen.                                *)

LEMMA VisitScreen ==
  ASSUME Screen, Grows, NEW t \in Tabs, NEW p \in Pages, NEW n \in Pages \ {"login"},
         NEW late \in SUBSET Query, Visit(t, p, n, late),
         p # "login" => n = "shop",
         token' \in Session, loading' = loading,
         user' \in [Tabs -> Session], \A x \in Tabs \ {t} : user'[x] = user[x],
         back' \in [Tabs -> Pages \cup {None}]
  PROVE  Screen' /\ Bounced
<1> DEFINE n1 == Append(Older(checks[t]), [session |-> token', newest |-> TRUE])
           q1 == late \cup Mounted(p, token')
<1>1. checks[t] \in Seq(Check) BY DEF Screen, ScreenOK
<1>2. n1 \in Seq(Check) /\ n1 # <<>> /\ \A i \in DOMAIN n1 : n1[i].newest => n1[i].session = token'
  BY <1>1, AskSeq
<1>3. checks' = [checks EXCEPT ![t] = n1] /\ settled' = [settled EXCEPT ![t] = FALSE]
  BY DEF Visit, Ask
<1>4. q1 \in SUBSET Query BY DEF Mounted
<1>5. queries' = [queries EXCEPT ![t] = q1] BY DEF Visit
<1> HIDE DEF n1, q1
<1>6. checks' \in [Tabs -> Seq(Check)] /\ queries' \in [Tabs -> SUBSET Query]
  BY <1>2, <1>3, <1>4, <1>5 DEF Screen, ScreenOK
<1>7. arrived' \in [Tabs -> [session : Session, whole : BOOLEAN]] BY DEF Screen, ScreenOK, Visit
<1>8. leaving' \in [Tabs -> BOOLEAN] /\ page' \in [Tabs -> Pages] /\ next' \in [Tabs -> Pages \ {"login"}]
  BY DEF Screen, ScreenOK, Visit, Guarded
<1>9. settled' \in [Tabs -> BOOLEAN] BY <1>3 DEF Screen, ScreenOK
<1>10. ASSUME NEW x \in Tabs
       PROVE  /\ page'[x] = "cart" => loading'[x] \/ user'[x] # None \/ leaving'[x]
              /\ leaving'[x] => page'[x] = "cart"
              /\ page'[x] # "login" => next'[x] = "shop"
  <2>1. CASE x = t BY <2>1 DEF Screen, ScreenOK, Visit, Guarded
  <2>2. CASE x # t BY <2>2 DEF Screen, ScreenOK, Visit
  <2> QED BY <2>1, <2>2
<1>11. ScreenOK' BY <1>6, <1>7, <1>8, <1>9, <1>10 DEF Screen, ScreenOK
<1>12. ASSUME NEW x \in Tabs PROVE Knows(x)'
  <2>1. CASE x = t
    <3>1. checks'[t] = n1 /\ ~settled'[t] BY <1>3 DEF Screen, ScreenOK
    <3>2. arrived'[t] = [session |-> token', whole |-> FALSE] BY DEF Screen, ScreenOK, Visit
    <3> QED BY <1>2, <2>1, <3>1, <3>2 DEF Knows, Asked
  <2>2. CASE x # t
    <3>1. /\ checks'[x] = checks[x] /\ settled'[x] = settled[x] /\ arrived'[x] = arrived[x]
          /\ user'[x] = user[x]
      BY <1>3, <2>2 DEF Screen, ScreenOK, Visit
    <3> QED BY <3>1 DEF Screen, Knows, Asked, Grows
  <2> QED BY <2>1, <2>2
<1>13. ASSUME NEW x \in Tabs, leaving'[x], ~leaving[x], arrived'[x].whole PROVE FALSE
  <2>1. x = t BY <1>13 DEF Screen, ScreenOK, Visit
  <2>2. ~arrived'[t].whole BY DEF Screen, ScreenOK, Visit
  <2> QED BY <1>13, <2>1, <2>2
<1> QED BY <1>11, <1>12, <1>13 DEF Screen, Bounced

LEMMA PushLoginScreen ==
  ASSUME Screen, Grows, NEW t \in Tabs, NEW n \in {"shop", "cart", "account", "admin"},
         NEW late \in SUBSET Query, PushLogin(t, n, late),
         token' \in Session, loading' = loading,
         user' \in [Tabs -> Session], \A x \in Tabs \ {t} : user'[x] = user[x]
  PROVE  Screen' /\ Bounced
<1>1. n \in Pages \ {"login"} BY DEF Pages
<1>2. CASE Push(t, "login", n, late)
  <2>1. back' \in [Tabs -> Pages \cup {None}] BY <1>2 DEF Push, Screen, ScreenOK
  <2> QED BY <1>1, <1>2, <2>1, VisitScreen DEF Push, Pages
<1>3. CASE ~Push(t, "login", n, late)
  <2>1. /\ page[t] = "login"
        /\ next' = [next EXCEPT ![t] = n]
        /\ queries' = [queries EXCEPT ![t] = late]
        /\ UNCHANGED <<page, back, leaving, arrived, checks>>
        /\ settled' = [settled EXCEPT ![t] = @ /\ user'[t] = user[t]]
    BY <1>3 DEF PushLogin
  <2>2. settled' = [settled EXCEPT ![t] = settled[t] /\ user'[t] = user[t]] BY <2>1
  <2>3. /\ next' \in [Tabs -> Pages \ {"login"}] /\ queries' \in [Tabs -> SUBSET Query]
    BY <1>1, <2>1 DEF Screen, ScreenOK
  <2>4. settled' \in [Tabs -> BOOLEAN] BY <2>2 DEF Screen, ScreenOK
  <2>5. ASSUME NEW x \in Tabs
        PROVE  /\ page'[x] = "cart" => loading'[x] \/ user'[x] # None \/ leaving'[x]
               /\ leaving'[x] => page'[x] = "cart"
               /\ page'[x] # "login" => next'[x] = "shop"
    BY <2>1 DEF Screen, ScreenOK
  <2>6. ScreenOK' BY <2>1, <2>3, <2>4, <2>5 DEF Screen, ScreenOK
  <2>7. ASSUME NEW x \in Tabs PROVE Knows(x)'
    <3>1. settled'[x] => settled[x] /\ user'[x] = user[x] BY <2>2 DEF Screen, ScreenOK
    <3> QED BY <2>1, <3>1 DEF Screen, Knows, Asked, Grows
  <2> QED BY <2>1, <2>6, <2>7 DEF Screen, Bounced
<1> QED BY <1>2, <1>3

LEMMA DocumentScreen ==
  ASSUME Screen, Grows, NEW t \in Tabs, NEW p \in Pages, NEW n \in Pages \ {"login"},
         Document(t, p, n), p # "login" => n = "shop", token' \in Session
  PROVE  Screen' /\ Bounced
<1> DEFINE c == [session |-> token', newest |-> TRUE]
<1>1. None \in Session /\ c \in Check BY DEF Session, Check
<1>2. <<c>> \in Seq(Check) /\ <<c>> # <<>> /\ \A i \in DOMAIN <<c>> : <<c>>[i].session = token'
  BY <1>1
<1>3. /\ checks' = [checks EXCEPT ![t] = <<c>>] /\ settled' = [settled EXCEPT ![t] = FALSE]
      /\ leaving' = [leaving EXCEPT ![t] = FALSE]
      /\ arrived' = [arrived EXCEPT ![t] = [session |-> token', whole |-> TRUE]]
  BY DEF Document, Guarded
<1> HIDE DEF c
<1>4. checks' \in [Tabs -> Seq(Check)] BY <1>2, <1>3 DEF Screen, ScreenOK
<1>5. /\ page' \in [Tabs -> Pages] /\ next' \in [Tabs -> Pages \ {"login"}]
      /\ back' \in [Tabs -> Pages \cup {None}] /\ leaving' \in [Tabs -> BOOLEAN]
      /\ user' \in [Tabs -> Session] /\ loading' \in [Tabs -> BOOLEAN]
      /\ settled' \in [Tabs -> BOOLEAN]
  BY <1>1, <1>3 DEF Screen, ScreenOK, Document
<1>6. queries' \in [Tabs -> SUBSET Query] BY DEF Screen, ScreenOK, Document, Mounted
<1>7. arrived' \in [Tabs -> [session : Session, whole : BOOLEAN]] BY <1>3 DEF Screen, ScreenOK
<1>8. ASSUME NEW x \in Tabs
      PROVE  /\ page'[x] = "cart" => loading'[x] \/ user'[x] # None \/ leaving'[x]
             /\ leaving'[x] => page'[x] = "cart"
             /\ page'[x] # "login" => next'[x] = "shop"
  BY <1>3 DEF Screen, ScreenOK, Document
<1>9. ScreenOK' BY <1>4, <1>5, <1>6, <1>7, <1>8 DEF ScreenOK
<1>10. ASSUME NEW x \in Tabs PROVE Knows(x)'
  <2>1. CASE x = t
    <3>1. checks'[t] = <<c>> /\ ~settled'[t] BY <1>3 DEF Screen, ScreenOK
    <3>2. arrived'[t] = [session |-> token', whole |-> TRUE] BY <1>3 DEF Screen, ScreenOK
    <3> QED BY <1>2, <2>1, <3>1, <3>2 DEF Knows, Asked
  <2>2. CASE x # t
    <3>1. /\ checks'[x] = checks[x] /\ settled'[x] = settled[x] /\ arrived'[x] = arrived[x]
          /\ user'[x] = user[x] /\ loading'[x] = loading[x]
      BY <1>3, <2>2 DEF Screen, ScreenOK, Document
    <3> QED BY <3>1 DEF Screen, Knows, Asked, Grows
  <2> QED BY <2>1, <2>2
<1>11. \A x \in Tabs : leaving'[x] => leaving[x] BY <1>3 DEF Screen, ScreenOK
<1> QED BY <1>9, <1>10, <1>11 DEF Screen, Bounced

\* An answer to a refresh: the one there is, or nobody when it was refused.
LEMMA AppliedScreen ==
  ASSUME Screen, Grows, NEW t \in Tabs, NEW i \in DOMAIN checks[t], NEW u \in Session,
         Applied(t, i, u), u = checks[t][i].session \/ faults' > 0,
         NEW b \in BOOLEAN, settled' = [settled EXCEPT ![t] = b],
         b => checks[t][i].newest /\ u = checks[t][i].session
  PROVE  Screen' /\ Bounced
<1> DEFINE r == RemoveAt(checks[t], i)
<1>1. checks[t] \in Seq(Check) BY DEF Screen, ScreenOK
<1>2. r \in Seq(Check) /\ \A j \in DOMAIN r : \E k \in DOMAIN checks[t] : r[j] = checks[t][k]
  BY <1>1, RemoveSeq
<1>3. /\ checks' = [checks EXCEPT ![t] = r]
      /\ user' = [user EXCEPT ![t] = u] /\ loading' = [loading EXCEPT ![t] = FALSE]
      /\ leaving' = [leaving EXCEPT ![t] = leaving[t] \/ Guarded(page[t], FALSE, u)]
      /\ UNCHANGED <<page, next, back, queries, arrived>>
  BY DEF Applied
<1> HIDE DEF r
<1>4. checks' \in [Tabs -> Seq(Check)] BY <1>2, <1>3 DEF Screen, ScreenOK
<1>5. /\ user' \in [Tabs -> Session] /\ loading' \in [Tabs -> BOOLEAN]
      /\ settled' \in [Tabs -> BOOLEAN]
  BY <1>3 DEF Screen, ScreenOK
<1>6. leaving' \in [Tabs -> BOOLEAN] BY <1>3 DEF Screen, ScreenOK, Guarded
<1>7. ASSUME NEW x \in Tabs
      PROVE  /\ page'[x] = "cart" => loading'[x] \/ user'[x] # None \/ leaving'[x]
             /\ leaving'[x] => page'[x] = "cart"
             /\ page'[x] # "login" => next'[x] = "shop"
  <2>1. CASE x = t BY <1>3, <2>1 DEF Screen, ScreenOK, Guarded
  <2>2. CASE x # t BY <1>3, <2>2 DEF Screen, ScreenOK
  <2> QED BY <2>1, <2>2
<1>8. ScreenOK' BY <1>3, <1>4, <1>5, <1>6, <1>7 DEF Screen, ScreenOK
<1>9. ASSUME NEW x \in Tabs PROVE Knows(x)'
  <2>1. CASE x = t
    <3>1. checks'[t] = r /\ settled'[t] = b /\ user'[t] = u /\ ~loading'[t]
      BY <1>3 DEF Screen, ScreenOK
    <3>2. arrived'[t] = arrived[t] BY <1>3
    <3>3. Asked(t) BY DEF Screen, Knows
    <3>4. Asked(t)' BY <1>2, <3>1, <3>2, <3>3 DEF Asked
    <3>5. b => u = arrived[t].session BY <3>3 DEF Asked
    <3> QED BY <2>1, <3>1, <3>2, <3>4, <3>5 DEF Knows
  <2>2. CASE x # t
    <3>1. /\ checks'[x] = checks[x] /\ settled'[x] = settled[x] /\ arrived'[x] = arrived[x]
          /\ user'[x] = user[x] /\ loading'[x] = loading[x]
      BY <1>3, <2>2 DEF Screen, ScreenOK
    <3> QED BY <3>1 DEF Screen, Knows, Asked, Grows
  <2> QED BY <2>1, <2>2
<1>10. ASSUME NEW x \in Tabs, leaving'[x], ~leaving[x], arrived'[x].whole
       PROVE  arrived'[x].session = None \/ faults' > 0
  <2>1. x = t BY <1>3, <1>10 DEF Screen, ScreenOK
  <2>2. u = None BY <1>3, <1>10, <2>1 DEF Screen, ScreenOK, Guarded
  <2>3. arrived[t].whole => checks[t][i].session = arrived[t].session
    BY DEF Screen, Knows, Asked
  <2> QED BY <1>3, <1>10, <2>1, <2>2, <2>3
<1> QED BY <1>8, <1>9, <1>10 DEF Screen, Bounced

\* A refresh that fails is taken from the ones under way.
LEMMA LostScreen ==
  ASSUME Screen, Grows, NEW t \in Tabs, NEW i \in DOMAIN checks[t],
         checks' = [checks EXCEPT ![t] = RemoveAt(@, i)],
         UNCHANGED <<screen, user, loading, settled>>, faults' > 0
  PROVE  Screen' /\ Bounced
<1> DEFINE r == RemoveAt(checks[t], i)
<1>1. checks[t] \in Seq(Check) BY DEF Screen, ScreenOK
<1>2. r \in Seq(Check) /\ \A j \in DOMAIN r : \E k \in DOMAIN checks[t] : r[j] = checks[t][k]
  BY <1>1, RemoveSeq
<1>3. checks' = [checks EXCEPT ![t] = r] OBVIOUS
<1> HIDE DEF r
<1>4. checks' \in [Tabs -> Seq(Check)] BY <1>2, <1>3 DEF Screen, ScreenOK
<1>5. UNCHANGED <<page, next, back, leaving, queries, arrived>> BY DEF screen
<1>6. ScreenOK' BY <1>4, <1>5 DEF Screen, ScreenOK
<1>7. ASSUME NEW x \in Tabs PROVE Knows(x)'
  <2>1. Asked(x) /\ (settled[x] => user[x] = arrived[x].session) BY DEF Screen, Knows
  <2>2. CASE x = t
    <3>1. checks'[t] = r BY <1>3 DEF Screen, ScreenOK
    <3>2. \A k \in DOMAIN checks[t] :
            checks[t][k].newest \/ arrived[t].whole => checks[t][k].session = arrived[t].session
      BY <2>1, <2>2 DEF Asked
    <3>3. arrived'[t] = arrived[t] BY <1>5
    <3>4. Asked(t)' BY <1>2, <3>1, <3>2, <3>3 DEF Asked
    <3> QED BY <1>5, <2>1, <2>2, <3>4 DEF Knows, Grows
  <2>3. CASE x # t
    <3>1. checks'[x] = checks[x] BY <1>3, <2>3 DEF Screen, ScreenOK
    <3> QED BY <1>5, <2>1, <3>1 DEF Knows, Asked, Grows
  <2> QED BY <2>2, <2>3
<1> QED BY <1>5, <1>6, <1>7 DEF Screen, Bounced

\* Nothing but a page's own fetches changes.
LEMMA StillScreen ==
  ASSUME Screen, Grows, queries' \in [Tabs -> SUBSET Query],
         UNCHANGED <<page, next, back, leaving, arrived, auth>>
  PROVE  Screen' /\ Bounced
<1>1. UNCHANGED <<user, loading, checks, settled>> BY DEF auth
<1>2. ScreenOK' BY <1>1 DEF Screen, ScreenOK
<1>3. \A x \in Tabs : Knows(x)' BY <1>1 DEF Screen, Knows, Asked, Grows
<1> QED BY <1>2, <1>3 DEF Screen, Bounced

----------------------------------------------------------------------------
(* What the calls that change state do to the cookies.                     *)

\* What a step of tab t may do to the cookies: leave them, issue a new token, which
\* overtakes the calls that have read the old one, or end the session.
JarStep(t) ==
  /\ token' \in Session /\ csrf' \in Csrfs \cup {None}
  /\ overtaken' \subseteq Tabs /\ overtaken \ {t} \subseteq overtaken'
  /\ \/ UNCHANGED <<token, csrf>>
     \/ csrf' # None /\ \A x \in Tabs : call[x].stage = "sending" => x \in overtaken'
     \/ token' = None

LEMMA Issued ==
  ASSUME Calls, NEW t \in Tabs, issueCsrfToken, token' \in Session
  PROVE  JarStep(t) /\ csrf' \in Csrfs /\ csrf' # None
<1> DEFINE unheld == {c \in Csrfs : c # csrf /\ \A x \in Tabs : call[x].header # c}
<1>1. /\ unheld # {} /\ csrf' = CHOOSE c \in unheld : TRUE
      /\ overtaken' = overtaken \cup {x \in Tabs : call[x].stage = "sending"}
  BY DEF issueCsrfToken
<1>2. unheld \subseteq Csrfs OBVIOUS
<1> HIDE DEF unheld
<1>3. csrf' \in Csrfs BY <1>1, <1>2
<1>4. csrf' # None BY <1>3, SessionAssumption
<1> QED BY <1>1, <1>3, <1>4 DEF JarStep, Calls

\* One tab's call changes, to one that has its header when it must.
LEMMA CallChanges ==
  ASSUME Calls, Grows, NEW t \in Tabs, NEW c \in Call, call' = [call EXCEPT ![t] = c],
         JarStep(t),
         c.stage = "ready" /\ faults' = 0 /\ token' # None => csrf' # None,
         c.stage \in {"csrf", "ready"} => c.op # "remove",
         c.stage = "sending" /\ faults' = 0 /\ (c.op = "remove" => restarts' = 0) /\ token' # None =>
           t \in overtaken' \/ (c.header # None /\ c.header = csrf'),
         c.stage = "sent" /\ c.session # None /\ faults' = 0 /\ (c.op = "remove" => restarts' = 0) =>
           c.matches \/ t \in overtaken'
  PROVE  Calls'
<1>1. call' \in [Tabs -> Call] BY DEF Calls
<1>2. restarts' = 0 /\ token' # None => csrf' # None BY DEF Calls, Cookies, Grows, JarStep
<1>3. ASSUME NEW x \in Tabs
      PROVE  /\ call'[x].stage = "ready" /\ faults' = 0 /\ token' # None => csrf' # None
             /\ call'[x].stage \in {"csrf", "ready"} => call'[x].op # "remove"
             /\ call'[x].stage = "sending" /\ Vouched(call[x])' /\ token' # None =>
                  x \in overtaken' \/ (call'[x].header # None /\ call'[x].header = csrf')
             /\ (/\ call'[x].stage = "sent" /\ call'[x].session # None /\ faults' = 0
                 /\ call'[x].op = "remove" => restarts' = 0)
                => call'[x].matches \/ x \in overtaken'
  <2>1. CASE x = t
    <3>1. call'[x] = c BY <2>1 DEF Calls
    <3> QED BY <2>1, <3>1 DEF Vouched
  <2>2. CASE x # t
    <3>1. call'[x] = call[x] BY <2>2 DEF Calls
    <3>2. Vouched(call[x])' => Vouched(call[x]) BY <3>1 DEF Vouched, Grows
    <3>3. x \in overtaken => x \in overtaken' BY <2>2 DEF JarStep
    <3>4. /\ call[x].stage = "ready" /\ faults = 0 /\ token # None => csrf # None
          /\ call[x].stage \in {"csrf", "ready"} => call[x].op # "remove"
          /\ call[x].stage = "sending" /\ Vouched(call[x]) /\ token # None =>
               x \in overtaken \/ (call[x].header # None /\ call[x].header = csrf)
          /\ (/\ call[x].stage = "sent" /\ call[x].session # None /\ faults = 0
              /\ call[x].op = "remove" => restarts = 0)
             => call[x].matches \/ x \in overtaken
      BY DEF Calls, Cookies, NeverRefusedForCsrf
    <3> QED BY <3>1, <3>2, <3>3, <3>4 DEF JarStep, Grows
  <2> QED BY <2>1, <2>2
<1> QED BY <1>1, <1>2, <1>3 DEF Calls, Cookies, NeverRefusedForCsrf, JarStep

LEMMA CallsStill ==
  ASSUME Calls, Grows, UNCHANGED <<jar, call>>
  PROVE  Calls'
BY DEF Calls, Cookies, NeverRefusedForCsrf, Vouched, Grows, jar

LEMMA JarStill ==
  ASSUME Calls, NEW t \in Tabs, UNCHANGED jar
  PROVE  JarStep(t)
BY DEF Calls, jar, JarStep

\* A call that is given up, or has been answered.
LEMMA CallEnds ==
  ASSUME Calls, Grows, NEW t \in Tabs, call' = [call EXCEPT ![t] = Idle], JarStep(t)
  PROVE  Calls'
<1>1. Idle \in Call /\ Idle.stage = "idle" BY DEF Idle, Call, Session
<1> HIDE DEF Idle
<1> QED BY <1>1, CallChanges

----------------------------------------------------------------------------
(* The steps.                                                              *)

LEMMA Counters ==
  /\ SInv => acts \in Nat /\ faults \in Nat /\ restarts \in Nat
  /\ SInv /\ Act => BoundsOK' /\ Grows
  /\ SInv /\ Fault => BoundsOK' /\ Grows /\ faults' > 0
  /\ SInv /\ UNCHANGED bounds => BoundsOK' /\ Grows
BY SessionAssumption DEF SInv, BoundsOK, Act, Fault, Grows, bounds

LEMMA Lates ==
  ASSUME SInv, NEW t \in Tabs
  PROVE  /\ Late(t) \in SUBSET Query
         /\ \A q \in queries[t] : q \in Query /\ q.of \in {"account", "admin"}
BY DEF SInv, Screen, ScreenOK, Late, Query

LEMMA LeavesKeeps ==
  ASSUME SInv, NEW t \in Tabs, Leaves(t)
  PROVE  SInv' /\ Bounced
<1>1. Screen /\ Calls BY DEF SInv
<1>2. token \in Session /\ None \in Session /\ Accounts \subseteq Session
  BY DEF SInv, Calls, Session
<1>3. user \in [Tabs -> Session] /\ back \in [Tabs -> Pages \cup {None}] /\ page \in [Tabs -> Pages]
  BY DEF SInv, Screen, ScreenOK
<1>4. Late(t) \in SUBSET Query BY Lates
<1>5. ASSUME NEW p \in Pages, NEW n \in {"shop", "account"}, p # "login" => n = "shop", Load(t, p, n)
      PROVE  SInv' /\ Bounced
  <2>1. BoundsOK' /\ Grows BY <1>5, Counters DEF Load
  <2>2. token' \in Session BY <1>2, <1>5 DEF Load, jar
  <2>3. Screen' /\ Bounced BY <1>1, <1>5, <2>1, <2>2, DocumentScreen DEF Load, Pages
  <2>4. Calls' BY <1>1, <1>5, <2>1, JarStill, CallEnds DEF Load, Document
  <2> QED BY <2>1, <2>3, <2>4 DEF SInv
<1>6. ASSUME NEW a \in Accounts, GoogleReturn(t, a) PROVE SInv' /\ Bounced
  <2>1. BoundsOK' /\ Grows BY <1>6, Counters DEF GoogleReturn
  <2>2. token' \in Session BY <1>2, <1>6 DEF GoogleReturn
  <2>3. Screen' /\ Bounced BY <1>1, <1>6, <2>1, <2>2, DocumentScreen DEF GoogleReturn, Pages
  <2>4. Calls' BY <1>1, <1>6, <2>1, <2>2, Issued, CallEnds DEF GoogleReturn, Document
  <2> QED BY <2>1, <2>3, <2>4 DEF SInv
<1>7. CASE Back(t)
  <2>1. BoundsOK' /\ Grows BY <1>7, Counters DEF Back
  <2>2. token' \in Session /\ user' \in [Tabs -> Session] BY <1>2, <1>3, <1>7 DEF Back, jar
  <2>3. back[t] \in Pages /\ back' \in [Tabs -> Pages \cup {None}] BY <1>3, <1>7 DEF Back
  <2>4. Screen' /\ Bounced BY <1>1, <1>4, <1>7, <2>1, <2>2, <2>3, VisitScreen DEF Back, Pages
  <2>5. Calls' BY <1>1, <1>7, <2>1, CallsStill DEF Back
  <2> QED BY <2>1, <2>4, <2>5 DEF SInv
<1>8. CASE Proceed(t)
  <2>1. BoundsOK' /\ Grows BY <1>8, Counters DEF Proceed
  <2>2. token' \in Session /\ user' \in [Tabs -> Session] BY <1>2, <1>3, <1>8 DEF Proceed, jar
  <2>3. back' \in [Tabs -> Pages \cup {None}] BY <1>3, <1>8 DEF Proceed, Push
  <2>4. Screen' /\ Bounced
    BY <1>1, <1>4, <1>8, <2>1, <2>2, <2>3, VisitScreen DEF Proceed, Push, Pages
  <2>5. Calls' BY <1>1, <1>8, <2>1, CallsStill DEF Proceed
  <2> QED BY <2>1, <2>4, <2>5 DEF SInv
<1>9. CASE Replaced(t)
  <2>1. BoundsOK' /\ Grows BY <1>9, Counters DEF Replaced
  <2>2. token' \in Session /\ user' \in [Tabs -> Session] BY <1>2, <1>3, <1>9 DEF Replaced, jar
  <2>3. Screen' /\ Bounced
    BY <1>1, <1>3, <1>4, <1>9, <2>1, <2>2, VisitScreen DEF Replaced, Pages
  <2>4. Calls' BY <1>1, <1>9, <2>1, CallsStill DEF Replaced
  <2> QED BY <2>1, <2>3, <2>4 DEF SInv
<1>10. ASSUME NEW q \in queries[t], QueryRefused(t, q) PROVE SInv' /\ Bounced
  <2>1. BoundsOK' /\ Grows BY <1>10, Counters DEF QueryRefused
  <2>2. token' \in Session /\ user' \in [Tabs -> Session]
    BY <1>2, <1>3, <1>10 DEF QueryRefused, jar
  <2>3. q.of \in {"account", "admin"} /\ Late(t) \ {q} \in SUBSET Query BY <1>4, Lates
  <2>4. Screen' /\ Bounced
    BY <1>1, <1>10, <2>1, <2>2, <2>3, PushLoginScreen DEF QueryRefused
  <2>5. Calls' BY <1>1, <1>10, <2>1, CallsStill DEF QueryRefused
  <2> QED BY <2>1, <2>4, <2>5 DEF SInv
<1>11. CASE SignedIn(t)
  <2>1. BoundsOK' /\ Grows BY <1>11, Counters DEF SignedIn
  <2>2. token' \in Session /\ user' \in [Tabs -> Session]
    BY <1>1, <1>3, <1>11 DEF SignedIn, Calls, Call
  <2>3. back' \in [Tabs -> Pages \cup {None}] BY <1>3, <1>11 DEF SignedIn, Push
  <2>4. next[t] \in Pages BY DEF SInv, Screen, ScreenOK
  <2>5. Screen' /\ Bounced
    BY <1>1, <1>4, <1>11, <2>1, <2>2, <2>3, <2>4, VisitScreen DEF SignedIn, Push, Pages
  <2>6. Calls' BY <1>1, <1>11, <2>1, <2>2, Issued, CallEnds DEF SignedIn
  <2> QED BY <2>1, <2>5, <2>6 DEF SInv
<1>12. CASE SignedOut(t)
  <2>1. BoundsOK' /\ Grows BY <1>12, Counters DEF SignedOut
  <2>2. token' \in Session /\ user' \in [Tabs -> Session] /\ \A x \in Tabs \ {t} : user'[x] = user[x]
    BY <1>2, <1>3, <1>12 DEF SignedOut
  <2>3. PICK n \in {"shop"} \cup ({"cart"} \cap {page[t]}) : PushLogin(t, n, Late(t))
    BY <1>12 DEF SignedOut
  <2>4. Screen' /\ Bounced BY <1>1, <1>4, <1>12, <2>1, <2>2, <2>3, PushLoginScreen DEF SignedOut
  <2>5. JarStep(t) BY <1>1, <1>2, <1>12 DEF SignedOut, JarStep, Calls
  <2>6. Calls' BY <1>1, <1>12, <2>1, <2>5, CallEnds DEF SignedOut
  <2> QED BY <2>1, <2>4, <2>6 DEF SInv
<1> QED BY <1>5, <1>6, <1>7, <1>8, <1>9, <1>10, <1>11, <1>12 DEF Leaves

LEMMA StaysStill ==
  ASSUME SInv, Grows, UNCHANGED <<screen, auth>>
  PROVE  Screen' /\ Bounced
<1>1. Screen BY DEF SInv
<1>2. queries' \in [Tabs -> SUBSET Query] BY DEF SInv, Screen, ScreenOK, screen
<1> QED BY <1>1, <1>2, StillScreen DEF screen

LEMMA CheckKeeps ==
  ASSUME SInv, NEW t \in Tabs, NEW i \in DOMAIN checks[t],
         CheckAnswered(t, i) \/ CheckRefused(t, i) \/ CheckLost(t, i)
  PROVE  SInv' /\ Bounced
<1>1. Screen /\ Calls /\ None \in Session BY DEF SInv, Session
<1>2. checks[t] \in Seq(Check) BY DEF SInv, Screen, ScreenOK
<1>3. checks[t][i] \in Check BY <1>2
<1>4. CASE CheckAnswered(t, i)
  <2>1. BoundsOK' /\ Grows BY <1>4, Counters DEF CheckAnswered
  <2>2. checks[t][i].session \in Session /\ checks[t][i].newest \in BOOLEAN BY <1>3 DEF Check
  <2>3. Screen' /\ Bounced BY <1>1, <1>4, <2>1, <2>2, AppliedScreen DEF CheckAnswered
  <2>4. Calls' BY <1>1, <1>4, <2>1, CallsStill DEF CheckAnswered, Applied
  <2> QED BY <2>1, <2>3, <2>4 DEF SInv
<1>5. CASE CheckRefused(t, i)
  <2>1. BoundsOK' /\ Grows /\ faults' > 0 BY <1>5, Counters DEF CheckRefused
  <2>2. Screen' /\ Bounced BY <1>1, <1>5, <2>1, AppliedScreen DEF CheckRefused
  <2>3. Calls' BY <1>1, <1>5, <2>1, CallsStill DEF CheckRefused, Applied
  <2> QED BY <2>1, <2>2, <2>3 DEF SInv
<1>6. CASE CheckLost(t, i)
  <2>1. BoundsOK' /\ Grows /\ faults' > 0 BY <1>6, Counters DEF CheckLost
  <2>2. Screen' /\ Bounced BY <1>1, <1>6, <2>1, LostScreen DEF CheckLost
  <2>3. Calls' BY <1>1, <1>6, <2>1, CallsStill DEF CheckLost
  <2> QED BY <2>1, <2>2, <2>3 DEF SInv
<1> QED BY <1>4, <1>5, <1>6

\* A request is handed to fetch with the header when the cookie is there.
LEMMA StartKeeps ==
  ASSUME SInv, NEW t \in Tabs, NEW op \in Ops \cup {"none"}, NEW a \in Session,
         Start(t, op, a) \/ (Send(t) /\ op = call[t].op)
  PROVE  SInv' /\ Bounced
<1>1. /\ Calls /\ token \in Session /\ csrf \in Csrfs \cup {None} /\ overtaken \subseteq Tabs
      /\ None \in Session /\ call[t] \in Call
  BY DEF SInv, Calls, Session
<1>2. UNCHANGED <<token, csrf, screen, auth>> /\ overtaken' = overtaken \ {t} BY DEF Start, Send
<1>3. BoundsOK' /\ Grows BY Counters DEF Start, Send
<1>4. Screen' /\ Bounced BY <1>2, <1>3, StaysStill
<1>5. JarStep(t) BY <1>1, <1>2 DEF JarStep
<1>6. ASSUME NEW o \in Ops \cup {"none"}, NEW b \in Session
      PROVE  /\ Sending(o, b) \in Call /\ Sending(o, b).stage = "sending"
             /\ Sending(o, b).op = o /\ Sending(o, b).header = csrf
  BY <1>1 DEF Sending, Call, Idle
<1>7. CASE Start(t, op, a) /\ (csrf # None \/ op = "remove")
  <2> DEFINE c == Sending(op, a)
  <2>1. call' = [call EXCEPT ![t] = c] BY <1>7 DEF Start
  <2>2. c \in Call /\ c.stage = "sending" /\ c.op = op /\ c.header = csrf BY <1>6
  <2> HIDE DEF c
  <2>3. faults' = 0 /\ (c.op = "remove" => restarts' = 0) /\ token' # None => csrf # None
    <3>1. restarts = 0 /\ token # None => csrf # None BY <1>1 DEF Calls, Cookies
    <3> QED BY <1>2, <1>3, <1>7, <2>2, <3>1 DEF Grows
  <2>4. Calls' BY <1>1, <1>2, <1>3, <1>5, <2>1, <2>2, <2>3, CallChanges
  <2> QED BY <1>3, <1>4, <2>4 DEF SInv
<1>8. CASE Start(t, op, a) /\ csrf = None /\ op # "remove"
  <2> DEFINE c == [Idle EXCEPT !.op = op, !.account = a, !.stage = "csrf"]
  <2>1. call' = [call EXCEPT ![t] = c] BY <1>8 DEF Start
  <2>2. c \in Call /\ c.stage = "csrf" /\ c.op = op BY <1>1 DEF Idle, Call
  <2> HIDE DEF c
  <2>3. Calls' BY <1>1, <1>3, <1>5, <1>8, <2>1, <2>2, CallChanges
  <2> QED BY <1>3, <1>4, <2>3 DEF SInv
<1>9. CASE Send(t) /\ op = call[t].op
  <2> DEFINE c == Sending(op, call[t].account)
  <2>1. call' = [call EXCEPT ![t] = c] BY <1>9 DEF Send
  <2>2. call[t].account \in Session BY <1>1 DEF Call
  <2>3. c \in Call /\ c.stage = "sending" /\ c.op = op /\ c.header = csrf BY <1>6, <2>2
  <2>4. faults = 0 /\ token # None => csrf # None BY <1>1, <1>9 DEF Send, Calls, Cookies
  <2> HIDE DEF c
  <2>5. faults' = 0 /\ token' # None => csrf # None BY <1>2, <1>3, <2>4 DEF Grows
  <2>6. Calls' BY <1>1, <1>2, <1>3, <1>5, <2>1, <2>3, <2>5, CallChanges
  <2> QED BY <1>3, <1>4, <2>6 DEF SInv
<1> QED BY <1>7, <1>8, <1>9

\* The cookies are attached: the header is the csrfToken of now, unless overtaken.
LEMMA AttachKeeps ==
  ASSUME SInv, NEW t \in Tabs, Attach(t)
  PROVE  SInv' /\ Bounced
<1>1. Calls /\ token \in Session /\ None \in Session /\ call[t] \in Call
  BY DEF SInv, Calls, Session
<1>2. UNCHANGED <<jar, screen, auth>> /\ call[t].stage = "sending" BY DEF Attach
<1>3. BoundsOK' /\ Grows BY Counters DEF Attach
<1>4. Screen' /\ Bounced BY <1>2, <1>3, StaysStill
<1> DEFINE m == call[t].header # None /\ call[t].header = csrf
           c == [call[t] EXCEPT !.stage = "sent", !.header = None, !.session = token, !.matches = m]
<1>5. call' = [call EXCEPT ![t] = c] BY DEF Attach
<1>6. c \in Call BY <1>1 DEF Call
<1>7. c.stage = "sent" /\ c.session = token /\ c.matches = m /\ c.op = call[t].op
  BY <1>1 DEF Call
<1> HIDE DEF c
<1>8. overtaken' = overtaken BY <1>2 DEF jar
<1>9. token # None /\ Vouched(call[t]) => m \/ t \in overtaken BY <1>1, <1>2 DEF Calls, Cookies
<1>10. faults' = 0 /\ (c.op = "remove" => restarts' = 0) => Vouched(call[t])
  BY <1>3, <1>7 DEF Vouched, Grows
<1>11. JarStep(t) BY <1>1, <1>2, JarStill
<1> HIDE DEF m
<1>12. Calls' BY <1>1, <1>3, <1>5, <1>6, <1>7, <1>8, <1>9, <1>10, <1>11, CallChanges
<1> QED BY <1>3, <1>4, <1>12 DEF SInv

LEMMA CallKeeps ==
  ASSUME SInv, NEW t \in Tabs,
         CsrfAnswered(t) \/ CsrfRefused(t) \/ SignInRefused(t) \/ CallLost(t)
  PROVE  SInv' /\ Bounced
<1>1. Calls /\ token \in Session /\ call[t] \in Call /\ call \in [Tabs -> Call]
  BY DEF SInv, Calls
<1>2. UNCHANGED <<screen, auth>> BY DEF CsrfAnswered, CsrfRefused, SignInRefused, CallLost
<1>3. BoundsOK' /\ Grows
  BY Counters DEF CsrfAnswered, CsrfRefused, SignInRefused, CallLost
<1>4. Screen' /\ Bounced BY <1>2, <1>3, StaysStill
<1>5. CASE CsrfAnswered(t) \/ CsrfRefused(t)
  <2> DEFINE c == [call[t] EXCEPT !.stage = "ready"]
  <2>1. call[t].stage = "csrf" /\ call' = [call EXCEPT ![t] = c]
    BY <1>1, <1>5 DEF CsrfAnswered, CsrfRefused
  <2>2. c \in Call /\ c.stage = "ready" /\ c.op = call[t].op BY <1>1 DEF Call
  <2>3. c.op # "remove" BY <1>1, <2>1, <2>2 DEF Calls, Cookies
  <2>4. call' = [call EXCEPT ![t] = c] BY <2>1
  <2> HIDE DEF c
  <2>5. JarStep(t) /\ (faults' = 0 => csrf' # None)
    <3>1. CASE CsrfAnswered(t) BY <1>1, <3>1, Issued DEF CsrfAnswered
    <3>2. CASE CsrfRefused(t) BY <1>1, <3>2, JarStill, Counters DEF CsrfRefused
    <3> QED BY <1>5, <3>1, <3>2
  <2>6. Calls' BY <1>1, <1>3, <2>2, <2>3, <2>4, <2>5, CallChanges
  <2> QED BY <1>3, <1>4, <2>6 DEF SInv
<1>6. CASE SignInRefused(t) \/ CallLost(t)
  <2>1. Calls' BY <1>1, <1>3, <1>6, JarStill, CallEnds DEF SignInRefused, CallLost
  <2> QED BY <1>3, <1>4, <2>1 DEF SInv
<1> QED BY <1>5, <1>6

LEMMA DoneKeeps ==
  ASSUME SInv, NEW t \in Tabs, NEW op \in Ops, Done(t, op)
  PROVE  SInv' /\ Bounced
<1>1. Screen /\ Calls /\ token \in Session BY DEF SInv, Calls
<1>2. BoundsOK' /\ Grows BY Counters DEF Done
<1>3. queries' \in [Tabs -> SUBSET Query] BY <1>1 DEF Done, Screen, ScreenOK, Mounted
<1>4. Screen' /\ Bounced BY <1>1, <1>2, <1>3, StillScreen DEF Done
<1>5. Calls' BY <1>1, <1>2, JarStill, CallEnds DEF Done
<1> QED BY <1>2, <1>4, <1>5 DEF SInv

LEMMA QueryKeeps ==
  ASSUME SInv, NEW t \in Tabs, NEW q \in queries[t], QueryAnswered(t, q)
  PROVE  SInv' /\ Bounced
<1>1. Screen /\ Calls BY DEF SInv
<1>2. BoundsOK' /\ Grows BY Counters DEF QueryAnswered
<1>3. queries' \in [Tabs -> SUBSET Query] BY <1>1 DEF QueryAnswered, Screen, ScreenOK
<1>4. Screen' /\ Bounced BY <1>1, <1>2, <1>3, StillScreen DEF QueryAnswered
<1>5. Calls' BY <1>1, <1>2, CallsStill DEF QueryAnswered
<1> QED BY <1>2, <1>4, <1>5 DEF SInv

LEMMA TabKeeps ==
  ASSUME SInv, NEW t \in Tabs, Tab(t)
  PROVE  SInv' /\ Bounced
<1>1. CASE Leaves(t) BY <1>1, LeavesKeeps
<1>2. CASE Stays(t)
  <2>1. CASE AnyCheckAnswered(t) \/ \E i \in DOMAIN checks[t] : CheckRefused(t, i) \/ CheckLost(t, i)
    BY <2>1, CheckKeeps DEF AnyCheckAnswered
  <2>2. CASE \E op \in Ops \ {"save", "import"}, a \in Session : Start(t, op, a)
    <3>1. PICK op \in Ops \ {"save", "import"}, a \in Session : Start(t, op, a) BY <2>2
    <3>2. op \in Ops \cup {"none"} OBVIOUS
    <3>3. Start(t, op, a) \/ (Send(t) /\ op = call[t].op) BY <3>1
    <3> QED BY <3>2, <3>3, StartKeeps
  <2>3. CASE Send(t)
    <3>1. call[t].op \in Ops \cup {"none"} BY DEF SInv, Calls, Call
    <3> QED BY <2>3, <3>1, StartKeeps DEF Session
  <2>4. CASE CsrfAnswered(t) \/ CsrfRefused(t) \/ SignInRefused(t) BY <2>4, CallKeeps
  <2>5. CASE Done(t, "remove") BY <2>5, DoneKeeps DEF Ops
  <2>6. CASE Attach(t) BY <2>6, AttachKeeps
  <2> QED BY <1>2, <2>1, <2>2, <2>3, <2>4, <2>5, <2>6 DEF Stays
<1>3. CASE \E q \in queries[t] : QueryAnswered(t, q) BY <1>3, QueryKeeps
<1>4. CASE \E op \in {"save", "import"} : Start(t, op, None) \/ Done(t, op)
  <2>1. PICK op \in {"save", "import"} : Start(t, op, None) \/ Done(t, op) BY <1>4
  <2>2. op \in Ops /\ op \in Ops \cup {"none"} /\ None \in Session BY DEF Ops, Session
  <2>3. CASE Start(t, op, None) BY <2>2, <2>3, StartKeeps
  <2>4. CASE Done(t, op) BY <2>2, <2>4, DoneKeeps
  <2> QED BY <2>1, <2>3, <2>4
<1>5. CASE CallLost(t) BY <1>5, CallKeeps
<1> QED BY <1>1, <1>2, <1>3, <1>4, <1>5 DEF Tab

----------------------------------------------------------------------------
(* The theorems.                                                           *)

\* A restarted browser opens the same paths anew: nothing is known there yet.
LEMMA RestartKeeps ==
  ASSUME SInv, Restart
  PROVE  SInv' /\ Bounced
<1> USE SessionAssumption
<1> DEFINE c == [session |-> token, newest |-> TRUE]
<1>1. token \in Session /\ None \in Session BY DEF SInv, Calls, Session
<1>2. <<c>> \in Seq(Check) /\ <<c>> # <<>> /\ \A i \in DOMAIN <<c>> : <<c>>[i].session = token
  BY <1>1 DEF Check
<1>3. /\ checks' = [t \in Tabs |-> <<c>>] /\ settled' = [t \in Tabs |-> FALSE]
      /\ leaving' = [t \in Tabs |-> FALSE]
      /\ arrived' = [t \in Tabs |-> [session |-> token, whole |-> TRUE]]
  BY DEF Restart
<1> HIDE DEF c
<1>4. checks' \in [Tabs -> Seq(Check)] BY <1>2, <1>3
<1>5. arrived' \in [Tabs -> [session : Session, whole : BOOLEAN]] BY <1>1, <1>3
<1>6. /\ page' \in [Tabs -> Pages] /\ next' \in [Tabs -> Pages \ {"login"}]
      /\ back' \in [Tabs -> Pages \cup {None}] /\ leaving' \in [Tabs -> BOOLEAN]
      /\ user' \in [Tabs -> Session] /\ loading' \in [Tabs -> BOOLEAN]
      /\ settled' \in [Tabs -> BOOLEAN]
  BY <1>1, <1>3 DEF Restart, SInv, Screen, ScreenOK
<1>7. queries' \in [Tabs -> SUBSET Query] BY DEF Restart, Mounted
<1>8. ASSUME NEW x \in Tabs
      PROVE  /\ page'[x] = "cart" => loading'[x] \/ user'[x] # None \/ leaving'[x]
             /\ leaving'[x] => page'[x] = "cart"
             /\ page'[x] # "login" => next'[x] = "shop"
  BY DEF Restart, SInv, Screen, ScreenOK
<1>9. ScreenOK' BY <1>4, <1>5, <1>6, <1>7, <1>8 DEF ScreenOK
<1>10. ASSUME NEW x \in Tabs PROVE Knows(x)'
  <2>1. checks'[x] = <<c>> /\ ~settled'[x] /\ arrived'[x].session = token BY <1>3
  <2> QED BY <1>2, <2>1 DEF Knows, Asked
<1>11. BoundsOK' /\ restarts' > 0 BY DEF Restart, SInv, BoundsOK
<1>12. Calls'
  <2>1. Idle \in Call /\ Idle.stage = "idle" BY <1>1 DEF Idle, Call
  <2>2. call' = [t \in Tabs |-> Idle] /\ token' = token /\ csrf' = None /\ overtaken' = {}
    BY DEF Restart
  <2> HIDE DEF Idle
  <2>3. \A t \in Tabs : call'[t].stage = "idle" BY <2>1, <2>2
  <2>4. call' \in [Tabs -> Call] BY <2>1, <2>2
  <2>5. Cookies' BY <1>11, <2>3 DEF Cookies, NeverRefusedForCsrf, Vouched
  <2> QED BY <1>1, <2>2, <2>4, <2>5 DEF Calls
<1>13. \A x \in Tabs : ~leaving'[x] BY <1>3
<1> QED BY <1>9, <1>10, <1>11, <1>12, <1>13 DEF SInv, Screen, Bounced

LEMMA StepKeeps ==
  ASSUME SInv, [Next]_vars
  PROVE  SInv' /\ Bounced
<1>1. CASE \E t \in Tabs : Tab(t) BY <1>1, TabKeeps
<1>2. CASE Expire
  <2>1. BoundsOK' /\ Grows /\ Screen' /\ Bounced
    BY <1>2, Counters, StaysStill DEF Expire
  <2>2. Calls'
    BY <1>2, <2>1 DEF Expire, SInv, Calls, Cookies, NeverRefusedForCsrf, Vouched, Grows, Session
  <2> QED BY <2>1, <2>2 DEF SInv
<1>3. CASE Restart BY <1>3, RestartKeeps
<1>4. CASE UNCHANGED vars
  <2>1. UNCHANGED <<jar, screen, auth, call, bounds>> BY <1>4 DEF vars
  <2>2. BoundsOK' /\ Grows /\ Screen' /\ Bounced BY <2>1, Counters, StaysStill
  <2>3. Calls' BY <2>1, <2>2, CallsStill DEF SInv
  <2> QED BY <2>2, <2>3 DEF SInv
<1> QED BY <1>1, <1>2, <1>3, <1>4 DEF Next

\* For any browser: the inductive invariant (lib/auth.tsx, lib/api.ts).
THEOREM Inductive == Spec => []SInv
<1>1. SInv /\ [Next]_vars => SInv' BY StepKeeps
<1> QED BY Initially, <1>1, PTL DEF Spec

\* Types; a guarded page is shown to somebody, loading, or being left.
THEOREM TypeCorrect == Spec => []SessionTypeOK
BY Inductive, SInvTypeOK, PTL

\* Once its newest refresh is answered, a tab shows the session it came with
\* (lib/auth.tsx:48-62).
THEOREM ShowsSession == Spec => []NavShowsSession
<1>1. SInv => NavShowsSession BY DEF SInv, Screen, Knows, NavShowsSession
<1> QED BY Inductive, <1>1, PTL

\* No tab loads for ever while requests do not fail (lib/auth.tsx:48-52).
THEOREM NeverStuck == Spec => []LoadingIsAsked
<1>1. SInv => LoadingIsAsked BY DEF SInv, Screen, Knows, LoadingIsAsked
<1> QED BY Inductive, <1>1, PTL

\* No signed-in visitor's call fails for its CSRF header while requests do not, unless
\* another token is issued after the header was read (lib/api.ts:23-60).
THEOREM HeaderThere == Spec => []NeverRefusedForCsrf
<1>1. SInv => NeverRefusedForCsrf BY DEF SInv, Calls, Cookies
<1> QED BY Inductive, <1>1, PTL

\* A guarded page sends away for a cause (cart/page.tsx:16-20, checkout/page.tsx:32-36).
THEOREM SentAwayForCause == Spec => BouncedForCause
<1>1. SInv /\ [Next]_vars => [Bounced]_vars BY StepKeeps
<1>2. [Bounced]_vars =>
        [\A t \in Tabs :
           leaving'[t] /\ ~leaving[t] /\ arrived'[t].whole =>
             arrived'[t].session = None \/ faults' > 0]_vars
  BY DEF Bounced
<1> QED BY Inductive, <1>1, <1>2, PTL DEF Spec, BouncedForCause

=============================================================================
