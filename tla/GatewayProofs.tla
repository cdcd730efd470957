---------------------------- MODULE GatewayProofs ----------------------------
(***************************************************************************)
(* Proofs about Gateway for any budgets, windows, addresses, rules and     *)
(* numbers of requests. Its limiters: a refusal has its cause, and what    *)
(* reaches the handlers within the length of a window is bounded wherever  *)
(* it lies. Its monitor: the alerts raised are those the trail of events   *)
(* calls for, and the buffer shows the newest.                             *)
(***************************************************************************)
EXTENDS Gateway, FiniteSetTheorems, SequenceTheorems, TLAPS

Noted == [ip : Addresses, at : Nat, counted : SUBSET Limiters,
          refusedBy : Limiters \cup {"none"}]

----------------------------------------------------------------------------
(* The inductive invariant.                                                *)

\* The requests of an address that a limiter has counted, and those of them it
\* let through, from some time on.
Of(l, a, from) ==
  {j \in DOMAIN seen : seen[j].ip = a /\ l \in seen[j].counted /\ seen[j].at >= from}
Passed(l, a, from) == {j \in Of(l, a, from) : seen[j].refusedBy # l}

\* When the window of a limiter began.
Began(l, a) == budget[l][a].until - LimitWindow

\* The passed ones that the window does not have, but the time as long as one
\* before it.
Before(l, a) == {j \in DOMAIN seen : /\ seen[j].ip = a /\ l \in seen[j].counted
                                     /\ seen[j].refusedBy # l
                                     /\ seen[j].at > Began(l, a) - LimitWindow
                                     /\ seen[j].at < Began(l, a)}

\* A window holds the requests counted since its first, which passed; it and the
\* time before it have let through no more than they may.
Keeps(l, a) ==
  /\ \A j \in DOMAIN seen : seen[j].ip = a /\ l \in seen[j].counted =>
                               seen[j].at < budget[l][a].until
  /\ budget[l][a].until # 0 =>
       \E k \in Passed(l, a, Began(l, a)) : seen[k].at = Began(l, a)
  /\ budget[l][a].until > now => budget[l][a].count = Cardinality(Of(l, a, Began(l, a)))
  /\ Cardinality(Passed(l, a, Began(l, a))) <= MaxPassed[l]
  /\ Cardinality(Before(l, a)) <= MaxPassed[l] - 1

Typed ==
  /\ now \in Nat
  /\ seen \in Seq(Noted) /\ \A j \in DOMAIN seen : seen[j].at <= now
  /\ budget \in [Limiters -> [Addresses -> [count : Nat, until : Nat]]]
  /\ pending \in [Event -> Nat]
  /\ \A l \in Limiters, a \in Addresses : budget[l][a].until <= now + LimitWindow

GInv ==
  /\ Typed
  /\ \A l \in Limiters, a \in Addresses : Keeps(l, a)
  /\ RefusedForCause /\ RateIsBounded

----------------------------------------------------------------------------
(* Sizes.                                                                  *)

\* What budgets and windows are.
LEMMA Constants ==
  /\ LimitWindow \in Nat \ {0}
  /\ \A l \in Limiters : MaxPassed[l] \in Nat \ {0}
BY GatewayAssumption

\* Any choice of positions is finite.
LEMMA Sizes ==
  ASSUME NEW s \in Seq(Noted), NEW S, S \subseteq DOMAIN s
  PROVE  IsFiniteSet(S) /\ Cardinality(S) \in Nat
<1>1. IsFiniteSet(1..Len(s)) BY FS_Interval
<1>2. IsFiniteSet(S) BY <1>1, FS_Subset
<1> QED BY <1>2, FS_CardinalityType

\* One more position.
LEMMA OneMore ==
  ASSUME NEW s \in Seq(Noted), NEW S, S \subseteq DOMAIN s, NEW T, T \subseteq S \cup {Len(s) + 1}
  PROVE  /\ IsFiniteSet(T) /\ Cardinality(T) \in Nat
         /\ Cardinality(S) \in Nat
         /\ Cardinality(T) <= Cardinality(S) + 1
         /\ T = S \cup {Len(s) + 1} => Cardinality(T) = Cardinality(S) + 1
<1>1. IsFiniteSet(S) /\ Cardinality(S) \in Nat BY Sizes
<1>2. Len(s) + 1 \notin S OBVIOUS
<1>3. /\ IsFiniteSet(S \cup {Len(s) + 1})
      /\ Cardinality(S \cup {Len(s) + 1}) = Cardinality(S) + 1
  BY <1>1, <1>2, FS_AddElement
<1>4. IsFiniteSet(T) /\ Cardinality(T) <= Cardinality(S \cup {Len(s) + 1}) BY <1>3, FS_Subset
<1>5. Cardinality(T) \in Nat BY <1>4, FS_CardinalityType
<1> QED BY <1>1, <1>3, <1>4, <1>5

----------------------------------------------------------------------------
(* The window of a limiter and an address, as a request comes.             *)

\* What the positions of the history are worth once a request is noted.
LEMMA NotedSeq ==
  ASSUME Typed, NEW e \in Noted, e.at = now, seen' = Append(seen, e)
  PROVE  /\ seen' \in Seq(Noted) /\ Len(seen') = Len(seen) + 1
         /\ DOMAIN seen' = DOMAIN seen \cup {Len(seen) + 1} /\ Len(seen) + 1 \notin DOMAIN seen
         /\ \A j \in DOMAIN seen : seen'[j] = seen[j]
         /\ seen'[Len(seen) + 1] = e
         /\ \A j \in DOMAIN seen' : seen'[j].at <= now /\ seen'[j].at \in Nat
<1>1. seen \in Seq(Noted) /\ now \in Nat /\ \A j \in DOMAIN seen : seen[j].at <= now
  BY DEF Typed
<1>2. /\ seen' \in Seq(Noted) /\ Len(seen') = Len(seen) + 1
      /\ DOMAIN seen' = 1..(Len(seen) + 1) /\ DOMAIN seen = 1..Len(seen)
  BY <1>1
<1>3. DOMAIN seen' = DOMAIN seen \cup {Len(seen) + 1} /\ Len(seen) + 1 \notin DOMAIN seen
  BY <1>1, <1>2
<1>4. \A j \in DOMAIN seen : seen'[j] = seen[j] BY <1>1
<1>5. seen'[Len(seen) + 1] = e BY <1>1
<1>6. \A j \in DOMAIN seen' : seen'[j] \in Noted BY <1>2
<1>7. \A j \in DOMAIN seen' : seen'[j].at \in Nat BY <1>6 DEF Noted
<1>8. \A j \in DOMAIN seen' : seen'[j].at <= now BY <1>1, <1>3, <1>4, <1>5
<1> QED BY <1>2, <1>3, <1>4, <1>5, <1>7, <1>8

\* A limiter that does not count the request keeps what it has.
LEMMA OtherKeeps ==
  ASSUME Typed, NEW l \in Limiters, NEW a \in Addresses, Keeps(l, a),
         now' \in Nat, now <= now', budget'[l][a] = budget[l][a],
         \/ seen' = seen
         \/ \E e \in Noted : /\ e.at = now /\ seen' = Append(seen, e)
                             /\ e.ip # a \/ l \notin e.counted
  PROVE  Keeps(l, a)'
<1>1. /\ DOMAIN seen \subseteq DOMAIN seen'
      /\ \A j \in DOMAIN seen : seen'[j] = seen[j]
      /\ \A j \in DOMAIN seen' \ DOMAIN seen : ~(seen'[j].ip = a /\ l \in seen'[j].counted)
  <2>1. CASE seen' = seen BY <2>1
  <2>2. ASSUME NEW e \in Noted, e.at = now, seen' = Append(seen, e), e.ip # a \/ l \notin e.counted
        PROVE  /\ DOMAIN seen \subseteq DOMAIN seen'
               /\ \A j \in DOMAIN seen : seen'[j] = seen[j]
               /\ \A j \in DOMAIN seen' \ DOMAIN seen : ~(seen'[j].ip = a /\ l \in seen'[j].counted)
    BY <2>2, NotedSeq
  <2> QED BY <2>1, <2>2
<1>2. Of(l, a, Began(l, a))' = Of(l, a, Began(l, a)) BY <1>1 DEF Of, Began
<1>3. Passed(l, a, Began(l, a))' = Passed(l, a, Began(l, a))
  BY <1>1, <1>2 DEF Passed, Of
<1>4. Before(l, a)' = Before(l, a) BY <1>1 DEF Before, Began
<1>5. Passed(l, a, Began(l, a)) \subseteq DOMAIN seen BY DEF Passed, Of
<1>6. budget[l][a].until \in Nat /\ now \in Nat BY DEF Typed
<1>7. (budget[l][a].until > now => budget[l][a].count = Cardinality(Of(l, a, Began(l, a))))'
  BY <1>2, <1>6 DEF Keeps
<1>8. Cardinality(Passed(l, a, Began(l, a)))' <= MaxPassed[l] BY <1>3 DEF Keeps
<1>9. Cardinality(Before(l, a))' <= MaxPassed[l] - 1 BY <1>4 DEF Keeps
<1>10. \A j \in DOMAIN seen' : seen'[j].ip = a /\ l \in seen'[j].counted =>
                                 seen'[j].at < budget'[l][a].until
  BY <1>1 DEF Keeps
<1>11. ASSUME budget'[l][a].until # 0
       PROVE  (\E k \in Passed(l, a, Began(l, a)) : seen[k].at = Began(l, a))'
  <2>1. PICK k \in Passed(l, a, Began(l, a)) : seen[k].at = Began(l, a) BY <1>11 DEF Keeps
  <2>2. seen'[k].at = Began(l, a)' BY <1>1, <1>5, <2>1 DEF Began
  <2> QED BY <1>3, <2>1, <2>2
<1> QED BY <1>7, <1>8, <1>9, <1>10, <1>11 DEF Keeps

\* Whatever the time, the passed requests less than a window old are those of
\* the present window and of the time before it.
LEMMA Recently ==
  ASSUME Typed', NEW l \in Limiters, NEW a \in Addresses, Keeps(l, a)',
         NEW R, R \subseteq {j \in DOMAIN seen' :
                              /\ seen'[j].ip = a /\ l \in seen'[j].counted
                              /\ seen'[j].refusedBy # l
                              /\ now' - seen'[j].at < LimitWindow}
  PROVE  Cardinality(R) <= 2 * MaxPassed[l] - 1
<1> DEFINE P == Passed(l, a, Began(l, a))'
           B == Before(l, a)'
           u == budget'[l][a].until
<1>1. /\ seen' \in Seq(Noted) /\ now' \in Nat /\ u \in Nat /\ u <= now' + LimitWindow
      /\ LimitWindow \in Nat \ {0} /\ MaxPassed[l] \in Nat \ {0}
      /\ \A j \in DOMAIN seen' : seen'[j].at \in Nat
  <2>1. seen' \in Seq(Noted) BY DEF Typed
  <2>2. \A j \in DOMAIN seen' : seen'[j] \in Noted BY <2>1
  <2> QED BY <2>1, <2>2, Constants DEF Typed, Noted
<1>2. P \subseteq DOMAIN seen' /\ B \subseteq DOMAIN seen' BY DEF Passed, Of, Before
<1>3. /\ IsFiniteSet(P) /\ Cardinality(P) \in Nat /\ IsFiniteSet(B) /\ Cardinality(B) \in Nat
  BY <1>1, <1>2, Sizes
<1>4. Cardinality(P) <= MaxPassed[l] /\ Cardinality(B) <= MaxPassed[l] - 1 BY DEF Keeps
<1>5. R \subseteq P \cup B
  <2> SUFFICES ASSUME NEW j \in R PROVE j \in P \cup B OBVIOUS
  <2>1. Began(l, a)' = u - LimitWindow BY DEF Began
  <2>2. seen'[j].at > u - LimitWindow - LimitWindow BY <1>1
  <2>3. CASE seen'[j].at >= u - LimitWindow BY <2>1, <2>3 DEF Passed, Of
  <2>4. CASE seen'[j].at < u - LimitWindow BY <2>1, <2>2, <2>4 DEF Before
  <2>5. seen'[j].at \in Nat BY <1>1
  <2> QED BY <1>1, <2>3, <2>4, <2>5
<1>6. IsFiniteSet(P \cup B) /\ Cardinality(P \cup B) <= Cardinality(P) + Cardinality(B)
  <2>1. P \cap B \subseteq DOMAIN seen' BY <1>2
  <2>2. Cardinality(P \cap B) \in Nat BY <1>1, <2>1, Sizes
  <2>3. /\ IsFiniteSet(P \cup B)
        /\ Cardinality(P \cup B) = Cardinality(P) + Cardinality(B) - Cardinality(P \cap B)
    BY <1>3, FS_Union
  <2> HIDE DEF P, B
  <2> QED BY <1>3, <2>2, <2>3
<1>7. Cardinality(R) <= Cardinality(P \cup B) BY <1>5, <1>6, FS_Subset
<1>8. Cardinality(R) \in Nat /\ Cardinality(P \cup B) \in Nat
  BY <1>5, <1>6, FS_Subset, FS_CardinalityType
<1> HIDE DEF P, B
<1> QED BY <1>1, <1>3, <1>4, <1>6, <1>7, <1>8

\* A limiter that counts the request begins a window, or goes on with its own;
\* when it refuses, its window holds as many as it lets through.
LEMMA CounterKeeps ==
  ASSUME Typed, NEW l \in Limiters, NEW a \in Addresses, Keeps(l, a), now' = now,
         NEW e \in Noted, e.ip = a, e.at = now, l \in e.counted, seen' = Append(seen, e),
         budget'[l][a] = Hit(l, a), e.refusedBy # l <=> Passes(l, a)
  PROVE  /\ Keeps(l, a)'
         /\ e.refusedBy = l =>
              /\ budget[l][a].until > now
              /\ Cardinality(Of(l, a, Began(l, a))) >= MaxPassed[l]
<1> DEFINE n == Len(seen) + 1
           b == budget[l][a]
           O == Of(l, a, Began(l, a))
           P == Passed(l, a, Began(l, a))
           B == Before(l, a)
<1>1. /\ seen \in Seq(Noted) /\ now \in Nat /\ b \in [count : Nat, until : Nat]
      /\ b.until <= now + LimitWindow
      /\ LimitWindow \in Nat \ {0} /\ MaxPassed[l] \in Nat \ {0}
      /\ \A j \in DOMAIN seen : seen[j].at \in Nat /\ seen[j].at <= now
  <2>1. seen \in Seq(Noted) BY DEF Typed
  <2>2. \A j \in DOMAIN seen : seen[j] \in Noted BY <2>1
  <2> QED BY <2>1, <2>2, Constants DEF Typed, Noted
<1>2. /\ DOMAIN seen' = DOMAIN seen \cup {n} /\ n \notin DOMAIN seen
      /\ \A j \in DOMAIN seen : seen'[j] = seen[j]
      /\ seen'[n] = e
  BY NotedSeq
<1>3. O \subseteq DOMAIN seen /\ P \subseteq O /\ B \subseteq DOMAIN seen BY DEF Of, Passed, Before
<1>4. /\ Cardinality(O) \in Nat /\ Cardinality(P) \in Nat /\ Cardinality(B) \in Nat
      /\ IsFiniteSet(O) /\ IsFiniteSet(P) /\ IsFiniteSet(B)
  BY <1>1, <1>3, Sizes
<1>5. CASE b.until <= now
  <2>1. /\ budget'[l][a] = [count |-> 1, until |-> now + LimitWindow] /\ Passes(l, a)
        /\ Began(l, a)' = now
    BY <1>1, <1>5 DEF Hit, Passes, Began
  <2>2. \A j \in DOMAIN seen : seen[j].ip = a /\ l \in seen[j].counted => seen[j].at < now
    BY <1>1, <1>5 DEF Keeps
  <2>3. Of(l, a, Began(l, a))' = {n} BY <1>1, <1>2, <2>1, <2>2 DEF Of
  <2>4. Passed(l, a, Began(l, a))' = {n} BY <1>2, <2>1, <2>3 DEF Passed
  <2>5. Cardinality({n}) = 1 BY FS_Singleton
  <2>6. \A j \in DOMAIN seen' : seen'[j].ip = a /\ l \in seen'[j].counted =>
                                  seen'[j].at < budget'[l][a].until
    BY <1>1, <1>2, <2>1
  <2>7. Cardinality(Before(l, a)') <= MaxPassed[l] - 1
    <3>1. ASSUME NEW j \in Before(l, a)' PROVE j \in P /\ seen[j].at > Began(l, a) /\ b.until # 0
      <4>1. /\ j \in DOMAIN seen /\ seen[j].ip = a /\ l \in seen[j].counted
            /\ seen[j].refusedBy # l /\ seen[j].at > now - LimitWindow
        BY <1>1, <1>2, <2>1 DEF Before
      <4>2. seen[j].at > Began(l, a)
        <5>1. seen[j].at \in Nat /\ b.until \in Nat BY <1>1, <4>1
        <5>2. Began(l, a) = b.until - LimitWindow BY DEF Began
        <5> HIDE DEF b
        <5> QED BY <1>1, <1>5, <4>1, <5>1, <5>2
      <4>3. seen[j].at < b.until BY <4>1 DEF Keeps
      <4> QED BY <1>1, <4>1, <4>2, <4>3 DEF Passed, Of, Began
    <3>2. CASE Before(l, a)' = {} BY <1>1, <3>2, FS_EmptySet
    <3>3. CASE Before(l, a)' # {}
      <4>1. PICK k \in P : seen[k].at = Began(l, a) BY <3>1, <3>3 DEF Keeps
      <4>2. Before(l, a)' \subseteq P \ {k}
        <5>1. ASSUME NEW j \in Before(l, a)' PROVE j # k
          BY <1>1, <1>3, <3>1, <4>1 DEF Began
        <5> QED BY <3>1, <5>1
      <4>3. IsFiniteSet(P \ {k}) /\ Cardinality(P \ {k}) = Cardinality(P) - 1
        BY <1>4, <4>1, FS_RemoveElement
      <4>4. Cardinality(Before(l, a)') <= Cardinality(P \ {k}) BY <4>2, <4>3, FS_Subset
      <4>5. Cardinality(Before(l, a)') \in Nat BY <4>2, <4>3, FS_Subset, FS_CardinalityType
      <4>6. Cardinality(P) <= MaxPassed[l] BY DEF Keeps
      <4> HIDE DEF P
      <4> QED BY <1>1, <1>4, <4>3, <4>4, <4>5, <4>6
    <3> QED BY <3>2, <3>3
  <2>8. seen'[n].at = Began(l, a)' BY <1>2, <2>1
  <2>9. (budget[l][a].until > now => budget[l][a].count = Cardinality(Of(l, a, Began(l, a))))'
    BY <2>1, <2>3, <2>5
  <2>10. Cardinality(Passed(l, a, Began(l, a)))' <= MaxPassed[l] BY <1>1, <2>4, <2>5
  <2>11. (\E k \in Passed(l, a, Began(l, a)) : seen[k].at = Began(l, a))' BY <2>4, <2>8
  <2> HIDE DEF n
  <2>12. Keeps(l, a)' BY <2>6, <2>7, <2>9, <2>10, <2>11 DEF Keeps
  <2> QED BY <2>1, <2>12
<1>6. CASE b.until > now
  <2>1. /\ budget'[l][a] = [count |-> b.count + 1, until |-> b.until]
        /\ Began(l, a)' = Began(l, a) /\ Began(l, a) <= now /\ Began(l, a) \in Int
    BY <1>1, <1>6 DEF Hit, Began
  <2>2. Of(l, a, Began(l, a))' = O \cup {n} BY <1>1, <1>2, <2>1 DEF Of
  <2>3. Passed(l, a, Began(l, a))' = IF e.refusedBy # l THEN P \cup {n} ELSE P
    BY <1>1, <1>2, <1>3, <2>1, <2>2 DEF Passed, Of
  <2>4. Before(l, a)' = B BY <1>1, <1>2, <2>1 DEF Before
  <2>5. Cardinality(O) = b.count BY <1>6 DEF Keeps
  <2>6. Cardinality(Of(l, a, Began(l, a))') = b.count + 1
    <3>1. n \notin O BY <1>2, <1>3
    <3>2. Cardinality(O \cup {n}) = Cardinality(O) + 1 BY <1>4, <3>1, FS_AddElement
    <3> QED BY <2>2, <2>5, <3>2
  <2>7. Passes(l, a) <=> b.count + 1 <= MaxPassed[l] BY <1>1, <1>6 DEF Passes, Hit
  <2>8. Cardinality(P) <= MaxPassed[l] /\ Cardinality(B) <= MaxPassed[l] - 1 BY DEF Keeps
  <2>9. Cardinality(Passed(l, a, Began(l, a))') <= MaxPassed[l]
    <3>1. CASE e.refusedBy # l
      <4>1. Cardinality(P \cup {n}) = Cardinality(P) + 1 BY <1>2, <1>3, <1>4, FS_AddElement
      <4>2. Cardinality(P) <= Cardinality(O) BY <1>3, <1>4, FS_Subset
      <4>3. Passed(l, a, Began(l, a))' = P \cup {n} BY <2>3, <3>1
      <4>4. b.count + 1 <= MaxPassed[l] BY <2>7, <3>1
      <4> HIDE DEF P, O
      <4>5. Cardinality(P) + 1 <= MaxPassed[l]
        BY ONLY <1>1, <1>4, <2>5, <4>2, <4>4, Constants
      <4> QED BY ONLY <4>1, <4>3, <4>5
    <3>2. CASE e.refusedBy = l BY <2>3, <2>8, <3>2
    <3> QED BY <3>1, <3>2
  <2>10. \A j \in DOMAIN seen' : seen'[j].ip = a /\ l \in seen'[j].counted =>
                                   seen'[j].at < budget'[l][a].until
    BY <1>1, <1>2, <1>6, <2>1 DEF Keeps
  <2>11. \E k \in Passed(l, a, Began(l, a))' : seen'[k].at = Began(l, a)'
    <3>1. PICK k \in P : seen[k].at = Began(l, a) BY <1>1, <1>6 DEF Keeps
    <3>2. k \in Passed(l, a, Began(l, a))' /\ seen'[k] = seen[k] BY <1>2, <1>3, <2>3, <3>1
    <3> QED BY <2>1, <3>1, <3>2
  <2>12. Keeps(l, a)'
    <3>1. (budget[l][a].until > now => budget[l][a].count = Cardinality(Of(l, a, Began(l, a))))'
      BY <2>1, <2>6
    <3>2. Cardinality(Passed(l, a, Began(l, a)))' <= MaxPassed[l] BY <2>9
    <3>3. Cardinality(Before(l, a))' <= MaxPassed[l] - 1 BY <2>4, <2>8
    <3>4. (\E k \in Passed(l, a, Began(l, a)) : seen[k].at = Began(l, a))' BY <2>11
    <3> QED BY <2>10, <3>1, <3>2, <3>3, <3>4 DEF Keeps
  <2>13. e.refusedBy = l => Cardinality(O) >= MaxPassed[l] BY <1>1, <2>5, <2>7
  <2> QED BY <1>6, <2>12, <2>13
<1> QED BY <1>1, <1>5, <1>6

----------------------------------------------------------------------------
(* The steps.                                                              *)

\* A request leaves the limiters alone, or is noted by those it reaches, of
\* which at most the last one refuses it.
LEMMA RequestEffect ==
  ASSUME Typed, NEW a \in Addresses, Request(a)
  PROVE  /\ now' = now /\ pending' \in [Event -> Nat]
         /\ \/ UNCHANGED <<budget, seen>>
            \/ \E ls \in SUBSET Limiters, r \in Limiters \cup {"none"} :
                 /\ Count(ls, a) /\ Note(a, ls, r) /\ r \in ls \cup {"none"}
                 /\ \A l \in ls : r # l <=> Passes(l, a)
<1>1. now' = now BY DEF Request, monitorVars
<1>2. ASSUME NEW events, Pend(events) PROVE pending' \in [Event -> Nat]
  BY <1>2 DEF Pend, Typed
<1>3. CASE Deny(a) BY <1>1, <1>2, <1>3 DEF Deny
<1>4. CASE Filter(a) BY <1>1, <1>4 DEF Filter, gatewayVars, Typed
<1>5. CASE SlowDown(a)
  <2>1. {"global"} \in SUBSET Limiters /\ "global" \in Limiters BY DEF Limiters
  <2>2. \A k \in {"global"} : "global" # k <=> Passes(k, a) BY <1>5 DEF SlowDown
  <2> QED BY <1>1, <1>5, <2>1, <2>2 DEF SlowDown, Typed
<1>6. CASE Browse(a)
  <2>1. {"global"} \in SUBSET Limiters BY DEF Limiters
  <2>2. \A k \in {"global"} : "none" # k <=> Passes(k, a) BY <1>6 DEF Browse
  <2> QED BY <1>1, <1>6, <2>1, <2>2 DEF Browse, Typed
<1>7. ASSUME NEW l \in {"auth", "payment"}, TooMany(a, l)
      PROVE  /\ pending' \in [Event -> Nat]
             /\ \E ls \in SUBSET Limiters, r \in Limiters \cup {"none"} :
                  /\ Count(ls, a) /\ Note(a, ls, r) /\ r \in ls \cup {"none"}
                  /\ \A k \in ls : r # k <=> Passes(k, a)
  <2>1. {"global", l} \in SUBSET Limiters /\ l \in Limiters /\ l # "global" BY DEF Limiters
  <2>2. \A k \in {"global", l} : l # k <=> Passes(k, a) BY <1>7, <2>1 DEF TooMany
  <2> QED BY <1>7, <2>1, <2>2 DEF TooMany, Typed
<1>8. CASE SignIn(a)
  <2>1. pending' \in [Event -> Nat] BY <1>2, <1>8 DEF SignIn
  <2>2. \A k \in {"global", "auth"} : "none" # k <=> Passes(k, a) BY <1>8 DEF SignIn
  <2> QED BY <1>1, <1>8, <2>1, <2>2 DEF SignIn, Limiters
<1>9. CASE CheckOut(a)
  <2>1. {"global", "payment"} \in SUBSET Limiters BY DEF Limiters
  <2>2. \A k \in {"global", "payment"} : "none" # k <=> Passes(k, a) BY <1>9 DEF CheckOut
  <2> QED BY <1>1, <1>9, <2>1, <2>2 DEF CheckOut, Typed
<1> QED BY <1>1, <1>3, <1>4, <1>5, <1>6, <1>7, <1>8, <1>9 DEF Request

\* A request that is counted.
LEMMA NotedKeeps ==
  ASSUME GInv, NEW a \in Addresses, now' = now, pending' \in [Event -> Nat],
         NEW ls \in SUBSET Limiters, NEW r \in Limiters \cup {"none"},
         Count(ls, a), Note(a, ls, r), r \in ls \cup {"none"},
         \A l \in ls : r # l <=> Passes(l, a)
  PROVE  GInv'
<1> DEFINE e == [ip |-> a, at |-> now, counted |-> ls, refusedBy |-> r]
<1>1. Typed /\ \A l \in Limiters, b \in Addresses : Keeps(l, b) BY DEF GInv
<1>2. /\ e \in Noted /\ e.at = now /\ e.ip = a /\ e.counted = ls /\ e.refusedBy = r
      /\ seen' = Append(seen, e)
  BY <1>1 DEF Note, Noted, Typed
<1> HIDE DEF e
<1>a. Len(seen) + 1 \in Nat BY <1>1 DEF Typed
<1>b. PICK n \in Nat : n = Len(seen) + 1 BY <1>a
<1>3. /\ seen' \in Seq(Noted) /\ DOMAIN seen' = DOMAIN seen \cup {n} /\ n \notin DOMAIN seen
      /\ \A j \in DOMAIN seen : seen'[j] = seen[j]
      /\ seen'[n] = e /\ DOMAIN seen' = 1..n
      /\ \A j \in DOMAIN seen' : seen'[j].at <= now /\ seen'[j].at \in Nat
  <2>1. seen \in Seq(Noted) BY <1>1 DEF Typed
  <2> QED BY <1>1, <1>2, <1>b, <2>1, NotedSeq
<1>4. /\ \A l \in Limiters, b \in Addresses :
           budget'[l][b] = IF l \in ls /\ b = a THEN Hit(l, b) ELSE budget[l][b]
  BY DEF Count
<1>5. \A l \in Limiters, b \in Addresses :
        Hit(l, b) \in [count : Nat, until : Nat] /\ Hit(l, b).until <= now + LimitWindow
  <2> TAKE l \in Limiters, b \in Addresses
  <2>1. /\ budget[l][b] \in [count : Nat, until : Nat] /\ now \in Nat
        /\ budget[l][b].until <= now + LimitWindow
    BY <1>1 DEF Typed
  <2> QED BY <2>1, Constants DEF Hit
<1>6. Typed'
  <2>1. budget' \in [Limiters -> [Addresses -> [count : Nat, until : Nat]]]
    BY <1>1, <1>5 DEF Count, Typed
  <2>2. \A l \in Limiters, b \in Addresses : budget'[l][b].until <= now + LimitWindow
    BY <1>1, <1>4, <1>5 DEF Typed
  <2> QED BY <1>1, <1>3, <2>1, <2>2 DEF Typed
<1>7. ASSUME NEW l \in Limiters, NEW b \in Addresses PROVE Keeps(l, b)'
  <2>1. CASE l \in ls /\ b = a BY <1>1, <1>2, <1>4, <2>1, CounterKeeps
  <2>2. CASE ~(l \in ls /\ b = a)
    <3>1. budget'[l][b] = budget[l][b] /\ (e.ip # b \/ l \notin e.counted) BY <1>2, <1>4, <2>2
    <3>2. now' \in Nat /\ now <= now' BY <1>1 DEF Typed
    <3> QED BY <1>1, <1>2, <3>1, <3>2, OtherKeeps
  <2> QED BY <2>1, <2>2
<1>8. ASSUME NEW i \in DOMAIN seen, NEW l
      PROVE  Near(i, l)' = Near(i, l) /\ seen'[i] = seen[i] /\ Near(i, l) \subseteq DOMAIN seen
  <2>1. seen \in Seq(Noted) BY <1>1 DEF Typed
  <2>2. 1..i \subseteq DOMAIN seen BY <2>1
  <2> QED BY <1>3, <2>2 DEF Near
<1>9. RefusedForCause'
  <2>1. ASSUME NEW i \in DOMAIN seen, NEW l \in Limiters, seen[i].refusedBy = l
        PROVE  Cardinality(Near(i, l)' \ {i}) >= MaxPassed[l]
    <3>1. l # "none" BY DEF Limiters
    <3>2. Cardinality(Near(i, l) \ {i}) >= MaxPassed[l] BY <2>1, <3>1 DEF GInv, RefusedForCause
    <3> QED BY <1>8, <3>2
  <2>2. ASSUME r # "none"
        PROVE  Cardinality(Near(n, r)' \ {n}) >= MaxPassed[r]
    <3>1. r \in ls /\ r \in Limiters BY <2>2
    <3>2. budget[r][a].until > now /\ Cardinality(Of(r, a, Began(r, a))) >= MaxPassed[r]
      BY <1>1, <1>2, <1>4, <3>1, CounterKeeps
    <3>3. Of(r, a, Began(r, a)) \subseteq Near(n, r)' \ {n}
      <4> SUFFICES ASSUME NEW j \in Of(r, a, Began(r, a)) PROVE j \in Near(n, r)' /\ j # n
        OBVIOUS
      <4>1. /\ j \in DOMAIN seen /\ seen'[j] = seen[j] /\ seen[j].ip = a /\ r \in seen[j].counted
            /\ seen[j].at >= Began(r, a)
        BY <1>3 DEF Of
      <4>2. seen'[j].at \in Nat /\ now \in Nat /\ budget[r][a].until \in Nat
        BY <1>1, <1>3, <3>1, <4>1 DEF Typed
      <4>3. now - seen'[j].at < LimitWindow BY <3>2, <4>1, <4>2, Constants DEF Began
      <4>4. j \in 1..n /\ j # n
        <5>1. seen \in Seq(Noted) BY <1>1 DEF Typed
        <5> QED BY <1>3, <4>1, <5>1
      <4> QED BY <1>2, <1>3, <4>1, <4>3, <4>4 DEF Near
    <3>4. Near(n, r)' \ {n} \subseteq DOMAIN seen'
      BY <1>3 DEF Near
    <3>5. IsFiniteSet(Near(n, r)' \ {n}) /\ Cardinality(Near(n, r)' \ {n}) \in Nat
      BY <1>3, <3>4, Sizes
    <3>6. Of(r, a, Began(r, a)) \subseteq DOMAIN seen BY DEF Of
    <3>7. Cardinality(Of(r, a, Began(r, a))) \in Nat BY <1>1, <3>6, Sizes DEF Typed
    <3>8. Cardinality(Of(r, a, Began(r, a))) <= Cardinality(Near(n, r)' \ {n})
      BY <3>3, <3>5, FS_Subset
    <3> QED BY <3>1, <3>2, <3>5, <3>7, <3>8, Constants
  <2>3. ASSUME NEW i \in DOMAIN seen', NEW l, seen'[i].refusedBy = l, l # "none"
        PROVE  Cardinality(Near(i, l)' \ {i}) >= MaxPassed[l]
    <3>1. CASE i = n BY <1>2, <1>3, <2>2, <2>3, <3>1
    <3>2. CASE i # n
      <4>1. i \in DOMAIN seen /\ seen'[i] = seen[i] BY <1>3, <3>2
      <4>2. seen'[i] \in Noted BY <1>3
      <4>3. l \in Limiters BY <2>3, <4>2 DEF Noted
      <4> QED BY <2>1, <2>3, <4>1, <4>3
    <3> QED BY <3>1, <3>2
  <2> QED BY <2>3 DEF RefusedForCause
<1>10. RateIsBounded'
  <2>1. ASSUME NEW i \in DOMAIN seen, NEW l \in Limiters
        PROVE  Cardinality({j \in Near(i, l) : seen[j].refusedBy # l})' <= 2 * MaxPassed[l] - 1
    <3>1. {j \in Near(i, l) : seen[j].refusedBy # l}' = {j \in Near(i, l) : seen[j].refusedBy # l}
      BY <1>3, <1>8
    <3> QED BY <3>1 DEF GInv, RateIsBounded
  <2>2. ASSUME NEW l \in Limiters
        PROVE  Cardinality({j \in Near(n, l)' : seen'[j].refusedBy # l}) <= 2 * MaxPassed[l] - 1
    <3>1. {j \in Near(n, l)' : seen'[j].refusedBy # l} \subseteq
            {j \in DOMAIN seen' : /\ seen'[j].ip = a /\ l \in seen'[j].counted
                                  /\ seen'[j].refusedBy # l
                                  /\ now' - seen'[j].at < LimitWindow}
      BY <1>1, <1>2, <1>3 DEF Near, Typed
    <3> QED BY <1>6, <1>7, <3>1, Recently
  <2>3. ASSUME NEW i \in DOMAIN seen', NEW l \in Limiters
        PROVE  Cardinality({j \in Near(i, l) : seen[j].refusedBy # l})' <= 2 * MaxPassed[l] - 1
    <3>1. CASE i = n BY <2>2, <3>1
    <3>2. CASE i # n
      <4>1. i \in DOMAIN seen BY <1>3, <3>2
      <4> QED BY <2>1, <4>1
    <3> QED BY <3>1, <3>2
  <2> QED BY <2>3 DEF RateIsBounded
<1> QED BY <1>6, <1>7, <1>9, <1>10 DEF GInv

\* Nothing is counted in a process that has just started.
LEMMA FreshTyped ==
  /\ Fresh \in [Limiters -> [Addresses -> [count : Nat, until : Nat]]]
  /\ \A l \in Limiters, a \in Addresses : Fresh[l][a] = [count |-> 0, until |-> 0]
BY DEF Fresh

\* Nothing is counted at the start.
LEMMA GatewayInitially == GatewayInit => GInv
<1> SUFFICES ASSUME GatewayInit PROVE GInv OBVIOUS
<1>1. budget = Fresh /\ seen = <<>> /\ now = 0 /\ pending = [e \in Event |-> 0]
  BY DEF GatewayInit, Init
<1>2. Typed BY <1>1, FreshTyped, Constants DEF Typed
<1>3. ASSUME NEW l \in Limiters, NEW a \in Addresses PROVE Keeps(l, a)
  <2>1. Passed(l, a, Began(l, a)) = {} /\ Before(l, a) = {} BY <1>1 DEF Passed, Of, Before
  <2>2. Cardinality({}) = 0 BY FS_EmptySet
  <2>3. budget[l][a].until = 0 BY <1>1, FreshTyped
  <2> QED BY <1>1, <2>1, <2>2, <2>3, Constants DEF Keeps
<1>4. RefusedForCause /\ RateIsBounded BY <1>1 DEF RefusedForCause, RateIsBounded
<1> QED BY <1>2, <1>3, <1>4 DEF GInv

\* The stores of a new process are empty.
LEMMA RestartKeeps ==
  ASSUME GInv, GatewayRestart
  PROVE  GInv'
<1>1. budget' = Fresh /\ seen' = <<>> /\ now' = now /\ pending' = [e \in Event |-> 0]
  BY DEF GatewayRestart, Restart
<1>2. Typed' BY <1>1, FreshTyped, Constants DEF Typed, GInv
<1>3. ASSUME NEW l \in Limiters, NEW a \in Addresses PROVE Keeps(l, a)'
  <2>1. Passed(l, a, Began(l, a))' = {} /\ Before(l, a)' = {} BY <1>1 DEF Passed, Of, Before
  <2>2. Cardinality({}) = 0 BY FS_EmptySet
  <2>3. budget'[l][a].until = 0 /\ now' \in Nat BY <1>1, <1>2, FreshTyped DEF Typed
  <2>4. (budget[l][a].until > now => budget[l][a].count = Cardinality(Of(l, a, Began(l, a))))'
    BY <2>3
  <2>5. Cardinality(Passed(l, a, Began(l, a)))' <= MaxPassed[l] BY <2>1, <2>2, Constants
  <2>6. Cardinality(Before(l, a))' <= MaxPassed[l] - 1 BY <2>1, <2>2, Constants
  <2> QED BY <1>1, <2>3, <2>4, <2>5, <2>6 DEF Keeps
<1>4. RefusedForCause' /\ RateIsBounded' BY <1>1 DEF RefusedForCause, RateIsBounded
<1> QED BY <1>2, <1>3, <1>4 DEF GInv

\* Time passes, or a record is written: the limiters are as they were.
LEMMA StillKeeps ==
  ASSUME GInv, UNCHANGED <<budget, seen>>, now' \in Nat, now <= now', pending' \in [Event -> Nat]
  PROVE  GInv'
<1>1. Typed'
  <2>1. Typed BY DEF GInv
  <2>2. \A j \in DOMAIN seen : seen[j] \in Noted BY <2>1 DEF Typed
  <2>3. \A j \in DOMAIN seen : seen[j].at \in Nat BY <2>2 DEF Noted
  <2>4. \A j \in DOMAIN seen' : seen'[j].at <= now' BY <2>1, <2>3 DEF Typed
  <2>5. \A l \in Limiters, a \in Addresses : budget'[l][a].until <= now' + LimitWindow
    <3> TAKE l \in Limiters, a \in Addresses
    <3>1. budget[l][a] \in [count : Nat, until : Nat] /\ budget[l][a].until <= now + LimitWindow
      BY <2>1 DEF Typed
    <3> QED BY <2>1, <3>1, Constants DEF Typed
  <2> QED BY <2>1, <2>4, <2>5 DEF Typed
<1>2. \A l \in Limiters, a \in Addresses : Keeps(l, a)' BY OtherKeeps DEF GInv
<1>3. RefusedForCause' /\ RateIsBounded' BY DEF GInv, RefusedForCause, RateIsBounded, Near
<1> QED BY <1>1, <1>2, <1>3 DEF GInv

\* The limiters after any step.
LEMMA GatewayStep ==
  ASSUME GInv, [GatewayNext]_<<monitorVars, gatewayVars>>
  PROVE  GInv'
<1>1. now \in Nat /\ pending \in [Event -> Nat] /\ Typed BY DEF GInv, Typed
<1>2. ASSUME NEW a \in Addresses, Request(a) PROVE GInv'
  <2>1. now' = now /\ pending' \in [Event -> Nat] BY <1>1, <1>2, RequestEffect
  <2>2. CASE UNCHANGED <<budget, seen>> BY <1>1, <2>1, <2>2, StillKeeps
  <2>3. CASE \E ls \in SUBSET Limiters, r \in Limiters \cup {"none"} :
               /\ Count(ls, a) /\ Note(a, ls, r) /\ r \in ls \cup {"none"}
               /\ \A l \in ls : r # l <=> Passes(l, a)
    BY <2>1, <2>3, NotedKeeps
  <2> QED BY <1>1, <1>2, <2>2, <2>3, RequestEffect
<1>3. ASSUME NEW e \in Event, Settle(e) PROVE GInv'
  <2>1. now' = now /\ UNCHANGED <<budget, seen>> BY <1>3 DEF Settle, Log
  <2>2. pending' \in [Event -> Nat] BY <1>1, <1>3 DEF Settle
  <2> QED BY <1>1, <2>1, <2>2, StillKeeps
<1>4. CASE GatewayTick
  <2>1. now' = now + 1 /\ UNCHANGED <<budget, seen, pending>>
    BY <1>4 DEF GatewayTick, Tick, gatewayVars
  <2> QED BY <1>1, <2>1, StillKeeps
<1>5. CASE GatewayRestart BY <1>5, RestartKeeps
<1>6. CASE UNCHANGED <<monitorVars, gatewayVars>>
  <2>1. UNCHANGED <<now, budget, seen, pending>> BY <1>6 DEF monitorVars, gatewayVars
  <2> QED BY <1>1, <2>1, StillKeeps
<1> QED BY <1>2, <1>3, <1>4, <1>5, <1>6 DEF GatewayNext

----------------------------------------------------------------------------
(* The monitor. Its filter is a fold over positions, and what the fold     *)
(* computes is proved by taking the smallest set of positions at which it  *)
(* would be wrong.                                                         *)

\* A set of subsets of a finite set has a member with no other inside it: what
\* is proved below of every subset is proved of such a counterexample.
LEMMA MinimalSubset ==
  ASSUME NEW S, IsFiniteSet(S), NEW T, T \subseteq SUBSET S, T # {}
  PROVE  \E t \in T : \A u \in T : ~(u \subseteq t /\ u # t)
<1>1. IsWellFoundedOn(StrictSubsetOrdering(S), FiniteSubsetsOf(S))
  BY FS_StrictSubsetOrderingWellFounded
<1>2. T \subseteq FiniteSubsetsOf(S)
  BY FS_FiniteSubsetsOfFinite
<1>3. \E t \in T : \A u \in T : ~(<<u, t>> \in StrictSubsetOrdering(S))
  BY <1>1, <1>2, WFMin
<1>4. \A u, t \in SUBSET S : <<u, t>> \in StrictSubsetOrdering(S) <=> u \subseteq t /\ u # t
  BY DEF StrictSubsetOrdering
<1> QED BY <1>3, <1>4

\* A set without its greatest.
Front1(s) == s \ {Max(s)}

\* g filters times, position by position, as the fold does.
Filters(g, times, w, at, S) ==
  g = [s \in SUBSET S |->
        IF s = {} THEN <<>>
        ELSE IF at - times[Max(s)] < w THEN Append(g[Front1(s)], times[Max(s)])
                                    ELSE g[Front1(s)]]

\* What the fold of Recent is: the value of such a function at every position.
LEMMA RecentIsFilter ==
  ASSUME NEW times, NEW r
  PROVE  Recent(times, r)
           = (CHOOSE g : Filters(g, times, Window[r], now, DOMAIN times))[DOMAIN times]
BY DEF Recent, FoldLeft, MapThenFoldSet, Filters, Front1

\* The greatest of a finite set of numbers.
LEMMA MaxOf ==
  ASSUME NEW S, S \subseteq Nat, IsFiniteSet(S), S # {}
  PROVE  Max(S) \in S /\ Front1(S) \subseteq S /\ Front1(S) # S
         /\ \A i \in S : i <= Max(S)
<1> DEFINE Bad == {s \in SUBSET S : s # {} /\ ~ \E x \in s : \A y \in s : x >= y}
<1>1. Bad = {}
  <2> SUFFICES ASSUME Bad # {} PROVE FALSE
    OBVIOUS
  <2>1. PICK s \in Bad : \A u \in Bad : ~(u \subseteq s /\ u # s)
    <3>1. Bad \subseteq SUBSET S
      OBVIOUS
    <3> HIDE DEF Bad
    <3>2. IsFiniteSet(S) /\ Bad # {}
      OBVIOUS
    <3> QED BY ONLY <3>1, <3>2, MinimalSubset
  <2>2. PICK x \in s : TRUE
    BY <2>1
  <2>3. \A n \in s : n \in Nat
    BY <2>1
  <2>4. CASE s \ {x} = {}
    BY <2>1, <2>2, <2>3, <2>4
  <2>5. CASE s \ {x} # {}
    <3>1. s \ {x} \notin Bad
      BY <2>1, <2>2
    <3>2. PICK m \in s \ {x} : \A y \in s \ {x} : m >= y
      BY <2>1, <2>5, <3>1
    <3>3. \E n \in s : \A y \in s : n >= y
      BY <2>2, <2>3, <3>2
    <3> QED BY <2>1, <3>3
  <2> QED BY <2>4, <2>5
<1>2. \E x \in S : \A y \in S : x >= y
  BY <1>1
<1>3. Max(S) \in S /\ \A y \in S : Max(S) >= y
  BY <1>2 DEF Max
<1> QED BY <1>3 DEF Front1

\* Its value at a set of positions.
LEMMA FiltersAt ==
  ASSUME NEW g, NEW times, NEW w, NEW at, NEW S, Filters(g, times, w, at, S),
         NEW s, s \subseteq S
  PROVE  g[s] = IF s = {} THEN <<>>
                ELSE IF at - times[Max(s)] < w THEN Append(g[Front1(s)], times[Max(s)])
                                            ELSE g[Front1(s)]
BY DEF Filters

\* And at one that is not empty.
LEMMA FiltersStep ==
  ASSUME NEW g, NEW times, NEW w, NEW at, NEW S, Filters(g, times, w, at, S),
         NEW s, s \subseteq S, s # {}
  PROVE  g[s] = IF at - times[Max(s)] < w THEN Append(g[Front1(s)], times[Max(s)])
                                          ELSE g[Front1(s)]
BY FiltersAt

\* There is one such function at most,
LEMMA FiltersAgree ==
  ASSUME NEW times, NEW w, NEW at, NEW g, NEW S, Filters(g, times, w, at, S),
         NEW h, NEW U, Filters(h, times, w, at, U),
         NEW T, IsFiniteSet(T), T \subseteq S, T \subseteq U, T \subseteq Nat
  PROVE  g[T] = h[T]
<1> DEFINE Bad == {s \in SUBSET T : g[s] # h[s]}
<1>1. SUFFICES ASSUME Bad # {} PROVE FALSE
  BY DEF Bad
<1>2. PICK s \in Bad : \A u \in Bad : ~(u \subseteq s /\ u # s)
  <2>1. Bad \subseteq SUBSET T
    OBVIOUS
  <2> HIDE DEF Bad
  <2>2. IsFiniteSet(T) /\ Bad # {}
    BY <1>1
  <2> QED BY ONLY <2>1, <2>2, MinimalSubset
<1>3. s \subseteq T /\ s \subseteq S /\ s \subseteq U /\ s \subseteq Nat /\ g[s] # h[s]
  BY <1>2
<1>4. s # {}
  BY <1>3, FiltersAt
<1>5. IsFiniteSet(s)
  BY <1>3, FS_Subset
<1>6. Front1(s) \subseteq s /\ Front1(s) # s
  BY <1>3, <1>4, <1>5, MaxOf
<1>7. g[Front1(s)] = h[Front1(s)]
  BY <1>2, <1>3, <1>6
<1>8. /\ g[s] = IF at - times[Max(s)] < w THEN Append(g[Front1(s)], times[Max(s)])
                                          ELSE g[Front1(s)]
      /\ h[s] = IF at - times[Max(s)] < w THEN Append(h[Front1(s)], times[Max(s)])
                                          ELSE h[Front1(s)]
  <2>1. s \subseteq S /\ s \subseteq U /\ s # {}
    BY <1>3, <1>4
  <2> HIDE DEF Bad
  <2> QED BY ONLY <2>1, FiltersStep, Filters(g, times, w, at, S), Filters(h, times, w, at, U)
<1> QED BY <1>3, <1>7, <1>8

\* and there is one.
LEMMA FiltersExist ==
  ASSUME NEW times, NEW w, NEW at, NEW S, IsFiniteSet(S), S \subseteq Nat
  PROVE  \E g : Filters(g, times, w, at, S)
<1> DEFINE Bad == {s \in SUBSET S : ~ \E g : Filters(g, times, w, at, s)}
<1>1. SUFFICES ASSUME Bad # {} PROVE FALSE
  BY DEF Bad
<1>2. PICK t \in Bad : \A u \in Bad : ~(u \subseteq t /\ u # t)
  <2>1. Bad \subseteq SUBSET S
    OBVIOUS
  <2> HIDE DEF Bad
  <2>2. IsFiniteSet(S) /\ Bad # {}
    BY <1>1
  <2> QED BY ONLY <2>1, <2>2, MinimalSubset
<1>a. t \subseteq S /\ t \subseteq Nat
  BY <1>2
<1> DEFINE of(s) == CHOOSE g : Filters(g, times, w, at, s)
           before(s) == of(Front1(s))[Front1(s)]
           g == [s \in SUBSET t |->
                  IF s = {} THEN <<>>
                  ELSE IF at - times[Max(s)] < w THEN Append(before(s), times[Max(s)])
                                              ELSE before(s)]
<1>3. \A s \in SUBSET t : s # t => Filters(of(s), times, w, at, s)
  BY <1>2
<1>b. \A s \in SUBSET t :
        /\ IsFiniteSet(s) /\ s \subseteq Nat
        /\ s # {} => Front1(s) \subseteq s /\ Front1(s) # s
  <2>1. \A s \in SUBSET t : IsFiniteSet(s) /\ s \subseteq Nat
    BY <1>a, FS_Subset
  <2> QED BY <2>1, MaxOf
<1>4. ASSUME NEW s \in SUBSET t, s # t
      PROVE  g[s] = of(s)[s]
  <2> HIDE DEF of
  <2>1. Filters(of(s), times, w, at, s)
    BY <1>3, <1>4
  <2>2. CASE s = {}
    BY <2>1, <2>2, FiltersAt
  <2>3. CASE s # {}
    <3>1. Front1(s) \subseteq s /\ Front1(s) # t /\ Front1(s) \in SUBSET t
      BY <1>4, <1>b, <2>3
    <3>2. Filters(of(Front1(s)), times, w, at, Front1(s))
      BY <1>3, <3>1
    <3>3. IsFiniteSet(Front1(s)) /\ Front1(s) \subseteq Nat
      BY <1>b, <3>1
    <3>4. of(s)[Front1(s)] = before(s)
      BY <2>1, <3>1, <3>2, <3>3, FiltersAgree
    <3>5. of(s)[s] = IF at - times[Max(s)] < w
                     THEN Append(of(s)[Front1(s)], times[Max(s)])
                     ELSE of(s)[Front1(s)]
      BY <2>1, <2>3, FiltersAt
    <3> HIDE DEF before
    <3> QED BY <2>3, <3>4, <3>5
  <2> QED BY <2>2, <2>3
<1>5. ASSUME NEW s \in SUBSET t, s # {}
      PROVE  g[Front1(s)] = before(s)
  <2>1. Front1(s) \in SUBSET t /\ Front1(s) # t
    BY <1>5, <1>b
  <2> HIDE DEF of, g
  <2> QED BY <1>4, <2>1
<1>6. Filters(g, times, w, at, t)
  <2> HIDE DEF before
  <2>1. \A s \in SUBSET t :
          g[s] = IF s = {} THEN <<>>
                 ELSE IF at - times[Max(s)] < w THEN Append(g[Front1(s)], times[Max(s)])
                                             ELSE g[Front1(s)]
    BY <1>5
  <2> HIDE DEF g
  <2>2. g = [s \in SUBSET t |-> g[s]]
    BY DEF g
  <2> QED BY <2>1, <2>2 DEF Filters
<1> QED BY <1>2, <1>6

\* The positions in a window that ends at a time.
Within(times, s, w, at) == {i \in s : at - times[i] < w}

\* kept has the values of times at the positions of I, each once.
Copies(kept, times, I) ==
  /\ kept \in Seq(Nat)
  /\ \E b \in Bijection(DOMAIN kept, I) : \A n \in DOMAIN kept : kept[n] = times[b[n]]

\* Nothing copies nothing.
LEMMA CopiesEmpty ==
  ASSUME NEW times
  PROVE  Copies(<<>>, times, {})
<1>1. DOMAIN <<>> = {} /\ <<>> \in Seq(Nat)
  OBVIOUS
<1>2. [i \in {} |-> 0] \in Bijection({}, {})
  BY DEF Bijection, Injection, Surjection, IsInjective
<1> QED BY <1>1, <1>2 DEF Copies

\* One more value, of one more position.
LEMMA CopiesAppend ==
  ASSUME NEW times, NEW kept, NEW I, Copies(kept, times, I), NEW x, x \notin I,
         times[x] \in Nat
  PROVE  Copies(Append(kept, times[x]), times, I \cup {x})
<1>1. kept \in Seq(Nat)
  BY DEF Copies
<1>2. PICK b \in Bijection(DOMAIN kept, I) : \A n \in DOMAIN kept : kept[n] = times[b[n]]
  BY DEF Copies
<1> DEFINE more == Append(kept, times[x])
           c == [n \in DOMAIN more |-> IF n \in DOMAIN kept THEN b[n] ELSE x]
<1>3. /\ more \in Seq(Nat) /\ DOMAIN more = DOMAIN kept \cup {Len(kept) + 1}
      /\ Len(kept) + 1 \notin DOMAIN kept /\ more[Len(kept) + 1] = times[x]
      /\ \A n \in DOMAIN kept : more[n] = kept[n]
  BY <1>1
<1> HIDE DEF more
<1>4. /\ b \in [DOMAIN kept -> I]
      /\ \A m, n \in DOMAIN kept : b[m] = b[n] => m = n
      /\ \A i \in I : \E n \in DOMAIN kept : b[n] = i
  BY <1>2 DEF Bijection, Injection, Surjection, IsInjective
<1>5. /\ c \in [DOMAIN more -> I \cup {x}]
      /\ \A m, n \in DOMAIN more : c[m] = c[n] => m = n
      /\ \A i \in I \cup {x} : \E n \in DOMAIN more : c[n] = i
  BY <1>3, <1>4
<1>6. c \in Bijection(DOMAIN more, I \cup {x})
  BY <1>5 DEF Bijection, Injection, Surjection, IsInjective
<1>7. \A n \in DOMAIN more : more[n] = times[c[n]]
  BY <1>2, <1>3
<1> QED BY <1>3, <1>6, <1>7 DEF Copies, more

\* The filter copies exactly the timestamps that are in the window.
LEMMA FilterCopies ==
  ASSUME NEW times, NEW w, NEW at, NEW g, NEW S, IsFiniteSet(S), S \subseteq Nat,
         Filters(g, times, w, at, S), \A i \in S : times[i] \in Nat
  PROVE  Copies(g[S], times, Within(times, S, w, at))
<1> DEFINE Bad == {s \in SUBSET S : ~ Copies(g[s], times, Within(times, s, w, at))}
<1>1. SUFFICES ASSUME Bad # {} PROVE FALSE
  BY DEF Bad
<1>2. PICK s \in Bad : \A u \in Bad : ~(u \subseteq s /\ u # s)
  <2>1. Bad \subseteq SUBSET S
    OBVIOUS
  <2> HIDE DEF Bad
  <2>2. IsFiniteSet(S) /\ Bad # {}
    BY <1>1
  <2> QED BY ONLY <2>1, <2>2, MinimalSubset
<1>3. s \subseteq S /\ s \subseteq Nat /\ IsFiniteSet(s)
  BY <1>2, FS_Subset
<1>4. s # {}
  <2>1. s = {} => g[s] = <<>> /\ Within(times, s, w, at) = {}
    BY <1>3, FiltersAt DEF Within
  <2> QED BY <1>2, <2>1, CopiesEmpty
<1> DEFINE x == Max(s)
           rest == Front1(s)
<1>5. x \in s /\ rest \subseteq s /\ rest # s /\ rest = s \ {x}
  BY <1>3, <1>4, MaxOf DEF Front1
<1>6. Copies(g[rest], times, Within(times, rest, w, at))
  BY <1>2, <1>3, <1>5
<1>7. g[s] = IF at - times[x] < w THEN Append(g[rest], times[x]) ELSE g[rest]
  <2>1. s \subseteq S /\ s # {}
    BY <1>3, <1>4
  <2>2. g[s] = IF at - times[Max(s)] < w THEN Append(g[Front1(s)], times[Max(s)])
                                         ELSE g[Front1(s)]
    BY ONLY <2>1, FiltersStep, Filters(g, times, w, at, S)
  <2> QED BY <2>2
<1> HIDE DEF x, rest
<1>8. CASE at - times[x] < w
  <2>1. Within(times, s, w, at) = Within(times, rest, w, at) \cup {x}
    BY <1>5, <1>8 DEF Within
  <2>2. x \notin Within(times, rest, w, at) /\ times[x] \in Nat
    BY <1>3, <1>5 DEF Within
  <2>3. Copies(Append(g[rest], times[x]), times, Within(times, rest, w, at) \cup {x})
    BY <1>6, <2>2, CopiesAppend
  <2>4. Copies(g[s], times, Within(times, s, w, at))
    BY <1>7, <1>8, <2>1, <2>3
  <2> QED BY <1>2, <2>4
<1>9. CASE ~(at - times[x] < w)
  <2>1. Within(times, s, w, at) = Within(times, rest, w, at)
    BY <1>5, <1>9 DEF Within
  <2>2. Copies(g[s], times, Within(times, s, w, at))
    BY <1>6, <1>7, <1>9, <2>1
  <2> QED BY <1>2, <2>2
<1> QED BY <1>8, <1>9

\* times.filter (monitoring.service.ts) keeps the timestamps in the window of the
\* rule, and no other, whatever there are.
LEMMA RecentCopies ==
  ASSUME NEW times \in Seq(Nat), NEW r
  PROVE  Copies(Recent(times, r), times, Within(times, DOMAIN times, Window[r], now))
<1> DEFINE g == CHOOSE g : Filters(g, times, Window[r], now, DOMAIN times)
<1>1. IsFiniteSet(DOMAIN times) /\ DOMAIN times \subseteq Nat
      /\ \A i \in DOMAIN times : times[i] \in Nat
  BY FS_Interval
<1>2. Filters(g, times, Window[r], now, DOMAIN times)
  BY <1>1, FiltersExist
<1>3. Recent(times, r) = g[DOMAIN times]
  BY RecentIsFilter
<1> HIDE DEF g
<1> QED BY <1>1, <1>2, <1>3, FilterCopies

\* The same values at the same positions.
LEMMA CopiesSame ==
  ASSUME NEW kept, NEW times, NEW I, Copies(kept, times, I), NEW more,
         \A i \in I : more[i] = times[i]
  PROVE  Copies(kept, more, I)
<1>1. PICK b \in Bijection(DOMAIN kept, I) : \A n \in DOMAIN kept : kept[n] = times[b[n]]
  BY DEF Copies
<1>2. \A n \in DOMAIN kept : b[n] \in I
  BY <1>1 DEF Bijection, Injection
<1>3. \A n \in DOMAIN kept : kept[n] = more[b[n]]
  BY <1>1, <1>2
<1> QED BY <1>1, <1>3 DEF Copies

\* As many values as positions.
LEMMA CopiesSize ==
  ASSUME NEW kept, NEW times, NEW I, Copies(kept, times, I)
  PROVE  IsFiniteSet(I) /\ Cardinality(I) = Len(kept)
<1>1. kept \in Seq(Nat) /\ Len(kept) \in Nat /\ DOMAIN kept = 1..Len(kept)
  BY DEF Copies
<1>2. PICK b : b \in Bijection(1..Len(kept), I)
  BY <1>1 DEF Copies
<1>3. ExistsBijection(1..Len(kept), I)
  BY <1>2 DEF ExistsBijection
<1> QED BY <1>1, <1>3, FS_CountingElements, FS_NatBijection

\* A filter of a copy is a copy of what is in the window.
LEMMA CopiesWithin ==
  ASSUME NEW kept, NEW times, NEW I, Copies(kept, times, I), NEW w, NEW at,
         NEW left, Copies(left, kept, Within(kept, DOMAIN kept, w, at))
  PROVE  Copies(left, times, Within(times, I, w, at))
<1> DEFINE D == Within(kept, DOMAIN kept, w, at)
           E == Within(times, I, w, at)
<1>1. PICK b \in Bijection(DOMAIN kept, I) : \A n \in DOMAIN kept : kept[n] = times[b[n]]
  BY DEF Copies
<1>2. PICK c \in Bijection(DOMAIN left, D) : \A n \in DOMAIN left : left[n] = kept[c[n]]
  BY DEF Copies
<1>3. /\ b \in [DOMAIN kept -> I]
      /\ \A m, n \in DOMAIN kept : b[m] = b[n] => m = n
      /\ \A i \in I : \E n \in DOMAIN kept : b[n] = i
  BY <1>1 DEF Bijection, Injection, Surjection, IsInjective
<1>4. /\ c \in [DOMAIN left -> D]
      /\ \A m, n \in DOMAIN left : c[m] = c[n] => m = n
      /\ \A i \in D : \E n \in DOMAIN left : c[n] = i
  BY <1>2 DEF Bijection, Injection, Surjection, IsInjective
<1>5. /\ D \subseteq DOMAIN kept
      /\ \A n \in DOMAIN kept : n \in D <=> b[n] \in E
      /\ E \subseteq I
  BY <1>1, <1>3 DEF Within
<1> HIDE DEF D, E
<1> DEFINE d == [n \in DOMAIN left |-> b[c[n]]]
<1>6. \A n \in DOMAIN left : c[n] \in DOMAIN kept /\ c[n] \in D
  BY <1>4, <1>5
<1>7. d \in [DOMAIN left -> E]
  BY <1>5, <1>6
<1>8. \A m, n \in DOMAIN left : d[m] = d[n] => m = n
  BY <1>3, <1>4, <1>6
<1>9. ASSUME NEW i \in E PROVE \E n \in DOMAIN left : d[n] = i
  <2>1. PICK k \in DOMAIN kept : b[k] = i
    BY <1>3, <1>5
  <2>2. PICK n \in DOMAIN left : c[n] = k
    BY <1>4, <1>5, <2>1
  <2> QED BY <2>1, <2>2
<1>10. d \in Bijection(DOMAIN left, E)
  BY <1>7, <1>8, <1>9 DEF Bijection, Injection, Surjection, IsInjective
<1>11. \A n \in DOMAIN left : left[n] = times[d[n]]
  BY <1>1, <1>2, <1>6
<1>12. left \in Seq(Nat)
  BY DEF Copies
<1> QED BY <1>10, <1>11, <1>12 DEF Copies, E

----------------------------------------------------------------------------
(* What the monitor has, said of the trail: the inductive invariant.       *)

\* The times of the events, by position.
Times == [j \in DOMAIN trail |-> trail[j].at]

\* The events of a key that it still has the times of: no alert has counted them
\* and none after them found them out of the window.
Kept(e) ==
  {j \in DOMAIN trail :
     /\ trail[j].event = e
     /\ \A k \in DOMAIN trail : trail[k].event = e /\ k >= j =>
          k \notin raised /\ trail[k].at - trail[j].at < Window[e.rule]}

\* The alert that position i of the trail calls for.
AlertOf(i) == [type |-> trail[i].event.rule, actor |-> trail[i].event.actor,
               at |-> trail[i].at, count |-> Cardinality(Counted(i))]

Logged == [event : Event, at : Nat]
Alert == [type : Rules, actor : Actors, at : Nat, count : Nat]

\* What the variables of the monitor are.
MonitorTyped ==
  /\ now \in Nat
  /\ trail \in Seq(Logged) /\ \A j \in DOMAIN trail : trail[j].at <= now
  /\ DOMAIN hits = Event
  /\ alerts \in Seq(Alert)
  /\ raised \subseteq DOMAIN trail

HitsAreKept == \A e \in Event : Copies(hits[e], Times, Kept(e))

\* The buffer has the newest alerts, newest first.
AlertsAreNewest ==
  /\ Len(alerts) = Min({MaxAlerts, Cardinality(raised)})
  /\ \A n \in DOMAIN alerts :
       \E i \in raised : Cardinality({j \in raised : j >= i}) = n /\ alerts[n] = AlertOf(i)

\* The inductive invariant of the monitor.
MInv == MonitorTyped /\ HitsAreKept /\ AlertsAreNewest /\ AlertsExactlyWhenDue

----------------------------------------------------------------------------
(* The least of a set.                                                     *)

\* The lesser of two.
LEMMA MinOfTwo ==
  ASSUME NEW a \in Nat, NEW b \in Nat
  PROVE  Min({a, b}) = (IF a <= b THEN a ELSE b)
BY DEF Min

\* The least of three.
LEMMA MinOfThree ==
  ASSUME NEW a \in Nat, NEW b \in Nat, NEW c \in Nat
  PROVE  Min({a, b, c}) = Min({a, Min({b, c})})
<1>1. Min({b, c}) = (IF b <= c THEN b ELSE c)
  BY MinOfTwo
<1>2. PICK m \in {b, c} : m = Min({b, c}) /\ m <= b /\ m <= c
  BY <1>1
<1>3. Min({a, m}) = (IF a <= m THEN a ELSE m)
  BY MinOfTwo
<1>4. PICK x \in {a, b, c} : x = Min({a, m}) /\ x <= a /\ x <= b /\ x <= c
  BY <1>2, <1>3
<1>5. \A y \in {a, b, c} : x <= y
  BY <1>4
<1>6. Min({a, b, c}) \in {a, b, c} /\ \A y \in {a, b, c} : Min({a, b, c}) <= y
  BY <1>5 DEF Min
<1>7. Min({a, b, c}) = x
  BY <1>4, <1>5, <1>6
<1> QED BY <1>2, <1>4, <1>7

----------------------------------------------------------------------------
(* The monitor as an event is logged.                                      *)

\* What the rules are.
LEMMA MonitorConstants ==
  /\ MaxAlerts \in Nat \ {0} /\ Limit \in Nat \ {0}
  /\ \A e \in Event : /\ e.rule \in Rules /\ e.actor \in Actors
                      /\ Threshold[e.rule] \in Nat \ {0} /\ Window[e.rule] \in Nat \ {0}
BY MonitoringAssumption DEF Event

\* The trail before and after.
LEMMA TrailGrows ==
  ASSUME MonitorTyped, NEW e \in Event, trail' = Append(trail, [event |-> e, at |-> now])
  PROVE  /\ trail' \in Seq(Logged)
         /\ DOMAIN trail = 1..Len(trail) /\ Len(trail) \in Nat
         /\ DOMAIN trail' = DOMAIN trail \cup {Len(trail) + 1}
         /\ Len(trail) + 1 \notin DOMAIN trail
         /\ \A j \in DOMAIN trail : trail'[j] = trail[j] /\ trail[j].at \in Nat
         /\ trail'[Len(trail) + 1] = [event |-> e, at |-> now]
         /\ Times' = [j \in DOMAIN trail' |-> trail'[j].at]
         /\ \A j \in DOMAIN trail : Times'[j] = Times[j]
         /\ Times'[Len(trail) + 1] = now
<1>1. trail \in Seq(Logged) /\ now \in Nat
  BY DEF MonitorTyped
<1>2. /\ trail' \in Seq(Logged)
      /\ DOMAIN trail = 1..Len(trail) /\ Len(trail) \in Nat
      /\ DOMAIN trail' = 1..(Len(trail) + 1)
  <2>1. [event |-> e, at |-> now] \in Logged
    BY <1>1 DEF Logged
  <2> QED BY <1>1, <2>1
<1>3. /\ DOMAIN trail' = DOMAIN trail \cup {Len(trail) + 1}
      /\ Len(trail) + 1 \notin DOMAIN trail
  BY <1>2
<1>4. \A j \in DOMAIN trail : trail'[j] = trail[j] /\ trail[j].at \in Nat
  <2>1. \A j \in DOMAIN trail : trail[j] \in Logged
    BY <1>1
  <2>2. \A j \in DOMAIN trail : trail[j].at \in Nat
    BY <2>1 DEF Logged
  <2>3. \A j \in DOMAIN trail : trail'[j] = trail[j]
    BY <1>1, <1>2
  <2> QED BY <2>2, <2>3
<1>5. trail'[Len(trail) + 1] = [event |-> e, at |-> now]
  BY <1>1
<1>6. Times' = [j \in DOMAIN trail' |-> trail'[j].at]
  BY DEF Times
<1> QED BY <1>2, <1>3, <1>4, <1>5, <1>6 DEF Times

\* The filter of the times of a key leaves those of the events still in the window.
LEMMA RecentKept ==
  ASSUME MInv, NEW e \in Event
  PROVE  Copies(Recent(hits[e], e.rule), Times, Within(Times, Kept(e), Window[e.rule], now))
<1>1. Copies(hits[e], Times, Kept(e))
  BY DEF MInv, HitsAreKept
<1>2. hits[e] \in Seq(Nat)
  BY <1>1 DEF Copies
<1>3. Copies(Recent(hits[e], e.rule), hits[e],
             Within(hits[e], DOMAIN hits[e], Window[e.rule], now))
  BY <1>2, RecentCopies
<1> QED BY <1>1, <1>3, CopiesWithin

\* Of the events before, the new one counts those whose times are left.
LEMMA CountedNow ==
  ASSUME MInv, NEW e \in Event, trail' = Append(trail, [event |-> e, at |-> now]),
         NEW n \in Nat, n = Len(trail) + 1, raised' \in {raised, raised \cup {n}}
  PROVE  Counted(n)' = Within(Times, Kept(e), Window[e.rule], now) \cup {n}
<1> DEFINE W == Window[e.rule]
<1>1. /\ DOMAIN trail = 1..Len(trail) /\ Len(trail) \in Nat
      /\ \A j \in DOMAIN trail : trail'[j] = trail[j] /\ trail[j].at \in Nat
      /\ trail'[n] = [event |-> e, at |-> now]
  BY TrailGrows DEF MInv
<1>2. now \in Nat /\ raised \subseteq DOMAIN trail /\ W \in Nat \ {0}
      /\ \A j \in DOMAIN trail : trail[j].at <= now
  BY MonitorConstants DEF MInv, MonitorTyped
<1>3. SameKey(n)' = {j \in DOMAIN trail : trail[j].event = e} \cup {n}
  BY <1>1 DEF SameKey
<1>4. \A k : k \in raised' /\ k \in SameKey(n)' /\ k < n <=>
               k \in raised /\ trail[k].event = e
  BY <1>1, <1>2, <1>3
<1>5. Counted(n)' = {j \in SameKey(n)' :
                       /\ now - trail'[j].at < W
                       /\ \A k \in raised : trail[k].event = e => j > k}
  <2>1. Counted(n)' = {j \in SameKey(n)' :
                         /\ trail'[n].at - trail'[j].at < Window[trail'[n].event.rule]
                         /\ \A k \in raised' \cap SameKey(n)' : k < n => j > k}
    BY DEF Counted
  <2>2. trail'[n].at = now /\ Window[trail'[n].event.rule] = W
    BY <1>1
  <2>3. \A j : (\A k \in raised' \cap SameKey(n)' : k < n => j > k)
               <=> (\A k \in raised : trail[k].event = e => j > k)
    BY <1>4
  <2> QED BY <2>1, <2>2, <2>3
<1>6. n \in Counted(n)'
  BY <1>1, <1>2, <1>3, <1>5
<1>7. ASSUME NEW j \in DOMAIN trail
      PROVE  j \in Counted(n)' <=> j \in Within(Times, Kept(e), W, now)
  <2>1. Times[j] = trail[j].at /\ trail'[j] = trail[j] /\ trail[j].at \in Nat
    BY <1>1 DEF Times
  <2>2. ASSUME j \in Counted(n)' PROVE j \in Within(Times, Kept(e), W, now)
    <3>1. trail[j].event = e /\ now - trail[j].at < W
          /\ \A k \in raised : trail[k].event = e => j > k
      BY <1>1, <1>3, <1>5, <2>1, <2>2
    <3>2. ASSUME NEW k \in DOMAIN trail, trail[k].event = e, k >= j
          PROVE  k \notin raised /\ trail[k].at - trail[j].at < W
      <4>1. k \notin raised
        BY <1>1, <3>1, <3>2
      <4>2. trail[k].at \in Nat /\ trail[k].at <= now
        BY <1>1, <1>2
      <4> QED BY <1>2, <2>1, <3>1, <4>1, <4>2
    <3>3. j \in Kept(e)
      BY <3>1, <3>2 DEF Kept
    <3> QED BY <2>1, <3>1, <3>3 DEF Within
  <2>3. ASSUME j \in Within(Times, Kept(e), W, now) PROVE j \in Counted(n)'
    <3>1. j \in Kept(e) /\ now - trail[j].at < W
      BY <2>1, <2>3 DEF Within
    <3>2. trail[j].event = e
      BY <3>1 DEF Kept
    <3>3. ASSUME NEW k \in raised, trail[k].event = e PROVE j > k
      <4>1. k \in DOMAIN trail /\ ~(k >= j)
        BY <1>2, <3>1, <3>3 DEF Kept
      <4> QED BY <1>1, <4>1
    <3> QED BY <1>3, <1>5, <2>1, <3>1, <3>2, <3>3
  <2> QED BY <2>2, <2>3
<1>8. Counted(n)' \subseteq DOMAIN trail \cup {n}
  BY <1>3, <1>5
<1>9. Within(Times, Kept(e), W, now) \subseteq DOMAIN trail
  BY DEF Within, Kept
<1> QED BY <1>6, <1>7, <1>8, <1>9

\* What an earlier event counted stays so.
LEMMA CountedBefore ==
  ASSUME MInv, NEW e \in Event, trail' = Append(trail, [event |-> e, at |-> now]),
         raised' \in {raised, raised \cup {Len(trail) + 1}}, NEW i \in DOMAIN trail
  PROVE  /\ Counted(i)' = Counted(i) /\ AlertOf(i)' = AlertOf(i)
         /\ trail'[i] = trail[i] /\ (i \in raised' <=> i \in raised)
<1>1. /\ DOMAIN trail = 1..Len(trail) /\ Len(trail) \in Nat
      /\ \A j \in DOMAIN trail : trail'[j] = trail[j]
  BY TrailGrows DEF MInv
<1>2. i \in raised' <=> i \in raised
  BY <1>1
<1>3. 1..i \subseteq DOMAIN trail
  BY <1>1
<1>4. SameKey(i)' = SameKey(i) /\ SameKey(i) \subseteq 1..i
  BY <1>1, <1>3 DEF SameKey
<1>5. raised' \cap SameKey(i)' = raised \cap SameKey(i)
  BY <1>1, <1>4
<1>6. Counted(i)' = Counted(i)
  BY <1>1, <1>3, <1>4, <1>5 DEF Counted
<1> QED BY <1>1, <1>2, <1>6 DEF AlertOf

\* What is kept of the key of the event, and of the others.
LEMMA KeptAfter ==
  ASSUME MInv, NEW e \in Event, trail' = Append(trail, [event |-> e, at |-> now]),
         raised' \in {raised, raised \cup {Len(trail) + 1}}, NEW f \in Event
  PROVE  Kept(f)' = IF f # e THEN Kept(f)
                    ELSE IF raised' = raised
                         THEN Within(Times, Kept(e), Window[e.rule], now) \cup {Len(trail) + 1}
                         ELSE {}
<1> DEFINE n == Len(trail) + 1
           W == Window[e.rule]
<1>1. /\ DOMAIN trail = 1..Len(trail) /\ Len(trail) \in Nat
      /\ DOMAIN trail' = DOMAIN trail \cup {n} /\ n \notin DOMAIN trail
      /\ \A j \in DOMAIN trail : trail'[j] = trail[j] /\ trail[j].at \in Nat
      /\ trail'[n] = [event |-> e, at |-> now]
  BY TrailGrows DEF MInv
<1>2. now \in Nat /\ raised \subseteq DOMAIN trail /\ W \in Nat \ {0}
  BY MonitorConstants DEF MInv, MonitorTyped
<1>3. \A k \in DOMAIN trail : k \in raised' <=> k \in raised
  BY <1>1
<1>4. Kept(f)' = {j \in DOMAIN trail' :
                    /\ trail'[j].event = f
                    /\ \A k \in DOMAIN trail' : trail'[k].event = f /\ k >= j =>
                         k \notin raised' /\ trail'[k].at - trail'[j].at < Window[f.rule]}
  BY DEF Kept
<1> HIDE DEF n
<1>n. n = Len(trail) + 1
  BY DEF n
<1>5. CASE f # e
  <2>1. trail'[n].event # f
    BY <1>1, <1>5
  <2> QED BY <1>1, <1>3, <1>4, <1>5, <2>1 DEF Kept
<1>6. CASE f = e /\ raised' = raised
  <2>1. n \in Kept(e)'
    <3>1. ASSUME NEW k \in DOMAIN trail', k >= n
          PROVE  k \notin raised' /\ trail'[k].at - trail'[n].at < W
      <4>1. k = n
        BY <1>1, <1>n, <3>1
      <4> QED BY <1>1, <1>2, <1>6, <4>1
    <3> QED BY <1>1, <1>4, <1>6, <3>1
  <2>2. ASSUME NEW j \in DOMAIN trail
        PROVE  j \in Kept(e)' <=> j \in Within(Times, Kept(e), W, now)
    <3>1. Times[j] = trail[j].at /\ n >= j /\ n \in DOMAIN trail'
      BY <1>1, <1>n DEF Times
    <3>2. j \in Kept(e)' => j \in Kept(e) /\ now - trail[j].at < W
      <4>1. j \in Kept(e)' => now - trail[j].at < W
        BY <1>1, <1>4, <1>6, <3>1
      <4>2. j \in Kept(e)' => j \in Kept(e)
        BY <1>1, <1>3, <1>4, <1>6 DEF Kept
      <4> QED BY <4>1, <4>2
    <3>3. j \in Kept(e) /\ now - trail[j].at < W => j \in Kept(e)'
      <4>1. SUFFICES ASSUME j \in Kept(e), now - trail[j].at < W PROVE j \in Kept(e)'
        OBVIOUS
      <4>2. trail'[j].event = e
        BY <1>1, <4>1 DEF Kept
      <4>3. ASSUME NEW k \in DOMAIN trail', trail'[k].event = e, k >= j
            PROVE  k \notin raised' /\ trail'[k].at - trail'[j].at < W
        <5>1. CASE k = n
          BY <1>1, <1>2, <1>6, <4>1, <5>1
        <5>2. CASE k # n
          BY <1>1, <1>6, <4>1, <4>3, <5>2 DEF Kept
        <5> QED BY <5>1, <5>2
      <4> QED BY <1>1, <1>4, <1>6, <4>2, <4>3
    <3> QED BY <3>1, <3>2, <3>3 DEF Within, Kept
  <2>3. Kept(e)' \subseteq DOMAIN trail \cup {n}
    BY <1>1, <1>4, <1>6
  <2>4. Within(Times, Kept(e), W, now) \subseteq DOMAIN trail
    BY DEF Within, Kept
  <2>5. Kept(e)' = Within(Times, Kept(e), W, now) \cup {n}
    BY <2>1, <2>2, <2>3, <2>4
  <2> QED BY <1>6, <1>n, <2>5
<1>7. CASE f = e /\ raised' # raised
  <2>1. n \in raised' /\ n \in DOMAIN trail' /\ trail'[n].event = e
    BY <1>1, <1>7, <1>n
  <2>2. \A j \in DOMAIN trail' : n >= j
    BY <1>1, <1>n
  <2>3. Kept(e)' = {}
    BY <1>4, <1>7, <2>1, <2>2
  <2> QED BY <1>7, <2>3
<1> QED BY <1>5, <1>6, <1>7

\* The buffer with one more, and the positions from one on.
Pushed(old, a) == SubSeq(<<a>> \o old, 1, Min({MaxAlerts, Len(old) + 1}))
From(R, i) == {j \in R : j >= i}

\* The alerts once one is raised.
LEMMA Raised ==
  ASSUME NEW old \in Seq(Alert), NEW a \in Alert, NEW k \in Nat,
         Len(old) = Min({MaxAlerts, k})
  PROVE  /\ Pushed(old, a) \in Seq(Alert)
         /\ Len(Pushed(old, a)) = Min({MaxAlerts, k + 1})
         /\ Pushed(old, a)[1] = a /\ 1 \in DOMAIN Pushed(old, a)
         /\ \A i \in DOMAIN Pushed(old, a) :
              i # 1 => \E h \in DOMAIN old : i = h + 1 /\ Pushed(old, a)[i] = old[h]
<1>1. MaxAlerts \in Nat \ {0} /\ Len(old) \in Nat
  BY MonitorConstants
<1> DEFINE m == Min({MaxAlerts, Len(old) + 1})
           all == <<a>> \o old
           new == Pushed(old, a)
<1>2. /\ all \in Seq(Alert) /\ Len(all) = Len(old) + 1 /\ all[1] = a
      /\ \A i \in 2..(Len(old) + 1) : all[i] = old[i - 1]
  <2>1. <<a>> \in Seq(Alert) /\ Len(<<a>>) = 1 /\ <<a>>[1] = a
    OBVIOUS
  <2>2. /\ all \in Seq(Alert) /\ Len(all) = Len(<<a>>) + Len(old)
        /\ \A i \in 1..(Len(<<a>>) + Len(old)) :
             all[i] = IF i <= Len(<<a>>) THEN <<a>>[i] ELSE old[i - Len(<<a>>)]
    BY <2>1, ConcatProperties
  <2> QED BY ONLY <1>1, <2>1, <2>2
<1>3. m = (IF MaxAlerts <= Len(old) + 1 THEN MaxAlerts ELSE Len(old) + 1)
  BY <1>1, MinOfTwo
<1>4. Len(old) = (IF MaxAlerts <= k THEN MaxAlerts ELSE k)
      /\ Min({MaxAlerts, k + 1}) = (IF MaxAlerts <= k + 1 THEN MaxAlerts ELSE k + 1)
  BY <1>1, MinOfTwo
<1>5. m = Min({MaxAlerts, k + 1}) /\ m \in 1..(Len(old) + 1)
  BY <1>1, <1>3, <1>4
<1> HIDE DEF m, all
<1>6. new = SubSeq(all, 1, m)
  BY DEF m, all, Pushed
<1> HIDE DEF new
<1>7. new \in Seq(Alert) /\ Len(new) = m /\ \A i \in 1..m : new[i] = all[i]
  <2>1. m \in Nat \ {0} /\ m <= Len(all) /\ all \in Seq(Alert) /\ Len(all) \in Nat
    BY <1>1, <1>2, <1>5
  <2>2. \A i \in 1..m : all[i] \in Alert
    BY ONLY <2>1
  <2>3. /\ SubSeq(all, 1, m) \in Seq(Alert)
        /\ Len(SubSeq(all, 1, m)) = m
        /\ \A i \in 1..m : SubSeq(all, 1, m)[i] = all[i]
    <3>1. /\ SubSeq(all, 1, m) \in Seq(Alert)
          /\ Len(SubSeq(all, 1, m)) = IF 1 <= m THEN m - 1 + 1 ELSE 0
          /\ \A i \in 1..(m - 1 + 1) : SubSeq(all, 1, m)[i] = all[1 + i - 1]
      BY <2>1, <2>2, SubSeqProperties
    <3> QED BY ONLY <2>1, <3>1
  <2> QED BY ONLY <1>6, <2>3
<1>8. DOMAIN new = 1..m
  BY ONLY <1>7
<1>9. \A i \in 1..m : i # 1 => \E h \in DOMAIN old : i = h + 1 /\ new[i] = old[h]
  <2>1. old \in Seq(Alert)
    OBVIOUS
  <2>2. ASSUME NEW i \in 1..m, i # 1
        PROVE  \E h \in DOMAIN old : i = h + 1 /\ new[i] = old[h]
    <3>1. i \in 2..(Len(old) + 1) /\ i - 1 \in 1..Len(old)
      BY ONLY <1>1, <1>5, <2>2
    <3>2. new[i] = all[i] /\ all[i] = old[i - 1]
      BY ONLY <1>2, <1>7, <2>2, <3>1
    <3>3. DOMAIN old = 1..Len(old)
      BY ONLY <2>1
    <3>4. i - 1 \in DOMAIN old /\ i = (i - 1) + 1
      BY ONLY <1>1, <3>1, <3>3
    <3> QED BY ONLY <3>2, <3>4
  <2> QED BY ONLY <2>2
<1>10. m >= 1
  BY ONLY <1>1, <1>5
<1>11. 1 \in 1..m /\ new[1] = a
  <2>1. 1 \in 1..m
    BY ONLY <1>1, <1>5, <1>10
  <2> QED BY ONLY <1>2, <1>7, <2>1
<1> QED BY ONLY <1>5, <1>7, <1>8, <1>9, <1>11 DEF new

\* One more position raises the rank of those before it.
LEMMA Ranks ==
  ASSUME NEW R, IsFiniteSet(R), NEW n \in Nat, \A j \in R : j \in Nat /\ j < n
  PROVE  /\ Cardinality(R \cup {n}) = Cardinality(R) + 1
         /\ Cardinality(From(R \cup {n}, n)) = 1
         /\ \A i \in R : Cardinality(From(R \cup {n}, i)) = Cardinality(From(R, i)) + 1
<1>1. n \notin R
  OBVIOUS
<1>2. \A S \in SUBSET R : Cardinality(S \cup {n}) = Cardinality(S) + 1
  BY <1>1, FS_Subset, FS_AddElement
<1>3. From(R \cup {n}, n) = {n}
  BY DEF From
<1>4. \A i \in R : From(R \cup {n}, i) = From(R, i) \cup {n} /\ From(R, i) \in SUBSET R
  BY DEF From
<1>5. Cardinality({n}) = 1
  BY FS_Singleton
<1> QED BY <1>2, <1>3, <1>4, <1>5

\* An event is logged: the case that does something.
LEMMA LogKeeps ==
  ASSUME MInv, NEW e \in Event, Log(e)
  PROVE  MInv'
<1>1. trail' = Append(trail, [event |-> e, at |-> now]) /\ now' = now /\ observe(e)
  BY DEF Log, LogWrite
<1>2. PICK n \in Nat : n = Len(trail) + 1
  BY <1>1, TrailGrows DEF MInv
<1> DEFINE left == Recent(hits[e], e.rule)
           I == Within(Times, Kept(e), Window[e.rule], now)
           recent == Append(left, now)
           alert == [type |-> e.rule, actor |-> e.actor, at |-> now, count |-> Len(recent)]
<1>3. /\ DOMAIN trail = 1..Len(trail) /\ Len(trail) \in Nat
      /\ DOMAIN trail' = DOMAIN trail \cup {n} /\ n \notin DOMAIN trail
      /\ \A j \in DOMAIN trail : trail'[j] = trail[j]
      /\ trail'[n] = [event |-> e, at |-> now]
      /\ trail' \in Seq(Logged)
      /\ \A j \in DOMAIN trail : Times'[j] = Times[j]
      /\ Times'[n] = now
  BY <1>1, <1>2, TrailGrows DEF MInv
<1>4. /\ now \in Nat /\ raised \subseteq DOMAIN trail /\ DOMAIN hits = Event
      /\ alerts \in Seq(Alert) /\ \A j \in DOMAIN trail : trail[j].at <= now
  BY DEF MInv, MonitorTyped
<1>r. /\ IsFiniteSet(raised) /\ Cardinality(raised) \in Nat
      /\ \A j \in raised : j \in Nat /\ j < n
  <2>1. raised \subseteq 1..Len(trail) /\ IsFiniteSet(1..Len(trail))
    BY <1>3, <1>4, FS_Interval
  <2>2. IsFiniteSet(raised)
    BY ONLY <2>1, FS_Subset
  <2>3. Cardinality(raised) \in Nat
    BY ONLY <2>2, FS_CardinalityType
  <2>4. \A j \in raised : j \in Nat /\ j < n
    BY ONLY <1>2, <1>3, <2>1
  <2> QED BY <2>2, <2>3, <2>4
<1>5. IF Len(recent) >= Threshold[e.rule]
      THEN /\ hits' = [hits EXCEPT ![e] = <<>>]
           /\ raise(alert) /\ raised' = raised \cup {n}
      ELSE /\ hits' = [hits EXCEPT ![e] = recent]
           /\ UNCHANGED <<alerts, raised>>
  BY <1>1, <1>2 DEF observe
<1>6. raised' \in {raised, raised \cup {n}}
  BY <1>5
<1>7. I \subseteq DOMAIN trail /\ n \notin I /\ Kept(e) \subseteq DOMAIN trail
  BY <1>3 DEF Within, Kept
<1>8. Copies(recent, Times', I \cup {n})
  <2>1. Copies(left, Times, I)
    BY RecentKept
  <2> HIDE DEF I, left
  <2>2. Copies(left, Times', I)
    BY <1>3, <1>7, <2>1, CopiesSame
  <2>3. Copies(Append(left, Times'[n]), Times', I \cup {n})
    BY <1>3, <1>4, <1>7, <2>2, CopiesAppend
  <2> QED BY <1>3, <2>3
<1>9. Counted(n)' = I \cup {n}
  BY <1>1, <1>2, <1>6, CountedNow
<1>10. Cardinality(Counted(n)') = Len(recent) /\ Len(recent) \in Nat
  <2> HIDE DEF I, recent
  <2>1. recent \in Seq(Nat)
    BY <1>8 DEF Copies
  <2> QED BY <1>8, <1>9, <2>1, CopiesSize
<1>11. \A f \in Event : Kept(f)' = IF f # e THEN Kept(f)
                                   ELSE IF raised' = raised THEN I \cup {n} ELSE {}
  BY <1>1, <1>2, <1>6, KeptAfter
<1>12. \A i \in DOMAIN trail : /\ Counted(i)' = Counted(i) /\ AlertOf(i)' = AlertOf(i)
                               /\ (i \in raised' <=> i \in raised)
  BY <1>1, <1>2, <1>6, CountedBefore
<1>13. AlertOf(n)' = alert
  BY <1>3, <1>10 DEF AlertOf
<1>14. alert \in Alert
  BY <1>4, <1>10, MonitorConstants DEF Alert
<1> HIDE DEF I, left, recent, alert
<1>15. MonitorTyped'
  <2>1. \A j \in DOMAIN trail' : trail'[j].at <= now'
    BY <1>1, <1>3, <1>4
  <2>2. DOMAIN hits' = Event
    BY <1>4, <1>5
  <2>3. alerts' \in Seq(Alert)
    <3>1. CASE UNCHANGED alerts
      BY <1>4, <3>1
    <3>2. CASE raise(alert)
      <4>1. Cardinality(raised) \in Nat
        BY <1>r
      <4>2. Len(alerts) = Min({MaxAlerts, Cardinality(raised)})
        BY DEF MInv, AlertsAreNewest
      <4>3. alerts' = Pushed(alerts, alert)
        BY <3>2 DEF raise, Pushed
      <4> QED BY <1>4, <1>14, <4>1, <4>2, <4>3, Raised
    <3> QED BY <1>5, <3>1, <3>2
  <2>4. raised' \subseteq DOMAIN trail'
    BY <1>3, <1>4, <1>6
  <2> QED BY <1>1, <1>3, <1>4, <2>1, <2>2, <2>3, <2>4 DEF MonitorTyped
<1>16. HitsAreKept'
  <2>1. ASSUME NEW f \in Event PROVE Copies(hits'[f], Times', Kept(f)')
    <3>1. CASE f # e
      <4>1. hits'[f] = hits[f] /\ Kept(f)' = Kept(f)
        BY <1>4, <1>5, <1>11, <3>1
      <4>2. Copies(hits[f], Times, Kept(f)) /\ Kept(f) \subseteq DOMAIN trail
        BY DEF MInv, HitsAreKept, Kept
      <4>3. Copies(hits[f], Times', Kept(f))
        BY <1>3, <4>2, CopiesSame
      <4> QED BY <4>1, <4>3
    <3>2. CASE f = e /\ Len(recent) >= Threshold[e.rule]
      <4>1. hits'[e] = <<>> /\ raised' = raised \cup {n}
        BY <1>4, <1>5, <3>2
      <4>2. raised' # raised
        BY <1>3, <1>4, <4>1
      <4>3. Kept(e)' = {}
        BY <1>11, <4>2
      <4> QED BY <3>2, <4>1, <4>3, CopiesEmpty
    <3>3. CASE f = e /\ ~(Len(recent) >= Threshold[e.rule])
      <4>1. hits'[e] = recent /\ raised' = raised
        BY <1>4, <1>5, <3>3
      <4>2. Kept(e)' = I \cup {n}
        BY <1>11, <4>1
      <4> QED BY <1>8, <3>3, <4>1, <4>2
    <3> QED BY <3>1, <3>2, <3>3
  <2> QED BY <2>1 DEF HitsAreKept
<1>17. AlertsAreNewest'
  <2>1. /\ Len(alerts) = Min({MaxAlerts, Cardinality(raised)})
        /\ \A m \in DOMAIN alerts : \E i \in raised :
             Cardinality(From(raised, i)) = m /\ alerts[m] = AlertOf(i)
    BY DEF From, MInv, AlertsAreNewest
  <2>2. CASE UNCHANGED <<alerts, raised>>
    <3>1. \A i \in raised : AlertOf(i)' = AlertOf(i)
      BY <1>4, <1>12
    <3> QED BY <2>1, <2>2, <3>1 DEF AlertsAreNewest, From
  <2>3. CASE raise(alert) /\ raised' = raised \cup {n}
    <3>1. alerts' = Pushed(alerts, alert)
      BY <2>3 DEF raise, Pushed
    <3>2. /\ Cardinality(raised) \in Nat /\ Cardinality(raised') = Cardinality(raised) + 1
          /\ Cardinality(From(raised', n)) = 1
          /\ \A i \in raised : Cardinality(From(raised', i)) = Cardinality(From(raised, i)) + 1
      <4>1. /\ Cardinality(raised \cup {n}) = Cardinality(raised) + 1
            /\ Cardinality(From(raised \cup {n}, n)) = 1
            /\ \A i \in raised : Cardinality(From(raised \cup {n}, i))
                                   = Cardinality(From(raised, i)) + 1
        BY ONLY <1>2, <1>r, Ranks
      <4> QED BY <1>r, <2>3, <4>1
    <3>3. /\ Len(alerts') = Min({MaxAlerts, Cardinality(raised')})
          /\ alerts'[1] = alert /\ 1 \in DOMAIN alerts'
          /\ alerts' \in Seq(Alert)
          /\ \A m \in DOMAIN alerts' : m # 1 =>
               \E h \in DOMAIN alerts : m = h + 1 /\ alerts'[m] = alerts[h]
      <4>1. /\ alerts \in Seq(Alert) /\ alert \in Alert /\ Cardinality(raised) \in Nat
            /\ Len(alerts) = Min({MaxAlerts, Cardinality(raised)})
        BY <1>4, <1>14, <2>1, <3>2
      <4>2. /\ alerts' \in Seq(Alert) /\ Len(alerts') = Min({MaxAlerts, Cardinality(raised) + 1})
            /\ alerts'[1] = alert /\ 1 \in DOMAIN alerts'
            /\ \A i \in DOMAIN alerts' : i # 1 =>
                 \E h \in DOMAIN alerts : i = h + 1 /\ alerts'[i] = alerts[h]
        <5>1. /\ Pushed(alerts, alert) \in Seq(Alert)
              /\ Len(Pushed(alerts, alert)) = Min({MaxAlerts, Cardinality(raised) + 1})
              /\ Pushed(alerts, alert)[1] = alert /\ 1 \in DOMAIN Pushed(alerts, alert)
              /\ \A i \in DOMAIN Pushed(alerts, alert) : i # 1 =>
                   \E h \in DOMAIN alerts : i = h + 1 /\ Pushed(alerts, alert)[i] = alerts[h]
          BY ONLY <4>1, Raised
        <5> QED BY ONLY <3>1, <5>1
      <4> QED BY <3>2, <4>2
    <3>4. ASSUME NEW m \in DOMAIN alerts'
          PROVE  \E i \in raised' : Cardinality(From(raised', i)) = m
                                    /\ alerts'[m] = AlertOf(i)'
      <4>1. CASE m = 1
        <5>1. n \in raised'
          BY <2>3
        <5> QED BY <1>13, <3>2, <3>3, <4>1, <5>1
      <4>2. CASE m # 1
        <5>1. PICK h \in DOMAIN alerts : m = h + 1 /\ alerts'[m] = alerts[h]
          BY <3>3, <4>2
        <5>2. PICK i \in raised : Cardinality(From(raised, i)) = h /\ alerts[h] = AlertOf(i)
          BY <2>1, <5>1
        <5>3. Cardinality(From(raised', i)) = m
          BY <3>2, <5>1, <5>2
        <5>4. i \in raised' /\ AlertOf(i)' = AlertOf(i)
          BY <1>4, <1>12, <2>3
        <5> QED BY <5>1, <5>2, <5>3, <5>4
      <4> QED BY <4>1, <4>2
    <3> QED BY <3>3, <3>4 DEF AlertsAreNewest, From
  <2> QED BY <1>5, <2>2, <2>3
<1>18. AlertsExactlyWhenDue'
  <2>1. ASSUME NEW i \in DOMAIN trail'
        PROVE  i \in raised' <=> Cardinality(Counted(i)') >= Threshold[trail'[i].event.rule]
    <3>1. CASE i = n
      <4>1. n \in raised' <=> Len(recent) >= Threshold[e.rule]
        BY <1>3, <1>4, <1>5
      <4> QED BY <1>3, <1>10, <3>1, <4>1 DEF recent
    <3>2. CASE i # n
      <4>1. i \in DOMAIN trail /\ trail'[i] = trail[i]
        BY <1>3, <3>2
      <4>2. i \in raised <=> Cardinality(Counted(i)) >= Threshold[trail[i].event.rule]
        BY <4>1 DEF MInv, AlertsExactlyWhenDue
      <4> QED BY <1>12, <4>1, <4>2
    <3> QED BY <3>1, <3>2
  <2> QED BY <2>1 DEF AlertsExactlyWhenDue
<1> QED BY <1>15, <1>16, <1>17, <1>18 DEF MInv

\* Time passes, or nothing happens to the monitor.
LEMMA MonitorStill ==
  ASSUME MInv, UNCHANGED <<hits, alerts, trail, raised>>, now' \in Nat, now <= now'
  PROVE  MInv'
<1>1. MonitorTyped'
  <2>1. MonitorTyped
    BY DEF MInv
  <2>2. \A j \in DOMAIN trail : trail[j] \in Logged
    BY <2>1 DEF MonitorTyped
  <2>3. \A j \in DOMAIN trail : trail[j].at \in Nat
    BY <2>2 DEF Logged
  <2>4. \A j \in DOMAIN trail' : trail'[j].at <= now'
    BY <2>1, <2>3 DEF MonitorTyped
  <2> QED BY <2>1, <2>4 DEF MonitorTyped
<1>2. Times' = Times
  BY DEF Times
<1>3. \A e \in Event : Kept(e)' = Kept(e)
  BY DEF Kept
<1>4. \A i : Counted(i)' = Counted(i) /\ AlertOf(i)' = AlertOf(i)
  BY DEF Counted, SameKey, AlertOf
<1>5. HitsAreKept'
  BY <1>2, <1>3 DEF MInv, HitsAreKept
<1>6. AlertsAreNewest'
  BY <1>4 DEF MInv, AlertsAreNewest
<1>7. AlertsExactlyWhenDue'
  BY <1>4 DEF MInv, AlertsExactlyWhenDue
<1> QED BY <1>1, <1>5, <1>6, <1>7 DEF MInv

\* A process that has just started has seen nothing.
LEMMA MonitorFresh ==
  ASSUME NEW h, h = [e \in Event |-> <<>>]
  PROVE  /\ now \in Nat /\ hits = h /\ alerts = <<>> /\ trail = <<>> /\ raised = {} => MInv
         /\ now' \in Nat /\ hits' = h /\ alerts' = <<>> /\ trail' = <<>> /\ raised' = {} => MInv'
<1>1. Min({MaxAlerts, 0}) = 0
  BY MonitorConstants, MinOfTwo
<1>2. Cardinality({}) = 0
  BY FS_EmptySet
<1>3. <<>> \in Seq(Alert) /\ <<>> \in Seq(Logged) /\ DOMAIN <<>> = {} /\ Len(<<>>) = 0
  OBVIOUS
<1>4. ASSUME now \in Nat, hits = h, alerts = <<>>, trail = <<>>, raised = {} PROVE MInv
  <2>1. MonitorTyped
    BY <1>3, <1>4 DEF MonitorTyped
  <2>2. \A e \in Event : hits[e] = <<>> /\ Kept(e) = {}
    BY <1>3, <1>4 DEF Kept
  <2>3. HitsAreKept
    BY <2>2, CopiesEmpty DEF HitsAreKept
  <2>4. AlertsAreNewest
    BY <1>1, <1>2, <1>3, <1>4 DEF AlertsAreNewest
  <2>5. AlertsExactlyWhenDue
    BY <1>3, <1>4 DEF AlertsExactlyWhenDue
  <2> QED BY <2>1, <2>3, <2>4, <2>5 DEF MInv
<1>5. ASSUME now' \in Nat, hits' = h, alerts' = <<>>, trail' = <<>>, raised' = {} PROVE MInv'
  <2>1. MonitorTyped'
    BY <1>3, <1>5 DEF MonitorTyped
  <2>2. \A e \in Event : hits'[e] = <<>> /\ Kept(e)' = {}
    BY <1>3, <1>5 DEF Kept
  <2>3. HitsAreKept'
    BY <2>2, CopiesEmpty DEF HitsAreKept
  <2>4. AlertsAreNewest'
    BY <1>1, <1>2, <1>3, <1>5 DEF AlertsAreNewest
  <2>5. AlertsExactlyWhenDue'
    BY <1>3, <1>5 DEF AlertsExactlyWhenDue
  <2> QED BY <2>1, <2>3, <2>4, <2>5 DEF MInv
<1> QED BY <1>4, <1>5

\* What is shown of the buffer.
LEMMA ShownOfBuffer ==
  ASSUME MInv
  PROVE  ShownAreNewest
<1> DEFINE k == Cardinality(raised)
           m == Min({Limit, Len(alerts)})
<1>0. raised \subseteq 1..Len(trail) /\ Len(trail) \in Nat
  BY DEF MInv, MonitorTyped
<1>1. /\ alerts \in Seq(Alert)
      /\ Len(alerts) = Min({MaxAlerts, k})
      /\ \A n \in DOMAIN alerts : \E i \in raised :
           Cardinality({j \in raised : j >= i}) = n /\ alerts[n] = AlertOf(i)
  BY DEF MInv, MonitorTyped, AlertsAreNewest
<1>2. k \in Nat /\ MaxAlerts \in Nat /\ Limit \in Nat
  <2>1. IsFiniteSet(1..Len(trail))
    BY <1>0, FS_Interval
  <2>2. IsFiniteSet(raised)
    BY <1>0, <2>1, FS_Subset
  <2> QED BY <2>2, FS_CardinalityType, MonitorConstants
<1>3. m = Min({Limit, MaxAlerts, k})
  BY <1>1, <1>2, MinOfThree
<1>4. m \in 0..Len(alerts)
  BY <1>1, <1>2, MinOfTwo
<1>5. recentAlerts = SubSeq(alerts, 1, m)
  BY DEF recentAlerts
<1> HIDE DEF m, k
<1>6. Len(recentAlerts) = m /\ DOMAIN recentAlerts = 1..m
      /\ \A n \in 1..m : recentAlerts[n] = alerts[n] /\ n \in DOMAIN alerts
  BY <1>1, <1>4, <1>5
<1>7. Len(recentAlerts) = Min({Limit, MaxAlerts, Cardinality(raised)})
  BY <1>3, <1>6 DEF k
<1>8. ASSUME NEW n \in DOMAIN recentAlerts
      PROVE  \E i \in raised : /\ Cardinality({j \in raised : j >= i}) = n
                              /\ recentAlerts[n] = AlertOf(i)
  BY <1>1, <1>6, <1>8
<1> QED BY <1>7, <1>8 DEF ShownAreNewest, AlertOf

----------------------------------------------------------------------------
(* The monitor and the requests its events come from.                      *)

\* Only the settling of a write, the clock and a restart reach the monitor.
LEMMA MonitorStep ==
  ASSUME MInv, [GatewayNext]_<<monitorVars, gatewayVars>>
  PROVE  MInv'
<1>1. now \in Nat
  BY DEF MInv, MonitorTyped
<1>2. CASE UNCHANGED monitorVars
  <2>1. UNCHANGED <<now, hits, alerts, trail, raised>>
    BY <1>2 DEF monitorVars
  <2> QED BY <1>1, <2>1, MonitorStill
<1>3. ASSUME NEW a \in Addresses, Request(a) PROVE MInv'
  BY <1>2, <1>3 DEF Request
<1>4. ASSUME NEW e \in Event, Settle(e) PROVE MInv'
  BY <1>4, LogKeeps DEF Settle
<1>5. CASE GatewayTick
  <2>1. now' = now + 1 /\ UNCHANGED <<hits, alerts, trail, raised>>
    BY <1>5 DEF GatewayTick, Tick
  <2> QED BY <1>1, <2>1, MonitorStill
<1>6. CASE GatewayRestart
  <2>1. /\ now' = now /\ hits' = [e \in Event |-> <<>>]
        /\ alerts' = <<>> /\ trail' = <<>> /\ raised' = {}
    BY <1>6 DEF GatewayRestart, Restart
  <2> QED BY <1>1, <2>1, MonitorFresh
<1>7. UNCHANGED <<monitorVars, gatewayVars>> => UNCHANGED monitorVars
  OBVIOUS
<1> QED BY <1>2, <1>3, <1>4, <1>5, <1>6, <1>7 DEF GatewayNext

----------------------------------------------------------------------------
(* The theorems.                                                           *)

\* For any limits, windows and traffic: the inductive invariant.
THEOREM GatewayInductive == GatewaySpec => []GInv
<1>1. GInv /\ [GatewayNext]_<<monitorVars, gatewayVars>> => GInv' BY GatewayStep
<1> QED BY GatewayInitially, <1>1, PTL DEF GatewaySpec

\* A limiter's count and the end of its window are the history of the address
\* (rateLimit.middleware.ts:10-59).
THEOREM GatewayTypes == GatewaySpec => []GatewayTypeOK
<1>1. ASSUME GInv PROVE GatewayTypeOK
  <2>1. pending \in [Event -> Nat] BY <1>1 DEF GInv, Typed
  <2>2. ASSUME NEW l \in Limiters, NEW a \in Addresses
        PROVE  LET b == budget[l][a]
                   counted == {j \in DOMAIN seen : seen[j].ip = a /\ l \in seen[j].counted}
               IN  /\ b.count \in Nat /\ b.until \in 0..(now + LimitWindow)
                   /\ \A j \in counted : seen[j].at < b.until
                   /\ b.until > now =>
                        b.count = Cardinality({j \in counted : seen[j].at >= b.until - LimitWindow})
    <3> DEFINE b == budget[l][a]
               counted == {j \in DOMAIN seen : seen[j].ip = a /\ l \in seen[j].counted}
    <3>1. b \in [count : Nat, until : Nat] /\ b.until <= now + LimitWindow /\ now \in Nat
      BY <1>1 DEF GInv, Typed
    <3>2. b.until \in 0..(now + LimitWindow) BY <3>1, Constants
    <3>3. Keeps(l, a) BY <1>1 DEF GInv
    <3>4. {j \in counted : seen[j].at >= b.until - LimitWindow} = Of(l, a, Began(l, a))
      BY DEF Of, Began
    <3> QED BY <3>1, <3>2, <3>3, <3>4 DEF Keeps
  <2> QED BY <2>1, <2>2 DEF GatewayTypeOK
<1> QED BY GatewayInductive, <1>1, PTL

\* A 429 has its cause (rateLimit.middleware.ts:10-59).
THEOREM Refused == GatewaySpec => []RefusedForCause
<1>1. GInv => RefusedForCause BY DEF GInv
<1> QED BY GatewayInductive, <1>1, PTL

\* No time as long as a window lets through more than two budgets less one
\* (rateLimit.middleware.ts:10-59).
THEOREM Bounded == GatewaySpec => []RateIsBounded
<1>1. GInv => RateIsBounded BY DEF GInv
<1> QED BY GatewayInductive, <1>1, PTL

\* For any rules and traffic: the inductive invariant of the monitor.
THEOREM MonitorInductive == GatewaySpec => []MInv
<1>1. GatewayInit => MInv
  <2> SUFFICES ASSUME GatewayInit PROVE MInv
    OBVIOUS
  <2>1. /\ now = 0 /\ hits = [e \in Event |-> <<>>]
        /\ alerts = <<>> /\ trail = <<>> /\ raised = {}
    BY DEF GatewayInit, Init
  <2> QED BY <2>1, MonitorFresh
<1>2. MInv /\ [GatewayNext]_<<monitorVars, gatewayVars>> => MInv'
  BY MonitorStep
<1> QED BY <1>1, <1>2, PTL DEF GatewaySpec

\* Timestamps kept only while they are recent and forgotten at an alert raise the
\* alerts that the whole trail calls for, and no others, whatever the thresholds,
\* the windows and the times of the events (monitoring.service.ts).
THEOREM AlertsDue == GatewaySpec => []AlertsExactlyWhenDue
<1>1. MInv => AlertsExactlyWhenDue BY DEF MInv
<1> QED BY MonitorInductive, <1>1, PTL

\* The buffer shows the newest alerts, each with the number of its events,
\* whatever its size and the number shown (monitoring.service.ts).
THEOREM AlertsShown == GatewaySpec => []ShownAreNewest
<1>1. MInv => ShownAreNewest BY ShownOfBuffer
<1> QED BY MonitorInductive, <1>1, PTL
=============================================================================
