--------------------------- MODULE CheckoutProofs ---------------------------
(***************************************************************************)
(* Proofs about Checkout for any number of requests, keys, products,       *)
(* faults, crashes and admin edits: type correctness, the inductive        *)
(* invariant IInv, the safety properties that follow from it, and the      *)
(* refinement of Purchase.                                                 *)
(***************************************************************************)
EXTENDS CheckoutProperties, FiniteSetTheorems, TLAPS

----------------------------------------------------------------------------
(* Sums over finite sets. A set of finite sets has a smallest member, so a *)
(* claim about sums that some subset refutes is refuted by a smallest one. *)

\* Among subsets of a finite set there is one with no other inside it.
LEMMA MinimalSubset ==
  ASSUME NEW S, IsFiniteSet(S), NEW T, T \subseteq SUBSET S, T # {}
  PROVE  \E t \in T : \A u \in T : ~(u \subseteq t /\ u # t)
<1>1. IsWellFoundedOn(StrictSubsetOrdering(S), FiniteSubsetsOf(S))
  BY FS_StrictSubsetOrderingWellFounded
<1>2. T \subseteq FiniteSubsetsOf(S)
  BY FS_FiniteSubsetsOfFinite
<1>3. \E t \in T : \A u \in T : ~(<<u, t>> \in StrictSubsetOrdering(S))
  BY <1>1, <1>2, WFMin
<1>4. \A u, t \in SUBSET S : <<u, t>> \in StrictSubsetOrdering(S) <=> u \subseteq t /\ u # t
  BY DEF StrictSubsetOrdering
<1> QED BY <1>3, <1>4

Pick(s) == CHOOSE x \in s : TRUE
Rest(s) == s \ {Pick(s)}

\* g sums f over the subsets of S, as the fold does.
Sums(g, f, S) ==
  g = [s \in SUBSET S |-> IF s = {} THEN 0 ELSE f[Pick(s)] + g[Rest(s)]]

\* The fold of the community module is such a sum.
LEMMA FoldIsSum ==
  ASSUME NEW f, NEW S
  PROVE  SumFunctionOnSet(f, S) = (CHOOSE g : Sums(g, f, S))[S]
BY DEF SumFunctionOnSet, FoldFunctionOnSet, MapThenFoldSet, Sums, Pick, Rest

\* A member is taken and fewer are left.
LEMMA RestOf ==
  ASSUME NEW S, S # {}
  PROVE  Pick(S) \in S /\ Rest(S) \subseteq S /\ Rest(S) # S
BY DEF Pick, Rest

\* The value of such a function at a set.
LEMMA SumsAt ==
  ASSUME NEW g, NEW f, NEW S, Sums(g, f, S), NEW s, s \subseteq S
  PROVE  g[s] = IF s = {} THEN 0 ELSE f[Pick(s)] + g[Rest(s)]
BY DEF Sums

\* Two sums agree on the sets on which what they add up agrees.
LEMMA SumsAgree ==
  ASSUME NEW f, NEW g, NEW S, Sums(g, f, S),
         NEW e, NEW h, NEW U, Sums(h, e, U),
         NEW T, IsFiniteSet(T), T \subseteq S, T \subseteq U, \A i \in T : f[i] = e[i]
  PROVE  g[T] = h[T]
<1> DEFINE Bad == {s \in SUBSET T : g[s] # h[s]}
<1>1. SUFFICES ASSUME Bad # {} PROVE FALSE
  BY DEF Bad
<1>2. PICK s \in Bad : \A u \in Bad : ~(u \subseteq s /\ u # s)
  <2>1. Bad \subseteq SUBSET T
    OBVIOUS
  <2> HIDE DEF Bad
  <2> QED BY <1>1, <2>1, MinimalSubset
<1>3. s \subseteq T /\ s \subseteq S /\ s \subseteq U /\ g[s] # h[s]
  BY <1>2
<1>4. s # {}
  BY <1>3, SumsAt
<1>5. g[s] = f[Pick(s)] + g[Rest(s)] /\ h[s] = e[Pick(s)] + h[Rest(s)]
  BY <1>3, <1>4, SumsAt
<1>6. g[Rest(s)] = h[Rest(s)] /\ f[Pick(s)] = e[Pick(s)]
  BY <1>2, <1>3, <1>4, RestOf
<1> QED BY <1>3, <1>5, <1>6

\* The recursion has a solution: a smallest subset without one would have one.
LEMMA SumsExist ==
  ASSUME NEW f, NEW S, IsFiniteSet(S)
  PROVE  \E g : Sums(g, f, S)
<1> DEFINE Bad == {s \in SUBSET S : ~ \E g : Sums(g, f, s)}
<1>1. SUFFICES ASSUME Bad # {} PROVE FALSE
  BY DEF Bad
<1>2. PICK t \in Bad : \A u \in Bad : ~(u \subseteq t /\ u # t)
  <2>1. Bad \subseteq SUBSET S
    OBVIOUS
  <2> HIDE DEF Bad
  <2> QED BY <1>1, <2>1, MinimalSubset
<1> DEFINE of(s) == CHOOSE g : Sums(g, f, s)
           g == [s \in SUBSET t |-> IF s = {} THEN 0 ELSE f[Pick(s)] + of(Rest(s))[Rest(s)]]
<1>3. \A s \in SUBSET t : s # t => Sums(of(s), f, s)
  BY <1>2
<1>4. ASSUME NEW s \in SUBSET t, s # t
      PROVE  g[s] = of(s)[s]
  <2> HIDE DEF of
  <2>1. Sums(of(s), f, s)
    BY <1>3, <1>4
  <2>2. CASE s = {}
    BY <2>1, <2>2, SumsAt
  <2>3. CASE s # {}
    <3>1. Rest(s) \subseteq s /\ Rest(s) # t /\ Rest(s) \in SUBSET t
      BY <1>4, <2>3, RestOf
    <3>2. Sums(of(Rest(s)), f, Rest(s))
      BY <1>3, <3>1
    <3>3. IsFiniteSet(Rest(s))
      BY <3>1, FS_Subset
    <3>4. of(s)[Rest(s)] = of(Rest(s))[Rest(s)]
      BY <2>1, <3>1, <3>2, <3>3, SumsAgree
    <3>5. of(s)[s] = f[Pick(s)] + of(s)[Rest(s)]
      BY <2>1, <2>3, SumsAt
    <3> QED BY <2>3, <3>4, <3>5
  <2> QED BY <2>2, <2>3
<1>5. ASSUME NEW s \in SUBSET t, s # {}
      PROVE  g[Rest(s)] = of(Rest(s))[Rest(s)]
  <2> Rest(s) \in SUBSET t /\ Rest(s) # t
    BY <1>5, RestOf
  <2> HIDE DEF of, g
  <2> QED BY <1>4
<1>6. Sums(g, f, t)
  <2> HIDE DEF of
  <2>1. \A s \in SUBSET t : g[s] = IF s = {} THEN 0 ELSE f[Pick(s)] + g[Rest(s)]
    BY <1>5
  <2> HIDE DEF g
  <2>2. g = [s \in SUBSET t |-> g[s]]
    BY DEF g
  <2> QED BY <2>1, <2>2 DEF Sums
<1> QED BY <1>2, <1>6

\* Summing a set is summing all but one element and adding that one.
LEMMA SumStep ==
  ASSUME NEW f, NEW S, IsFiniteSet(S)
  PROVE  SumFunctionOnSet(f, S) =
           IF S = {} THEN 0 ELSE f[Pick(S)] + SumFunctionOnSet(f, Rest(S))
<1> DEFINE g == CHOOSE g : Sums(g, f, S)
           h == CHOOSE h : Sums(h, f, Rest(S))
<1>1. IsFiniteSet(Rest(S))
  BY FS_RemoveElement DEF Rest
<1>2. Sums(g, f, S) /\ Sums(h, f, Rest(S))
  BY <1>1, SumsExist
<1>3. SumFunctionOnSet(f, S) = g[S] /\ SumFunctionOnSet(f, Rest(S)) = h[Rest(S)]
  BY FoldIsSum
<1> HIDE DEF g, h
<1>4. S # {} => g[Rest(S)] = h[Rest(S)]
  BY <1>1, <1>2, RestOf, SumsAgree
<1> QED BY <1>2, <1>3, <1>4, SumsAt

\* A sum of naturals is one.
LEMMA SumIsNat ==
  ASSUME NEW f, NEW S, IsFiniteSet(S), \A i \in S : f[i] \in Nat
  PROVE  SumFunctionOnSet(f, S) \in Nat
<1> DEFINE Bad == {s \in SUBSET S : SumFunctionOnSet(f, s) \notin Nat}
<1>1. SUFFICES ASSUME Bad # {} PROVE FALSE
  BY DEF Bad
<1>2. PICK s \in Bad : \A u \in Bad : ~(u \subseteq s /\ u # s)
  <2>1. Bad \subseteq SUBSET S
    OBVIOUS
  <2> HIDE DEF Bad
  <2> QED BY <1>1, <2>1, MinimalSubset
<1>3. IsFiniteSet(s)
  BY FS_Subset
<1>4. s # {}
  BY <1>3, SumStep
<1>5. SumFunctionOnSet(f, Rest(s)) \in Nat /\ f[Pick(s)] \in Nat
  BY <1>2, <1>4, RestOf
<1> QED BY <1>3, <1>4, <1>5, SumStep

\* It does not matter which element is taken out first.
LEMMA SumRemove ==
  ASSUME NEW f, NEW S, IsFiniteSet(S), \A i \in S : f[i] \in Nat, NEW k \in S
  PROVE  SumFunctionOnSet(f, S) = f[k] + SumFunctionOnSet(f, S \ {k})
<1> DEFINE sum(s) == SumFunctionOnSet(f, s)
           Bad == {s \in SUBSET S : \E i \in s : sum(s) # f[i] + sum(s \ {i})}
<1>1. SUFFICES ASSUME Bad # {} PROVE FALSE
  BY DEF Bad
<1>2. PICK s \in Bad : \A u \in Bad : ~(u \subseteq s /\ u # s)
  <2>1. Bad \subseteq SUBSET S
    OBVIOUS
  <2> HIDE DEF Bad
  <2> QED BY <1>1, <2>1, MinimalSubset
<1>3. PICK i \in s : sum(s) # f[i] + sum(s \ {i})
  BY <1>2
<1> DEFINE x == Pick(s)
<1>4. x \in s /\ s \in SUBSET S /\ s # {} /\ Rest(s) = s \ {x}
  BY <1>3, RestOf DEF Rest
<1>5. \A u \in SUBSET s : IsFiniteSet(u) /\ sum(u) \in Nat
  BY <1>4, FS_Subset, SumIsNat
<1>6. sum(s) = f[x] + sum(s \ {x})
  BY <1>4, <1>5, SumStep
<1>7. x # i
  BY <1>3, <1>6
<1> HIDE DEF sum, x
<1>8. \A u \in SUBSET s : u # s => \A j \in u : sum(u) = f[j] + sum(u \ {j})
  BY <1>2, <1>4
<1>9. /\ sum(s \ {x}) = f[i] + sum((s \ {x}) \ {i})
      /\ sum(s \ {i}) = f[x] + sum((s \ {i}) \ {x})
  BY <1>3, <1>4, <1>7, <1>8
<1>10. (s \ {x}) \ {i} = (s \ {i}) \ {x}
  OBVIOUS
<1>11. f[x] \in Nat /\ f[i] \in Nat /\ sum((s \ {i}) \ {x}) \in Nat
  BY <1>3, <1>4, <1>5
<1> QED BY <1>3, <1>6, <1>9, <1>10, <1>11

\* One more summand.
LEMMA SumAdd ==
  ASSUME NEW f, NEW S, IsFiniteSet(S), \A i \in S : f[i] \in Nat,
         NEW k, k \notin S, f[k] \in Nat
  PROVE  SumFunctionOnSet(f, S \cup {k}) = f[k] + SumFunctionOnSet(f, S)
<1>1. IsFiniteSet(S \cup {k}) /\ (S \cup {k}) \ {k} = S
  BY FS_AddElement
<1> QED BY <1>1, SumRemove

\* Equal summands have equal sums.
LEMMA SumCongruence ==
  ASSUME NEW f, NEW e, NEW S, IsFiniteSet(S), \A i \in S : f[i] = e[i]
  PROVE  SumFunctionOnSet(f, S) = SumFunctionOnSet(e, S)
<1> DEFINE g == CHOOSE g : Sums(g, f, S)
           h == CHOOSE h : Sums(h, e, S)
<1>1. Sums(g, f, S) /\ Sums(h, e, S)
  BY SumsExist
<1>2. SumFunctionOnSet(f, S) = g[S] /\ SumFunctionOnSet(e, S) = h[S]
  BY FoldIsSum
<1> HIDE DEF g, h
<1> QED BY <1>1, <1>2, SumsAgree

\* A sum of smaller values is smaller.
LEMMA SumMonotone ==
  ASSUME NEW f, NEW e, NEW S, IsFiniteSet(S),
         \A i \in S : f[i] \in Nat /\ e[i] \in Nat /\ f[i] <= e[i]
  PROVE  SumFunctionOnSet(f, S) <= SumFunctionOnSet(e, S)
<1> DEFINE Bad == {s \in SUBSET S : ~(SumFunctionOnSet(f, s) <= SumFunctionOnSet(e, s))}
<1>1. SUFFICES ASSUME Bad # {} PROVE FALSE
  BY DEF Bad
<1>2. PICK s \in Bad : \A u \in Bad : ~(u \subseteq s /\ u # s)
  <2>1. Bad \subseteq SUBSET S
    OBVIOUS
  <2> HIDE DEF Bad
  <2> QED BY <1>1, <2>1, MinimalSubset
<1>3. IsFiniteSet(s) /\ IsFiniteSet(Rest(s))
  BY FS_Subset, FS_RemoveElement DEF Rest
<1>4. s # {}
  BY <1>3, SumStep
<1>5. SumFunctionOnSet(f, Rest(s)) <= SumFunctionOnSet(e, Rest(s))
  BY <1>2, <1>4, RestOf
<1>6. SumFunctionOnSet(f, Rest(s)) \in Nat /\ SumFunctionOnSet(e, Rest(s)) \in Nat
  BY <1>3, <1>4, RestOf, SumIsNat
<1>7. f[Pick(s)] \in Nat /\ e[Pick(s)] \in Nat /\ f[Pick(s)] <= e[Pick(s)]
  BY <1>4, RestOf
<1>8. /\ SumFunctionOnSet(f, s) = f[Pick(s)] + SumFunctionOnSet(f, Rest(s))
      /\ SumFunctionOnSet(e, s) = e[Pick(s)] + SumFunctionOnSet(e, Rest(s))
  BY <1>3, <1>4, SumStep
<1> QED BY <1>2, <1>5, <1>6, <1>7, <1>8

\* Changing one value changes the sum by as much.
LEMMA SumChange ==
  ASSUME NEW f, NEW e, NEW S, IsFiniteSet(S), NEW k \in S,
         \A i \in S : f[i] \in Nat /\ e[i] \in Nat,
         \A i \in S \ {k} : e[i] = f[i]
  PROVE  SumFunctionOnSet(e, S) - e[k] = SumFunctionOnSet(f, S) - f[k]
<1> DEFINE T == S \ {k}
<1>1. IsFiniteSet(T)
  BY FS_RemoveElement
<1>2. SumFunctionOnSet(e, T) = SumFunctionOnSet(f, T)
  BY <1>1, SumCongruence
<1>3. SumFunctionOnSet(e, T) \in Nat
  BY <1>1, SumIsNat
<1>4. /\ SumFunctionOnSet(e, S) = e[k] + SumFunctionOnSet(e, T)
      /\ SumFunctionOnSet(f, S) = f[k] + SumFunctionOnSet(f, T)
  BY SumRemove
<1> QED BY <1>2, <1>3, <1>4

----------------------------------------------------------------------------
(* Types of the operators the actions are built from.                      *)

\* The price of a line is a number, whatever its price and quantity.
LEMMA ProductIsNat == \A a, b \in Nat : a * b \in Nat
BY SMT

\* The loop of the handler is at a line of the cart (order.service.ts:52).
LEMMA NextLineType ==
  ASSUME TypeOK, NEW r \in Requests, pc[r] \in {"read", "reserve"}
  PROVE  NextLine(r) \in Line
<1>1. job[r] \in Jobs BY DEF TypeOK, VarsOK, AtLine
<1>2. job[r].cart \in Seq(Line) BY <1>1, CheckoutAssumption DEF CheckoutDTO
<1>3. Len(items[r]) + 1 \in 1..Len(job[r].cart)
  BY <1>2 DEF TypeOK, VarsOK, AtLine
<1> QED BY <1>2, <1>3 DEF NextLine

\* What the handler pushes and sums keeps its type (order.service.ts:68-77).
LEMMA BoughtType ==
  ASSUME TypeOK, NEW r \in Requests, pc[r] \in {"read", "reserve"}
  PROVE  /\ Bought(r) \in Seq(Item)
         /\ Len(Bought(r)) = Len(items[r]) + 1
         /\ Sum(r) \in Nat
<1>1. /\ NextLine(r).product \in Products
      /\ NextLine(r).quantity \in 1..99
  BY NextLineType DEF Line
<1>2. price[r] \in Nat /\ total[r] \in Nat /\ items[r] \in Seq(Item)
  BY DEF TypeOK, VarsOK, AtLine
<1>3. [product |-> NextLine(r).product, price |-> price[r],
       quantity |-> NextLine(r).quantity] \in Item
  BY <1>1, <1>2 DEF Item
<1>4. Sum(r) \in Nat
  <2>1. NextLine(r).quantity \in Nat BY <1>1
  <2>2. price[r] * NextLine(r).quantity \in Nat BY <1>2, <2>1, ProductIsNat
  <2> QED BY <1>2, <2>2 DEF Sum
<1> QED BY <1>2, <1>3, <1>4 DEF Bought

\* The conditional update keeps the type of the collection
\* (product.repository.ts:29-35).
LEMMA DecrementType ==
  ASSUME product \in [Products -> Row], NEW p \in Products, NEW qty \in Int,
         DecrementStock(p, qty)
  PROVE  product' \in [Products -> Row]
<1>1. CASE Matches(p, qty)
  <2>1. product[p] \in Row OBVIOUS
  <2>2. [product[p] EXCEPT !.stock = product[p].stock - qty] \in Row
    BY <2>1 DEF Row
  <2>3. product' = [product EXCEPT ![p] = [product[p] EXCEPT !.stock = product[p].stock - qty]]
    BY <1>1 DEF DecrementStock
  <2> QED BY <2>2, <2>3
<1>2. CASE ~Matches(p, qty)
  BY <1>2 DEF DecrementStock
<1> QED BY <1>1, <1>2

\* Reserving the next line keeps the type of the collection.
LEMMA TakeLineType ==
  ASSUME TypeOK, NEW r \in Requests, pc[r] = "reserve", TakeLine(r)
  PROVE  product' \in [Products -> Row]
<1>1. NextLine(r).product \in Products /\ NextLine(r).quantity \in Int
  BY NextLineType DEF Line
<1>2. product \in [Products -> Row] BY DEF TypeOK, VarsOK, CatalogueTypeOK
<1> QED BY <1>1, <1>2, DecrementType DEF TakeLine

\* Restoring a line keeps the type of the collection.
LEMMA RestoreLineType ==
  ASSUME TypeOK, NEW r \in Requests, pc[r] = "rollback", RestoreLine(r)
  PROVE  product' \in [Products -> Row]
<1> DEFINE d == items[r][undone[r] + 1]
<1>1. undone[r] + 1 \in 1..Len(items[r]) /\ items[r] \in Seq(Item)
  BY DEF TypeOK, VarsOK, AtLine
<1>2. d \in Item BY <1>1
<1>3. d.product \in Products /\ -d.quantity \in Int BY <1>2 DEF Item
<1>4. product \in [Products -> Row] BY DEF TypeOK, VarsOK, CatalogueTypeOK
<1>5. DecrementStock(d.product, -d.quantity) BY DEF RestoreLine
<1> QED BY <1>3, <1>4, <1>5, DecrementType

\* The stored payment has its type, and so has the linked one.
LEMMA PaymentType ==
  ASSUME TypeOK, NEW r \in Requests, pc[r] \in {"pay", "attach"},
         (StorePayment(r) /\ pc[r] = "pay") \/ LinkOrder(r)
  PROVE  payments' \subseteq Payment
<1>1. CASE StorePayment(r) /\ pc[r] = "pay"
  <2>1. job[r] \in Jobs /\ total[r] \in Nat \ {0} /\ job[r].card # "malformed"
    BY <1>1 DEF TypeOK, VarsOK, AtLine
  <2>2. job[r].key \in Keys /\ job[r].card \in {"approved", "declined"}
    BY <2>1, CheckoutAssumption DEF CheckoutDTO, Cards
  <2>3. [id |-> r, key |-> job[r].key, status |-> job[r].card,
         amount |-> total[r], orderId |-> NoOrder] \in Payment
    BY <2>1, <2>2 DEF Payment
  <2> QED BY <1>1, <2>3 DEF TypeOK, VarsOK, AtLine, StorePayment
<1>2. CASE LinkOrder(r)
  <2>1. order[r] \in Requests \cup {NoOrder} BY DEF TypeOK, VarsOK, AtLine
  <2>2. ASSUME NEW q \in payments
        PROVE  [q EXCEPT !.orderId = order[r]] \in Payment
    <3>1. q \in Payment BY DEF TypeOK, VarsOK, AtLine
    <3> QED BY <2>1, <3>1 DEF Payment
  <2> QED BY <1>2, <2>2 DEF TypeOK, VarsOK, AtLine, LinkOrder
<1> QED BY <1>1, <1>2

\* The stored order has its type.
LEMMA OrderType ==
  ASSUME TypeOK, NEW r \in Requests, StoreOrder(r)
  PROVE  orders' \subseteq Order
BY DEF TypeOK, VarsOK, AtLine, StoreOrder, Order

----------------------------------------------------------------------------
(* Frame: a step of one handler leaves the locals of the others alone.     *)

Untouched(s) ==
  /\ pc'[s] = pc[s] /\ job'[s] = job[s] /\ price'[s] = price[s]
  /\ items'[s] = items[s] /\ total'[s] = total[s] /\ undone'[s] = undone[s]
  /\ order'[s] = order[s] /\ reply'[s] = reply[s]

\* What a handler does leaves the other handlers where they are.
LEMMA HandlerFrame ==
  ASSUME VarsOK, NEW r \in Requests, HandlerStep(r), NEW s \in Requests \ {r}
  PROVE  Untouched(s)
<1> USE DEF VarsOK, Untouched, locals, Goto, Answer, Abort
<1>1. CASE FindPrior(r) BY <1>1 DEF FindPrior
<1>2. CASE Replay(r) BY <1>2 DEF Replay
<1>3. CASE ReadProduct(r) BY <1>3 DEF ReadProduct
<1>4. CASE OutOfStock(r) BY <1>4 DEF OutOfStock
<1>5. CASE ReserveLine(r) BY <1>5 DEF ReserveLine, PushLine
<1>6. CASE ReserveLastAndCharge(r) BY <1>6 DEF ReserveLastAndCharge, PushLine
<1>7. CASE ChargeRejected(r) BY <1>7 DEF ChargeRejected, PushLine
<1>8. CASE CreatePayment(r) BY <1>8 DEF CreatePayment
<1>9. CASE CreateOrder(r) BY <1>9 DEF CreateOrder
<1>10. CASE AttachOrder(r) BY <1>10 DEF AttachOrder
<1>11. CASE Rollback(r) BY <1>11 DEF Rollback
<1> QED
  BY <1>1, <1>2, <1>3, <1>4, <1>5, <1>6, <1>7, <1>8, <1>9, <1>10, <1>11
     DEF HandlerStep

\* A call that fails leaves them there as well.
LEMMA FaultFrame ==
  ASSUME VarsOK, NEW r \in Requests, Fault(r), NEW s \in Requests \ {r}
  PROVE  Untouched(s)
<1> USE DEF VarsOK, Untouched, locals, Answer, Abort, CountFault
<1>1. CASE LookupFails(r) BY <1>1 DEF LookupFails
<1>2. CASE LineFails(r) BY <1>2 DEF LineFails
<1>3. CASE PaymentFails(r) BY <1>3 DEF PaymentFails
<1>4. CASE OrderFails(r) BY <1>4 DEF OrderFails
<1>5. CASE AttachFails(r) BY <1>5 DEF AttachFails
<1>6. CASE RollbackFails(r) BY <1>6 DEF RollbackFails
<1> QED BY <1>1, <1>2, <1>3, <1>4, <1>5, <1>6 DEF Fault

\* A handler that is left alone stays at its line.
LEMMA UntouchedAtLine ==
  ASSUME NEW s \in Requests, AtLine(s), Untouched(s)
  PROVE  AtLine(s)'
BY DEF AtLine, Untouched

----------------------------------------------------------------------------
(* Type correctness.                                                       *)

\* Types at the start.
LEMMA TypeInit == Init => TypeOK
<1> SUFFICES ASSUME Init PROVE TypeOK
  OBVIOUS
<1>1. CatalogueTypeOK
  BY CatalogueAssumption DEF Init, CatalogueInit, CatalogueTypeOK, Row
<1> QED
  BY <1>1, CheckoutAssumption DEF Init, TypeOK, VarsOK, AtLine, Labels, Replies

\* A throw inside the try block leaves the handler at the first held line, or
\* done when it holds none (order.service.ts:132-136).
LEMMA AbortType ==
  ASSUME TypeOK, NEW r \in Requests, NEW held \in Seq(Item), NEW code \in Replies,
         pc[r] \notin {"idle", "rollback", "done", "dead"},
         Abort(r, code, held)
  PROVE  /\ pc' \in [Requests -> Labels] /\ reply' \in [Requests -> Replies]
         /\ pc'[r] \in {"rollback", "done"} /\ reply'[r] = code
         /\ pc'[r] = "rollback" => undone[r] < Len(held)
         /\ job[r] \in Jobs
<1>1. held # <<>> => Len(held) > 0
  OBVIOUS
<1>2. undone[r] = 0 /\ job[r] \in Jobs BY DEF TypeOK, AtLine
<1>3. pc \in [Requests -> Labels] /\ reply \in [Requests -> Replies]
  BY DEF TypeOK, VarsOK
<1> QED BY <1>1, <1>2, <1>3 DEF Abort, Labels

\* The lookup of the key keeps the types of what it sets (order.service.ts:36-45).
LEMMA FindPriorType ==
  ASSUME TypeOK, NEW r \in Requests, FindPrior(r)
  PROVE  /\ pc' \in [Requests -> Labels]
         /\ reply' \in [Requests -> Replies]
         /\ order' \in [Requests -> Requests \cup {NoOrder}]
<1>1. \A q \in payments : q.orderId \in Requests \cup {NoOrder}
  BY DEF TypeOK, VarsOK, Payment
<1>2. pc' \in [Requests -> Labels]
  BY DEF FindPrior, TypeOK, VarsOK, Goto, Answer, Labels
<1>3. reply' \in [Requests -> Replies]
  BY DEF FindPrior, TypeOK, VarsOK, Goto, Answer, Replies
<1>4. order' \in [Requests -> Requests \cup {NoOrder}]
  BY <1>1 DEF FindPrior, TypeOK, VarsOK
<1> QED BY <1>2, <1>3, <1>4

\* Storing the payment keeps the types of what it sets (order.service.ts:88-108).
LEMMA CreatePaymentType ==
  ASSUME TypeOK, NEW r \in Requests, CreatePayment(r)
  PROVE  /\ pc' \in [Requests -> Labels]
         /\ reply' \in [Requests -> Replies]
<1>1. pc' \in [Requests -> Labels]
  BY DEF CreatePayment, TypeOK, VarsOK, Goto, Abort, Labels
<1>2. reply' \in [Requests -> Replies]
  <2>1. \/ reply' = reply
        \/ \E code \in {402, 500} : reply' = [reply EXCEPT ![r] = code]
    BY DEF CreatePayment, Goto, Abort
  <2>2. reply \in [Requests -> Replies] BY DEF TypeOK, VarsOK
  <2> QED BY <2>1, <2>2 DEF Replies
<1> QED BY <1>1, <1>2

\* Types after a step of a handler.
LEMMA TypeHandler ==
  ASSUME TypeOK, NEW r \in Requests, HandlerStep(r)
  PROVE  VarsOK' /\ AtLine(r)'
<1> USE DEF catalogueVars, locals, database, bounds, Labels, Replies, Goto, Answer
<1>0. VarsOK /\ AtLine(r) /\ items[r] \in Seq(Item) BY DEF TypeOK, VarsOK
<1>1. CASE FindPrior(r)
  <2>1. /\ pc' \in [Requests -> Labels] /\ reply' \in [Requests -> Replies]
        /\ order' \in [Requests -> Requests \cup {NoOrder}]
    BY <1>1, FindPriorType
  <2>2. VarsOK' BY <1>0, <1>1, <2>1 DEF FindPrior, VarsOK, CatalogueTypeOK
  <2>3. items[r] = <<>> BY <1>0, <1>1 DEF FindPrior, AtLine
  <2>4. job[r] \in Jobs BY <1>0, <1>1 DEF FindPrior, AtLine
  <2>8. CheckoutDTO(job[r]) BY <2>4, CheckoutAssumption
  <2>10. Len(job[r].cart) \in 1..50 BY <2>8 DEF CheckoutDTO
  <2>11. \A n \in 1..50 : n > 0 OBVIOUS
  <2>5. Len(job[r].cart) > 0 BY <2>10, <2>11
  <2>6. AtLine(r)' BY <1>0, <1>1, <2>3, <2>4, <2>5 DEF FindPrior, AtLine, VarsOK
  <2> QED BY <2>2, <2>6
<1>2. CASE Replay(r)
  BY <1>0, <1>2 DEF Replay, VarsOK, AtLine, CatalogueTypeOK
<1>3. CASE ReadProduct(r)
  <2>1. NextLine(r).product \in Products
    BY <1>3, NextLineType DEF ReadProduct, Line
  <2>2. product[NextLine(r).product].price \in Nat
    BY <1>0, <2>1 DEF VarsOK, CatalogueTypeOK, Row
  <2>3. CASE Goto(r, "reserve") /\ price' = [price EXCEPT ![r] = product[NextLine(r).product].price]
    BY <1>0, <1>3, <2>2, <2>3 DEF ReadProduct, VarsOK, AtLine, CatalogueTypeOK
  <2>4. CASE Abort(r, 404, items[r]) /\ UNCHANGED price
    <3>1. /\ pc' \in [Requests -> Labels] /\ reply' \in [Requests -> Replies]
          /\ pc'[r] \in {"rollback", "done"}
          /\ pc'[r] = "rollback" => undone[r] < Len(items[r])
          /\ job[r] \in Jobs
      BY <1>0, <1>3, <2>4, AbortType DEF ReadProduct
    <3> QED BY <1>0, <1>3, <2>4, <3>1 DEF ReadProduct, VarsOK, AtLine, CatalogueTypeOK
  <2> QED BY <1>3, <2>3, <2>4 DEF ReadProduct
<1>4. CASE OutOfStock(r)
  <2>1. /\ pc' \in [Requests -> Labels] /\ reply' \in [Requests -> Replies]
        /\ pc'[r] \in {"rollback", "done"}
        /\ pc'[r] = "rollback" => undone[r] < Len(items[r])
        /\ job[r] \in Jobs
    BY <1>0, <1>4, AbortType DEF OutOfStock
  <2> QED BY <1>0, <1>4, <2>1 DEF OutOfStock, VarsOK, AtLine, CatalogueTypeOK
<1>5. ASSUME PushLine(r)
      PROVE  /\ product' \in [Products -> Row] /\ UNCHANGED <<supplied, edits>>
             /\ items' \in [Requests -> Seq(Item)] /\ total' \in [Requests -> Nat]
             /\ items'[r] = Bought(r) /\ total'[r] = Sum(r)
             /\ Len(Bought(r)) = Len(items[r]) + 1 /\ Bought(r) # <<>>
             /\ Bought(r) \in Seq(Item) /\ Sum(r) \in Nat
             /\ job[r] \in Jobs /\ Len(job[r].cart) \in Nat
             /\ Len(items[r]) < Len(job[r].cart)
             /\ undone[r] = 0 /\ pc[r] = "reserve"
             /\ UNCHANGED <<job, price, undone, order, database, bounds>>
  <2>1. pc[r] = "reserve" BY <1>5 DEF PushLine
  <2>2. product' \in [Products -> Row] BY <1>5, <2>1, TakeLineType DEF PushLine
  <2>3. /\ Bought(r) \in Seq(Item) /\ Sum(r) \in Nat
        /\ Len(Bought(r)) = Len(items[r]) + 1
    BY <2>1, BoughtType
  <2>4. Bought(r) # <<>> BY <1>0, <2>3
  <2>5. job[r] \in Jobs /\ undone[r] = 0 /\ Len(items[r]) < Len(job[r].cart)
    BY <1>0, <2>1 DEF AtLine
  <2>6. Len(job[r].cart) \in Nat BY <2>5, CheckoutAssumption DEF CheckoutDTO
  <2>7. /\ items' \in [Requests -> Seq(Item)] /\ total' \in [Requests -> Nat]
        /\ items'[r] = Bought(r) /\ total'[r] = Sum(r)
    BY <1>0, <1>5, <2>3 DEF PushLine, VarsOK
  <2> QED BY <1>5, <2>1, <2>2, <2>3, <2>4, <2>5, <2>6, <2>7 DEF PushLine
<1>6. CASE ReserveLine(r)
  <2>1. Len(items[r]) + 1 # Len(job[r].cart) BY <1>6 DEF ReserveLine, IsLastLine
  <2>2. VarsOK'
    BY <1>0, <1>5, <1>6 DEF ReserveLine, VarsOK, CatalogueTypeOK
  <2>3. Len(items[r]) \in Nat BY <1>0
  <2>4. AtLine(r)'
    BY <1>0, <1>5, <1>6, <2>1, <2>3 DEF ReserveLine, VarsOK, AtLine
  <2> QED BY <2>2, <2>4
<1>7. CASE ReserveLastAndCharge(r)
  <2>1. Sum(r) > 0 /\ job[r].card # "malformed"
    BY <1>7 DEF ReserveLastAndCharge, Chargeable
  <2>2. VarsOK'
    BY <1>0, <1>5, <1>7 DEF ReserveLastAndCharge, VarsOK, CatalogueTypeOK
  <2>3. AtLine(r)'
    BY <1>0, <1>5, <1>7, <2>1 DEF ReserveLastAndCharge, VarsOK, AtLine
  <2> QED BY <2>2, <2>3
<1>8. CASE ChargeRejected(r)
  <2>0. PushLine(r) /\ Abort(r, 400, Bought(r)) /\ UNCHANGED captured
    BY <1>8 DEF ChargeRejected
  <2>1. /\ pc' \in [Requests -> Labels] /\ reply' \in [Requests -> Replies]
        /\ pc'[r] \in {"rollback", "done"}
        /\ pc'[r] = "rollback" => undone[r] < Len(Bought(r))
    <3>1. Bought(r) \in Seq(Item) /\ pc[r] = "reserve" BY <1>5, <2>0
    <3> QED BY <2>0, <3>1, AbortType
  <2>2. VarsOK' BY <1>0, <1>5, <2>0, <2>1 DEF VarsOK, CatalogueTypeOK
  <2>3. AtLine(r)' BY <1>5, <2>0, <2>1 DEF AtLine
  <2> QED BY <2>2, <2>3
<1>9. CASE CreatePayment(r)
  <2>0. pc[r] = "pay" BY <1>9 DEF CreatePayment
  <2>1. payments' \subseteq Payment
    BY <1>0, <1>9, PaymentType DEF CreatePayment, VarsOK
  <2>2. \A code \in Replies : Abort(r, code, items[r]) =>
          /\ pc' \in [Requests -> Labels] /\ reply' \in [Requests -> Replies]
          /\ pc'[r] \in {"rollback", "done"}
          /\ pc'[r] = "rollback" => undone[r] < Len(items[r])
    BY <1>0, <2>0, AbortType
  <2>9. pc' \in [Requests -> Labels] /\ reply' \in [Requests -> Replies]
    BY <1>9, CreatePaymentType
  <2>3. VarsOK'
    BY <1>0, <1>9, <2>1, <2>9 DEF CreatePayment, VarsOK, CatalogueTypeOK
  <2>4. AtLine(r)'
    BY <1>0, <1>9, <2>0, <2>2 DEF CreatePayment, VarsOK, AtLine
  <2> QED BY <2>3, <2>4
<1>10. CASE CreateOrder(r)
  <2>1. VarsOK'
    BY <1>0, <1>10, OrderType DEF CreateOrder, VarsOK, CatalogueTypeOK
  <2>2. AtLine(r)' BY <1>0, <1>10 DEF CreateOrder, VarsOK, AtLine
  <2> QED BY <2>1, <2>2
<1>11. CASE AttachOrder(r)
  <2>1. VarsOK'
    BY <1>0, <1>11, PaymentType DEF AttachOrder, VarsOK, CatalogueTypeOK
  <2>2. AtLine(r)' BY <1>0, <1>11 DEF AttachOrder, VarsOK, AtLine
  <2> QED BY <2>1, <2>2
<1>12. CASE Rollback(r)
  <2>1. VarsOK'
    BY <1>0, <1>12, RestoreLineType DEF Rollback, VarsOK, CatalogueTypeOK
  <2>2. undone[r] \in Nat /\ Len(items[r]) \in Nat BY <1>0 DEF VarsOK
  <2>3. AtLine(r)' BY <1>0, <1>12, <2>2 DEF Rollback, VarsOK, AtLine
  <2> QED BY <2>1, <2>3
<1> QED
  BY <1>1, <1>2, <1>3, <1>4, <1>6, <1>7, <1>8, <1>9, <1>10, <1>11, <1>12
     DEF HandlerStep

\* Types after a failing call.
LEMMA TypeFault ==
  ASSUME TypeOK, NEW r \in Requests, Fault(r)
  PROVE  VarsOK' /\ AtLine(r)'
<1> USE CheckoutAssumption
    DEF locals, database, Labels, Replies, Answer, CountFault
<1>0. VarsOK /\ AtLine(r) /\ items[r] \in Seq(Item) BY DEF TypeOK, VarsOK
<1>1. CASE LookupFails(r)
  BY <1>0, <1>1 DEF LookupFails, VarsOK, AtLine, CatalogueTypeOK
<1>2. CASE RollbackFails(r)
  <2>1. product' \in [Products -> Row]
    BY <1>0, <1>2, RestoreLineType DEF RollbackFails, VarsOK, CatalogueTypeOK
  <2> QED BY <1>0, <1>2, <2>1 DEF RollbackFails, VarsOK, AtLine, CatalogueTypeOK
<1>3. CASE LineFails(r) \/ PaymentFails(r) \/ OrderFails(r) \/ AttachFails(r)
  <2>1. /\ pc[r] \in {"read", "reserve", "pay", "order", "attach"}
        /\ Abort(r, 500, items[r])
        /\ CountFault
    BY <1>3 DEF LineFails, PaymentFails, OrderFails, AttachFails
  <2>2. /\ pc' \in [Requests -> Labels] /\ reply' \in [Requests -> Replies]
        /\ pc'[r] \in {"rollback", "done"}
        /\ pc'[r] = "rollback" => undone[r] < Len(items[r])
        /\ job[r] \in Jobs
    BY <1>0, <2>1, AbortType
  <2>3. product' \in [Products -> Row]
    BY <1>0, <1>3, TakeLineType
       DEF LineFails, PaymentFails, OrderFails, AttachFails, VarsOK, CatalogueTypeOK
  <2>4. payments' \subseteq Payment
    BY <1>0, <1>3, PaymentType
       DEF LineFails, PaymentFails, OrderFails, AttachFails, VarsOK
  <2>5. orders' \subseteq Order
    BY <1>0, <1>3, OrderType
       DEF LineFails, PaymentFails, OrderFails, AttachFails, VarsOK
  <2>6. VarsOK'
    BY <1>0, <2>1, <2>2, <2>3, <2>4, <2>5 DEF VarsOK, CatalogueTypeOK
  <2>7. AtLine(r)' BY <2>1, <2>2 DEF AtLine
  <2> QED BY <2>6, <2>7
<1> QED
  BY <1>1, <1>2, <1>3 DEF Fault

\* Types after an edit of the catalogue.
LEMMA TypeAdmin ==
  ASSUME TypeOK, Admin
  PROVE  TypeOK'
<1>1. PICK p \in Products, row \in Row : Edit(p, row)
  <2>1. PICK p \in Products : CreateProduct(p) \/ UpdateProduct(p) \/ RemoveProduct(p)
    BY DEF Admin, AdminNext
  <2>2. product[p] \in Row BY DEF TypeOK, VarsOK, CatalogueTypeOK
  <2>3. CASE CreateProduct(p)
    BY <2>3, CatalogueAssumption DEF CreateProduct, Row
  <2>4. CASE UpdateProduct(p)
    BY <2>2, <2>4, CatalogueAssumption DEF UpdateProduct, Row
  <2>5. CASE RemoveProduct(p)
    BY <2>5 DEF RemoveProduct, Row
  <2> QED BY <2>1, <2>3, <2>4, <2>5
<1>2. product' \in [Products -> Row]
  BY <1>1 DEF Edit, TypeOK, VarsOK, CatalogueTypeOK
<1>3. supplied' \in [Products -> Int]
  <2>1. product[p].stock \in Int /\ row.stock \in Int
    BY DEF TypeOK, VarsOK, CatalogueTypeOK, Row
  <2> QED BY <1>1, <2>1 DEF Edit, TypeOK, VarsOK, CatalogueTypeOK
<1>4. edits' \in Nat
  BY <1>1 DEF Edit, TypeOK, VarsOK, CatalogueTypeOK
<1> QED
  BY <1>2, <1>3, <1>4 DEF Admin, TypeOK, VarsOK, AtLine, CatalogueTypeOK, locals, database, bounds

\* Types after any step.
LEMMA TypeStep ==
  ASSUME TypeOK, [Next]_vars
  PROVE  TypeOK'
<1>1. ASSUME NEW r \in Requests, NEW j \in Jobs, Arrive(r, j)
      PROVE  TypeOK'
  BY <1>1 DEF Arrive, Goto, TypeOK, VarsOK, AtLine, CatalogueTypeOK, catalogueVars, database,
              bounds, Labels
<1>2. CASE Crash
  BY <1>2, CheckoutAssumption
     DEF Crash, InFlight, TypeOK, VarsOK, AtLine, CatalogueTypeOK, catalogueVars, locals,
         database, Labels
<1>3. CASE UNCHANGED vars
  BY <1>3 DEF vars, TypeOK, VarsOK, AtLine, CatalogueTypeOK, catalogueVars, locals, database, bounds
<1>4. ASSUME NEW r \in Requests, HandlerStep(r) \/ Fault(r)
      PROVE  TypeOK'
  <2>1. VarsOK' /\ AtLine(r)' BY <1>4, TypeHandler, TypeFault
  <2>2. ASSUME NEW s \in Requests \ {r} PROVE AtLine(s)'
    <3>1. Untouched(s) BY <1>4, HandlerFrame, FaultFrame DEF TypeOK
    <3> QED BY <3>1, UntouchedAtLine DEF TypeOK
  <2> QED BY <2>1, <2>2 DEF TypeOK
<1> QED
  BY <1>1, <1>2, <1>3, <1>4, TypeAdmin DEF Next, Environment

\* Every variable keeps its type, and a handler that is at a line of its cart or
\* of its rollback has that line, whatever fails (order.service.ts:52-136).
THEOREM TypeCorrect == Spec => []TypeOK
BY TypeInit, TypeStep, PTL DEF Spec

----------------------------------------------------------------------------
(* Stock.                                                                  *)

\* Only a matching decrement takes stock.
LEMMA StockStep ==
  ASSUME TypeOK, StockNeverNegative, [Next]_vars
  PROVE  StockNeverNegative'
<1>1. ASSUME NEW p \in Products, NEW qty \in Int, DecrementStock(p, qty)
      PROVE  StockNeverNegative'
  <2>1. product[p].stock \in Int BY DEF TypeOK, VarsOK, CatalogueTypeOK, Row
  <2> QED
    BY <1>1, <2>1
       DEF DecrementStock, Matches, StockNeverNegative, TypeOK, VarsOK, CatalogueTypeOK, Row
<1>2. ASSUME NEW r \in Requests, pc[r] = "reserve", TakeLine(r)
      PROVE  StockNeverNegative'
  <2>1. NextLine(r).product \in Products /\ NextLine(r).quantity \in Int
    BY <1>2, NextLineType DEF Line
  <2> QED BY <1>1, <1>2, <2>1 DEF TakeLine
<1>3. ASSUME NEW r \in Requests, pc[r] = "rollback", RestoreLine(r)
      PROVE  StockNeverNegative'
  <2> DEFINE d == items[r][undone[r] + 1]
  <2>1. undone[r] + 1 \in 1..Len(items[r]) /\ items[r] \in Seq(Item)
    BY <1>3 DEF TypeOK, VarsOK, AtLine
  <2>2. d \in Item BY <2>1
  <2>3. d.product \in Products /\ -d.quantity \in Int BY <2>2 DEF Item
  <2>4. DecrementStock(d.product, -d.quantity) BY <1>3 DEF RestoreLine
  <2> QED BY <1>1, <2>3, <2>4
<1>4. CASE UNCHANGED product
  BY <1>4 DEF StockNeverNegative
<1>5. ASSUME NEW r \in Requests, HandlerStep(r) \/ Fault(r)
      PROVE  \/ UNCHANGED product
             \/ pc[r] = "reserve" /\ TakeLine(r)
             \/ pc[r] = "rollback" /\ RestoreLine(r)
  <2>1. CASE HandlerStep(r)
    BY <2>1
       DEF HandlerStep, FindPrior, Replay, ReadProduct, OutOfStock, ReserveLine,
           ReserveLastAndCharge, ChargeRejected, PushLine, CreatePayment,
           CreateOrder, AttachOrder, Rollback, catalogueVars
  <2>2. CASE Fault(r)
    BY <2>2 DEF Fault, LookupFails, LineFails, PaymentFails, OrderFails,
                AttachFails, RollbackFails
  <2> QED BY <1>5, <2>1, <2>2
<1>6. CASE Admin
  <2>1. PICK p \in Products : CreateProduct(p) \/ UpdateProduct(p) \/ RemoveProduct(p)
    BY <1>6 DEF Admin, AdminNext
  <2>2. \A n \in StockLevels : n >= 0 BY CatalogueAssumption
  <2>3. PICK row : Edit(p, row) /\ row.stock >= 0
    <3>1. CASE CreateProduct(p) BY <2>2, <3>1 DEF CreateProduct
    <3>2. CASE UpdateProduct(p)
      <4>1. product[p].stock >= 0 BY DEF StockNeverNegative
      <4> QED BY <2>2, <3>2, <4>1 DEF UpdateProduct
    <3>3. CASE RemoveProduct(p) BY <3>3 DEF RemoveProduct
    <3> QED BY <2>1, <3>1, <3>2, <3>3
  <2> QED BY <2>3 DEF Edit, StockNeverNegative, TypeOK, VarsOK, CatalogueTypeOK
<1>7. (\E r \in Requests, j \in Jobs : Arrive(r, j)) \/ Crash \/ UNCHANGED vars
        => UNCHANGED product
  BY DEF Arrive, Crash, vars, catalogueVars
<1> QED
  BY <1>2, <1>3, <1>4, <1>5, <1>6, <1>7 DEF Next, Environment

\* No stock level is ever negative, whatever fails and whatever the admins do
\* meanwhile (product.repository.ts:29-35; README, item 9).
THEOREM StockTheorem == Spec => []StockNeverNegative
<1>1. Init => StockNeverNegative
  BY CatalogueAssumption DEF Init, CatalogueInit, StockNeverNegative
<1>2. TypeOK /\ StockNeverNegative /\ [Next]_vars => StockNeverNegative'
  BY StockStep
<1> QED BY <1>1, <1>2, TypeCorrect, PTL DEF Spec

----------------------------------------------------------------------------
(* What a step of a handler writes, and where it leaves the handler.       *)

\* Which step writes what, and where it leaves the handler.
LEMMA StepEffect ==
  ASSUME TypeOK, NEW r \in Requests, HandlerStep(r) \/ Fault(r)
  PROVE  /\ \/ payments' = payments
            \/ /\ pc[r] = "pay" /\ pc'[r] \in {"order", "rollback", "done"}
               /\ KeyIsFree(job[r].key) /\ StorePayment(r) /\ orders' = orders
            \/ /\ pc[r] = "attach" /\ pc'[r] \in {"rollback", "done"}
               /\ LinkOrder(r) /\ orders' = orders
         /\ \/ orders' = orders
            \/ /\ pc[r] = "order" /\ pc'[r] \in {"attach", "rollback", "done"}
               /\ StoreOrder(r) /\ payments' = payments
         /\ job' = job /\ captured \subseteq captured'
         /\ pc[r] # "reserve" => items'[r] = items[r] /\ total'[r] = total[r]
         /\ pc[r] = "order" => pc'[r] \in {"attach", "rollback", "done"}
         /\ pc[r] \in {"attach", "rollback", "done", "dead"} => pc'[r] \in {"rollback", "done"}
<1> USE DEF TypeOK, VarsOK, catalogueVars, locals, database, bounds, Goto, Answer, Abort,
            CountFault
<1>1. CASE FindPrior(r) BY <1>1 DEF FindPrior
<1>2. CASE Replay(r) BY <1>2 DEF Replay
<1>3. CASE ReadProduct(r) BY <1>3 DEF ReadProduct
<1>4. CASE OutOfStock(r) BY <1>4 DEF OutOfStock
<1>5. CASE ReserveLine(r) BY <1>5 DEF ReserveLine, PushLine
<1>6. CASE ReserveLastAndCharge(r) BY <1>6 DEF ReserveLastAndCharge, PushLine
<1>7. CASE ChargeRejected(r) BY <1>7 DEF ChargeRejected, PushLine
<1>8. CASE CreatePayment(r) BY <1>8 DEF CreatePayment
<1>9. CASE CreateOrder(r) BY <1>9 DEF CreateOrder
<1>10. CASE AttachOrder(r) BY <1>10 DEF AttachOrder
<1>11. CASE Rollback(r) BY <1>11 DEF Rollback
<1>12. CASE LookupFails(r) BY <1>12 DEF LookupFails
<1>13. CASE LineFails(r) BY <1>13 DEF LineFails
<1>14. CASE PaymentFails(r) BY <1>14 DEF PaymentFails
<1>15. CASE OrderFails(r) BY <1>15 DEF OrderFails
<1>16. CASE AttachFails(r) BY <1>16 DEF AttachFails
<1>17. CASE RollbackFails(r) BY <1>17 DEF RollbackFails
<1> QED
  BY <1>1, <1>2, <1>3, <1>4, <1>5, <1>6, <1>7, <1>8, <1>9, <1>10, <1>11,
     <1>12, <1>13, <1>14, <1>15, <1>16, <1>17
     DEF HandlerStep, Fault

Step(r) == HandlerStep(r) \/ Fault(r)

\* Every stored payment keeps its owner, its decision and any link it has, and a
\* new one is the payment of the stepping handler (order.service.ts:88, 122).
LEMMA PaymentEffect ==
  ASSUME IInv, NEW r \in Requests, Step(r)
  PROVE  /\ \A q \in payments : \E n \in payments' :
              /\ n.id = q.id /\ n.key = q.key /\ n.status = q.status
              /\ q.orderId # NoOrder => n.orderId = q.orderId
         /\ \A n \in payments' :
              \/ \E q \in payments :
                   /\ n.id = q.id /\ n.key = q.key /\ n.status = q.status
                   /\ n.amount = q.amount
                   /\ n.orderId # q.orderId =>
                        pc[r] = "attach" /\ q.id = r /\ n.orderId = order[r]
              \/ /\ pc[r] = "pay" /\ pc'[r] \in {"order", "rollback", "done"}
                 /\ n.id = r /\ n.key = job[r].key /\ n.status = job[r].card
                 /\ n.amount = total[r] /\ n.orderId = NoOrder
                 /\ KeyIsFree(job[r].key)
         /\ orders \subseteq orders'
<1>0. TypeOK /\ payments \subseteq Payment /\ (HandlerStep(r) \/ Fault(r))
  BY DEF IInv, TypeOK, VarsOK, Step
<1>1. CASE payments' = payments
  BY <1>0, <1>1, StepEffect DEF IInv, Step, StoreOrder
<1>2. CASE pc[r] = "pay" /\ pc'[r] \in {"order", "rollback", "done"}
           /\ KeyIsFree(job[r].key) /\ StorePayment(r) /\ orders' = orders
  BY <1>2 DEF StorePayment
<1>3. CASE pc[r] = "attach" /\ LinkOrder(r) /\ orders' = orders
  <2>1. order[r] = r BY <1>3 DEF IInv, HandlerKnows, Knows
  <2>2. \A q \in payments :
          /\ q.id = r => [q EXCEPT !.orderId = order[r]] \in payments'
          /\ q.id # r => q \in payments'
    BY <1>3 DEF LinkOrder
  <2>3. \A q \in payments :
          LET n == [q EXCEPT !.orderId = order[r]]
          IN  /\ n.id = q.id /\ n.key = q.key /\ n.status = q.status
              /\ n.amount = q.amount /\ n.orderId = order[r]
    BY <1>0 DEF Payment
  <2>4. \A q \in payments : q.orderId # NoOrder /\ q.id = r => q.orderId = order[r]
    BY <2>1 DEF IInv, LinksAreReal
  <2>5. \A q \in payments : \E n \in payments' :
          /\ n.id = q.id /\ n.key = q.key /\ n.status = q.status
          /\ q.orderId # NoOrder => n.orderId = q.orderId
    BY <2>2, <2>3, <2>4
  <2>6. \A n \in payments' : \E q \in payments :
          n = IF q.id = r THEN [q EXCEPT !.orderId = order[r]] ELSE q
    BY <1>3 DEF LinkOrder
  <2>7. \A n \in payments' : \E q \in payments :
          /\ n.id = q.id /\ n.key = q.key /\ n.status = q.status
          /\ n.amount = q.amount
          /\ n.orderId # q.orderId => q.id = r /\ n.orderId = order[r]
    BY <2>3, <2>6
  <2> QED BY <1>3, <2>5, <2>7
<1> QED BY <1>0, <1>1, <1>2, <1>3, StepEffect

\* A payment stays with its handler.
LEMMA PaymentOwnerStep ==
  ASSUME IInv, NEW r \in Requests, Step(r)
  PROVE  PaymentOwner'
<1>0. TypeOK /\ payments \subseteq Payment
  BY DEF IInv, TypeOK, VarsOK
<1>1. \A s \in Requests \ {r} : Untouched(s)
  BY <1>0, HandlerFrame, FaultFrame DEF Step, TypeOK
<1>2. job' = job /\ captured \subseteq captured'
  BY <1>0, StepEffect DEF Step
<1>3. ASSUME NEW n \in payments', NEW q \in payments,
             n.id = q.id, n.key = q.key, n.status = q.status, n.amount = q.amount
      PROVE  /\ n.key = job'[n.id].key /\ n.amount = total'[n.id]
             /\ pc'[n.id] \in {"order", "attach", "rollback", "done", "dead"}
             /\ n.status = "approved" => n.id \in captured'
  <2>1. /\ q.key = job[q.id].key /\ q.amount = total[q.id]
        /\ pc[q.id] \in {"order", "attach", "rollback", "done", "dead"}
        /\ q.status = "approved" => q.id \in captured
        /\ q.id \in Requests
    BY <1>0 DEF IInv, PaymentOwner, Payment
  <2>2. CASE q.id = r
    BY <1>0, <1>2, <1>3, <2>1, <2>2, StepEffect DEF Step
  <2>3. CASE q.id # r
    BY <1>1, <1>2, <1>3, <2>1, <2>3 DEF Untouched
  <2> QED BY <2>2, <2>3
<1>4. ASSUME NEW n \in payments', pc[r] = "pay",
             pc'[r] \in {"order", "rollback", "done"}, n.id = r,
             n.key = job[r].key, n.status = job[r].card, n.amount = total[r]
      PROVE  /\ n.key = job'[n.id].key /\ n.amount = total'[n.id]
             /\ pc'[n.id] \in {"order", "attach", "rollback", "done", "dead"}
             /\ n.status = "approved" => n.id \in captured'
  <2>1. job[r].card = "approved" => r \in captured
    BY <1>4 DEF IInv, HandlerKnows, Knows
  <2>2. total'[r] = total[r] BY <1>0, <1>4, StepEffect DEF Step
  <2> QED BY <1>2, <1>4, <2>1, <2>2
<1> QED BY <1>3, <1>4, PaymentEffect DEF PaymentOwner

\* The index keeps keys unique.
LEMMA KeysStep ==
  ASSUME IInv, NEW r \in Requests, Step(r)
  PROVE  KeysAreUnique'
<1>0. TypeOK /\ payments \subseteq Payment
  BY DEF IInv, TypeOK, VarsOK
<1>1. CASE payments' = payments
  BY <1>1 DEF IInv, KeysAreUnique
<1>2. CASE KeyIsFree(job[r].key) /\ StorePayment(r)
  BY <1>2 DEF IInv, KeysAreUnique, KeyIsFree, StorePayment
<1>3. CASE LinkOrder(r)
  <2>1. \A q \in payments : [q EXCEPT !.orderId = order[r]].key = q.key
    BY <1>0 DEF Payment
  <2>2. \A n \in payments' : \E q \in payments :
          n = (IF q.id = r THEN [q EXCEPT !.orderId = order[r]] ELSE q) /\ n.key = q.key
    BY <1>3, <2>1 DEF LinkOrder
  <2> QED BY <2>2 DEF IInv, KeysAreUnique
<1> QED BY <1>0, <1>1, <1>2, <1>3, StepEffect DEF Step

\* An order stays with its handler and its payment.
LEMMA OrderOwnerStep ==
  ASSUME IInv, NEW r \in Requests, Step(r)
  PROVE  OrderOwner'
<1>0. TypeOK /\ orders \subseteq Order
  BY DEF IInv, TypeOK, VarsOK
<1>1. \A s \in Requests \ {r} : Untouched(s)
  BY <1>0, HandlerFrame, FaultFrame DEF Step, TypeOK
<1>2. ASSUME NEW o \in orders
      PROVE  /\ o.items = items'[o.id] /\ o.total = total'[o.id]
             /\ pc'[o.id] \in {"attach", "rollback", "done", "dead"}
             /\ \E q \in payments' : q.id = o.id /\ q.status = "approved"
  <2>1. /\ o.items = items[o.id] /\ o.total = total[o.id]
        /\ pc[o.id] \in {"attach", "rollback", "done", "dead"}
        /\ \E q \in payments : q.id = o.id /\ q.status = "approved"
        /\ o.id \in Requests
    BY <1>0 DEF IInv, OrderOwner, Order
  <2>2. \E q \in payments' : q.id = o.id /\ q.status = "approved"
    BY <2>1, PaymentEffect
  <2>3. CASE o.id = r
    BY <1>0, <2>1, <2>2, <2>3, StepEffect DEF Step
  <2>4. CASE o.id # r
    BY <1>1, <2>1, <2>2, <2>4 DEF Untouched
  <2> QED BY <2>3, <2>4
<1>3. CASE orders' = orders
  BY <1>2, <1>3 DEF OrderOwner
<1>4. CASE pc[r] = "order" /\ pc'[r] \in {"attach", "rollback", "done"} /\ StoreOrder(r)
  <2>1. items'[r] = items[r] /\ total'[r] = total[r]
    BY <1>0, <1>4, StepEffect DEF Step
  <2>2. \E q \in payments' : q.id = r /\ q.status = "approved"
    BY <1>4, PaymentEffect DEF IInv, HandlerKnows, Knows
  <2>3. orders' = orders \cup {[id |-> r, items |-> items[r], total |-> total[r]]}
    BY <1>4 DEF StoreOrder
  <2> QED BY <1>2, <1>4, <2>1, <2>2, <2>3 DEF OrderOwner
<1> QED BY <1>0, <1>3, <1>4, StepEffect DEF Step

\* A link refers to an order that exists.
LEMMA LinksStep ==
  ASSUME IInv, NEW r \in Requests, Step(r)
  PROVE  LinksAreReal'
<1>1. orders \subseteq orders' BY PaymentEffect
<1>2. pc[r] = "attach" => order[r] = r /\ \E o \in orders : o.id = r
  BY DEF IInv, HandlerKnows, Knows
<1>3. \A q \in payments :
        q.orderId # NoOrder => q.orderId = q.id /\ \E o \in orders : o.id = q.id
  BY DEF IInv, LinksAreReal
<1>4. \A n \in payments' :
        n.orderId # NoOrder => n.orderId = n.id /\ \E o \in orders : o.id = n.id
  BY <1>2, <1>3, PaymentEffect
<1> QED BY <1>1, <1>4 DEF LinksAreReal

\* What the other handlers know is not disturbed by a step of r.
LEMMA KnowsOther ==
  ASSUME IInv, NEW r \in Requests, Step(r), NEW s \in Requests \ {r}
  PROVE  Knows(s)'
<1>1. TypeOK /\ Knows(s) BY DEF IInv, HandlerKnows
<1>2. Untouched(s) BY <1>1, HandlerFrame, FaultFrame DEF Step, TypeOK
<1>3. captured \subseteq captured' /\ orders \subseteq orders'
  BY <1>1, StepEffect, PaymentEffect DEF Step
<1>4. \A q \in payments : \E n \in payments' :
        /\ n.id = q.id /\ n.key = q.key /\ n.status = q.status
        /\ q.orderId # NoOrder => n.orderId = q.orderId
  BY PaymentEffect
<1> QED BY <1>1, <1>2, <1>3, <1>4 DEF Knows, Untouched

\* A handler that has aborted, or failed, knows nothing more.
LEMMA KnowsAborted ==
  ASSUME VarsOK, NEW r \in Requests, NEW code \in Replies \ {0, 201},
         \/ \E held : Abort(r, code, held)
         \/ Answer(r, code)
  PROVE  Knows(r)'
<1>1. pc'[r] \in {"rollback", "done"} /\ reply'[r] = code
  BY DEF VarsOK, Abort, Answer
<1> QED BY <1>1 DEF Knows, Replies

\* What a handler knows after a failing call.
LEMMA KnowsFault ==
  ASSUME IInv, NEW r \in Requests, Fault(r)
  PROVE  Knows(r)'
<1>1. VarsOK BY DEF IInv, TypeOK
<1>2. (\E held : Abort(r, 500, held)) \/ Answer(r, 500)
  BY DEF Fault, LookupFails, LineFails, PaymentFails, OrderFails, AttachFails,
         RollbackFails
<1>3. 500 \in Replies \ {0, 201} BY DEF Replies
<1> QED BY <1>1, <1>2, <1>3, KnowsAborted

\* What a handler knows after a step of its own.
LEMMA KnowsHandler ==
  ASSUME IInv, NEW r \in Requests, HandlerStep(r)
  PROVE  Knows(r)'
<1>0. VarsOK /\ Knows(r) BY DEF IInv, TypeOK, HandlerKnows
<1>a. {400, 402, 404, 409, 500} \subseteq Replies \ {0, 201} BY DEF Replies
<1>1. CASE FindPrior(r)
  <2>1. CASE Answer(r, 409) BY <1>0, <1>a, <2>1, KnowsAborted
  <2>2. CASE Goto(r, "read") /\ UNCHANGED order
    BY <1>0, <1>1, <2>2 DEF FindPrior, Goto, VarsOK, Knows
  <2>3. CASE \E q \in payments :
               /\ q.key = job[r].key /\ q.orderId # NoOrder
               /\ Goto(r, "replay")
               /\ order' = [order EXCEPT ![r] = q.orderId]
    BY <1>0, <1>1, <2>3 DEF FindPrior, Goto, VarsOK, Knows, database
  <2> QED BY <1>1, <2>1, <2>2, <2>3 DEF FindPrior
<1>2. CASE Replay(r)
  BY <1>0, <1>2 DEF Replay, Answer, VarsOK, Knows, locals, database
<1>3. CASE ReadProduct(r)
  <2>1. CASE Abort(r, 404, items[r]) BY <1>0, <1>a, <2>1, KnowsAborted
  <2>2. CASE Goto(r, "reserve")
    BY <1>0, <1>3, <2>2 DEF ReadProduct, Goto, VarsOK, Knows
  <2> QED BY <1>3, <2>1, <2>2 DEF ReadProduct
<1>4. CASE OutOfStock(r)
  BY <1>0, <1>a, <1>4, KnowsAborted DEF OutOfStock
<1>5. CASE ReserveLine(r)
  BY <1>0, <1>5 DEF ReserveLine, PushLine, Goto, VarsOK, Knows
<1>6. CASE ReserveLastAndCharge(r)
  BY <1>0, <1>6 DEF ReserveLastAndCharge, PushLine, Goto, VarsOK, Knows
<1>7. CASE ChargeRejected(r)
  BY <1>0, <1>a, <1>7, KnowsAborted DEF ChargeRejected
<1>8. CASE CreatePayment(r)
  <2>1. CASE Abort(r, 500, items[r]) BY <1>0, <1>a, <2>1, KnowsAborted
  <2>2. CASE Abort(r, 402, items[r]) BY <1>0, <1>a, <2>2, KnowsAborted
  <2>3. CASE StorePayment(r) /\ job[r].card = "approved" /\ Goto(r, "order")
    <3>1. \E q \in payments' : q.id = r /\ q.status = "approved"
      <4> DEFINE doc == [id |-> r, key |-> job[r].key, status |-> job[r].card,
                         amount |-> total[r], orderId |-> NoOrder]
      <4>1. doc \in payments' BY <2>3 DEF StorePayment
      <4>2. doc.id = r /\ doc.status = "approved" BY <2>3
      <4> QED BY <4>1, <4>2
    <3> QED BY <1>0, <1>8, <2>3, <3>1 DEF CreatePayment, Goto, VarsOK, Knows, locals
  <2> QED BY <1>8, <2>1, <2>2, <2>3 DEF CreatePayment
<1>9. CASE CreateOrder(r)
  <2>1. \E o \in orders' : o.id = r
    <3> DEFINE doc == [id |-> r, items |-> items[r], total |-> total[r]]
    <3>1. doc \in orders' BY <1>9 DEF CreateOrder, StoreOrder
    <3>2. doc.id = r OBVIOUS
    <3> QED BY <3>1, <3>2
  <2> QED BY <1>0, <1>9, <2>1 DEF CreateOrder, Goto, VarsOK, Knows
<1>10. CASE AttachOrder(r)
  <2>1. PICK q \in payments : q.id = r
    BY <1>0, <1>10 DEF AttachOrder, Knows
  <2>2. [q EXCEPT !.orderId = order[r]] \in payments'
    BY <1>10, <2>1 DEF AttachOrder, LinkOrder
  <2>3. /\ [q EXCEPT !.orderId = order[r]].orderId = order[r]
        /\ [q EXCEPT !.orderId = order[r]].key = q.key
    BY <1>0 DEF VarsOK, Payment
  <2>4. q.key = job[r].key BY <2>1 DEF IInv, PaymentOwner
  <2>5. order[r] = r /\ r # NoOrder
    BY <1>0, <1>10, CheckoutAssumption DEF AttachOrder, Knows
  <2>6. \E n \in payments' : n.orderId = order[r] /\ order[r] # NoOrder /\ n.key = job[r].key
    BY <2>2, <2>3, <2>4, <2>5
  <2> QED BY <1>0, <1>10, <2>6 DEF AttachOrder, Answer, VarsOK, Knows, locals
<1>11. CASE Rollback(r)
  BY <1>0, <1>11 DEF Rollback, Goto, VarsOK, Knows
<1> QED
  BY <1>1, <1>2, <1>3, <1>4, <1>5, <1>6, <1>7, <1>8, <1>9, <1>10, <1>11
     DEF HandlerStep

----------------------------------------------------------------------------
(* The inductive invariant.                                                *)

\* The invariant at the start.
LEMMA InvInit == Init => IInv
<1> SUFFICES ASSUME Init PROVE IInv
  OBVIOUS
<1>1. TypeOK BY TypeInit
<1>2. StockNeverNegative
  BY CatalogueAssumption DEF Init, CatalogueInit, StockNeverNegative
<1>3. PaymentOwner /\ KeysAreUnique /\ OrderOwner /\ LinksAreReal
  BY DEF Init, PaymentOwner, KeysAreUnique, OrderOwner, LinksAreReal
<1>4. HandlerKnows BY DEF Init, HandlerKnows, Knows
<1> QED BY <1>1, <1>2, <1>3, <1>4 DEF IInv

\* The invariant after any step.
LEMMA InvStep ==
  ASSUME IInv, [Next]_vars
  PROVE  IInv'
<1>0. TypeOK' /\ StockNeverNegative' BY TypeStep, StockStep DEF IInv
<1>1. ASSUME NEW r \in Requests, Step(r)
      PROVE  IInv'
  <2>1. \A s \in Requests : Knows(s)'
    BY <1>1, KnowsOther, KnowsHandler, KnowsFault DEF Step
  <2> QED
    BY <1>0, <1>1, <2>1, PaymentOwnerStep, KeysStep, OrderOwnerStep, LinksStep
       DEF IInv, HandlerKnows
<1>2. ASSUME NEW r \in Requests, NEW j \in Jobs, Arrive(r, j)
      PROVE  IInv'
  <2>1. /\ payments \subseteq Payment /\ orders \subseteq Order
        /\ pc \in [Requests -> Labels] /\ job \in [Requests -> Jobs \cup {NoJob}]
        /\ reply \in [Requests -> Replies]
    BY DEF IInv, TypeOK, VarsOK
  <2>2. /\ pc[r] = "idle" /\ pc'[r] = "find"
        /\ UNCHANGED <<items, total, order, reply, payments, orders, captured>>
        /\ \A s \in Requests \ {r} : pc'[s] = pc[s] /\ job'[s] = job[s]
    BY <1>2, <2>1 DEF Arrive, Goto, database
  <2>3. \A q \in payments : q.id \in Requests \ {r}
    BY <2>1, <2>2 DEF IInv, PaymentOwner, Payment
  <2>4. \A o \in orders : o.id \in Requests \ {r}
    BY <2>1, <2>2 DEF IInv, OrderOwner, Order
  <2>5. PaymentOwner' /\ KeysAreUnique' /\ LinksAreReal'
    BY <2>2, <2>3 DEF IInv, PaymentOwner, KeysAreUnique, LinksAreReal
  <2>6. OrderOwner'
    BY <2>2, <2>4 DEF IInv, OrderOwner
  <2>7. HandlerKnows'
    BY <2>1, <2>2 DEF IInv, HandlerKnows, Knows
  <2> QED BY <1>0, <2>5, <2>6, <2>7 DEF IInv
<1>3. CASE Crash
  <2>1. /\ UNCHANGED <<job, items, total, order, reply, payments, orders, captured>>
        /\ \A s \in Requests : pc'[s] = pc[s] \/ pc'[s] = "dead"
    BY <1>3 DEF Crash, locals, database
  <2>2. /\ payments \subseteq Payment /\ orders \subseteq Order
    BY DEF IInv, TypeOK, VarsOK
  <2>3. PaymentOwner' /\ KeysAreUnique' /\ LinksAreReal'
    BY <2>1, <2>2 DEF IInv, PaymentOwner, KeysAreUnique, LinksAreReal, Payment
  <2>4. OrderOwner' BY <2>1, <2>2 DEF IInv, OrderOwner, Order
  <2>5. HandlerKnows' BY <2>1 DEF IInv, HandlerKnows, Knows
  <2> QED BY <1>0, <2>3, <2>4, <2>5 DEF IInv
<1>4. CASE Admin \/ UNCHANGED vars
  <2>1. UNCHANGED <<pc, job, items, total, order, reply, payments, orders, captured>>
    BY <1>4 DEF Admin, vars, locals, database
  <2> QED
    BY <1>0, <2>1
       DEF IInv, PaymentOwner, KeysAreUnique, OrderOwner, LinksAreReal,
           HandlerKnows, Knows
<1> QED BY <1>1, <1>2, <1>3, <1>4 DEF Next, Environment, Step

\* IInv is an invariant: payments and orders belong to the handlers that made
\* them, whatever fails (order.service.ts:35-145).
THEOREM Invariant == Spec => []IInv
BY InvInit, InvStep, PTL DEF Spec

\* Two orders of one key would be two payments of it.
LEMMA OneOrderHolds == IInv => OneOrderPerKey
<1> SUFFICES ASSUME IInv, NEW o1 \in orders, NEW o2 \in orders,
                    job[o1.id].key = job[o2.id].key
             PROVE  o1 = o2
  BY DEF OneOrderPerKey
<1>1. o1 \in Order /\ o2 \in Order BY DEF IInv, TypeOK, VarsOK
<1>2. PICK q1 \in payments : q1.id = o1.id BY DEF IInv, OrderOwner
<1>3. PICK q2 \in payments : q2.id = o2.id BY DEF IInv, OrderOwner
<1>4. q1.key = q2.key BY <1>2, <1>3 DEF IInv, PaymentOwner
<1>5. o1.id = o2.id BY <1>2, <1>3, <1>4 DEF IInv, KeysAreUnique
<1>6. o1.items = o2.items /\ o1.total = o2.total BY <1>5 DEF IInv, OrderOwner
<1> QED BY <1>1, <1>5, <1>6 DEF Order

\* At most one order is made for an idempotency key, for any number of requests
\* that carry it (order.service.ts:28-29 with payment.model.ts:31).
THEOREM OneOrder == Spec => []OneOrderPerKey
BY OneOrderHolds, Invariant, PTL

\* An order exists only under an approved payment of its total whose charge the
\* gateway captured (order.service.ts:82-121).
THEOREM PaidOrders == Spec => []OrdersArePaid
<1>1. IInv => OrdersArePaid
  BY DEF IInv, OrderOwner, PaymentOwner, OrdersArePaid
<1> QED BY <1>1, Invariant, PTL

\* A 201 answers with an existing order of the request's own key, fresh or
\* replayed (order.service.ts:39-43, 110-131).
THEOREM Success == Spec => []SuccessMeansOrder
<1>1. IInv => SuccessMeansOrder
  <2> SUFFICES ASSUME IInv, NEW r \in Requests, reply[r] = 201
               PROVE  /\ \E o \in orders : o.id = order[r]
                      /\ \E q \in payments : q.orderId = order[r] /\ q.key = job[r].key
    BY DEF SuccessMeansOrder
  <2>1. PICK q \in payments : q.orderId = order[r] /\ order[r] # NoOrder /\ q.key = job[r].key
    BY DEF IInv, HandlerKnows, Knows
  <2> QED BY <2>1 DEF IInv, LinksAreReal
<1> QED BY <1>1, Invariant, PTL

----------------------------------------------------------------------------
(* Every charge is recorded.                                               *)

\* A step that leaves a handler with a charged card at "pay" or past it: the
\* charge is made at the last line, and only a fault leaves "pay" without a
\* payment under the key (order.service.ts:80-98).
LEMMA ChargeEffect ==
  ASSUME TypeOK, NEW r \in Requests, Step(r)
  PROVE  /\ captured' \subseteq captured \cup {r}
         /\ r \in captured' \ captured => pc[r] = "reserve" /\ pc'[r] = "pay"
         /\ pc[r] \notin {"idle", "find", "replay", "read", "reserve"} =>
              pc'[r] \notin {"idle", "find", "replay", "read", "reserve"}
         /\ pc[r] = "pay" /\ faults' = 0 =>
              ~KeyIsFree(job[r].key) \/ StorePayment(r)
         /\ faults' = 0 => faults = 0 /\ pc[r] # "dead"
<1> USE DEF TypeOK, VarsOK, catalogueVars, locals, database, bounds, Goto, Answer, Abort,
            CountFault, CheckoutAssumption
<1>1. CASE FindPrior(r) BY <1>1 DEF FindPrior
<1>2. CASE Replay(r) BY <1>2 DEF Replay
<1>3. CASE ReadProduct(r) BY <1>3 DEF ReadProduct
<1>4. CASE OutOfStock(r) BY <1>4 DEF OutOfStock
<1>5. CASE ReserveLine(r) BY <1>5 DEF ReserveLine, PushLine
<1>6. CASE ReserveLastAndCharge(r) BY <1>6 DEF ReserveLastAndCharge, PushLine
<1>7. CASE ChargeRejected(r) BY <1>7 DEF ChargeRejected, PushLine
<1>8. CASE CreatePayment(r) BY <1>8 DEF CreatePayment
<1>9. CASE CreateOrder(r) BY <1>9 DEF CreateOrder
<1>10. CASE AttachOrder(r) BY <1>10 DEF AttachOrder
<1>11. CASE Rollback(r) BY <1>11 DEF Rollback
<1>12. CASE LookupFails(r) BY <1>12 DEF LookupFails
<1>13. CASE LineFails(r) BY <1>13 DEF LineFails
<1>14. CASE PaymentFails(r) BY <1>14 DEF PaymentFails
<1>15. CASE OrderFails(r) BY <1>15 DEF OrderFails
<1>16. CASE AttachFails(r) BY <1>16 DEF AttachFails
<1>17. CASE RollbackFails(r) BY <1>17 DEF RollbackFails
<1> QED
  BY <1>1, <1>2, <1>3, <1>4, <1>5, <1>6, <1>7, <1>8, <1>9, <1>10, <1>11,
     <1>12, <1>13, <1>14, <1>15, <1>16, <1>17
     DEF HandlerStep, Fault, Step

\* A charge stays recorded.
LEMMA ChargeStep ==
  ASSUME IInv, ChargeOwner, [Next]_vars
  PROVE  ChargeOwner'
<1>0. TypeOK /\ captured \subseteq Requests BY DEF IInv, TypeOK, VarsOK
<1>1. ASSUME NEW r \in Requests, Step(r)
      PROVE  ChargeOwner'
  <2>1. job' = job /\ \A s \in Requests \ {r} : pc'[s] = pc[s]
    BY <1>0, <1>1, StepEffect, HandlerFrame, FaultFrame DEF Step, TypeOK, Untouched
  <2>2. \A q \in payments : \E n \in payments' : n.key = q.key
    BY <1>1, PaymentEffect
  <2>3. pc[r] = "pay" /\ faults' = 0 => \E n \in payments' : n.key = job[r].key
    <3>1. StorePayment(r) => \E n \in payments' : n.key = job[r].key
      <4> DEFINE n == [id |-> r, key |-> job[r].key, status |-> job[r].card,
                       amount |-> total[r], orderId |-> NoOrder]
      <4>1. StorePayment(r) => n \in payments' BY DEF StorePayment
      <4>2. n.key = job[r].key OBVIOUS
      <4> QED BY <4>1, <4>2
    <3>2. ~KeyIsFree(job[r].key) => \E n \in payments' : n.key = job[r].key
      BY <2>2 DEF KeyIsFree
    <3> QED BY <1>0, <1>1, <3>1, <3>2, ChargeEffect
  <2>4. ASSUME NEW s \in captured'
        PROVE  /\ pc'[s] \notin {"idle", "find", "replay", "read", "reserve"}
               /\ faults' = 0 /\ pc'[s] \notin {"pay", "dead"} =>
                    \E n \in payments' : n.key = job'[s].key
    <3>1. CASE s \in captured' \ captured
      BY <1>0, <1>1, <3>1, ChargeEffect
    <3>2. CASE s \in captured
      BY <1>0, <1>1, <2>1, <2>2, <2>3, <3>2, ChargeEffect DEF ChargeOwner
    <3> QED BY <3>1, <3>2
  <2> QED BY <2>4 DEF ChargeOwner
<1>2. ASSUME NEW r \in Requests, NEW j \in Jobs, Arrive(r, j)
      PROVE  ChargeOwner'
  <2>1. \A s \in captured : s # r BY <1>2 DEF ChargeOwner, Arrive
  <2> QED
    BY <1>0, <1>2, <2>1
       DEF ChargeOwner, Arrive, Goto, database, bounds, TypeOK, VarsOK
<1>3. CASE Crash
  <2>1. /\ captured' = captured /\ payments' = payments /\ job' = job
        /\ faults' = faults
    BY <1>3 DEF Crash, locals, database
  <2>2. \A s \in Requests : pc'[s] = pc[s] \/ pc'[s] = "dead"
    BY <1>0, <1>3 DEF Crash, TypeOK, VarsOK
  <2> QED BY <1>0, <2>1, <2>2 DEF ChargeOwner
<1>4. CASE Admin \/ UNCHANGED vars
  <2>1. UNCHANGED <<pc, job, payments, captured, faults, crashes>>
    BY <1>4 DEF Admin, vars, locals, database, bounds
  <2> QED BY <2>1 DEF ChargeOwner
<1> QED BY <1>1, <1>2, <1>3, <1>4 DEF Next, Environment, Step

\* While no call fails, a charged request that was answered left a payment under
\* its key, whatever crashes: a refusal after the charge is on record too
\* (order.service.ts:80-98).
THEOREM Recorded == Spec => []ChargesAreRecorded
<1>1. Init => ChargeOwner BY DEF Init, ChargeOwner
<1>2. IInv /\ ChargeOwner /\ [Next]_vars => ChargeOwner' BY ChargeStep
<1>3. ChargeOwner => ChargesAreRecorded BY DEF ChargeOwner, ChargesAreRecorded
<1> QED BY <1>1, <1>2, <1>3, Invariant, PTL DEF Spec

----------------------------------------------------------------------------
(* A refusal leaves no trace.                                              *)

\* A handler of which the catch block has taken over, or that was refused, has made
\* no order and no approved payment, and what it reserved is put back in the end.
Clean(r) ==
  /\ pc[r] = "replay" => items[r] = <<>>
  /\ pc[r] = "rollback" \/ (pc[r] = "done" /\ reply[r] # 201) =>
       /\ \A o \in orders : o.id # r
       /\ \A q \in payments : q.id = r => q.status = "declined"
  /\ pc[r] = "done" /\ reply[r] # 201 => undone[r] = Len(items[r])

\* While no call fails, only a handler that has stored no approved payment aborts.
LEMMA RefusalEffect ==
  ASSUME IInv, NEW r \in Requests, Clean(r), HandlerStep(r)
  PROVE  /\ pc'[r] = "replay" => items'[r] = <<>>
         /\ pc'[r] = "rollback" \/ (pc'[r] = "done" /\ reply'[r] # 201) =>
              /\ pc[r] \notin {"idle", "order", "attach", "done", "dead"}
              /\ pc[r] = "pay" /\ payments' # payments => job[r].card = "declined"
         /\ pc'[r] = "done" /\ reply'[r] # 201 => undone'[r] = Len(items'[r])
<1>0. /\ VarsOK /\ AtLine(r) /\ Len(items[r]) \in Nat /\ items[r] \in Seq(Item)
      /\ Len(items[r]) = 0 => items[r] = <<>>
  BY DEF IInv, TypeOK, VarsOK
<1>1. CASE FindPrior(r)
  BY <1>0, <1>1 DEF FindPrior, Goto, Answer, AtLine, VarsOK
<1>2. CASE Replay(r)
  BY <1>0, <1>2 DEF Replay, Answer, AtLine, VarsOK, Clean, locals
<1>3. CASE ReadProduct(r)
  BY <1>0, <1>3 DEF ReadProduct, Goto, Abort, AtLine, VarsOK
<1>4. CASE OutOfStock(r)
  BY <1>0, <1>4 DEF OutOfStock, Abort, AtLine, VarsOK, locals
<1>5. CASE ReserveLine(r) \/ ReserveLastAndCharge(r)
  BY <1>0, <1>5 DEF ReserveLine, ReserveLastAndCharge, PushLine, Goto, VarsOK
<1>6. CASE ChargeRejected(r)
  <2>1. Bought(r) # <<>> BY <1>0, <1>6, BoughtType DEF ChargeRejected, PushLine, IInv
  <2> QED BY <1>0, <1>6, <2>1 DEF ChargeRejected, PushLine, Abort, VarsOK
<1>7. CASE CreatePayment(r)
  BY <1>0, <1>7 DEF CreatePayment, Goto, Abort, AtLine, VarsOK, locals, KeyIsFree
<1>8. CASE CreateOrder(r) BY <1>0, <1>8 DEF CreateOrder, Goto, VarsOK
<1>9. CASE AttachOrder(r) BY <1>0, <1>9 DEF AttachOrder, Answer, VarsOK
<1>10. CASE Rollback(r)
  BY <1>0, <1>10 DEF Rollback, Goto, AtLine, VarsOK
<1> QED
  BY <1>1, <1>2, <1>3, <1>4, <1>5, <1>6, <1>7, <1>8, <1>9, <1>10 DEF HandlerStep

\* A refusal stays without trace.
LEMMA CleanStep ==
  ASSUME IInv, faults = 0 => \A r \in Requests : Clean(r), [Next]_vars
  PROVE  (faults = 0 => \A r \in Requests : Clean(r))'
<1>0. /\ VarsOK /\ faults \in Nat
      /\ \A q \in payments : q.id \in Requests
      /\ \A o \in orders : o.id \in Requests
  <2>1. VarsOK /\ payments \subseteq Payment /\ orders \subseteq Order
    BY DEF IInv, TypeOK, VarsOK
  <2>2. faults \in Nat BY <2>1, CheckoutAssumption DEF VarsOK
  <2> QED BY <2>1, <2>2 DEF Payment, Order
<1> SUFFICES ASSUME faults' = 0, NEW s \in Requests PROVE Clean(s)' OBVIOUS
<1>1. ASSUME NEW r \in Requests, HandlerStep(r) PROVE Clean(s)'
  <2>1. faults = 0 /\ Clean(r) /\ Clean(s)
    <3>1. faults' = faults
      BY <1>1 DEF HandlerStep, FindPrior, Replay, ReadProduct, OutOfStock, ReserveLine,
           ReserveLastAndCharge, ChargeRejected, PushLine, CreatePayment, CreateOrder,
           AttachOrder, Rollback, bounds
    <3> QED BY <3>1
  <2>2. \A n \in payments' :
          \/ \E q \in payments : n.id = q.id /\ n.status = q.status
          \/ pc[r] = "pay" /\ payments' # payments /\ n.id = r /\ n.status = job[r].card
    <3>1. CASE payments' = payments BY <3>1
    <3>2. CASE pc[r] = "pay" /\ StorePayment(r) /\ payments' # payments
      BY <3>2 DEF StorePayment
    <3>3. CASE pc[r] = "attach" BY <1>1, <3>3, PaymentEffect DEF Step
    <3> QED BY <1>1, <3>1, <3>2, <3>3, StepEffect DEF IInv
  <2>3. \A o \in orders' : o \in orders \/ (pc[r] = "order" /\ o.id = r)
    BY <1>1, StepEffect DEF IInv, StoreOrder
  <2>4. CASE s = r
    <3>1. /\ pc'[r] = "replay" => items'[r] = <<>>
          /\ pc'[r] = "rollback" \/ (pc'[r] = "done" /\ reply'[r] # 201) =>
               /\ pc[r] \notin {"idle", "order", "attach", "done", "dead"}
               /\ pc[r] = "pay" /\ payments' # payments => job[r].card = "declined"
          /\ pc'[r] = "done" /\ reply'[r] # 201 => undone'[r] = Len(items'[r])
      BY <1>1, <2>1, RefusalEffect
    <3>2. pc[r] \notin {"idle", "order", "attach", "done", "dead"} =>
            /\ \A o \in orders : o.id # r
            /\ \A q \in payments : q.id = r => q.status = "declined"
      BY <2>1 DEF Clean, IInv, OrderOwner, PaymentOwner
    <3> QED BY <2>2, <2>3, <2>4, <3>1, <3>2 DEF Clean
  <2>5. CASE s # r
    <3>1. Untouched(s) BY <1>0, <1>1, <2>5, HandlerFrame
    <3> QED BY <2>1, <2>2, <2>3, <2>5, <3>1 DEF Clean, Untouched
  <2> QED BY <2>4, <2>5
<1>2. ASSUME NEW r \in Requests, Fault(r) PROVE FALSE
  BY <1>0, <1>2 DEF Fault, LookupFails, LineFails, PaymentFails, OrderFails, AttachFails,
       RollbackFails, CountFault
<1>3. ASSUME NEW r \in Requests, NEW j \in Jobs, Arrive(r, j) PROVE Clean(s)'
  BY <1>0, <1>3 DEF Arrive, Goto, database, bounds, Clean, VarsOK
<1>4. CASE Crash
  BY <1>0, <1>4 DEF Crash, InFlight, locals, database, Clean, VarsOK
<1>5. CASE Admin \/ UNCHANGED vars
  BY <1>5 DEF Admin, vars, locals, database, bounds, Clean
<1> QED BY <1>1, <1>2, <1>3, <1>4, <1>5 DEF Next, Environment

\* While no database call fails, a refused request leaves no order and no approved
\* payment, and every line it took is put back (order.service.ts:132-145,
\* src/README.md:166-171).
THEOREM NoTrace == Spec => []RefusalLeavesNoTrace
<1> DEFINE AllClean == faults = 0 => \A r \in Requests : Clean(r)
<1>1. Init => AllClean BY DEF Init, Clean
<1>2. IInv /\ AllClean /\ [Next]_vars => AllClean' BY CleanStep
<1>3. AllClean => RefusalLeavesNoTrace BY DEF Clean, RefusalLeavesNoTrace
<1> QED BY <1>1, <1>2, <1>3, Invariant, PTL DEF Spec

----------------------------------------------------------------------------
(* Checkout implements Purchase.                                           *)

\* Nothing is decided at the start.
LEMMA RefineInit == Init => P!Init
BY DEF Init, P!Init, Decided, Fulfilled

\* A step of a handler decides, fulfils or neither.
LEMMA RefineHandler ==
  ASSUME IInv, IInv', NEW r \in Requests, Step(r)
  PROVE  P!Next \/ UNCHANGED <<Decided, Fulfilled>>
<1>0. TypeOK /\ payments \subseteq Payment /\ orders \subseteq Order
  BY DEF IInv, TypeOK, VarsOK
<1>1. job' = job BY <1>0, StepEffect DEF Step
<1>2. CASE payments' = payments /\ orders' = orders
  BY <1>1, <1>2 DEF Decided, Fulfilled
<1>3. CASE KeyIsFree(job[r].key) /\ StorePayment(r) /\ orders' = orders
  <2> DEFINE doc == [id |-> r, key |-> job[r].key, status |-> job[r].card,
                     amount |-> total[r], orderId |-> NoOrder]
             d == [key |-> job[r].key, status |-> job[r].card, amount |-> total[r]]
  <2>1. payments' = payments \cup {doc} BY <1>3 DEF StorePayment
  <2>2. doc \in Payment BY <2>1 DEF IInv, TypeOK, VarsOK
  <2>3. d \in P!Decision BY <2>2 DEF Payment, P!Decision
  <2>4. Decided' = Decided \cup {d}
    <3>1. [key |-> doc.key, status |-> doc.status, amount |-> doc.amount] = d
      OBVIOUS
    <3> HIDE DEF doc, d
    <3> QED BY <2>1, <3>1 DEF Decided
  <2>5. \A e \in Decided : e.key # d.key BY <1>3 DEF Decided, KeyIsFree
  <2>6. Fulfilled' = Fulfilled BY <1>1, <1>3 DEF Fulfilled
  <2> QED BY <2>3, <2>4, <2>5, <2>6 DEF P!Next, P!Decide
<1>4. CASE LinkOrder(r) /\ orders' = orders
  <2>1. \A q \in payments :
          LET n == [q EXCEPT !.orderId = order[r]]
          IN  n.key = q.key /\ n.status = q.status /\ n.amount = q.amount
    BY <1>0 DEF Payment
  <2>2. Decided' = Decided
    <3>1. ASSUME NEW n \in payments'
          PROVE  \E q \in payments :
                   n.key = q.key /\ n.status = q.status /\ n.amount = q.amount
      BY <1>4, <2>1 DEF LinkOrder
    <3>2. ASSUME NEW q \in payments
          PROVE  \E n \in payments' :
                   n.key = q.key /\ n.status = q.status /\ n.amount = q.amount
      <4> DEFINE n == IF q.id = r THEN [q EXCEPT !.orderId = order[r]] ELSE q
      <4>1. n \in payments' BY <1>4 DEF LinkOrder
      <4>2. n.key = q.key /\ n.status = q.status /\ n.amount = q.amount BY <2>1
      <4> QED BY <4>1, <4>2
    <3>3. Decided' \subseteq Decided BY <3>1 DEF Decided
    <3>4. Decided \subseteq Decided' BY <3>2 DEF Decided
    <3> QED BY <3>3, <3>4
  <2>3. Fulfilled' = Fulfilled BY <1>1, <1>4 DEF Fulfilled
  <2> QED BY <2>2, <2>3
<1>5. CASE pc[r] = "order" /\ StoreOrder(r) /\ payments' = payments
  <2>1. PICK q \in payments : q.id = r /\ q.status = "approved"
    BY <1>5 DEF IInv, HandlerKnows, Knows
  <2> DEFINE d == [key |-> q.key, status |-> q.status, amount |-> q.amount]
  <2>2. d \in Decided BY DEF Decided
  <2>3. q.key = job[r].key /\ q.amount = total[r] BY <2>1 DEF IInv, PaymentOwner
  <2>4. ASSUME NEW f \in Fulfilled PROVE f.key # d.key
    <3>1. PICK o \in orders : f.key = job[o.id].key BY DEF Fulfilled
    <3>2. PICK n \in payments : n.id = o.id BY DEF IInv, OrderOwner
    <3>3. n.key = f.key BY <3>1, <3>2 DEF IInv, PaymentOwner
    <3>4. o.id # r BY <1>5 DEF IInv, OrderOwner
    <3> QED BY <2>1, <3>2, <3>3, <3>4 DEF IInv, KeysAreUnique
  <2> DEFINE doc == [id |-> r, items |-> items[r], total |-> total[r]]
             f == [key |-> d.key, total |-> d.amount]
  <2>5. orders' = orders \cup {doc} BY <1>5 DEF StoreOrder
  <2>6. Fulfilled' = Fulfilled \cup {f}
    <3>1. [key |-> job[doc.id].key, total |-> doc.total] = f BY <2>3
    <3> HIDE DEF doc, f
    <3> QED BY <1>1, <2>5, <3>1 DEF Fulfilled
  <2>7. Decided' = Decided BY <1>5 DEF Decided
  <2>8. P!Fulfil(d) BY <2>1, <2>4, <2>6, <2>7 DEF P!Fulfil
  <2> QED BY <2>2, <2>8 DEF P!Next
<1> QED BY <1>0, <1>2, <1>3, <1>4, <1>5, StepEffect DEF Step

\* Nothing else decides or fulfils.
LEMMA RefineStep ==
  ASSUME IInv, IInv', [Next]_vars
  PROVE  [P!Next]_(P!vars)
<1>1. ASSUME NEW r \in Requests, NEW j \in Jobs, Arrive(r, j)
      PROVE  UNCHANGED <<Decided, Fulfilled>>
  <2>1. /\ orders \subseteq Order /\ job \in [Requests -> Jobs \cup {NoJob}]
    BY DEF IInv, TypeOK, VarsOK
  <2>2. \A o \in orders : o.id \in Requests \ {r}
    BY <1>1, <2>1 DEF IInv, OrderOwner, Order, Arrive
  <2>3. \A o \in orders : job'[o.id] = job[o.id]
    BY <1>1, <2>1, <2>2 DEF Arrive
  <2>4. payments' = payments /\ orders' = orders BY <1>1 DEF Arrive, database
  <2> QED BY <2>3, <2>4 DEF Decided, Fulfilled
<1>2. CASE Crash \/ Admin \/ UNCHANGED vars
  <2>1. payments' = payments /\ orders' = orders /\ job' = job
    BY <1>2 DEF Crash, Admin, vars, locals, database
  <2>2. Decided' = Decided BY <2>1 DEF Decided
  <2>3. Fulfilled' = Fulfilled BY <2>1 DEF Fulfilled
  <2> QED BY <2>2, <2>3 DEF P!vars
<1> QED BY <1>1, <1>2, RefineHandler DEF Next, Environment, Step, P!vars

\* Checkout implements Purchase: one final decision for a key and at most one
\* fulfilment of it, for its amount, whatever fails (order.service.ts:35-145).
THEOREM Refinement == Spec => ImplementsPurchase
BY RefineInit, RefineStep, Invariant, PTL DEF Spec, ImplementsPurchase, P!Spec

----------------------------------------------------------------------------
(* Stock: what is on the shelf, held and sold.                             *)

UnitsAt(d, p) == IF d.product = p THEN d.quantity ELSE 0

\* The fields of a line.
LEMMA ItemFields ==
  ASSUME NEW d \in Item
  PROVE  d.quantity \in Nat /\ d.price \in Nat /\ d.product \in Products
<1>1. d.quantity \in 1..99 /\ d.price \in Nat /\ d.product \in Products
  BY DEF Item
<1>2. \A n \in 1..99 : n \in Nat
  OBVIOUS
<1> QED BY <1>1, <1>2

\* The fields of a line of several.
LEMMA LineQuantity ==
  ASSUME NEW lines \in Seq(Item), NEW i \in DOMAIN lines
  PROVE  lines[i].quantity \in Nat /\ lines[i].price \in Nat /\ lines[i].product \in Products
<1>1. lines[i] \in Item
  OBVIOUS
<1> QED BY <1>1, ItemFields

\* Units are a number.
LEMMA UnitsType ==
  ASSUME NEW lines \in Seq(Item), NEW given \in SUBSET DOMAIN lines, NEW p
  PROVE  Units(lines, given, p) \in Nat
<1> DEFINE of == {i \in given : lines[i].product = p}
           quantity == [i \in given |-> lines[i].quantity]
<1>1. IsFiniteSet(DOMAIN lines)
  BY FS_Interval
<1>2. IsFiniteSet(of)
  BY <1>1, FS_Subset
<1>3. \A i \in of : quantity[i] \in Nat
  BY LineQuantity
<1> HIDE DEF of, quantity
<1>4. SumFunctionOnSet(quantity, of) \in Nat
  BY <1>2, <1>3, SumIsNat
<1> QED BY <1>4 DEF Units, of, quantity

\* No lines have no units.
LEMMA UnitsEmpty ==
  ASSUME NEW lines, NEW p
  PROVE  Units(lines, {}, p) = 0
<1>1. {i \in {} : lines[i].product = p} = {}
  OBVIOUS
<1>2. SumFunctionOnSet([i \in {} |-> lines[i].quantity], {}) = 0
  BY FS_EmptySet, SumStep
<1> QED BY <1>1, <1>2 DEF Units

\* One more line counts as many more units.
LEMMA UnitsAdd ==
  ASSUME NEW lines \in Seq(Item), NEW given \in SUBSET DOMAIN lines,
         NEW k \in DOMAIN lines, k \notin given, NEW p
  PROVE  Units(lines, given \cup {k}, p) = Units(lines, given, p) + UnitsAt(lines[k], p)
<1> DEFINE more == given \cup {k}
           of == {i \in given : lines[i].product = p}
           ofMore == {i \in more : lines[i].product = p}
           quantity == [i \in given |-> lines[i].quantity]
           quantities == [i \in more |-> lines[i].quantity]
<1>1. IsFiniteSet(of)
  <2>1. IsFiniteSet(DOMAIN lines)
    BY FS_Interval
  <2> QED BY <2>1, FS_Subset
<1>2. \A i \in of : quantities[i] = quantity[i] /\ quantities[i] \in Nat
  BY LineQuantity
<1>3. quantities[k] = lines[k].quantity /\ lines[k].quantity \in Nat
  BY LineQuantity
<1>4. ofMore = IF lines[k].product = p THEN of \cup {k} ELSE of
  OBVIOUS
<1>5. k \notin of
  OBVIOUS
<1> HIDE DEF of, ofMore, quantity, quantities
<1>6. SumFunctionOnSet(quantities, of) = SumFunctionOnSet(quantity, of)
  BY <1>1, <1>2, SumCongruence
<1>7. SumFunctionOnSet(quantities, of) \in Nat
  BY <1>1, <1>2, SumIsNat
<1>8. SumFunctionOnSet(quantities, of \cup {k})
        = lines[k].quantity + SumFunctionOnSet(quantities, of)
  BY <1>1, <1>2, <1>3, <1>5, SumAdd
<1>9. SumFunctionOnSet(quantities, ofMore) = SumFunctionOnSet(quantity, of) + UnitsAt(lines[k], p)
  BY <1>3, <1>4, <1>6, <1>7, <1>8 DEF UnitsAt
<1> QED BY <1>9 DEF Units, of, ofMore, quantity, quantities

\* Equal lines have equal units.
LEMMA UnitsCongruence ==
  ASSUME NEW lines, NEW others, NEW given, IsFiniteSet(given),
         \A i \in given : lines[i] = others[i], NEW p
  PROVE  Units(lines, given, p) = Units(others, given, p)
<1>1. [i \in given |-> lines[i].quantity] = [i \in given |-> others[i].quantity]
  OBVIOUS
<1>2. {i \in given : lines[i].product = p} = {i \in given : others[i].product = p}
  OBVIOUS
<1> QED BY <1>1, <1>2 DEF Units

\* items.push (order.service.ts:71-76).
LEMMA UnitsAppend ==
  ASSUME NEW lines \in Seq(Item), NEW d \in Item, NEW p
  PROVE  Units(Append(lines, d), DOMAIN Append(lines, d), p)
           = Units(lines, DOMAIN lines, p) + UnitsAt(d, p)
<1> DEFINE more == Append(lines, d)
           k == Len(lines) + 1
<1>1. /\ more \in Seq(Item) /\ DOMAIN more = DOMAIN lines \cup {k}
      /\ k \in DOMAIN more /\ k \notin DOMAIN lines /\ more[k] = d
      /\ \A i \in DOMAIN lines : more[i] = lines[i]
  OBVIOUS
<1>2. IsFiniteSet(DOMAIN lines)
  BY FS_Interval
<1> HIDE DEF more, k
<1>3. Units(more, DOMAIN lines, p) = Units(lines, DOMAIN lines, p)
  BY <1>1, <1>2, UnitsCongruence
<1>4. Units(more, DOMAIN lines \cup {k}, p) = Units(more, DOMAIN lines, p) + UnitsAt(d, p)
  BY <1>1, UnitsAdd
<1> QED BY <1>1, <1>3, <1>4 DEF more

\* One more turn of the rollback loop leaves one line less (order.service.ts:134-136).
LEMMA UnitsFrom ==
  ASSUME NEW lines \in Seq(Item), NEW k \in Nat, k < Len(lines), NEW p
  PROVE  Units(lines, k + 1..Len(lines), p)
           = Units(lines, k + 1 + 1..Len(lines), p) + UnitsAt(lines[k + 1], p)
<1> DEFINE rest == k + 1 + 1..Len(lines)
<1>1. /\ rest \in SUBSET DOMAIN lines /\ k + 1 \in DOMAIN lines /\ k + 1 \notin rest
      /\ k + 1..Len(lines) = rest \cup {k + 1}
  OBVIOUS
<1> HIDE DEF rest
<1> QED BY <1>1, UnitsAdd DEF rest

HeldOf(r, p) == Units(items[r], Held(r), p)

\* What a handler holds are lines of its own.
LEMMA HeldLines ==
  ASSUME TypeOK, NEW r \in Requests
  PROVE  /\ items[r] \in Seq(Item)
         /\ Held(r) \in SUBSET DOMAIN items[r]
         /\ \A p : HeldOf(r, p) \in Nat
<1>1. items[r] \in Seq(Item) /\ undone[r] \in Nat
  BY DEF TypeOK, VarsOK
<1>2. Held(r) \in SUBSET DOMAIN items[r]
  BY <1>1 DEF Held
<1> QED BY <1>1, <1>2, UnitsType DEF HeldOf

\* What handlers hold is a number.
LEMMA HeldUnitsType ==
  ASSUME TypeOK, IsFiniteSet(Started), NEW p
  PROVE  HeldUnits(p) \in Nat
<1> DEFINE held == [r \in Started |-> HeldOf(r, p)]
<1>1. \A r \in Started : held[r] \in Nat
  BY HeldLines DEF Started
<1> HIDE DEF held
<1>2. SumFunctionOnSet(held, Started) \in Nat
  BY <1>1, SumIsNat
<1> QED BY <1>2 DEF HeldUnits, HeldOf, held

\* What is sold is a number.
LEMMA SoldUnitsType ==
  ASSUME TypeOK, IsFiniteSet(orders), NEW p
  PROVE  SoldUnits(p) \in Nat
<1> DEFINE sold == [o \in orders |-> Units(o.items, DOMAIN o.items, p)]
<1>1. \A o \in orders : o.items \in Seq(Item)
  BY DEF TypeOK, VarsOK, Order
<1>2. \A o \in orders : sold[o] \in Nat
  BY <1>1, UnitsType
<1> HIDE DEF sold
<1>3. SumFunctionOnSet(sold, orders) \in Nat
  BY <1>2, SumIsNat
<1> QED BY <1>3 DEF SoldUnits, sold

\* A step of one handler changes only what that handler holds.
LEMMA HeldChange ==
  ASSUME TypeOK, TypeOK', IsFiniteSet(Started), NEW r \in Started, pc'[r] # "idle",
         \A s \in Requests \ {r} : Untouched(s), NEW p
  PROVE  /\ HeldUnits(p)' - HeldOf(r, p)' = HeldUnits(p) - HeldOf(r, p)
         /\ HeldUnits(p)' \in Nat /\ HeldOf(r, p)' \in Nat
<1> DEFINE held == [s \in Started |-> HeldOf(s, p)]
           heldNext == [s \in Started |-> HeldOf(s, p)']
<1>1. Started' = Started /\ r \in Requests
  BY DEF Started, Untouched
<1>2. \A s \in Started \ {r} : HeldOf(s, p)' = HeldOf(s, p)
  BY <1>1 DEF Started, Untouched, HeldOf, Held
<1>3. \A s \in Requests : HeldOf(s, p) \in Nat /\ HeldOf(s, p)' \in Nat
  <2>1. \A s \in Requests : items'[s] \in Seq(Item) /\ undone'[s] \in Nat
    BY DEF TypeOK, VarsOK
  <2>2. \A s \in Requests : Held(s)' \in SUBSET DOMAIN items'[s]
    BY <2>1 DEF Held
  <2>3. \A s \in Requests : HeldOf(s, p)' \in Nat
    BY <2>1, <2>2, UnitsType DEF HeldOf
  <2> QED BY <2>3, HeldLines
<1>4. /\ \A s \in Started : held[s] \in Nat /\ heldNext[s] \in Nat
      /\ \A s \in Started \ {r} : heldNext[s] = held[s]
      /\ held[r] = HeldOf(r, p) /\ heldNext[r] = HeldOf(r, p)'
  BY <1>1, <1>2, <1>3 DEF Started
<1> HIDE DEF held, heldNext
<1>5. SumFunctionOnSet(heldNext, Started) - heldNext[r]
        = SumFunctionOnSet(held, Started) - held[r]
  BY <1>4, SumChange
<1>8. SumFunctionOnSet(heldNext, Started) \in Nat
  BY <1>4, SumIsNat
<1>6. HeldUnits(p) = SumFunctionOnSet(held, Started)
  BY DEF HeldUnits, HeldOf, held
<1>7. HeldUnits(p)' = SumFunctionOnSet(heldNext, Started)
  BY <1>1 DEF HeldUnits, HeldOf, heldNext
<1> QED BY <1>1, <1>3, <1>4, <1>5, <1>6, <1>7, <1>8

\* A new order sells the units of its lines.
LEMMA SoldAdd ==
  ASSUME TypeOK, IsFiniteSet(orders), NEW o \in Order, o \notin orders,
         orders' = orders \cup {o}, NEW p
  PROVE  SoldUnits(p)' = SoldUnits(p) + Units(o.items, DOMAIN o.items, p)
<1> DEFINE sold == [q \in orders |-> Units(q.items, DOMAIN q.items, p)]
           soldNext == [q \in orders \cup {o} |-> Units(q.items, DOMAIN q.items, p)]
<1>1. \A q \in orders \cup {o} : q.items \in Seq(Item)
  BY DEF TypeOK, VarsOK, Order
<1>2. \A q \in orders \cup {o} : soldNext[q] \in Nat
  BY <1>1, UnitsType
<1>3. /\ \A q \in orders : soldNext[q] = sold[q]
      /\ soldNext[o] = Units(o.items, DOMAIN o.items, p)
  OBVIOUS
<1>4. SoldUnits(p) = SumFunctionOnSet(sold, orders)
  BY DEF SoldUnits
<1>5. SoldUnits(p)' = SumFunctionOnSet(soldNext, orders \cup {o})
  BY DEF SoldUnits
<1> HIDE DEF sold, soldNext
<1>6. SumFunctionOnSet(soldNext, orders \cup {o})
        = soldNext[o] + SumFunctionOnSet(soldNext, orders)
  BY <1>2, SumAdd
<1>7. SumFunctionOnSet(soldNext, orders) = SumFunctionOnSet(sold, orders)
  BY <1>3, SumCongruence
<1>8. SumFunctionOnSet(soldNext, orders) \in Nat
  BY <1>2, SumIsNat
<1> QED BY <1>2, <1>3, <1>4, <1>5, <1>6, <1>7, <1>8

OnBooks(p) == product[p].stock + HeldUnits(p) + SoldUnits(p)

StepsAlone(r) == r \in Started /\ pc'[r] # "idle" /\ \A s \in Requests \ {r} : Untouched(s)

\* A step that makes no order changes the books as it changes the stock and what
\* its own handler holds.
LEMMA Books ==
  ASSUME TypeOK, TypeOK', FinitelyMany, NEW r, StepsAlone(r), orders' = orders,
         NEW p \in Products
  PROVE  /\ OnBooks(p)' - (product'[p].stock + HeldOf(r, p)')
              = OnBooks(p) - (product[p].stock + HeldOf(r, p))
         /\ OnBooks(p)' \in Int /\ product'[p].stock + HeldOf(r, p)' \in Int
<1>0. r \in Started /\ r \in Requests
  BY DEF StepsAlone, Started
<1>1. /\ HeldUnits(p)' - HeldOf(r, p)' = HeldUnits(p) - HeldOf(r, p)
      /\ HeldUnits(p)' \in Nat /\ HeldOf(r, p)' \in Nat
  BY <1>0, HeldChange DEF FinitelyMany, StepsAlone
<1>2. SoldUnits(p)' = SoldUnits(p)
  BY DEF SoldUnits
<1>3. product[p].stock \in Int /\ product'[p].stock \in Int
  BY DEF TypeOK, VarsOK, CatalogueTypeOK, Row
<1>4. HeldUnits(p) \in Nat /\ SoldUnits(p) \in Nat /\ HeldOf(r, p) \in Nat
  BY <1>0, HeldUnitsType, SoldUnitsType, HeldLines DEF FinitelyMany
<1> QED BY <1>1, <1>2, <1>3, <1>4 DEF OnBooks

\* The conditional update moves units between the shelf and a handler.
LEMMA TakenStock ==
  ASSUME TypeOK, NEW r \in Requests, pc[r] = "reserve", TakeLine(r),
         Matches(NextLine(r).product, NextLine(r).quantity), NEW p \in Products
  PROVE  product'[p].stock = product[p].stock - UnitsAt(NextLine(r), p)
<1> DEFINE d == NextLine(r)
<1>1. d.product \in Products /\ d.quantity \in Int
  BY NextLineType DEF Line
<1>2. product \in [Products -> Row] /\ product[p].stock \in Int
  BY DEF TypeOK, VarsOK, CatalogueTypeOK, Row
<1>3. product' = [product EXCEPT ![d.product].stock = @ - d.quantity]
  BY DEF TakeLine, DecrementStock
<1> HIDE DEF d
<1>4. product'[p].stock = IF p = d.product THEN product[p].stock - d.quantity
                                          ELSE product[p].stock
  BY <1>1, <1>2, <1>3 DEF Row
<1>5. product'[p].stock = product[p].stock - UnitsAt(d, p)
  BY <1>1, <1>2, <1>4 DEF UnitsAt
<1> QED BY <1>5 DEF d

\* A line that is restored returns its units to a product that is still listed.
LEMMA RestoredStock ==
  ASSUME TypeOK, StockNeverNegative, NEW r \in Requests, pc[r] = "rollback",
         RestoreLine(r), NEW p \in Products
  PROVE  LET d == items[r][undone[r] + 1]
         IN  product'[p].stock = IF Listed(d.product) THEN product[p].stock + UnitsAt(d, p)
                                                      ELSE product[p].stock
<1> DEFINE d == items[r][undone[r] + 1]
<1>1. undone[r] + 1 \in DOMAIN items[r] /\ items[r] \in Seq(Item)
  BY DEF TypeOK, VarsOK, AtLine
<1>2. d.product \in Products /\ d.quantity \in Nat
  BY <1>1, LineQuantity
<1>3. /\ product \in [Products -> Row] /\ product[p].stock \in Int
      /\ product[d.product].stock \in Int /\ product[d.product].stock >= 0
  BY <1>2 DEF TypeOK, VarsOK, CatalogueTypeOK, Row, StockNeverNegative
<1>4. DecrementStock(d.product, -d.quantity)
  BY DEF RestoreLine
<1> HIDE DEF d
<1>5. CASE Listed(d.product)
  <2>1. Matches(d.product, -d.quantity)
    BY <1>2, <1>3, <1>5 DEF Matches
  <2>2. product' = [product EXCEPT ![d.product].stock = @ - (-d.quantity)]
    BY <1>4, <2>1 DEF DecrementStock
  <2>3. product'[p].stock = IF p = d.product THEN product[p].stock - (-d.quantity)
                                            ELSE product[p].stock
    BY <1>2, <1>3, <2>2 DEF Row
  <2>4. product'[p].stock = product[p].stock + UnitsAt(d, p)
    BY <1>2, <1>3, <2>3 DEF UnitsAt
  <2> QED BY <1>5, <2>4 DEF d
<1>6. CASE ~Listed(d.product)
  BY <1>4, <1>6 DEF DecrementStock, Matches, d
<1> QED BY <1>5, <1>6

\* A step of a handler is its own.
LEMMA StepsAloneHandler ==
  ASSUME TypeOK, NEW r \in Requests, HandlerStep(r)
  PROVE  StepsAlone(r) /\ supplied' = supplied /\ edits' = edits
<1>1. \A s \in Requests \ {r} : Untouched(s)
  BY HandlerFrame DEF TypeOK
<1>2. pc[r] # "idle" /\ pc'[r] # "idle" /\ supplied' = supplied /\ edits' = edits
  BY DEF HandlerStep, FindPrior, Replay, ReadProduct, OutOfStock, ReserveLine,
         ReserveLastAndCharge, ChargeRejected, PushLine, CreatePayment, CreateOrder,
         AttachOrder, Rollback, Goto, Answer, Abort, TypeOK, VarsOK, catalogueVars
<1> QED BY <1>1, <1>2 DEF StepsAlone, Started

\* A step that moves no stock leaves what the handler holds alone.
LEMMA QuietSteps ==
  ASSUME TypeOK, NEW r \in Requests,
         FindPrior(r) \/ Replay(r) \/ ReadProduct(r) \/ OutOfStock(r) \/ CreatePayment(r)
           \/ AttachOrder(r)
  PROVE  /\ product' = product /\ orders' = orders /\ items' = items
         /\ Held(r)' = Held(r)
<1>1. product' = product /\ orders' = orders /\ items' = items /\ undone' = undone
  BY DEF FindPrior, Replay, ReadProduct, OutOfStock, CreatePayment, AttachOrder,
         catalogueVars, locals, database
<1>2. /\ items[r] \in Seq(Item) /\ pc \in [Requests -> Labels]
      /\ pc[r] \in {"read", "reserve", "pay"} => undone[r] = 0
      /\ pc[r] \in {"find"} => items[r] = <<>>
  BY DEF TypeOK, VarsOK, AtLine
<1>3. \A code :
        Abort(r, code, items[r]) /\ pc[r] \in {"read", "reserve", "pay"} => Held(r)' = Held(r)
  BY <1>1, <1>2 DEF Abort, Held
<1>4. CASE FindPrior(r)
  BY <1>1, <1>2, <1>4 DEF FindPrior, Goto, Answer, Held
<1>5. CASE Replay(r)
  BY <1>1, <1>2, <1>5 DEF Replay, Answer, Held
<1>6. CASE ReadProduct(r)
  BY <1>1, <1>2, <1>3, <1>6 DEF ReadProduct, Goto, Held
<1>7. CASE OutOfStock(r)
  BY <1>1, <1>2, <1>3, <1>7 DEF OutOfStock
<1>8. CASE CreatePayment(r)
  BY <1>1, <1>2, <1>3, <1>8 DEF CreatePayment, Goto, Held
<1>9. CASE AttachOrder(r)
  BY <1>1, <1>2, <1>9 DEF AttachOrder, Answer, Held
<1> QED BY <1>1, <1>4, <1>5, <1>6, <1>7, <1>8, <1>9

\* Reserving a line moves its units from the shelf to the handler.
LEMMA ReserveBooks ==
  ASSUME TypeOK, NEW r \in Requests,
         ReserveLine(r) \/ ReserveLastAndCharge(r) \/ ChargeRejected(r),
         NEW p \in Products
  PROVE  /\ orders' = orders
         /\ product'[p].stock + HeldOf(r, p)' = product[p].stock + HeldOf(r, p)
<1> DEFINE d == [product |-> NextLine(r).product, price |-> price[r],
                 quantity |-> NextLine(r).quantity]
<1>1. PushLine(r)
  BY DEF ReserveLine, ReserveLastAndCharge, ChargeRejected
<1>2. /\ pc[r] = "reserve" /\ orders' = orders /\ undone' = undone
      /\ items \in [Requests -> Seq(Item)] /\ items'[r] = Bought(r)
      /\ TakeLine(r) /\ Matches(NextLine(r).product, NextLine(r).quantity)
      /\ pc \in [Requests -> Labels] /\ undone[r] = 0
  BY <1>1 DEF PushLine, database, TypeOK, VarsOK, AtLine
<1>3. d \in Item /\ Bought(r) = Append(items[r], d)
  BY <1>2, NextLineType DEF Line, Item, Bought, TypeOK, VarsOK
<1>4. Bought(r) \in Seq(Item) /\ Len(Bought(r)) # 0 /\ Bought(r) # <<>>
  BY <1>2, <1>3
<1>5. Held(r)' = DOMAIN Bought(r)
  <2>1. pc'[r] \in {"read", "pay", "rollback"}
    BY <1>2, <1>4 DEF ReserveLine, ReserveLastAndCharge, ChargeRejected, Goto, Abort
  <2> QED BY <1>2, <1>4, <2>1 DEF Held
<1>6. Held(r) = DOMAIN items[r]
  BY <1>2 DEF Held
<1>7. HeldOf(r, p)' = HeldOf(r, p) + UnitsAt(d, p)
  BY <1>2, <1>3, <1>5, <1>6, UnitsAppend DEF HeldOf
<1>8. product'[p].stock = product[p].stock - UnitsAt(d, p)
  BY <1>2, TakenStock DEF UnitsAt
<1>9. product[p].stock \in Int /\ HeldOf(r, p) \in Nat /\ UnitsAt(d, p) \in Nat
  <2>1. d.quantity \in Nat
    BY <1>3, ItemFields
  <2> QED BY <2>1, HeldLines DEF TypeOK, VarsOK, CatalogueTypeOK, Row, UnitsAt
<1> QED BY <1>2, <1>7, <1>8, <1>9

\* A turn of the rollback loop moves the units of a line back to the shelf, if
\* the product is still listed.
LEMMA RollbackBooks ==
  ASSUME TypeOK, StockNeverNegative, NEW r \in Requests, Rollback(r), NEW p \in Products
  PROVE  /\ orders' = orders
         /\ product'[p].stock + HeldOf(r, p)' <= product[p].stock + HeldOf(r, p)
         /\ Listed(items[r][undone[r] + 1].product) =>
              product'[p].stock + HeldOf(r, p)' = product[p].stock + HeldOf(r, p)
<1> DEFINE d == items[r][undone[r] + 1]
<1>1. /\ pc[r] = "rollback" /\ RestoreLine(r) /\ orders' = orders /\ items' = items
      /\ undone'[r] = undone[r] + 1 /\ undone[r] \in Nat /\ items[r] \in Seq(Item)
      /\ undone[r] < Len(items[r])
      /\ pc'[r] = IF undone[r] + 1 = Len(items[r]) THEN "done" ELSE "rollback"
  BY DEF Rollback, Goto, database, TypeOK, VarsOK, AtLine
<1>2. /\ Held(r) = undone[r] + 1..Len(items[r])
      /\ Held(r)' = undone[r] + 1 + 1..Len(items[r])
  BY <1>1 DEF Held
<1>3. HeldOf(r, p) = HeldOf(r, p)' + UnitsAt(d, p)
  BY <1>1, <1>2, UnitsFrom DEF HeldOf
<1>4. d.quantity \in Nat /\ d.product \in Products
  BY <1>1, LineQuantity
<1>5. product[p].stock \in Int /\ UnitsAt(d, p) \in Nat /\ HeldOf(r, p) \in Nat
  BY <1>4, HeldLines DEF TypeOK, VarsOK, CatalogueTypeOK, Row, UnitsAt
<1>6. HeldOf(r, p)' \in Nat
  <2>1. Held(r)' \in SUBSET DOMAIN items[r]
    BY <1>1, <1>2
  <2> QED BY <1>1, <2>1, UnitsType DEF HeldOf
<1>7. product'[p].stock = IF Listed(d.product) THEN product[p].stock + UnitsAt(d, p)
                                               ELSE product[p].stock
  BY <1>1, RestoredStock
<1> HIDE DEF d
<1>8. /\ product'[p].stock + HeldOf(r, p)' <= product[p].stock + HeldOf(r, p)
      /\ Listed(d.product) =>
           product'[p].stock + HeldOf(r, p)' = product[p].stock + HeldOf(r, p)
  BY <1>3, <1>5, <1>6, <1>7
<1> QED BY <1>1, <1>8 DEF d

\* Creating the order turns what the handler holds into what is sold.
LEMMA OrderBooks ==
  ASSUME IInv, TypeOK', FinitelyMany, NEW r \in Requests, CreateOrder(r), StepsAlone(r),
         NEW p \in Products
  PROVE  OnBooks(p)' = OnBooks(p)
<1> DEFINE o == [id |-> r, items |-> items[r], total |-> total[r]]
<1>1. /\ pc[r] = "order" /\ product' = product /\ items' = items
      /\ orders' = orders \cup {o} /\ pc'[r] = "attach" /\ r \in Started
  BY DEF CreateOrder, StoreOrder, Goto, catalogueVars, IInv, TypeOK, VarsOK, StepsAlone
<1>2. TypeOK /\ o \in Order
  BY DEF IInv, TypeOK, VarsOK, Order
<1>3. o \notin orders
  BY <1>1 DEF IInv, OrderOwner
<1>4. SoldUnits(p)' = SoldUnits(p) + Units(items[r], DOMAIN items[r], p)
  <2> HIDE DEF o
  <2>1. SoldUnits(p)' = SoldUnits(p) + Units(o.items, DOMAIN o.items, p)
    BY <1>1, <1>2, <1>3, SoldAdd DEF FinitelyMany
  <2> QED BY <2>1 DEF o
<1>5. HeldOf(r, p) = Units(items[r], DOMAIN items[r], p) /\ HeldOf(r, p)' = 0
  BY <1>1, UnitsEmpty DEF HeldOf, Held
<1>6. HeldUnits(p)' - HeldOf(r, p)' = HeldUnits(p) - HeldOf(r, p) /\ HeldUnits(p)' \in Nat
  BY <1>1, <1>2, HeldChange DEF FinitelyMany, StepsAlone
<1>7. /\ HeldUnits(p) \in Nat /\ SoldUnits(p) \in Nat /\ HeldOf(r, p) \in Nat
      /\ product[p].stock \in Int
  BY <1>1, <1>2, HeldUnitsType, SoldUnitsType, HeldLines
     DEF FinitelyMany, TypeOK, VarsOK, CatalogueTypeOK, Row
<1> QED BY <1>1, <1>4, <1>5, <1>6, <1>7 DEF OnBooks

\* No handler step invents stock, and none loses any while what it restores is
\* still listed.
LEMMA HandlerBooks ==
  ASSUME IInv, TypeOK', FinitelyMany, NEW r \in Requests, HandlerStep(r), NEW p \in Products
  PROVE  /\ OnBooks(p)' <= OnBooks(p) /\ OnBooks(p)' \in Int
         /\ BoughtAreListed /\ edits = 0 => OnBooks(p)' = OnBooks(p)
<1>0. TypeOK /\ StockNeverNegative /\ StepsAlone(r)
  BY StepsAloneHandler DEF IInv
<1>1. /\ OnBooks(p) \in Int
      /\ product[p].stock + HeldOf(r, p) \in Int
  <2>1. product[p].stock \in Int
    BY <1>0 DEF TypeOK, VarsOK, CatalogueTypeOK, Row
  <2>2. HeldUnits(p) \in Nat /\ SoldUnits(p) \in Nat /\ HeldOf(r, p) \in Nat
    BY <1>0, HeldUnitsType, SoldUnitsType, HeldLines DEF FinitelyMany
  <2> QED BY <2>1, <2>2 DEF OnBooks
<1>2. orders' = orders =>
        OnBooks(p)' - (product'[p].stock + HeldOf(r, p)')
          = OnBooks(p) - (product[p].stock + HeldOf(r, p))
        /\ OnBooks(p)' \in Int /\ product'[p].stock + HeldOf(r, p)' \in Int
  BY <1>0, Books
<1>3. CASE FindPrior(r) \/ Replay(r) \/ ReadProduct(r) \/ OutOfStock(r) \/ CreatePayment(r)
             \/ AttachOrder(r)
  <2>1. orders' = orders /\ product'[p].stock + HeldOf(r, p)' = product[p].stock + HeldOf(r, p)
    BY <1>0, <1>3, QuietSteps DEF HeldOf
  <2> QED BY <1>1, <1>2, <2>1
<1>4. CASE ReserveLine(r) \/ ReserveLastAndCharge(r) \/ ChargeRejected(r)
  <2>1. orders' = orders /\ product'[p].stock + HeldOf(r, p)' = product[p].stock + HeldOf(r, p)
    BY <1>0, <1>4, ReserveBooks
  <2> QED BY <1>1, <1>2, <2>1
<1>5. CASE CreateOrder(r)
  <2>1. OnBooks(p)' = OnBooks(p)
    BY <1>0, <1>5, OrderBooks
  <2> QED BY <1>1, <2>1
<1>6. CASE Rollback(r)
  <2>1. /\ orders' = orders
        /\ product'[p].stock + HeldOf(r, p)' <= product[p].stock + HeldOf(r, p)
        /\ Listed(items[r][undone[r] + 1].product) =>
             product'[p].stock + HeldOf(r, p)' = product[p].stock + HeldOf(r, p)
    BY <1>0, <1>6, RollbackBooks
  <2>2. BoughtAreListed /\ edits = 0 => Listed(items[r][undone[r] + 1].product)
    <3>1. undone[r] + 1 \in DOMAIN items[r]
      BY <1>0, <1>6 DEF Rollback, TypeOK, VarsOK, AtLine
    <3> QED BY <3>1 DEF BoughtAreListed
  <2> QED BY <1>1, <1>2, <2>1, <2>2
<1> QED BY <1>3, <1>4, <1>5, <1>6 DEF HandlerStep

\* A request that arrives holds nothing yet.
LEMMA ArriveBooks ==
  ASSUME IInv, FinitelyMany, NEW r \in Requests, NEW j \in Jobs, Arrive(r, j),
         NEW p \in Products
  PROVE  OnBooks(p)' = OnBooks(p)
<1> DEFINE held == [s \in Started |-> HeldOf(s, p)]
           heldNext == [s \in Started \cup {r} |-> HeldOf(s, p)']
<1>1. /\ r \notin Started /\ Started' = Started \cup {r} /\ pc'[r] = "find"
      /\ product' = product /\ orders' = orders /\ items' = items /\ undone' = undone
      /\ \A s \in Started : pc'[s] = pc[s]
  BY DEF Arrive, Goto, Started, catalogueVars, database, IInv, TypeOK, VarsOK
<1>2. \A s \in Started : HeldOf(s, p)' = HeldOf(s, p)
  BY <1>1 DEF HeldOf, Held
<1>3. HeldOf(r, p)' = 0
  BY <1>1, UnitsEmpty DEF HeldOf, Held
<1>4. \A s \in Started : HeldOf(s, p) \in Nat
  BY HeldLines DEF IInv, Started
<1>5. /\ \A s \in Started : heldNext[s] = held[s] /\ held[s] \in Nat
      /\ heldNext[r] = 0
  BY <1>2, <1>3, <1>4
<1>6. HeldUnits(p) = SumFunctionOnSet(held, Started)
  BY DEF HeldUnits, HeldOf, held
<1>7. HeldUnits(p)' = SumFunctionOnSet(heldNext, Started \cup {r})
  BY <1>1 DEF HeldUnits, HeldOf, heldNext
<1> HIDE DEF held, heldNext
<1>8. SumFunctionOnSet(heldNext, Started \cup {r}) = SumFunctionOnSet(heldNext, Started)
  <2>1. SumFunctionOnSet(heldNext, Started) \in Nat
    BY <1>5, SumIsNat DEF FinitelyMany
  <2>2. SumFunctionOnSet(heldNext, Started \cup {r})
          = heldNext[r] + SumFunctionOnSet(heldNext, Started)
    BY <1>1, <1>5, SumAdd DEF FinitelyMany
  <2> QED BY <1>5, <2>1, <2>2
<1>9. SumFunctionOnSet(heldNext, Started) = SumFunctionOnSet(held, Started)
  BY <1>5, SumCongruence DEF FinitelyMany
<1>10. SoldUnits(p)' = SoldUnits(p)
  BY <1>1 DEF SoldUnits
<1> QED BY <1>1, <1>6, <1>7, <1>8, <1>9, <1>10 DEF OnBooks

\* A crash strands what the handlers in flight hold.
LEMMA CrashBooks ==
  ASSUME IInv, FinitelyMany, Crash, NEW p \in Products
  PROVE  OnBooks(p)' <= OnBooks(p) /\ OnBooks(p)' \in Int
<1> DEFINE held == [s \in Started |-> HeldOf(s, p)]
           heldNext == [s \in Started |-> HeldOf(s, p)']
<1>1. /\ Started' = Started /\ product' = product /\ orders' = orders
      /\ items' = items /\ undone' = undone
      /\ \A s \in Started : pc'[s] \in {pc[s], "dead"}
  BY DEF Crash, InFlight, Started, catalogueVars, database, locals
<1>2. \A s \in Started : HeldOf(s, p) \in Nat
  BY HeldLines DEF IInv, Started
<1>3. \A s \in Started : HeldOf(s, p)' = HeldOf(s, p) \/ HeldOf(s, p)' = 0
  <2>1. ASSUME NEW s \in Started, pc'[s] = pc[s]
        PROVE  HeldOf(s, p)' = HeldOf(s, p)
    BY <1>1, <2>1 DEF HeldOf, Held
  <2>2. ASSUME NEW s \in Started, pc'[s] = "dead"
        PROVE  HeldOf(s, p)' = 0
    BY <2>2, UnitsEmpty DEF HeldOf, Held
  <2> QED BY <1>1, <2>1, <2>2
<1>4. \A s \in Started : heldNext[s] \in Nat /\ held[s] \in Nat /\ heldNext[s] <= held[s]
  BY <1>2, <1>3
<1>5. HeldUnits(p) = SumFunctionOnSet(held, Started)
  BY DEF HeldUnits, HeldOf, held
<1>6. HeldUnits(p)' = SumFunctionOnSet(heldNext, Started)
  BY <1>1 DEF HeldUnits, HeldOf, heldNext
<1> HIDE DEF held, heldNext
<1>7. SumFunctionOnSet(heldNext, Started) <= SumFunctionOnSet(held, Started)
  BY <1>4, SumMonotone DEF FinitelyMany
<1>8. SumFunctionOnSet(heldNext, Started) \in Nat /\ SumFunctionOnSet(held, Started) \in Nat
  BY <1>4, SumIsNat DEF FinitelyMany
<1>9. SoldUnits(p)' = SoldUnits(p) /\ SoldUnits(p) \in Nat
  BY <1>1, SoldUnitsType DEF SoldUnits, IInv, FinitelyMany
<1>10. product[p].stock \in Int
  BY DEF IInv, TypeOK, VarsOK, CatalogueTypeOK, Row
<1> QED BY <1>1, <1>5, <1>6, <1>7, <1>8, <1>9, <1>10 DEF OnBooks

\* An admin edit changes what is supplied as it changes the stock.
LEMMA AdminBooks ==
  ASSUME IInv, FinitelyMany, Admin, NEW p \in Products
  PROVE  /\ OnBooks(p)' - supplied'[p] = OnBooks(p) - supplied[p] /\ edits' # 0
         /\ OnBooks(p)' \in Int /\ supplied'[p] \in Int
<1>1. PICK x \in Products : CreateProduct(x) \/ UpdateProduct(x) \/ RemoveProduct(x)
  BY DEF Admin, AdminNext
<1>2. PICK row : Edit(x, row) /\ row.stock \in Int
  <2>1. \A n \in StockLevels : n \in Int
    BY CatalogueAssumption
  <2>2. product[x].stock \in Int
    BY DEF IInv, TypeOK, VarsOK, CatalogueTypeOK, Row
  <2>3. CASE CreateProduct(x)
    BY <2>1, <2>3 DEF CreateProduct
  <2>4. CASE UpdateProduct(x)
    BY <2>1, <2>2, <2>4 DEF UpdateProduct
  <2>5. CASE RemoveProduct(x)
    BY <2>5 DEF RemoveProduct
  <2> QED BY <1>1, <2>3, <2>4, <2>5
<1>3. HeldUnits(p)' = HeldUnits(p) /\ SoldUnits(p)' = SoldUnits(p)
  BY DEF Admin, locals, database, HeldUnits, SoldUnits, Started, Held
<1>4. /\ product \in [Products -> Row] /\ supplied \in [Products -> Int] /\ edits \in Nat
      /\ product[p].stock \in Int
  BY DEF IInv, TypeOK, VarsOK, CatalogueTypeOK, Row
<1>5. HeldUnits(p) \in Nat /\ SoldUnits(p) \in Nat
  BY HeldUnitsType, SoldUnitsType DEF IInv, FinitelyMany
<1>6. product'[p].stock - supplied'[p] = product[p].stock - supplied[p]
  <2>1. CASE p = x
    BY <1>2, <1>4, <2>1 DEF Edit
  <2>2. CASE p # x
    BY <1>2, <1>4, <2>2 DEF Edit
  <2> QED BY <2>1, <2>2
<1>7. product'[p].stock \in Int /\ supplied'[p] \in Int /\ edits' # 0
  BY <1>2, <1>4 DEF Edit
<1> QED BY <1>3, <1>4, <1>5, <1>6, <1>7 DEF OnBooks

\* Only finitely many handlers have started and orders been made.
LEMMA FinitelyManyStep ==
  ASSUME IInv, FinitelyMany, [Next]_vars
  PROVE  FinitelyMany'
<1>1. ASSUME NEW r \in Requests, Step(r)
      PROVE  FinitelyMany'
  <2>1. \A s \in Requests \ {r} : Untouched(s)
    BY <1>1, HandlerFrame, FaultFrame DEF IInv, TypeOK, Step
  <2>2. pc[r] # "idle" /\ pc'[r] # "idle"
    BY <1>1 DEF Step, HandlerStep, FindPrior, Replay, ReadProduct, OutOfStock, ReserveLine,
         ReserveLastAndCharge, ChargeRejected, PushLine, CreatePayment, CreateOrder,
         AttachOrder, Rollback, Fault, LookupFails, LineFails, PaymentFails, OrderFails,
         AttachFails, RollbackFails, Goto, Answer, Abort, IInv, TypeOK, VarsOK
  <2>3. Started' = Started
    BY <2>1, <2>2 DEF Started, Untouched
  <2>4. orders' = orders \/ StoreOrder(r)
    BY <1>1, StepEffect DEF IInv, Step
  <2>5. IsFiniteSet(orders')
    BY <2>4, FS_AddElement DEF StoreOrder, FinitelyMany
  <2> QED BY <2>3, <2>5 DEF FinitelyMany
<1>2. ASSUME NEW r \in Requests, NEW j \in Jobs, Arrive(r, j)
      PROVE  FinitelyMany'
  <2>1. Started' = Started \cup {r} /\ orders' = orders
    BY <1>2 DEF Arrive, Goto, Started, database, IInv, TypeOK, VarsOK
  <2> QED BY <2>1, FS_AddElement DEF FinitelyMany
<1>3. CASE Crash \/ Admin \/ UNCHANGED vars
  <2>1. Started' = Started /\ orders' = orders
    BY <1>3 DEF Crash, InFlight, Admin, vars, Started, database
  <2> QED BY <2>1 DEF FinitelyMany
<1> QED BY <1>1, <1>2, <1>3 DEF Next, Environment, Step

\* The conditional update never lists or delists a product.
LEMMA DecrementKeepsListed ==
  ASSUME TypeOK, NEW x \in Products, NEW qty, DecrementStock(x, qty), NEW p \in Products
  PROVE  Listed(p)' <=> Listed(p)
BY DEF DecrementStock, Listed, TypeOK, VarsOK, CatalogueTypeOK, Row

\* A line is reserved only while its product is listed, and only an admin
\* delists one.
LEMMA BoughtAreListedStep ==
  ASSUME IInv, BoughtAreListed, [Next]_vars
  PROVE  BoughtAreListed'
<1>0. TypeOK /\ items \in [Requests -> Seq(Item)] /\ edits \in Nat
  BY DEF IInv, TypeOK, VarsOK, CatalogueTypeOK
<1>1. ASSUME NEW r \in Requests, Step(r)
      PROVE  BoughtAreListed'
  <2>1. edits' = edits
    BY <1>0, <1>1, StepsAloneHandler
       DEF Step, Fault, LookupFails, LineFails, PaymentFails, OrderFails, AttachFails,
           RollbackFails, CountFault
  <2>2. \/ product' = product
        \/ TakeLine(r) /\ pc[r] = "reserve"
        \/ RestoreLine(r) /\ pc[r] = "rollback"
    <3>1. CASE ReserveLine(r) \/ ReserveLastAndCharge(r) \/ ChargeRejected(r)
      BY <3>1 DEF ReserveLine, ReserveLastAndCharge, ChargeRejected, PushLine
    <3>2. CASE CreateOrder(r) \/ Rollback(r)
      BY <3>2 DEF CreateOrder, Rollback, catalogueVars
    <3>3. CASE Fault(r)
      BY <3>3 DEF Fault, LookupFails, LineFails, PaymentFails, OrderFails, AttachFails,
         RollbackFails
    <3> QED BY <1>0, <1>1, <3>1, <3>2, <3>3, QuietSteps DEF Step, HandlerStep
  <2>3. \A p \in Products : Listed(p)' <=> Listed(p)
    <3>1. CASE product' = product
      BY <3>1 DEF Listed
    <3>2. CASE TakeLine(r) /\ pc[r] = "reserve"
      <4>1. NextLine(r).product \in Products
        BY <1>0, <3>2, NextLineType DEF Line
      <4> QED BY <1>0, <3>2, <4>1, DecrementKeepsListed DEF TakeLine
    <3>3. CASE RestoreLine(r) /\ pc[r] = "rollback"
      <4>1. items[r][undone[r] + 1].product \in Products
        <5>1. undone[r] + 1 \in DOMAIN items[r]
          BY <1>0, <3>3 DEF TypeOK, VarsOK, AtLine
        <5> QED BY <1>0, <5>1, LineQuantity
      <4> QED BY <1>0, <3>3, <4>1, DecrementKeepsListed DEF RestoreLine
    <3> QED BY <2>2, <3>1, <3>2, <3>3
  <2>4. items' = items \/ PushLine(r)
    BY <1>1 DEF Step, HandlerStep, FindPrior, Replay, ReadProduct, OutOfStock, ReserveLine,
         ReserveLastAndCharge, ChargeRejected, CreatePayment, CreateOrder,
         AttachOrder, Rollback, Fault, LookupFails, LineFails, PaymentFails, OrderFails,
         AttachFails, RollbackFails, CountFault, locals
  <2>5. ASSUME edits' = 0, NEW s \in Requests, NEW i \in DOMAIN items'[s]
        PROVE  Listed(items[s][i].product)'
    <3>1. \A k \in DOMAIN items[s] : /\ items[s][k].product \in Products
                                     /\ Listed(items[s][k].product)
      BY <1>0, <2>1, <2>5, LineQuantity DEF BoughtAreListed
    <3>2. CASE items' = items \/ s # r
      <4>1. items'[s] = items[s]
        BY <1>0, <2>4, <3>2 DEF PushLine
      <4> QED BY <2>3, <2>5, <3>1, <4>1
    <3>3. CASE PushLine(r) /\ s = r
      <4> DEFINE d == [product |-> NextLine(r).product, price |-> price[r],
                       quantity |-> NextLine(r).quantity]
      <4>1. items'[s] = Append(items[s], d)
        BY <1>0, <3>3 DEF PushLine, Bought
      <4>2. d.product \in Products /\ Listed(d.product)
        BY <1>0, <3>3, NextLineType DEF PushLine, Matches, Line
      <4> HIDE DEF d
      <4>3. items'[s][i] = IF i \in DOMAIN items[s] THEN items[s][i] ELSE d
        BY <1>0, <2>5, <4>1
      <4> QED BY <2>3, <3>1, <4>2, <4>3
    <3> QED BY <2>4, <3>2, <3>3
  <2> QED BY <2>5 DEF BoughtAreListed
<1>2. CASE Admin
  <2>1. edits' # 0
    BY <1>0, <1>2 DEF Admin, AdminNext, CreateProduct, UpdateProduct, RemoveProduct, Edit
  <2> QED BY <2>1 DEF BoughtAreListed
<1>3. CASE Crash \/ UNCHANGED vars \/ \E r \in Requests, j \in Jobs : Arrive(r, j)
  <2>1. items' = items /\ product' = product /\ edits' = edits
    BY <1>3 DEF Crash, vars, Arrive, catalogueVars, locals
  <2> QED BY <2>1 DEF BoughtAreListed, Listed
<1> QED BY <1>1, <1>2, <1>3 DEF Next, Environment, Step

\* The books balance after any step.
LEMMA StockInvStep ==
  ASSUME IInv, StockInv, [Next]_vars
  PROVE  StockInv'
<1>0. TypeOK /\ TypeOK' /\ FinitelyMany /\ FinitelyMany' /\ BoughtAreListed /\ BoughtAreListed'
  BY TypeStep, FinitelyManyStep, BoughtAreListedStep DEF IInv, StockInv
<1>1. /\ faults \in Nat /\ crashes \in Nat /\ edits \in Nat
      /\ \A p \in Products : OnBooks(p) \in Int /\ supplied[p] \in Int
  <2>1. \A p \in Products : product[p].stock \in Int /\ supplied[p] \in Int
    BY <1>0 DEF TypeOK, VarsOK, CatalogueTypeOK, Row
  <2>2. \A p \in Products : HeldUnits(p) \in Nat /\ SoldUnits(p) \in Nat
    BY <1>0, HeldUnitsType, SoldUnitsType DEF FinitelyMany
  <2>3. faults \in Nat /\ crashes \in Nat /\ edits \in Nat
    BY <1>0, CheckoutAssumption DEF TypeOK, VarsOK, CatalogueTypeOK
  <2> QED BY <2>1, <2>2, <2>3 DEF OnBooks
<1>2. /\ faults = 0 => \A p \in Products : OnBooks(p) <= supplied[p]
      /\ Undisturbed /\ edits = 0 => \A p \in Products : OnBooks(p) = supplied[p]
  BY DEF StockInv, StockConserved, NeverOversold, OnBooks
<1>3. ASSUME NEW r \in Requests, HandlerStep(r)
      PROVE  StockConserved' /\ NeverOversold'
  <2>1. supplied' = supplied /\ edits' = edits
    BY <1>0, <1>3, StepsAloneHandler
  <2>2. faults' = faults /\ crashes' = crashes
    BY <1>3 DEF HandlerStep, FindPrior, Replay, ReadProduct, OutOfStock, ReserveLine,
         ReserveLastAndCharge, ChargeRejected, PushLine, CreatePayment, CreateOrder,
         AttachOrder, Rollback, bounds
  <2>3. \A p \in Products :
          /\ OnBooks(p)' <= OnBooks(p) /\ OnBooks(p)' \in Int
          /\ edits = 0 => OnBooks(p)' = OnBooks(p)
    BY <1>0, <1>3, HandlerBooks
  <2>4. /\ faults' = 0 => \A p \in Products : OnBooks(p)' <= supplied'[p]
        /\ Undisturbed' /\ edits' = 0 => \A p \in Products : OnBooks(p)' = supplied'[p]
    BY <1>1, <1>2, <2>1, <2>2, <2>3 DEF Undisturbed
  <2> QED BY <2>4 DEF StockConserved, NeverOversold, OnBooks
<1>4. ASSUME NEW r \in Requests, Fault(r)
      PROVE  StockConserved' /\ NeverOversold'
  <2>1. faults' # 0
    BY <1>1, <1>4 DEF Fault, LookupFails, LineFails, PaymentFails, OrderFails, AttachFails,
         RollbackFails, CountFault
  <2> QED BY <2>1 DEF StockConserved, NeverOversold, Undisturbed
<1>5. ASSUME NEW r \in Requests, NEW j \in Jobs, Arrive(r, j)
      PROVE  StockConserved' /\ NeverOversold'
  <2>1. \A p \in Products : OnBooks(p)' = OnBooks(p)
    BY <1>0, <1>5, ArriveBooks
  <2>2. supplied' = supplied /\ edits' = edits /\ faults' = faults /\ crashes' = crashes
    BY <1>5 DEF Arrive, catalogueVars, bounds
  <2>3. /\ faults' = 0 => \A p \in Products : OnBooks(p)' <= supplied'[p]
        /\ Undisturbed' /\ edits' = 0 => \A p \in Products : OnBooks(p)' = supplied'[p]
    BY <1>2, <2>1, <2>2 DEF Undisturbed
  <2> QED BY <2>3 DEF StockConserved, NeverOversold, OnBooks
<1>6. CASE Crash
  <2>1. \A p \in Products : OnBooks(p)' <= OnBooks(p) /\ OnBooks(p)' \in Int
    BY <1>0, <1>6, CrashBooks
  <2>2. supplied' = supplied /\ faults' = faults /\ crashes' # 0
    BY <1>1, <1>6 DEF Crash, catalogueVars
  <2>3. /\ faults' = 0 => \A p \in Products : OnBooks(p)' <= supplied'[p]
        /\ Undisturbed' /\ edits' = 0 => \A p \in Products : OnBooks(p)' = supplied'[p]
    BY <1>1, <1>2, <2>1, <2>2 DEF Undisturbed
  <2> QED BY <1>0, <2>3 DEF StockInv, StockConserved, NeverOversold, OnBooks
<1>7. CASE Admin
  <2>1. \A p \in Products : /\ OnBooks(p)' - supplied'[p] = OnBooks(p) - supplied[p]
                            /\ OnBooks(p)' \in Int /\ supplied'[p] \in Int
    BY <1>0, <1>7, AdminBooks
  <2>2. edits' # 0 /\ faults' = faults
    BY <1>1, <1>7 DEF Admin, AdminNext, CreateProduct, UpdateProduct, RemoveProduct, Edit, bounds
  <2>3. /\ faults' = 0 => \A p \in Products : OnBooks(p)' <= supplied'[p]
        /\ Undisturbed' /\ edits' = 0 => \A p \in Products : OnBooks(p)' = supplied'[p]
    BY <1>1, <1>2, <2>1, <2>2
  <2> QED BY <1>0, <2>3 DEF StockInv, StockConserved, NeverOversold, OnBooks
<1>8. CASE UNCHANGED vars
  <2>1. /\ product' = product /\ supplied' = supplied /\ edits' = edits
        /\ pc' = pc /\ items' = items /\ undone' = undone /\ orders' = orders
        /\ faults' = faults /\ crashes' = crashes
    BY <1>8 DEF vars, catalogueVars, locals, database, bounds
  <2>2. \A p \in Products : OnBooks(p)' = OnBooks(p)
    BY <2>1 DEF OnBooks, HeldUnits, SoldUnits, Held, Started
  <2>3. /\ faults' = 0 => \A p \in Products : OnBooks(p)' <= supplied'[p]
        /\ Undisturbed' /\ edits' = 0 => \A p \in Products : OnBooks(p)' = supplied'[p]
    BY <1>2, <2>1, <2>2 DEF Undisturbed
  <2> QED BY <1>0, <2>3 DEF StockInv, StockConserved, NeverOversold, OnBooks
<1> QED BY <1>0, <1>3, <1>4, <1>5, <1>6, <1>7, <1>8 DEF Next, Environment, StockInv

\* The books balance at the start.
LEMMA StockInvInit == Init => StockInv
<1> SUFFICES ASSUME Init PROVE StockInv
  OBVIOUS
<1>1. Started = {} /\ orders = {}
  BY DEF Init, Started
<1>2. \A p : HeldUnits(p) = 0 /\ SoldUnits(p) = 0
  BY <1>1, FS_EmptySet, SumStep DEF HeldUnits, SoldUnits
<1>3. \A p \in Products : product[p].stock \in Int /\ product[p].stock = supplied[p]
  BY CatalogueAssumption DEF Init, CatalogueInit, Row
<1>4. FinitelyMany
  BY <1>1, FS_EmptySet DEF FinitelyMany
<1>5. BoughtAreListed
  BY DEF Init, BoughtAreListed
<1>6. StockConserved /\ NeverOversold
  BY <1>2, <1>3 DEF StockConserved, NeverOversold
<1> QED BY <1>4, <1>5, <1>6 DEF StockInv

\* While nothing fails and no admin edits, every unit supplied is on the shelf,
\* held by one handler or sold in one order, for any number of concurrent
\* checkouts, carts and products (order.service.ts:52-77, 132-136).
THEOREM Conservation == Spec => []StockConserved
<1>1. Spec => []StockInv
  BY StockInvInit, StockInvStep, Invariant, PTL DEF Spec
<1>2. StockInv => StockConserved
  BY DEF StockInv
<1> QED BY <1>1, <1>2, PTL

\* While no database call fails, no unit is sold or held that was not supplied,
\* however many processes crash and whatever the admins do meanwhile
\* (product.repository.ts:29-35).
THEOREM Oversold == Spec => []NeverOversold
<1>1. Spec => []StockInv
  BY StockInvInit, StockInvStep, Invariant, PTL DEF Spec
<1>2. StockInv => NeverOversold
  BY DEF StockInv
<1> QED BY <1>1, <1>2, PTL

\* Nothing costs nothing.
LEMMA PriceEmpty == PriceOf(<<>>) = 0
<1>1. DOMAIN <<>> = {}
  OBVIOUS
<1> QED BY <1>1, FS_EmptySet, SumStep DEF PriceOf

\* A line adds its price times its quantity (order.service.ts:70, 77).
LEMMA PriceAppend ==
  ASSUME NEW lines \in Seq(Item), NEW d \in Item
  PROVE  PriceOf(Append(lines, d)) = PriceOf(lines) + d.price * d.quantity
<1> DEFINE more == Append(lines, d)
           k == Len(lines) + 1
           price0 == [i \in DOMAIN lines |-> lines[i].price * lines[i].quantity]
           price1 == [i \in DOMAIN more |-> more[i].price * more[i].quantity]
<1>1. /\ more \in Seq(Item) /\ DOMAIN more = DOMAIN lines \cup {k}
      /\ k \in DOMAIN more /\ k \notin DOMAIN lines /\ more[k] = d
      /\ \A i \in DOMAIN lines : more[i] = lines[i]
  OBVIOUS
<1>2. IsFiniteSet(DOMAIN lines)
  BY FS_Interval
<1>3. /\ \A i \in DOMAIN lines : price1[i] = price0[i]
      /\ price1[k] = d.price * d.quantity
  BY <1>1
<1>4. \A i \in DOMAIN lines : price0[i] \in Nat
  BY LineQuantity, ProductIsNat
<1>5. price1[k] \in Nat
  BY <1>3, ItemFields, ProductIsNat
<1>6. PriceOf(lines) = SumFunctionOnSet(price0, DOMAIN lines)
  BY DEF PriceOf
<1>7. PriceOf(more) = SumFunctionOnSet(price1, DOMAIN lines \cup {k})
  BY <1>1 DEF PriceOf
<1> HIDE DEF price0, price1, more, k
<1>8. SumFunctionOnSet(price1, DOMAIN lines \cup {k})
        = price1[k] + SumFunctionOnSet(price1, DOMAIN lines)
  BY <1>1, <1>2, <1>3, <1>4, <1>5, SumAdd
<1>9. SumFunctionOnSet(price1, DOMAIN lines) = SumFunctionOnSet(price0, DOMAIN lines)
  BY <1>2, <1>3, SumCongruence
<1>10. SumFunctionOnSet(price0, DOMAIN lines) \in Nat
  BY <1>2, <1>4, SumIsNat
<1>11. PriceOf(more) = price1[k] + PriceOf(lines) /\ PriceOf(lines) \in Nat
  BY <1>6, <1>7, <1>8, <1>9, <1>10
<1>12. PriceOf(more) = PriceOf(lines) + price1[k]
  BY <1>5, <1>11
<1> QED BY <1>3, <1>12 DEF more

\* Reserving a line appends the next line of the cart.
LEMMA ItemsMatchPush ==
  ASSUME TypeOK, NEW r \in Requests, ItemsMatch(r),
         ReserveLine(r) \/ ReserveLastAndCharge(r) \/ ChargeRejected(r)
  PROVE  ItemsMatch(r)'
<1> DEFINE d == [product |-> NextLine(r).product, price |-> price[r],
                 quantity |-> NextLine(r).quantity]
<1>1. /\ PushLine(r) /\ pc[r] = "reserve" /\ job' = job
      /\ items'[r] = Bought(r) /\ total'[r] = Sum(r)
      /\ Len(items[r]) < Len(job[r].cart) /\ items[r] \in Seq(Item)
      /\ pc'[r] \in {"pay", "order", "attach"} => IsLastLine(r)
  BY DEF ReserveLine, ReserveLastAndCharge, ChargeRejected, PushLine, Goto, Abort, TypeOK,
         VarsOK, AtLine
<1>2. d \in Item
  BY <1>1, NextLineType DEF Line, Item, TypeOK, VarsOK
<1>3. Bought(r) = Append(items[r], d)
  BY DEF Bought
<1>4. Sum(r) = PriceOf(items[r]) + d.price * d.quantity
  BY DEF Sum, ItemsMatch
<1>5. total'[r] = PriceOf(items'[r])
  BY <1>1, <1>2, <1>3, <1>4, PriceAppend
<1>6. d.product = NextLine(r).product /\ d.quantity = NextLine(r).quantity
  OBVIOUS
<1>7. /\ Len(items'[r]) = Len(items[r]) + 1
      /\ \A i \in DOMAIN items'[r] :
           items'[r][i] = IF i \in DOMAIN items[r] THEN items[r][i] ELSE d
      /\ \A i \in DOMAIN items'[r] : i \in DOMAIN items[r] \/ i = Len(items[r]) + 1
  <2> HIDE DEF d
  <2> QED BY <1>1, <1>2, <1>3
<1> HIDE DEF d
<1>8. \A i \in DOMAIN items'[r] :
        /\ items'[r][i].product = job'[r].cart[i].product
        /\ items'[r][i].quantity = job'[r].cart[i].quantity
  BY <1>1, <1>6, <1>7 DEF ItemsMatch, NextLine
<1>9. Len(items'[r]) <= Len(job'[r].cart)
  <2>1. job[r].cart \in Seq(Line)
    BY <1>1, CheckoutAssumption DEF CheckoutDTO, TypeOK, VarsOK, AtLine
  <2> QED BY <1>1, <1>7, <2>1
<1>10. pc'[r] \in {"pay", "order", "attach"} => Len(items'[r]) = Len(job'[r].cart)
  BY <1>1, <1>7 DEF IsLastLine
<1> QED BY <1>5, <1>8, <1>9, <1>10 DEF ItemsMatch

\* Only a reservation changes the lines of a handler.
LEMMA ItemsMatchOther ==
  ASSUME TypeOK, NEW r \in Requests, ItemsMatch(r), Step(r),
         ~(ReserveLine(r) \/ ReserveLastAndCharge(r) \/ ChargeRejected(r))
  PROVE  ItemsMatch(r)'
<1>1. items' = items /\ total' = total /\ job' = job
  BY DEF Step, HandlerStep, FindPrior, Replay, ReadProduct, OutOfStock, CreatePayment,
         CreateOrder, AttachOrder, Rollback, Fault, LookupFails, LineFails, PaymentFails,
         OrderFails, AttachFails, RollbackFails, CountFault, locals
<1>2. pc[r] # "idle"
  BY DEF Step, HandlerStep, FindPrior, Replay, ReadProduct, OutOfStock, CreatePayment,
         CreateOrder, AttachOrder, Rollback, Fault, LookupFails, LineFails, PaymentFails,
         OrderFails, AttachFails, RollbackFails
<1>3. pc'[r] \in {"pay", "order", "attach"} => pc[r] \in {"pay", "order", "attach"}
  BY DEF Step, HandlerStep, FindPrior, Replay, ReadProduct, OutOfStock, CreatePayment,
         CreateOrder, AttachOrder, Rollback, Fault, LookupFails, LineFails, PaymentFails,
         OrderFails, AttachFails, RollbackFails, Goto, Answer, Abort, TypeOK, VarsOK
<1> QED BY <1>1, <1>2, <1>3 DEF ItemsMatch

\* The lines of a handler stay the beginning of its cart.
LEMMA ItemsAreCartStep ==
  ASSUME IInv, ItemsAreCart, [Next]_vars
  PROVE  ItemsAreCart'
<1>0. TypeOK /\ \A s \in Requests : ItemsMatch(s)
  BY DEF IInv, ItemsAreCart, ItemsMatch
<1>1. ASSUME NEW r \in Requests, Step(r), NEW s \in Requests
      PROVE  ItemsMatch(s)'
  <2>1. CASE s = r
    BY <1>0, <1>1, <2>1, ItemsMatchPush, ItemsMatchOther
  <2>2. CASE s # r
    <3>1. Untouched(s)
      BY <1>0, <1>1, <2>2, HandlerFrame, FaultFrame DEF Step, TypeOK
    <3> QED BY <1>0, <3>1 DEF Untouched, ItemsMatch
  <2> QED BY <2>1, <2>2
<1>2. ASSUME NEW r \in Requests, NEW j \in Jobs, Arrive(r, j), NEW s \in Requests
      PROVE  ItemsMatch(s)'
  <2>1. items' = items /\ total' = total
    BY <1>2 DEF Arrive
  <2>2. CASE s = r
    <3>1. items[r] = <<>> /\ job'[r] = j /\ pc'[r] = "find"
      BY <1>0, <1>2 DEF Arrive, Goto, TypeOK, VarsOK, AtLine
    <3>2. j.cart \in Seq(Line)
      BY CheckoutAssumption DEF CheckoutDTO
    <3> QED BY <1>0, <2>1, <2>2, <3>1, <3>2 DEF ItemsMatch
  <2>3. CASE s # r
    <3>1. job'[s] = job[s] /\ pc'[s] = pc[s]
      BY <1>0, <1>2, <2>3 DEF Arrive, Goto, TypeOK, VarsOK
    <3> QED BY <1>0, <2>1, <3>1 DEF ItemsMatch
  <2> QED BY <2>2, <2>3
<1>3. ASSUME Crash \/ Admin \/ UNCHANGED vars, NEW s \in Requests
      PROVE  ItemsMatch(s)'
  <2>1. /\ items' = items /\ total' = total /\ job' = job
        /\ pc'[s] \in {pc[s], "dead"} /\ (pc[s] = "idle" => pc'[s] = "idle")
    BY <1>3 DEF Crash, InFlight, Admin, vars, locals
  <2> QED BY <1>0, <2>1 DEF ItemsMatch
<1> QED BY <1>1, <1>2, <1>3 DEF Next, Environment, Step, ItemsAreCart, ItemsMatch

\* An order is made from all the lines of the cart (order.service.ts:110-121).
LEMMA OrderMatchesStep ==
  ASSUME IInv, ItemsAreCart, OrderMatchesCart, [Next]_vars
  PROVE  OrderMatchesCart'
<1> DEFINE linesOf(its) == [i \in DOMAIN its |-> [product  |-> its[i].product,
                                                  quantity |-> its[i].quantity]]
<1>0. /\ TypeOK /\ orders \subseteq Order
      /\ \A o \in orders : o.id \in Requests /\ pc[o.id] # "idle"
      /\ \A o \in orders : linesOf(o.items) = job[o.id].cart /\ o.total = PriceOf(o.items)
  BY DEF IInv, TypeOK, VarsOK, Order, OrderOwner, OrderMatchesCart
<1>1. \A o \in orders : job'[o.id] = job[o.id]
  <2>1. ASSUME NEW r \in Requests, Step(r)
        PROVE  job' = job
    BY <1>0, <2>1, StepEffect DEF Step
  <2>2. ASSUME NEW r \in Requests, NEW j \in Jobs, Arrive(r, j)
        PROVE  \A o \in orders : job'[o.id] = job[o.id]
    BY <1>0, <2>2 DEF Arrive, TypeOK, VarsOK
  <2>3. CASE Crash \/ Admin \/ UNCHANGED vars
    BY <2>3 DEF Crash, Admin, vars, locals
  <2> QED BY <2>1, <2>2, <2>3 DEF Next, Environment, Step
<1>2. CASE orders' = orders
  BY <1>0, <1>1, <1>2 DEF OrderMatchesCart
<1>3. ASSUME NEW r \in Requests, pc[r] = "order", StoreOrder(r), job' = job
      PROVE  OrderMatchesCart'
  <2> DEFINE o == [id |-> r, items |-> items[r], total |-> total[r]]
  <2>1. /\ items[r] \in Seq(Item) /\ job[r].cart \in Seq(Line)
        /\ orders' = orders \cup {o}
    BY <1>0, <1>3, CheckoutAssumption DEF StoreOrder, CheckoutDTO, TypeOK, VarsOK, AtLine
  <2>2. /\ total[r] = PriceOf(items[r]) /\ Len(items[r]) = Len(job[r].cart)
        /\ \A i \in DOMAIN items[r] :
             /\ items[r][i].product = job[r].cart[i].product
             /\ items[r][i].quantity = job[r].cart[i].quantity
    BY <1>3 DEF ItemsAreCart, ItemsMatch
  <2>3. \A i \in DOMAIN job[r].cart :
          job[r].cart[i] = [product |-> job[r].cart[i].product,
                            quantity |-> job[r].cart[i].quantity]
    <3>1. \A i \in DOMAIN job[r].cart : job[r].cart[i] \in Line
      BY <2>1
    <3> QED BY <3>1 DEF Line
  <2>4. DOMAIN items[r] = DOMAIN job[r].cart
    BY <2>1, <2>2
  <2>5. linesOf(items[r]) = job[r].cart
    <3>1. job[r].cart = [i \in DOMAIN job[r].cart |-> job[r].cart[i]]
      BY <2>1
    <3>2. \A i \in DOMAIN items[r] : [product  |-> items[r][i].product,
                                      quantity |-> items[r][i].quantity] = job[r].cart[i]
      BY <2>2, <2>3, <2>4
    <3> QED BY <2>4, <3>1, <3>2
  <2> HIDE DEF linesOf
  <2>6. linesOf(o.items) = job'[o.id].cart /\ o.total = PriceOf(o.items)
    BY <1>3, <2>2, <2>5
  <2>7. \A q \in orders' : linesOf(q.items) = job'[q.id].cart /\ q.total = PriceOf(q.items)
    BY <1>0, <1>1, <2>1, <2>6
  <2> QED BY <2>7 DEF OrderMatchesCart, linesOf
<1>4. ASSUME NEW r \in Requests, Step(r)
      PROVE  OrderMatchesCart'
  <2>1. TypeOK /\ (HandlerStep(r) \/ Fault(r))
    BY <1>0, <1>4 DEF Step
  <2>2. orders' = orders \/ (pc[r] = "order" /\ StoreOrder(r))
    BY <2>1, StepEffect
  <2>3. job' = job
    BY <2>1, StepEffect
  <2> QED BY <1>2, <1>3, <2>2, <2>3
<1>5. CASE Crash \/ Admin \/ UNCHANGED vars \/ \E r \in Requests, j \in Jobs : Arrive(r, j)
  <2>1. orders' = orders
    BY <1>5 DEF Crash, Admin, vars, Arrive, database
  <2> QED BY <1>2, <2>1
<1> QED BY <1>4, <1>5 DEF Next, Environment, Step

\* No order at the start.
LEMMA OrdersMatchInit == Init => ItemsAreCart /\ OrderMatchesCart
BY PriceEmpty DEF Init, ItemsAreCart, ItemsMatch, OrderMatchesCart

\* Every order lists exactly the lines of the request's cart and its total is
\* their sum at the prices it lists, whatever fails (order.service.ts:52-77, 110-121).
THEOREM OrdersMatch == Spec => []OrderMatchesCart
<1>1. Spec => [](ItemsAreCart /\ OrderMatchesCart)
  BY OrdersMatchInit, ItemsAreCartStep, OrderMatchesStep, Invariant, PTL DEF Spec
<1> QED BY <1>1, PTL
=============================================================================
