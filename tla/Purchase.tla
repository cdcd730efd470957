------------------------------ MODULE Purchase ------------------------------
(***************************************************************************)
(* What a checkout promises, whatever fails inside it: each idempotency    *)
(* key gets at most one decision about its payment, a decision is never    *)
(* revised, and only an approved one is fulfilled, once, for its amount.   *)
(***************************************************************************)
EXTENDS Integers

CONSTANT Keys

VARIABLES decided,   \* set of [key, status, amount]
          fulfilled  \* set of [key, total]

vars == <<decided, fulfilled>>

Init == decided = {} /\ fulfilled = {}

Decision == [key : Keys, status : {"approved", "declined"}, amount : Nat \ {0}]

\* The payment attempt of a key is settled, for good: approved or declined.
Decide ==
  /\ \E d \in decided' :
       /\ d \in Decision
       /\ \A e \in decided : e.key # d.key
       /\ decided' = decided \cup {d}
  /\ UNCHANGED fulfilled

\* An approved attempt that has no order yet gets one.
Fulfil(d) ==
  /\ d.status = "approved"
  /\ \A f \in fulfilled : f.key # d.key
  /\ fulfilled' = fulfilled \cup {[key |-> d.key, total |-> d.amount]}
  /\ UNCHANGED decided

Next == Decide \/ \E d \in decided : Fulfil(d)

Spec == Init /\ [][Next]_vars
=============================================================================
