----------------------------- MODULE MCGateway -----------------------------
(***************************************************************************)
(* Instances of Gateway for TLC.                                           *)
(***************************************************************************)
EXTENDS Gateway, TLC

\* A rule that needs a burst of failures of one address, and one that does not.
Thresholds == "BRUTE_FORCE_IP" :> 2 @@ "IP_DENIED" :> 1
Windows == "BRUTE_FORCE_IP" :> 2 @@ "IP_DENIED" :> 2

\* The limiters of the routes are the stricter ones.
Budgets == "global" :> 3 @@ "auth" :> 2 @@ "payment" :> 1
=============================================================================
