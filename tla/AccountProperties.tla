------------------------- MODULE AccountProperties -------------------------
(***************************************************************************)
(* What makes Account correct although every handler decides from a        *)
(* snapshot of the document that others may have updated since.            *)
(***************************************************************************)
EXTENDS Account

\* A handler past its find holds the document that lets it go on, a request
\* that carries a link or a code carries one the user was given, and the failure
\* counter stays below the limit.
AccountTypeOK ==
  /\ user \in User
  /\ pc \in [Requests -> {"idle", "find", "write", "done"}]
  /\ \A r \in Requests : pc[r] # "idle" <=> job[r] # None
  /\ \A r \in Requests : pc[r] = "write" <=> seen[r] # None
  /\ \A r \in Requests : pc[r] = "write" => seen[r] \in User
  /\ reply \in [Requests -> {"none", "ok", "session", "challenge", "400", "401", "429"}]
  /\ links \subseteq Tokens /\ shown \subseteq Secrets
  /\ challenges \subseteq Requests
  /\ past \in Seq(Passwords) /\ raced \in BOOLEAN
  /\ guarded \subseteq Requests /\ late \subseteq Requests

----------------------------------------------------------------------------
(* Passwords.                                                              *)

Distinct(window) ==
  \A i, j \in DOMAIN past : i < j /\ j - i <= window => past[i] # past[j]

\* Unless two changes overlap, a new password is none of the account's last
\* PASSWORD_HISTORY (auth.service.ts:145), over any number of changes. When they
\* do, both compare with one history and the second write drops what the first
\* one added.
NoRecentReuse == ~raced => Distinct(PASSWORD_HISTORY)

\* The requests answered that the password is wrong.
Wrong == {r \in Requests : pc[r] = "done" /\ job[r].op = "login" /\ reply[r] = "401"}

\* Whatever overlaps, the counter and the lock are never ahead of the wrong
\* passwords actually sent: nobody is locked out for less than the limit.
LockedForCause ==
  /\ user.failed <= Cardinality(Wrong)
  /\ user.locked => Cardinality(Wrong) >= MAX_LOGIN_ATTEMPTS

\* A lock ends by its deadline or by a login that proves the password, never by
\* a wrong password or by another operation on the account.
LockStands ==
  [][user.locked /\ ~user'.locked =>
       \/ user' = [user EXCEPT !.locked = FALSE] /\ UNCHANGED reply
       \/ \E r \in Requests :
            /\ pc[r] = "write" /\ job[r].op = "login"
            /\ reply'[r] \in {"session", "challenge"}]_vars

----------------------------------------------------------------------------
(* Second factor.                                                          *)

\* While MFA has been on since before the request arrived, a password or a link
\* alone gets a challenge, never a session (src/README.md:62).
SecondFactorAsked ==
  \A r \in guarded :
    job[r].op \in {"login", "magicVerify"} => reply[r] # "session"

\* MFA is on with the secret the user has confirmed by a code, also when setups
\* and confirmations overlap (mfa.service.ts:27-32).
EnabledIsProven ==
  /\ user.mfaEnabled <=> user.mfaSecret # None
  /\ user.mfaEnabled =>
       \E r \in Requests :
         /\ pc[r] = "done" /\ job[r].op = "enable" /\ reply[r] = "ok"
         /\ job[r].code = user.mfaSecret

----------------------------------------------------------------------------
(* Magic links.                                                            *)

\* A link is single-use: once it was accepted, a request that arrives with it is
\* refused for ever, whatever links are mailed meanwhile.
LinkSingleUse == \A r \in late : ~Accepted(r)

\* The same for requests that overlap (passwordless.service.ts:60-61).
AcceptedOnce ==
  \A q, r \in Requests :
    Accepted(q) /\ Accepted(r) /\ job[q].token = job[r].token => q = r
=============================================================================
