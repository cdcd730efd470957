\* Every credential operation, overlapping.
SPECIFICATION Spec
CONSTANTS
  None = None
  Requests = {r1, r2, r3, r4}
  Operations = {"login", "changePassword", "magicRequest", "magicVerify", "setup", "enable", "disable", "verifyMfaLogin"}
  Passwords = {p1, p2, p3}
  Tokens = {t1, t2}
  Secrets = {s1, s2}
  MAX_LOGIN_ATTEMPTS = 2
  PASSWORD_HISTORY = 2
SYMMETRY AccountSymmetry
CHECK_DEADLOCK FALSE
INVARIANTS
  AccountTypeOK
  NoRecentReuse
  LockedForCause
  SecondFactorAsked
  EnabledIsProven
  LinkSingleUse
PROPERTIES
  LockStands
