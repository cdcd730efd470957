\* One link verified by two overlapping requests.
SPECIFICATION Spec
CONSTANTS
  None = None
  Requests = {r1, r2, r3}
  Operations = {"magicRequest", "magicVerify"}
  Passwords = {p1}
  Tokens = {t1}
  Secrets = {s1}
  MAX_LOGIN_ATTEMPTS = 2
  PASSWORD_HISTORY = 1
SYMMETRY AccountSymmetry
CHECK_DEADLOCK FALSE
INVARIANTS
  AcceptedOnce
