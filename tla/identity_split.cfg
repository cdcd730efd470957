\* A linked local account and a changed email.
SPECIFICATION Spec
CONSTANTS
  None = None
  Requests = {r1, r2, r3}
  Emails = {e1, e2}
  Subjects = {s1}
  MaxRenames = 1
SYMMETRY IdentitySymmetry
CHECK_DEADLOCK FALSE
INVARIANTS
  IdentityKeepsAccount
