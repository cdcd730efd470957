\* Registrations and Google sign-ins that overlap, and a changed email.
SPECIFICATION Spec
CONSTANTS
  None = None
  Requests = {r1, r2, r3, r4}
  Emails = {e1, e2}
  Subjects = {s1, s2}
  MaxRenames = 1
SYMMETRY IdentitySymmetry
CHECK_DEADLOCK FALSE
INVARIANTS
  OneAccountPerEmail
  SameAccountWhileEmailKept
