\* Every ceremony, overlapping with removals.
SPECIFICATION Spec
CONSTANTS
  None = None
  Requests = {r1, r2, r3, r4, r5}
  Operations = {"registerOptions", "registerVerify", "loginOptions", "loginVerify", "remove"}
  Challenges = {c1, c2, c3}
  Credentials = {k1, k2, k3}
  Devices = {phone, key}
  Counting = {key}
  Before = {k1}
SYMMETRY CeremonySymmetry
CHECK_DEADLOCK FALSE
INVARIANTS
  PasskeysTypeOK
  ReportedIsStored
  NeverTakenForClone
