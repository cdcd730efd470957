\* Bursts at the edges of windows, denied addresses, failed writes and a restart.
SPECIFICATION GatewaySpec
CONSTANTS
  Rules = {"BRUTE_FORCE_IP", "IP_DENIED"}
  Addresses = {"home", "banned"}
  Emails = {}
  Actors = {"home", "banned"}
  Blocklist = {"banned"}
  Allowlist = {}
  MaxPassed <- Budgets
  LimitWindow = 3
  MaxWork = 6
  Threshold <- Thresholds
  Window <- Windows
  MaxAlerts = 2
  Limit = 1
  MaxEvents = 6
  MaxNow = 3
  MaxFaults = 1
  MaxRestarts = 1
CHECK_DEADLOCK FALSE
INVARIANTS
  GatewayTypeOK
  RefusedForCause
  RateIsBounded
  AlertsExactlyWhenDue
  ShownAreNewest
