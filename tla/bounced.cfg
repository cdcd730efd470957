\* One tab, in which nothing fails.
SPECIFICATION Spec
CONSTANTS
  None = None
  Tabs = {t1}
  Accounts = {ann}
  Csrfs = {1, 2, 3}
  Opened = {"shop"}
  MaxActs = 3
  MaxFaults = 0
  MaxRestarts = 0
CHECK_DEADLOCK FALSE
PROPERTIES
  OnlyAnonymousBounced
