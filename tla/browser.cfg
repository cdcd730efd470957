\* Two tabs and two accounts; three acts of the visitors, one of which may be a
\* failing request and one a restart of the browser.
SPECIFICATION AccountPageSpec
CONSTANTS
  None = None
  Tabs = {t1, t2}
  Accounts = {ann, bob}
  Csrfs = {1, 2, 3, 4}
  Blank = ""
  Texts = {"", "Kathmandu", "a:b:c"}
  Lookalikes = {"a:b:c"}
  Stored <- MCStored
  Opened = {"account"}
  MaxActs = 3
  MaxFaults = 1
  MaxRestarts = 1
CHECK_DEADLOCK FALSE
SYMMETRY BrowserSymmetry
INVARIANTS
  NavShowsSession
  LoadingIsAsked
  NeverRefusedForCsrf
  SaveGoesHome
  SealedAtRest
PROPERTIES
  BouncedForCause
  SiblingsKept
  UntouchedKept
