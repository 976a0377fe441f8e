SPECIFICATION FrontSpec
CONSTANTS
  \* Four tabs without a manager and two with one, so that a tab is closed before,
  \* at and behind the active one, and two splits share a tab.
  MaxTabs = 4
  MaxManaged = 2
  MaxCollected = 1
  MaxSplits = 2
  Wakeful = {1}
  CheckpointIds = {"c1"}
  Windows <- FourWindows
  MaxWindows = 2
  MaxTabsPerWindow = 2
  MaxTotalTabs = 3
  MaxStored = 2
  PersistNormal = TRUE
  MaxCheckpoints = 1
  MaxSessions = 1
  Downloads = {d1, d2}
  Grants = {g1}
  \* A browser being closed next to one being created, two requests open.
  Urls = {"u1", "u2"}
  MaxBrowsers = 2
  MaxRequests = 2
  WebUrls = {"w1", "w2"}
  InternalUrls = {"home"}
  Media = {"m1", "m2"}
  ShellTabs = 2
  SearchUrl = "w2"
  \* Two full pages do not fit, so that both limits are met.
  Ids = {1, 2, 3}
  PageSize = 2
  MaxPages = 2
  MaxRecords = 3
INVARIANTS
  WindowIsSound
  RecoveryIsSound
  NothingOutlives
  RequestsAreAnswered
  ShellIsCurrent
  SyncIsSound
PROPERTIES
  OnlyTheClosedGoes
  RetryRemains
  ManagerNeverAhead
CHECK_DEADLOCK FALSE
