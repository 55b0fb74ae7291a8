SPECIFICATION FairSpec
CONSTANTS
  Releases = {r, s}
  Absent = Absent
  Partial = Partial
  Linked = Linked
  MaxInstalls = 2
  MaxFailures = 2
  Threads = {t, u}
  NoThread = NoThread
  Calls = {c}
  Unread = Unread
CHECK_DEADLOCK FALSE
INVARIANTS ReportIsTrue Recoverable OneRelease DispatchIsRegistered
PROPERTIES RegistrationEnds
