SPECIFICATION Spec
CONSTANTS
  Requests = {r1, r2}
  Providers = {p1, p2}
  Roots = {host, resident}
  Threads = {t1, t2}
  NoThread = NoThread
  NoOne = NoOne
  Failures = {}
  Types = {}
  Ends = {"nonzero"}
  MaxDeaths = 1
SYMMETRY Symmetric
INVARIANTS RunsOnce ResumesSerialized OneIdentity RefusalIsClean
