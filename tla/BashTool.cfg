SPECIFICATION FairSpec
CONSTANTS
  c1 = c1
  c2 = c2
  Calls = {c1, c2}
  t1 = t1
  t2 = t2
  Threads = {t1, t2}
  NoThread = NoThread
  Resumed = NoThread
CHECK_DEADLOCK FALSE
INVARIANTS AbortedWorkIsCancelled OutputSurvives ObservedBeforeSettled DispatchIsBound OneOwner
PROPERTIES SyncWorkEnds
