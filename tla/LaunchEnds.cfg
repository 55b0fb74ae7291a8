SPECIFICATION Spec
CONSTANTS
  Requests = {r1}
  Providers = {p1}
  Roots = {host}
  Threads = {t1, t2}
  NoThread = NoThread
  NoOne = NoOne
  Failures = {"quota_exhausted_inband", "rate_limited"}
  Types = {"agent_message", "turn.completed", "turn.failed", "error"}
  Ends = {"zero", "nonzero", "signal"}
  MaxDeaths = 1
INVARIANTS SuccessIsEarned SignalIsTheLastError
