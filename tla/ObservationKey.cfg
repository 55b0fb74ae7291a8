SPECIFICATION FairSpec
CONSTANTS
  Processes = {p1, p2}
  Candidates = {a, b, c}
  NoKey = NoKey
  NoOne = NoOne
  MaxFaults = 1
INVARIANTS OneAuthority
PROPERTIES ImplementsAuthority Recovers
