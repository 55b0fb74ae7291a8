SPECIFICATION Spec
CONSTANTS
  Processes = {p1, p2}
  c0 = c0
  c1 = c1
  c2 = c2
  c3 = c3
  x = x
  y = y
  d = d
  e = e
  Cursors = {c0, c1, c2, c3}
  NoCursor = NoCursor
  Buckets = {x, y}
  Bucket <- MCBucket
  Prefixes = {d, e}
  NoPrefix = NoPrefix
  Needs <- MCNeeds
  NoOne = NoOne
  Legacy = {c0}
  Quantum = 2
  FrameLength = 2
  PrefixLength <- MCPrefixLength
  MaxBytes = 20
  MaxObjects = 6
  MaxFaults = 2
INVARIANTS IssuedIsDurable WithinLimits ReplayNeedsNoSpace
PROPERTIES DurableForever
