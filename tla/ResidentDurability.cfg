SPECIFICATION ResidentSpec
CONSTANTS
  Processes = {p1, p2}
  Templates = {a}
  NoTemplate = NoTemplate
  MaxFaults = 1
INVARIANTS RecordedIsDurable
