SPECIFICATION ResidentSpec
CONSTANTS
  Processes = {p1, p2, p3}
  Templates = {a, b}
  NoTemplate = NoTemplate
  MaxFaults = 2
SYMMETRY Symmetric
INVARIANTS WrittenIsDurable PublishedIsWhole
