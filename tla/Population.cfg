SPECIFICATION Spec
CONSTANTS
  Rollouts = {1, 2, 3}
  Sessions = {1, 2, 3}
  Identity <- MCIdentity
  Named <- MCNamed
  Limits = {1, 2}
  Sinces = {0, 1}
  MaxChanges = 2
  None = None
INVARIANTS EnumerationIsAccurate LookupIsDecisive
