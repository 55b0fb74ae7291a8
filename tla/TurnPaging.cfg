SPECIFICATION FairSpec
CONSTANTS
  Projections = {"canonical", "observation"}
  Budgets <- MCBudgets
  NoCursor = NoCursor
  MaxRecord = 3
  MaxLength = 3
  MaxWrites = 4
  MaxRewrites = 1
INVARIANTS ExactlyOnce CompletionIsTotal SequenceAgrees ReplayIdentical OnlyRewritesGoStale
PROPERTIES SnapshotCompletes NoTornPage
