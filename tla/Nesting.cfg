SPECIFICATION FairSpec
CONSTANTS
  a = a
  b = b
  t = t
  u = u
  w = w
  MaxLaunches = 2
  Accounts = {a, b}
  Threads = {t, u, w}
  Owner <- MCOwner
  Unset = Unset
  Blank = Blank
  Raw = Raw
  Stale = Stale
  Managed = Managed
  MaxOutput = 1
INVARIANTS OwnAccountEverywhere BindsItsOwnSession NothingLeftRunning
PROPERTIES ProbeEnds
