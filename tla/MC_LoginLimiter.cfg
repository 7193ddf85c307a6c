\* Two keys, two overlapping logins, a map of one entry; the proportions of
\* the code (window = 3 lock units) and a threshold of 2.
CONSTANTS
  Keys = {k1, k2}
  Handlers = {h1, h2}
  LockThreshold = 2
  LockUnit = 1
  FailureWindow = 3
  LimiterMaxKeys = 1
  LoginTime = 1
  MaxTime = 9
  NoEntry = NoEntry
  Idle = Idle
SPECIFICATION Spec
SYMMETRY Symmetry
INVARIANT InFlightPredatesLock
INVARIANT LockMatchesFailures
INVARIANT ThresholdLocks
PROPERTY LockNeverShortened
PROPERTY NoEarlyForgiveness
PROPERTY GrowsOnlyWithLiveEntries
CHECK_DEADLOCK FALSE
