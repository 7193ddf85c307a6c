CONSTANTS
  old = old
  v1 = v1
  v2 = v2
  empty = empty
  Values <- MCValues
  Legacy <- MCLegacy
  Loaded <- MCLoaded
  Fresh = empty
  NoFile = NoFile
  Torn = Torn
  Down = Down
SPECIFICATION Spec
INVARIANT ReportedMeansSaved
INVARIANT ServesFromModernFile
PROPERTY BackupKept
PROPERTY Implements
