\* One call at a time, three releases.
CONSTANTS
  Handlers = {h1}
  MaxRelease = 3
  Dev = Dev
  Garbage = Garbage
  None = None
SPECIFICATION FairSpec
INVARIANT TypeOK
INVARIANT ExeIsWhole
INVARIANT AnnouncedIsInstalled
PROPERTY AnnouncedRuns
