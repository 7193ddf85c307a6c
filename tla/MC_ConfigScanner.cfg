\* One file, one call at a time besides the loop, two writes.
CONSTANTS
  Files = {f1}
  Handlers = {h1}
  Loop = loop
  MaxWrites = 2
  None = None
SPECIFICATION FairSpec
PROPERTY QuietRefreshIsExact
PROPERTY OnlyScansList
PROPERTY ContentSettles
PROPERTY StatusSettles
