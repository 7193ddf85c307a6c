\* Two calls overlap, one release.
CONSTANTS
  Handlers = {h1, h2}
  MaxRelease = 1
  Dev = Dev
  Garbage = Garbage
  None = None
SPECIFICATION Spec
SYMMETRY Symmetry
INVARIANT ExeIsWhole
