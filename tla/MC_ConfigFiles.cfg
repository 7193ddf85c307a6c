SPECIFICATION Spec
CONSTANTS
  Paths = {p1, p2}
  Kinds <- Ordinary
  Revisions = {1}
  Handlers = {h1, h2}
  Reads = {r1}
  None = None
SYMMETRY Symmetry
CONSTRAINT OnTime
INVARIANTS
  TypeOK
  TextsStayWithTheirFile
PROPERTIES
  Implements
