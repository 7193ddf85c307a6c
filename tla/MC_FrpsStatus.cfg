CONSTANTS
  Addrs = {a1, a2}
  Scrapers = {w1, w2, w3}
  Interval = 2
  Timeout = 2
  MaxDelay = 1
  None = None
SPECIFICATION Spec
SYMMETRY Symmetry
INVARIANT StatusSettles
INVARIANT ScrapesStayFew
