\* One caller deletes a target while it is scraped.
CONSTANTS
  Ids = {t1}
  Passwords = {p1}
  Blank = Blank
  Handlers = {h1}
  Scrapers = {w1}
  MaxPoints = 2
  None = None
SPECIFICATION Spec
INVARIANT DeletedHistoryIsGone
