\* One target, one caller of the API, two scrapes at a time.
CONSTANTS
  Ids = {t1}
  Passwords = {p1}
  Blank = Blank
  Handlers = {h1}
  Scrapers = {w1, w2}
  MaxPoints = 2
  None = None
SPECIFICATION FairSpec
INVARIANT NoLostRefresh
PROPERTY SavedHistoryNeverGoesBack
PROPERTY EditsReachTheMonitor
PROPERTY ScrapesEnd
