SPECIFICATION ReadingsSpec
CHECK_DEADLOCK FALSE
CONSTANTS
  Totals = {"traffic_in"}
  Names = {"p"}
  Types = {"tcp"}
  Values = {0, 1, 2}
  MaxMetrics = 3
  Keys = {"addr", "token", "domains"}
  Lists = {"domains"}
  Tables = {"auth", "common", "COMMON"}
  MaxLines = 5
  Bytes = {"x"}
  Newline = "|"
  BlockSize = 2
  MaxTail = 2
  MaxSize = 8
  Scrapers = {w1, w2}
  Timeout = 2
  MaxDelay = 1
  MaxTraffic = 5
  None = None
  MaxAudit = 3
  MaxPageSize = 2
  DefaultSize = 1
  Callers = {c1, c2}
  MaxEntries = 5
  MaxLosses = 1
SYMMETRY Symmetry
INVARIANTS
  MetricsAreRead
  TomlKeysAreInTheirScope
  IniKeysAreInTheirSection
  TailIsTheEnd
  RatesTypeOK
  RatesStayPlausible
  NewestAreKept
  ClearLeavesATrace
  PagesMissNothing
