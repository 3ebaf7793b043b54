\* Two runs of the desktop service with two configurations, one peer, two
\* selections and one paste; tokens are compared, never counted (TokenView).
SPECIFICATION Spec
CONSTANTS
  one = one
  two = two
  Callers = {"caller"}
  Subscribers = {"peer"}
  MaxSelections = 2
  MaxTransfers = 1
  Configs = {one, two}
  MaxRuns = 2
VIEW TokenView
SYMMETRY ConfigSymmetry
CHECK_DEADLOCK FALSE
INVARIANTS PasteIsNotOlder CopyUnderWay TokenKept ClosureNoticed NothingLeft ConnectionOutlives
