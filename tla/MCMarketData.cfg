CONSTANTS
  Capacity = 4
  Prices = {1, 2, 3}
  Volumes = {0, 1, 2}
  OrderIds = {anon}
  kAnonymous = anon
  Orders = {}
  Ops = {"add_order", "set_level"}
  UniqueIds = TRUE
  PriceSpan = 16
  MaxPasses = 2
  MaxUpdates = 3
  Changes <- MCChanges
  Notices <- MCNotices
SPECIFICATION MarketSpec
INVARIANTS FeedContiguous Reconstructs SteadyState ShowsLiveBook
PROPERTY ToolsEnd
