CONSTANTS
  Capacity = 3
  Prices = {1, 2}
  Volumes = {1, 2, 3}
  RestVolumes = {2}
  TakeVolumes = {3}
  RestingIdSet = {i1, i2, i3}
  TransientId = t
  kAnonymous = anon
  OrderIds <- MCOrderIds
  Orders <- MCOrders
  Ops = {"place_order", "cancel_order"}
  UniqueIds = TRUE
SYMMETRY IdSymmetry
SPECIFICATION Spec
INVARIANTS
  TypeOK SidesSorted ListsLinked SlotsPartitioned TotalsExact Cancellable
  IndexLive NeverCrossed FillOrKillFills TradesBestFirst AbortsOnlyWhenFull
PROPERTY Refines
