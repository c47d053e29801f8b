CONSTANTS
  Capacity = 3
  Prices = {1}
  Volumes = {0, 1, 2}
  RestVolumes = {2}
  TakeVolumes = {2}
  RestingIdSet = {i1}
  TransientId = t
  kAnonymous = anon
  OrderIds <- MCOrderIds
  Orders <- MCOrders
  Ops = {"add_order", "delete_order", "set_level"}
  UniqueIds = TRUE
SPECIFICATION Spec
INVARIANTS SlotsPartitioned TotalsExact
PROPERTIES CallsReturn Refines
