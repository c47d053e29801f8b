CONSTANTS
  Capacity = 3
  Prices = {1}
  Volumes = {0, 1}
  RestVolumes = {2}
  TakeVolumes = {3}
  RestingIdSet = {i1}
  TransientId = t
  kAnonymous = anon
  OrderIds <- MCOrderIds
  Orders <- MCOrders
  Ops = {"place_order", "cancel_order", "add_order", "delete_order"}
  UniqueIds = TRUE
SPECIFICATION Spec
INVARIANT Cancellable
PROPERTY CallsReturn
