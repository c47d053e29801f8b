CONSTANTS
  Capacity = 2
  Prices = {1, 2}
  Volumes = {1}
  RestVolumes = {1}
  TakeVolumes = {1}
  RestingIdSet = {i1}
  TransientId = t
  kAnonymous = anon
  OrderIds <- MCOrderIds
  Orders <- MCOrders
  Ops = {"place_order", "cancel_order"}
  UniqueIds = FALSE
SPECIFICATION Spec
INVARIANT Cancellable
