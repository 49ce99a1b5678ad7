SPECIFICATION Spec
CONSTANTS
  RetryDelays <- MC_RetryDelays
  MaxOrders = 1
  ShopOf <- MC_OneShop
  Reports <- MC_Reports
  StaleTimeout = 0
  MinConfidence = 7
  Shops = {"shop"}
  MaxRows = 3
  MaxLag = 0
  MaxInFlight = 2
  EventPhases = {"live"}
  Lossy = TRUE
  WorkersDie = TRUE
  Requests = {"r"}
  Rejections = FALSE
  MaxTasks = 2
  BatchSize = 1
  Operations = {"dispatch"}
  OrderEdits = {}
  CallEdits = {}
  MaxCrashes = 0
INVARIANTS
  NeverDispatchedTwice
