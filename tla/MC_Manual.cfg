SPECIFICATION Spec
CONSTANTS
  RetryDelays <- MC_NoDelays
  MaxOrders = 1
  ShopOf <- MC_OneShop
  Reports <- MC_Confirms
  StaleTimeout = 0
  MinConfidence = 7
  Shops = {"shop"}
  MaxRows = 3
  MaxLag = 0
  MaxInFlight = 1
  EventPhases = {"live"}
  Lossy = FALSE
  WorkersDie = FALSE
  Requests = {"r"}
  Rejections = TRUE
  MaxTasks = 1
  BatchSize = 1
  Operations = {"dispatch","delete","window"}
  OrderEdits = {}
  CallEdits = {}
  MaxCrashes = 0
INVARIANTS
  OneWorker
  CounterIsExact
