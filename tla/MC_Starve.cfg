SPECIFICATION FairSpec
CONSTANTS
  RetryDelays <- MC_NoDelays
  MaxOrders = 2
  ShopOf <- MC_OneShop
  Reports <- MC_Confirms
  StaleTimeout = 0
  MinConfidence = 7
  Shops = {"shop"}
  MaxRows = 3
  MaxLag = 0
  MaxInFlight = 2
  EventPhases = {}
  Lossy = FALSE
  WorkersDie = FALSE
  Requests = {}
  Rejections = TRUE
  MaxTasks = 1
  BatchSize = 1
  Operations = {}
  OrderEdits = {}
  CallEdits = {}
  MaxCrashes = 0
PROPERTIES
  EveryOrderCalled
