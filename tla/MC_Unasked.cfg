SPECIFICATION Spec
CONSTANTS
  RetryDelays <- MC_RetryDelays
  MaxOrders = 1
  ShopOf <- MC_OneShop
  Reports <- MC_Reports
  StaleTimeout = 0
  MinConfidence = 7
  Shops = {"shop"}
  MaxRows = 3
  MaxLag = 0
  MaxInFlight = 2
  EventPhases = {}
  Lossy = FALSE
  WorkersDie = FALSE
  Requests = {}
  Rejections = FALSE
  MaxTasks = 1
  BatchSize = 1
  Operations = {}
  OrderEdits = {"cancelled"}
  CallEdits = {}
  MaxCrashes = 0
PROPERTIES
  DispatchOnlyPending
