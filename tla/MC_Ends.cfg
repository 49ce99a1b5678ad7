SPECIFICATION UntimedSpec
CONSTANTS
  RetryDelays <- MC_RetryDelays
  MaxOrders = 1
  ShopOf <- MC_OneShop
  Reports <- MC_OneReport
  StaleTimeout = 0
  MinConfidence = 7
  Shops = {"shop"}
  MaxRows = 3
  MaxLag = 0
  MaxInFlight = 2
  EventPhases = {"ended"}
  Lossy = TRUE
  WorkersDie = FALSE
  Requests = {}
  Rejections = FALSE
  MaxTasks = 1
  BatchSize = 1
  Operations = {}
  OrderEdits = {}
  CallEdits = {}
  MaxCrashes = 1
PROPERTIES
  EveryCallEnds
  NoLostWake
