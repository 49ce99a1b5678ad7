SPECIFICATION Spec
CONSTANTS
  RetryDelays <- MC_RetryDelays
  MaxOrders = 1
  ShopOf <- MC_OneShop
  Reports <- MC_AllReports
  StaleTimeout = 0
  MinConfidence = 7
  Shops = {"shop"}
  MaxRows = 3
  MaxLag = 0
  MaxInFlight = 2
  EventPhases = {}
  Lossy = TRUE
  WorkersDie = TRUE
  Requests = {}
  Rejections = FALSE
  MaxTasks = 1
  BatchSize = 1
  Operations = {}
  OrderEdits = {}
  CallEdits = {}
  MaxCrashes = 1
INVARIANTS
  TypeOK
  PhonedOncePerAttempt
  OrderMatchesCalls
PROPERTIES
  EndedCallStays
  ImplementsPromise
