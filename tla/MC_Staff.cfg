SPECIFICATION Spec
CONSTANTS
  RetryDelays <- MC_RetryDelays
  MaxOrders = 1
  ShopOf <- MC_OneShop
  Reports <- MC_Reports
  StaleTimeout = 0
  MinConfidence = 7
  Shops = {"shop"}
  MaxRows = 4
  MaxLag = 0
  MaxInFlight = 2
  EventPhases = {}
  Lossy = FALSE
  WorkersDie = FALSE
  Requests = {"r"}
  Rejections = FALSE
  MaxTasks = 1
  BatchSize = 1
  Operations = {"queue","queueAll","retry","delete","window"}
  OrderEdits = {"unreachable"}
  CallEdits = {}
  MaxCrashes = 0
INVARIANTS
  OneOpenAttempt
PROPERTIES
  StaffDecisionStays
  RetriesSpaced
