SPECIFICATION WebSpec
CONSTANTS
  Emails = {e1, e2}
  Passwords = {p1, p2}
  Requests = {r1, r2}
  AdminEmail = e2
  AdminPassword = p1
  None = None
  MaxFresh = 3
  LastTick = 3
  Tasks = {1, 2}
  MaxLine = 2
  MaxPosts = 2
  StaffLines = 1
  Tabs = {t1, t2}
  Times = {540, 600}
  Payments = TRUE
  Tokens = {"tok_test_visa", "tok_test_declined", "tok_card", "none"}
  Tried = {"starter", "pro"}
  Declared = {"20_50"}
  MaxPayments = 2
  Merchants = {1, 2}
  Moments = {13, 26, 44}
  OrderRows = {1, 2}
  CallRows = {1, 2}
  MaxFacts = 5
  Sold = {"starter"}
  Queue = {2}
  LastAttempts = {2}
  Fragments = {1, 2}
  MaxPosted = 2
  ShopOrders = {1, 2}
  FinalDial = 1
  MaxDials = 2
  ShopMoments = {13, 26}
  Visits = {v1, v2}
  Sales = {o1}
  MaxWrites = 1
  Rows <- MC_Rows
  Headers <- MC_Headers
  MaxRowsIn = 3
  ImportLimit = 2
  MaxMessages = 3
  FieldValues = {"", "a", "b"}
  System = "a"
  MaxSaves = 2
  MaxOthers = 1
  MaxTyped = 3
  MaxItems = 2
  MaxSends = 3
  LabCalls = {1}
  TestCall = 2
  MaxRuns = 3
  MaxWaiting = 2
  MaxMoves = 2
INVARIANTS
  ShopFiguresAgree
  PagesStayCurrent
  ImportKeepsRows
  WebTypeOK
  ResetLinkOnce
  AvatarStored
  TranscriptLacksOnlyOverlapped
  UploadedIsStored
  CompletedShopIsCallable
  PaidPlanWasPaid
  RedirectsLead
  FiguresAgree
  RevenueSplits
  AgentWordKept
  SessionAccountedFor
  FormsKeepTheirWord
PROPERTIES
  NewSessionWorks
  RefusedStaysRefused
  CohortFiguresFinal
  FinishedCallStays
CHECK_DEADLOCK FALSE
