SPECIFICATION WorkerSpec
CONSTANTS
  Prebuffer = 2
  SilenceLimit = 1
  MaxQueue = 4
INVARIANTS
  VoiceCallTypeOK
  NothingLeftRunning
PROPERTIES
  DecisionStays
  GoodbyeHeard
  CallFinishes
  NoEndlessCall
CHECK_DEADLOCK FALSE
