CONSTANTS
  Outbound <- OneCall
  Inbound <- NoCalls
  Cli <- NoCalls
  MayAsk <- NoCalls
  MayCancel <- OneCall
  Loads <- Smoothly
  MaxConcurrent = 1
  MaxJobs = 1
  MaxCrashes = 0
  RoomTimeouts = FALSE

SPECIFICATION Spec

INVARIANTS
  CancelHangsUp
