CONSTANTS
  Outbound <- OneCall
  Inbound <- NoCalls
  Cli <- OneCall
  MayAsk <- NoCalls
  MayCancel <- NoCalls
  Loads <- Alone
  MaxConcurrent = 1
  MaxJobs = 4
  MaxCrashes = 1
  RoomTimeouts = TRUE

SPECIFICATION Spec

INVARIANTS
  AtMostOneDial
  OneAgentPerCall
