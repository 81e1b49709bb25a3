CONSTANTS
  Outbound <- TwoCalls
  Inbound <- NoCalls
  Cli <- NoCalls
  MayAsk <- NoCalls
  MayCancel <- NoCalls
  Loads <- Smoothly
  MaxConcurrent = 1
  MaxJobs = 2
  MaxCrashes = 1
  RoomTimeouts = FALSE

SPECIFICATION FairSpec

PROPERTIES
  QueuedCallsGetSlots
