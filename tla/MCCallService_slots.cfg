CONSTANTS
  Outbound <- TwoCalls
  Inbound <- InboundCall
  Cli <- NoCalls
  MayAsk <- NoCalls
  MayCancel <- NoCalls
  Loads <- Meeting
  MaxConcurrent = 1
  MaxJobs = 2
  MaxCrashes = 0
  RoomTimeouts = FALSE

SPECIFICATION Spec

INVARIANTS
  ConcurrencyLimit
  OneDispatchPerCall
