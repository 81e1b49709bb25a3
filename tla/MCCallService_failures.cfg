CONSTANTS
  Outbound <- Requests
  Inbound <- InboundCall
  Cli <- NoCalls
  MayAsk <- ThirdCall
  MayCancel <- Cancelled
  Loads <- Failing
  MaxConcurrent = 1
  MaxJobs = 2
  MaxCrashes = 0
  RoomTimeouts = TRUE

SPECIFICATION FairSpec

INVARIANTS
  TypeOK
  NoAbandonedCall

PROPERTIES
  LegalTransitions
  EveryCallEnds
  CancelledJobsEnd
