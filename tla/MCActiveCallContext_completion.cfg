CONSTANTS
  CommitCalls = {"c1", "c3"}
  Facts = {"f"}
  Candidates = {}
  Asks = {}
  Transfers = {"x"}
  Finishes = {"e"}
  Commitments = {"book", "accept"}
  CommitId <- TwoCommitments
  Decision <- PolicyDecision
  Job = "job"
  NoOne = "no_one"
  MaxTurns = 0
  MaxEvents = 1
  MaxFaults = 1
  Ivr = FALSE
  MayCancel = TRUE
  Midnight = 3
  Weekday = {"tuesday", "thursday"}
  CallPermissions <- MayCommit
  CallConstraints <- Workdays
  ActionOf <- Proposals
  PayloadOf <- Slots

SPECIFICATION FairSpec

INVARIANTS
  TypeOK
  CompletedKeepsTold
  EndedOnce
  ToldIsPermitted

PROPERTIES
  JobEnds
  LedgerSpec
