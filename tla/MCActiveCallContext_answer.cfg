CONSTANTS
  CommitCalls = {"c1"}
  Facts = {}
  Candidates = {}
  Asks = {"a"}
  Transfers = {}
  Finishes = {}
  Commitments = {"book"}
  CommitId <- TwoCommitments
  Decision <- PolicyDecision
  Job = "job"
  NoOne = "no_one"
  MaxTurns = 0
  MaxEvents = 0
  MaxFaults = 0
  Ivr = FALSE
  MayCancel = FALSE
  Midnight = 3
  Weekday = {"tuesday", "thursday"}
  CallPermissions <- MayCommit
  CallConstraints <- Workdays
  ActionOf <- Proposals
  PayloadOf <- Slots

SPECIFICATION Spec

INVARIANTS
  CompletedKeepsTold
