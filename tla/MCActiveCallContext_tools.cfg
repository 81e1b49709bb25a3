CONSTANTS
  CommitCalls = {"c1", "c2", "c3"}
  Facts = {}
  Candidates = {"k"}
  Asks = {"a"}
  Transfers = {}
  Finishes = {}
  Commitments = {"call", "accept"}
  CommitId <- SameCommitment
  Decision <- PolicyDecision
  Job = "job"
  NoOne = "no_one"
  MaxTurns = 2
  MaxEvents = 0
  MaxFaults = 1
  Ivr = TRUE
  MayCancel = TRUE
  Midnight = 3
  Weekday = {"tuesday", "thursday"}
  CallPermissions <- MayCommit
  CallConstraints <- Senseless
  ActionOf <- Proposals
  PayloadOf <- Slots

SPECIFICATION Spec

INVARIANTS
  ToldIsDurable
  LoggedOnce
  TranscriptPrefix
