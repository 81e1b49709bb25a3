CONSTANTS
  MaxTurns = 2
  ToolAsk = {"t1", "t2"}
  Amd = "amd"
  Client = {"r1", "r2"}
  Value = {"continue", "later"}
  Loads <- SomeLoads

SPECIFICATION FairSpec

INVARIANTS
  TypeOK
  ToldIsGiven
  TimeoutIsFinal
  SomebodyAsks

PROPERTIES
  NeverTalksOver
  OnlyWhenOwed
  SilentTurnHandled
  AskEnds
  VoiceJobEnds
