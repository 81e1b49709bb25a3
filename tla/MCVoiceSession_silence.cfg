CONSTANTS
  MaxTurns = 1
  ToolAsk = {"t1"}
  Amd = "amd"
  Client = {}
  Value = {"continue"}
  Loads <- Conversations

SPECIFICATION FairSpec

PROPERTIES
  SilenceRecovered
