CONSTANTS
  Local = {"w1", "w2"}
  Remote = {}
  Sink = 2
  QueueSize = 2
  Kind = {"plain", "input", "cancelled"}
  MaxEvents = 3

SPECIFICATION FairSpec

INVARIANTS
  TypeOK
  CriticalKept
  WriterOrder
  StreamIsLog

PROPERTIES
  EveryEventStreamed
  CriticalOffered
  FlushedAtClose
  CloseEnds

CHECK_DEADLOCK FALSE
