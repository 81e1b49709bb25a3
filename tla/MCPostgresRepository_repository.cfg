CONSTANTS
  Request = {"a", "b", "c", "d"}
  Session = {"a", "b", "c", "d", "v", "w"}
  Does <- DoesWhat
  KeyOf <- KeyOfRequest
  NoKey <- WithoutKey
  OwnerOf <- OwnerOfRequest
  Principal = "p"
  Rank <- IdOrder
  Client = "client"
  Loads <- SomeLoads
  PageSize = 1
  MaxTime = 3
  MaxDeaths = 1

SPECIFICATION FairSpec

INVARIANTS
  TypeOK
  KeyNamesOneCall
  PagesComplete

PROPERTIES
  RefinesMemory
  EverySessionServed
