SPECIFICATION FairSpec
CONSTANTS
  c1 = c1
  c2 = c2
  Client <- Connections
  Prompt <- PromptOnes
  Address <- Addresses
  ReqLen = 2
  Batch = 2
  ReqCap = 2
  RespCap = 1
  MaxRequests <- Requests
  PageSize = 2
  Dump <- Dumps
  Zero = Zero
  Garbage = Garbage
  Nothing = Nothing
  OpenMayFail = TRUE
INVARIANTS
  MapFaithful
PROPERTIES
  ImplementsProtocol
  BatchAnswered
