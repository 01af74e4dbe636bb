SPECIFICATION Spec
CONSTANTS
  Names = {nightly}
  Agents = {ada, eve}
  NoOne = NoOne
  MaxRestarts = 1
  Speakers = {bob}
  FreeModels <- MCFree
  PaidModels <- MCPaid
  Ladder <- MCPaid
  Floor = "floor"
  Heart = "heart"
  Reserve <- MCReserve
  Attempts = 3
  Rungs = 3
  Strikes = 2
  MaxCeiling = 2
  FreeCap = 1
  Threshold = 1
  Full = 2
INVARIANTS
  TypeOK AlertHandedOn BillBounded DipAnnounced
PROPERTIES
  CallEnds RefillRestores
CHECK_DEADLOCK FALSE
