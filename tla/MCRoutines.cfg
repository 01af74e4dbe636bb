SPECIFICATION Spec
CONSTANTS
  Names = {nightly, review}
  Agents = {ada}
  NoOne = NoOne
  MaxRestarts = 1
PROPERTIES
  EveryDueRuns
CHECK_DEADLOCK FALSE
