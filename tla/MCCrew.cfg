SPECIFICATION Spec
CONSTANTS
  ada = ada
  bob = bob
  cyd = cyd
  o1 = o1
  opus = opus
  glm = glm
  NoOne = NoOne
  NoObj = NoObj
  Names <- MCNames
  Objectives <- MCObjectives
  Models <- OneSeat
  Denied = {}
  Floor = opus
  PeersOf <- NoSwap
  Ceiling = 2
  MaxTurns = 1
  MaxRuns = 3
  MaxRestarts = 9
SYMMETRY Symmetry
VIEW Control
CONSTRAINT NoShutdown
INVARIANTS
  TypeOK
  OneBody
  OneHandlePerAgent
  CrewNeverOutlivesManager
  DeadHoldNoReports
