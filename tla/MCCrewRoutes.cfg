SPECIFICATION Spec
CONSTANTS
  ada = ada
  bob = bob
  cyd = cyd
  o1 = o1
  opus = opus
  glm = glm
  NoOne = NoOne
  NoObj = NoObj
  Names <- Trio
  Objectives <- MCObjectives
  Models <- OneSeat
  Denied = {}
  Floor = opus
  PeersOf <- NoSwap
  Ceiling = 3
  MaxTurns = 1
  MaxRuns = 4
  MaxRestarts = 0
CONSTRAINT Settled
VIEW Control
PROPERTY RoutesOnlyToIdleOwner
