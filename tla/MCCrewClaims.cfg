SPECIFICATION Spec
CONSTANTS
  ada = ada
  bob = bob
  cyd = cyd
  o1 = o1
  opus = opus
  glm = glm
  NoOne = NoOne
  NoObj = NoObj
  Names <- MCNames
  Objectives = {}
  Models <- OneSeat
  Denied = {}
  Floor = opus
  PeersOf <- NoSwap
  Ceiling = 2
  MaxTurns = 1
  MaxRuns = 2
  MaxRestarts = 0
CONSTRAINT NoShutdown
INVARIANT ClaimHasHolder
