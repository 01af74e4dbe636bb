SPECIFICATION FairSpec
CONSTANTS
  ada = ada
  bob = bob
  cyd = cyd
  o1 = o1
  opus = opus
  glm = glm
  NoOne = NoOne
  NoObj = NoObj
  Names <- Solo
  Objectives = {}
  Models <- TwoSeats
  Denied <- MCDenied
  Floor = opus
  PeersOf <- NoPeers
  Ceiling = 2
  MaxTurns = 1
  MaxRuns = 3
  MaxRestarts = 1
INVARIANTS
  ChatsOnAllowedSeat
PROPERTIES
  EveryRunEnds
  EveryReportHarvested
CHECK_DEADLOCK FALSE
