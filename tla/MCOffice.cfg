SPECIFICATION Spec
CONSTANTS
  Objectives = {1, 2}
  Lanes = {1}
  Tasks <- MCTasks
  ObjOf <- MCObjOf
  Staff = {ada}
  MaxHours = 1
  CEO = ceo
  Managers = {mgr}
  Kinds = {"explore", "ops"}
  CheckWords = {"check"}
  BuildWords = {"build"}
  IdeaWords = {"idea7"}
  ShapeWords = 2
  RepeatLimit = 2
  CheckLimit = 1
  CheckWindow = 3
  Day = 2
  MaxTime = 2
  MaxLog = 4
  MaxActive = 2
  MaxRecommits = 1
  Horizon = 2
  Landing = 0
  MaxDate = 3
  Agents = {bob, cyd}
  Stream = stream
  Tweets = {t1}
  Transfers = {x1}
  Seeded = 1
  PostCost = 1
  ReadCost = 1
  OwnCost = 1
  Low = 1
  TopUp = 1
  Days = 1
  MaxLost = 1
  Users = {bob, cyd, stream}
  Tokens = {k1, k2, k3, k4, k5, k6}
  MaxTokenLost = 1
  Keep = 3
  CompactAt = 5
  Floor = 4
  Ceiling = 1
  Windows = {0, 3}
  MinLen = 4
  Big = 2
  MaxCalls = 2
  MaxTurns = 4
  Pointer = url
  Prompts = {p1}
  Seeds = {s1, s2}
  Essays = {e1}
  MaxVersions = 3
  Callers = {bob, cyd}
  MaxSaves = 3
  ChatKeep = 2
  ChatLimit = 2
  MaxExchanges = 7
INVARIANTS
  TypeOK
  RepeatsBounded ChecksBounded PushesBounded
  RepliesBounded CreditsBounded OverspendBounded LedgerMirrorsBill ChainAlive
  NothingForgotten OrphansBehindPictures SentAsWritten
  PromptStands OwnSkillStands StaleOnlyByOverlap
PROPERTIES UnblockAnnounced
SYMMETRY Symmetry
CHECK_DEADLOCK FALSE
