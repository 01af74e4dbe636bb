SPECIFICATION Spec
CONSTANTS
  tell = tell
  text1 = text1
  alarm = alarm
  work = work
  Tells = {tell}
  Texts = {text1}
  Alerts = {alarm}
  Reports = {}
  ShowMax = 10
  MaxSteps = 2
  QuietSteps = 1
  MaxBeats = 1
  MaxFailures = 1
  MaxRestarts = 2
INVARIANTS
  TypeOK
  TextsNotDropped
  TextsNotReplayed
PROPERTIES
  HeldUntilHeard
CHECK_DEADLOCK FALSE
