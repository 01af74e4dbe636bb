SPECIFICATION Spec
CONSTANTS
  tell = tell
  text1 = text1
  alarm = alarm
  work = work
  Tells = {}
  Texts = {text1}
  Alerts = {}
  Reports = {}
  ShowMax = 10
  MaxSteps = 1
  QuietSteps = 1
  MaxBeats = 0
  MaxFailures = 0
  MaxRestarts = 2
INVARIANT FounderHeard
CHECK_DEADLOCK FALSE
