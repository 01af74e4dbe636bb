SPECIFICATION FairSpec
CONSTANTS
  tell = tell
  text1 = text1
  alarm = alarm
  work = work
  Tells = {tell}
  Texts = {}
  Alerts = {alarm}
  Reports = {work}
  ShowMax = 10
  MaxSteps = 2
  QuietSteps = 1
  MaxBeats = 1
  MaxFailures = 1
  MaxRestarts = 2
PROPERTIES
  DirectivesKept
  InputDrained
  InputHeard
  ReportHeard
  ComesToRest
CHECK_DEADLOCK FALSE
