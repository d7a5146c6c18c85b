CONSTANTS
  x = x
  y = y
  i1 = i1
  i2 = i2
  t1 = t1
  t2 = t2
  t3 = t3
  Missing = Missing
  Invalid = Invalid
  ProactiveCheck = "check"
  CandidateNames <- MCNames
  Documents <- MCDocuments
  TaskTypes = {"work"}
  Off = Off
  Requests = {1, 2}
  Installers = {i1, i2}
  Timers = {t1, t2, t3}
  NoTimer = NoTimer
  Debounce = 2
SPECIFICATION MCSpec
INVARIANTS TypeOK ProactiveStaysLocal PaidOnlyAsAllowed NobodyForgotten InstalledHookRuns ScriptIsKept
PROPERTIES FiresAfterQuiet EverySaveIsChecked
