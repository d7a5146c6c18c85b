SPECIFICATION SafeSpec
CONSTANTS
  Callers = {c1, c2}
  NoCaller = NoCaller
  a = a
  b = b
  general = general
  proactive = proactive
  TaskTypes = {general, proactive}
  Candidates = {a, b}
  Curated = {a}
  ChainsFor <- MCChains
  Timeouts = {1}
  Margin = 1
  Threshold = 2
  Cooldown = 2
INVARIANT
  EndsAsDocumented
