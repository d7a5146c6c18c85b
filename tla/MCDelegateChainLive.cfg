SPECIFICATION Spec
CONSTANTS
  Callers = {c1, c2}
  NoCaller = NoCaller
  a = a
  b = b
  general = general
  proactive = proactive
  TaskTypes = {general}
  Candidates = {a, b}
  Curated = {a}
  ChainsFor <- MCOneChain
  Timeouts = {1}
  Margin = 1
  Threshold = 2
  Cooldown = 2
PROPERTIES
  EveryRequestEnds
  EveryCooldownEnds
  ImplementsSerialQueue
