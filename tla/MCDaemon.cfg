CONSTANTS
  c1 = c1
  c2 = c2
  server = server
  cli = cli
  Calls = {c1, c2}
  Interval = 1
  Server = server
  Clients = {cli}
  MaxTokens = 3
SPECIFICATION DaemonSpec
INVARIANTS DaemonTypeOK RealCause OneYoungProbe ClientsAreAccepted EmptyFileIsBeingWritten
PROPERTIES EngineKept EngineFound
