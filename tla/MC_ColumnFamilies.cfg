CONSTANTS
  Names = {a, b}
  Default = default
  Clients = {c1, c2}
  Nobody = nobody
  DropMayFail = TRUE
  MaxIds = 2
  MaxEvents = 2
SPECIFICATION Spec
INVARIANT ListenerCallsLive
INVARIANT WorkerHasHandle
INVARIANT RegisteredUsable
INVARIANT TornDownOnce
INVARIANT RegistryMatchesRocksDB
PROPERTY CallsReturn
