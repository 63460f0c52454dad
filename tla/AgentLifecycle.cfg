SPECIFICATION FairSpec
INVARIANTS
  MediatorAgreesWithRecord
  EveryLoopIsRegistered StoppedAgentClosedSocket
PROPERTIES
  LifecycleSpec StartedAgentFetches StartAndStopSettle CancelledLoopEnds
  PollingContinues
CONSTANTS
  Callers = {c1, c2}
  Boot = boot
  Fetchers = {f1, f2}
  NoFetcher = NoFetcher
  Sockets = {s1, s2}
  NoSocket = NoSocket
  HasMediatorDID = TRUE
  UseSockets = TRUE
  SocketServices = {TRUE, FALSE}
  Disciplines = {"any", "serial"}
