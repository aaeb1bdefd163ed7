SPECIFICATION FairSpec
CONSTANTS
  c1 = c1
  c2 = c2
  Conn <- Conns
  Onion <- OnionConns
  MaxConns = 1
  CaptiveConns = 1
  TorUpstream = FALSE
  IdleTimeout = TRUE
  MaxLifetime = TRUE
  DefaultGrace = 1
  Grace = 2
  StartupGrace = 1
  FailClosed = TRUE
  MaxTokens = 2
  MaxFaults = 1
INVARIANTS SlotsMatch OutcomeTold EnrolledOnce
PROPERTIES FlushedOnlyAfterGrace OutageFailsClosed LapsedEndsTunnels
