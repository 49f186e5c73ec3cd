CONSTANTS
  c1 = c1
  c2 = c2
  Lsn = Lsn
  Listener <- Lsn
  Conns <- MCConns
  MaxData <- MCMaxData
  EnvMayFail = FALSE
SPECIFICATION Spec
INVARIANT TypeOK AcceptedBeforePollReturns
PROPERTY StreamsRefinement
PROPERTY EveryByteReceived
\* A failed ASSERT of listen() or of the accept loop ends the process, and
\* the reactor waits in kevent() while no event is pending.
CHECK_DEADLOCK FALSE
