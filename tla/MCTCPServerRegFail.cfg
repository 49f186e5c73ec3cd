CONSTANTS
  c1 = c1
  c2 = c2
  Lsn = Lsn
  Listener <- Lsn
  Conns <- MCConns
  MaxData <- MCMaxData
  EnvMayFail = TRUE
SPECIFICATION Spec
PROPERTY EveryByteReceived
\* listen() and the accept loop may end the process, and the reactor waits
\* in kevent() while no event is pending.
CHECK_DEADLOCK FALSE
