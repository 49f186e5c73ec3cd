CONSTANTS
  Port = Port
  Ephemeral = Ephemeral
  NoPort = NoPort
SPECIFICATION Spec
INVARIANT AbortsOnlyOnFailure
\* createSocket() returns, or a failed ASSERT ends the process.
CHECK_DEADLOCK FALSE
