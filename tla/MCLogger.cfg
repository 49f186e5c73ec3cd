CONSTANTS
  Capacity <- MCCapacity
  MaxPush <- MCMaxPush
SPECIFICATION Spec
INVARIANT TypeOK ShutdownLosesNothing
PROPERTY ShutdownCompletes FileRefinement
\* After ~Logger() has returned, neither thread takes another step.
CHECK_DEADLOCK FALSE
