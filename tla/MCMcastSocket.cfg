CONSTANTS
  BufSize <- MCBufSize
  MaxLen <- MCMaxLen
  MaxBytes <- MCMaxBytes
SPECIFICATION Spec
INVARIANT TypeOK NoDuplicateTransmission
\* The ASSERT of send() that fails ends the process: no step follows.
CHECK_DEADLOCK FALSE
PROPERTY OutboundRefinement
