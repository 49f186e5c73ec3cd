CONSTANTS
  BufSize <- MCBufSize
  MaxLen <- MCMaxLen
  MaxBytes <- MCMaxBytes
SPECIFICATION Spec
INVARIANT NoOutOfBoundsWrite
\* The ASSERT of send() that fails ends the process: no step follows.
CHECK_DEADLOCK FALSE
