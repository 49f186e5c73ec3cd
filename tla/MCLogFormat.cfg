CONSTANTS
  v1 = v1
  v2 = v2
  v3 = v3
  MaxLen <- MCMaxLen
  ArgVal <- MCArgVal
SPECIFICATION Spec
INVARIANT LogMatchesSpec
