CONSTANTS
  Capacity <- MCCapacity
  MaxPush <- MCMaxPush
SPECIFICATION Spec
INVARIANT TypeOK ReadsInOrder
PROPERTY NoDataRace EveryPushRead FifoRefinement
