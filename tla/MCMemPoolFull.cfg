\* Every fatal ASSERT ends the process: the states it leaves have no successor.
CONSTANTS
  h1 = h1
  h2 = h2
  h3 = h3
  h4 = h4
  h5 = h5
  NoSlot = NoSlot
  Foreign = Foreign
  Holder <- MCHolder
  PoolSize <- MCPoolSize
SYMMETRY MCSymmetry
SPECIFICATION Spec
PROPERTY AllocateFailsOnlyWhenFull
CHECK_DEADLOCK FALSE
