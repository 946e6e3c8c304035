\* Two buffers, one place in the FIFO and three calls: all limits are reached,
\* also that of the FIFO while commands wait for it.
SPECIFICATION FairSpec
CONSTANTS
  ask = ask
  tell = tell
  last = last
  None = None
  Cli <- MCCli
  Kinds <- MCKinds
  FifoSize = 1
  Limit = 2
  Patient = TRUE
INVARIANTS
  TypeOK
  PoolKept
PROPERTIES
  ServesInOrder
  ComesToRest
  RuntimeStored
CHECK_DEADLOCK FALSE
