SPECIFICATION Spec
CONSTANTS
  buffer_size = 9
  _4kb = 3
  Kinds <- VifPackets
  MaxPackets = 6
  MaxPosts = 1
INVARIANTS TypeOK RingIntact ExecutedInOrder DoneMeansExecuted IInv
PROPERTIES ImplementsFIFO
CHECK_DEADLOCK FALSE
