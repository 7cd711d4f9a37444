SPECIFICATION Spec
CONSTANTS
  buffer_size = 9
  _4kb = 3
  Kinds <- VUPrograms
  MaxPackets = 6
  MaxPosts = 1
INVARIANTS NoPendingWhenEqual
CHECK_DEADLOCK FALSE
