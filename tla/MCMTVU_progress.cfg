SPECIFICATION FairSpec
CONSTANTS
  buffer_size = 6
  _4kb = 3
  Kinds <- VUPrograms
  MaxPackets = 3
  MaxPosts = 2
PROPERTIES WaitVUReturns SendCompletes XGkickArrives
CHECK_DEADLOCK FALSE
