SPECIFICATION FairSpec
CONSTANTS
  FIFO_SIF_W = 8
  PacketWords = {0, 3, 6, 8, 9}
  MaxPackets = 4
INVARIANTS TypeOK StreamIntact Settled
PROPERTIES LoopEnds
CHECK_DEADLOCK FALSE
