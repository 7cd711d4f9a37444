SPECIFICATION FairSpec
CONSTANTS
  RingBufferSize = 6
  VsyncSize = 2
  SpinLimit = 2
  TallyLimit = 3
  VsyncQueueSize = 1
  GSWeight = 3
  THREAD_VU1 = TRUE
  MaxPackets = 3
  MaxFinish = 0
  MaxVUWaits = 1
PROPERTIES WaitGSReturns
CHECK_DEADLOCK FALSE
