SPECIFICATION FairSpec
CONSTANTS
  RingBufferSize = 6
  VsyncSize = 2
  SpinLimit = 2
  TallyLimit = 3
  VsyncQueueSize = 1
  GSWeight = 3
  THREAD_VU1 = FALSE
  MaxPackets = 4
  MaxFinish = 1
  MaxVUWaits = 0
INVARIANTS WakeUpsSuffice
PROPERTIES VsyncWaitEnds StallEnds WaitGSReturns
