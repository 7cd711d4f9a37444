SPECIFICATION Spec
CONSTANTS
  RingBufferSize = 7
  VsyncSize = 2
  SpinLimit = 2
  TallyLimit = 3
  VsyncQueueSize = 1
  GSWeight = 3
  THREAD_VU1 = TRUE
  MaxPackets = 5
  MaxFinish = 0
  MaxVUWaits = 1
INVARIANTS TypeOK RingIntact SignalsPaired VsyncQueueBounded
PROPERTIES ImplementsFIFO
CHECK_DEADLOCK FALSE
