SPECIFICATION FairSpec
CONSTANTS
  max_size = 3
  MaxJobs = 5
  MaxSpurious = 2
INVARIANTS TypeOK WaitMeansDone
PROPERTIES ImplementsFIFO CallsEnd JobsExecuted
CHECK_DEADLOCK FALSE
