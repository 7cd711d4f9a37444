SPECIFICATION FairSpec
CONSTANTS
  c1 = c1
  c2 = c2
  Controllers <- One
  WaitFor = "check"
  MaxCalls = 8
INVARIANTS TypeOK
PROPERTIES ParkedOnReturn CallsReturn ResumeTakesEffect
CHECK_DEADLOCK FALSE
