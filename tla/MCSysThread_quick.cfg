SPECIFICATION FairSpec
CONSTANTS
  c1 = c1
  c2 = c2
  Controllers <- One
  WaitFor = "nothing"
  MaxCalls = 6
PROPERTIES ResumeTakesEffect
CHECK_DEADLOCK FALSE
