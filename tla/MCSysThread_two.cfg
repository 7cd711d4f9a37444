SPECIFICATION FairSpec
CONSTANTS
  c1 = c1
  c2 = c2
  Controllers <- Two
  WaitFor = "check"
  MaxCalls = 3
PROPERTIES CallsReturn
CHECK_DEADLOCK FALSE
