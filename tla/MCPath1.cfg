SPECIFICATION Spec
CONSTANTS
  Bits <- TwoBits
  Writes <- SomeWrites
  MaxWrites = 3
  buffSize = 10
  buffLimit = 8
  Kicks = {1, 2}
  MaxOutput = 4
  QueueSize = 2
  MaxPrograms = 4
  MaxEvents = 4
INVARIANTS TypeOK PacketsIntact ProgramsPaired VUWaitsForGS SignalsInOrder PostsKept
PROPERTIES ImplementsFIFO
