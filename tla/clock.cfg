CONSTANTS
  NUM_TERMINALS = 2
  Frequencies <- MCFrequencies
  Windows = {}
SPECIFICATION ClockFairSpec
INVARIANTS
  ReadWaitsForTick
  ClockAsRequested
  NothingLeftInService
PROPERTIES
  EveryInterruptServed
  ReadReturns
