CONSTANTS
  Main = Main
  p1 = p1
  c1 = c1
  c2 = c2
  NULL = NULL
  Threads <- MCPCThreads
  Producers <- MCProducers
  Consumers <- MCConsumers
  Workers <- MCWorkers
  ForkOrder <- MCForkOrder
  Rounds <- MCRounds
  SyncInit <- MCPCSync
  SetPriority <- MCSetPriority
  MAX_PRODUCE_ARRAY_NUM = 4
  debugS = FALSE
  typeno = 2
  QueueNum = 5
  timeSlice = 3
  threadArrTimeSlice <- MCArrTimeSlice
  MaxThreadNum = 4
  ForkPriorities = {8}
SPECIFICATION SpecPC
INVARIANT AllConsumedAtHalt
