CONSTANTS
  Main = Main
  r1 = r1
  r2 = r2
  w1 = w1
  p1 = p1
  c1 = c1
  c2 = c2
  b1 = b1
  b2 = b2
  b3 = b3
  s1 = s1
  s2 = s2
  s3 = s3
  NULL = NULL
  Threads <- MCKThreads
  Readers <- MCReaders
  Writers <- MCWriters
  Producers <- MCProducers
  Consumers <- MCConsumers
  BarrierThreads <- MCBarrierThreads
  Workers <- MCWorkers
  ForkOrder <- MCForkOrder
  Rounds <- MCRounds
  SyncInit <- MCSync
  SetPriority <- MCSetPriority
  SelfChain <- MCSelfChain
  MAX_PRODUCE_ARRAY_NUM = 4
  debugS = TRUE
  BarrierN = 3
  TestTypes <- MCTestTypes
  typeno = 2
  QueueNum = 5
  timeSlice = 3
  threadArrTimeSlice <- MCArrTimeSlice
  MaxThreadNum = 5
  ForkPriorities = {8}
SPECIFICATION SpecK
INVARIANT TypeOKRW
INVARIANT SemaphoresCountBuffer
INVARIANT ReadWriteExclusion
INVARIANT ConsumedInOrder
INVARIANT AllConsumedAtHalt
INVARIANT BarrierSafe
INVARIANT BarrierMutexExclusion
PROPERTY RefinesTestTermination
