CONSTANTS
  Main = Main
  r1 = r1
  r2 = r2
  w1 = w1
  w2 = w2
  NULL = NULL
  Threads <- MCRWThreads
  Readers <- MCReaders
  Writers <- MCWriters
  ForkOrder <- MCForkOrder
  Workers <- MCWorkers
  Rounds <- MCRounds
  SyncInit <- MCRWSync
  SetPriority <- MCSetPriority
  typeno = 2
  QueueNum = 5
  timeSlice = 3
  threadArrTimeSlice <- MCArrTimeSlice
  MaxThreadNum = 5
  ForkPriorities = {8}
SPECIFICATION SpecRW
INVARIANT NoForeignRelease
