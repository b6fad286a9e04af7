CONSTANTS
  Main = Main
  t1 = t1
  t2 = t2
  t3 = t3
  NULL = NULL
  Threads <- MCThreads3
  typeno = 3
  QueueNum = 2
  timeSlice = 3
  threadArrTimeSlice <- MCArrTimeSlice2
  MaxThreadNum = 4
  ForkPriorities = {8}
SPECIFICATION Spec
INVARIANT TypeOK
INVARIANT ReadyConsistent
PROPERTY YieldRelinquishes
PROPERTY RefinesThreadStates
PROPERTY NoStarvation
