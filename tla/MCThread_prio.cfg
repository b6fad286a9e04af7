CONSTANTS
  Main = Main
  t1 = t1
  t2 = t2
  t3 = t3
  NULL = NULL
  Threads <- MCThreads
  typeno = 1
  QueueNum = 5
  timeSlice = 3
  threadArrTimeSlice <- MCArrTimeSlice
  MaxThreadNum = 3
  ForkPriorities = {4, 7, 8}
SPECIFICATION Spec
INVARIANT ReadyConsistent
INVARIANT ThreadTableConsistent
PROPERTY YieldRelinquishes
PROPERTY ForkPreempts
