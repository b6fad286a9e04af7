CONSTANTS
  Main = Main
  t1 = t1
  t2 = t2
  t3 = t3
  NULL = NULL
  Threads <- MCThreads3
  typeno = 2
  QueueNum = 5
  timeSlice = 3
  threadArrTimeSlice <- MCArrTimeSlice
  MaxThreadNum = 4
  ForkPriorities = {8}
SPECIFICATION Spec
INVARIANT ReadyConsistent
INVARIANT ThreadTableConsistent
PROPERTY RefinesThreadStates
PROPERTY NoStarvation
