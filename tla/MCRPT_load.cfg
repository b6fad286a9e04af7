CONSTANTS
  t1 = t1
  t2 = t2
  Tids <- MCTids
  VPages = {0, 1}
  NumPhysPages = 2
  TLBSize = 2
  UseTLB = TRUE
  NoThread = NoThread
  NoFile = NoFile
  NoData = NoData
SYMMETRY MCSymmetry
SPECIFICATION SpecLoad
PROPERTY LoadRestoresSaved
