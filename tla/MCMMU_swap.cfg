CONSTANTS
  pageTableSize = 3
  NumPhysPages = 2
  TLBSize = 2
  UseTLB = FALSE
  ReadOnlyPages = {1}
  InitPPN <- MCInitPPNShared
  WriteVals = {7}
  NoData = 9
SPECIFICATION Spec
INVARIANT FramesConsistent
INVARIANT DataRoundTrip
