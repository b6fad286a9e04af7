CONSTANTS
  pageTableSize = 3
  NumPhysPages = 2
  TLBSize = 2
  UseTLB = TRUE
  ReadOnlyPages = {1}
  InitPPN <- MCInitPPNShared
  WriteVals = {7}
  NoData = 9
SPECIFICATION Spec
INVARIANT DataRoundTrip
