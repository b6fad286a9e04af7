CONSTANTS
  pageTableSize = 3
  NumPhysPages = 2
  TLBSize = 2
  UseTLB = FALSE
  ReadOnlyPages = {1}
  InitPPN <- MCInitPPNFault
  WriteVals = {7}
  NoData = 9
SPECIFICATION Spec
INVARIANT DataRoundTrip
