SPECIFICATION FairSpec
CONSTANTS
  N = 3
  Expected <- MCEqual
  Osds = {o1}
  MaxFaults = 1
INVARIANT ReadsItsDataset
