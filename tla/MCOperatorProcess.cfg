SPECIFICATION FairSpec
CONSTANTS
  old1 = old1
  new1 = new1
  new2 = new2
  Processes <- AllProcesses
  VersionOf <- Versions
  Elections = {TRUE, FALSE}
  MaxFaults = 3
INVARIANT AtMostOneActive
PROPERTY KeepsWorking
CHECK_DEADLOCK FALSE
