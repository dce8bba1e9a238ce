SPECIFICATION FairSpec
CONSTANTS
  Period = 2
  MaxGen = 2
  MaxChanges = 2
  Failures <- EarlyAndDatabase
INVARIANT TypeOK
PROPERTIES QuietPass ComesToRest
