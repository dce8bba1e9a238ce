SPECIFICATION FairSpec
CONSTANTS
  op1 = op1
  op2 = op2
  k1 = k1
  k2 = k2
  i1 = i1
  i2 = i2
  Images = {i1, i2}
  Operators = {op1}
  Keys = {k1}
  Volumes <- OneVolume
  Specs <- RecoverySpecs
  MaxUID = 1
  MaxGen = 2
  MaxChaos = 2
  Droppable = {"deployment"}
  Cascades = {"background"}
  CrdAtStart = {FALSE}
  ExtAtStart = {"missing"}
PROPERTY BecomesReady
