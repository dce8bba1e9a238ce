SPECIFICATION FairSpec
CONSTANTS
  op1 = op1
  op2 = op2
  k1 = k1
  k2 = k2
  i1 = i1
  i2 = i2
  Images = {i1, i2}
  Operators = {op1}
  Keys = {k1}
  Volumes <- OneVolume
  Specs <- PolicySpecs
  MaxUID = 1
  MaxGen = 1
  MaxChaos = 0
  Droppable = {}
  Cascades = {"foreground"}
  CrdAtStart = {TRUE}
  ExtAtStart = {"valid"}
PROPERTY ForegroundDeletionCompletes
