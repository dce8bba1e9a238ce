SPECIFICATION Spec
CONSTANTS
  op1 = op1
  op2 = op2
  k1 = k1
  k2 = k2
  i1 = i1
  i2 = i2
  Images = {i1, i2}
  Operators = {op1, op2}
  Keys = {k1, k2}
  Volumes <- OneVolume
  Specs <- StalledSpecs
  MaxUID = 1
  MaxGen = 2
  MaxChaos = 0
  Droppable = {}
  Cascades = {"background"}
  CrdAtStart = {TRUE}
  ExtAtStart = {"missing"}
PROPERTY StatefulDataKept
SYMMETRY Symmetry
