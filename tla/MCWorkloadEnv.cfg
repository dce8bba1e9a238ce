SPECIFICATION Spec
CONSTANTS
  i1 = i1
  v1 = v1
  v2 = v2
  Images = {i1}
  InstanceNames = {"docs", "paperless"}
  Namespaces = {"home", "office"}
  UserNames = {"X", "Y"}
  UserValues = {v1, v2}
  Instances <- AllInstances
INVARIANTS TypeOK NoDuplicateNames DedupeCorrect UserValueWins ReadsOnlyWhatIsBuilt ProbesAccepted
