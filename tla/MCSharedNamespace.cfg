SPECIFICATION FairSpec
CONSTANTS
  i1 = i1
  Images = {i1}
  Segments <- AllSegments
  Names <- Nested
  Lasting <- Bystanders
  Width <- NestedWidth
  SpecOf <- NestedSpec
INVARIANTS TypeOK AppliedIsKept RestingIsKept DataNeverShared LengthBoundary
PROPERTY AllSettle
CHECK_DEADLOCK FALSE
