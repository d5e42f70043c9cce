CONSTANTS
  Folded <- MCFolded
  Bounds <- MCBounds
  Words <- MCWords
  Order <- MCOrder
  ScalarTypes <- MCScalarTypes
  Primitive <- MCPrimitive
  Literal <- MCLiteral
  RootIds = {project, diagram}
  None = None
  Refused = Refused
  NewClassifiers <- MCClassifiers
  NewAttributes <- MCAttributes
  NewOperations <- MCOperations
  NewRelationships <- MCRelationships
  NewNames = {"PkOwner"}
  MaxWeight = 3
SPECIFICATION Spec
INVARIANTS
  LockCheckCoversChanges
  DeletionsAccepted
  RenamesFollowed
  FeaturesRepresented
  ContractMet
  OwnFilesUnderstood
  ExchangeFaithful
