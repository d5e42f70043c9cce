CONSTANTS
  Folded <- MCFolded
  Bounds <- MCBounds
  Words <- MCWords
  Order <- MCOrder
  ScalarTypes <- MCScalarTypes
  Primitive <- MCPrimitive
  Literal <- MCLiteral
  RootIds = {project, diagram}
  None = None
  Refused = Refused
  NewClassifiers <- MCClassifiers
  NewAttributes <- MCAttributes
  NewOperations = {}
  NewRelationships <- MCRelationships
  NewNames = {}
  MaxWeight = 3
SPECIFICATION Spec
INVARIANT
  OwnContractHolds
