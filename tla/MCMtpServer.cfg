CONSTANTS
  a = a
  b = b
  c = c
  Other = Other
  Names <- MCNames
  Paths <- MCPaths
  Dir = Dir
  None = None
  Card = Card
  Ids <- MCIds
  MaxObjects = 3
  MaxHandle = 4
  MaxSize = 1
  MaxRare = 1
  Width = 4
SPECIFICATION Spec
INVARIANTS
  TypeOK
  HandleNamesItsObject
  ListingComplete
  PromiseKept
SYMMETRY Symmetry
