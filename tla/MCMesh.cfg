CONSTANTS
  Node = {a, b, c}
  Edge = {{a, b}, {b, c}, {a, c}}
  NoNode = NoNode
  MaxHops = 4
  MaxChanges = 5
SPECIFICATION Spec
INVARIANTS TypeOK RoutesSound ViaWasNeighbour
PROPERTIES DirectStays
SYMMETRY NodeSymmetry
