CONSTANTS
  Node = {a, b, c}
  Edge = {{a, b}, {b, c}}
  NoNode = NoNode
  MaxHops = 4
  MaxChanges = 4
SPECIFICATION FairSpec
PROPERTIES TablesHeal
