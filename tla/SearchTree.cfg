CONSTANTS
  Nodes = 4
  Keys = {0, 1, 2, 3}
SPECIFICATION FairSpec
INVARIANTS
  OrderedTree
  StackRestored
  TraversalOrder
PROPERTIES
  Implements
  OnlyALeafIsAdded
  CallsReturn
