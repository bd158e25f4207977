CONSTANTS
  Missing = Missing
  Junk = Junk
  NoNode = NoNode
  TreeSpace <- EmptyTrees
  ArgSpace <- AllArgs
INIT Init
NEXT Next
INVARIANTS
  EmptyTopologyFails
\* One invocation of the tool, which then exits.
CHECK_DEADLOCK FALSE
