CONSTANTS
  Missing = Missing
  Junk = Junk
  NoNode = NoNode
  TreeSpace <- MachTrees
  ArgSpace <- AllArgs
INIT Init
NEXT Next
INVARIANTS
  ClusterQueryNeverRaises
\* One invocation of the tool, which then exits.
CHECK_DEADLOCK FALSE
