CONSTANTS
  Missing = Missing
  Junk = Junk
  NoNode = NoNode
  TreeSpace <- MachTrees
  ArgSpace <- PinArgs
INIT Init
NEXT Next
INVARIANTS
  PinFileCoversClusteredCpus
\* One invocation of the tool, which then exits.
CHECK_DEADLOCK FALSE
