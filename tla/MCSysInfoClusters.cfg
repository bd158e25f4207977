CONSTANTS
  Missing = Missing
  Junk = Junk
  NoNode = NoNode
  TreeSpace <- GeoTrees
  ArgSpace <- GeoArgs
INIT Init
NEXT Next
INVARIANTS
  NearestAnchorClusters
\* One invocation of the tool, which then exits.
CHECK_DEADLOCK FALSE
