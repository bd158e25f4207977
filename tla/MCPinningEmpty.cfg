\* Clusters whose nodes have no core at all (memory-only nodes, or nodes
\* whose cores cache optimisation dropped).
CONSTANTS
  ClusterSpace <- MCEmptyClusterSpace
  RoundSpace <- MCRoundSpace
INIT Init
NEXT Next
INVARIANTS
  PingPongFollowsSpec
CHECK_DEADLOCK FALSE
