CONSTANTS
  ClusterSpace <- MCClusterSpace
  RoundSpace <- MCRoundSpace
INIT Init
NEXT Next
INVARIANTS
  ClusterFirstFollowsSpec
  PingPongFollowsSpec
\* One call of a generator, then the program ends.
CHECK_DEADLOCK FALSE
