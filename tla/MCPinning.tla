----------------------------- MODULE MCPinning -----------------------------
(***************************************************************************)
(* Bounded inputs for Pinning.  A shape gives, per cluster and node, the  *)
(* SMT width of each core; the logical ids are then numbered so that every *)
(* SMT thread of the machine has its own id, as in a well-formed tree.    *)
(***************************************************************************)
EXTENDS Pinning

\* Core widths of one node.
NodeShapes == {<<1>>, <<2>>, <<2, 1>>}
\* Nodes with no core, as get_clusters yields for a memory-only node.
EmptyNodeShapes == {<<>>}

ClusterShapes(NS, maxNodes) == UNION { [1..m -> NS] : m \in 1..maxNodes }

Shapes(NS, maxNodes, maxClusters) ==
  UNION { [1..m -> ClusterShapes(NS, maxNodes)] : m \in 1..maxClusters }

\* Distinct logical id of thread s of core k of node n of cluster c.
Cpu(c, n, k, s) == ((c * 4 + n) * 4 + k) * 4 + s

Build(shape) ==
  [c \in DOMAIN shape |->
    [n \in DOMAIN shape[c] |->
      [cores_list |-> [k \in DOMAIN shape[c][n] |->
                         [s \in 1..shape[c][n][k] |-> Cpu(c, n, k, s)]]]]]

\* Every node has a core (the precondition of section 4.6); the empty list.
MCClusterSpace == {Build(sh) : sh \in Shapes(NodeShapes, 3, 2)} \cup {<<>>}

\* Clusters whose nodes all lack cores: the aggregate core set is empty.
MCEmptyClusterSpace == {Build(sh) : sh \in Shapes(EmptyNodeShapes, 2, 2)}

MCRoundSpace == {0, 1, 2, 3}
====
