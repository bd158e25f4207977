------------------------------ MODULE Pinning ------------------------------
(***************************************************************************)
(* CPUPinningGenerator of src/scripts/sysinfo.py: the two algorithms that  *)
(* linearise clusters -> nodes -> cores -> SMT threads into one ordered   *)
(* list of logical CPU ids.                                                *)
(*                                                                         *)
(* A cluster is a sequence of node records; the generators only read the  *)
(* field cores_list, a sequence of cores, each a sequence of logical ids  *)
(* (the SMT siblings of one physical core).  Python indices are 0-based;  *)
(* smtPos keeps the code's 0-based value and adds 1 on access.            *)
(*                                                                         *)
(* The state machine runs one generator on one input, as one call of the  *)
(* code does, and then stops.                                              *)
(***************************************************************************)
EXTENDS Integers, Sequences, SequencesExt, TLC

CONSTANTS
  ClusterSpace,   \* the inputs: a finite set of sequences of clusters
  RoundSpace      \* the values of nodes_per_round tried

ASSUME RoundSpace \subseteq Int

VARIABLES
  clusters,       \* the argument `clusters`
  nodesPerRound,  \* the argument `nodes_per_round` of ping_pong_pinning
  generator,      \* which generator ran: "none", "cluster_first", "ping_pong"
  pinning,        \* the returned cpu_list
  outcome         \* "none" before the call, "ok", or "ValueError" when it raised

vars == <<clusters, nodesPerRound, generator, pinning, outcome>>

ValueError == "ValueError"

-----------------------------------------------------------------------------
(* Positions in a cluster list.  A node position is <<c, n>>, a core      *)
(* position <<c, n, k>>; all 1-based.                                     *)

NodePos(cl) == UNION { {<<c, n>> : n \in DOMAIN cl[c]} : c \in DOMAIN cl }

CorePos(cl) ==
  UNION { {<<p[1], p[2], k>> : k \in DOMAIN cl[p[1]][p[2]].cores_list} :
            p \in NodePos(cl) }

CoreAt(cl, q) == cl[q[1]][q[2]].cores_list[q[3]]

\* There is at least one core anywhere: max() below has an argument.
HasCores(cl) == CorePos(cl) # {}

\* `max(len(core) for cluster in clusters for node in cluster
\*      for core in node.cores_list)`, defined when HasCores(cl).
MaxSmt(cl) == Max({Len(CoreAt(cl, q)) : q \in CorePos(cl)})

\* The smtPos-th logical id of every core of node wide enough for it, in
\* core order: `for core in node.cores_list: if smt_pos < len(core):
\* cpu_list.append(core[smt_pos])`.
SmtIds(node, smtPos) ==
  LET wide == SelectSeq(node.cores_list, LAMBDA core : smtPos < Len(core))
  IN  [k \in DOMAIN wide |-> wide[k][smtPos + 1]]

-----------------------------------------------------------------------------
(* cluster_first_pinning: for smt_pos, for cluster, for node, for core.   *)
(* The early return tests only the first node of the first cluster.       *)
ClusterFirstEmpty(cl) ==
  cl = <<>> \/ cl[1] = <<>> \/ cl[1][1].cores_list = <<>>

\* Mutant of ClusterFirstPinning: the cluster loop outside the SMT loop.
ClusterFirstPinningClusterOuter(cl) ==
  IF ClusterFirstEmpty(cl) THEN <<>>
  ELSE FlattenSeq([c \in DOMAIN cl |->
         FlattenSeq([s \in 1..MaxSmt(cl) |->
           FlattenSeq([n \in DOMAIN cl[c] |-> SmtIds(cl[c][n], s - 1)])])])

ClusterFirstPinning(cl) ==
  IF ClusterFirstEmpty(cl) THEN <<>>
  ELSE FlattenSeq([s \in 1..MaxSmt(cl) |->
         FlattenSeq([c \in DOMAIN cl |->
           FlattenSeq([n \in DOMAIN cl[c] |-> SmtIds(cl[c][n], s - 1)])])])

\* Mutant of PingPongSlot: nodes_processed never checked, so a cluster
\* gives all its remaining nodes in its first turn.
PingPongSlotWholeCluster(cl, smtPos, x) ==
  FlattenSeq([c \in DOMAIN cl |->
    FlattenSeq([n \in DOMAIN cl[c] |-> SmtIds(cl[c][n], smtPos)])])

(* ping_pong_pinning, one SMT position: the while loop over rounds with   *)
(* one cursor per cluster, all starting at 0.  In a round every cluster  *)
(* in turn gives up to nodes_per_round nodes from its cursor on.          *)
PingPongSlot(cl, smtPos, x) ==
  LET Taken(pos, c) == Min({x, Len(cl[c]) - pos[c]})
      Round(pos) ==
        FlattenSeq([c \in DOMAIN cl |->
          FlattenSeq([i \in 1..Taken(pos, c) |->
                        SmtIds(cl[c][pos[c] + i], smtPos)])])
      RECURSIVE Rounds(_)
      Rounds(pos) ==
        IF \E c \in DOMAIN cl : pos[c] < Len(cl[c])
        THEN Round(pos) \o Rounds([c \in DOMAIN cl |-> pos[c] + Taken(pos, c)])
        ELSE <<>>
  IN  Rounds([c \in DOMAIN cl |-> 0])

\* The whole call; "raises" when max() gets an empty sequence.
PingPongRaises(cl, x) == cl # <<>> /\ x > 0 /\ ~HasCores(cl)

PingPongPinning(cl, x) ==
  IF cl = <<>> \/ x <= 0 \/ ~HasCores(cl) THEN <<>>
  ELSE FlattenSeq([s \in 1..MaxSmt(cl) |-> PingPongSlot(cl, s - 1, x)])

-----------------------------------------------------------------------------
(* Reference orders, from the prose of the design (spec section 4.6), not *)
(* from the loops: the output lists the id at every SMT slot <<s,c,n,k>>  *)
(* (core k of node n of cluster c is wide enough for position s) once,   *)
(* ranked by a sort key.                                                  *)

\* Every SMT slot <<s, c, n, k>>, listed in any order.
Slots(cl) ==
  FlattenSeq([c \in DOMAIN cl |-> FlattenSeq([n \in DOMAIN cl[c] |->
    LET cores == cl[c][n].cores_list
    IN  FlattenSeq([k \in DOMAIN cores |->
          [i \in DOMAIN cores[k] |-> <<i - 1, c, n, k>>]])])])

RECURSIVE LexLess(_, _)
LexLess(a, b) ==
  /\ a # <<>>
  /\ \/ a[1] < b[1]
     \/ a[1] = b[1] /\ LexLess(Tail(a), Tail(b))

\* The ids of the slots listed in ascending order of Key(slot).
RankedIds(cl, Key(_)) ==
  LET sorted == SortSeq(Slots(cl), LAMBDA a, b : LexLess(Key(a), Key(b)))
  IN  [i \in DOMAIN sorted |->
         CoreAt(cl, <<sorted[i][2], sorted[i][3], sorted[i][4]>>)[sorted[i][1] + 1]]

\* Cluster-first: every core's first thread, machine-wide, in cluster ->
\* node -> core order, before any second thread.
ClusterFirstRef(cl) == RankedIds(cl, LAMBDA t : t)

\* Ping-pong: per SMT slot, rounds; in round r each cluster gives its nodes
\* r*x+1 .. (r+1)*x, clusters in order.
PingPongRef(cl, x) ==
  RankedIds(cl, LAMBDA t : <<t[1], (t[3] - 1) \div x, t[2], t[3], t[4]>>)

-----------------------------------------------------------------------------
Init ==
  /\ clusters \in ClusterSpace
  /\ nodesPerRound \in RoundSpace
  /\ generator = "none"
  /\ pinning = <<>>
  /\ outcome = "none"

\* CPUPinningGenerator.cluster_first_pinning(clusters)
ClusterFirst ==
  /\ generator = "none"
  /\ generator' = "cluster_first"
  /\ pinning' = ClusterFirstPinning(clusters)
  /\ outcome' = "ok"
  /\ UNCHANGED <<clusters, nodesPerRound>>

\* CPUPinningGenerator.ping_pong_pinning(clusters, nodes_per_round)
PingPong ==
  /\ generator = "none"
  /\ generator' = "ping_pong"
  /\ IF PingPongRaises(clusters, nodesPerRound)
       THEN pinning' = <<>> /\ outcome' = ValueError
       ELSE pinning' = PingPongPinning(clusters, nodesPerRound) /\ outcome' = "ok"
  /\ UNCHANGED <<clusters, nodesPerRound>>

Next == ClusterFirst \/ PingPong

Spec == Init /\ [][Next]_vars

-----------------------------------------------------------------------------
(* cluster_first_pinning lists, in the order the design states, every     *)
(* SMT thread of every core once: all first threads machine-wide in       *)
(* cluster, node, core order, then all second threads, and so on; with no *)
(* core at all it returns the empty list.                                 *)
ClusterFirstFollowsSpec ==
  generator = "cluster_first" => pinning = ClusterFirstRef(clusters)

(* ping_pong_pinning, for a positive nodes_per_round, returns without an  *)
(* error and lists every SMT thread once, SMT slot by SMT slot, each slot *)
(* in rounds that take nodes_per_round nodes from each cluster in turn;   *)
(* with no core at all it returns the empty list.                          *)
PingPongFollowsSpec ==
  generator = "ping_pong" /\ nodesPerRound > 0 =>
    /\ outcome = "ok"
    /\ pinning = PingPongRef(clusters, nodesPerRound)
====
