------------------------------ MODULE SysInfo ------------------------------
(***************************************************************************)
(* main() of src/scripts/sysinfo.py: one invocation of the command line   *)
(* tool on one sysfs tree.  The tree and the arguments are chosen in      *)
(* Init; one action per operation mode runs the whole branch of main     *)
(* (get_clusters with its reads and cache optimisation, the generator,   *)
(* the file write and the exit status) and the program ends.             *)
(***************************************************************************)
EXTENDS Topology

CONSTANTS
  TreeSpace,  \* the sysfs trees the invocation may find
  ArgSpace    \* the parsed arguments: [mode, cache, x, writable]

P == INSTANCE Pinning WITH ClusterSpace <- {}, RoundSpace <- {},
       clusters <- <<>>, nodesPerRound <- 0, generator <- "none",
       pinning <- <<>>, outcome <- "none"

VARIABLES
  tree,      \* the sysfs tree, stable for the whole invocation
  args,      \* the parsed command line
  pc,        \* "start", then "done"
  exitCode,  \* the value main returns
  printed,   \* what --cpu or --cluster prints: the CPU list or the clusters
  written,   \* the pinning file was written
  pinFile,     \* its lines: logical CPU ids
  clusterFile    \* the core lines of the file save_cluster_info writes

vars == <<tree, args, pc, exitCode, printed, written, pinFile, clusterFile>>

Init ==
  /\ tree \in TreeSpace
  /\ args \in ArgSpace
  /\ pc = "start"
  /\ exitCode = 0
  /\ printed = <<>>
  /\ written = FALSE
  /\ pinFile = <<>>
  /\ clusterFile = <<>>

\* The branch ends with main's return value; no file written.
Exit(code) ==
  /\ pc' = "done"
  /\ exitCode' = code
  /\ UNCHANGED <<tree, args, written, pinFile, clusterFile>>

\* Mutant of SavePinning: the file is created before the write fails.
SavePinningWrittenOnError(ids) ==
  /\ pc' = "done"
  /\ printed' = <<>>
  /\ written' = TRUE /\ pinFile' = ids
  /\ exitCode' = IF args.writable THEN 0 ELSE 1
  /\ UNCHANGED <<tree, args, clusterFile>>

\* save_pinning_to_file: an output path that cannot be opened raises
\* IOError, which main's `except Exception` turns into status 1.
SavePinning(ids) ==
  /\ pc' = "done"
  /\ printed' = <<>>
  /\ IF args.writable
       THEN written' = TRUE /\ pinFile' = ids /\ exitCode' = 0
       ELSE UNCHANGED <<written, pinFile>> /\ exitCode' = 1
  /\ UNCHANGED <<tree, args, clusterFile>>

\* --cpu: print get_cpu_info().
MainCpu ==
  /\ pc = "start" /\ args.mode = "cpu"
  /\ printed' = GetCpuInfo(tree)
  /\ Exit(0)

\* --cluster: print get_clusters(optimize_cache_level=cache); an exception
\* reaches `except Exception` ("Unexpected error").
MainCluster ==
  /\ pc = "start" /\ args.mode = "cluster"
  /\ LET r == GetClusters(tree, args.cache)
     IN  IF r.kind = "ok" THEN printed' = r.val /\ Exit(0)
                          ELSE printed' = <<>> /\ Exit(1)

\* --pin_ping_pong FILE X: X is checked before any read; every error of
\* this branch is a ValueError caught there or an exception caught by the
\* outer handler, both status 1.
MainPinPingPong ==
  /\ pc = "start" /\ args.mode = "pin_ping_pong"
  /\ LET r == GetClusters(tree, args.cache)
         x == args.x
     IN  IF x \notin Int \/ x <= 0 \/ r.kind # "ok" \/ r.val = <<>>
              \/ P!PingPongRaises(r.val, x)
         THEN printed' = <<>> /\ Exit(1)
         ELSE SavePinning(P!PingPongPinning(r.val, x))

\* --pin_cluster FILE
MainPinCluster ==
  /\ pc = "start" /\ args.mode = "pin_cluster"
  /\ LET r == GetClusters(tree, args.cache)
     IN  IF r.kind # "ok" \/ r.val = <<>>
         THEN printed' = <<>> /\ Exit(1)
         ELSE SavePinning(P!ClusterFirstPinning(r.val))

\* The loops of save_cluster_info: one `core[c][n][k]=cpus` line per
\* non-empty core tuple, c, n and k counted by enumerate from 0.  The
\* comment lines (host name, "# Cluster", "# Node") are left out.
CoreLines(cl) ==
  FlattenSeq([c \in DOMAIN cl |-> FlattenSeq([n \in DOMAIN cl[c] |->
    LET cores == cl[c][n].cores_list
    IN  SelectSeq([k \in DOMAIN cores |-> <<c - 1, n - 1, k - 1, cores[k]>>],
                  LAMBDA l : l[4] # <<>>)])])

\* SystemTopology.save_cluster_info(filename, cache_level), the library
\* call a program importing the module makes (main never does).  An
\* exception of get_clusters, no cluster, or a file that cannot be opened
\* make it return False with no file; otherwise it writes the file and
\* returns True, so `written` is its result.  No exit status is involved.
SaveClusterInfo ==
  /\ pc = "start" /\ args.mode = "save_cluster_info"
  /\ LET r == GetClusters(tree, args.cache)
     IN  IF r.kind = "ok" /\ r.val # <<>> /\ args.writable
         THEN written' = TRUE /\ clusterFile' = CoreLines(r.val)
         ELSE UNCHANGED <<written, clusterFile>>
  /\ pc' = "done" /\ printed' = <<>>
  /\ UNCHANGED <<tree, args, exitCode, pinFile>>

Next == MainCpu \/ MainCluster \/ MainPinPingPong \/ MainPinCluster
          \/ SaveClusterInfo

Spec == Init /\ [][Next]_vars

-----------------------------------------------------------------------------
TypeOK ==
  /\ pc \in {"start", "done"}
  /\ exitCode \in {0, 1}
  /\ written \in BOOLEAN
  /\ pinFile \in Seq(Int)
  /\ written => pc = "done" /\ exitCode = 0

(* get_clusters assigns every compute node to the memory node nearest to *)
(* it by the node's distance vector, the earliest anchor winning a tie,  *)
(* and orders each cluster's compute nodes by ascending distance to its  *)
(* anchor (design section 4.5, steps 3 and 4): checked on what --cluster *)
(* prints.                                                                *)
NearestAnchorClusters ==
  pc = "done" /\ args.mode = "cluster" /\ exitCode = 0
    /\ printed # <<>> /\ printed[1][1].memory =>
    \A c \in DOMAIN printed : \A i \in 2..Len(printed[c]) :
      LET m == printed[c][i]
          a == printed[c][1]
      IN  /\ HasDist(m, a.id)
          /\ \A d \in DOMAIN printed :
               LET b == printed[d][1]
               IN  HasDist(m, b.id) =>
                     /\ Dist(m, a.id) <= Dist(m, b.id)
                     /\ d < c => Dist(m, a.id) < Dist(m, b.id)
          /\ i > 2 => Dist(m, a.id) >= Dist(printed[c][i - 1], a.id)

(* On a tree the kernel can produce (each CPU in one node, symmetric     *)
(* sibling lists), no logical CPU appears twice in a written pinning      *)
(* file: SMT siblings listed by several CPUs of a node collapse into one  *)
(* core (the `seen` loop of get_nodes_info).                              *)
NoCpuPinnedTwice == written => IsInjective(pinFile)

\* Every logical id of every core of the clusters get_clusters returns.
ClusteredCpus(cl) ==
  UNION { Range(P!CoreAt(cl, q)) : q \in P!CorePos(cl) }

(* A written cluster-first pinning file holds every SMT thread of every  *)
(* core of the clusters it was computed from ("fills every physical      *)
(* core's first SMT thread across the whole machine", section 4.6).       *)
PinFileCoversClusteredCpus ==
  written /\ args.mode = "pin_cluster" =>
    Range(pinFile) = ClusteredCpus(GetClusters(tree, args.cache).val)

\* The node get_nodes_info built with this id, before any optimisation.
BuiltNode(id) == CHOOSE n \in Range(GetNodesInfo(tree).val) : n.id = id

\* The cache ids of a core's first logical CPU, and its sort key at the
\* requested level.
CacheIdsOf(core) == CacheInfo(tree, core[1]).val
CacheKey(core) == <<CacheIdsOf(core)[args.cache + 1], core[1]>>

(* With --cache L, every node that --cluster prints holds exactly the     *)
(* cores of the node as built whose first CPU has a cache id at level L  *)
(* (an id list cut short by an unreadable index<K>/id drops the core),   *)
(* ordered by (that cache id, first logical id): design section 4.4 and  *)
(* its postcondition in section 7, after get_clusters re-reads the ids.  *)
OptimizedNodesGroupedByCache ==
  pc = "done" /\ args.mode = "cluster" /\ exitCode = 0 /\ args.cache >= 0
    /\ printed # <<>> /\ printed[1][1].memory =>
    \A c \in DOMAIN printed : \A i \in DOMAIN printed[c] :
      LET cores == printed[c][i].cores_list
      IN  /\ Range(cores) =
               {k \in Range(BuiltNode(printed[c][i].id).cores_list) :
                  args.cache < Len(CacheIdsOf(k))}
          /\ \A j \in 1 .. Len(cores) - 1 :
               ~TupleLess(CacheKey(cores[j + 1]), CacheKey(cores[j]))

(* With no CPU and no node to be found, the tool exits with a non-zero   *)
(* status in every mode (design section 6: "non-zero on ... empty        *)
(* topology"; section 8's empty-topology scenario).                      *)
EmptyTopologyFails ==
  pc = "done" /\ args.mode # "save_cluster_info" /\ GetCpuInfo(tree) = <<>> /\ GetNodesInfo(tree).val = <<>>
    => exitCode # 0

(* --cluster never ends in "Unexpected error": unreadable or malformed    *)
(* attributes are skipped or downgraded to empty results (sections 4.1,  *)
(* 4.3 and 7: has_memory that cannot be parsed counts as no memory node). *)
ClusterQueryNeverRaises ==
  pc = "done" /\ args.mode = "cluster" => exitCode = 0
====
