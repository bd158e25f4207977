----------------------------- MODULE MCSysInfo -----------------------------
(***************************************************************************)
(* Bounded sysfs trees and command lines for SysInfo.                     *)
(*                                                                         *)
(* CommaList renders a set of ids as the design's interface describes     *)
(* list files ("0,1,2").  KernelList renders it as Linux writes cpulist,  *)
(* has_memory and thread_siblings_list: runs of consecutive ids as        *)
(* ranges ("0-1,3").                                                       *)
(***************************************************************************)
EXTENDS SysInfo

CommaList(S) == [i \in 1..Cardinality(S) |-> Num(Ascending(S)[i])]

KernelList(S) ==
  LET ids == Ascending(S)
      starts == SelectSeq([i \in DOMAIN ids |-> i],
                          LAMBDA i : i = 1 \/ ids[i - 1] # ids[i] - 1)
      last(j) == IF j = Len(starts) THEN Len(ids) ELSE starts[j + 1] - 1
  IN  [j \in DOMAIN starts |->
         IF starts[j] = last(j) THEN Num(ids[starts[j]])
         ELSE RangeOf(ids[starts[j]], ids[last(j)])]

-----------------------------------------------------------------------------
(* Cluster geometry: three nodes, node n holding the single CPU n; every *)
(* choice of memory nodes and of distance vectors over {10, 20} of length *)
(* 1 to 3 (a short vector has no entry for the higher node ids).          *)
GeoNodes == {0, 1, 2}
DistVectors == UNION { [1..l -> {Num(10), Num(20)}] : l \in 1..3 }

GeoTree(mem, dist) ==
  [nodeRoot |-> TRUE, cpuRoot |-> TRUE,
   hasMemory |-> CommaList(mem),
   nodeDirs |-> GeoNodes, cpuDirs |-> GeoNodes,
   node |-> [n \in GeoNodes |-> [cpulist |-> <<Num(n)>>, distance |-> dist[n]]],
   cpu |-> [c \in GeoNodes |-> [siblings |-> <<Num(c)>>, coreId |-> 0,
                                packageId |-> c, cache |-> <<c>>, numa |-> c]]]

GeoTrees == {GeoTree(mem, dist) : mem \in SUBSET GeoNodes,
                                  dist \in [GeoNodes -> DistVectors]}

\* --cluster, and the library call save_cluster_info: unoptimised, at
\* cache level 1 (which these CPUs lack, so every node loses its cores),
\* and into a file that cannot be opened.
GeoArgs == {[mode |-> "cluster", cache |-> l, x |-> 1, writable |-> TRUE] :
              l \in {-1, 0}}
           \cup {[mode |-> "save_cluster_info", cache |-> l, x |-> 1, writable |-> w] :
                  <<l, w>> \in {<<-1, TRUE>>, <<1, TRUE>>, <<-1, FALSE>>}}

-----------------------------------------------------------------------------
(* Machines as Linux presents them: two nodes, four CPUs grouped into     *)
(* cores by one of three SMT layouts, each core on either node, each     *)
(* core's CPUs sharing an L1 id (index0) and having an index1 id 0 or 1,  *)
(* or no index1 at all (-1).  Distances are the usual <<10, 20>>; at    *)
(* least one node has memory, as on every running Linux system.  A core  *)
(* may have an unreadable index0/id, which cuts its id list to nothing.  *)
MachNodes == {0, 1}
MachCpus == 0..3
SmtLayouts == { <<{0, 2}, {1, 3}>>, <<{0, 1}, {2, 3}>>,
                <<{0}, {1}, {2}, {3}>> }
CacheChoice == {-2, -1, 0, 1}   \* -1: no index1; -2: index0/id unreadable

CoreOf(layout, c) == CHOOSE k \in DOMAIN layout : c \in layout[k]

MachTree(mem, layout, home, l2) ==
  [nodeRoot |-> TRUE, cpuRoot |-> TRUE,
   hasMemory |-> KernelList(mem),
   nodeDirs |-> MachNodes, cpuDirs |-> MachCpus,
   node |-> [n \in MachNodes |->
              [cpulist |-> KernelList({c \in MachCpus : home[CoreOf(layout, c)] = n}),
               distance |-> IF n = 0 THEN <<Num(10), Num(20)>>
                                     ELSE <<Num(20), Num(10)>>]],
   cpu |-> [c \in MachCpus |->
             LET k == CoreOf(layout, c)
             IN  [siblings |-> KernelList(layout[k]), coreId |-> k,
                  packageId |-> home[k], numa |-> home[k],
                  cache |-> CASE l2[k] = -1 -> <<k>>
                              [] l2[k] = -2 -> <<Missing, 0>>
                              [] OTHER      -> <<k, l2[k]>>]]]

MachTrees ==
  UNION { {MachTree(mem, layout, home, l2) :
             home \in [DOMAIN layout -> MachNodes],
             l2 \in [DOMAIN layout -> CacheChoice]} :
           mem \in SUBSET MachNodes \ {{}}, layout \in SmtLayouts }

PinArgs ==
  {[mode |-> "pin_cluster", cache |-> l, x |-> 1, writable |-> TRUE] : l \in {-1, 1}}
  \cup
  {[mode |-> "pin_ping_pong", cache |-> l, x |-> x, writable |-> TRUE] :
     l \in {-1, 1}, x \in {1, 2}}
  \cup {[mode |-> "pin_ping_pong", cache |-> -1, x |-> 1, writable |-> FALSE]}

AllArgs ==
  PinArgs \cup
  {[mode |-> m, cache |-> l, x |-> x, writable |-> TRUE] :
     m \in {"cpu", "cluster"}, l \in {-1, 1}, x \in {1}}
  \cup {[mode |-> "pin_ping_pong", cache |-> -1, x |-> x, writable |-> TRUE] :
          x \in {0, Junk}}

\* A machine whose sysfs shows neither the cpu nor the node directory.
EmptyTrees ==
  {[nodeRoot |-> FALSE, cpuRoot |-> FALSE, hasMemory |-> Missing,
    nodeDirs |-> {}, cpuDirs |-> {}, node |-> <<>>, cpu |-> <<>>]}
====
