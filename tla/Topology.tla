----------------------------- MODULE Topology ------------------------------
(***************************************************************************)
(* SystemTopology of src/scripts/sysinfo.py: the reads of the sysfs tree  *)
(* and the structures built from them.  Every operation is a function of *)
(* the tree it reads, so this module defines operators of a tree value;   *)
(* SysInfo owns the state.                                                *)
(*                                                                         *)
(* Text of a sysfs file.  A list file is a sequence of comma-separated    *)
(* items: Num(n), the range RangeOf(a, b) (the text "a-b"), or JunkItem  *)
(* (a non-numeric token).  The empty sequence is the empty file.  A      *)
(* single-value file is an integer or Junk.  Missing stands for a file   *)
(* that cannot be opened.                                                 *)
(*                                                                         *)
(* A tree is a record:                                                    *)
(*   nodeRoot, cpuRoot : the two root directories can be listed          *)
(*   hasMemory         : text of node/has_memory                         *)
(*   nodeDirs, cpuDirs : the node<N> and cpu<N> directories present      *)
(*   node[n]           : [cpulist, distance] texts of node<n>            *)
(*   cpu[c]            : [siblings, coreId, packageId, cache, numa] of   *)
(*                       cpu<c>; cache is the sequence of cache/index<K>/id*)
(*                       values by ascending K, numa the node<M> link or *)
(*                       NoNode                                           *)
(***************************************************************************)
EXTENDS Integers, Sequences, SequencesExt, FiniteSets, TLC

CONSTANTS
  Missing,   \* a file that raises IOError when opened
  Junk,      \* a token int() rejects with ValueError
  NoNode     \* numa_node = None

-----------------------------------------------------------------------------
(* Results of a read: a value, or the exception the code raises.          *)
Ok(v) == [kind |-> "ok", val |-> v]
Fail(e) == [kind |-> e, val |-> <<>>]
IOError == "IOError"
ValueError == "ValueError"

Num(n) == [t |-> "num", v |-> n]
RangeOf(a, b) == [t |-> "range", lo |-> a, hi |-> b]
JunkItem == [t |-> "junk"]

\* `[int(x) for x in text.strip().split(sep) (if x.strip())]` read from file:
\* the empty file splits into one empty token, kept unless skipBlank.
ReadInts(file, skipBlank) ==
  IF file = Missing THEN Fail(IOError)
  ELSE IF file = <<>> THEN (IF skipBlank THEN Ok(<<>>) ELSE Fail(ValueError))
  ELSE IF \A i \in DOMAIN file : file[i].t = "num"
       THEN Ok([i \in DOMAIN file |-> file[i].v])
  ELSE Fail(ValueError)

\* `int(f.read().strip())` of a single-value file.
ReadInt(file) ==
  IF file = Missing THEN Fail(IOError)
  ELSE IF file = Junk THEN Fail(ValueError) ELSE Ok(file)

\* The cpulist parse of get_nodes_info: `if '-' in cpus_data` the text must
\* be exactly "a-b"; any other text with a dash fails to unpack or int().
ReadCpuList(file) ==
  IF file # Missing /\ \E i \in DOMAIN file : file[i].t = "range"
  THEN IF Len(file) = 1
       THEN LET lo == file[1].lo  hi == file[1].hi
            IN  Ok([i \in 1..(hi - lo + 1) |-> lo + i - 1])
       ELSE Fail(ValueError)
  ELSE ReadInts(file, TRUE)

\* The ids of a finite set of integers, ascending (the `.sort` by id).
Ascending(S) ==
  [i \in 1..Cardinality(S) |->
     CHOOSE x \in S : Cardinality({y \in S : y < x}) = i - 1]

\* Python's comparison of two equally long tuples of integers.
RECURSIVE TupleLess(_, _)
TupleLess(a, b) ==
  /\ a # <<>>
  /\ \/ a[1] < b[1]
     \/ a[1] = b[1] /\ TupleLess(Tail(a), Tail(b))

\* Stable sort of seq by a tuple Key, as Python's list.sort(key=...) does.
StableSortBy(seq, Key(_)) ==
  LET tagged == [i \in DOMAIN seq |-> <<Key(seq[i]), i>>]
      Before(a, b) == TupleLess(a[1], b[1]) \/ (a[1] = b[1] /\ a[2] < b[2])
      sorted == SortSeq(tagged, Before)
  IN  [i \in DOMAIN sorted |-> seq[sorted[i][2]]]

\* Mutant of Dedup: the duplicate check dropped.
DedupKeepAll(seq) == seq

\* The `seen` loop: first occurrences only, in order.
Dedup(seq) ==
  FoldLeft(LAMBDA acc, x : IF Contains(acc, x) THEN acc ELSE Append(acc, x),
           <<>>, seq)

-----------------------------------------------------------------------------
(* _get_cpus_logical_ids: an unreadable file gives []; a malformed one   *)
(* raises ValueError out of the helper.                                   *)
CpusLogicalIds(tree, c) ==
  IF c \notin tree.cpuDirs THEN Ok(<<>>)
  ELSE LET r == ReadInts(tree.cpu[c].siblings, FALSE)
       IN  IF r.kind = IOError THEN Ok(<<>>) ELSE r

(* _get_cache_info: ids by ascending index; the first unreadable id file *)
(* ends the scan with the ids read so far, a malformed one raises.        *)
CacheInfo(tree, c) ==
  IF c \notin tree.cpuDirs THEN Ok(<<>>)
  ELSE LET ids == tree.cpu[c].cache
           bad == {i \in DOMAIN ids : ids[i] \in {Missing, Junk}}
       IN  IF bad = {} THEN Ok(ids)
           ELSE LET j == Min(bad)
                IN  IF ids[j] = Missing THEN Ok(SubSeq(ids, 1, j - 1))
                    ELSE Fail(ValueError)

(* _get_node_of_cpu: the id of the first node<M> entry of cpu<c>, None *)
(* (NoNode) when there is none; the tree keeps that link per CPU.         *)
NodeOfCpu(tree, c) == tree.cpu[c].numa

(* get_cpu_info: one record per cpu<N> whose siblings, core_id and        *)
(* package_id read, whose cache ids do not raise; sorted by logical id.   *)
CpuRecord(tree, c) ==
  LET sib == ReadInts(tree.cpu[c].siblings, TRUE)
      core == ReadInt(tree.cpu[c].coreId)
      pkg == ReadInt(tree.cpu[c].packageId)
      cache == CacheInfo(tree, c)
  IN  IF sib.kind = "ok" /\ core.kind = "ok" /\ pkg.kind = "ok" /\ cache.kind = "ok"
      THEN Ok([logical_id |-> c, core_id |-> core.val, siblings |-> sib.val,
               numa_node |-> NodeOfCpu(tree, c), cache_ids |-> cache.val,
               package_id |-> pkg.val])
      ELSE Fail(ValueError)

GetCpuInfo(tree) ==
  IF ~tree.cpuRoot THEN <<>>
  ELSE LET ids == Ascending(tree.cpuDirs)
           recs == [i \in DOMAIN ids |-> CpuRecord(tree, ids[i])]
           read == SelectSeq(recs, LAMBDA r : r.kind = "ok")
       IN  [i \in DOMAIN read |-> read[i].val]

-----------------------------------------------------------------------------
(* get_nodes_info.  has_memory: IOError means no memory node (warning),  *)
(* ValueError is not caught and leaves the call.  A node whose cpulist,  *)
(* distance or sibling lists raise is skipped (warning).                  *)
MemoryNodes(tree) ==
  LET r == ReadInts(tree.hasMemory, FALSE)
  IN  IF r.kind = IOError THEN Ok({}) ELSE IF r.kind = ValueError THEN r
      ELSE Ok(Range(r.val))

NodeRecord(tree, n, memory) ==
  LET cpus == ReadCpuList(tree.node[n].cpulist)
      dist == ReadInts(tree.node[n].distance, TRUE)
      sibs == IF cpus.kind = "ok"
              THEN [i \in DOMAIN cpus.val |-> CpusLogicalIds(tree, cpus.val[i])]
              ELSE <<>>
      cores == SelectSeq([i \in DOMAIN sibs |-> sibs[i].val], LAMBDA t : t # <<>>)
  IN  IF /\ cpus.kind = "ok" /\ dist.kind = "ok"
         /\ \A i \in DOMAIN sibs : sibs[i].kind = "ok"
      THEN Ok([id |-> n, memory |-> n \in memory,
               cores_list |-> Dedup(cores), distance |-> dist.val])
      ELSE Fail(ValueError)

GetNodesInfo(tree) ==
  IF ~tree.nodeRoot THEN Ok(<<>>)
  ELSE LET mem == MemoryNodes(tree)
           ids == Ascending(tree.nodeDirs)
           recs == [i \in DOMAIN ids |-> NodeRecord(tree, ids[i], mem.val)]
           read == SelectSeq(recs, LAMBDA r : r.kind = "ok")
       IN  IF mem.kind # "ok" THEN mem
           ELSE Ok([i \in DOMAIN read |-> read[i].val])

-----------------------------------------------------------------------------
\* Mutant of OptimizeCacheNodes: cores sorted by first logical id only.
OptimizeCacheNodesByFirstId(tree, node, level) ==
  LET infos == [k \in DOMAIN node.cores_list |->
                  CacheInfo(tree, node.cores_list[k][1])]
      kept == SelectSeq([k \in DOMAIN infos |-> k],
                        LAMBDA k : level < Len(infos[k].val))
      order == StableSortBy(kept, LAMBDA k : <<node.cores_list[k][1]>>)
  IN  IF level < 0 THEN Ok(node)
      ELSE IF \E k \in DOMAIN infos : infos[k].kind # "ok" THEN Fail(ValueError)
      ELSE Ok([node EXCEPT !.cores_list =
                 [i \in DOMAIN order |-> node.cores_list[order[i]]]])

(* optimize_cache_nodes: keep the cores whose first cpu has a cache id at *)
(* cache_level, ordered by (that id, first logical id).  The cache ids   *)
(* are read again from the tree; a ValueError there leaves the call.      *)
OptimizeCacheNodes(tree, node, level) ==
  LET infos == [k \in DOMAIN node.cores_list |->
                  CacheInfo(tree, node.cores_list[k][1])]
      kept == SelectSeq([k \in DOMAIN infos |-> k],
                        LAMBDA k : level < Len(infos[k].val))
      order == StableSortBy(kept, LAMBDA k :
                 <<infos[k].val[level + 1], node.cores_list[k][1]>>)
  IN  IF level < 0 THEN Ok(node)
      ELSE IF \E k \in DOMAIN infos : infos[k].kind # "ok" THEN Fail(ValueError)
      ELSE Ok([node EXCEPT !.cores_list =
                 [i \in DOMAIN order |-> node.cores_list[order[i]]]])
-----------------------------------------------------------------------------
(* get_clusters(nodes=None, optimize_cache_level).  Distances are         *)
(* 0-indexed by node id; an id past the end of a vector has no distance.  *)
HasDist(node, to) == to < Len(node.distance)
Dist(node, to) == node.distance[to + 1]

\* Mutant of ClosestMem: `dist <= min_dist`, the last nearest anchor wins.
ClosestMemLastTie(node, mems) ==
  LET Step(acc, a) ==
        IF HasDist(node, mems[a].id)
           /\ (acc.inf \/ Dist(node, mems[a].id) <= acc.min)
        THEN [inf |-> FALSE, min |-> Dist(node, mems[a].id), closest |-> a]
        ELSE acc
  IN  FoldLeft(Step, [inf |-> TRUE, min |-> 0, closest |-> 0],
               [a \in DOMAIN mems |-> a]).closest

\* The scan `for mem_node in memory_nodes: if mem_node.id < len(distance):
\* if dist < min_dist: ...`: the index in mems of the anchor kept, 0 when
\* no anchor has a distance (the node joins no cluster).
ClosestMem(node, mems) ==
  LET Step(acc, a) ==
        IF HasDist(node, mems[a].id)
           /\ (acc.inf \/ Dist(node, mems[a].id) < acc.min)
        THEN [inf |-> FALSE, min |-> Dist(node, mems[a].id), closest |-> a]
        ELSE acc
  IN  FoldLeft(Step, [inf |-> TRUE, min |-> 0, closest |-> 0],
               [a \in DOMAIN mems |-> a]).closest

\* The key of `sorted(cluster[1:], key=...)`: the distance to the anchor,
\* float('inf') when the vector has no entry for it.
DistKey(anchor, n) ==
  IF HasDist(n, anchor.id) THEN <<0, Dist(n, anchor.id)>> ELSE <<1, 0>>

\* One cluster per memory node, in node order, with the other nodes
\* appended to their closest anchor and sorted by distance to it.
BuildClusters(nodes) ==
  LET mems == SelectSeq(nodes, LAMBDA n : n.memory)
      others == SelectSeq(nodes, LAMBDA n : ~n.memory)
      members(a) == SelectSeq(others, LAMBDA n : ClosestMem(n, mems) = a)
  IN  [a \in DOMAIN mems |->
         <<mems[a]>> \o StableSortBy(members(a), LAMBDA n : DistKey(mems[a], n))]

\* The trailing optimize_cache_nodes over every node of every cluster.
OptimizeClusters(tree, cl, level) ==
  LET opt == [c \in DOMAIN cl |-> [n \in DOMAIN cl[c] |->
                OptimizeCacheNodes(tree, cl[c][n], level)]]
  IN  IF level < 0 THEN Ok(cl)
      ELSE IF \E c \in DOMAIN opt : \E n \in DOMAIN opt[c] : opt[c][n].kind # "ok"
      THEN Fail(ValueError)
      ELSE Ok([c \in DOMAIN opt |-> [n \in DOMAIN opt[c] |-> opt[c][n].val]])

\* With no memory node the call returns [nodes] before any optimisation.
GetClusters(tree, level) ==
  LET nodes == GetNodesInfo(tree)
  IN  IF nodes.kind # "ok" THEN nodes
      ELSE IF nodes.val = <<>> THEN Ok(<<>>)
      ELSE IF \A i \in DOMAIN nodes.val : ~nodes.val[i].memory THEN Ok(<<nodes.val>>)
      ELSE OptimizeClusters(tree, BuildClusters(nodes.val), level)
====
