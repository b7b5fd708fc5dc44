------------------------------ MODULE DiskGroups ------------------------------
(***************************************************************************)
(* DiskGroup::from_disks: the detected disks are put into groups that may  *)
(* become one RAID.  Disks of one make and model are a group; then groups  *)
(* of one device type and of similar sizes are merged, greedily, by the    *)
(* loops of merge_similar_groups, one iteration per step.                  *)
(*                                                                         *)
(* A disk is the position of its device path among all device paths, and   *)
(* a group key the position of its (make, model) among all of them, so     *)
(* that the BTreeMap's order and the order of the detected list are those  *)
(* of numbers.                                                             *)
(***************************************************************************)
EXTENDS Naturals

CONSTANTS
  Devices,                    \* block devices, by device path
  Keys,                       \* (make, model) pairs a disk may report
  SIZE_SIMILARITY_THRESHOLD   \* in the unit of size_bytes

ASSUME GroupAssumption ==
  /\ Devices \subseteq Nat \ {0}
  /\ Keys \subseteq Nat
  /\ SIZE_SIMILARITY_THRESHOLD \in Nat

Transport == {"usb", "mmc", "nvme", "sata", "virtio", "ide", "xen", "unknown"}

DiskSpec == [key : Keys, size_bytes : Nat, transport : Transport,
             removable : BOOLEAN]

VARIABLES
  specs,      \* the detected disks: a function from device to DiskSpec
  rest,       \* keys of the exact groups still in `groups'
  current,    \* the group being grown, or NoGroup
  at,         \* `i': the smallest key not yet compared with current
  merged

groupVars == <<rest, current, at, merged>>

disks == DOMAIN specs

\* A group keeps its first disk, which stands for its device type.
Group == [first : Devices, disks : SUBSET Devices]
NoGroup == [first |-> 0, disks |-> {}]

exact(k) == {d \in disks : specs[d].key = k}

\* Step 1: the groups of equal make and model.
ExactGroup(k) ==
  [first |-> CHOOSE d \in exact(k) : \A e \in exact(k) : d <= e,
   disks |-> exact(k)]

device_type(g) == specs[g.first].transport

abs_diff(m, n) == IF m > n THEN m - n ELSE n - m

similar_size(d, e) ==
  abs_diff(specs[d].size_bytes, specs[e].size_bytes) <= SIZE_SIMILARITY_THRESHOLD

\* Mutant: one similar pair is enough.
any_sizes_similar(a, b) == \E d \in a, e \in b : similar_size(d, e)

all_sizes_similar(a, b) == \A d \in a, e \in b : similar_size(d, e)

\* The first disk stays the first.
merge_two(a, b) == [first |-> a.first, disks |-> a.disks \cup b.disks]

GroupsTypeOK ==
  /\ rest \subseteq Keys
  /\ current \in Group \cup {NoGroup}
  /\ at \in Nat
  /\ merged \subseteq Group

NotGrouping == rest = {} /\ current = NoGroup /\ at = 0 /\ merged = {}

from_disks(detected) == rest' = {detected[d].key : d \in DOMAIN detected}
----------------------------------------------------------------------------
\* groups.pop() takes the last group that is left.
PopGroup ==
  /\ current = NoGroup
  /\ \E k \in rest :
       /\ \A j \in rest : j <= k
       /\ current' = ExactGroup(k)
       /\ rest' = rest \ {k}
  /\ at' = 0
  /\ UNCHANGED merged

\* groups[i] is the next one to compare: merged into current and removed, or
\* passed over.
Compare(k) ==
  /\ k \in rest
  /\ at <= k
  /\ \A j \in rest : at <= j => k <= j

\* Mutant: groups are merged by size alone.
MergeableBySize(g, h) == all_sizes_similar(g.disks, h.disks)

Mergeable(g, h) ==
  device_type(h) = device_type(g) /\ all_sizes_similar(g.disks, h.disks)

\* Mutant: what was merged stays in the list.
MergeSimilarKeeping ==
  /\ current # NoGroup
  /\ \E k \in rest :
       /\ Compare(k)
       /\ Mergeable(current, ExactGroup(k))
       /\ current' = merge_two(current, ExactGroup(k))
       /\ at' = k + 1
  /\ UNCHANGED <<rest, merged>>

MergeSimilar ==
  /\ current # NoGroup
  /\ \E k \in rest :
       /\ Compare(k)
       /\ Mergeable(current, ExactGroup(k))
       /\ current' = merge_two(current, ExactGroup(k))
       /\ rest' = rest \ {k}
       /\ at' = k + 1
  /\ UNCHANGED merged

\* Mutant: the index moves on by two.
PassOverTwo ==
  /\ current # NoGroup
  /\ \E k \in rest :
       /\ Compare(k)
       /\ ~Mergeable(current, ExactGroup(k))
       /\ at' = k + 2
  /\ UNCHANGED <<rest, current, merged>>

PassOver ==
  /\ current # NoGroup
  /\ \E k \in rest :
       /\ Compare(k)
       /\ ~Mergeable(current, ExactGroup(k))
       /\ at' = k + 1
  /\ UNCHANGED <<rest, current, merged>>

PushMerged ==
  /\ current # NoGroup
  /\ \A k \in rest : k < at
  /\ merged' = merged \cup {current}
  /\ current' = NoGroup
  /\ UNCHANGED <<rest, at>>

merge_similar_groups == PopGroup \/ MergeSimilar \/ PassOver \/ PushMerged

grouped == rest = {} /\ current = NoGroup
----------------------------------------------------------------------------
Ungrouped == UNION {exact(k) : k \in rest}

\* No disk is lost, and none is in two groups: wherever merging stands, each
\* disk is either still to be grouped, in the current group or in one result.
GroupsPartition ==
  /\ disks = Ungrouped \cup current.disks \cup UNION {g.disks : g \in merged}
  /\ Ungrouped \cap current.disks = {}
  /\ \A g \in merged :
       /\ g.disks \cap (Ungrouped \cup current.disks) = {}
       /\ \A h \in merged : g # h => g.disks \cap h.disks = {}

SameModel(d, e) == specs[d].key = specs[e].key
SameTransport(d, e) == specs[d].transport = specs[e].transport

\* from_disks' "similar-size merge" joins groups of one device type, which is
\* that of their first disks: a group mixes transports only if one of its models
\* does, however many groups it was merged from.
MixedOnlyInModel ==
  \A g \in merged \cup {current} :
    (\A d, e \in g.disks : SameModel(d, e) => SameTransport(d, e))
      => \A d, e \in g.disks : SameTransport(d, e)

\* Merging is not transitive: two disks of different models share a group only
\* if they are within the threshold of each other themselves, not through a
\* chain of disks between them.
MixedAreSimilar ==
  \A g \in merged \cup {current} : \A d, e \in g.disks :
    ~SameModel(d, e) => similar_size(d, e)

\* One greedy pass is enough: no two results could still be merged, although
\* each group was compared while the others were still growing.
NothingLeftToMerge ==
  \A g, h \in merged : g # h => ~Mergeable(g, h)
=============================================================================
