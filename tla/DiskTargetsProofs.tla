-------------------------- MODULE DiskTargetsProofs --------------------------
(***************************************************************************)
(* Detection and grouping of disks, for any machine, any sizes and any     *)
(* number of disks.                                                        *)
(***************************************************************************)
EXTENDS DiskTargets, WellFoundedInduction, TLAPS

\* Until detection is done there are no groups, and every key still in the
\* list has a disk.
GroupsFollow ==
  /\ Detecting => NotGrouping
  /\ \A k \in rest : exact(k) # {}

\* Numbers are well ordered.
LEMMA LeastNumber ==
  ASSUME NEW S, S \subseteq Nat, S # {}
  PROVE  \E d \in S : \A e \in S : d <= e
<1> DEFINE less == OpToRel(<, Nat)
<1>1. IsWellFoundedOn(less, Nat)
  BY NatLessThanWellFounded
<1>2. \A m, n \in Nat : m < n => <<m, n>> \in less
  BY DEF OpToRel
<1> HIDE DEF less
<1>3. PICK d \in S : \A e \in S : ~(<<e, d>> \in less)
  BY <1>1, WFMin
<1>4. \A e \in S : ~(e < d)
  BY <1>2, <1>3
<1> QED
  BY <1>4

\* The first disk of a group of one model is one of its disks.
LEMMA FirstOfGroup ==
  ASSUME DOMAIN specs \subseteq Devices, NEW k, exact(k) # {}
  PROVE  /\ ExactGroup(k) \in Group
         /\ ExactGroup(k).disks = exact(k)
<1>1. exact(k) \subseteq Devices /\ exact(k) \subseteq Nat
  BY GroupAssumption DEF exact, disks, GroupAssumption
<1>2. \E d \in exact(k) : \A e \in exact(k) : d <= e
  BY <1>1, LeastNumber
<1>3. (CHOOSE d \in exact(k) : \A e \in exact(k) : d <= e) \in exact(k)
  BY <1>2
<1> QED
  BY <1>1, <1>3 DEF ExactGroup, Group

\* What either scan says of a disk is a DiskSpec.
LEMMA SpecTypes ==
  ASSUME NEW d \in Devices
  PROVE  UDisksSpec(d) \in DiskSpec /\ SysfsSpec(d) \in DiskSpec
<1>1. transport_from_device_name(d) \in Transport
  BY DEF transport_from_device_name, Transport
<1>2. /\ udisks2_bus_to_transport(d) \in Transport
      /\ detect_transport_sysfs(d) \in Transport
  BY <1>1 DEF udisks2_bus_to_transport, detect_transport_sysfs, Transport
<1>3. removable_from_dir(d) \in BOOLEAN
  BY DEF removable_from_dir
<1>4. Bytes[d] \in Nat /\ Model[d] \in Keys /\ UnknownModel \in Keys
  BY DeviceAssumption DEF DeviceAssumption
<1>5. UDisksSpec(d) \in DiskSpec
  <2>1. (IF d \in known THEN Model[d] ELSE UnknownModel) \in Keys
    BY <1>4
  <2> QED
    BY <1>2, <1>3, <1>4, <2>1, Zenon DEF UDisksSpec, DiskSpec
<1>6. SysfsSpec(d) \in DiskSpec
  BY <1>2, <1>3, <1>4, Zenon DEF SysfsSpec, DiskSpec
<1> QED
  BY <1>5, <1>6

\* A step of merging leaves groups of disks.
LEMMA GroupingTypes ==
  ASSUME TypeOK, GroupsFollow, merge_similar_groups, UNCHANGED specs
  PROVE  GroupsTypeOK' /\ \A k \in rest' : exact(k)' # {}
<1> USE DEF TypeOK
<1>1. rest' \subseteq rest
  BY DEF merge_similar_groups, PopGroup, MergeSimilar, PassOver, PushMerged
<1>2. \A k \in rest : exact(k)' # {}
  BY DEF GroupsFollow, exact, disks
<1>3. \A k \in rest : ExactGroup(k) \in Group
  BY FirstOfGroup DEF GroupsFollow
<1>4. rest \subseteq Nat
  BY GroupAssumption DEF GroupAssumption, GroupsTypeOK
<1>5. CASE PopGroup
  BY <1>1, <1>2, <1>3, <1>5 DEF PopGroup, GroupsTypeOK
<1>6. CASE MergeSimilar
  <2>1. PICK k \in rest : /\ current' = merge_two(current, ExactGroup(k))
                          /\ rest' = rest \ {k}
                          /\ at' = k + 1
    BY <1>6 DEF MergeSimilar
  <2>2. current \in Group /\ UNCHANGED merged
    BY <1>6 DEF MergeSimilar, GroupsTypeOK
  <2>3. current' \in Group
    BY <1>3, <2>1, <2>2 DEF merge_two, Group
  <2> QED
    BY <1>1, <1>2, <1>4, <2>1, <2>2, <2>3 DEF GroupsTypeOK
<1>7. CASE PassOver
  <2>1. PICK k \in rest : at' = k + 1
    BY <1>7 DEF PassOver
  <2> QED
    BY <1>2, <1>4, <1>7, <2>1 DEF PassOver, GroupsTypeOK
<1>8. CASE PushMerged
  BY <1>2, <1>8 DEF PushMerged, GroupsTypeOK
<1> QED
  BY <1>1, <1>2, <1>5, <1>6, <1>7, <1>8 DEF merge_similar_groups

\* What was detected starts to be grouped with the keys of its disks.
LEMMA FromDisks ==
  ASSUME TypeOK, specs' \in [DOMAIN specs' -> DiskSpec], from_disks(specs')
  PROVE  rest' \subseteq Keys /\ \A k \in rest' : exact(k)' # {}
<1>1. \A d \in DOMAIN specs' : specs'[d].key \in Keys
  BY DEF DiskSpec
<1> QED
  BY <1>1 DEF from_disks, exact, disks

\* Every reachable state is well typed, and nothing is grouped too early.
LEMMA TypeStep ==
  TypeOK /\ GroupsFollow /\ [Next]_vars => TypeOK' /\ GroupsFollow'
<1> SUFFICES ASSUME TypeOK, GroupsFollow, [Next]_vars
             PROVE  TypeOK' /\ GroupsFollow'
  OBVIOUS
<1> USE DEF TypeOK, Step, Detecting, fixedVars, machineVars, detectVars, groupVars
<1>a. specs' = specs => \A k : exact(k)' = exact(k)
  BY DEF exact, disks
<1>1. CASE GetManagedObjects \/ detect_hardware_initrd
  BY <1>a, <1>1 DEF GetManagedObjects, detect_hardware_initrd, GroupsTypeOK,
                    GroupsFollow, NotGrouping
<1>2. CASE ReadBootDisks
  <2>1. read_boot_disks \subseteq Devices
    <3>1. \A v \in mounts \cup resolve_root_spec : v.source \in Devices \cup {0}
      BY DeviceAssumption DEF DeviceAssumption, resolve_root_spec
    <3>2. \A v \in mounts \cup resolve_root_spec : parent_disk_of_dev(v) \subseteq Devices
      BY <3>1 DEF parent_disk_of_dev
    <3> QED
      BY <3>2 DEF read_boot_disks, boot_disks_from_mounts, boot_disk_from_cmdline
  <2> QED
    BY <1>a, <1>2, <2>1 DEF ReadBootDisks, GroupsTypeOK, GroupsFollow, NotGrouping
<1>3. CASE detect_disks_udisks2
  <2>1. CASE step' = "prefer"
    <3>1. specs' = [d \in {e \in objects : Acceptable(e)} |-> UDisksSpec(d)]
      BY <1>3, <2>1 DEF detect_disks_udisks2
    <3>2. DOMAIN specs' \subseteq Devices /\ specs' \in [DOMAIN specs' -> DiskSpec]
      BY <3>1, SpecTypes
    <3> QED
      BY <1>3, <2>1, <3>2 DEF detect_disks_udisks2, GroupsTypeOK, GroupsFollow, NotGrouping
  <2>2. CASE step' = "sysfs_boot"
    BY <1>a, <1>3, <2>2 DEF detect_disks_udisks2, GroupsTypeOK, GroupsFollow, NotGrouping
  <2> QED
    BY <1>3, <2>1, <2>2 DEF detect_disks_udisks2
<1>4. CASE detect_disks_sysfs_in
  <2>1. specs' = [d \in {e \in present : InSysfs(e)} |-> SysfsSpec(d)]
    BY <1>4 DEF detect_disks_sysfs_in
  <2>2. DOMAIN specs' \subseteq Devices /\ specs' \in [DOMAIN specs' -> DiskSpec]
    BY <2>1, SpecTypes
  <2>3. CASE initrd
    BY <1>4, <2>2, <2>3, FromDisks
      DEF detect_disks_sysfs_in, GroupsTypeOK, GroupsFollow, NotGrouping
  <2>4. CASE ~initrd
    BY <1>4, <2>2, <2>4 DEF detect_disks_sysfs_in, GroupsTypeOK, GroupsFollow, NotGrouping
  <2> QED
    BY <2>3, <2>4
<1>5. CASE PreferFixed
  <2>1. /\ DOMAIN prefer_fixed_disks \subseteq DOMAIN specs
        /\ prefer_fixed_disks \in [DOMAIN prefer_fixed_disks -> DiskSpec]
    BY DEF prefer_fixed_disks, disks
  <2> QED
    BY <1>5, <2>1, FromDisks DEF PreferFixed, GroupsTypeOK, GroupsFollow, NotGrouping
<1>6. CASE GroupDisks
  <2>1. CASE disks = {}
    BY <1>a, <1>6, <2>1 DEF GroupDisks, GroupsTypeOK, GroupsFollow, NotGrouping, exact, disks
  <2>2. CASE disks # {}
    BY <1>6, <2>2, GroupingTypes DEF GroupDisks, GroupsFollow
  <2> QED
    BY <2>1, <2>2
<1>7. CASE Mount \/ Plug \/ Unplug \/ Link
  <2>1. HotPlug \subseteq Devices
    BY DeviceAssumption DEF DeviceAssumption, HotPlug, OnUsb
  <2>2. CASE Unplug
    BY <1>a, <2>1, <2>2 DEF Unplug, RootForm, GroupsTypeOK, GroupsFollow, NotGrouping
  <2> QED
    BY <1>a, <1>7, <2>1, <2>2
      DEF Mount, Plug, Link, RootForm, GroupsTypeOK, GroupsFollow, NotGrouping
<1>8. CASE UNCHANGED vars
  BY <1>a, <1>8 DEF vars, GroupsTypeOK, GroupsFollow, NotGrouping
<1> QED
  BY <1>1, <1>2, <1>3, <1>4, <1>5, <1>6, <1>7, <1>8 DEF Next, detect_hardware

\* The type invariant, for any machine.
THEOREM DetectionTypes == Spec => []TypeOK
<1>1. Init => TypeOK /\ GroupsFollow
  BY DEF Init, TypeOK, GroupsFollow, GroupsTypeOK, NotGrouping, NoDisks, Step, NoVolume,
         RootForm, resolve_root_spec
<1>2. TypeOK /\ GroupsFollow /\ [Next]_vars => TypeOK' /\ GroupsFollow'
  BY TypeStep
<1> QED
  BY <1>1, <1>2, PTL DEF Spec

LEMMA Followed == Spec => [](TypeOK /\ GroupsFollow)
<1>1. Init => TypeOK /\ GroupsFollow
  BY DEF Init, TypeOK, GroupsFollow, GroupsTypeOK, NotGrouping, NoDisks, Step, NoVolume,
         RootForm, resolve_root_spec
<1> QED
  BY <1>1, TypeStep, PTL DEF Spec
----------------------------------------------------------------------------
\* Grouping.  The detected disks change only while there are no groups, so
\* that a property of groups is one of the steps of merging.
LEMMA GroupingStep ==
  ASSUME TypeOK, GroupsFollow, [Next]_vars
  PROVE  \/ merge_similar_groups /\ Offered /\ Offered' /\ UNCHANGED specs
         \/ UNCHANGED <<specs, groupVars>> /\ (Offered' => Offered)
         \/ UNCHANGED <<current, at, merged>> /\ NotGrouping
              /\ (Offered' => from_disks(specs'))
<1> USE DEF GroupsFollow, Detecting, Offered, fixedVars, machineVars, detectVars, groupVars
<1>1. CASE GetManagedObjects \/ detect_hardware_initrd \/ ReadBootDisks
  BY <1>1 DEF GetManagedObjects, detect_hardware_initrd, ReadBootDisks
<1>2. CASE detect_disks_udisks2
  BY <1>2 DEF detect_disks_udisks2, NotGrouping
<1>3. CASE detect_disks_sysfs_in
  BY <1>3 DEF detect_disks_sysfs_in, NotGrouping
<1>4. CASE PreferFixed
  BY <1>4 DEF PreferFixed
<1>5. CASE GroupDisks
  BY <1>5 DEF GroupDisks
<1>6. CASE Mount \/ Plug \/ Unplug \/ Link
  BY <1>6 DEF Mount, Plug, Unplug, Link
<1>7. CASE UNCHANGED vars
  BY <1>7 DEF vars
<1> QED
  BY <1>1, <1>2, <1>3, <1>4, <1>5, <1>6, <1>7 DEF Next, detect_hardware

\* Exact groups are apart, and are what is left to group.
LEMMA ExactApart ==
  /\ \A d : d \in Ungrouped <=> d \in disks /\ specs[d].key \in rest
  /\ \A k : \A d \in exact(k) : d \in disks /\ specs[d].key = k
BY DEF Ungrouped, exact

\* The disks of an exact group are those of its key.
LEMMA ExactDisks == \A k : ExactGroup(k).disks = exact(k)
BY DEF ExactGroup

LEMMA PartitionStep ==
  TypeOK /\ GroupsFollow /\ DisksPartitioned /\ [Next]_vars => DisksPartitioned'
<1> SUFFICES ASSUME TypeOK, GroupsFollow, DisksPartitioned, [Next]_vars, Offered'
             PROVE  GroupsPartition'
  BY DEF DisksPartitioned
<1>1. CASE UNCHANGED <<specs, groupVars>> /\ (Offered' => Offered)
  <2>1. disks' = disks /\ Ungrouped' = Ungrouped
    BY <1>1 DEF Ungrouped, exact, disks, groupVars
  <2> QED
    BY <1>1, <2>1 DEF DisksPartitioned, GroupsPartition, groupVars
<1>2. CASE UNCHANGED <<current, at, merged>> /\ NotGrouping /\ from_disks(specs')
  <2>1. \A d \in DOMAIN specs' : specs'[d].key \in rest'
    BY <1>2 DEF from_disks
  <2>2. disks' = Ungrouped'
    BY <2>1 DEF Ungrouped, exact, disks
  <2> QED
    BY <1>2, <2>2 DEF GroupsPartition, NotGrouping, NoGroup
<1>3. CASE merge_similar_groups /\ Offered /\ UNCHANGED specs
  <2>1. GroupsPartition
    BY <1>3 DEF DisksPartitioned
  <2>2. disks' = disks /\ \A k : exact(k)' = exact(k)
    BY <1>3 DEF disks, exact
  <2>3. CASE PopGroup
    <3>1. PICK k \in rest : current' = ExactGroup(k) /\ rest' = rest \ {k}
      BY <2>3 DEF PopGroup
    <3>2. /\ Ungrouped = Ungrouped' \cup exact(k)
          /\ Ungrouped' \cap exact(k) = {}
      BY <2>2, <3>1 DEF Ungrouped, exact
    <3> QED
      BY <2>1, <2>2, <2>3, <3>1, <3>2, ExactDisks DEF PopGroup, GroupsPartition, NoGroup
  <2>4. CASE MergeSimilar
    <3>1. PICK k \in rest : /\ current' = merge_two(current, ExactGroup(k))
                            /\ rest' = rest \ {k}
      BY <2>4 DEF MergeSimilar
    <3>2. /\ Ungrouped = Ungrouped' \cup exact(k)
          /\ Ungrouped' \cap exact(k) = {}
      BY <2>2, <3>1 DEF Ungrouped, exact
    <3>3. current'.disks = current.disks \cup exact(k)
      BY <3>1, ExactDisks DEF merge_two
    <3> QED
      BY <2>1, <2>2, <2>4, <3>2, <3>3 DEF MergeSimilar, GroupsPartition
  <2>5. CASE PassOver
    BY <2>1, <2>2, <2>5 DEF PassOver, GroupsPartition, Ungrouped
  <2>6. CASE PushMerged
    <3>1. Ungrouped' = Ungrouped
      BY <2>2, <2>6 DEF PushMerged, Ungrouped
    <3>2. /\ merged' = merged \cup {current}
          /\ current'.disks = {}
      BY <2>6 DEF PushMerged, NoGroup
    <3>3. UNION {g.disks : g \in merged'} = current.disks \cup UNION {g.disks : g \in merged}
      BY <3>2
    <3> QED
      BY <2>1, <2>2, <3>1, <3>2, <3>3 DEF GroupsPartition
  <2> QED
    BY <1>3, <2>3, <2>4, <2>5, <2>6 DEF merge_similar_groups
<1> QED
  BY <1>1, <1>2, <1>3, GroupingStep

\* Every disk offered is in exactly one group, for any disks.
THEOREM EveryDiskOnce == Spec => []DisksPartitioned
<1>1. Init => DisksPartitioned
  BY DEF Init, DisksPartitioned, Offered
<1> QED
  BY <1>1, PartitionStep, Followed, PTL DEF Spec

\* Steps that are none of merging leave no groups, or those there were.
LEMMA NoGroupsYet ==
  ASSUME UNCHANGED <<current, at, merged>>, NotGrouping
  PROVE  /\ merged' = {} /\ current' = NoGroup
         /\ merged' \cup {current'} = {NoGroup}
BY DEF NotGrouping

\* Disks of one model stay together: groups are made of whole exact groups ...
SameModelTogether ==
  \A g \in merged \cup {current} : \A d \in g.disks :
    d \in exact(specs[d].key) /\ exact(specs[d].key) \subseteq g.disks

\* ... whose first disks are attached alike.
MergedAlike ==
  \A g \in merged \cup {current} : \A d \in g.disks :
    device_type(ExactGroup(specs[d].key)) = device_type(g)

LEMMA SameModelStep ==
  TypeOK /\ GroupsFollow /\ SameModelTogether /\ [Next]_vars => SameModelTogether'
<1> SUFFICES ASSUME TypeOK, GroupsFollow, SameModelTogether, [Next]_vars
             PROVE  SameModelTogether'
  OBVIOUS
<1>1. CASE UNCHANGED <<specs, groupVars>>
  BY <1>1 DEF SameModelTogether, exact, disks, groupVars
<1>2. CASE UNCHANGED <<current, at, merged>> /\ NotGrouping
  BY <1>2, NoGroupsYet DEF SameModelTogether, NoGroup
<1>3. CASE merge_similar_groups /\ UNCHANGED specs
  <2>1. \A k : exact(k)' = exact(k) /\ \A d \in exact(k) : specs[d].key = k
    BY <1>3 DEF exact, disks
  <2>2. \A g \in merged \cup {current} : \A d \in g.disks :
          d \in exact(specs[d].key) /\ exact(specs[d].key) \subseteq g.disks
    BY DEF SameModelTogether
  <2>3. CASE PopGroup
    BY <1>3, <2>1, <2>2, <2>3, ExactDisks DEF PopGroup, SameModelTogether
  <2>4. CASE MergeSimilar
    <3>1. PICK k \in rest : current' = merge_two(current, ExactGroup(k))
      BY <2>4 DEF MergeSimilar
    <3>2. current'.disks = current.disks \cup exact(k)
      BY <3>1, ExactDisks DEF merge_two
    <3>3. merged' = merged
      BY <2>4 DEF MergeSimilar
    <3> QED
      BY <1>3, <2>1, <2>2, <3>2, <3>3 DEF SameModelTogether
  <2>5. CASE PassOver
    BY <1>3, <2>1, <2>2, <2>5 DEF PassOver, SameModelTogether
  <2>6. CASE PushMerged
    BY <1>3, <2>1, <2>2, <2>6 DEF PushMerged, SameModelTogether, NoGroup
  <2> QED
    BY <1>3, <2>3, <2>4, <2>5, <2>6 DEF merge_similar_groups
<1> QED
  BY <1>1, <1>2, <1>3, GroupingStep

LEMMA AlikeStep ==
  TypeOK /\ GroupsFollow /\ MergedAlike /\ [Next]_vars => MergedAlike'
<1> SUFFICES ASSUME TypeOK, GroupsFollow, MergedAlike, [Next]_vars
             PROVE  MergedAlike'
  OBVIOUS
<1>1. CASE UNCHANGED <<specs, groupVars>>
  BY <1>1 DEF MergedAlike, ExactGroup, exact, disks, device_type, groupVars
<1>2. CASE UNCHANGED <<current, at, merged>> /\ NotGrouping
  BY <1>2, NoGroupsYet DEF MergedAlike, NoGroup
<1>3. CASE merge_similar_groups /\ UNCHANGED specs
  <2>1. /\ \A k : ExactGroup(k)' = ExactGroup(k)
        /\ \A g : device_type(g)' = device_type(g)
        /\ \A k : \A d \in exact(k) : specs[d].key = k
    BY <1>3 DEF ExactGroup, exact, disks, device_type
  <2>2. \A g \in merged \cup {current} : \A d \in g.disks :
          device_type(ExactGroup(specs[d].key)) = device_type(g)
    BY DEF MergedAlike
  <2>3. CASE PopGroup
    BY <1>3, <2>1, <2>2, <2>3, ExactDisks DEF PopGroup, MergedAlike
  <2>4. CASE MergeSimilar
    <3>1. PICK k \in rest : /\ Mergeable(current, ExactGroup(k))
                            /\ current' = merge_two(current, ExactGroup(k))
                            /\ merged' = merged
      BY <2>4 DEF MergeSimilar
    <3>2. /\ current'.disks = current.disks \cup exact(k)
          /\ device_type(current') = device_type(current)
      BY <3>1, ExactDisks DEF merge_two, device_type
    <3>3. device_type(ExactGroup(k)) = device_type(current)
      BY <3>1 DEF Mergeable
    <3>4. \A d \in current'.disks :
            device_type(ExactGroup(specs[d].key)) = device_type(current')
      BY <2>1, <2>2, <3>2, <3>3
    <3> QED
      BY <1>3, <2>1, <2>2, <3>1, <3>4 DEF MergedAlike
  <2>5. CASE PassOver
    BY <1>3, <2>1, <2>2, <2>5 DEF PassOver, MergedAlike
  <2>6. CASE PushMerged
    BY <1>3, <2>1, <2>2, <2>6 DEF PushMerged, MergedAlike, NoGroup
  <2> QED
    BY <1>3, <2>3, <2>4, <2>5, <2>6 DEF merge_similar_groups
<1> QED
  BY <1>1, <1>2, <1>3, GroupingStep

\* Each disk is attached like the first disk of its model, which is like the
\* first of the group.
LEMMA OneModelOneTransport ==
  ASSUME TypeOK, SameModelTogether, MergedAlike
  PROVE  MixedOnlyInModel
<1> SUFFICES ASSUME NEW g \in merged \cup {current},
                    \A d, e \in g.disks : SameModel(d, e) => SameTransport(d, e)
             PROVE  \A d, e \in g.disks : SameTransport(d, e)
  BY DEF MixedOnlyInModel
<1>1. \A d \in g.disks : specs[d].transport = device_type(g)
  <2> SUFFICES ASSUME NEW d \in g.disks PROVE specs[d].transport = device_type(g)
    OBVIOUS
  <2> DEFINE k == specs[d].key
             f == ExactGroup(k).first
  <2>1. d \in exact(k)
    BY DEF SameModelTogether
  <2>2. f \in exact(k)
    <3>1. exact(k) \subseteq Nat
      BY GroupAssumption DEF GroupAssumption, TypeOK, exact, disks
    <3>2. \E m \in exact(k) : \A e \in exact(k) : m <= e
      BY <2>1, <3>1, LeastNumber
    <3>3. (CHOOSE m \in exact(k) : \A e \in exact(k) : m <= e) \in exact(k)
      BY <3>2
    <3> QED
      BY <3>3 DEF ExactGroup
  <2>3. f \in g.disks /\ specs[f].key = k
    BY <2>2 DEF SameModelTogether, exact
  <2>4. specs[f].transport = device_type(g)
    BY DEF MergedAlike, device_type
  <2> QED
    BY <2>3, <2>4 DEF SameModel, SameTransport
<1> QED
  BY <1>1 DEF SameTransport

\* A group mixes transports only if disks of one make and model do, for any
\* disks and any order of merging.
THEOREM MixedWithinModel == Spec => []MixedOnlyInModel
<1>1. Init => SameModelTogether /\ MergedAlike
  BY DEF Init, SameModelTogether, MergedAlike, NotGrouping, NoGroup
<1> QED
  BY <1>1, SameModelStep, AlikeStep, OneModelOneTransport, Followed,
     PTL DEF Spec

LEMMA SimilarSymmetric ==
  ASSUME TypeOK
  PROVE  \A d, e \in disks : similar_size(d, e) <=> similar_size(e, d)
<1>1. \A d \in disks : specs[d].size_bytes \in Nat
  BY DEF TypeOK, disks, DiskSpec
<1> QED
  BY <1>1, GroupAssumption DEF similar_size, abs_diff, GroupAssumption

LEMMA MixedStep ==
  TypeOK /\ GroupsFollow /\ DisksPartitioned /\ MixedAreSimilar /\ [Next]_vars
    => MixedAreSimilar'
<1> SUFFICES ASSUME TypeOK, GroupsFollow, DisksPartitioned, MixedAreSimilar, [Next]_vars
             PROVE  MixedAreSimilar'
  OBVIOUS
<1>1. CASE UNCHANGED <<specs, groupVars>>
  BY <1>1 DEF MixedAreSimilar, SameModel, similar_size, groupVars
<1>2. CASE UNCHANGED <<current, at, merged>> /\ NotGrouping
  BY <1>2, NoGroupsYet DEF MixedAreSimilar, NoGroup
<1>3. CASE merge_similar_groups /\ Offered /\ UNCHANGED specs
  <2>1. \A d, e : similar_size(d, e)' <=> similar_size(d, e)
    BY <1>3 DEF similar_size
  <2>2. \A g \in merged \cup {current} : \A d, e \in g.disks :
          specs[d].key # specs[e].key => similar_size(d, e)
    BY DEF MixedAreSimilar, SameModel
  <2>3. CASE PopGroup
    <3>1. PICK k \in rest : current' = ExactGroup(k) /\ merged' = merged
      BY <2>3 DEF PopGroup
    <3>2. \A d, e \in current'.disks : specs[d].key = specs[e].key
      BY <3>1, ExactDisks, ExactApart
    <3> QED
      BY <1>3, <2>1, <2>2, <3>1, <3>2 DEF MixedAreSimilar, SameModel
  <2>4. CASE MergeSimilar
    <3>1. PICK k \in rest : /\ Mergeable(current, ExactGroup(k))
                            /\ current' = merge_two(current, ExactGroup(k))
                            /\ merged' = merged
      BY <2>4 DEF MergeSimilar
    <3>2. current'.disks = current.disks \cup exact(k)
      BY <3>1, ExactDisks DEF merge_two
    <3>3. \A d \in current.disks, e \in exact(k) : similar_size(d, e)
      BY <3>1, ExactDisks DEF Mergeable, all_sizes_similar
    <3>4. current.disks \subseteq disks /\ exact(k) \subseteq disks
      BY <1>3 DEF DisksPartitioned, GroupsPartition, exact
    <3>5. \A d, e \in exact(k) : specs[d].key = specs[e].key
      BY ExactApart
    <3>6. \A d, e \in current'.disks : specs[d].key # specs[e].key => similar_size(d, e)
      BY <2>2, <3>2, <3>3, <3>4, <3>5, SimilarSymmetric
    <3> QED
      BY <1>3, <2>1, <2>2, <3>1, <3>6 DEF MixedAreSimilar, SameModel
  <2>5. CASE PassOver
    BY <1>3, <2>1, <2>2, <2>5 DEF PassOver, MixedAreSimilar, SameModel
  <2>6. CASE PushMerged
    BY <1>3, <2>1, <2>2, <2>6 DEF PushMerged, MixedAreSimilar, SameModel, NoGroup
  <2> QED
    BY <1>3, <2>3, <2>4, <2>5, <2>6 DEF merge_similar_groups
<1> QED
  BY <1>1, <1>2, <1>3, GroupingStep

\* Whatever the order of merging, disks of different models in one group are
\* within the threshold of each other.
THEOREM MixedSimilar == Spec => []MixedAreSimilar
<1>1. Init => MixedAreSimilar
  BY DEF Init, MixedAreSimilar, NotGrouping, NoGroup
<1> QED
  BY <1>1, MixedStep, Followed, EveryDiskOnce, PTL DEF Spec
----------------------------------------------------------------------------
\* What merging has compared so far: a result with every group left, the
\* current group with every result and with the groups before the index.
Compared ==
  /\ \A g \in merged, k \in rest : ~Mergeable(g, ExactGroup(k))
  /\ current # NoGroup =>
       /\ \A g \in merged : ~Mergeable(g, current)
       /\ \A k \in rest : k < at => ~Mergeable(current, ExactGroup(k))

\* Merging in a group keeps apart what was apart.
LEMMA StaysApart ==
  ASSUME NEW a, NEW b, NEW g
  PROVE  /\ ~Mergeable(g, a) /\ device_type(b) = device_type(a)
             => ~Mergeable(g, merge_two(a, b))
         /\ ~Mergeable(a, g) => ~Mergeable(merge_two(a, b), g)
BY DEF Mergeable, merge_two, device_type, all_sizes_similar

LEMMA ComparedStep ==
  TypeOK /\ GroupsFollow /\ DisksPartitioned /\ Compared /\ NothingLeftToMerge /\ [Next]_vars
    => Compared' /\ NothingLeftToMerge'
<1> SUFFICES ASSUME TypeOK, GroupsFollow, DisksPartitioned, Compared, NothingLeftToMerge,
                    [Next]_vars
             PROVE  Compared' /\ NothingLeftToMerge'
  OBVIOUS
<1>1. CASE UNCHANGED <<specs, groupVars>>
  <2>1. /\ \A g, h : Mergeable(g, h)' <=> Mergeable(g, h)
        /\ \A k : ExactGroup(k)' = ExactGroup(k)
    BY <1>1 DEF Mergeable, device_type, all_sizes_similar, similar_size, ExactGroup,
                exact, disks
  <2> QED
    BY <1>1, <2>1 DEF Compared, NothingLeftToMerge, groupVars
<1>2. CASE UNCHANGED <<current, at, merged>> /\ NotGrouping
  BY <1>2, NoGroupsYet DEF Compared, NothingLeftToMerge
<1>3. CASE merge_similar_groups /\ Offered /\ UNCHANGED specs
  <2>1. /\ \A g, h : Mergeable(g, h)' <=> Mergeable(g, h)
        /\ \A k : ExactGroup(k)' = ExactGroup(k)
    BY <1>3 DEF Mergeable, device_type, all_sizes_similar, similar_size, ExactGroup,
                exact, disks
  <2>2. rest \subseteq Nat /\ at \in Nat
    BY GroupAssumption DEF GroupAssumption, TypeOK, GroupsTypeOK
  <2>3. CASE PopGroup
    <3>1. PICK k \in rest : /\ current' = ExactGroup(k) /\ rest' = rest \ {k}
                            /\ at' = 0 /\ merged' = merged
      BY <2>3 DEF PopGroup
    <3>2. \A j \in rest' : ~(j < at')
      BY <2>2, <3>1
    <3> QED
      BY <2>1, <3>1, <3>2 DEF Compared, NothingLeftToMerge
  <2>4. CASE MergeSimilar
    <3>1. PICK k \in rest : /\ Compare(k) /\ Mergeable(current, ExactGroup(k))
                            /\ current' = merge_two(current, ExactGroup(k))
                            /\ rest' = rest \ {k} /\ at' = k + 1
      BY <2>4 DEF MergeSimilar
    <3>2. merged' = merged /\ current # NoGroup
      BY <2>4 DEF MergeSimilar
    <3>3. \A j \in rest' : j < at' => j < at
      BY <2>2, <3>1 DEF Compare
    <3>4. \A j \in rest' : j < at' => ~Mergeable(current', ExactGroup(j))
      BY <3>1, <3>2, <3>3, StaysApart DEF Compared
    <3>5. \A g \in merged : ~Mergeable(g, current')
      BY <3>1, <3>2, StaysApart DEF Compared, Mergeable
    <3> QED
      BY <2>1, <3>1, <3>2, <3>4, <3>5 DEF Compared, NothingLeftToMerge
  <2>5. CASE PassOver
    <3>1. PICK k \in rest : /\ Compare(k) /\ ~Mergeable(current, ExactGroup(k))
                            /\ at' = k + 1
      BY <2>5 DEF PassOver
    <3>2. \A j \in rest : j < at' => j < at \/ j = k
      BY <2>2, <3>1 DEF Compare
    <3> QED
      BY <2>1, <2>5, <3>1, <3>2 DEF PassOver, Compared, NothingLeftToMerge
  <2>6. CASE PushMerged
    <3>1. \A g \in merged \cup {current} : g.disks \subseteq disks
      BY <1>3 DEF DisksPartitioned, GroupsPartition
    <3>2. \A g \in merged : ~Mergeable(current, g)
      <4> SUFFICES ASSUME NEW g \in merged, Mergeable(current, g)
                   PROVE  Mergeable(g, current)
        BY <2>6 DEF PushMerged, Compared
      <4>1. \A d \in current.disks, e \in g.disks : similar_size(d, e)
        BY DEF Mergeable, all_sizes_similar
      <4>2. \A d \in g.disks, e \in current.disks : similar_size(d, e)
        BY <3>1, <4>1, SimilarSymmetric
      <4> QED
        BY <4>2 DEF Mergeable, all_sizes_similar
    <3> QED
      BY <2>1, <2>6, <3>2 DEF PushMerged, Compared, NothingLeftToMerge
  <2> QED
    BY <1>3, <2>3, <2>4, <2>5, <2>6 DEF merge_similar_groups
<1> QED
  BY <1>1, <1>2, <1>3, GroupingStep

\* One greedy pass suffices, for any sizes, models and order of keys.
THEOREM NothingLeft == Spec => []NothingLeftToMerge
<1>1. Init => Compared /\ NothingLeftToMerge
  BY DEF Init, Compared, NothingLeftToMerge, NotGrouping
<1> QED
  BY <1>1, ComparedStep, Followed, EveryDiskOnce, PTL DEF Spec
----------------------------------------------------------------------------
\* Detection.  What was seen at the start still is; once boot_disks was read it
\* has every disk named then; what was scanned has none of them.
BootKnown ==
  /\ seen \subseteq mounts \cup resolve_root_spec
  /\ step \in {"udisks_scan", "sysfs_scan"} =>
       \A v \in seen : v.source # 0 => v.source \in boot_disks
  /\ step \in {"prefer", "group"} => \A v \in seen : v.source \notin disks

LEMMA BootStep == TypeOK /\ BootKnown /\ [Next]_vars => BootKnown'
<1> SUFFICES ASSUME TypeOK, BootKnown, [Next]_vars PROVE BootKnown'
  OBVIOUS
<1> USE DEF BootKnown, fixedVars, machineVars, detectVars
<1>0. UNCHANGED <<root_form, cmdline>> => resolve_root_spec' = resolve_root_spec
  BY DEF resolve_root_spec
<1>1. CASE GetManagedObjects \/ detect_hardware_initrd
  BY <1>0, <1>1 DEF GetManagedObjects, detect_hardware_initrd
<1>2. CASE ReadBootDisks
  <2>1. \A v \in seen : v.source # 0 => v.source \in read_boot_disks
    BY DEF read_boot_disks, boot_disks_from_mounts, boot_disk_from_cmdline, parent_disk_of_dev
  <2> QED
    BY <1>0, <1>2, <2>1 DEF ReadBootDisks
<1>3. CASE detect_disks_udisks2 \/ detect_disks_sysfs_in
  <2>1. 0 \notin Devices
    BY GroupAssumption DEF GroupAssumption
  <2>2. CASE specs' = specs /\ step' = "sysfs_boot"
    BY <1>0, <1>3, <2>2 DEF detect_disks_udisks2, detect_disks_sysfs_in
  <2>3. CASE disks' \subseteq Devices \ boot_disks
    <3>1. \A v \in seen : v.source \notin disks'
      BY <1>3, <2>1, <2>3 DEF detect_disks_udisks2, detect_disks_sysfs_in
    <3> QED
      BY <1>0, <1>3, <3>1 DEF detect_disks_udisks2, detect_disks_sysfs_in
  <2>4. \/ specs' = specs /\ step' = "sysfs_boot"
        \/ disks' \subseteq Devices \ boot_disks
    BY <1>3 DEF detect_disks_udisks2, detect_disks_sysfs_in, Acceptable, InSysfs, disks, TypeOK
  <2> QED
    BY <2>2, <2>3, <2>4
<1>4. CASE PreferFixed
  <2>1. DOMAIN prefer_fixed_disks \subseteq disks
    BY DEF prefer_fixed_disks, disks
  <2> QED
    BY <1>0, <1>4, <2>1 DEF PreferFixed, disks
<1>5. CASE GroupDisks
  BY <1>0, <1>5 DEF GroupDisks, disks
<1>6. CASE Mount \/ Plug
  BY <1>0, <1>6 DEF Mount, Plug, disks
<1>7. CASE Unplug
  BY <1>7 DEF Unplug, disks
<1>8. CASE Link
  BY <1>8 DEF Link, disks, resolve_root_spec
<1>9. CASE UNCHANGED vars
  BY <1>0, <1>9 DEF vars, disks
<1> QED
  BY <1>1, <1>2, <1>3, <1>4, <1>5, <1>6, <1>7, <1>8, <1>9 DEF Next, detect_hardware

\* A disk that /proc/mounts or root= goes on naming is never offered, for any
\* machine, whatever is mounted, plugged in or pulled out meanwhile.
THEOREM BootMediumSpared == Spec => []BootSpared
<1>1. Init => BootKnown
  BY DEF Init, BootKnown
<1>2. BootKnown => BootSpared
  BY DEF BootKnown, BootSpared, Offered
<1> QED
  BY <1>1, <1>2, BootStep, DetectionTypes, PTL DEF Spec
----------------------------------------------------------------------------
\* What a scan may mistake: a disk that UDisks2 lists but that was pulled out
\* reads as not removable, and one without a drive as not on the USB bus.
Mistaken(d) ==
  \/ d \in RemovableFlag /\ ~specs[d].removable /\ d \notin pulled
  \/ d \in OnUsb /\ Family[d] = "sd" /\ specs[d].transport # "usb"
       /\ d \notin objects \ known

\* A fixed disk cannot be overlooked: UDisks2 lists it, either scan takes it,
\* and neither takes it for last-resort; what is listed and gone was pulled out.
FixedFound ==
  /\ step \in {"udisks_boot", "udisks_scan"} =>
       present \ HotPlug \subseteq objects /\ objects \ present \subseteq pulled
  /\ step = "prefer" =>
       /\ \A e \in Devices : Fixed(e) => e \in disks /\ ~is_last_resort_disk(specs[e])
       /\ \A d \in disks : ~Mistaken(d)
  /\ LastResortOnly

\* Either scan takes a fixed disk, and for what it is.
LEMMA FixedAccepted ==
  ASSUME NEW e \in Devices, Fixed(e)
  PROVE  /\ Acceptable(e) /\ InSysfs(e)
         /\ ~is_last_resort_disk(UDisksSpec(e))
         /\ ~is_last_resort_disk(SysfsSpec(e))
<1>1. Bytes[e] \in Nat /\ TinySize \in Nat \ {0} /\ Family[e] \in DeviceFamily
  BY DeviceAssumption DEF DeviceAssumption
<1>2. /\ e \in present \cap Backed /\ e \notin OnUsb /\ e \notin RemovableFlag
      /\ Family[e] # "virtual" /\ e \notin boot_disks /\ Bytes[e] >= TinySize
  BY DEF Fixed, HotPlug
<1>3. Bytes[e] > 0
  BY <1>1, <1>2
<1>4. Acceptable(e)
  BY <1>1, <1>2, <1>3 DEF Acceptable, is_real_disk
<1>5. transport_from_device_name(e) # "usb"
  BY DEF transport_from_device_name
<1>6. udisks2_bus_to_transport(e) # "usb" /\ detect_transport_sysfs(e) # "usb"
  BY <1>2, <1>5 DEF udisks2_bus_to_transport, detect_transport_sysfs, OnUsb
<1> QED
  BY <1>2, <1>4, <1>6 DEF InSysfs, is_last_resort_disk, UDisksSpec, SysfsSpec,
                         removable_from_dir

LEMMA FixedStep == TypeOK /\ FixedFound /\ [Next]_vars => FixedFound'
<1> SUFFICES ASSUME TypeOK, FixedFound, [Next]_vars PROVE FixedFound'
  OBVIOUS
<1> USE DEF FixedFound, LastResortOnly, Offered, fixedVars, machineVars, detectVars
<1>0. present \ HotPlug = present' \ HotPlug
  BY DEF Next, detect_hardware, GetManagedObjects, detect_hardware_initrd, ReadBootDisks,
         detect_disks_udisks2, detect_disks_sysfs_in, PreferFixed, GroupDisks,
         Mount, Plug, Unplug, Link, vars
<1>a. boot_disks' = boot_disks => \A e : Fixed(e)' <=> Fixed(e)
  BY <1>0 DEF Fixed
<1>b. \A s : is_last_resort_disk(s)' <=> is_last_resort_disk(s)
  BY DEF is_last_resort_disk
<1>c. disks' = DOMAIN specs'
  BY DEF disks
<1>1. CASE GetManagedObjects \/ detect_hardware_initrd
  BY <1>1 DEF GetManagedObjects, detect_hardware_initrd
<1>2. CASE ReadBootDisks
  BY <1>2 DEF ReadBootDisks
<1>3. CASE detect_disks_udisks2
  <2>1. CASE step' = "prefer"
    <3>1. /\ specs' = [d \in {e \in objects : Acceptable(e)} |-> UDisksSpec(d)]
          /\ UNCHANGED <<objects, known, boot_disks, machineVars>>
      BY <1>3, <2>1 DEF detect_disks_udisks2
    <3>2. \A e \in Devices : Fixed(e) => e \in objects
      BY <1>3 DEF detect_disks_udisks2, Fixed
    <3>3. \A e \in Devices : Fixed(e)' =>
            e \in disks' /\ ~is_last_resort_disk(specs'[e])
      BY <1>a, <1>c, <3>1, <3>2, FixedAccepted
    <3>4. \A d \in disks' : ~Mistaken(d)'
      <4> SUFFICES ASSUME NEW d \in disks' PROVE ~Mistaken(d)'
        OBVIOUS
      <4>1. d \in objects /\ specs'[d] = UDisksSpec(d)
        BY <1>c, <3>1
      <4>2. d \in RemovableFlag /\ ~UDisksSpec(d).removable => d \in pulled
        BY <1>3, <4>1 DEF detect_disks_udisks2, UDisksSpec, removable_from_dir
      <4>3. d \in OnUsb /\ UDisksSpec(d).transport # "usb" => d \in objects \ known
        BY <4>1 DEF UDisksSpec, udisks2_bus_to_transport, OnUsb
      <4> QED
        BY <3>1, <4>1, <4>2, <4>3 DEF Mistaken
    <3> QED
      BY <1>b, <2>1, <3>3, <3>4
  <2>2. CASE step' = "sysfs_boot"
    BY <2>2
  <2> QED
    BY <1>3, <2>1, <2>2 DEF detect_disks_udisks2
<1>4. CASE detect_disks_sysfs_in
  <2>1. /\ specs' = [d \in {e \in present : InSysfs(e)} |-> SysfsSpec(d)]
        /\ UNCHANGED <<boot_disks, machineVars, objects, known, initrd>>
        /\ step' = IF initrd THEN "group" ELSE "prefer"
    BY <1>4 DEF detect_disks_sysfs_in
  <2>2. \A e \in Devices : Fixed(e)' => e \in disks' /\ ~is_last_resort_disk(specs'[e])
    BY <1>a, <1>c, <2>1, FixedAccepted DEF Fixed
  <2>3. \A d \in disks' : ~Mistaken(d)'
    <3> SUFFICES ASSUME NEW d \in disks' PROVE ~Mistaken(d)'
      OBVIOUS
    <3>1. d \in present /\ specs'[d] = SysfsSpec(d)
      BY <1>c, <2>1
    <3>2. d \in RemovableFlag => SysfsSpec(d).removable
      BY <3>1 DEF SysfsSpec, removable_from_dir
    <3>3. d \in OnUsb /\ Family[d] = "sd" => SysfsSpec(d).transport = "usb"
      BY DEF SysfsSpec, detect_transport_sysfs
    <3> QED
      BY <3>1, <3>2, <3>3 DEF Mistaken
  <2> QED
    BY <1>b, <2>1, <2>2, <2>3
<1>5. CASE PreferFixed
  <2>1. /\ specs' = prefer_fixed_disks
        /\ step' = "group"
        /\ UNCHANGED <<boot_disks, objects, known, machineVars>>
    BY <1>5 DEF PreferFixed
  <2>2. /\ \A e \in Devices : Fixed(e) => e \in disks /\ ~is_last_resort_disk(specs[e])
        /\ \A d \in disks : ~Mistaken(d)
    BY <1>5 DEF PreferFixed
  <2>3. (\E e \in Devices : Fixed(e)) =>
          \A d \in DOMAIN prefer_fixed_disks : d \in disks /\ ~is_last_resort_disk(specs[d])
    BY <2>2 DEF prefer_fixed_disks
  <2>4. \A d \in disks : ~is_last_resort_disk(specs[d]) /\ ~Mistaken(d) =>
          /\ d \in RemovableFlag => d \in pulled
          /\ d \in OnUsb /\ Family[d] = "sd" => d \in objects \ known
    BY DEF is_last_resort_disk, Mistaken
  <2> QED
    BY <1>a, <1>c, <2>1, <2>2, <2>3, <2>4
<1>6. CASE GroupDisks
  BY <1>6, <1>a DEF GroupDisks, disks
<1>7. CASE Mount \/ Plug \/ Unplug \/ Link
  <2>1. UNCHANGED <<specs, step, boot_disks, objects, known>> /\ pulled \subseteq pulled'
    BY <1>7 DEF Mount, Plug, Unplug, Link
  <2>2. objects \ present \subseteq pulled => objects \ present' \subseteq pulled'
    BY <1>7 DEF Mount, Plug, Unplug, Link
  <2>3. \A d : Mistaken(d)' => Mistaken(d)
    BY <2>1 DEF Mistaken
  <2>4. step # "group"
    BY <1>7 DEF Mount, Plug, Unplug, Link, Detecting
  <2> QED
    BY <1>0, <1>a, <1>b, <1>c, <2>1, <2>2, <2>3, <2>4 DEF disks
<1>8. CASE UNCHANGED vars
  <2>1. \A d : Mistaken(d)' <=> Mistaken(d)
    BY <1>8 DEF vars, Mistaken
  <2> QED
    BY <1>0, <1>8, <1>a, <1>b, <2>1 DEF vars, disks
<1> QED
  BY <1>1, <1>2, <1>3, <1>4, <1>5, <1>6, <1>7, <1>8 DEF Next, detect_hardware

\* Beside a fixed disk no USB disk or removable medium is offered, but for one
\* listed without its drive or pulled out meanwhile, for any machine.
THEOREM LastResortLast == Spec => []LastResortOnly
<1>1. Init => FixedFound
  BY DEF Init, FixedFound, LastResortOnly, Offered
<1>2. FixedFound => LastResortOnly
  BY DEF FixedFound
<1> QED
  BY <1>1, <1>2, FixedStep, DetectionTypes, PTL DEF Spec
=============================================================================
