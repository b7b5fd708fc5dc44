------------------------------ MODULE DiskTargets ------------------------------
(***************************************************************************)
(* Which disks the installer offers: detect_disks (UDisks2, or else sysfs; *)
(* then prefer_fixed_disks) or, in the initrd, detect_disks_sysfs alone;   *)
(* and the groups made of them.  Meanwhile the machine mounts volumes, and *)
(* hot-plug media come and go.                                             *)
(***************************************************************************)
EXTENDS DiskGroups

CONSTANTS
  Family,       \* [Devices -> DeviceFamily]: what the kernel calls it
  Bytes,        \* [Devices -> Nat]
  Model,        \* [Devices -> Keys]: make and model it reports
  UnknownModel, \* the key of ("Unknown", "Unknown Model")
  TinySize,     \* 1_000_000_000
  Bus,          \* [Devices -> {"usb", "sdio", "other"}]: how it is connected
  RemovableFlag,\* devices the kernel calls removable
  Backed,       \* devices with a `device' directory in sysfs
  Volumes       \* [source : Devices \cup {0}, on : SUBSET Devices]: what can
                \* be mounted.  Source is the disk whose partition
                \* /proc/mounts or root= names, or 0 for a nested path such as
                \* /dev/mapper/x; `on' is what the volume really lies on.

DeviceFamily == {"sd", "nvme", "vd", "mmcblk", "hd", "xvd", "virtual", "other"}

ASSUME DeviceAssumption ==
  /\ Family \in [Devices -> DeviceFamily]
  /\ Bytes \in [Devices -> Nat]
  /\ Model \in [Devices -> Keys]
  /\ UnknownModel \in Keys
  /\ TinySize \in Nat \ {0}
  /\ Bus \in [Devices -> {"usb", "sdio", "other"}]
  /\ RemovableFlag \subseteq Devices /\ Backed \subseteq Devices
  /\ Volumes \subseteq [source : Devices \cup {0}, on : SUBSET Devices]

OnUsb == {d \in Devices : Bus[d] = "usb"}

NoVolume == [source |-> 0, on |-> {}]

\* How root= names its volume: by a path of /dev; by UUID=, LABEL= or PARTUUID=,
\* for which udev has made the link in /dev/disk or has not; or otherwise.
RootForm == {"dev", "linked", "unlinked", "other"}

Step == {"start", "udisks_boot", "udisks_scan", "sysfs_boot", "sysfs_scan",
         "prefer", "group", "no_disks"}

VARIABLES
  initrd,       \* --initrd
  step,
  boot_disks,
  objects,      \* block devices GetManagedObjects listed
  known,        \* those of them that have a Drive object
  \* The machine.
  present,      \* devices plugged in
  mounts,       \* volumes mounted
  cmdline,      \* the volume root= names, NoVolume if it names none
  root_form,
  \* History.
  seen,         \* volumes that /proc/mounts or root= has named all along
  pulled        \* devices that were pulled out

detectVars == <<step, boot_disks, objects, known>>
machineVars == <<present, mounts, root_form, seen, pulled>>
fixedVars == <<initrd, cmdline>>
vars == <<specs, groupVars, detectVars, machineVars, fixedVars>>

TypeOK ==
  /\ DOMAIN specs \subseteq Devices
  /\ specs \in [DOMAIN specs -> DiskSpec]
  /\ GroupsTypeOK
  /\ initrd \in BOOLEAN
  /\ step \in Step
  /\ boot_disks \subseteq Devices
  /\ objects \subseteq Devices
  /\ known \subseteq Devices
  /\ present \subseteq Devices
  /\ mounts \subseteq Volumes
  /\ cmdline \in Volumes \cup {NoVolume}
  /\ root_form \in RootForm
  /\ seen \subseteq Volumes
  /\ pulled \subseteq Devices

HotPlug == OnUsb \cup RemovableFlag

InUse == UNION {v.on : v \in mounts}

NoDisks == [d \in {} |-> [key |-> UnknownModel, size_bytes |-> 0,
                          transport |-> "unknown", removable |-> FALSE]]

\* resolve_root_spec: what root= names, unless its link is missing or its form
\* unknown.
resolve_root_spec ==
  IF root_form \in {"dev", "linked"} THEN {cmdline} \ {NoVolume} ELSE {}

Init ==
  /\ specs = NoDisks
  /\ NotGrouping
  /\ initrd \in BOOLEAN
  /\ step = "start"
  /\ boot_disks = {} /\ objects = {} /\ known = {}
  /\ present \in SUBSET Devices
  /\ mounts \in SUBSET {v \in Volumes : v.on \subseteq present}
  /\ cmdline \in {v \in Volumes : v.on \subseteq present} \cup {NoVolume}
  /\ root_form \in IF cmdline = NoVolume THEN {"other"} ELSE RootForm
  /\ seen = mounts \cup resolve_root_spec
  /\ pulled = {}
----------------------------------------------------------------------------
\* The disk a mount source or root= names, when it is a plain device; a nested
\* path names none.
parent_disk_of_dev(v) == {v.source} \ {0}

boot_disks_from_mounts == UNION {parent_disk_of_dev(v) : v \in mounts}

boot_disk_from_cmdline == UNION {parent_disk_of_dev(v) : v \in resolve_root_spec}

\* Mutant: root= is not looked at.
read_mounted_disks == boot_disks_from_mounts

read_boot_disks == boot_disks_from_mounts \cup boot_disk_from_cmdline

\* By name; a name of no known family counts if its sysfs directory says that
\* it is not removable and not empty.
is_real_disk(d) ==
  \/ Family[d] \in DeviceFamily \ {"virtual", "other"}
  \/ Family[d] = "other" /\ d \in present \ RemovableFlag /\ Bytes[d] > 0

\* Without its sysfs directory a disk counts as not removable.
removable_from_dir(d) == d \in present \cap RemovableFlag

transport_from_device_name(d) ==
  CASE Family[d] = "nvme"   -> "nvme"
    [] Family[d] = "vd"     -> "virtio"
    [] Family[d] = "mmcblk" -> "mmc"
    [] Family[d] = "hd"     -> "ide"
    [] Family[d] = "xvd"    -> "xen"
    [] Family[d] = "sd"     -> "sata"
    [] OTHER                -> "unknown"

\* The connection bus of a drive, if it has a Drive object, and else its name.
udisks2_bus_to_transport(d) ==
  CASE d \in known /\ Bus[d] = "usb"  -> "usb"
    [] d \in known /\ Bus[d] = "sdio" -> "mmc"
    [] OTHER -> transport_from_device_name(d)

\* Only an sd* device is looked up on the USB bus.
detect_transport_sysfs(d) ==
  IF Family[d] = "sd" /\ d \in OnUsb THEN "usb" ELSE transport_from_device_name(d)

Acceptable(d) ==
  is_real_disk(d) /\ Bytes[d] >= TinySize /\ d \notin boot_disks

\* What UDisks2 lists is taken without a look at what backs it.
InSysfs(d) == Acceptable(d) /\ d \in Backed

UDisksSpec(d) ==
  [key |-> IF d \in known THEN Model[d] ELSE UnknownModel, size_bytes |-> Bytes[d],
   transport |-> udisks2_bus_to_transport(d), removable |-> removable_from_dir(d)]

SysfsSpec(d) ==
  [key |-> Model[d], size_bytes |-> Bytes[d],
   transport |-> detect_transport_sysfs(d), removable |-> removable_from_dir(d)]

is_last_resort_disk(s) == s.transport = "usb" \/ s.removable
----------------------------------------------------------------------------
\* GetManagedObjects fails, or answers with all block devices there are, of
\* which one may not belong to any drive.
GetManagedObjects ==
  /\ step = "start" /\ ~initrd
  /\ \/ step' = "sysfs_boot" /\ UNCHANGED <<objects, known>>
     \/ /\ step' = "udisks_boot"
        /\ objects' = present
        /\ \E d \in Devices \cup {0} : known' = present \ {d}
  /\ UNCHANGED <<specs, groupVars, boot_disks, machineVars, fixedVars>>

\* The initrd has neither D-Bus nor UDisks2.
detect_hardware_initrd ==
  /\ step = "start" /\ initrd
  /\ step' = "sysfs_boot"
  /\ UNCHANGED <<specs, groupVars, boot_disks, objects, known, machineVars, fixedVars>>

ReadBootDisks ==
  /\ \/ step = "udisks_boot" /\ step' = "udisks_scan"
     \/ step = "sysfs_boot" /\ step' = "sysfs_scan"
  /\ boot_disks' = read_boot_disks
  /\ UNCHANGED <<specs, groupVars, objects, known, machineVars, fixedVars>>

\* A block device without a device path gives up the whole scan, and a scan
\* without a disk is repeated in sysfs.
detect_disks_udisks2 ==
  /\ step = "udisks_scan"
  /\ \/ /\ \E d \in objects : Acceptable(d)
        /\ specs' = [d \in {e \in objects : Acceptable(e)} |-> UDisksSpec(d)]
        /\ step' = "prefer"
        /\ UNCHANGED <<objects, known>>
     \/ step' = "sysfs_boot" /\ objects' = {} /\ known' = {} /\ UNCHANGED specs
  /\ UNCHANGED <<groupVars, boot_disks, machineVars, fixedVars>>

detect_disks_sysfs_in ==
  /\ step = "sysfs_scan"
  /\ specs' = [d \in {e \in present : InSysfs(e)} |-> SysfsSpec(d)]
  /\ IF initrd
     THEN step' = "group" /\ from_disks(specs') /\ UNCHANGED <<current, at, merged>>
     ELSE step' = "prefer" /\ UNCHANGED groupVars
  /\ UNCHANGED <<boot_disks, objects, known, machineVars, fixedVars>>

\* Mutant: only USB disks are dropped.
prefer_internal_disks ==
  LET internal == {d \in disks : specs[d].transport # "usb"}
  IN IF internal = {} THEN specs ELSE [d \in internal |-> specs[d]]

\* Last-resort disks are dropped when there is a fixed one.
prefer_fixed_disks ==
  LET fixed == {d \in disks : ~is_last_resort_disk(specs[d])}
  IN IF fixed = {} THEN specs ELSE [d \in fixed |-> specs[d]]

PreferFixed ==
  /\ step = "prefer"
  /\ specs' = prefer_fixed_disks
  /\ step' = "group" /\ from_disks(specs')
  /\ UNCHANGED <<current, at, merged, boot_disks, objects, known, machineVars, fixedVars>>

\* The installer starts with the groups, and does not start without disks.
GroupDisks ==
  /\ step = "group"
  /\ IF disks = {} THEN step' = "no_disks" /\ UNCHANGED groupVars
                   ELSE merge_similar_groups /\ UNCHANGED step
  /\ UNCHANGED <<specs, boot_disks, objects, known, machineVars, fixedVars>>

detect_hardware ==
  \/ GetManagedObjects \/ detect_hardware_initrd \/ ReadBootDisks
  \/ detect_disks_udisks2 \/ detect_disks_sysfs_in \/ PreferFixed \/ GroupDisks

\* The machine changes while detection looks at it.
Detecting == step \notin {"group", "no_disks"}

Mount ==
  /\ Detecting
  /\ \E v \in Volumes \ mounts : v.on \subseteq present /\ mounts' = mounts \cup {v}
  /\ UNCHANGED <<specs, groupVars, detectVars, present, root_form, seen, pulled, fixedVars>>

Plug ==
  /\ Detecting
  /\ \E d \in HotPlug \ present : present' = present \cup {d}
  /\ UNCHANGED <<specs, groupVars, detectVars, mounts, root_form, seen, pulled, fixedVars>>

\* The links of a device go with it.
Unplug ==
  /\ Detecting
  /\ \E d \in (HotPlug \cap present) \ InUse :
       /\ present' = present \ {d}
       /\ pulled' = pulled \cup {d}
       /\ root_form' = IF root_form = "linked" /\ d \in cmdline.on THEN "unlinked"
                                                                  ELSE root_form
  /\ UNCHANGED <<specs, groupVars, detectVars, mounts, fixedVars>>
  /\ seen' = seen \cap (mounts \cup resolve_root_spec')

\* udev makes the link root= needs.
Link ==
  /\ Detecting
  /\ root_form = "unlinked" /\ cmdline.on \subseteq present
  /\ root_form' = "linked"
  /\ UNCHANGED <<specs, groupVars, detectVars, present, mounts, seen, pulled, fixedVars>>

Next == detect_hardware \/ Mount \/ Plug \/ Unplug \/ Link

Spec == Init /\ [][Next]_vars

----------------------------------------------------------------------------
Offered == step = "group"

\* Every disk that is offered is in exactly one group.
DisksPartitioned == Offered => GroupsPartition

\* read_boot_disks: a disk that /proc/mounts or root= names when detection
\* begins is not offered as long as they go on naming it, by either scan and in
\* the initrd, however often UDisks2 gives up and whatever is mounted meanwhile.
BootSpared ==
  Offered => \A v \in seen : v.source \notin disks

\* A disk that no one can unplug is found by every way of detection.
Fixed(d) ==
  /\ d \in (present \cap Backed) \ HotPlug
  /\ Family[d] # "virtual"
  /\ Bytes[d] >= TinySize
  /\ d \notin boot_disks

\* prefer_fixed_disks, by what a disk is and not by what was recorded of it:
\* beside a fixed disk no removable medium is offered, but for one pulled out
\* while UDisks2's list was read, and no USB disk, but for one that UDisks2
\* listed without its drive.
LastResortOnly ==
  Offered /\ ~initrd /\ (\E e \in Devices : Fixed(e)) =>
    \A d \in disks :
      /\ d \in RemovableFlag => d \in pulled
      /\ d \in OnUsb /\ Family[d] = "sd" => d \in objects \ known

\* read_boot_disks' comment: the disks that back the running system are never
\* offered, and root= always names the one it booted from.
RunningSystemSpared ==
  Offered => \A v \in seen \cup {cmdline} : v.on \cap disks = {}
=============================================================================
